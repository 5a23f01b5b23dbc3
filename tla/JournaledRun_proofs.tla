-------------------------- MODULE JournaledRun_proofs ------------------------
(***************************************************************************)
(* Proofs about the two executions that survive their process.             *)
(*                                                                         *)
(* JournaledRun: for any number of interruptions and sends, any set of     *)
(* fragile stages and any contested stages, with transactions that may be  *)
(* forgotten.                                                              *)
(*                                                                         *)
(* LivingDemo: for any journey of distinct steps, any number of requests   *)
(* at the same time, and any number of failed calls, deaths and resets.    *)
(***************************************************************************)
EXTENDS JournaledRun, LivingDemo, FiniteSetTheorems, SequenceTheorems, WellFoundedInduction, TLAPS

Entries == [state : States, payload : Nat, hash : Nat, receipt : BOOLEAN,
            record : BOOLEAN, verified : BOOLEAN]

Tx == [payload : Nat, by : {"runner", "other"},
       fate : {"pending", "success", "reverted", "dropped"}]

Pcs == {"down", "pipeline", "stage", "prepare", "setup-context", "freeze",
        "execute", "settle", "mark", "await", "verify"}

DataTypes ==
  /\ journal \in [Stage -> Entries]
  /\ txs \in [OnChain -> Seq(Tx)]
  /\ reveal \in [Sources -> Nat]

ProcType == proc \in [pc : Pcs, at : 1..32, hash : Nat, step : Nat]

\* Transaction h of stage s is the runner's, with the payload p.
Sent(s, h, p) == /\ s \in OnChain /\ h \in DOMAIN txs[s]
                 /\ txs[s][h].by = "runner" /\ txs[s][h].payload = p

\* What an entry of the journal may say of its stage.
EntryOK(s, e) ==
  /\ e.verified => e.state = "CONFIRMED"
  /\ e.state = "NOT_STARTED" => e = NotStarted
  /\ e.state = "AWAITING_EXTERNAL" => s = "AWAITING_VAULT_APASS"
  /\ e.hash # 0 => Sent(s, e.hash, e.payload)

\* What sealing a stage has established.
SealOK(s, e) ==
  e.verified =>
    /\ s \in OnChain => \E i \in with(s, "success") : Sent(s, i, e.payload)
    /\ s \in Sources => reveal[s] = e.payload

\* A stage takes effect once, and the runner's account makes every
\* transaction of a stage that nobody contests.
ChainOK(s) ==
  /\ \A i, j \in with(s, "success") : i = j
  /\ s \notin Rivals => \A i \in DOMAIN txs[s] : txs[s][i].by = "runner"

\* What the runner relies on at each step of a stage.
StepOK(pc, s, e) ==
  /\ ~e.verified
  /\ pc \in {"prepare", "setup-context", "freeze"} => e.state \in {"NOT_STARTED", "PREPARED", "BROADCAST"}
  /\ pc \in {"execute", "settle", "mark"} => e.state = "PREPARED"
  /\ pc \in {"mark", "await"} => proc.hash # 0 /\ Sent(s, proc.hash, e.payload)
  /\ pc = "await" => e.state = "BROADCAST" /\ e.hash = proc.hash
  /\ pc = "verify" => e.state = "CONFIRMED"

Working == proc.pc \notin {"down", "pipeline"}

ProcOK ==
  /\ proc.pc # "down" => \A j \in 1..(proc.at - 1) : sealed(STAGES[j])
  /\ Working => proc.at \in DOMAIN STAGES /\ StepOK(proc.pc, at, journal[at])

\* What the journal says is true of the chain and of the reveal packages.
JournalOK ==
  /\ DataTypes
  /\ \A s \in Stage : EntryOK(s, journal[s]) /\ SealOK(s, journal[s])
  /\ \A s \in OnChain : ChainOK(s)
  /\ SpineIsSealed

\* The inductive invariant.
RunInv == JournalOK /\ ProcType /\ ProcOK

\* A step that keeps what the journal froze, failed or sealed.
Kept ==
  \A s \in Stage :
    /\ journal[s].payload # 0 => journal'[s].payload = journal[s].payload
    /\ journal[s].state \in {"FAILED", "AMBIGUOUS"} => journal'[s] = journal[s]
    /\ sealed(s) => journal'[s] = journal[s]

-----------------------------------------------------------------------------
\* The pipeline.

\* Every non-empty set of naturals has a least element.
LEMMA LeastNat ==
  ASSUME NEW T \in SUBSET Nat, T # {}
  PROVE  \E x \in T : \A y \in T : x <= y
<1> DEFINE D == {1..n : n \in T}
<1>1. \A n \in T : IsFiniteSet(1..n) /\ 1..n \in SUBSET Nat
  <2> TAKE n \in T
  <2>1. n \in Int /\ 1 \in Int
    OBVIOUS
  <2>2. IsFiniteSet(1..n)
    BY <2>1, FS_Interval
  <2> QED
    BY <2>1, <2>2
<1>2. D \subseteq FiniteSubsetsOf(Nat) /\ D # {}
  BY <1>1 DEF FiniteSubsetsOf
<1>3. PICK d \in D : \A e \in D : ~(<<e, d>> \in StrictSubsetOrdering(Nat))
  <2>1. IsWellFoundedOn(StrictSubsetOrdering(Nat), FiniteSubsetsOf(Nat))
    BY FS_StrictSubsetOrderingWellFounded
  <2> HIDE DEF D
  <2> QED
    BY <1>2, <2>1, WFMin
<1>4. PICK x \in T : d = 1..x
  OBVIOUS
<1>5. ASSUME NEW y \in T, y < x
      PROVE  FALSE
  <2>1. 1..y \in SUBSET Nat /\ 1..x \in SUBSET Nat
    BY <1>1
  <2>2. 1..y \subseteq 1..x /\ x \in 1..x /\ x \notin 1..y
    BY <1>5
  <2>3. <<1..y, 1..x>> \in StrictSubsetOrdering(Nat)
    BY <2>1, <2>2 DEF StrictSubsetOrdering
  <2> QED
    BY <1>3, <1>4, <2>3
<1> QED
  BY <1>4, <1>5

Names == {AdmissionStages[i] : i \in 1..14} \cup {definitions[i][1] : i \in 1..15}
           \cup {"CEREMONY_CONTEXT_PREPARED", "CEREMONY_COMPLETED"}

\* c holds the stages of a and then those of b.
JoinedTo(a, b, c) ==
  /\ c \in Seq(Names) /\ Len(c) = Len(a) + Len(b)
  /\ \A i \in 1..Len(a) : c[i] = a[i]
  /\ \A i \in 1..Len(b) : c[Len(a) + i] = b[i]

\* What the concatenation of two lists holds.
LEMMA Joined ==
  ASSUME NEW a, NEW b, NEW c, a \in Seq(Names) /\ b \in Seq(Names), c = a \o b
  PROVE  JoinedTo(a, b, c)
<1>1. /\ a \o b \in Seq(Names)
      /\ Len(a \o b) = Len(a) + Len(b)
      /\ \A i \in 1 .. Len(a) + Len(b) : (a \o b)[i] = IF i <= Len(a) THEN a[i] ELSE b[i - Len(a)]
  BY ConcatProperties, Zenon
<1>2. JoinedTo(a, b, a \o b)
  BY <1>1 DEF JoinedTo
<1> QED
  BY <1>2, Zenon

\* The stages before the ceremony, and those between its context and its
\* completion.
LEMMA PartsType ==
  /\ AdmissionStages \in Seq(Names) /\ Len(AdmissionStages) = 14
  /\ [i \in DOMAIN definitions |-> definitions[i][1]] \in Seq(Names)
  /\ Len([i \in DOMAIN definitions |-> definitions[i][1]]) = 15
  /\ <<"CEREMONY_CONTEXT_PREPARED">> \in Seq(Names) /\ <<"CEREMONY_COMPLETED">> \in Seq(Names)
  /\ DOMAIN definitions = 1..15
<1>1. Len(AdmissionStages) = 14 /\ DOMAIN AdmissionStages = 1..14
      /\ AdmissionStages \in Seq({AdmissionStages[i] : i \in 1..14})
  BY DEF AdmissionStages
<1>2. \A i \in 1..14 : AdmissionStages[i] \in Names
  BY DEF Names
<1>3. AdmissionStages \in Seq(Names)
  BY <1>1, <1>2
<1>4. DOMAIN definitions = 1..15
  BY DEF definitions
<1>5. \A i \in 1..15 : definitions[i][1] \in Names
  BY DEF Names
<1>6. /\ [i \in 1..15 |-> definitions[i][1]] \in Seq(Names)
      /\ Len([i \in 1..15 |-> definitions[i][1]]) = 15
  BY <1>5
<1>7. "CEREMONY_CONTEXT_PREPARED" \in Names /\ "CEREMONY_COMPLETED" \in Names
  BY DEF Names
<1> QED
  BY <1>1, <1>3, <1>4, <1>6, <1>7

\* The seventeen stages of the ceremony.
LEMMA CeremonyType ==
  /\ CeremonyStages \in Seq(Names) /\ Len(CeremonyStages) = 17
  /\ CeremonyStages[1] = "CEREMONY_CONTEXT_PREPARED" /\ CeremonyStages[17] = "CEREMONY_COMPLETED"
  /\ \A i \in 1..15 : CeremonyStages[1 + i] = definitions[i][1]
<1>d. PICK d : d = [i \in DOMAIN definitions |-> definitions[i][1]]
  OBVIOUS
<1>x. PICK x : x = <<"CEREMONY_CONTEXT_PREPARED">>
  OBVIOUS
<1>y. PICK y : y = <<"CEREMONY_COMPLETED">>
  OBVIOUS
<1>1. d \in Seq(Names) /\ Len(d) = 15 /\ x \in Seq(Names) /\ y \in Seq(Names) /\ Len(x) = 1 /\ Len(y) = 1
  BY <1>d, <1>x, <1>y, PartsType
<1>2. x[1] = "CEREMONY_CONTEXT_PREPARED" /\ y[1] = "CEREMONY_COMPLETED"
      /\ \A i \in 1..15 : d[i] = definitions[i][1]
  BY <1>d, <1>x, <1>y, PartsType
<1>3. PICK xd : xd = x \o d
  OBVIOUS
<1>4. xd \in Seq(Names) /\ Len(xd) = Len(x) + Len(d) /\ (\A i \in 1..Len(x) : xd[i] = x[i])
      /\ \A i \in 1..Len(d) : xd[Len(x) + i] = d[i]
  <2>1. JoinedTo(x, d, xd)
    BY <1>1, <1>3, Joined, Zenon
  <2> QED
    BY <2>1 DEF JoinedTo
<1>5. PICK c : c = xd \o y
  OBVIOUS
<1>6. xd \in Seq(Names) /\ Len(xd) = 16
  BY <1>1, <1>4
<1>7. c \in Seq(Names) /\ Len(c) = Len(xd) + Len(y) /\ (\A i \in 1..Len(xd) : c[i] = xd[i])
      /\ \A i \in 1..Len(y) : c[Len(xd) + i] = y[i]
  <2>1. xd \in Seq(Names) /\ y \in Seq(Names)
    BY <1>1, <1>6
  <2>2. JoinedTo(xd, y, c)
    BY <1>5, <2>1, Joined, Zenon
  <2> QED
    BY <2>2 DEF JoinedTo
<1>8. Len(c) = 17 /\ c[1] = x[1] /\ c[17] = y[1] /\ \A i \in 1..15 : c[1 + i] = d[i]
  <2>1. \A i \in 1..16 : c[i] = xd[i]
    BY <1>6, <1>7
  <2>2. xd[1] = x[1] /\ \A i \in 1..15 : xd[1 + i] = d[i]
    BY <1>1, <1>4
  <2>3. c[17] = y[1] /\ Len(c) = 17
    BY <1>1, <1>6, <1>7
  <2>4. \A i \in 1..15 : 1 + i \in 1..16
    OBVIOUS
  <2> QED
    BY <2>1, <2>2, <2>3, <2>4
<1>9. CeremonyStages = c
  BY <1>d, <1>x, <1>y, <1>3, <1>5 DEF CeremonyStages
<1> QED
  BY <1>2, <1>7, <1>8, <1>9

\* The pipeline has thirty-one stages, the transaction stages among them.
LEMMA StagesType ==
  /\ Len(STAGES) = 31 /\ DOMAIN STAGES = 1..31
  /\ \A i \in 1..31 : STAGES[i] \in Stage
  /\ \A i \in 1..14 : STAGES[i] = AdmissionStages[i]
  /\ \A i \in 1..17 : STAGES[14 + i] = CeremonyStages[i]
<1>1. PICK a, c : a = AdmissionStages /\ c = CeremonyStages
  OBVIOUS
<1>2. a \in Seq(Names) /\ Len(a) = 14 /\ c \in Seq(Names) /\ Len(c) = 17
  BY <1>1, PartsType, CeremonyType
<1>3. PICK s : s = a \o c
  OBVIOUS
<1>4. s \in Seq(Names) /\ Len(s) = Len(a) + Len(c) /\ (\A i \in 1..Len(a) : s[i] = a[i])
      /\ \A i \in 1..Len(c) : s[Len(a) + i] = c[i]
  <2>1. a \in Seq(Names) /\ c \in Seq(Names)
    BY <1>2
  <2>2. JoinedTo(a, c, s)
    BY <1>3, <2>1, Joined, Zenon
  <2> QED
    BY <2>2 DEF JoinedTo
<1>5. Len(s) = 31 /\ DOMAIN s = 1..31
  BY <1>2, <1>4
<1>6. STAGES = s
  BY <1>1, <1>3 DEF STAGES
<1>7. \A i \in 1..31 : STAGES[i] \in Stage
  BY <1>5, <1>6 DEF Stage
<1> QED
  BY <1>1, <1>2, <1>4, <1>5, <1>6, <1>7

\* Every transaction stage is a stage.
LEMMA OnChainStages ==
  OnChain \subseteq Stage /\ Sources \subseteq OnChain
<1>1. /\ STAGES[5] = "VAULT_CREATED" /\ STAGES[7] = "VAULT_ACTIVATED"
      /\ STAGES[8] = "SOURCE_A_COMMITTED" /\ STAGES[9] = "SOURCE_B_COMMITTED"
      /\ STAGES[10] = "GOVERNANCE_A_CREATED" /\ STAGES[11] = "GOVERNANCE_B_CREATED"
      /\ STAGES[14] = "SESSION_COMMITTED"
  BY StagesType DEF AdmissionStages
<1>2. \A s \in OnChain : \E i \in 1..31 : s = STAGES[i]
  BY <1>1 DEF OnChain, Sources, Governance
<1>3. OnChain \subseteq Stage
  BY <1>2, StagesType
<1> QED
  BY <1>3 DEF OnChain

\* No stage is listed twice.
LEMMA StagesDistinct ==
  \A i, j \in 1..31 : STAGES[i] = STAGES[j] => i = j
<1>1. \A i, j \in 1..14 : AdmissionStages[i] = AdmissionStages[j] => i = j
  BY DEF AdmissionStages
<1>2. \A i, j \in 1..15 : definitions[i][1] = definitions[j][1] => i = j
  BY DEF definitions
<1>3. \A i \in 1..15 : definitions[i][1] # "CEREMONY_CONTEXT_PREPARED" /\ definitions[i][1] # "CEREMONY_COMPLETED"
  BY DEF definitions
<1>4. \A i \in 1..14 : \A j \in 1..15 : AdmissionStages[i] # definitions[j][1]
  BY DEF AdmissionStages, definitions
<1>5. \A i \in 1..14 : AdmissionStages[i] # "CEREMONY_CONTEXT_PREPARED" /\ AdmissionStages[i] # "CEREMONY_COMPLETED"
  BY DEF AdmissionStages
<1>6. \A i, j \in 1..17 : CeremonyStages[i] = CeremonyStages[j] => i = j
  <2>1. \A i \in 1..17 : i = 1 \/ i = 17 \/ \E k \in 1..15 : i = 1 + k
    OBVIOUS
  <2>2. /\ CeremonyStages[1] = "CEREMONY_CONTEXT_PREPARED" /\ CeremonyStages[17] = "CEREMONY_COMPLETED"
        /\ \A i \in 1..15 : CeremonyStages[1 + i] = definitions[i][1]
    BY CeremonyType
  <2> SUFFICES ASSUME NEW i \in 1..17, NEW j \in 1..17, CeremonyStages[i] = CeremonyStages[j]
               PROVE  i = j
    OBVIOUS
  <2>3. CASE i \in {1, 17}
    BY <1>3, <2>1, <2>2, <2>3
  <2>4. CASE j \in {1, 17}
    BY <1>3, <2>1, <2>2, <2>4
  <2>5. CASE i \notin {1, 17} /\ j \notin {1, 17}
    <3>1. PICK k \in 1..15 : i = 1 + k
      BY <2>1, <2>5
    <3>2. PICK l \in 1..15 : j = 1 + l
      BY <2>1, <2>5
    <3> QED
      BY <1>2, <2>2, <3>1, <3>2
  <2> QED
    BY <2>3, <2>4, <2>5
<1>7. \A i \in 1..14 : \A j \in 1..17 : AdmissionStages[i] # CeremonyStages[j]
  <2>1. \A i \in 1..17 : i = 1 \/ i = 17 \/ \E k \in 1..15 : i = 1 + k
    OBVIOUS
  <2> QED
    BY <1>4, <1>5, <2>1, CeremonyType
<1>8. \A i \in 1..31 : i \in 1..14 \/ \E k \in 1..17 : i = 14 + k
  OBVIOUS
<1> QED
  BY <1>1, <1>6, <1>7, <1>8, StagesType

-----------------------------------------------------------------------------
\* Steps of the chain.

\* Nothing that was sent is taken back or changed, and what has taken
\* effect stays.
ChainGrows ==
  /\ txs' \in [OnChain -> Seq(Tx)]
  /\ \A s \in OnChain : ChainOK(s)'
  /\ \A s \in OnChain : \A i \in DOMAIN txs[s] :
       /\ i \in DOMAIN txs'[s]
       /\ txs'[s][i].by = txs[s][i].by /\ txs'[s][i].payload = txs[s][i].payload
       /\ txs[s][i].fate = "success" => txs'[s][i].fate = "success"

\* A transaction that was sent for a stage stays sent.
LEMMA SentStays ==
  ASSUME ChainGrows, NEW s, NEW h, NEW p, Sent(s, h, p)
  PROVE  Sent(s, h, p)'
BY DEF ChainGrows, Sent

\* An entry that was true of the chain stays true of it.
LEMMA EntryStays ==
  ASSUME ChainGrows, NEW s, NEW e, EntryOK(s, e)
  PROVE  EntryOK(s, e)'
<1>1. ASSUME e.hash # 0
      PROVE  Sent(s, e.hash, e.payload)'
  <2>1. Sent(s, e.hash, e.payload)
    BY <1>1 DEF EntryOK
  <2> QED
    BY <2>1, SentStays
<1> QED
  BY <1>1 DEF EntryOK

\* What a seal established stays established, if the reveal package of a
\* sealed source is left alone.
LEMMA SealStays ==
  ASSUME ChainGrows, NEW s, NEW e, SealOK(s, e),
         s \in Sources /\ e.verified => reveal'[s] = reveal[s]
  PROVE  SealOK(s, e)'
<1>1. ASSUME e.verified, s \in OnChain
      PROVE  \E i \in with(s, "success")' : Sent(s, i, e.payload)'
  <2>1. PICK i \in with(s, "success") : Sent(s, i, e.payload)
    BY <1>1 DEF SealOK
  <2>2. Sent(s, i, e.payload)'
    BY <2>1, SentStays
  <2>3. i \in with(s, "success")'
    BY <1>1, <2>1 DEF with, ChainGrows
  <2> QED
    BY <2>2, <2>3
<1> QED
  BY <1>1 DEF SealOK

\* With the journal untouched a step of the chain, or of a reveal package
\* whose source is not sealed, keeps the journal true.
LEMMA WorldMoves ==
  ASSUME JournalOK, ChainGrows, journal' = journal, reveal' \in [Sources -> Nat],
         \A s \in Sources : journal[s].verified => reveal'[s] = reveal[s]
  PROVE  JournalOK'
<1>1. ASSUME NEW s \in Stage
      PROVE  EntryOK(s, journal[s])' /\ SealOK(s, journal[s])'
  <2>1. PICK e : e = journal[s]
    OBVIOUS
  <2>2. EntryOK(s, e) /\ SealOK(s, e)
    BY <2>1 DEF JournalOK
  <2>3. s \in Sources /\ e.verified => reveal'[s] = reveal[s]
    BY <2>1
  <2>4. EntryOK(s, e)'
    BY <2>2, EntryStays
  <2>5. SealOK(s, e)'
    BY <2>2, <2>3, SealStays
  <2>6. journal'[s] = e
    BY <2>1
  <2> QED
    BY <2>4, <2>5, <2>6
<1>2. DataTypes'
  BY DEF JournalOK, DataTypes, ChainGrows
<1>3. SpineIsSealed'
  BY DEF JournalOK, SpineIsSealed, sealed
<1>4. \A s \in OnChain : ChainOK(s)'
  BY DEF ChainGrows
<1> QED
  BY <1>1, <1>2, <1>3, <1>4 DEF JournalOK

\* An unchanged chain grows.
LEMMA ChainStays ==
  ASSUME JournalOK, txs' = txs
  PROVE  ChainGrows
<1>1. \A s \in OnChain : ChainOK(s)'
  BY DEF JournalOK, ChainOK, with
<1> QED
  BY <1>1 DEF ChainGrows, JournalOK, DataTypes

\* The runner where it was, over a journal that did not change.
LEMMA RunnerStays ==
  ASSUME ProcType, ProcOK, ChainGrows, journal' = journal, proc' = proc
  PROVE  ProcType' /\ ProcOK'
<1>1. ProcType'
  BY DEF ProcType
<1>2. at' = at
  BY DEF at
<1>3. ASSUME Working
      PROVE  StepOK(proc.pc, at, journal[at])'
  <2>1. PICK p, s, e, h : p = proc.pc /\ s = at /\ e = journal[at] /\ h = proc.hash
    OBVIOUS
  <2>2. StepOK(p, s, e)
    BY <1>3, <2>1 DEF ProcOK
  <2>3. p \in {"mark", "await"} => Sent(s, h, e.payload)'
    BY <2>1, <2>2, SentStays DEF StepOK
  <2>4. StepOK(p, s, e)'
    BY <2>1, <2>2, <2>3 DEF StepOK
  <2> QED
    BY <1>2, <2>1, <2>4
<1> QED
  BY <1>1, <1>2, <1>3 DEF ProcOK, Working, sealed

\* What a stage holds is its one successful transaction.
LEMMA StoredIs ==
  ASSUME JournalOK, NEW s \in OnChain
  PROVE  /\ stored(s) = 0 => with(s, "success") = {}
         /\ stored(s) # 0 => stored(s) \in with(s, "success")
         /\ \A i \in with(s, "success") : stored(s) = i
<1>1. txs[s] \in Seq(Tx)
  BY DEF JournalOK, DataTypes
<1>2. DOMAIN txs[s] = 1..Len(txs[s]) /\ Len(txs[s]) \in Nat
  BY <1>1
<1>3. with(s, "success") # {} => stored(s) \in with(s, "success")
  BY DEF stored
<1>4. \A i \in with(s, "success") : i # 0
  BY <1>2 DEF with
<1>5. \A i, j \in with(s, "success") : i = j
  BY DEF JournalOK, ChainOK
<1> QED
  BY <1>3, <1>4, <1>5 DEF stored

\* A pending transaction meets its fate: it succeeds only where nothing
\* has succeeded.
LEMMA FateGrows ==
  ASSUME JournalOK, NEW s \in OnChain, NEW i \in with(s, "pending"),
         NEW f \in {"success", "reverted", "dropped"}, f = "success" => stored(s) = 0,
         txs' = [txs EXCEPT ![s][i].fate = f]
  PROVE  ChainGrows
<1>1. txs \in [OnChain -> Seq(Tx)] /\ txs[s] \in Seq(Tx)
  BY DEF JournalOK, DataTypes
<1>2. i \in DOMAIN txs[s] /\ txs[s][i].fate = "pending"
  BY DEF with
<1>3. PICK t : t = txs[s]
  OBVIOUS
<1>4. t \in Seq(Tx) /\ i \in 1..Len(t) /\ t[i] \in Tx
  BY <1>1, <1>2, <1>3
<1>5. PICK y : y = [t[i] EXCEPT !.fate = f]
  OBVIOUS
<1>6. y \in Tx /\ y.by = t[i].by /\ y.payload = t[i].payload /\ y.fate = f
  BY <1>4, <1>5 DEF Tx
<1>7. PICK u : u = [t EXCEPT ![i] = y]
  OBVIOUS
<1>8. u \in Seq(Tx) /\ DOMAIN u = DOMAIN t /\ u[i] = y /\ \A j \in DOMAIN t : j # i => u[j] = t[j]
  BY <1>4, <1>6, <1>7
<1>9. txs' = [txs EXCEPT ![s] = u]
  BY <1>3, <1>5, <1>7
<1>10. txs' \in [OnChain -> Seq(Tx)] /\ txs'[s] = u /\ \A r \in OnChain : r # s => txs'[r] = txs[r]
  BY <1>1, <1>8, <1>9
<1> HIDE DEF Tx
<1>11. ASSUME NEW r \in OnChain
       PROVE  ChainOK(r)'
  <2>1. ChainOK(r)
    BY DEF JournalOK
  <2>2. CASE r # s
    BY <1>10, <2>1, <2>2 DEF ChainOK, with
  <2>3. CASE r = s
    <3>1. \A j, k \in with(s, "success")' : j = k
      <4>1. CASE f = "success"
        <5>1. with(s, "success") = {}
          BY <4>1, StoredIs
        <5>2. \A j \in DOMAIN t : t[j].fate # "success"
          BY <1>3, <5>1 DEF with
        <5>3. \A j \in with(s, "success")' : j = i
          BY <1>8, <1>10, <5>2 DEF with
        <5> QED
          BY <5>3
      <4>2. CASE f # "success"
        <5>1. \A j \in with(s, "success")' : j \in with(s, "success")
          BY <1>3, <1>6, <1>8, <1>10, <4>2 DEF with
        <5> QED
          BY <2>1, <2>3, <5>1 DEF ChainOK
      <4> QED
        BY <4>1, <4>2
    <3>2. s \notin Rivals => \A j \in DOMAIN txs'[s] : txs'[s][j].by = "runner"
      BY <1>3, <1>4, <1>6, <1>8, <1>10, <2>1, <2>3 DEF ChainOK
    <3> QED
      BY <2>3, <3>1, <3>2 DEF ChainOK
  <2> QED
    BY <2>2, <2>3
<1>12. ASSUME NEW r \in OnChain, NEW j \in DOMAIN txs[r]
       PROVE  /\ j \in DOMAIN txs'[r]
              /\ txs'[r][j].by = txs[r][j].by /\ txs'[r][j].payload = txs[r][j].payload
              /\ txs[r][j].fate = "success" => txs'[r][j].fate = "success"
  <2>1. CASE r # s
    BY <1>10, <2>1
  <2>2. CASE r = s /\ j # i
    BY <1>3, <1>8, <1>10, <2>2
  <2>3. CASE r = s /\ j = i
    BY <1>2, <1>3, <1>6, <1>8, <1>10, <2>3
  <2> QED
    BY <2>1, <2>2, <2>3
<1> QED
  BY <1>10, <1>11, <1>12 DEF ChainGrows

\* A transaction is sent for a stage: by the runner, to be mined, or by a
\* rival of a contested stage that holds nothing yet.
LEMMA SendGrows ==
  ASSUME JournalOK, NEW s \in OnChain, NEW y \in Tx,
         y.fate = "success" => stored(s) = 0, y.by # "runner" => s \in Rivals,
         txs' = [txs EXCEPT ![s] = Append(@, y)]
  PROVE  /\ ChainGrows
         /\ Len(txs[s]) + 1 \in DOMAIN txs'[s] /\ txs'[s][Len(txs[s]) + 1] = y
<1>1. txs \in [OnChain -> Seq(Tx)] /\ txs[s] \in Seq(Tx)
  BY DEF JournalOK, DataTypes
<1>2. PICK t, n : t = txs[s] /\ n = Len(txs[s]) + 1
  OBVIOUS
<1>3. PICK u : u = Append(t, y)
  OBVIOUS
<1>4. /\ t \in Seq(Tx) /\ n \in Nat /\ n >= 1 /\ DOMAIN t = 1..(n - 1) /\ u \in Seq(Tx) /\ DOMAIN u = 1..n
      /\ u[n] = y /\ \A j \in DOMAIN t : u[j] = t[j]
  BY <1>1, <1>2, <1>3
<1>5. txs' = [txs EXCEPT ![s] = u]
  BY <1>2, <1>3
<1>6. txs' \in [OnChain -> Seq(Tx)] /\ txs'[s] = u /\ \A r \in OnChain : r # s => txs'[r] = txs[r]
  BY <1>1, <1>4, <1>5
<1>7. \A j \in DOMAIN u : j = n \/ j \in DOMAIN t
  BY <1>4
<1>8. \A j \in DOMAIN t : j \in DOMAIN u
  BY <1>4
<1>9. ASSUME NEW r \in OnChain
      PROVE  ChainOK(r)'
  <2>1. ChainOK(r)
    BY DEF JournalOK
  <2>2. CASE r # s
    BY <1>6, <2>1, <2>2 DEF ChainOK, with
  <2>3. CASE r = s
    <3>1. \A j, k \in with(s, "success")' : j = k
      <4>1. CASE y.fate = "success"
        <5>1. with(s, "success") = {}
          BY <4>1, StoredIs
        <5>2. \A j \in DOMAIN t : t[j].fate # "success"
          BY <1>2, <5>1 DEF with
        <5>3. \A j \in with(s, "success")' : j = n
          BY <1>4, <1>6, <1>7, <5>2 DEF with
        <5> QED
          BY <5>3
      <4>2. CASE y.fate # "success"
        <5>1. \A j \in with(s, "success")' : j \in with(s, "success")
          BY <1>2, <1>4, <1>6, <1>7, <4>2 DEF with
        <5> QED
          BY <2>1, <2>3, <5>1 DEF ChainOK
      <4> QED
        BY <4>1, <4>2
    <3>2. s \notin Rivals => \A j \in DOMAIN txs'[s] : txs'[s][j].by = "runner"
      BY <1>2, <1>4, <1>6, <1>7, <2>1, <2>3 DEF ChainOK
    <3> QED
      BY <2>3, <3>1, <3>2 DEF ChainOK
  <2> QED
    BY <2>2, <2>3
<1>10. ASSUME NEW r \in OnChain, NEW j \in DOMAIN txs[r]
       PROVE  /\ j \in DOMAIN txs'[r]
              /\ txs'[r][j].by = txs[r][j].by /\ txs'[r][j].payload = txs[r][j].payload
              /\ txs[r][j].fate = "success" => txs'[r][j].fate = "success"
  <2>1. CASE r # s
    BY <1>6, <2>1
  <2>2. CASE r = s
    BY <1>2, <1>4, <1>6, <1>8, <2>2
  <2> QED
    BY <2>1, <2>2
<1>11. ChainGrows
  BY <1>6, <1>9, <1>10 DEF ChainGrows
<1>12. n \in DOMAIN u
  BY <1>4
<1> QED
  BY <1>2, <1>4, <1>6, <1>11, <1>12

\* A step of the chain, of the activation's prerequisites or of the
\* issuer, while the runner and the journal stay where they are.
LEMMA OutsideKeeps ==
  ASSUME RunInv, ChainGrows, journal' = journal, reveal' = reveal, proc' = proc
  PROVE  RunInv' /\ Kept
<1>1. JournalOK /\ ProcType /\ ProcOK
  BY DEF RunInv
<1>2. JournalOK'
  BY <1>1, WorldMoves DEF JournalOK, DataTypes
<1>3. ProcType' /\ ProcOK'
  BY <1>1, RunnerStays
<1>4. Kept
  BY DEF Kept
<1> QED
  BY <1>2, <1>3, <1>4 DEF RunInv

\* The transactions of a stage that wait are found in order.
LEMMA PendingOrder ==
  ASSUME JournalOK, NEW s \in OnChain, with(s, "pending") # {}
  PROVE  /\ \E i \in with(s, "pending") : \A j \in with(s, "pending") : i <= j
         /\ \E i \in with(s, "pending") : \A j \in with(s, "pending") : i >= j
<1>1. txs[s] \in Seq(Tx)
  BY DEF JournalOK, DataTypes
<1>2. PICK n, W : n = Len(txs[s]) /\ W = with(s, "pending")
  OBVIOUS
<1>3. n \in Nat /\ W \subseteq 1..n /\ W # {}
  BY <1>1, <1>2 DEF with
<1>4. W \in SUBSET Nat
  BY <1>3
<1>5. \E i \in W : \A j \in W : i <= j
  BY <1>3, <1>4, LeastNat
<1>6. \E i \in W : \A j \in W : i >= j
  <2>1. PICK V : V = {n - i : i \in W}
    OBVIOUS
  <2>2. V \in SUBSET Nat /\ V # {}
    <3>1. PICK w \in W : TRUE
      BY <1>3
    <3>2. n - w \in V
      BY <2>1
    <3>3. \A i \in W : n - i \in Nat
      BY <1>3
    <3>4. \A v \in V : v \in Nat
      BY <2>1, <3>3
    <3> QED
      BY <3>2, <3>4
  <2>3. PICK v \in V : \A w \in V : v <= w
    BY <2>2, LeastNat
  <2>4. PICK i \in W : v = n - i
    BY <2>1
  <2>5. ASSUME NEW j \in W
        PROVE  i >= j
    <3>1. n - j \in V
      BY <2>1
    <3>2. n - i <= n - j
      BY <2>3, <2>4, <3>1
    <3> QED
      BY <1>3, <3>2
  <2> QED
    BY <2>5
<1> QED
  BY <1>2, <1>5, <1>6

\* A transaction is mined.
LEMMA MineKeeps ==
  ASSUME RunInv, NEW s \in OnChain, mine(s)
  PROVE  RunInv' /\ Kept
<1>1. JournalOK
  BY DEF RunInv
<1>2. with(s, "pending") # {}
  BY DEF mine
<1> DEFINE i == CHOOSE k \in with(s, "pending") : \A j \in with(s, "pending") : k <= j
<1> DEFINE f == IF accepted(s) THEN "success" ELSE "reverted"
<1>3. i \in with(s, "pending")
  BY <1>1, <1>2, PendingOrder
<1>4. txs' = [txs EXCEPT ![s][i].fate = f]
  BY DEF mine
<1>5. f \in {"success", "reverted", "dropped"} /\ (f = "success" => stored(s) = 0)
  BY DEF accepted
<1> HIDE DEF i, f
<1>6. ChainGrows
  BY <1>1, <1>3, <1>4, <1>5, FateGrows
<1> QED
  BY <1>6, OutsideKeeps DEF mine

\* A node forgets a pending transaction.
LEMMA DropKeeps ==
  ASSUME RunInv, NEW s \in OnChain, drop(s)
  PROVE  RunInv' /\ Kept
<1>1. JournalOK
  BY DEF RunInv
<1>2. with(s, "pending") # {}
  BY DEF drop
<1> DEFINE i == CHOOSE k \in with(s, "pending") : \A j \in with(s, "pending") : k >= j
<1>3. i \in with(s, "pending")
  BY <1>1, <1>2, PendingOrder
<1>4. txs' = [txs EXCEPT ![s][i].fate = "dropped"]
  BY DEF drop
<1> HIDE DEF i
<1>6. ChainGrows
  BY <1>1, <1>3, <1>4, FateGrows
<1> QED
  BY <1>6, OutsideKeeps DEF drop

\* Another authorized account has its copy mined first.
LEMMA RivalKeeps ==
  ASSUME RunInv, NEW s \in OnChain, rival(s)
  PROVE  RunInv' /\ Kept
<1>1. JournalOK
  BY DEF RunInv
<1>2. PICK t : t = txs[s]
  OBVIOUS
<1>3. t \in Seq(Tx)
  BY <1>1, <1>2 DEF JournalOK, DataTypes
<1>4. PICK i \in DOMAIN t : TRUE
  BY <1>2 DEF rival, with
<1>5. t[1] \in Tx
  BY <1>3, <1>4
<1>6. PICK y : y = [payload |-> t[1].payload, by |-> "other", fate |-> "success"]
  OBVIOUS
<1>7. y \in Tx /\ y.fate = "success"
  BY <1>5, <1>6 DEF Tx
<1>8. txs' = [txs EXCEPT ![s] = Append(@, y)] /\ s \in Rivals /\ stored(s) = 0
  BY <1>1, <1>2, <1>6 DEF rival, JournalOK, DataTypes
<1>9. ChainGrows
  BY <1>1, <1>7, <1>8, SendGrows
<1> QED
  BY <1>9, OutsideKeeps DEF rival

\* The prerequisites of the activation and the issuer touch neither the
\* journal nor the stages' transactions.
LEMMA AsideKeeps ==
  ASSUME RunInv, mineSetup \/ grantAPass \/ UNCHANGED vars
  PROVE  RunInv' /\ Kept
<1>1. txs' = txs /\ journal' = journal /\ reveal' = reveal /\ proc' = proc
  BY DEF mineSetup, grantAPass, vars
<1>2. ChainGrows
  BY <1>1, ChainStays DEF RunInv
<1> QED
  BY <1>1, <1>2, OutsideKeeps

-----------------------------------------------------------------------------
\* Steps of the runner.

\* What holds of the stage the runner is working at.
LEMMA AtWork ==
  ASSUME RunInv, Working
  PROVE  /\ proc.at \in 1..31 /\ at = STAGES[proc.at] /\ at \in Stage
         /\ journal[at] \in Entries
         /\ EntryOK(at, journal[at]) /\ SealOK(at, journal[at])
         /\ StepOK(proc.pc, at, journal[at])
         /\ \A j \in 1..(proc.at - 1) : sealed(STAGES[j])
<1>1. proc.at \in DOMAIN STAGES /\ StepOK(proc.pc, at, journal[at])
  BY DEF RunInv, ProcOK
<1>2. proc.at \in 1..31 /\ at = STAGES[proc.at]
  BY <1>1, StagesType DEF at
<1>3. at \in Stage
  BY <1>2, StagesType
<1>4. \A j \in 1..(proc.at - 1) : sealed(STAGES[j])
  BY DEF RunInv, ProcOK, Working
<1>5. journal[at] \in Entries /\ EntryOK(at, journal[at]) /\ SealOK(at, journal[at])
  BY <1>3 DEF RunInv, JournalOK, DataTypes
<1> QED
  BY <1>1, <1>2, <1>3, <1>4, <1>5

\* The runner's process ends.
LEMMA Thrown ==
  ASSUME ProcType, throw
  PROVE  ProcType' /\ ProcOK'
<1>1. "down" \in Pcs /\ 1 \in 1..32
  BY DEF Pcs
<1>2. proc' = [proc EXCEPT !.pc = "down", !.at = 1, !.hash = 0, !.step = 1]
  BY DEF throw
<1>3. proc' \in [pc : Pcs, at : 1..32, hash : Nat, step : Nat] /\ proc'.pc = "down"
  BY <1>1, <1>2 DEF ProcType
<1> QED
  BY <1>3 DEF ProcType, ProcOK, Working

\* The runner goes on within its stage.
LEMMA Moved ==
  ASSUME NEW s, NEW e, NEW p, ProcType', proc.at \in 1..31, s = STAGES[proc.at],
         proc'.at = proc.at, proc'.pc = p, journal'[s] = e, StepOK(p, s, e)',
         \A j \in 1..(proc.at - 1) : sealed(STAGES[j])'
  PROVE  ProcOK'
<1>1. at' = s /\ proc'.at \in DOMAIN STAGES
  BY StagesType DEF at
<1> QED
  BY <1>1 DEF ProcOK

\* An entry of the stage the runner works at is written, true of the chain.
LEMMA Written ==
  ASSUME RunInv, Working, NEW s, s = at, NEW e \in Entries, EntryOK(s, e), SealOK(s, e),
         write(s, e), txs' = txs, reveal' = reveal
  PROVE  /\ JournalOK' /\ journal'[s] = e
         /\ \A j \in 1..(proc.at - 1) : sealed(STAGES[j])'
<1>1. /\ proc.at \in 1..31 /\ s = STAGES[proc.at] /\ s \in Stage
      /\ ~journal[s].verified
      /\ \A j \in 1..(proc.at - 1) : sealed(STAGES[j])
  BY AtWork DEF StepOK
<1>2. journal \in [Stage -> Entries] /\ journal' = [journal EXCEPT ![s] = e]
  BY DEF RunInv, JournalOK, DataTypes, write
<1>3. /\ journal' \in [Stage -> Entries] /\ journal'[s] = e
      /\ \A r \in Stage : r # s => journal'[r] = journal[r]
  BY <1>1, <1>2
<1>4. JournalOK
  BY DEF RunInv
<1>5. ASSUME NEW i \in 1..31, i # proc.at
      PROVE  STAGES[i] # s /\ STAGES[i] \in Stage /\ journal'[STAGES[i]] = journal[STAGES[i]]
  <2>1. STAGES[i] # s
    BY <1>1, <1>5, StagesDistinct
  <2> QED
    BY <1>3, <2>1, StagesType
<1>6. \A j \in 1..(proc.at - 1) : sealed(STAGES[j])'
  <2> SUFFICES ASSUME NEW j \in 1..(proc.at - 1)
               PROVE  sealed(STAGES[j])'
    OBVIOUS
  <2>1. j \in 1..31 /\ j # proc.at
    BY <1>1
  <2> QED
    BY <1>1, <1>5, <2>1 DEF sealed
<1>7. SpineIsSealed'
  <2> SUFFICES ASSUME NEW i \in 1..31, NEW j \in 1..31, i < j,
                      journal'[STAGES[j]].state # "NOT_STARTED"
               PROVE  sealed(STAGES[i])'
    BY StagesType DEF SpineIsSealed
  <2>1. CASE j = proc.at
    BY <1>1, <1>6, <2>1
  <2>2. CASE j # proc.at
    <3>1. journal[STAGES[j]].state # "NOT_STARTED"
      BY <1>5, <2>2
    <3>2. sealed(STAGES[i])
      BY <1>4, <3>1, StagesType DEF JournalOK, SpineIsSealed
    <3>3. i # proc.at
      BY <1>1, <3>2 DEF sealed
    <3> QED
      BY <1>5, <3>2, <3>3 DEF sealed
  <2> QED
    BY <2>1, <2>2
<1>8. ChainGrows
  BY <1>4, ChainStays
<1>9. ASSUME NEW r \in Stage
      PROVE  EntryOK(r, journal[r])' /\ SealOK(r, journal[r])'
  <2>1. PICK x : x = journal'[r]
    OBVIOUS
  <2>2. EntryOK(r, x) /\ SealOK(r, x)
    <3>1. CASE r = s
      BY <1>3, <2>1, <3>1
    <3>2. CASE r # s
      BY <1>3, <1>4, <2>1, <3>2 DEF JournalOK
    <3> QED
      BY <3>1, <3>2
  <2>3. EntryOK(r, x)'
    BY <1>8, <2>2, EntryStays
  <2>4. SealOK(r, x)'
    BY <1>8, <2>2, SealStays
  <2> QED
    BY <2>1, <2>3, <2>4
<1>10. DataTypes'
  BY <1>3, <1>4 DEF JournalOK, DataTypes
<1>11. \A r \in OnChain : ChainOK(r)'
  BY <1>8 DEF ChainGrows
<1> QED
  BY <1>3, <1>6, <1>7, <1>9, <1>10, <1>11 DEF JournalOK

\* What a write at an unsealed stage leaves of the rest of the journal.
LEMMA WriteKeeps ==
  ASSUME RunInv, Working, NEW s, s = at, NEW e, write(s, e),
         journal[s].state \notin {"FAILED", "AMBIGUOUS"},
         journal[s].payload = 0 \/ e.payload = journal[s].payload
  PROVE  Kept
<1>1. s \in Stage /\ ~journal[s].verified
  BY AtWork DEF StepOK
<1>2. journal'[s] = e /\ \A r \in Stage : r # s => journal'[r] = journal[r]
  BY <1>1 DEF RunInv, JournalOK, DataTypes, write
<1> QED
  BY <1>1, <1>2 DEF Kept, sealed

\* The journal, the chain and the reveal packages are left alone.
LEMMA Untouched ==
  ASSUME RunInv, journal' = journal, txs' = txs, reveal' = reveal
  PROVE  JournalOK' /\ Kept
<1>1. JournalOK
  BY DEF RunInv
<1>2. ChainGrows
  BY <1>1, ChainStays
<1>3. JournalOK'
  BY <1>1, <1>2, WorldMoves DEF JournalOK, DataTypes
<1> QED
  BY <1>3 DEF Kept

\* The runner goes to a point of its program.
LEMMA Went ==
  ASSUME ProcType, NEW p \in Pcs, goto(p)
  PROVE  ProcType' /\ proc'.pc = p /\ proc'.at = proc.at /\ proc'.hash = proc.hash
BY DEF ProcType, goto

\* The process ends and nothing else happens.
LEMMA ThrowKeeps ==
  ASSUME RunInv, throw, journal' = journal, txs' = txs, reveal' = reveal
  PROVE  RunInv' /\ Kept
BY Thrown, Untouched DEF RunInv

\* The runner goes on within its stage and nothing else happens.
LEMMA MoveKeeps ==
  ASSUME RunInv, Working, NEW s, NEW e, NEW p, s = at, e = journal[s],
         journal' = journal, txs' = txs, reveal' = reveal,
         ProcType', proc'.at = proc.at, proc'.pc = p, StepOK(p, s, e)'
  PROVE  RunInv' /\ Kept
<1>1. JournalOK' /\ Kept
  BY Untouched
<1>2. proc.at \in 1..31 /\ s = STAGES[proc.at] /\ \A j \in 1..(proc.at - 1) : sealed(STAGES[j])
  BY AtWork
<1>3. \A j \in 1..(proc.at - 1) : sealed(STAGES[j])'
  BY <1>2 DEF sealed
<1>4. ProcOK'
  BY <1>2, <1>3, Moved
<1> QED
  BY <1>1, <1>4 DEF RunInv

\* The entry of the stage is written and the process ends.
LEMMA WriteThrows ==
  ASSUME RunInv, Working, NEW s, s = at, NEW e \in Entries, EntryOK(s, e), SealOK(s, e),
         write(s, e), txs' = txs, reveal' = reveal, throw,
         journal[s].state \notin {"FAILED", "AMBIGUOUS"},
         journal[s].payload = 0 \/ e.payload = journal[s].payload
  PROVE  RunInv' /\ Kept
<1>1. JournalOK'
  BY Written
<1>2. Kept
  BY WriteKeeps
<1>3. ProcType' /\ ProcOK'
  BY Thrown DEF RunInv
<1> QED
  BY <1>1, <1>2, <1>3 DEF RunInv

\* The entry of the stage is written and the runner goes on within it.
LEMMA WriteMoves ==
  ASSUME RunInv, Working, NEW s, s = at, NEW e \in Entries, EntryOK(s, e), SealOK(s, e),
         write(s, e), txs' = txs, reveal' = reveal,
         journal[s].state \notin {"FAILED", "AMBIGUOUS"},
         journal[s].payload = 0 \/ e.payload = journal[s].payload,
         NEW p, ProcType', proc'.at = proc.at, proc'.pc = p, StepOK(p, s, e)'
  PROVE  RunInv' /\ Kept
<1>1. JournalOK' /\ journal'[s] = e /\ \A j \in 1..(proc.at - 1) : sealed(STAGES[j])'
  BY Written
<1>2. Kept
  BY WriteKeeps
<1>3. proc.at \in 1..31 /\ s = STAGES[proc.at]
  BY AtWork
<1>4. ProcOK'
  BY <1>1, <1>3, Moved
<1> QED
  BY <1>1, <1>2, <1>4 DEF RunInv

\* A stage gets a new state; what was sent for it is still recorded.
LEMMA Marked ==
  ASSUME NEW s, NEW e, NEW x, EntryOK(s, e), ~x.verified, x.state # "NOT_STARTED",
         x.state = "AWAITING_EXTERNAL" => s = "AWAITING_VAULT_APASS",
         x.hash = e.hash, e.hash # 0 => x.payload = e.payload
  PROVE  EntryOK(s, x) /\ SealOK(s, x)
BY DEF EntryOK, SealOK

\* Once a stage is unsealed and prepared, a new state leaves the rest.
LEMMA NewState ==
  ASSUME NEW e \in Entries, NEW st \in States, NEW x, x = [e EXCEPT !.state = st]
  PROVE  /\ x \in Entries /\ x.state = st /\ x.payload = e.payload /\ x.hash = e.hash
         /\ x.verified = e.verified
BY DEF Entries

\* Failed, ambiguous, awaited and confirmed entries.
LEMMA MarksAre ==
  ASSUME NEW s, journal[s] \in Entries
  PROVE  /\ \A x \in {markFailed(s), markAmbiguous(s), markAwaitingExternal(s), markConfirmed(s)} :
              /\ x \in Entries /\ x.payload = journal[s].payload /\ x.hash = journal[s].hash
              /\ x.verified = journal[s].verified
         /\ markFailed(s).state = "FAILED" /\ markAmbiguous(s).state = "AMBIGUOUS"
         /\ markAwaitingExternal(s).state = "AWAITING_EXTERNAL"
         /\ markConfirmed(s).state = "CONFIRMED"
<1>1. PICK e : e = journal[s]
  OBVIOUS
<1>2. e \in Entries
  BY <1>1
<1>3. {"FAILED", "AMBIGUOUS", "AWAITING_EXTERNAL", "CONFIRMED"} \subseteq States
  BY DEF States
<1>4. PICK f, m, a, c, d :
         /\ f = [e EXCEPT !.state = "FAILED"] /\ m = [e EXCEPT !.state = "AMBIGUOUS"]
         /\ a = [e EXCEPT !.state = "AWAITING_EXTERNAL"] /\ c = [e EXCEPT !.state = "CONFIRMED"]
         /\ d = [c EXCEPT !.receipt = TRUE]
  OBVIOUS
<1>5. f \in Entries /\ f.state = "FAILED" /\ f.payload = e.payload /\ f.hash = e.hash /\ f.verified = e.verified
  BY <1>2, <1>3, <1>4, NewState
<1>6. m \in Entries /\ m.state = "AMBIGUOUS" /\ m.payload = e.payload /\ m.hash = e.hash /\ m.verified = e.verified
  BY <1>2, <1>3, <1>4, NewState
<1>7. a \in Entries /\ a.state = "AWAITING_EXTERNAL" /\ a.payload = e.payload /\ a.hash = e.hash /\ a.verified = e.verified
  BY <1>2, <1>3, <1>4, NewState
<1>8. c \in Entries /\ c.state = "CONFIRMED" /\ c.payload = e.payload /\ c.hash = e.hash /\ c.verified = e.verified
  BY <1>2, <1>3, <1>4, NewState
<1>9. d \in Entries /\ d.state = "CONFIRMED" /\ d.payload = e.payload /\ d.hash = e.hash /\ d.verified = e.verified
  BY <1>4, <1>8 DEF Entries
<1>10. markFailed(s) = f /\ markAmbiguous(s) = m /\ markAwaitingExternal(s) = a /\ markConfirmed(s) = d
  BY <1>1, <1>4 DEF markFailed, markAmbiguous, markAwaitingExternal, markConfirmed
<1> QED
  BY <1>1, <1>5, <1>6, <1>7, <1>9, <1>10

\* What recording the outputs of a stage writes.
LEMMA RecordIs ==
  ASSUME NEW s, journal[s] \in Entries, NEW r \in BOOLEAN, NEW n \in Nat
  PROVE  /\ recordOffChain(s, r, n) \in Entries
         /\ recordOffChain(s, r, n).state = "CONFIRMED"
         /\ recordOffChain(s, r, n).hash = journal[s].hash
         /\ recordOffChain(s, r, n).verified = journal[s].verified
         /\ journal[s].payload # 0 => recordOffChain(s, r, n).payload = journal[s].payload
         /\ journal[s].payload = 0 => recordOffChain(s, r, n).payload = n
<1>1. PICK e, b, q : e = journal[s] /\ b = (e.record \/ r) /\ q = IF e.payload = 0 THEN n ELSE e.payload
  OBVIOUS
<1>2. e \in Entries /\ b \in BOOLEAN /\ q \in Nat
  <2>1. e \in Entries /\ e.payload \in Nat
    BY <1>1 DEF Entries
  <2>2. b \in BOOLEAN
    BY <1>1, Zenon
  <2>3. q \in Nat
    BY <1>1, <2>1
  <2> QED
    BY <2>1, <2>2, <2>3
<1>3. PICK c, d, x : c = [e EXCEPT !.state = "CONFIRMED"] /\ d = [c EXCEPT !.record = b]
                     /\ x = [d EXCEPT !.payload = q]
  OBVIOUS
<1>4. "CONFIRMED" \in States
  BY DEF States
<1>5. c \in Entries /\ c.state = "CONFIRMED" /\ c.hash = e.hash /\ c.verified = e.verified /\ c.payload = e.payload
  BY <1>2, <1>3, <1>4, NewState
<1>6. d \in Entries /\ d.state = "CONFIRMED" /\ d.hash = e.hash /\ d.verified = e.verified /\ d.payload = e.payload
  BY <1>2, <1>3, <1>5 DEF Entries
<1>7. x \in Entries /\ x.state = "CONFIRMED" /\ x.hash = e.hash /\ x.verified = e.verified /\ x.payload = q
  BY <1>2, <1>3, <1>6 DEF Entries
<1>8. recordOffChain(s, r, n) = x
  BY <1>1, <1>2, <1>3 DEF recordOffChain, Entries
<1> QED
  BY <1>1, <1>7, <1>8

-----------------------------------------------------------------------------
\* The runner's actions.

\* No transaction stage, nor a stage of the vault or the nullifier, is one
\* of the ceremony.
LEMMA KindsApart ==
  \A s \in OnChain \cup {"AWAITING_VAULT_APASS", "SESSION_NULLIFIER_RESERVED"} :
    s \notin Checkpoints \cup {"CEREMONY_IDENTITIES_CONFIRMED"}
<1>1. \A i \in 1..15 :
        definitions[i][1] \notin {"VAULT_CREATED", "VAULT_ACTIVATED", "SESSION_COMMITTED",
          "SOURCE_A_COMMITTED", "SOURCE_B_COMMITTED", "GOVERNANCE_A_CREATED",
          "GOVERNANCE_B_CREATED", "AWAITING_VAULT_APASS", "SESSION_NULLIFIER_RESERVED"}
  BY DEF definitions
<1>2. DOMAIN definitions = 1..15
  BY PartsType
<1>3. OnChain \cup {"AWAITING_VAULT_APASS", "SESSION_NULLIFIER_RESERVED"} =
        {"VAULT_CREATED", "VAULT_ACTIVATED", "SESSION_COMMITTED",
          "SOURCE_A_COMMITTED", "SOURCE_B_COMMITTED", "GOVERNANCE_A_CREATED",
          "GOVERNANCE_B_CREATED", "AWAITING_VAULT_APASS", "SESSION_NULLIFIER_RESERVED"}
  BY DEF OnChain, Sources, Governance
<1> QED
  BY <1>1, <1>2, <1>3 DEF Checkpoints

\* What the reconcile handlers can find: only the A-Pass stage awaits, and
\* a transaction stage is done only with a frozen payload.
LEMMA FindingIs ==
  /\ finding(at) = "awaiting" => at = "AWAITING_VAULT_APASS"
  /\ finding(at) = "done" /\ at \in OnChain => entry.payload # 0
  /\ finding(at) = "unknown" /\ at = "AWAITING_VAULT_APASS" => entry.state = "NOT_STARTED"
<1>0. at \in OnChain \cup {"AWAITING_VAULT_APASS"} => at \notin Checkpoints \cup {"CEREMONY_IDENTITIES_CONFIRMED"}
  BY KindsApart
<1>1. CASE at = "VAULT_CREATED"
  <2>1. finding(at) \in {"done", "unknown"} /\ (finding(at) = "done" => entry.payload # 0)
    BY <1>0, <1>1 DEF finding, OnChain, Sources, Governance, reconcileVaultCreated
  <2> QED
    BY <1>1, <2>1
<1>2. CASE at = "AWAITING_VAULT_APASS"
  <2>1. at \notin OnChain
    BY <1>2 DEF OnChain, Sources, Governance
  <2>2. finding(at) = reconcileAPass
    BY <1>0, <1>2 DEF finding, Sources, Governance
  <2> QED
    BY <1>2, <2>1, <2>2 DEF reconcileAPass
<1>3. CASE at = "VAULT_ACTIVATED"
  <2>1. finding(at) \in {"done", "unknown"} /\ (finding(at) = "done" => entry.payload # 0)
    BY <1>0, <1>3 DEF finding, OnChain, Sources, Governance, reconcileVaultActivated
  <2> QED
    BY <1>3, <2>1
<1>4. CASE at \in Sources
  <2>1. finding(at) = reconcileSource(at) /\ at # "AWAITING_VAULT_APASS"
    BY <1>0, <1>4 DEF finding, OnChain, Sources, Governance
  <2> QED
    BY <1>4, <2>1 DEF reconcileSource
<1>5. CASE at \in Governance
  <2>1. finding(at) = reconcileGovernance(at) /\ at # "AWAITING_VAULT_APASS"
    BY <1>0, <1>5 DEF finding, OnChain, Sources, Governance
  <2> QED
    BY <1>5, <2>1 DEF reconcileGovernance
<1>6. CASE at = "SESSION_COMMITTED"
  <2>1. finding(at) = reconcileSessionCommitted /\ at # "AWAITING_VAULT_APASS"
    BY <1>0, <1>6 DEF finding, OnChain, Sources, Governance
  <2> QED
    BY <1>6, <2>1 DEF reconcileSessionCommitted
<1>7. CASE at \notin OnChain \cup {"AWAITING_VAULT_APASS"}
  <2>1. /\ at \notin Sources /\ at \notin Governance
        /\ at \notin {"VAULT_CREATED", "VAULT_ACTIVATED", "SESSION_COMMITTED"}
    BY <1>7 DEF OnChain
  <2>2. finding(at) # "awaiting"
    BY <1>7, <2>1 DEF finding, reconcileContext, reconcileCompleted, reconcileCheckpoint
  <2> QED
    BY <1>7, <2>2
<1> QED
  BY <1>1, <1>2, <1>3, <1>4, <1>5, <1>6, <1>7 DEF OnChain

\* A stage begins: the journal's verdict, then the chain's.
LEMMA RunStageKeeps ==
  ASSUME RunInv, runStage
  PROVE  RunInv' /\ Kept
<1>1. Working /\ proc.pc = "stage" /\ ProcType /\ txs' = txs /\ reveal' = reveal
  BY DEF runStage, Working, RunInv
<1>2. PICK s, e : s = at /\ e = journal[s]
  OBVIOUS
<1>3. /\ e \in Entries /\ EntryOK(s, e) /\ ~e.verified /\ entry = e
  BY <1>1, <1>2, AtWork DEF StepOK, entry
<1>4. CASE throw /\ journal' = journal
  BY <1>1, <1>4, ThrowKeeps
<1>5. CASE e.state = "CONFIRMED" /\ goto("verify") /\ journal' = journal
  <2>1. "verify" \in Pcs
    BY DEF Pcs
  <2>2. ProcType' /\ proc'.pc = "verify" /\ proc'.at = proc.at
    BY <1>1, <1>5, <2>1, Went
  <2>3. StepOK("verify", s, e)'
    BY <1>3, <1>5 DEF StepOK
  <2> QED
    BY <1>1, <1>2, <1>5, <2>2, <2>3, MoveKeeps
<1>6. CASE e.state \notin {"AMBIGUOUS", "FAILED", "CONFIRMED"} /\ finding(at) = "done"
           /\ write(at, recordOffChain(at, TRUE, 1)) /\ goto("verify")
  <2>1. "verify" \in Pcs
    BY DEF Pcs
  <2>2. ProcType' /\ proc'.pc = "verify" /\ proc'.at = proc.at
    BY <1>1, <1>6, <2>1, Went
  <2>3. PICK x : x = recordOffChain(at, TRUE, 1)
    OBVIOUS
  <2>4. /\ x \in Entries /\ x.state = "CONFIRMED" /\ x.hash = e.hash /\ x.verified = e.verified
        /\ e.payload # 0 => x.payload = e.payload
    <3>1. journal[at] \in Entries /\ e = journal[at]
      BY <1>2, <1>3
    <3>2. TRUE \in BOOLEAN /\ 1 \in Nat
      OBVIOUS
    <3>3. /\ recordOffChain(at, TRUE, 1) \in Entries
          /\ recordOffChain(at, TRUE, 1).state = "CONFIRMED"
          /\ recordOffChain(at, TRUE, 1).hash = journal[at].hash
          /\ recordOffChain(at, TRUE, 1).verified = journal[at].verified
          /\ journal[at].payload # 0 => recordOffChain(at, TRUE, 1).payload = journal[at].payload
      BY <3>1, <3>2, RecordIs, Zenon
    <3> QED
      BY <2>3, <3>1, <3>3
  <2>5. e.hash # 0 => x.payload = e.payload
    BY <1>2, <1>3, <1>6, <2>4, FindingIs DEF EntryOK, Sent
  <2>6. EntryOK(s, x) /\ SealOK(s, x)
    BY <1>3, <2>4, <2>5, Marked
  <2>7. StepOK("verify", s, x)'
    BY <1>3, <2>4 DEF StepOK
  <2>8. write(s, x)
    BY <1>2, <1>6, <2>3
  <2> QED
    BY <1>1, <1>2, <1>6, <2>2, <2>4, <2>6, <2>7, <2>8, WriteMoves
<1>7. CASE e.state \notin {"AMBIGUOUS", "FAILED", "CONFIRMED"}
           /\ \/ finding(at) = "ambiguous" /\ write(at, markAmbiguous(at))
              \/ finding(at) = "awaiting" /\ write(at, markAwaitingExternal(at))
           /\ throw
  <2>1. PICK x \in {markAmbiguous(s), markAwaitingExternal(s)} :
           write(s, x) /\ (x.state = "AWAITING_EXTERNAL" => s = "AWAITING_VAULT_APASS")
    BY <1>2, <1>3, <1>7, MarksAre, FindingIs
  <2>2. x \in Entries /\ x.payload = e.payload /\ x.hash = e.hash /\ ~x.verified /\ x.state # "NOT_STARTED"
    BY <1>2, <1>3, <2>1, MarksAre
  <2>3. EntryOK(s, x) /\ SealOK(s, x)
    BY <1>3, <2>1, <2>2, Marked
  <2> QED
    BY <1>1, <1>2, <1>7, <2>1, <2>2, <2>3, WriteThrows
<1>8. CASE e.state \notin {"AMBIGUOUS", "FAILED", "CONFIRMED"} /\ finding(at) = "unknown"
           /\ goto("prepare") /\ journal' = journal
  <2>1. "prepare" \in Pcs
    BY DEF Pcs
  <2>2. ProcType' /\ proc'.pc = "prepare" /\ proc'.at = proc.at
    BY <1>1, <1>8, <2>1, Went
  <2>3. e.state # "AWAITING_EXTERNAL"
    BY <1>2, <1>3, <1>8, FindingIs DEF EntryOK
  <2>4. e.state \in {"NOT_STARTED", "PREPARED", "BROADCAST"}
    BY <1>3, <1>8, <2>3 DEF Entries, States
  <2>5. StepOK("prepare", s, e)'
    BY <1>3, <2>4 DEF StepOK
  <2> QED
    BY <1>1, <1>2, <1>8, <2>2, <2>5, MoveKeeps
<1> QED
  BY <1>3, <1>4, <1>5, <1>6, <1>7, <1>8 DEF runStage

\* What a prepare handler returns is a payload.
LEMMA PayloadNat ==
  ASSUME RunInv, NEW s \in Stage
  PROVE  payloadFor(s) \in Nat
<1>1. STAGES[12] = "SESSION_PREPARED" /\ STAGES[15] = "CEREMONY_CONTEXT_PREPARED"
  <2>1. STAGES[12] = AdmissionStages[12] /\ STAGES[14 + 1] = CeremonyStages[1]
    BY StagesType
  <2> QED
    BY <2>1, CeremonyType DEF AdmissionStages
<1>2. {"SESSION_PREPARED", "CEREMONY_CONTEXT_PREPARED"} \subseteq Stage
  BY <1>1, StagesType
<1>3. \A r \in Stage : journal[r].payload \in Nat
  BY DEF RunInv, JournalOK, DataTypes, Entries
<1>4. reservationRecord \in Nat /\ relayerRequest \in Nat /\ checkpointRecord \in Nat
  BY <1>2, <1>3 DEF reservationRecord, relayerRequest, checkpointRecord
<1>5. vaultRecord \in Nat /\ activationRecord \in Nat /\ sourceRecord(s) \in Nat /\ sessionRecord \in Nat
  BY DEF vaultRecord, activationRecord, sourceRecord, sessionRecord, fresh
<1>6. journal[s].payload \in Nat /\ governanceRecord \in Nat /\ stackRecord \in Nat
  BY <1>3 DEF governanceRecord, stackRecord
<1> QED
  BY <1>4, <1>5, <1>6 DEF payloadFor

\* A source's reveal package is checked, or written while its stage is not
\* sealed.
LEMMA PrepareSourceKeeps ==
  ASSUME RunInv, prepareSource
  PROVE  RunInv' /\ Kept
<1>1. /\ Working /\ proc.pc = "prepare" /\ ProcType /\ JournalOK
      /\ txs' = txs /\ journal' = journal /\ at \in Sources
  BY DEF prepareSource, Working, RunInv
<1>2. PICK s, e : s = at /\ e = journal[s]
  OBVIOUS
<1>3. /\ s \in Stage /\ e \in Entries /\ ~e.verified /\ e.state \in {"NOT_STARTED", "PREPARED", "BROADCAST"}
      /\ proc.at \in 1..31 /\ s = STAGES[proc.at]
      /\ \A j \in 1..(proc.at - 1) : sealed(STAGES[j])
  BY <1>1, <1>2, AtWork DEF StepOK
<1>4. CASE throw /\ reveal' = reveal
  BY <1>1, <1>4, ThrowKeeps
<1>5. CASE goto("freeze") /\ reveal' = [reveal EXCEPT ![at] = payloadFor(at)]
  <2>1. PICK n : n = payloadFor(s)
    OBVIOUS
  <2>2. n \in Nat
    BY <1>3, <2>1, PayloadNat
  <2>3. reveal \in [Sources -> Nat] /\ reveal' = [reveal EXCEPT ![s] = n]
    BY <1>1, <1>2, <1>5, <2>1 DEF JournalOK, DataTypes
  <2>4. reveal' \in [Sources -> Nat] /\ \A r \in Sources : r # s => reveal'[r] = reveal[r]
    BY <2>2, <2>3
  <2>5. \A r \in Sources : journal[r].verified => reveal'[r] = reveal[r]
    BY <1>2, <1>3, <2>4
  <2>6. ChainGrows
    BY <1>1, ChainStays
  <2>7. JournalOK'
    BY <1>1, <2>4, <2>5, <2>6, WorldMoves
  <2>8. "freeze" \in Pcs
    BY DEF Pcs
  <2>9. ProcType' /\ proc'.pc = "freeze" /\ proc'.at = proc.at
    BY <1>1, <1>5, <2>8, Went
  <2>10. StepOK("freeze", s, e)'
    BY <1>3 DEF StepOK
  <2>11. \A j \in 1..(proc.at - 1) : sealed(STAGES[j])'
    BY <1>1, <1>3 DEF sealed
  <2>12. journal'[s] = e
    BY <1>1, <1>2
  <2>13. ProcOK'
    BY <1>3, <2>9, <2>10, <2>11, <2>12, Moved
  <2>14. Kept
    BY <1>1 DEF Kept
  <2> QED
    BY <2>7, <2>9, <2>13, <2>14 DEF RunInv
<1> QED
  BY <1>4, <1>5 DEF prepareSource

\* The other preparations only move the runner or end it.
LEMMA PrepareOtherKeeps ==
  ASSUME RunInv, prepareContext \/ setupContext \/ prepareOther
  PROVE  RunInv' /\ Kept
<1>1. /\ Working /\ proc.pc \in {"prepare", "setup-context"} /\ ProcType
      /\ txs' = txs /\ journal' = journal /\ reveal' = reveal
  BY DEF prepareContext, setupContext, prepareOther, Working, RunInv
<1>2. PICK s, e : s = at /\ e = journal[s]
  OBVIOUS
<1>3. ~e.verified /\ e.state \in {"NOT_STARTED", "PREPARED", "BROADCAST"}
  BY <1>1, <1>2, AtWork DEF StepOK
<1>4. CASE throw
  BY <1>1, <1>4, ThrowKeeps
<1>5. ASSUME NEW p \in {"freeze", "setup-context"}, goto(p)
      PROVE  RunInv' /\ Kept
  <2>1. p \in Pcs
    BY DEF Pcs
  <2>2. ProcType' /\ proc'.pc = p /\ proc'.at = proc.at
    BY <1>1, <1>5, <2>1, Went
  <2>3. StepOK(p, s, e)'
    BY <1>3 DEF StepOK
  <2> QED
    BY <1>1, <1>2, <2>2, <2>3, MoveKeeps
<1> QED
  BY <1>4, <1>5 DEF prepareContext, setupContext, prepareOther

\* The record of the preparation is frozen in the journal.
LEMMA FreezeKeeps ==
  ASSUME RunInv, freeze
  PROVE  RunInv' /\ Kept
<1>1. Working /\ proc.pc = "freeze" /\ ProcType /\ txs' = txs /\ reveal' = reveal
  BY DEF freeze, Working, RunInv
<1>2. PICK s, e, n : s = at /\ e = journal[s] /\ n = payloadFor(s)
  OBVIOUS
<1>3. /\ s \in Stage /\ e \in Entries /\ ~e.verified /\ e.state \in {"NOT_STARTED", "PREPARED", "BROADCAST"}
      /\ EntryOK(s, e) /\ SealOK(s, e) /\ n \in Nat
  BY <1>1, <1>2, AtWork, PayloadNat DEF StepOK
<1>4. CASE throw /\ journal' = journal
  BY <1>1, <1>4, ThrowKeeps
<1>5. CASE ~prepareRefused(at, payloadFor(at)) /\ write(at, prepared(at, payloadFor(at))) /\ goto("execute")
  <2>1. e.state \in {"NOT_STARTED", "PREPARED"}
    BY <1>2, <1>3, <1>5 DEF prepareRefused
  <2>2. PICK x : x = prepared(s, n)
    OBVIOUS
  <2>3. /\ x \in Entries /\ ~x.verified /\ x.state = "PREPARED"
        /\ EntryOK(s, x) /\ SealOK(s, x) /\ (e.payload = 0 \/ x.payload = e.payload)
    <3>1. CASE e.state = "PREPARED"
      <4>1. x = e
        BY <1>2, <2>2, <3>1 DEF prepared
      <4> QED
        BY <1>3, <3>1, <4>1
    <3>2. CASE e.state = "NOT_STARTED"
      <4>1. e = NotStarted
        BY <1>3, <3>2 DEF EntryOK
      <4>2. x = [NotStarted EXCEPT !.state = "PREPARED", !.payload = n]
        BY <1>2, <2>2, <3>2 DEF prepared
      <4>3. x \in Entries /\ ~x.verified /\ x.state = "PREPARED" /\ x.hash = 0
        BY <1>3, <4>2 DEF NotStarted, Entries, States
      <4>4. e.payload = 0
        BY <4>1 DEF NotStarted
      <4> QED
        BY <4>3, <4>4 DEF EntryOK, SealOK
    <3> QED
      BY <2>1, <3>1, <3>2
  <2>4. "execute" \in Pcs
    BY DEF Pcs
  <2>5. ProcType' /\ proc'.pc = "execute" /\ proc'.at = proc.at
    BY <1>1, <1>5, <2>4, Went
  <2>6. StepOK("execute", s, x)'
    BY <2>3 DEF StepOK
  <2>7. write(s, x)
    BY <1>2, <1>5, <2>2
  <2>8. e.state \notin {"FAILED", "AMBIGUOUS"}
    BY <2>1
  <2> QED
    BY <1>1, <1>2, <2>3, <2>5, <2>6, <2>7, <2>8, WriteMoves
<1> QED
  BY <1>4, <1>5 DEF freeze

\* A stage without a transaction, or a checkpoint that is reached, records
\* its outputs and goes on to be verified.
LEMMA RecordKeeps ==
  ASSUME RunInv, proc.pc = "execute", write(at, recordOffChain(at, FALSE, 0)), goto("verify"),
         txs' = txs, reveal' = reveal
  PROVE  RunInv' /\ Kept
<1>1. Working /\ ProcType
  BY DEF Working, RunInv
<1>2. PICK s, e, x : s = at /\ e = journal[s] /\ x = recordOffChain(s, FALSE, 0)
  OBVIOUS
<1>3. e \in Entries /\ ~e.verified /\ e.state = "PREPARED" /\ EntryOK(s, e)
  BY <1>1, <1>2, AtWork DEF StepOK
<1>4. /\ x \in Entries /\ x.state = "CONFIRMED" /\ x.hash = e.hash /\ x.verified = e.verified
      /\ x.payload = e.payload
  <2>1. /\ x \in Entries /\ x.state = "CONFIRMED" /\ x.hash = e.hash /\ x.verified = e.verified
        /\ (e.payload # 0 => x.payload = e.payload) /\ (e.payload = 0 => x.payload = 0)
    <3>1. FALSE \in BOOLEAN /\ 0 \in Nat /\ journal[s] \in Entries
      BY <1>2, <1>3
    <3>2. /\ recordOffChain(s, FALSE, 0) \in Entries
          /\ recordOffChain(s, FALSE, 0).state = "CONFIRMED"
          /\ recordOffChain(s, FALSE, 0).hash = journal[s].hash
          /\ recordOffChain(s, FALSE, 0).verified = journal[s].verified
          /\ journal[s].payload # 0 => recordOffChain(s, FALSE, 0).payload = journal[s].payload
          /\ journal[s].payload = 0 => recordOffChain(s, FALSE, 0).payload = 0
      BY <3>1, RecordIs, Zenon
    <3> QED
      BY <1>2, <3>2
  <2> QED
    BY <2>1
<1>5. EntryOK(s, x) /\ SealOK(s, x)
  BY <1>3, <1>4, Marked
<1>6. "verify" \in Pcs
  BY DEF Pcs
<1>7. ProcType' /\ proc'.pc = "verify" /\ proc'.at = proc.at
  BY <1>1, <1>6, Went
<1>8. StepOK("verify", s, x)'
  BY <1>3, <1>4 DEF StepOK
<1>9. write(s, x)
  BY <1>2
<1>10. e.state \notin {"FAILED", "AMBIGUOUS"}
  BY <1>3
<1> QED
  BY <1>1, <1>2, <1>4, <1>5, <1>7, <1>8, <1>9, <1>10, WriteMoves

\* The laboratory moves, or its checkpoint is recorded.
LEMMA ExecuteOffChainKeeps ==
  ASSUME RunInv, executeOffChain \/ runCheckpoint
  PROVE  RunInv' /\ Kept
<1>1. proc.pc = "execute" /\ txs' = txs /\ reveal' = reveal
  BY DEF executeOffChain, runCheckpoint
<1>2. CASE write(at, recordOffChain(at, FALSE, 0)) /\ goto("verify")
  BY <1>1, <1>2, RecordKeeps
<1>3. CASE journal' = journal /\ proc' = proc
  <2>1. ChainGrows
    BY <1>1, ChainStays DEF RunInv
  <2> QED
    BY <1>1, <1>3, <2>1, OutsideKeeps
<1> QED
  BY <1>2, <1>3 DEF executeOffChain, runCheckpoint

\* The A-Pass stage asks for the external action and ends the process.
LEMMA ExecuteAPassKeeps ==
  ASSUME RunInv, executeAPass
  PROVE  RunInv' /\ Kept
<1>1. Working /\ proc.pc = "execute" /\ txs' = txs /\ reveal' = reveal /\ throw
  BY DEF executeAPass, Working
<1>2. PICK s, e, x : s = at /\ e = journal[s] /\ x = markAwaitingExternal(s)
  OBVIOUS
<1>3. e \in Entries /\ ~e.verified /\ e.state = "PREPARED" /\ EntryOK(s, e)
  BY <1>1, <1>2, AtWork DEF StepOK
<1>4. /\ x \in Entries /\ x.state = "AWAITING_EXTERNAL" /\ x.hash = e.hash /\ x.verified = e.verified
      /\ x.payload = e.payload
  BY <1>2, <1>3, MarksAre
<1>5. EntryOK(s, x) /\ SealOK(s, x)
  BY <1>2, <1>3, <1>4, Marked DEF executeAPass
<1>6. write(s, x)
  BY <1>2 DEF executeAPass
<1>7. e.state \notin {"FAILED", "AMBIGUOUS"}
  BY <1>3
<1> QED
  BY <1>1, <1>2, <1>4, <1>5, <1>6, <1>7, WriteThrows

\* The prerequisites of the activation move the runner within its stage.
LEMMA ActivateKeeps ==
  ASSUME RunInv, activatePrepared \/ settlePrerequisite
  PROVE  RunInv' /\ Kept
<1>1. /\ Working /\ proc.pc \in {"execute", "settle"} /\ ProcType
      /\ txs' = txs /\ journal' = journal /\ reveal' = reveal
  BY DEF activatePrepared, settlePrerequisite, Working, RunInv
<1>2. PICK s, e : s = at /\ e = journal[s]
  OBVIOUS
<1>3. ~e.verified /\ e.state = "PREPARED"
  BY <1>1, <1>2, AtWork DEF StepOK
<1>4. CASE throw
  BY <1>1, <1>4, ThrowKeeps
<1>5. CASE goto("settle")
  <2>1. "settle" \in Pcs
    BY DEF Pcs
  <2>2. ProcType' /\ proc'.pc = "settle" /\ proc'.at = proc.at
    BY <1>1, <1>5, <2>1, Went
  <2>3. StepOK("settle", s, e)'
    BY <1>3 DEF StepOK
  <2> QED
    BY <1>1, <1>2, <2>2, <2>3, MoveKeeps
<1>6. CASE \/ proc.pc = "execute" /\ proc' = [proc EXCEPT !.step = @ + 1]
           \/ proc' = [proc EXCEPT !.pc = "execute", !.step = @ + 1]
  <2>1. "execute" \in Pcs
    BY DEF Pcs
  <2>2. ProcType' /\ proc'.pc = "execute" /\ proc'.at = proc.at
    <3>1. proc.step + 1 \in Nat
      BY <1>1 DEF ProcType
    <3>2. CASE proc.pc = "execute" /\ proc' = [proc EXCEPT !.step = @ + 1]
      BY <1>1, <3>1, <3>2 DEF ProcType
    <3>3. CASE proc' = [proc EXCEPT !.pc = "execute", !.step = @ + 1]
      BY <1>1, <2>1, <3>1, <3>3 DEF ProcType
    <3> QED
      BY <1>6, <3>2, <3>3
  <2>3. StepOK("execute", s, e)'
    BY <1>3 DEF StepOK
  <2> QED
    BY <1>1, <1>2, <2>2, <2>3, MoveKeeps
<1> QED
  BY <1>4, <1>5, <1>6 DEF activatePrepared, settlePrerequisite

\* The wallet sends the frozen calldata, and the runner holds the hash.
LEMMA SendKeeps ==
  ASSUME RunInv, proc.pc = "execute", at \in OnChain, send, journal' = journal, reveal' = reveal
  PROVE  RunInv' /\ Kept
<1>1. Working /\ ProcType /\ JournalOK
  BY DEF Working, RunInv
<1>2. PICK s, e, n : s = at /\ e = journal[s] /\ n = Len(txs[s]) + 1
  OBVIOUS
<1>3. /\ e \in Entries /\ ~e.verified /\ e.state = "PREPARED"
      /\ proc.at \in 1..31 /\ s = STAGES[proc.at]
      /\ \A j \in 1..(proc.at - 1) : sealed(STAGES[j])
  BY <1>1, <1>2, AtWork DEF StepOK
<1>4. PICK y : y = [payload |-> e.payload, by |-> "runner", fate |-> "pending"]
  OBVIOUS
<1>5. y \in Tx /\ y.by = "runner" /\ y.fate = "pending" /\ y.payload = e.payload
  BY <1>3, <1>4 DEF Tx, Entries
<1>6. txs' = [txs EXCEPT ![s] = Append(@, y)] /\ proc' = [proc EXCEPT !.pc = "mark", !.hash = n]
  BY <1>2, <1>4 DEF send, entry
<1>7. s \in OnChain
  BY <1>2
<1>8. ChainGrows /\ n \in DOMAIN txs'[s] /\ txs'[s][n] = y
  <2>1. (y.fate = "success" => stored(s) = 0) /\ (y.by # "runner" => s \in Rivals)
    BY <1>5
  <2>2. txs' = [txs EXCEPT ![s] = Append(@, y)]
    BY <1>6
  <2>3. y \in Tx
    BY <1>5
  <2>4. ChainGrows /\ Len(txs[s]) + 1 \in DOMAIN txs'[s] /\ txs'[s][Len(txs[s]) + 1] = y
    BY <1>1, <1>7, <2>1, <2>2, <2>3, SendGrows, Zenon
  <2> QED
    BY <1>2, <2>4
<1>9. JournalOK'
  BY <1>1, <1>8, WorldMoves DEF JournalOK, DataTypes
<1>10. n \in Nat /\ n # 0
  <2>1. txs[s] \in Seq(Tx)
    BY <1>1, <1>7 DEF JournalOK, DataTypes
  <2> QED
    BY <1>2, <2>1
<1>11. ProcType' /\ proc'.pc = "mark" /\ proc'.at = proc.at /\ proc'.hash = n
  <2>1. "mark" \in Pcs
    BY DEF Pcs
  <2> QED
    BY <1>1, <1>6, <1>10, <2>1 DEF ProcType
<1>12. Sent(s, n, e.payload)'
  BY <1>5, <1>7, <1>8 DEF Sent
<1>13. StepOK("mark", s, e)'
  BY <1>3, <1>10, <1>11, <1>12 DEF StepOK
<1>14. \A j \in 1..(proc.at - 1) : sealed(STAGES[j])'
  BY <1>3 DEF sealed
<1>15. journal'[s] = e
  BY <1>2
<1>16. ProcOK'
  BY <1>3, <1>11, <1>13, <1>14, <1>15, Moved
<1>17. Kept
  BY DEF Kept
<1> QED
  BY <1>9, <1>11, <1>16, <1>17 DEF RunInv

\* A stage with a transaction sends it, or its capability throws.
LEMMA BroadcastKeeps ==
  ASSUME RunInv, broadcastPrepared \/ publishSessionCommitment
  PROVE  RunInv' /\ Kept
<1>1. proc.pc = "execute" /\ at \in OnChain /\ journal' = journal /\ reveal' = reveal
  BY DEF broadcastPrepared, publishSessionCommitment, OnChain
<1>2. CASE send
  BY <1>1, <1>2, SendKeeps
<1>3. CASE throw /\ txs' = txs
  BY <1>1, <1>3, ThrowKeeps
<1> QED
  BY <1>2, <1>3 DEF broadcastPrepared, publishSessionCommitment

\* The hash is journaled before the receipt is awaited.
LEMMA OnBroadcastKeeps ==
  ASSUME RunInv, onBroadcast
  PROVE  RunInv' /\ Kept
<1>1. Working /\ proc.pc = "mark" /\ ProcType /\ JournalOK /\ txs' = txs /\ reveal' = reveal
  BY DEF onBroadcast, Working, RunInv
<1>2. PICK s, e, h : s = at /\ e = journal[s] /\ h = proc.hash
  OBVIOUS
<1>3. /\ e \in Entries /\ ~e.verified /\ e.state = "PREPARED" /\ EntryOK(s, e)
      /\ h # 0 /\ Sent(s, h, e.payload)
  BY <1>1, <1>2, AtWork DEF StepOK
<1>4. h \in Nat
  BY <1>1, <1>2 DEF ProcType
<1>5. CASE throw /\ journal' = journal
  BY <1>1, <1>5, ThrowKeeps
<1>6. CASE write(at, markBroadcast(at, proc.hash)) /\ goto("await")
  <2>1. PICK x : x = [e EXCEPT !.state = "BROADCAST", !.hash = h]
    OBVIOUS
  <2>2. write(s, x)
    BY <1>2, <1>6, <2>1 DEF markBroadcast
  <2>3. "BROADCAST" \in States
    BY DEF States
  <2>4. /\ x \in Entries /\ x.state = "BROADCAST" /\ x.hash = h /\ ~x.verified
        /\ x.payload = e.payload
    BY <1>3, <1>4, <2>1, <2>3 DEF Entries
  <2>5. EntryOK(s, x) /\ SealOK(s, x)
    BY <1>3, <2>4 DEF EntryOK, SealOK
  <2>6. "await" \in Pcs
    BY DEF Pcs
  <2>7. ProcType' /\ proc'.pc = "await" /\ proc'.at = proc.at /\ proc'.hash = h
    BY <1>1, <1>2, <1>6, <2>6, Went
  <2>8. Sent(s, h, x.payload)'
    BY <1>1, <1>3, <2>4 DEF Sent
  <2>9. StepOK("await", s, x)'
    BY <1>3, <2>4, <2>7, <2>8 DEF StepOK
  <2>10. e.state \notin {"FAILED", "AMBIGUOUS"}
    BY <1>3
  <2> QED
    BY <1>1, <1>2, <2>2, <2>4, <2>5, <2>7, <2>9, <2>10, WriteMoves
<1> QED
  BY <1>5, <1>6 DEF onBroadcast

\* The receipt arrives.
LEMMA AwaitKeeps ==
  ASSUME RunInv, awaitReceipt
  PROVE  RunInv' /\ Kept
<1>1. Working /\ proc.pc = "await" /\ ProcType /\ txs' = txs /\ reveal' = reveal
  BY DEF awaitReceipt, Working, RunInv
<1>2. PICK s, e : s = at /\ e = journal[s]
  OBVIOUS
<1>3. e \in Entries /\ ~e.verified /\ e.state = "BROADCAST" /\ EntryOK(s, e)
  BY <1>1, <1>2, AtWork DEF StepOK
<1>4. CASE throw /\ journal' = journal
  BY <1>1, <1>4, ThrowKeeps
<1>5. ASSUME NEW x \in {markConfirmed(s), markFailed(s)}
      PROVE  /\ x \in Entries /\ x.payload = e.payload /\ ~x.verified
             /\ EntryOK(s, x) /\ SealOK(s, x)
  <2>1. /\ x \in Entries /\ x.payload = e.payload /\ x.hash = e.hash /\ ~x.verified
        /\ x.state \in {"CONFIRMED", "FAILED"}
    BY <1>2, <1>3, <1>5, MarksAre
  <2> QED
    BY <1>3, <2>1, Marked
<1>6. e.state \notin {"FAILED", "AMBIGUOUS"}
  BY <1>3
<1>7. CASE write(at, markConfirmed(at)) /\ goto("verify")
  <2>1. PICK x : x = markConfirmed(s)
    OBVIOUS
  <2>2. write(s, x) /\ x.state = "CONFIRMED"
    BY <1>2, <1>3, <1>7, <2>1, MarksAre
  <2>3. x \in Entries /\ x.payload = e.payload /\ ~x.verified /\ EntryOK(s, x) /\ SealOK(s, x)
    BY <1>5, <2>1
  <2>4. "verify" \in Pcs
    BY DEF Pcs
  <2>5. ProcType' /\ proc'.pc = "verify" /\ proc'.at = proc.at
    BY <1>1, <1>7, <2>4, Went
  <2>6. StepOK("verify", s, x)'
    BY <2>2, <2>3 DEF StepOK
  <2> QED
    BY <1>1, <1>2, <1>6, <2>2, <2>3, <2>5, <2>6, WriteMoves
<1>8. CASE write(at, markFailed(at)) /\ throw
  <2>1. PICK x : x = markFailed(s)
    OBVIOUS
  <2>2. write(s, x)
    BY <1>2, <1>8, <2>1
  <2>3. x \in Entries /\ x.payload = e.payload /\ ~x.verified /\ EntryOK(s, x) /\ SealOK(s, x)
    BY <1>5, <2>1
  <2> QED
    BY <1>1, <1>2, <1>6, <1>8, <2>2, <2>3, WriteThrows
<1> QED
  BY <1>4, <1>7, <1>8 DEF awaitReceipt

\* A record that is there and that nobody but the runner made is the
\* runner's transaction with the frozen payload.
LEMMA ExistsIsSent ==
  ASSUME JournalOK, NEW s \in OnChain, exists(s), s \in Rivals => own(s)
  PROVE  \E i \in with(s, "success") : Sent(s, i, journal[s].payload)
<1>1. PICK i : i = stored(s)
  OBVIOUS
<1>2. i \in with(s, "success") /\ txs[s][i].payload = journal[s].payload
  BY <1>1, StoredIs DEF exists
<1>3. i \in DOMAIN txs[s]
  BY <1>2 DEF with
<1>4. txs[s][i].by = "runner"
  <2>1. CASE s \in Rivals
    BY <1>1, <2>1 DEF own
  <2>2. CASE s \notin Rivals
    BY <1>3, <2>2 DEF JournalOK, ChainOK
  <2> QED
    BY <2>1, <2>2
<1> QED
  BY <1>2, <1>3, <1>4 DEF Sent

\* What the verify handlers have checked of a stage they pass.
LEMMA VerdictIs ==
  ASSUME JournalOK, NEW s, verdict(s) = "ok"
  PROVE  /\ s \in OnChain => \E i \in with(s, "success") : Sent(s, i, journal[s].payload)
         /\ s \in Sources => reveal[s] = journal[s].payload
<1>1. s \in OnChain => s \notin Checkpoints \cup {"CEREMONY_IDENTITIES_CONFIRMED"}
  BY KindsApart
<1>2. Rivals \subseteq Sources \cup {"SESSION_COMMITTED"}
  BY BoundsAssumption
<1>3. CASE s \in {"VAULT_CREATED", "VAULT_ACTIVATED"}
  <2>1. s \in OnChain /\ s \notin Rivals /\ s \notin Sources
    BY <1>2, <1>3 DEF OnChain, Sources
  <2>2. verdict(s) = IF s = "VAULT_CREATED" THEN verifyVaultCreated ELSE verifyVaultActivated
    BY <1>1, <1>3, <2>1 DEF verdict, Sources, Governance
  <2>3. exists(s)
    BY <1>3, <2>2 DEF verifyVaultCreated, verifyVaultActivated
  <2> QED
    BY <2>1, <2>3, ExistsIsSent
<1>4. CASE s \in Sources
  <2>1. s \in OnChain
    BY <1>4 DEF OnChain
  <2>2. verdict(s) = verifySource(s)
    BY <1>1, <1>4, <2>1 DEF verdict, Sources, Governance
  <2>3. reveal[s] = journal[s].payload /\ own(s)
    BY <2>2 DEF verifySource
  <2>4. exists(s)
    BY <2>3 DEF own
  <2> QED
    BY <2>1, <2>3, <2>4, ExistsIsSent
<1>5. CASE s \in Governance
  <2>1. s \in OnChain /\ s \notin Rivals /\ s \notin Sources
    BY <1>2, <1>5 DEF OnChain, Sources, Governance
  <2>2. verdict(s) = verifyGovernance(s)
    BY <1>1, <1>5, <2>1 DEF verdict, Sources, Governance
  <2>3. exists(s)
    BY <2>2 DEF verifyGovernance
  <2> QED
    BY <2>1, <2>3, ExistsIsSent
<1>6. CASE s = "SESSION_COMMITTED"
  <2>1. s \in OnChain /\ s \notin Sources
    BY <1>6 DEF OnChain, Sources
  <2>2. verdict(s) = verifySessionCommitted
    BY <1>1, <1>6, <2>1 DEF verdict, Sources, Governance
  <2>3. own(s)
    BY <1>6, <2>2 DEF verifySessionCommitted
  <2>4. exists(s)
    BY <2>3 DEF own
  <2> QED
    BY <2>1, <2>3, <2>4, ExistsIsSent
<1>7. s \in Sources => s \in OnChain
  BY DEF OnChain
<1> QED
  BY <1>3, <1>4, <1>5, <1>6, <1>7 DEF OnChain

\* The stage is checked from the world and sealed, or failed.
LEMMA SealKeeps ==
  ASSUME RunInv, verifyAndSeal
  PROVE  RunInv' /\ Kept
<1>1. Working /\ proc.pc = "verify" /\ ProcType /\ JournalOK /\ txs' = txs /\ reveal' = reveal
  BY DEF verifyAndSeal, Working, RunInv
<1>2. PICK s, e : s = at /\ e = journal[s]
  OBVIOUS
<1>3. /\ s \in Stage /\ e \in Entries /\ ~e.verified /\ e.state = "CONFIRMED" /\ EntryOK(s, e)
      /\ proc.at \in 1..31 /\ s = STAGES[proc.at]
  BY <1>1, <1>2, AtWork DEF StepOK
<1>4. CASE throw /\ journal' = journal
  BY <1>1, <1>4, ThrowKeeps
<1>5. e.state \notin {"FAILED", "AMBIGUOUS"}
  BY <1>3
<1>6. CASE write(at, markFailed(at)) /\ throw
  <2>1. PICK x : x = markFailed(s)
    OBVIOUS
  <2>2. write(s, x)
    BY <1>2, <1>6, <2>1
  <2>3. x \in Entries /\ x.payload = e.payload /\ x.hash = e.hash /\ ~x.verified /\ x.state = "FAILED"
    BY <1>2, <1>3, <2>1, MarksAre
  <2>4. EntryOK(s, x) /\ SealOK(s, x)
    BY <1>3, <2>3, Marked
  <2> QED
    BY <1>1, <1>2, <1>5, <1>6, <2>2, <2>3, <2>4, WriteThrows
<1>7. CASE /\ verdict(at) = "ok"
           /\ write(at, [entry EXCEPT !.verified = TRUE, !.record = @ \/ at \in Governance])
           /\ proc' = [proc EXCEPT !.pc = "pipeline", !.at = @ + 1, !.step = 1]
  <2>1. PICK b : b = (e.record \/ s \in Governance)
    OBVIOUS
  <2>2. b \in BOOLEAN
    BY <2>1, Zenon
  <2>3. PICK v, x : v = [e EXCEPT !.verified = TRUE] /\ x = [v EXCEPT !.record = b]
    OBVIOUS
  <2>4. v \in Entries /\ v.verified = TRUE /\ v.state = e.state /\ v.payload = e.payload /\ v.hash = e.hash
    BY <1>3, <2>3 DEF Entries
  <2>5. x \in Entries /\ x.verified = TRUE /\ x.state = e.state /\ x.payload = e.payload /\ x.hash = e.hash
    BY <2>2, <2>3, <2>4 DEF Entries
  <2>6. x = [e EXCEPT !.verified = TRUE, !.record = @ \/ s \in Governance]
    BY <1>3, <2>1, <2>2, <2>3 DEF Entries
  <2>7. write(s, x) /\ verdict(s) = "ok"
    BY <1>2, <1>7, <2>6 DEF entry
  <2>8. EntryOK(s, x)
    BY <1>3, <2>5 DEF EntryOK
  <2>9. SealOK(s, x)
    BY <1>1, <1>2, <2>5, <2>7, VerdictIs DEF SealOK
  <2>10. JournalOK' /\ journal'[s] = x /\ \A j \in 1..(proc.at - 1) : sealed(STAGES[j])'
    BY <1>1, <1>2, <2>5, <2>7, <2>8, <2>9, Written
  <2>11. Kept
    BY <1>1, <1>2, <1>5, <2>5, <2>7, WriteKeeps
  <2>12. ProcType' /\ proc'.pc = "pipeline" /\ proc'.at = proc.at + 1
    <3>1. "pipeline" \in Pcs
      BY DEF Pcs
    <3>2. proc.at + 1 \in 1..32
      BY <1>3
    <3> QED
      BY <1>1, <1>7, <3>1, <3>2 DEF ProcType
  <2>13. sealed(s)'
    BY <1>3, <2>5, <2>10 DEF sealed
  <2>14. \A j \in 1..(proc'.at - 1) : j \in 1..(proc.at - 1) \/ j = proc.at
    BY <1>3, <2>12
  <2>15. ProcOK'
    BY <1>3, <2>10, <2>12, <2>13, <2>14 DEF ProcOK, Working
  <2> QED
    BY <2>10, <2>11, <2>12, <2>15 DEF RunInv
<1> QED
  BY <1>4, <1>6, <1>7 DEF verifyAndSeal

\* The pipeline stands where every earlier stage is sealed and the next
\* one is not.
LEMMA ResumeAt ==
  ASSUME NEW from \in 1..32
  PROVE  /\ resumeAt(from) \in from..32
         /\ resumeAt(from) <= 31 => ~sealed(STAGES[resumeAt(from)])
         /\ \A j \in from..(resumeAt(from) - 1) : sealed(STAGES[j])
<1>1. Len(STAGES) = 31
  BY StagesType
<1> DEFINE Here(i) == /\ i <= Len(STAGES) => ~skipped(STAGES[i])
                      /\ \A j \in from..(i - 1) : skipped(STAGES[j])
<1>2. \E i \in from..(Len(STAGES) + 1) : Here(i)
  <2>1. PICK T : T = {i \in from..32 : i <= 31 => ~skipped(STAGES[i])}
    OBVIOUS
  <2>2. T \in SUBSET Nat /\ 32 \in T
    BY <2>1
  <2>3. PICK i \in T : \A j \in T : i <= j
    BY <2>2, LeastNat
  <2>4. i \in from..32 /\ (i <= 31 => ~skipped(STAGES[i]))
    BY <2>1
  <2>5. ASSUME NEW j \in from..(i - 1)
        PROVE  skipped(STAGES[j])
    <3>1. j \in from..32 /\ j <= 31 /\ ~(i <= j)
      BY <2>4
    <3> QED
      BY <2>1, <2>3, <3>1
  <2> QED
    BY <1>1, <2>4, <2>5
<1>3. resumeAt(from) = CHOOSE i \in from..(Len(STAGES) + 1) : Here(i)
  BY DEF resumeAt
<1> HIDE DEF Here
<1>4. resumeAt(from) \in from..(Len(STAGES) + 1) /\ Here(resumeAt(from))
  BY <1>2, <1>3
<1> QED
  BY <1>1, <1>4 DEF Here, skipped

\* The pipeline passes over the sealed stages and begins the next one.
LEMMA RunPipelineKeeps ==
  ASSUME RunInv, runPipeline
  PROVE  RunInv' /\ Kept
<1>1. /\ proc.pc = "pipeline" /\ ProcType /\ JournalOK
      /\ txs' = txs /\ reveal' = reveal /\ journal' = journal
  BY DEF runPipeline, RunInv
<1>2. CASE throw
  BY <1>1, <1>2, ThrowKeeps
<1>3. CASE ~(resumeAt(proc.at) > Len(STAGES))
           /\ proc' = [proc EXCEPT !.pc = "stage", !.at = resumeAt(proc.at), !.hash = 0]
  <2>1. PICK f, k : f = proc.at /\ k = resumeAt(proc.at)
    OBVIOUS
  <2>2. f \in 1..32
    BY <1>1, <2>1 DEF ProcType
  <2>3. /\ k \in f..32 /\ (k <= 31 => ~sealed(STAGES[k]))
        /\ \A j \in f..(k - 1) : sealed(STAGES[j])
    BY <2>1, <2>2, ResumeAt
  <2>4. k \in 1..31
    BY <1>3, <2>1, <2>2, <2>3, StagesType
  <2>5. \A j \in 1..(f - 1) : sealed(STAGES[j])
    BY <1>1, <2>1 DEF RunInv, ProcOK
  <2>6. \A j \in 1..(k - 1) : sealed(STAGES[j])
    <3>1. \A j \in 1..(k - 1) : j \in 1..(f - 1) \/ j \in f..(k - 1)
      BY <2>2, <2>4
    <3> QED
      BY <2>3, <2>5, <3>1
  <2>7. STAGES[k] \in Stage /\ ~sealed(STAGES[k])
    BY <2>3, <2>4, StagesType
  <2>8. ~journal[STAGES[k]].verified
    BY <1>1, <2>7 DEF JournalOK, EntryOK, sealed
  <2>9. proc' \in [pc : Pcs, at : 1..32, hash : Nat, step : Nat] /\ proc'.pc = "stage" /\ proc'.at = k
    <3>1. "stage" \in Pcs /\ k \in 1..32
      BY <2>4 DEF Pcs
    <3> QED
      BY <1>1, <1>3, <2>1, <3>1 DEF ProcType
  <2>10. at' = STAGES[k] /\ proc'.at \in DOMAIN STAGES
    BY <2>4, <2>9, StagesType DEF at
  <2>11. PICK s, e : s = STAGES[k] /\ e = journal[s]
    OBVIOUS
  <2>12. StepOK("stage", s, e)'
    BY <2>8, <2>11 DEF StepOK
  <2>13. ProcOK'
    BY <1>1, <2>6, <2>9, <2>10, <2>11, <2>12 DEF ProcOK, Working, sealed
  <2>14. JournalOK' /\ Kept
    BY <1>1, Untouched
  <2> QED
    BY <2>9, <2>13, <2>14 DEF RunInv, ProcType
<1> QED
  BY <1>2, <1>3 DEF runPipeline

\* What reconciling a broadcast stage with the chain leaves.
LEMMA ReconciledIs ==
  ASSUME NEW s, NEW b, journal[s] \in Entries, journal[s].state = "BROADCAST"
  PROVE  /\ reconcileEntry(s, b) \in Entries /\ reconcileEntry(s, b).payload = journal[s].payload
         /\ reconcileEntry(s, b).hash = journal[s].hash
         /\ reconcileEntry(s, b).verified = journal[s].verified
         /\ reconcileEntry(s, b).state \notin {"NOT_STARTED", "AWAITING_EXTERNAL"}
<1>1. reconcileEntry(s, b) \in {markConfirmed(s), markFailed(s), markAmbiguous(s), journal[s]}
  BY DEF reconcileEntry
<1> QED
  BY <1>1, MarksAre

\* The operator starts the runner: broadcast stages are reconciled.
LEMMA StartKeeps ==
  ASSUME RunInv, runAdmissionPipeline
  PROVE  RunInv' /\ Kept
<1>0. PICK unread :
        journal' = [s \in Stage |-> IF journal[s].state = "BROADCAST"
                                   THEN reconcileEntry(s, s \notin unread) ELSE journal[s]]
  BY DEF runAdmissionPipeline
<1>1. /\ ProcType /\ JournalOK /\ txs' = txs /\ reveal' = reveal
      /\ journal' = [s \in Stage |-> IF journal[s].state = "BROADCAST"
                                     THEN reconcileEntry(s, s \notin unread) ELSE journal[s]]
  BY <1>0 DEF runAdmissionPipeline, RunInv
<1>2. ASSUME NEW s \in Stage
      PROVE  /\ journal[s] \in Entries /\ journal'[s] \in Entries
             /\ EntryOK(s, journal'[s]) /\ SealOK(s, journal'[s])
             /\ journal'[s].payload = journal[s].payload
             /\ journal[s].state # "BROADCAST" => journal'[s] = journal[s]
  <2>1. PICK e, x : e = journal[s] /\ x = journal'[s]
    OBVIOUS
  <2>2. e \in Entries /\ EntryOK(s, e) /\ SealOK(s, e)
    BY <1>1, <2>1 DEF JournalOK, DataTypes
  <2>3. CASE e.state = "BROADCAST"
    <3>1. /\ x \in Entries /\ x.payload = e.payload /\ x.hash = e.hash /\ x.verified = e.verified
          /\ x.state \notin {"NOT_STARTED", "AWAITING_EXTERNAL"}
      BY <1>1, <2>1, <2>2, <2>3, ReconciledIs
    <3>2. ~e.verified
      BY <2>2, <2>3 DEF EntryOK
    <3>3. EntryOK(s, x) /\ SealOK(s, x)
      BY <2>2, <3>1, <3>2, Marked
    <3> QED
      BY <2>1, <2>2, <2>3, <3>1, <3>3
  <2>4. CASE e.state # "BROADCAST"
    <3>1. x = e
      BY <1>1, <2>1, <2>4
    <3> QED
      BY <2>1, <2>2, <3>1
  <2> QED
    BY <2>3, <2>4
<1>3. journal' \in [Stage -> Entries]
  <2>1. \A s \in Stage : journal'[s] \in Entries
    BY <1>2
  <2> QED
    BY <1>1, <2>1
<1>4. ChainGrows
  BY <1>1, ChainStays
<1>5. ASSUME NEW s \in Stage
      PROVE  EntryOK(s, journal[s])' /\ SealOK(s, journal[s])'
  <2>1. PICK x : x = journal'[s]
    OBVIOUS
  <2>2. EntryOK(s, x) /\ SealOK(s, x)
    BY <1>2, <2>1
  <2>3. EntryOK(s, x)'
    BY <1>4, <2>2, EntryStays
  <2>4. SealOK(s, x)'
    BY <1>1, <1>4, <2>2, SealStays
  <2> QED
    BY <2>1, <2>3, <2>4
<1>6. SpineIsSealed'
  <2> SUFFICES ASSUME NEW i \in 1..31, NEW j \in 1..31, i < j,
                      journal'[STAGES[j]].state # "NOT_STARTED"
               PROVE  sealed(STAGES[i])'
    BY StagesType DEF SpineIsSealed
  <2>1. STAGES[i] \in Stage /\ STAGES[j] \in Stage
    BY StagesType
  <2>2. journal[STAGES[j]].state # "NOT_STARTED"
    BY <1>2, <2>1
  <2>3. sealed(STAGES[i])
    BY <1>1, <2>2, StagesType DEF JournalOK, SpineIsSealed
  <2> QED
    BY <1>2, <2>1, <2>3 DEF sealed
<1>7. JournalOK'
  BY <1>1, <1>3, <1>4, <1>5, <1>6 DEF JournalOK, DataTypes, ChainGrows
<1>8. ProcType' /\ proc'.pc = "pipeline" /\ proc'.at = 1
  <2>1. "pipeline" \in Pcs /\ 1 \in 1..32
    BY DEF Pcs
  <2>2. proc' = [proc EXCEPT !.pc = "pipeline", !.at = 1]
    BY DEF runAdmissionPipeline
  <2> QED
    BY <1>1, <2>1, <2>2 DEF ProcType
<1>9. ProcOK'
  BY <1>8 DEF ProcOK, Working
<1>10. Kept
  BY <1>2 DEF Kept, sealed
<1> QED
  BY <1>7, <1>8, <1>9, <1>10 DEF RunInv

\* A crash.
LEMMA InterruptKeeps ==
  ASSUME RunInv, interrupt
  PROVE  RunInv' /\ Kept
BY ThrowKeeps DEF interrupt

\* A run begins with an empty journal.
LEMMA InitHolds ==
  ASSUME Init
  PROVE  RunInv
<1>1. NotStarted \in Entries /\ NotStarted.state = "NOT_STARTED" /\ ~NotStarted.verified /\ NotStarted.hash = 0
  BY DEF NotStarted, Entries, States
<1>2. journal = [s \in Stage |-> NotStarted] /\ txs = [s \in OnChain |-> <<>>] /\ reveal = [s \in Sources |-> 0]
  BY DEF Init
<1>3. DataTypes
  <2>1. <<>> \in Seq(Tx)
    OBVIOUS
  <2> QED
    BY <1>1, <1>2, <2>1 DEF DataTypes
<1>4. \A s \in Stage : EntryOK(s, journal[s]) /\ SealOK(s, journal[s])
  BY <1>1, <1>2 DEF EntryOK, SealOK
<1>5. \A s \in OnChain : ChainOK(s)
  BY <1>2 DEF ChainOK, with
<1>6. SpineIsSealed
  BY <1>1, <1>2, StagesType DEF SpineIsSealed
<1>7. ProcType /\ ProcOK
  BY DEF Init, ProcType, ProcOK, Pcs, Working
<1> QED
  BY <1>3, <1>4, <1>5, <1>6, <1>7 DEF RunInv, JournalOK

\* Every step of the run keeps the invariant, and what the journal froze,
\* failed or sealed.
LEMMA NextKeeps ==
  ASSUME RunInv, [Next]_vars
  PROVE  RunInv' /\ Kept
<1>1. CASE runAdmissionPipeline
  BY <1>1, StartKeeps
<1>2. CASE Step
  BY <1>2, RunPipelineKeeps, RunStageKeeps, PrepareSourceKeeps, PrepareOtherKeeps, FreezeKeeps,
     ExecuteOffChainKeeps, ExecuteAPassKeeps, ActivateKeeps, BroadcastKeeps, OnBroadcastKeeps,
     AwaitKeeps, SealKeeps DEF Step
<1>3. CASE interrupt
  BY <1>3, InterruptKeeps
<1>4. ASSUME NEW s \in OnChain, mine(s) \/ drop(s) \/ rival(s)
      PROVE  RunInv' /\ Kept
  BY <1>4, MineKeeps, DropKeeps, RivalKeeps
<1>5. CASE mineSetup \/ grantAPass \/ UNCHANGED vars
  BY <1>5, AsideKeeps
<1> QED
  BY <1>1, <1>2, <1>3, <1>4, <1>5 DEF Next

-----------------------------------------------------------------------------
\* The theorems.

\* Whatever is interrupted, forgotten or contested, the journal stays true
\* of the chain and of the reveal packages, and the runner is where the
\* journal lets it be.
THEOREM RunInvariant == Spec => []RunInv
<1>1. Init => RunInv
  BY InitHolds
<1>2. RunInv /\ [Next]_vars => RunInv'
  BY NextKeeps
<1> QED
  BY <1>1, <1>2, PTL DEF Spec

\* A sealed transaction stage is on the chain, made by the runner, with
\* the calldata that the journal froze (verifyAndSeal).
THEOREM SealedStaysOnChain == Spec => []SealedIsOnChain
<1>1. RunInv => SealedIsOnChain
  BY OnChainStages DEF RunInv, JournalOK, SealOK, Sent, SealedIsOnChain, sealed
<1> QED
  BY <1>1, RunInvariant, PTL

\* The reveal package of a sealed source opens the commitment on the chain
\* (the source flow's prepare and verify handlers).
THEOREM RevealAlwaysOpens == Spec => []RevealOpensCommitment
<1>1. ASSUME RunInv, NEW s \in Sources, sealed(s)
      PROVE  reveal[s] = txs[s][stored(s)].payload
  <2>1. JournalOK /\ s \in OnChain /\ s \in Stage /\ journal[s].verified
    BY <1>1, OnChainStages DEF RunInv, sealed
  <2>2. reveal[s] = journal[s].payload /\ \E i \in with(s, "success") : Sent(s, i, journal[s].payload)
    BY <2>1 DEF JournalOK, SealOK
  <2>3. PICK i \in with(s, "success") : Sent(s, i, journal[s].payload)
    BY <2>2
  <2>4. stored(s) = i
    BY <2>1, <2>3, StoredIs
  <2> QED
    BY <2>2, <2>3, <2>4 DEF Sent
<1>2. RunInv => RevealOpensCommitment
  BY <1>1 DEF RevealOpensCommitment
<1> QED
  BY <1>2, RunInvariant, PTL

\* A stage that has begun stands on predecessors that are all confirmed
\* and independently verified (runPipeline, runStage).
THEOREM SpineStaysSealed == Spec => []SpineIsSealed
<1>1. RunInv => SpineIsSealed
  BY DEF RunInv, JournalOK
<1> QED
  BY <1>1, RunInvariant, PTL

\* A runner that waits for a receipt has journaled the hash it waits for
\* (onBroadcast before awaitReceipt), so a crash leaves it to reconcile.
THEOREM AwaitedStaysJournaled == Spec => []AwaitedIsJournaled
<1>1. ASSUME RunInv, proc.pc = "await"
      PROVE  entry.state = "BROADCAST" /\ entry.hash = proc.hash
  <2>1. Working
    BY <1>1 DEF Working
  <2> QED
    BY <1>1, <2>1, AtWork DEF StepOK, entry
<1>2. RunInv => AwaitedIsJournaled
  BY <1>1 DEF AwaitedIsJournaled
<1> QED
  BY <1>2, RunInvariant, PTL

\* What a preparation froze is never regenerated, across every restart
\* (journal.prepare, recordOffChain).
THEOREM FrozenStaysFrozen == Spec => FrozenForever
<1>1. RunInv /\ [Next]_vars => [\A s \in Stage : journal[s].payload # 0 => journal'[s].payload = journal[s].payload]_vars
  BY NextKeeps DEF Kept
<1> QED
  BY <1>1, RunInvariant, PTL DEF Spec, FrozenForever

\* A failed, ambiguous or sealed stage is never rewritten, not even by the
\* reconciliation of a restart (runStage, reconcileEntry).
THEOREM TerminalForever == Spec => TerminalStays
<1>1. RunInv /\ [Next]_vars =>
        [\A s \in Stage :
           /\ journal[s].state \in {"FAILED", "AMBIGUOUS"} => journal'[s] = journal[s]
           /\ sealed(s) => journal'[s] = journal[s]]_vars
  BY NextKeeps DEF Kept
<1> QED
  BY <1>1, RunInvariant, PTL DEF Spec, TerminalStays

-----------------------------------------------------------------------------
(***************************************************************************)
(* The living run.                                                         *)
(***************************************************************************)
Runs == [epoch : Nat, deployment : Nat, conflict : BOOLEAN,
         status : [Steps -> {"none", "pending", "confirmed", "failed"}], hash : [Steps -> Nat]]

Ats == {"free", "initialize", "receipt", "before", "run", "send", "broadcast", "wait", "confirm",
        "observe", "revert", "snapshot", "reinitialize"}

Requests == [at : Ats, step : Steps \cup {NoStep}, seen : Runs, hash : Nat, conflict : BOOLEAN]

DemoTypes ==
  /\ demoChain \in [epoch : Nat, sent : Seq([step : Steps, ok : BOOLEAN, epoch : Nat])]
  /\ demoFile \in Runs
  /\ deployed \in [id : Nat, snapshot : BOOLEAN]
  /\ activeAction \in Steps \cup {NoStep}
  /\ handling \in [Slots -> Requests]
  /\ tally \in [actions : Nat, faults : Nat, deaths : Nat, lives : Nat]

\* The stations of an execution that holds the lock.
Executing == {"before", "run", "send", "broadcast", "wait", "confirm", "observe"}

\* A request that executes names a step, and one that awaits a receipt
\* read a run with a pending action.
Known(h) ==
  /\ h.at \in Executing => h.step \in Steps
  /\ h.at = "receipt" => \E s \in Steps : h.seen.status[s] = "pending"

StepsKnown == \A q \in Slots : Known(handling[q])

DemoTyped == DemoTypes /\ StepsKnown

\* Nothing was lost so far.
Lossless == tally.faults + tally.deaths + tally.lives = 0

\* What an execution that lost nothing relies on at its station.
SlotCalm(q) ==
  LET h == handling[q]
  IN /\ h.at \in {"free"} \cup (Executing \ {"observe"})
     /\ h.at # "free" => activeAction = h.step
     /\ h.at = "before" => h.seen = demoFile /\ demoFile.status[h.step] # "confirmed"
     /\ h.at \in {"run", "send", "broadcast", "wait", "confirm"} => demoFile.status[h.step] = "pending"
     /\ h.at \in {"run", "send"} => demoFile.hash[h.step] = 0
     /\ h.at \in {"broadcast", "wait"} => h.hash \in DOMAIN demoChain.sent /\ demoChain.sent[h.hash].ok

CalmRun ==
  /\ demoFile.deployment = deployed.id
  /\ \A q \in Slots : SlotCalm(q)
  /\ \A q, r \in Slots : handling[q].at # "free" /\ handling[r].at # "free" => q = r
  /\ \A s \in Steps : demoFile.status[s] = "pending" => activeAction = s
  /\ \A s \in Steps : landed(s) =>
       \/ demoFile.status[s] = "confirmed"
       \/ \E q \in Slots : handling[q].step = s /\ handling[q].at \in {"broadcast", "wait", "confirm"}
  /\ \A s \in Steps : \A i, j \in landings(s) : i = j

CalmInv == DemoTyped /\ (Lossless => CalmRun)

\* A run as it is first written, of the present deployment.
Blank(f) ==
  f.deployment = deployed.id /\ \A s \in Steps : f.status[s] = "none" /\ f.hash[s] = 0

\* The deployment has no run yet, and at most one request is creating it.
Creating ==
  /\ demoFile.deployment # deployed.id /\ activeAction = NoStep
  /\ \A s \in Steps : landings(s) = {}
  /\ \A q \in Slots : handling[q].at \in {"free", "initialize"}
  /\ \A q \in Slots : handling[q].at = "initialize" => Blank(handling[q].seen)
  /\ \A q, r \in Slots : handling[q].at # "free" /\ handling[r].at # "free" => q = r

LossInv == DemoTyped /\ (Lossless /\ overlaps = {} => CalmRun \/ Creating)

\* A hash kept for a step is of a transaction of that step.
HashesOf(f) ==
  \A s \in Steps : f.hash[s] # 0 => f.hash[s] \in DOMAIN demoChain.sent /\ demoChain.sent[f.hash[s]].step = s

\* What a run of the chain's present life calls confirmed is there.
TrueRun(f) ==
  f.epoch = demoChain.epoch =>
    \A s \in Steps : f.status[s] = "confirmed" /\ stepKind(s) # "signature" => landed(s)

JourneyOrder ==
  \A i, j \in DOMAIN DemoSteps :
    i < j /\ landed(DemoSteps[j]) /\ stepKind(DemoSteps[i]) # "signature" => landed(DemoSteps[i])

Earlier(s) ==
  \A i, j \in DOMAIN DemoSteps :
    i < j /\ DemoSteps[j] = s /\ stepKind(DemoSteps[i]) # "signature" => landed(DemoSteps[i])

ChainEpochs == \A i \in DOMAIN demoChain.sent : demoChain.sent[i].epoch <= demoChain.epoch

FileTrue ==
  /\ demoFile.epoch <= demoChain.epoch
  /\ HashesOf(demoFile) /\ TrueRun(demoFile)
  /\ demoFile.epoch = demoChain.epoch => JourneyOrder

\* A chain whose run is not written yet has seen no step.
Unwritten ==
  (demoFile.deployment # deployed.id \/ \E q \in Slots : handling[q].at \in {"snapshot", "reinitialize"})
    => \A s \in Steps : ~landed(s)

\* The requests that read the run and have not answered yet.
Loaded == Executing \cup {"receipt"}

SlotTrue(q) ==
  LET h == handling[q]
  IN /\ h.at \in {"revert", "snapshot", "reinitialize"} => \A r \in Slots : r # q => handling[r].at = "free"
     /\ h.at = "initialize" => demoFile.deployment # deployed.id \/ demoFile.epoch = demoChain.epoch
     /\ h.at \in {"initialize", "revert", "snapshot", "reinitialize"} => Blank(h.seen)
     /\ h.at \in Loaded =>
          /\ demoFile.deployment = deployed.id
          /\ h.seen.deployment = demoFile.deployment /\ h.seen.epoch = demoFile.epoch
          /\ HashesOf(h.seen) /\ TrueRun(h.seen)
     /\ h.at \in {"before", "run", "send"} /\ demoFile.epoch = demoChain.epoch => Earlier(h.step)
     /\ h.at \in Executing /\ h.hash # 0 =>
          h.hash \in DOMAIN demoChain.sent /\ demoChain.sent[h.hash].step = h.step
     /\ h.at \in {"broadcast", "wait"} => h.hash # 0
     /\ h.at = "confirm" => stepKind(h.step) = "signature" \/ landed(h.step)

TruthInv == DemoTyped /\ ChainEpochs /\ FileTrue /\ Unwritten /\ \A q \in Slots : SlotTrue(q)

\* The steps of the run are steps of the journey, and "none" is not one.
LEMMA StepsAre ==
  /\ NoStep \notin Steps
  /\ DOMAIN DemoSteps \subseteq Nat
  /\ \A i \in DOMAIN DemoSteps : DemoSteps[i] \in Steps
<1>1. DemoSteps \in Seq(JOURNEY)
  BY DemoAssumption
<1>2. PICK n \in Nat : DOMAIN DemoSteps = 1..n
  BY <1>1
<1>3. \A i \in DOMAIN DemoSteps : DemoSteps[i] \in JOURNEY
  BY <1>1
<1>4. "none" \notin JOURNEY
  BY DEF JOURNEY
<1> QED
  BY <1>2, <1>3, <1>4 DEF Steps, NoStep

\* The next action is the first one that is not confirmed.
LEMMA NextIs ==
  ASSUME NEW f \in Runs, NEW s \in Steps, s = nextActionFor(f)
  PROVE  /\ f.status[s] # "confirmed"
         /\ \E j \in DOMAIN DemoSteps :
              /\ DemoSteps[j] = s
              /\ \A i \in DOMAIN DemoSteps : i < j => f.status[DemoSteps[i]] = "confirmed"
<1>1. PICK open : open = {i \in DOMAIN DemoSteps : f.status[DemoSteps[i]] # "confirmed"}
  OBVIOUS
<1>2. s = IF open = {} THEN NoStep ELSE DemoSteps[CHOOSE i \in open : \A j \in open : i <= j]
  BY <1>1 DEF nextActionFor
<1>3. open # {}
  BY <1>2, StepsAre
<1>4. open \in SUBSET Nat
  BY <1>1, StepsAre
<1>5. \E i \in open : \A j \in open : i <= j
  BY <1>3, <1>4, LeastNat
<1>6. PICK k : k = CHOOSE i \in open : \A j \in open : i <= j
  OBVIOUS
<1>7. k \in open /\ \A j \in open : k <= j
  BY <1>5, <1>6
<1>8. s = DemoSteps[k]
  BY <1>2, <1>3, <1>6
<1>9. k \in DOMAIN DemoSteps /\ f.status[s] # "confirmed"
  BY <1>1, <1>7, <1>8
<1>10. ASSUME NEW i \in DOMAIN DemoSteps, i < k
       PROVE  f.status[DemoSteps[i]] = "confirmed"
  <2>1. i \in Nat /\ k \in Nat
    BY <1>9, StepsAre
  <2>2. i \notin open
    BY <1>7, <1>10, <2>1
  <2> QED
    BY <1>1, <2>2
<1> QED
  BY <1>8, <1>9, <1>10

\* The runs f and g differ in the record of step s at most.
SameBut(f, g, s) ==
  /\ g.epoch = f.epoch /\ g.deployment = f.deployment
  /\ \A t \in Steps : t # s => g.status[t] = f.status[t] /\ g.hash[t] = f.hash[t]

\* What it may have become.
Updated(f, g, s, word, n) ==
  IF f.status[s] = "none" THEN g.status[s] = "none" /\ g.hash[s] = f.hash[s]
  ELSE g.status[s] = word /\ g.hash[s] = n

\* An update changes the record of its own step, if there is one.
LEMMA UpdateIs ==
  ASSUME NEW f \in Runs, NEW s \in Steps,
         NEW word \in {"none", "pending", "confirmed", "failed"}, NEW n \in Nat,
         NEW g, g = updateAction(f, s, word, n)
  PROVE  /\ g \in Runs /\ g.conflict = f.conflict /\ SameBut(f, g, s)
         /\ Updated(f, g, s, word, n)
<1>1. CASE f.status[s] = "none"
  <2>1. g = f
    BY <1>1 DEF updateAction
  <2> QED
    BY <1>1, <2>1 DEF SameBut, Updated
<1>2. CASE f.status[s] # "none"
  <2>1. PICK words : words = [f.status EXCEPT ![s] = word]
    OBVIOUS
  <2>2. PICK numbers : numbers = [f.hash EXCEPT ![s] = n]
    OBVIOUS
  <2>3. g = [f EXCEPT !.status = words, !.hash = numbers]
    BY <1>2, <2>1, <2>2 DEF updateAction
  <2>4. f.status \in [Steps -> {"none", "pending", "confirmed", "failed"}] /\ f.hash \in [Steps -> Nat]
    BY DEF Runs
  <2>5. /\ words \in [Steps -> {"none", "pending", "confirmed", "failed"}]
        /\ words[s] = word /\ \A t \in Steps : t # s => words[t] = f.status[t]
    BY <2>1, <2>4
  <2>6. /\ numbers \in [Steps -> Nat]
        /\ numbers[s] = n /\ \A t \in Steps : t # s => numbers[t] = f.hash[t]
    BY <2>2, <2>4
  <2>7. /\ g \in Runs /\ g.status = words /\ g.hash = numbers
        /\ g.epoch = f.epoch /\ g.deployment = f.deployment /\ g.conflict = f.conflict
    BY <2>3, <2>5, <2>6 DEF Runs
  <2> QED
    BY <1>2, <2>5, <2>6, <2>7 DEF SameBut, Updated
<1> QED
  BY <1>1, <1>2

\* The pending action of a run is one that is pending, if any is.
LEMMA PendingIs ==
  ASSUME NEW f
  PROVE  \/ pendingIn(f) \in Steps /\ f.status[pendingIn(f)] = "pending"
         \/ pendingIn(f) = NoStep /\ \A s \in Steps : f.status[s] # "pending"
  BY DEF pendingIn

\* What a receipt makes of a run.
LEMMA SettledIs ==
  ASSUME NEW f \in Runs, NEW p \in Steps, p = pendingIn(f), f.status[p] = "pending",
         NEW r \in {"success", "reverted"}, NEW g, g = settledBy(f, r)
  PROVE  /\ g \in Runs /\ SameBut(f, g, p) /\ g.hash[p] = f.hash[p]
         /\ g.status[p] = IF r = "success" THEN "confirmed" ELSE "failed"
<1>1. PICK word \in {"none", "pending", "confirmed", "failed"} :
        word = IF r = "success" THEN "confirmed" ELSE "failed"
  OBVIOUS
<1>2. PICK n \in Nat : n = f.hash[p]
  BY DEF Runs
<1>3. g = updateAction(f, p, word, n)
  BY <1>1, <1>2 DEF settledBy
<1>4. g \in Runs /\ SameBut(f, g, p) /\ Updated(f, g, p, word, n)
  BY <1>3, UpdateIs
<1> QED
  BY <1>1, <1>2, <1>4 DEF Updated

\* The chain of the living run only grows, in the same life.
DemoGrows ==
  /\ demoChain'.epoch = demoChain.epoch
  /\ \A i \in DOMAIN demoChain.sent :
       i \in DOMAIN demoChain'.sent /\ demoChain'.sent[i] = demoChain.sent[i]

\* What took effect stays in effect.
LEMMA LandedStays ==
  ASSUME DemoGrows, NEW s, landed(s)
  PROVE  landed(s)'
<1>1. PICK i \in DOMAIN demoChain.sent :
        demoChain.sent[i].step = s /\ demoChain.sent[i].ok /\ demoChain.sent[i].epoch = demoChain.epoch
  BY DEF landed, landings
<1>2. /\ i \in DOMAIN demoChain'.sent
      /\ demoChain'.sent[i].step = s /\ demoChain'.sent[i].ok /\ demoChain'.sent[i].epoch = demoChain'.epoch
  BY <1>1 DEF DemoGrows
<1> QED
  BY <1>2 DEF landed, landings

\* The transaction mined(s) adds, at index k.
MinedAt(k, s) ==
  /\ k \notin DOMAIN demoChain.sent
  /\ DOMAIN demoChain'.sent = DOMAIN demoChain.sent \cup {k}
  /\ demoChain'.sent[k] = [step |-> s, ok |-> ~onceOnly(s) \/ ~landed(s), epoch |-> demoChain.epoch]

\* A mined step is in effect afterwards, and no other one because of it.
LEMMA MinedIs ==
  ASSUME DemoTypes, NEW s \in Steps, demoChain' = mined(s)
  PROVE  /\ demoChain' \in [epoch : Nat, sent : Seq([step : Steps, ok : BOOLEAN, epoch : Nat])]
         /\ DemoGrows /\ MinedAt(Len(demoChain.sent) + 1, s)
<1>1. PICK okay \in BOOLEAN : okay = (~onceOnly(s) \/ ~landed(s))
  OBVIOUS
<1>2. PICK old \in Seq([step : Steps, ok : BOOLEAN, epoch : Nat]) : old = demoChain.sent
  BY DEF DemoTypes
<1>3. demoChain.epoch \in Nat
  BY DEF DemoTypes
<1>4. PICK tx \in [step : Steps, ok : BOOLEAN, epoch : Nat] :
        tx = [step |-> s, ok |-> okay, epoch |-> demoChain.epoch]
  BY <1>1, <1>3
<1>5. PICK new : new = Append(old, tx)
  OBVIOUS
<1>6. /\ new \in Seq([step : Steps, ok : BOOLEAN, epoch : Nat])
      /\ DOMAIN new = DOMAIN old \cup {Len(old) + 1} /\ Len(old) + 1 \notin DOMAIN old
      /\ new[Len(old) + 1] = tx /\ \A i \in DOMAIN old : new[i] = old[i]
  BY <1>2, <1>4, <1>5
<1>7. demoChain' = [demoChain EXCEPT !.sent = new]
  BY <1>1, <1>2, <1>4, <1>5 DEF mined
<1>8. /\ demoChain' \in [epoch : Nat, sent : Seq([step : Steps, ok : BOOLEAN, epoch : Nat])]
      /\ demoChain'.epoch = demoChain.epoch /\ demoChain'.sent = new
  BY <1>6, <1>7 DEF DemoTypes
<1>9. DemoGrows
  BY <1>2, <1>6, <1>8 DEF DemoGrows
<1>10. MinedAt(Len(demoChain.sent) + 1, s)
  BY <1>1, <1>2, <1>4, <1>6, <1>8 DEF MinedAt
<1> QED
  BY <1>8, <1>9, <1>10

\* A mined step is in effect.
LEMMA MinedLands ==
  ASSUME NEW k, NEW s, DemoGrows, MinedAt(k, s)
  PROVE  landed(s)'
<1>1. CASE landed(s)
  BY <1>1, LandedStays
<1>2. CASE ~landed(s)
  <2>1. PICK okay \in BOOLEAN : okay = (~onceOnly(s) \/ ~landed(s))
    OBVIOUS
  <2>2. okay
    BY <1>2, <2>1
  <2>3. k \in DOMAIN demoChain'.sent /\ demoChain'.sent[k] = [step |-> s, ok |-> okay, epoch |-> demoChain.epoch]
    BY <2>1 DEF MinedAt
  <2>4. /\ k \in DOMAIN demoChain'.sent
        /\ demoChain'.sent[k].step = s /\ demoChain'.sent[k].ok /\ demoChain'.sent[k].epoch = demoChain'.epoch
    BY <2>2, <2>3 DEF DemoGrows
  <2> QED
    BY <2>4 DEF landed, landings
<1> QED
  BY <1>1, <1>2

\* It puts no other step into effect.
LEMMA MinedOnly ==
  ASSUME NEW k, NEW s, DemoGrows, MinedAt(k, s), NEW t, t # s, landed(t)'
  PROVE  landed(t)
<1>1. PICK i \in DOMAIN demoChain'.sent :
        demoChain'.sent[i].step = t /\ demoChain'.sent[i].ok /\ demoChain'.sent[i].epoch = demoChain'.epoch
  BY DEF landed, landings
<1>2. i # k
  BY <1>1 DEF MinedAt
<1>3. /\ i \in DOMAIN demoChain.sent
      /\ demoChain.sent[i].step = t /\ demoChain.sent[i].ok /\ demoChain.sent[i].epoch = demoChain.epoch
  BY <1>1, <1>2 DEF MinedAt, DemoGrows
<1> QED
  BY <1>3 DEF landed, landings

-----------------------------------------------------------------------------
\* Requests.

\* Slot q is the only one that a step touches.
OnlySlot(q) == handling' \in [Slots -> Requests] /\ \A r \in Slots : r # q => handling'[r] = handling[r]

\* A request is put in slot q.
LEMMA SlotIs ==
  ASSUME DemoTypes, NEW q \in Slots, NEW h \in Requests, handling' = [handling EXCEPT ![q] = h]
  PROVE  OnlySlot(q) /\ handling'[q] = h
  BY DEF DemoTypes, OnlySlot

\* A fresh run is of the chain and of the deployment.
LEMMA FreshIs ==
  ASSUME DemoTypes
  PROVE  /\ freshRun \in Runs
         /\ freshRun.epoch = demoChain.epoch /\ freshRun.deployment = deployed.id
         /\ \A s \in Steps : freshRun.status[s] = "none" /\ freshRun.hash[s] = 0
<1>1. [s \in Steps |-> "none"] \in [Steps -> {"none", "pending", "confirmed", "failed"}]
  OBVIOUS
<1>2. [s \in Steps |-> 0] \in [Steps -> Nat]
  OBVIOUS
<1>3. demoChain.epoch \in Nat /\ deployed.id \in Nat
  BY DEF DemoTypes
<1> QED
  BY <1>1, <1>2, <1>3 DEF freshRun, Runs

\* A request that has ended.
Idle == [at |-> "free", step |-> NoStep, seen |-> freshRun, hash |-> 0, conflict |-> FALSE]

\* It is one.
LEMMA IdleIs ==
  ASSUME DemoTypes
  PROVE  /\ Idle \in Requests /\ Idle.at = "free"
         /\ [Free EXCEPT !.seen = freshRun] = Idle
<1>1. freshRun \in Runs
  BY FreshIs
<1>2. Idle \in Requests /\ Idle.at = "free"
  BY <1>1 DEF Idle, Requests, Ats
<1>3. PICK f \in Runs : f = freshRun
  BY <1>1
<1>4. PICK old \in Requests : old = Free
  BY DEF Free, Requests, Ats, DemoTypes
<1>5. PICK new : new = [old EXCEPT !.seen = f]
  OBVIOUS
<1>6. /\ new \in Requests /\ new.at = old.at /\ new.step = old.step /\ new.seen = f
      /\ new.hash = old.hash /\ new.conflict = old.conflict
  BY <1>5 DEF Requests
<1>7. PICK idle \in Requests : idle = Idle
  BY <1>2
<1>8. /\ new.at = idle.at /\ new.step = idle.step /\ new.seen = idle.seen
      /\ new.hash = idle.hash /\ new.conflict = idle.conflict
  BY <1>3, <1>4, <1>6, <1>7 DEF Free, Idle
<1>9. new = idle
  BY <1>6, <1>8 DEF Requests
<1> QED
  BY <1>2, <1>3, <1>4, <1>5, <1>7, <1>9

\* The end of a request frees its slot.
LEMMA EndsIs ==
  ASSUME DemoTypes, NEW q \in Slots, ends(q)
  PROVE  OnlySlot(q) /\ handling'[q] = Idle
<1>1. PICK h \in Requests : h = Idle
  BY IdleIs
<1>2. handling' = [handling EXCEPT ![q] = h]
  BY <1>1, IdleIs DEF ends
<1>3. OnlySlot(q) /\ handling'[q] = h
  BY <1>2, SlotIs
<1> QED
  BY <1>1, <1>3

\* The request of slot q goes on to another station.
MovedTo(q, a) ==
  /\ handling'[q].at = a /\ handling'[q].step = handling[q].step /\ handling'[q].seen = handling[q].seen
  /\ handling'[q].hash = handling[q].hash /\ handling'[q].conflict = handling[q].conflict

\* A move changes nothing else.
LEMMA MovesIs ==
  ASSUME DemoTypes, NEW q \in Slots, NEW a \in Ats, moves(q, a)
  PROVE  OnlySlot(q) /\ MovedTo(q, a)
<1>1. PICK h \in Requests : h = handling[q]
  BY DEF DemoTypes
<1>2. PICK g : g = [h EXCEPT !.at = a]
  OBVIOUS
<1>3. g \in Requests /\ g.at = a /\ g.step = h.step /\ g.seen = h.seen /\ g.hash = h.hash /\ g.conflict = h.conflict
  BY <1>2 DEF Requests
<1>4. handling' = [handling EXCEPT ![q] = g]
  BY <1>1, <1>2 DEF moves
<1>5. OnlySlot(q) /\ handling'[q] = g
  BY <1>3, <1>4, SlotIs
<1> QED
  BY <1>1, <1>3, <1>5 DEF MovedTo

\* The request of slot q starts an execution of s on the run f.
Starts(q, s, f) ==
  /\ s \in Steps /\ s = nextActionFor(f) /\ activeAction' = s
  /\ handling'[q] = [at |-> "before", step |-> s, seen |-> f, hash |-> 0, conflict |-> f.conflict]

\* After the load, an execution starts or the request ends.
LEMMA AfterLoadIs ==
  ASSUME DemoTypes, NEW q \in Slots, NEW s \in Steps \cup {NoStep}, NEW f \in Runs, afterLoad(q, s, f)
  PROVE  /\ OnlySlot(q)
         /\ Starts(q, s, f) \/ (handling'[q] = Idle /\ activeAction' = activeAction)
<1>1. CASE s # NoStep /\ s = nextActionFor(f)
  <2>1. s \in Steps
    BY <1>1
  <2>2. PICK h : h = [at |-> "before", step |-> s, seen |-> f, hash |-> 0, conflict |-> f.conflict]
    OBVIOUS
  <2>3. h \in Requests
    BY <2>2 DEF Requests, Ats, Runs
  <2>4. activeAction' = s /\ handling' = [handling EXCEPT ![q] = h]
    BY <1>1, <2>2 DEF afterLoad
  <2>5. OnlySlot(q) /\ handling'[q] = h
    BY <2>3, <2>4, SlotIs
  <2> QED
    BY <1>1, <2>1, <2>2, <2>4, <2>5 DEF Starts
<1>2. CASE ~(s # NoStep /\ s = nextActionFor(f))
  <2>1. ends(q) /\ activeAction' = activeAction
    BY <1>2 DEF afterLoad
  <2> QED
    BY <2>1, EndsIs
<1> QED
  BY <1>1, <1>2

\* The request of slot q waits for the chain at station a with the run f.
Waits(q, a, s, f) ==
  /\ handling'[q] = [at |-> a, step |-> s, seen |-> f, hash |-> 0, conflict |-> FALSE]
  /\ demoFile' = demoFile /\ activeAction' = activeAction

\* It touches no other slot.
LEMMA WaitsIs ==
  ASSUME DemoTypes, NEW q \in Slots, NEW a \in Ats, NEW s \in Steps \cup {NoStep}, NEW f \in Runs,
         waitsAt(q, a, s, f)
  PROVE  OnlySlot(q) /\ Waits(q, a, s, f)
<1>1. PICK h : h = [at |-> a, step |-> s, seen |-> f, hash |-> 0, conflict |-> FALSE]
  OBVIOUS
<1>2. h \in Requests
  BY <1>1 DEF Requests, DemoTypes
<1>3. handling' = [handling EXCEPT ![q] = h] /\ demoFile' = demoFile /\ activeAction' = activeAction
  BY <1>1 DEF waitsAt
<1>4. OnlySlot(q) /\ handling'[q] = h
  BY <1>2, <1>3, SlotIs
<1> QED
  BY <1>1, <1>3, <1>4 DEF Waits

\* What loading the run for slot q comes to.
Loads(q, s) ==
  LET p == pendingIn(demoFile)
  IN \/ demoFile.deployment # deployed.id /\ Waits(q, "initialize", s, freshRun)
     \/ /\ demoFile.deployment = deployed.id /\ (p = NoStep \/ activeAction = p)
        /\ demoFile' = demoFile
        /\ Starts(q, s, demoFile) \/ (handling'[q] = Idle /\ activeAction' = activeAction)
     \/ /\ demoFile.deployment = deployed.id /\ p \in Steps /\ activeAction # p
        /\ demoFile.status[p] = "pending"
        /\ \/ /\ demoFile' \in Runs
              /\ demoFile' = demoFile \/ demoFile' = updateAction(demoFile, p, "failed", 0)
              /\ Starts(q, s, demoFile') \/ (handling'[q] = Idle /\ activeAction' = activeAction)
           \/ Waits(q, "receipt", s, demoFile)

\* loadOrInitialize, by cases.
LEMMA LoadIs ==
  ASSUME DemoTypes, NEW q \in Slots, NEW s \in Steps \cup {NoStep}, loadOrInitialize(q, s)
  PROVE  OnlySlot(q) /\ Loads(q, s)
<1>1. PICK p : p = pendingIn(demoFile)
  OBVIOUS
<1>2. PICK f \in Runs : f = demoFile
  BY DEF DemoTypes
<1>3. CASE demoFile.deployment # deployed.id
  <2>1. waitsAt(q, "initialize", s, freshRun) /\ "initialize" \in Ats /\ freshRun \in Runs
    BY <1>3, FreshIs DEF loadOrInitialize, Ats
  <2>2. OnlySlot(q) /\ Waits(q, "initialize", s, freshRun)
    BY <2>1, WaitsIs
  <2> QED
    BY <1>3, <2>2 DEF Loads
<1>4. CASE demoFile.deployment = deployed.id /\ (p = NoStep \/ activeAction = p)
  <2>1. afterLoad(q, s, f) /\ demoFile' = demoFile
    BY <1>1, <1>2, <1>4 DEF loadOrInitialize
  <2>2. OnlySlot(q) /\ (Starts(q, s, f) \/ (handling'[q] = Idle /\ activeAction' = activeAction))
    BY <2>1, AfterLoadIs
  <2> QED
    BY <1>1, <1>2, <1>4, <2>1, <2>2 DEF Loads
<1>5. CASE demoFile.deployment = deployed.id /\ ~(p = NoStep \/ activeAction = p)
  <2>1. p \in Steps /\ demoFile.status[p] = "pending"
    <3>1. \/ pendingIn(f) \in Steps /\ f.status[pendingIn(f)] = "pending"
          \/ pendingIn(f) = NoStep
      BY PendingIs
    <3> QED
      BY <1>1, <1>2, <1>5, <3>1
  <2>2. CASE demoFile.hash[p] = 0
    <3>1. PICK g \in {demoFile, updateAction(demoFile, p, "failed", 0)} : demoFile' = g /\ afterLoad(q, s, g)
      BY <1>1, <1>5, <2>2 DEF loadOrInitialize
    <3>2. g \in Runs
      <4>1. CASE g = demoFile
        BY <1>2, <4>1
      <4>2. CASE g = updateAction(demoFile, p, "failed", 0)
        <5>1. g = updateAction(f, p, "failed", 0)
          BY <1>2, <4>2
        <5>2. "failed" \in {"none", "pending", "confirmed", "failed"} /\ 0 \in Nat
          OBVIOUS
        <5> QED
          BY <2>1, <5>1, <5>2, UpdateIs
      <4> QED
        BY <3>1, <4>1, <4>2
    <3>3. OnlySlot(q) /\ (Starts(q, s, g) \/ (handling'[q] = Idle /\ activeAction' = activeAction))
      BY <3>1, <3>2, AfterLoadIs
    <3> QED
      BY <1>1, <1>5, <2>1, <3>1, <3>2, <3>3 DEF Loads
  <2>3. CASE demoFile.hash[p] # 0
    <3>1. waitsAt(q, "receipt", s, demoFile) /\ "receipt" \in Ats /\ demoFile \in Runs
      BY <1>1, <1>5, <2>3 DEF loadOrInitialize, Ats, DemoTypes
    <3>2. OnlySlot(q) /\ Waits(q, "receipt", s, demoFile)
      BY <3>1, WaitsIs
    <3> QED
      BY <1>1, <1>5, <2>1, <3>2 DEF Loads
  <2> QED
    BY <2>2, <2>3
<1> QED
  BY <1>3, <1>4, <1>5

Tallies == [actions : Nat, faults : Nat, deaths : Nat, lives : Nat]

\* A call to the chain that failed is a loss.
LEMMA FaultIs ==
  ASSUME DemoTypes, counted("faults")
  PROVE  tally' \in Tallies /\ ~Lossless'
<1>1. PICK c \in Tallies : c = tally
  BY DEF DemoTypes, Tallies
<1>2. tally' = [c EXCEPT !.faults = c.faults + 1]
  BY <1>1 DEF counted
<1>3. tally' \in Tallies /\ tally'.faults = c.faults + 1
  BY <1>2 DEF Tallies
<1>4. tally'.faults + tally'.deaths + tally'.lives # 0
  BY <1>3 DEF Tallies
<1> QED
  BY <1>3, <1>4 DEF Lossless

\* So is a death of the server.
LEMMA DeathIs ==
  ASSUME DemoTypes, counted("deaths")
  PROVE  tally' \in Tallies /\ ~Lossless'
<1>1. PICK c \in Tallies : c = tally
  BY DEF DemoTypes, Tallies
<1>2. tally' = [c EXCEPT !.deaths = c.deaths + 1]
  BY <1>1 DEF counted
<1>3. tally' \in Tallies /\ tally'.deaths = c.deaths + 1
  BY <1>2 DEF Tallies
<1>4. tally'.faults + tally'.deaths + tally'.lives # 0
  BY <1>3 DEF Tallies
<1> QED
  BY <1>3, <1>4 DEF Lossless

\* And a new life of the chain.
LEMMA LifeIs ==
  ASSUME DemoTypes, counted("lives")
  PROVE  tally' \in Tallies /\ ~Lossless'
<1>1. PICK c \in Tallies : c = tally
  BY DEF DemoTypes, Tallies
<1>2. tally' = [c EXCEPT !.lives = c.lives + 1]
  BY <1>1 DEF counted
<1>3. tally' \in Tallies /\ tally'.lives = c.lives + 1
  BY <1>2 DEF Tallies
<1>4. tally'.faults + tally'.deaths + tally'.lives # 0
  BY <1>3 DEF Tallies
<1> QED
  BY <1>3, <1>4 DEF Lossless

\* A request to execute is none.
LEMMA AskedIs ==
  ASSUME DemoTypes, counted("actions")
  PROVE  tally' \in Tallies /\ (Lossless' => Lossless)
<1>1. PICK c \in Tallies : c = tally
  BY DEF DemoTypes, Tallies
<1>2. tally' = [c EXCEPT !.actions = c.actions + 1]
  BY <1>1 DEF counted
<1>3. /\ tally' \in Tallies
      /\ tally'.faults = c.faults /\ tally'.deaths = c.deaths /\ tally'.lives = c.lives
  BY <1>2 DEF Tallies
<1> QED
  BY <1>1, <1>3 DEF Lossless

\* Nothing else is counted.
LEMMA UncountedIs ==
  ASSUME DemoTypes, tally' = tally
  PROVE  tally' \in Tallies /\ (Lossless' => Lossless)
  BY DEF DemoTypes, Tallies, Lossless

\* The catch block of the request in slot q.
Caught(q) ==
  \/ /\ demoFile.hash[handling[q].step] # 0
     /\ demoFile' = demoFile /\ activeAction' = activeAction
     /\ handling'[q].at = "observe" /\ handling'[q].step = handling[q].step
     /\ handling'[q].seen = demoFile /\ handling'[q].hash = handling[q].hash
  \/ /\ demoFile.hash[handling[q].step] = 0
     /\ demoFile' = updateAction(demoFile, handling[q].step, "failed", 0)
     /\ activeAction' = NoStep /\ handling'[q] = Idle

\* The catch block touches its own slot.
LEMMA CatchesIs ==
  ASSUME DemoTypes, NEW q \in Slots, catches(q)
  PROVE  OnlySlot(q) /\ Caught(q)
<1>1. PICK s : s = handling[q].step
  OBVIOUS
<1>2. CASE demoFile.hash[s] # 0
  <2>1. PICK h \in Requests : h = handling[q]
    BY DEF DemoTypes
  <2>2. PICK f \in Runs : f = demoFile
    BY DEF DemoTypes
  <2>3. PICK g : g = [h EXCEPT !.at = "observe", !.seen = f]
    OBVIOUS
  <2>4. g \in Requests /\ g.at = "observe" /\ g.step = h.step /\ g.seen = f /\ g.hash = h.hash
    BY <2>3 DEF Requests, Ats
  <2>5. handling' = [handling EXCEPT ![q].at = "observe", ![q].seen = demoFile]
    BY <1>1, <1>2 DEF catches
  <2>6. [handling EXCEPT ![q].at = "observe", ![q].seen = f] = [handling EXCEPT ![q] = g]
    BY <2>1, <2>3 DEF DemoTypes
  <2>7. OnlySlot(q) /\ handling'[q] = g
    BY <2>2, <2>4, <2>5, <2>6, SlotIs
  <2> QED
    BY <1>1, <1>2, <2>1, <2>2, <2>4, <2>7 DEF Caught, catches
<1>3. CASE demoFile.hash[s] = 0
  <2>1. ends(q) /\ activeAction' = NoStep /\ demoFile' = updateAction(demoFile, s, "failed", 0)
    BY <1>1, <1>3 DEF catches
  <2>2. OnlySlot(q) /\ handling'[q] = Idle
    BY <2>1, EndsIs
  <2> QED
    BY <1>1, <1>3, <2>1, <2>2 DEF Caught
<1> QED
  BY <1>2, <1>3

\* A failed action is a run again.
LEMMA CaughtRun ==
  ASSUME DemoTypes, NEW q \in Slots, handling[q].step \in Steps, Caught(q)
  PROVE  /\ demoFile' \in Runs /\ SameBut(demoFile, demoFile', handling[q].step)
         /\ demoFile'.status[handling[q].step] # "confirmed" \/ demoFile' = demoFile
         /\ demoFile'.hash[handling[q].step] = demoFile.hash[handling[q].step]
<1>1. CASE demoFile' = demoFile
  BY <1>1 DEF DemoTypes, SameBut
<1>2. CASE demoFile' # demoFile
  <2>1. PICK s \in Steps : s = handling[q].step
    OBVIOUS
  <2>2. PICK f \in Runs : f = demoFile
    BY DEF DemoTypes
  <2>3. PICK g : g = demoFile'
    OBVIOUS
  <2>4. g = updateAction(f, s, "failed", 0) /\ f.hash[s] = 0
    BY <1>2, <2>1, <2>2, <2>3 DEF Caught
  <2>5. PICK word \in {"none", "pending", "confirmed", "failed"} : word = "failed"
    OBVIOUS
  <2>6. PICK n \in Nat : n = 0
    OBVIOUS
  <2>7. g = updateAction(f, s, word, n)
    BY <2>4, <2>5, <2>6
  <2>8. g \in Runs /\ SameBut(f, g, s) /\ Updated(f, g, s, word, n)
    BY <2>7, UpdateIs
  <2>9. g.hash[s] = f.hash[s] /\ g.status[s] # "confirmed"
    BY <2>4, <2>5, <2>6, <2>8 DEF Updated
  <2> QED
    BY <2>1, <2>2, <2>3, <2>8, <2>9
<1> QED
  BY <1>1, <1>2

\* A step of slot q that keeps every type.
LEMMA SlotTyped ==
  ASSUME DemoTyped, NEW q \in Slots, OnlySlot(q),
         Known(handling'[q]),
         demoChain' \in [epoch : Nat, sent : Seq([step : Steps, ok : BOOLEAN, epoch : Nat])],
         demoFile' \in Runs, deployed' \in [id : Nat, snapshot : BOOLEAN],
         activeAction' \in Steps \cup {NoStep}, tally' \in Tallies
  PROVE  DemoTyped'
  BY DEF DemoTyped, DemoTypes, StepsKnown, OnlySlot, Tallies

\* The same, on the chain and the deployment as they are.
LEMMA StillTyped ==
  ASSUME DemoTyped, NEW q \in Slots, OnlySlot(q),
         Known(handling'[q]),
         demoChain' = demoChain, demoFile' \in Runs, deployed' = deployed,
         activeAction' \in Steps \cup {NoStep}, tally' \in Tallies
  PROVE  DemoTyped'
<1>1. /\ demoChain' \in [epoch : Nat, sent : Seq([step : Steps, ok : BOOLEAN, epoch : Nat])]
      /\ deployed' \in [id : Nat, snapshot : BOOLEAN]
  BY DEF DemoTyped, DemoTypes
<1> QED
  BY <1>1, SlotTyped

\* An idle slot holds no step.
LEMMA IdleKnown ==
  ASSUME NEW q, handling'[q] = Idle
  PROVE  handling'[q].at = "free" /\ Known(handling'[q])
  BY DEF Idle, Executing, Known

\* What a load leaves behind has the types.
LEMMA LoadedTyped ==
  ASSUME DemoTyped, NEW q \in Slots, NEW s \in Steps \cup {NoStep}, OnlySlot(q), Loads(q, s),
         demoChain' = demoChain, deployed' = deployed, tally' \in Tallies
  PROVE  DemoTyped'
<1>1. demoFile' \in Runs
  BY DEF Loads, Waits, DemoTyped, DemoTypes
<1>2. activeAction' \in Steps \cup {NoStep}
  BY DEF Loads, Waits, Starts, DemoTyped, DemoTypes
<1>3. Known(handling'[q])
  <2>1. CASE Waits(q, "receipt", s, demoFile) /\ \E t \in Steps : demoFile.status[t] = "pending"
    BY <2>1 DEF Waits, Known, Executing
  <2>2. CASE Waits(q, "initialize", s, freshRun)
    BY <2>2 DEF Waits, Known, Executing
  <2>3. CASE handling'[q] = Idle
    BY <2>3, IdleKnown
  <2>4. CASE \E f : Starts(q, s, f)
    BY <2>4 DEF Starts, Known
  <2> QED
    BY <2>1, <2>2, <2>3, <2>4 DEF Loads
<1> QED
  BY <1>1, <1>2, <1>3, StillTyped

\* The pending record of an execution replaces an earlier attempt's.
LEMMA AttemptIs ==
  ASSUME NEW f \in Runs, NEW s \in Steps,
         NEW g, g = [f EXCEPT !.status[s] = "pending", !.hash[s] = 0]
  PROVE  g \in Runs /\ SameBut(f, g, s) /\ g.status[s] = "pending" /\ g.hash[s] = 0
<1>1. PICK words : words = [f.status EXCEPT ![s] = "pending"]
  OBVIOUS
<1>2. PICK numbers : numbers = [f.hash EXCEPT ![s] = 0]
  OBVIOUS
<1>3. g = [f EXCEPT !.status = words, !.hash = numbers]
  BY <1>1, <1>2
<1>4. f.status \in [Steps -> {"none", "pending", "confirmed", "failed"}] /\ f.hash \in [Steps -> Nat]
  BY DEF Runs
<1>5. /\ words \in [Steps -> {"none", "pending", "confirmed", "failed"}]
      /\ words[s] = "pending" /\ \A t \in Steps : t # s => words[t] = f.status[t]
  BY <1>1, <1>4
<1>6. /\ numbers \in [Steps -> Nat]
      /\ numbers[s] = 0 /\ \A t \in Steps : t # s => numbers[t] = f.hash[t]
  BY <1>2, <1>4
<1>7. /\ g \in Runs /\ g.status = words /\ g.hash = numbers
      /\ g.epoch = f.epoch /\ g.deployment = f.deployment
  BY <1>3, <1>5, <1>6 DEF Runs
<1> QED
  BY <1>5, <1>6, <1>7 DEF SameBut

\* A read of the run.
LEMMA GetIs ==
  ASSUME DemoTyped, NEW q \in Slots, getLivingDemoRun(q)
  PROVE  OnlySlot(q) /\ Loads(q, NoStep) /\ DemoTyped'
<1>1. loadOrInitialize(q, NoStep) /\ demoChain' = demoChain /\ deployed' = deployed /\ tally' = tally
  BY DEF getLivingDemoRun
<1>2. PICK s \in Steps \cup {NoStep} : s = NoStep
  OBVIOUS
<1>3. OnlySlot(q) /\ Loads(q, s)
  BY <1>1, <1>2, LoadIs DEF DemoTyped
<1>4. tally' \in Tallies
  BY <1>1, UncountedIs DEF DemoTyped
<1> QED
  BY <1>1, <1>2, <1>3, <1>4, LoadedTyped

\* A request to execute a step.
LEMMA ExecuteIs ==
  ASSUME DemoTyped, NEW q \in Slots, executeLivingDemoAction(q)
  PROVE  OnlySlot(q) /\ (\E s \in Steps : Loads(q, s)) /\ DemoTyped'
<1>1. PICK t \in Steps : loadOrInitialize(q, t)
  BY DEF executeLivingDemoAction
<1>2. PICK s \in Steps \cup {NoStep} : s = t
  OBVIOUS
<1>3. OnlySlot(q) /\ Loads(q, s)
  BY <1>1, <1>2, LoadIs DEF DemoTyped
<1>4. tally' \in Tallies
  BY AskedIs DEF DemoTyped, executeLivingDemoAction
<1>5. DemoTyped'
  BY <1>3, <1>4, LoadedTyped DEF executeLivingDemoAction
<1> QED
  BY <1>2, <1>3, <1>5

\* The request starts an execution or ends.
GoesOn(q, f) ==
  \/ Starts(q, handling[q].step, f)
  \/ handling'[q] = Idle /\ activeAction' = activeAction

\* What follows a load has the types.
LEMMA GoesOnTyped ==
  ASSUME DemoTyped, NEW q \in Slots, NEW f, OnlySlot(q), GoesOn(q, f),
         demoChain' = demoChain, demoFile' \in Runs, deployed' = deployed, tally' \in Tallies
  PROVE  DemoTyped'
<1>1. CASE Starts(q, handling[q].step, f)
  <2>1. Known(handling'[q]) /\ activeAction' \in Steps \cup {NoStep}
    BY <1>1 DEF Starts, Known
  <2> QED
    BY <2>1, StillTyped
<1>2. CASE handling'[q] = Idle /\ activeAction' = activeAction
  <2>1. Known(handling'[q])
    BY <1>2, IdleKnown
  <2>2. activeAction' \in Steps \cup {NoStep}
    BY <1>2 DEF DemoTyped, DemoTypes
  <2> QED
    BY <2>1, <2>2, StillTyped
<1> QED
  BY <1>1, <1>2 DEF GoesOn

\* afterLoad for the request in slot q.
LEMMA GoesOnIs ==
  ASSUME DemoTyped, NEW q \in Slots, NEW f \in Runs, afterLoad(q, handling[q].step, f)
  PROVE  OnlySlot(q) /\ GoesOn(q, f)
<1>1. PICK s \in Steps \cup {NoStep} : s = handling[q].step
  BY DEF DemoTyped, DemoTypes, Requests
<1>2. OnlySlot(q) /\ (Starts(q, s, f) \/ (handling'[q] = Idle /\ activeAction' = activeAction))
  BY <1>1, AfterLoadIs DEF DemoTyped
<1> QED
  BY <1>1, <1>2 DEF GoesOn

\* The run that a request starts is the one it had prepared.
LEMMA StartedIs ==
  ASSUME DemoTyped, NEW q \in Slots
  PROVE  /\ startedRun(q) \in Runs /\ startedRun(q).epoch = demoChain.epoch
         /\ Blank(handling[q].seen) => Blank(startedRun(q))
<1>1. PICK f \in Runs : f = handling[q].seen
  BY DEF DemoTyped, DemoTypes, Requests
<1>2. PICK e \in Nat : e = demoChain.epoch
  BY DEF DemoTyped, DemoTypes
<1>3. PICK g : g = [f EXCEPT !.epoch = e]
  OBVIOUS
<1>4. g \in Runs /\ g.epoch = e /\ g.deployment = f.deployment /\ g.status = f.status /\ g.hash = f.hash
  BY <1>3 DEF Runs
<1>5. startedRun(q) = g
  BY <1>1, <1>2, <1>3 DEF startedRun
<1>6. Blank(f) => Blank(g)
  BY <1>4 DEF Blank
<1> QED
  BY <1>1, <1>2, <1>4, <1>5, <1>6

\* The first run of a deployment.
LEMMA InitializeIs ==
  ASSUME DemoTyped, NEW q \in Slots, initializeRun(q)
  PROVE  OnlySlot(q) /\ GoesOn(q, demoFile') /\ demoFile' = startedRun(q) /\ DemoTyped'
<1>1. PICK f \in Runs : f = startedRun(q)
  BY StartedIs
<1>2. demoFile' = f /\ afterLoad(q, handling[q].step, f)
  BY <1>1 DEF initializeRun
<1>3. OnlySlot(q) /\ GoesOn(q, f)
  BY <1>2, GoesOnIs
<1>4. tally' \in Tallies
  BY UncountedIs DEF DemoTyped, initializeRun
<1>5. DemoTyped'
  BY <1>2, <1>3, <1>4, GoesOnTyped DEF initializeRun
<1> QED
  BY <1>1, <1>2, <1>3, <1>5

\* The receipt of the pending action of run f, and what the run becomes.
Decided(f, g) ==
  \E p \in Steps :
    /\ f.status[p] = "pending" /\ receiptOf(f.hash[p]) # "none"
    /\ SameBut(f, g, p) /\ g.hash[p] = f.hash[p]
    /\ g.status[p] = IF receiptOf(f.hash[p]) = "success" THEN "confirmed" ELSE "failed"

\* It is a run again.
LEMMA DecidedIs ==
  ASSUME NEW f \in Runs, NEW p \in Steps, p = pendingIn(f), f.status[p] = "pending",
         NEW r, r = receiptOf(f.hash[p]), r # "none", NEW g, g = settledBy(f, r)
  PROVE  g \in Runs /\ Decided(f, g)
<1>1. r \in {"success", "reverted"}
  BY DEF receiptOf
<1>2. /\ g \in Runs /\ SameBut(f, g, p) /\ g.hash[p] = f.hash[p]
      /\ g.status[p] = IF r = "success" THEN "confirmed" ELSE "failed"
  BY <1>1, SettledIs
<1> QED
  BY <1>2 DEF Decided

\* Reconciling keeps the run or settles what it had read.
LEMMA ReconcileIs ==
  ASSUME DemoTyped, NEW q \in Slots, reconcilePending(q)
  PROVE  /\ OnlySlot(q) /\ DemoTyped'
         /\ \/ demoFile' = demoFile /\ GoesOn(q, handling[q].seen)
            \/ Decided(handling[q].seen, demoFile') /\ GoesOn(q, demoFile')
<1>1. PICK f \in Runs : f = handling[q].seen
  BY DEF DemoTyped, DemoTypes, Requests
<1>2. PICK p : p = pendingIn(f)
  OBVIOUS
<1>3. p \in Steps /\ f.status[p] = "pending"
  <2>1. \E s \in Steps : f.status[s] = "pending"
    BY <1>1 DEF DemoTyped, StepsKnown, Known, reconcilePending
  <2> QED
    BY <1>2, <2>1, PendingIs
<1>4. PICK r : r = receiptOf(f.hash[p])
  OBVIOUS
<1>5. PICK g : g = settledBy(f, r)
  OBVIOUS
<1>6. \/ /\ demoFile' = IF r = "none" THEN demoFile ELSE g
         /\ afterLoad(q, handling[q].step, g) /\ tally' = tally
      \/ /\ r # "none" /\ counted("faults") /\ demoFile' = demoFile
         /\ afterLoad(q, handling[q].step, f) \/ (ends(q) /\ activeAction' = activeAction)
  BY <1>1, <1>2, <1>4, <1>5 DEF reconcilePending
<1>7. tally' \in Tallies
  BY <1>6, FaultIs, UncountedIs DEF DemoTyped
<1>8. demoFile \in Runs /\ demoChain' = demoChain /\ deployed' = deployed
  BY DEF DemoTyped, DemoTypes, reconcilePending
<1>9. CASE r = "none" /\ demoFile' = demoFile /\ afterLoad(q, handling[q].step, g)
  <2>1. g = f
    BY <1>5, <1>9 DEF settledBy
  <2>2. OnlySlot(q) /\ GoesOn(q, f)
    BY <1>9, <2>1, GoesOnIs
  <2>3. DemoTyped'
    BY <1>7, <1>8, <1>9, <2>2, GoesOnTyped
  <2> QED
    BY <1>1, <1>9, <2>2, <2>3
<1>10. CASE r # "none" /\ demoFile' = g /\ afterLoad(q, handling[q].step, g)
  <2>1. g \in Runs /\ Decided(f, g)
    BY <1>2, <1>3, <1>4, <1>5, <1>10, DecidedIs
  <2>2. OnlySlot(q) /\ GoesOn(q, g)
    BY <1>10, <2>1, GoesOnIs
  <2>3. DemoTyped'
    BY <1>7, <1>8, <1>10, <2>1, <2>2, GoesOnTyped
  <2> QED
    BY <1>1, <1>10, <2>1, <2>2, <2>3
<1>11. CASE /\ demoFile' = demoFile
            /\ afterLoad(q, handling[q].step, f) \/ (ends(q) /\ activeAction' = activeAction)
  <2>1. OnlySlot(q) /\ GoesOn(q, f)
    BY <1>11, GoesOnIs, EndsIs DEF GoesOn, DemoTyped
  <2>2. DemoTyped'
    BY <1>7, <1>8, <1>11, <2>1, GoesOnTyped
  <2> QED
    BY <1>1, <1>11, <2>1, <2>2
<1> QED
  BY <1>6, <1>9, <1>10, <1>11

\* The step of an execution.
LEMMA StepIs ==
  ASSUME DemoTyped, NEW q \in Slots, handling[q].at \in Executing
  PROVE  handling[q].step \in Steps
  BY DEF DemoTyped, StepsKnown, Known

\* The attempt is recorded, or the chain could not be read.
LEMMA BeforeIs ==
  ASSUME DemoTyped, NEW q \in Slots, observeBefore(q)
  PROVE  /\ OnlySlot(q) /\ DemoTyped'
         /\ \/ /\ MovedTo(q, "run") /\ tally' = tally
               /\ SameBut(handling[q].seen, demoFile', handling[q].step)
               /\ demoFile'.status[handling[q].step] = "pending" /\ demoFile'.hash[handling[q].step] = 0
            \/ handling'[q] = Idle /\ demoFile' = demoFile /\ ~Lossless'
<1>1. PICK s \in Steps : s = handling[q].step
  BY StepIs DEF observeBefore, Executing
<1>2. PICK f \in Runs : f = handling[q].seen
  BY DEF DemoTyped, DemoTypes, Requests
<1>3. demoFile \in Runs /\ activeAction' \in Steps \cup {NoStep}
  BY DEF DemoTyped, DemoTypes, observeBefore
<1>4. CASE /\ demoFile' = [handling[q].seen EXCEPT !.status[handling[q].step] = "pending",
                                                   !.hash[handling[q].step] = 0]
           /\ moves(q, "run") /\ tally' = tally
  <2>1. PICK g : g = demoFile'
    OBVIOUS
  <2>2. g = [f EXCEPT !.status[s] = "pending", !.hash[s] = 0]
    BY <1>1, <1>2, <1>4, <2>1
  <2>3. g \in Runs /\ SameBut(f, g, s) /\ g.status[s] = "pending" /\ g.hash[s] = 0
    BY <2>2, AttemptIs
  <2>4. OnlySlot(q) /\ MovedTo(q, "run")
    BY <1>4, MovesIs DEF DemoTyped, Ats
  <2>5. Known(handling'[q]) /\ tally' \in Tallies
    BY <1>1, <1>4, <2>4, UncountedIs DEF DemoTyped, MovedTo, Known
  <2>6. DemoTyped'
    BY <1>3, <2>1, <2>3, <2>4, <2>5, StillTyped DEF observeBefore
  <2> QED
    BY <1>1, <1>2, <1>4, <2>1, <2>3, <2>4, <2>6
<1>5. CASE counted("faults") /\ ends(q) /\ demoFile' = demoFile
  <2>1. OnlySlot(q) /\ handling'[q] = Idle
    BY <1>5, EndsIs DEF DemoTyped
  <2>2. Known(handling'[q]) /\ tally' \in Tallies /\ ~Lossless'
    BY <1>5, <2>1, IdleKnown, FaultIs DEF DemoTyped
  <2>3. DemoTyped'
    BY <1>3, <1>5, <2>1, <2>2, StillTyped DEF observeBefore
  <2> QED
    BY <1>5, <2>1, <2>2, <2>3
<1> QED
  BY <1>4, <1>5 DEF observeBefore

\* What the catch block leaves has the types.
LEMMA CaughtTyped ==
  ASSUME DemoTyped, NEW q \in Slots, handling[q].at \in Executing, catches(q),
         demoChain' \in [epoch : Nat, sent : Seq([step : Steps, ok : BOOLEAN, epoch : Nat])],
         deployed' = deployed, tally' \in Tallies
  PROVE  OnlySlot(q) /\ Caught(q) /\ DemoTyped'
<1>1. handling[q].step \in Steps
  BY StepIs
<1>2. OnlySlot(q) /\ Caught(q)
  BY CatchesIs DEF DemoTyped
<1>3. demoFile' \in Runs
  BY <1>1, <1>2, CaughtRun DEF DemoTyped
<1>4. activeAction' \in Steps \cup {NoStep}
  BY <1>2 DEF Caught, DemoTyped, DemoTypes
<1>5. Known(handling'[q])
  BY <1>1, <1>2, IdleKnown DEF Caught, Known
<1>6. deployed' \in [id : Nat, snapshot : BOOLEAN]
  BY DEF DemoTyped, DemoTypes
<1> QED
  BY <1>2, <1>3, <1>4, <1>5, <1>6, SlotTyped

\* A move keeps the types.
LEMMA MovedTyped ==
  ASSUME DemoTyped, NEW q \in Slots, handling[q].at \in Executing, NEW a \in Ats \ {"receipt"}, moves(q, a),
         demoChain' \in [epoch : Nat, sent : Seq([step : Steps, ok : BOOLEAN, epoch : Nat])],
         demoFile' \in Runs, deployed' = deployed, activeAction' = activeAction, tally' = tally
  PROVE  OnlySlot(q) /\ MovedTo(q, a) /\ DemoTyped'
<1>1. OnlySlot(q) /\ MovedTo(q, a)
  BY MovesIs DEF DemoTyped
<1>2. Known(handling'[q])
  BY <1>1, StepIs DEF MovedTo, Known
<1>3. tally' \in Tallies
  BY UncountedIs DEF DemoTyped
<1>4. deployed' \in [id : Nat, snapshot : BOOLEAN] /\ activeAction' \in Steps \cup {NoStep}
  BY DEF DemoTyped, DemoTypes
<1> QED
  BY <1>1, <1>2, <1>3, <1>4, SlotTyped

\* The request goes to station a with a hash or a signature.
Carries(q, a) ==
  /\ handling'[q].at = a /\ handling'[q].step = handling[q].step /\ handling'[q].seen = handling[q].seen

\* What a step of the journey comes to.
Stays == demoChain' = demoChain
Same == demoFile' = demoFile /\ activeAction' = activeAction /\ tally' = tally
RunOutcome(q) ==
  LET s == handling[q].step
  IN \/ /\ stepKind(s) = "signature" /\ Stays /\ Same
        /\ Carries(q, "confirm") /\ handling'[q].hash = handling[q].hash
     \/ demoChain' = mined(s) /\ Same /\ MovedTo(q, "confirm")
     \/ demoChain' = mined(s) /\ Caught(q) /\ ~Lossless'
     \/ Stays /\ Same /\ MovedTo(q, "send")
     \/ Stays /\ Caught(q)

\* The step runs.
LEMMA RunIs ==
  ASSUME DemoTyped, NEW q \in Slots, runStep(q)
  PROVE  OnlySlot(q) /\ DemoTyped' /\ RunOutcome(q)
<1>1. PICK s \in Steps : s = handling[q].step
  BY StepIs DEF runStep, Executing
<1>2. handling[q].at \in Executing /\ deployed' = deployed
  BY DEF runStep, Executing
<1>3. /\ demoFile \in Runs
      /\ demoChain \in [epoch : Nat, sent : Seq([step : Steps, ok : BOOLEAN, epoch : Nat])]
  BY DEF DemoTyped, DemoTypes
<1>4. demoChain' = mined(s) =>
        demoChain' \in [epoch : Nat, sent : Seq([step : Steps, ok : BOOLEAN, epoch : Nat])]
  BY MinedIs DEF DemoTyped
<1>5. counted("faults") => tally' \in Tallies /\ ~Lossless'
  BY FaultIs DEF DemoTyped
<1>6. tally' = tally => tally' \in Tallies
  BY UncountedIs DEF DemoTyped
<1>7. CASE /\ stepKind(s) = "signature"
           /\ handling' = [handling EXCEPT ![q].at = "confirm", ![q].conflict = TRUE]
           /\ demoChain' = demoChain /\ Same
  <2>1. PICK h \in Requests : h = handling[q]
    BY DEF DemoTyped, DemoTypes
  <2>2. PICK g : g = [h EXCEPT !.at = "confirm", !.conflict = TRUE]
    OBVIOUS
  <2>3. g \in Requests /\ g.at = "confirm" /\ g.step = h.step /\ g.seen = h.seen /\ g.hash = h.hash
    BY <2>2 DEF Requests, Ats
  <2>4. handling' = [handling EXCEPT ![q] = g]
    BY <1>7, <2>1, <2>2
  <2>5. OnlySlot(q) /\ handling'[q] = g
    BY <2>3, <2>4, SlotIs DEF DemoTyped
  <2>6. Known(handling'[q])
    BY <1>1, <2>1, <2>3, <2>5 DEF Known
  <2>7. activeAction' \in Steps \cup {NoStep} /\ demoFile' \in Runs
    BY <1>3, <1>7 DEF DemoTyped, DemoTypes, Same
  <2>8. DemoTyped'
    BY <1>2, <1>6, <1>7, <2>5, <2>6, <2>7, StillTyped DEF Same
  <2> QED
    BY <1>1, <1>7, <2>1, <2>3, <2>5, <2>8 DEF RunOutcome, Carries, Stays
<1>8. CASE demoChain' = mined(s) /\ Same /\ moves(q, "confirm")
  <2>1. OnlySlot(q) /\ MovedTo(q, "confirm") /\ DemoTyped'
    BY <1>2, <1>3, <1>4, <1>8, MovedTyped DEF Ats, Same
  <2> QED
    BY <1>1, <1>8, <2>1 DEF RunOutcome
<1>9. CASE demoChain' = mined(s) /\ rpcFails(q)
  <2>1. OnlySlot(q) /\ Caught(q) /\ DemoTyped'
    BY <1>2, <1>4, <1>5, <1>9, CaughtTyped DEF rpcFails
  <2> QED
    BY <1>1, <1>5, <1>9, <2>1 DEF RunOutcome, rpcFails
<1>10. CASE demoChain' = demoChain /\ Same /\ moves(q, "send")
  <2>1. OnlySlot(q) /\ MovedTo(q, "send") /\ DemoTyped'
    BY <1>2, <1>3, <1>10, MovedTyped DEF Ats, Same
  <2> QED
    BY <1>1, <1>10, <2>1 DEF RunOutcome, Stays
<1>11. CASE demoChain' = demoChain /\ catches(q) /\ tally' \in Tallies
  <2>1. OnlySlot(q) /\ Caught(q) /\ DemoTyped'
    BY <1>2, <1>3, <1>11, CaughtTyped
  <2> QED
    BY <1>11, <2>1 DEF RunOutcome, Stays
<1>12. CASE rpcFails(q) /\ demoChain' = demoChain
  BY <1>5, <1>11, <1>12 DEF rpcFails
<1> QED
  BY <1>1, <1>6, <1>7, <1>8, <1>9, <1>10, <1>11, <1>12 DEF runStep, Same

\* What sending comes to.
SendOutcome(q) ==
  LET s == handling[q].step
  IN \/ /\ demoChain' = mined(s) /\ Same /\ Carries(q, "broadcast")
        /\ handling'[q].hash = Len(demoChain.sent) + 1
     \/ demoChain' = mined(s) /\ Caught(q) /\ ~Lossless'
     \/ Stays /\ Caught(q) /\ ~Lossless'

\* The transaction is sent.
LEMMA SendIs ==
  ASSUME DemoTyped, NEW q \in Slots, sendTransaction(q)
  PROVE  OnlySlot(q) /\ DemoTyped' /\ SendOutcome(q)
<1>1. PICK s \in Steps : s = handling[q].step
  BY StepIs DEF sendTransaction, Executing
<1>2. handling[q].at \in Executing /\ deployed' = deployed
  BY DEF sendTransaction, Executing
<1>3. /\ demoFile \in Runs /\ deployed \in [id : Nat, snapshot : BOOLEAN]
      /\ demoChain \in [epoch : Nat, sent : Seq([step : Steps, ok : BOOLEAN, epoch : Nat])]
  BY DEF DemoTyped, DemoTypes
<1>4. demoChain' = mined(s) =>
        demoChain' \in [epoch : Nat, sent : Seq([step : Steps, ok : BOOLEAN, epoch : Nat])]
  BY MinedIs DEF DemoTyped
<1>5. counted("faults") => tally' \in Tallies /\ ~Lossless'
  BY FaultIs DEF DemoTyped
<1>6. CASE /\ handling' = [handling EXCEPT ![q].at = "broadcast", ![q].hash = Len(demoChain.sent) + 1]
           /\ demoChain' = mined(s) /\ Same
  <2>1. PICK h \in Requests : h = handling[q]
    BY DEF DemoTyped, DemoTypes
  <2>2. PICK n \in Nat : n = Len(demoChain.sent) + 1
    BY <1>3
  <2>3. PICK g : g = [h EXCEPT !.at = "broadcast", !.hash = n]
    OBVIOUS
  <2>4. g \in Requests /\ g.at = "broadcast" /\ g.step = h.step /\ g.seen = h.seen /\ g.hash = n
    BY <2>3 DEF Requests, Ats
  <2>5. handling' = [handling EXCEPT ![q] = g]
    BY <1>6, <2>1, <2>2, <2>3
  <2>6. OnlySlot(q) /\ handling'[q] = g
    BY <2>4, <2>5, SlotIs DEF DemoTyped
  <2>7. Known(handling'[q])
    BY <1>1, <2>1, <2>4, <2>6 DEF Known
  <2>8. activeAction' \in Steps \cup {NoStep} /\ demoFile' \in Runs /\ deployed' \in [id : Nat, snapshot : BOOLEAN]
    BY <1>2, <1>3, <1>6 DEF DemoTyped, DemoTypes, Same
  <2>9. tally' \in Tallies
    BY <1>6, UncountedIs DEF DemoTyped, Same
  <2>10. DemoTyped'
    BY <1>4, <1>6, <2>6, <2>7, <2>8, <2>9, SlotTyped
  <2> QED
    BY <1>1, <1>6, <2>1, <2>2, <2>4, <2>6, <2>10 DEF SendOutcome, Carries
<1>7. CASE demoChain' = mined(s) /\ rpcFails(q)
  <2>1. OnlySlot(q) /\ Caught(q) /\ DemoTyped'
    BY <1>2, <1>4, <1>5, <1>7, CaughtTyped DEF rpcFails
  <2> QED
    BY <1>1, <1>5, <1>7, <2>1 DEF SendOutcome, rpcFails
<1>8. CASE demoChain' = demoChain /\ rpcFails(q)
  <2>1. OnlySlot(q) /\ Caught(q) /\ DemoTyped'
    BY <1>2, <1>3, <1>5, <1>8, CaughtTyped DEF rpcFails
  <2> QED
    BY <1>5, <1>8, <2>1 DEF SendOutcome, Stays, rpcFails
<1> QED
  BY <1>1, <1>6, <1>7, <1>8 DEF sendTransaction, Same

\* The hash is recorded, in what the file says now.
LEMMA BroadcastIs ==
  ASSUME DemoTyped, NEW q \in Slots, onTransactionBroadcast(q)
  PROVE  /\ OnlySlot(q) /\ DemoTyped' /\ MovedTo(q, "wait")
         /\ SameBut(demoFile, demoFile', handling[q].step)
         /\ demoFile'.status[handling[q].step] = demoFile.status[handling[q].step]
         /\ demoFile'.hash[handling[q].step] \in {demoFile.hash[handling[q].step], handling[q].hash}
<1>1. PICK s \in Steps : s = handling[q].step
  BY StepIs DEF onTransactionBroadcast, Executing
<1>2. PICK f \in Runs : f = demoFile
  BY DEF DemoTyped, DemoTypes
<1>3. PICK g : g = demoFile'
  OBVIOUS
<1>4. PICK n \in Nat : n = handling[q].hash
  BY DEF DemoTyped, DemoTypes, Requests
<1>5. PICK word \in {"none", "pending", "confirmed", "failed"} : word = f.status[s]
  BY DEF Runs
<1>6. g = updateAction(f, s, word, n)
  BY <1>1, <1>2, <1>3, <1>4, <1>5 DEF onTransactionBroadcast
<1>7. g \in Runs /\ SameBut(f, g, s) /\ Updated(f, g, s, word, n)
  BY <1>6, UpdateIs
<1>8. g.status[s] = f.status[s] /\ g.hash[s] \in {f.hash[s], n}
  BY <1>5, <1>7 DEF Updated
<1>9. /\ demoChain' \in [epoch : Nat, sent : Seq([step : Steps, ok : BOOLEAN, epoch : Nat])]
      /\ handling[q].at \in Executing /\ moves(q, "wait")
      /\ deployed' = deployed /\ activeAction' = activeAction /\ tally' = tally
  BY DEF DemoTyped, DemoTypes, onTransactionBroadcast, Executing
<1>10. OnlySlot(q) /\ DemoTyped' /\ MovedTo(q, "wait")
  BY <1>3, <1>7, <1>9, MovedTyped DEF Ats
<1> QED
  BY <1>1, <1>2, <1>3, <1>4, <1>7, <1>8, <1>10

\* The receipt is awaited.
LEMMA WaitIs ==
  ASSUME DemoTyped, NEW q \in Slots, waitForReceipt(q)
  PROVE  /\ OnlySlot(q) /\ DemoTyped'
         /\ \/ receiptOf(handling[q].hash) = "success" /\ Same /\ MovedTo(q, "confirm")
            \/ Caught(q) /\ (receiptOf(handling[q].hash) = "reverted" \/ ~Lossless')
<1>1. /\ handling[q].at \in Executing /\ deployed' = deployed /\ demoFile \in Runs
      /\ demoChain' \in [epoch : Nat, sent : Seq([step : Steps, ok : BOOLEAN, epoch : Nat])]
  BY DEF DemoTyped, DemoTypes, waitForReceipt, Executing
<1>2. CASE receiptOf(handling[q].hash) = "success" /\ moves(q, "confirm") /\ Same
  <2>1. OnlySlot(q) /\ MovedTo(q, "confirm") /\ DemoTyped'
    BY <1>1, <1>2, MovedTyped DEF Ats, Same
  <2> QED
    BY <1>2, <2>1
<1>3. CASE receiptOf(handling[q].hash) = "reverted" /\ catches(q) /\ tally' = tally
  <2>1. tally' \in Tallies
    BY <1>3, UncountedIs DEF DemoTyped
  <2>2. OnlySlot(q) /\ Caught(q) /\ DemoTyped'
    BY <1>1, <1>3, <2>1, CaughtTyped
  <2> QED
    BY <1>3, <2>2
<1>4. CASE rpcFails(q)
  <2>1. tally' \in Tallies /\ ~Lossless'
    BY <1>4, FaultIs DEF DemoTyped, rpcFails
  <2>2. OnlySlot(q) /\ Caught(q) /\ DemoTyped'
    BY <1>1, <1>4, <2>1, CaughtTyped DEF rpcFails
  <2> QED
    BY <2>1, <2>2
<1> QED
  BY <1>2, <1>3, <1>4 DEF waitForReceipt, Same

\* The record an action is confirmed in.
LEMMA ConfirmedIs ==
  ASSUME NEW f \in Runs, NEW s \in Steps, NEW n \in Nat, NEW b \in BOOLEAN, NEW g,
         g = [updateAction(f, s, "confirmed", n) EXCEPT !.conflict = @ \/ b]
  PROVE  g \in Runs /\ SameBut(f, g, s) /\ Updated(f, g, s, "confirmed", n)
<1>1. PICK word \in {"none", "pending", "confirmed", "failed"} : word = "confirmed"
  OBVIOUS
<1>2. PICK m : m = updateAction(f, s, word, n)
  OBVIOUS
<1>3. m \in Runs /\ SameBut(f, m, s) /\ Updated(f, m, s, word, n)
  BY <1>2, UpdateIs
<1>4. PICK c \in BOOLEAN : c = (m.conflict \/ b)
  BY <1>3
<1>5. g = [m EXCEPT !.conflict = c]
  BY <1>1, <1>2, <1>4
<1>6. /\ g \in Runs /\ g.epoch = m.epoch /\ g.deployment = m.deployment
      /\ g.status = m.status /\ g.hash = m.hash
  BY <1>3, <1>5 DEF Runs
<1> QED
  BY <1>1, <1>3, <1>6 DEF SameBut, Updated

\* The action is confirmed.
LEMMA ConfirmIs ==
  ASSUME DemoTyped, NEW q \in Slots, confirmAction(q)
  PROVE  /\ OnlySlot(q) /\ DemoTyped'
         /\ \/ /\ activeAction' = NoStep /\ handling'[q] = Idle /\ tally' = tally
               /\ SameBut(demoFile, demoFile', handling[q].step)
               /\ \E n \in {handling[q].hash, demoFile.hash[handling[q].step]} :
                    Updated(demoFile, demoFile', handling[q].step, "confirmed", n)
            \/ Caught(q) /\ ~Lossless'
<1>1. PICK s \in Steps : s = handling[q].step
  BY StepIs DEF confirmAction, Executing
<1>2. PICK f \in Runs : f = demoFile
  BY DEF DemoTyped, DemoTypes
<1>3. /\ handling[q].at \in Executing /\ deployed' = deployed
      /\ demoChain' = demoChain
      /\ demoChain' \in [epoch : Nat, sent : Seq([step : Steps, ok : BOOLEAN, epoch : Nat])]
  BY DEF DemoTyped, DemoTypes, confirmAction, Executing
<1>4. CASE rpcFails(q)
  <2>1. tally' \in Tallies /\ ~Lossless'
    BY <1>4, FaultIs DEF DemoTyped, rpcFails
  <2>2. OnlySlot(q) /\ Caught(q) /\ DemoTyped'
    BY <1>3, <1>4, <2>1, CaughtTyped DEF rpcFails
  <2> QED
    BY <2>1, <2>2
<1>5. CASE ~rpcFails(q)
  <2>1. PICK n : n = IF handling[q].hash # 0 THEN handling[q].hash ELSE f.hash[s]
    OBVIOUS
  <2>2. PICK b : b = handling[q].conflict
    OBVIOUS
  <2>3. n \in Nat /\ b \in BOOLEAN
    BY <2>1, <2>2 DEF DemoTyped, DemoTypes, Requests, Runs
  <2>4. PICK g : g = demoFile'
    OBVIOUS
  <2>5. /\ g = [updateAction(f, s, "confirmed", n) EXCEPT !.conflict = @ \/ b]
        /\ activeAction' = NoStep /\ ends(q) /\ tally' = tally
    BY <1>1, <1>2, <1>5, <2>1, <2>2, <2>4 DEF confirmAction
  <2>6. g \in Runs /\ SameBut(f, g, s) /\ Updated(f, g, s, "confirmed", n)
    BY <2>3, <2>5, ConfirmedIs
  <2>7. OnlySlot(q) /\ handling'[q] = Idle
    BY <2>5, EndsIs DEF DemoTyped
  <2>8. Known(handling'[q]) /\ tally' \in Tallies
    BY <2>5, <2>7, IdleKnown, UncountedIs DEF DemoTyped
  <2>9. DemoTyped'
    BY <1>3, <2>4, <2>5, <2>6, <2>7, <2>8, StillTyped
  <2>10. n \in {handling[q].hash, demoFile.hash[handling[q].step]}
    BY <1>1, <1>2, <2>1
  <2> QED
    BY <1>1, <1>2, <2>4, <2>5, <2>6, <2>7, <2>9, <2>10
<1> QED
  BY <1>4, <1>5

\* The retained transaction is observed.
LEMMA ObserveIs ==
  ASSUME DemoTyped, NEW q \in Slots, observeRetained(q)
  PROVE  /\ OnlySlot(q) /\ DemoTyped' /\ handling'[q] = Idle /\ activeAction' = NoStep
         /\ demoFile' = demoFile \/ Decided(handling[q].seen, demoFile')
<1>1. PICK f \in Runs : f = handling[q].seen
  BY DEF DemoTyped, DemoTypes, Requests
<1>2. PICK p : p = pendingIn(f)
  OBVIOUS
<1>3. PICK r : r = IF p = NoStep THEN "none" ELSE receiptOf(f.hash[p])
  OBVIOUS
<1>4. \/ demoFile' = (IF r = "none" THEN demoFile ELSE settledBy(f, r)) /\ tally' = tally
      \/ counted("faults") /\ demoFile' = demoFile
  BY <1>1, <1>2, <1>3 DEF observeRetained
<1>5. OnlySlot(q) /\ handling'[q] = Idle
  BY EndsIs DEF DemoTyped, observeRetained
<1>6. Known(handling'[q]) /\ tally' \in Tallies
  BY <1>4, <1>5, IdleKnown, FaultIs, UncountedIs DEF DemoTyped
<1>7. demoFile' \in Runs /\ (demoFile' = demoFile \/ Decided(f, demoFile'))
  <2>1. CASE demoFile' = demoFile
    BY <2>1 DEF DemoTyped, DemoTypes
  <2>2. CASE r # "none" /\ demoFile' = settledBy(f, r)
    <3>1. p # NoStep /\ r = receiptOf(f.hash[p])
      BY <1>3, <2>2
    <3>2. p \in Steps /\ f.status[p] = "pending"
      BY <1>2, <3>1, PendingIs
    <3>3. PICK g : g = settledBy(f, r)
      OBVIOUS
    <3>4. g \in Runs /\ Decided(f, g)
      BY <1>2, <2>2, <3>1, <3>2, <3>3, DecidedIs
    <3> QED
      BY <2>2, <3>3, <3>4
  <2> QED
    BY <1>4, <2>1, <2>2
<1>8. activeAction' \in Steps \cup {NoStep}
  BY DEF observeRetained
<1>9. DemoTyped'
  BY <1>5, <1>6, <1>7, <1>8, StillTyped DEF observeRetained
<1> QED
  BY <1>1, <1>5, <1>7, <1>9 DEF observeRetained

\* A reset is asked for.
LEMMA ResetIs ==
  ASSUME DemoTyped, NEW q \in Slots, resetLivingDemoRun(q)
  PROVE  /\ OnlySlot(q) /\ DemoTyped' /\ handling'[q].at = "revert" /\ handling'[q].seen = freshRun
         /\ ~Lossless'
<1>1. PICK f \in Runs : f = freshRun
  BY FreshIs DEF DemoTyped
<1>2. PICK h \in Requests : h = Free
  BY DEF Free, Requests, Ats, DemoTyped, DemoTypes
<1>3. PICK g : g = [h EXCEPT !.at = "revert", !.seen = f]
  OBVIOUS
<1>4. g \in Requests /\ g.at = "revert" /\ g.seen = f
  BY <1>3 DEF Requests, Ats
<1>5. handling' = [handling EXCEPT ![q] = g]
  BY <1>1, <1>2, <1>3 DEF resetLivingDemoRun
<1>6. OnlySlot(q) /\ handling'[q] = g
  BY <1>4, <1>5, SlotIs DEF DemoTyped
<1>7. tally' \in Tallies /\ ~Lossless'
  BY LifeIs DEF DemoTyped, resetLivingDemoRun
<1>8. Known(handling'[q])
  BY <1>4, <1>6 DEF Known, Executing
<1>9. demoFile' \in Runs /\ activeAction' \in Steps \cup {NoStep}
  BY DEF DemoTyped, DemoTypes, resetLivingDemoRun
<1>10. DemoTyped'
  BY <1>6, <1>7, <1>8, <1>9, StillTyped DEF resetLivingDemoRun
<1> QED
  BY <1>1, <1>4, <1>6, <1>7, <1>10

\* The chain is reverted, unless its snapshot is gone.
LEMMA RevertIs ==
  ASSUME DemoTyped, NEW q \in Slots, revertChain(q)
  PROVE  /\ OnlySlot(q) /\ DemoTyped' /\ deployed'.id = deployed.id
         /\ \/ /\ demoChain'.epoch = demoChain.epoch + 1 /\ demoChain'.sent = demoChain.sent
               /\ MovedTo(q, "snapshot")
            \/ demoChain' = demoChain /\ handling'[q] = Idle
<1>1. /\ demoFile' \in Runs /\ activeAction' \in Steps \cup {NoStep} /\ tally' \in Tallies
      /\ deployed \in [id : Nat, snapshot : BOOLEAN]
      /\ demoChain \in [epoch : Nat, sent : Seq([step : Steps, ok : BOOLEAN, epoch : Nat])]
  BY UncountedIs DEF DemoTyped, DemoTypes, revertChain
<1>2. CASE deployed.snapshot
  <2>1. /\ demoChain' = [demoChain EXCEPT !.epoch = demoChain.epoch + 1]
        /\ deployed' = [deployed EXCEPT !.snapshot = FALSE] /\ moves(q, "snapshot")
    BY <1>2 DEF revertChain
  <2>2. /\ demoChain' \in [epoch : Nat, sent : Seq([step : Steps, ok : BOOLEAN, epoch : Nat])]
        /\ demoChain'.epoch = demoChain.epoch + 1 /\ demoChain'.sent = demoChain.sent
    BY <1>1, <2>1
  <2>3. deployed' \in [id : Nat, snapshot : BOOLEAN] /\ deployed'.id = deployed.id
    BY <1>1, <2>1
  <2>4. OnlySlot(q) /\ MovedTo(q, "snapshot")
    BY <2>1, MovesIs DEF DemoTyped, Ats
  <2>5. Known(handling'[q])
    BY <2>4 DEF MovedTo, Known, Executing
  <2> QED
    BY <1>1, <2>2, <2>3, <2>4, <2>5, SlotTyped
<1>3. CASE ~deployed.snapshot
  <2>1. ends(q) /\ demoChain' = demoChain /\ deployed' = deployed
    BY <1>3 DEF revertChain
  <2>2. OnlySlot(q) /\ handling'[q] = Idle
    BY <2>1, EndsIs DEF DemoTyped
  <2>3. Known(handling'[q])
    BY <2>2, IdleKnown
  <2> QED
    BY <1>1, <2>1, <2>2, <2>3, StillTyped
<1> QED
  BY <1>2, <1>3

\* A new snapshot is recorded.
LEMMA SnapshotIs ==
  ASSUME DemoTyped, NEW q \in Slots, saveSnapshot(q)
  PROVE  OnlySlot(q) /\ DemoTyped' /\ MovedTo(q, "reinitialize") /\ deployed'.id = deployed.id
<1>1. /\ demoFile' \in Runs /\ activeAction' \in Steps \cup {NoStep} /\ tally' \in Tallies
      /\ deployed \in [id : Nat, snapshot : BOOLEAN]
      /\ demoChain' \in [epoch : Nat, sent : Seq([step : Steps, ok : BOOLEAN, epoch : Nat])]
  BY UncountedIs DEF DemoTyped, DemoTypes, saveSnapshot
<1>2. deployed' = [deployed EXCEPT !.snapshot = TRUE]
  BY DEF saveSnapshot
<1>3. deployed' \in [id : Nat, snapshot : BOOLEAN] /\ deployed'.id = deployed.id
  BY <1>1, <1>2
<1>4. OnlySlot(q) /\ MovedTo(q, "reinitialize")
  BY MovesIs DEF DemoTyped, Ats, saveSnapshot
<1>5. Known(handling'[q])
  BY <1>4 DEF MovedTo, Known, Executing
<1> QED
  BY <1>1, <1>3, <1>4, <1>5, SlotTyped

\* The run file of the reverted chain is written.
LEMMA ReinitializeIs ==
  ASSUME DemoTyped, NEW q \in Slots, reinitialize(q)
  PROVE  OnlySlot(q) /\ DemoTyped' /\ handling'[q] = Idle
<1>1. OnlySlot(q) /\ handling'[q] = Idle
  BY EndsIs DEF DemoTyped, reinitialize
<1>2. Known(handling'[q]) /\ tally' \in Tallies
  BY <1>1, IdleKnown, UncountedIs DEF DemoTyped, reinitialize
<1>3. demoFile' \in Runs /\ activeAction' \in Steps \cup {NoStep}
  BY StartedIs DEF DemoTyped, DemoTypes, reinitialize
<1> QED
  BY <1>1, <1>2, <1>3, StillTyped DEF reinitialize

\* A new chain and a new deployment.
LEMMA LocalnetIs ==
  ASSUME DemoTyped, localnet
  PROVE  /\ DemoTyped' /\ ~Lossless'
         /\ demoChain'.epoch = demoChain.epoch + 1 /\ demoChain'.sent = demoChain.sent
         /\ deployed'.id = deployed.id + 1
<1>1. tally' \in Tallies /\ ~Lossless'
  BY LifeIs DEF DemoTyped, localnet
<1>2. /\ demoChain \in [epoch : Nat, sent : Seq([step : Steps, ok : BOOLEAN, epoch : Nat])]
      /\ demoChain' = [demoChain EXCEPT !.epoch = demoChain.epoch + 1]
  BY DEF localnet, DemoTyped, DemoTypes
<1>3. /\ demoChain' \in [epoch : Nat, sent : Seq([step : Steps, ok : BOOLEAN, epoch : Nat])]
      /\ demoChain'.epoch = demoChain.epoch + 1 /\ demoChain'.sent = demoChain.sent
  BY <1>2
<1>4. deployed' = [id |-> deployed.id + 1, snapshot |-> TRUE]
  BY DEF localnet
<1>5. deployed' \in [id : Nat, snapshot : BOOLEAN] /\ deployed'.id = deployed.id + 1
  BY <1>4 DEF DemoTyped, DemoTypes
<1>6. demoFile' = demoFile /\ activeAction' = activeAction /\ handling' = handling
  BY DEF localnet
<1>7. DemoTyped'
  BY <1>1, <1>3, <1>5, <1>6 DEF DemoTyped, DemoTypes, StepsKnown, Tallies
<1> QED
  BY <1>1, <1>3, <1>5, <1>7

\* The server dies, and forgets what it was doing.
LEMMA DeathFrees ==
  ASSUME DemoTyped, serverDies
  PROVE  DemoTyped' /\ ~Lossless' /\ \A q \in Slots : handling'[q] = Idle
<1>1. tally' \in Tallies /\ ~Lossless'
  BY DeathIs DEF DemoTyped, serverDies
<1>2. PICK idle \in Requests : idle = Idle
  BY IdleIs DEF DemoTyped
<1>3. handling' = [q \in Slots |-> idle]
  BY <1>2, IdleIs DEF DemoTyped, serverDies
<1>4. \A q \in Slots : handling'[q] = Idle
  BY <1>2, <1>3
<1>5. handling' \in [Slots -> Requests]
  BY <1>3
<1>6. StepsKnown'
  BY <1>4, IdleKnown DEF StepsKnown
<1>7. DemoTypes'
  BY <1>1, <1>5 DEF DemoTyped, DemoTypes, Tallies, serverDies
<1> QED
  BY <1>1, <1>4, <1>6, <1>7 DEF DemoTyped

-----------------------------------------------------------------------------
\* The run tells the truth about the chain.

\* What a run keeps of the chain stays true while the chain grows.
LEMMA TruthStays ==
  ASSUME DemoGrows, NEW f
  PROVE  (HashesOf(f) => HashesOf(f)') /\ (TrueRun(f) => TrueRun(f)')
<1>1. HashesOf(f) => HashesOf(f)'
  BY DEF DemoGrows, HashesOf
<1>2. ASSUME TrueRun(f)
      PROVE  TrueRun(f)'
  <2>1. SUFFICES ASSUME f.epoch = demoChain'.epoch, NEW s \in Steps,
                        f.status[s] = "confirmed", stepKind(s) # "signature"
                 PROVE  landed(s)'
    BY DEF TrueRun
  <2>2. landed(s)
    BY <1>2, <2>1 DEF TrueRun, DemoGrows
  <2> QED
    BY <2>2, LandedStays
<1> QED
  BY <1>1, <1>2

\* So do the steps that come before one.
LEMMA EarlierStays ==
  ASSUME DemoGrows, NEW s, Earlier(s)
  PROVE  Earlier(s)'
<1>1. SUFFICES ASSUME NEW i \in DOMAIN DemoSteps, NEW j \in DOMAIN DemoSteps,
                      i < j, DemoSteps[j] = s, stepKind(DemoSteps[i]) # "signature"
               PROVE  landed(DemoSteps[i])'
  BY DEF Earlier
<1>2. PICK t : t = DemoSteps[i]
  OBVIOUS
<1>3. landed(t)
  BY <1>1, <1>2 DEF Earlier
<1>4. landed(t)'
  BY <1>3, LandedStays
<1> QED
  BY <1>2, <1>4

Resets == {"revert", "snapshot", "reinitialize"}

\* What one request relies on.
LoadTrue(h) ==
  h.at \in Loaded =>
    /\ demoFile.deployment = deployed.id
    /\ h.seen.deployment = demoFile.deployment /\ h.seen.epoch = demoFile.epoch
    /\ HashesOf(h.seen) /\ TrueRun(h.seen)

WorkTrue(h) ==
  /\ h.at = "initialize" => demoFile.deployment # deployed.id \/ demoFile.epoch = demoChain.epoch
  /\ h.at \in {"initialize", "revert", "snapshot", "reinitialize"} => Blank(h.seen)
  /\ h.at \in {"before", "run", "send"} /\ demoFile.epoch = demoChain.epoch => Earlier(h.step)
  /\ h.at \in Executing /\ h.hash # 0 =>
       h.hash \in DOMAIN demoChain.sent /\ demoChain.sent[h.hash].step = h.step
  /\ h.at \in {"broadcast", "wait"} => h.hash # 0
  /\ h.at = "confirm" => stepKind(h.step) = "signature" \/ landed(h.step)

\* A reset has the server to itself.
Alone(q) == handling[q].at \in Resets => \A r \in Slots : r # q => handling[r].at = "free"

\* These are its parts.
LEMMA SlotParts ==
  ASSUME NEW q
  PROVE  SlotTrue(q) <=> Alone(q) /\ LoadTrue(handling[q]) /\ WorkTrue(handling[q])
  BY DEF SlotTrue, Alone, LoadTrue, WorkTrue, Resets

\* And again after the step.
LEMMA SlotPartsNext ==
  ASSUME NEW q
  PROVE  SlotTrue(q)' <=> Alone(q)' /\ LoadTrue(handling[q])' /\ WorkTrue(handling[q])'
  BY DEF SlotTrue, Alone, LoadTrue, WorkTrue, Resets

\* The file is of the same life and deployment.
SameLife ==
  /\ DemoGrows /\ deployed'.id = deployed.id
  /\ demoFile'.epoch = demoFile.epoch /\ demoFile'.deployment = demoFile.deployment

\* A request that a step does not touch relies on the same.
LEMMA WorkStays ==
  ASSUME SameLife, NEW h, LoadTrue(h), WorkTrue(h)
  PROVE  LoadTrue(h)' /\ WorkTrue(h)'
<1>1. DemoGrows /\ demoChain'.epoch = demoChain.epoch
  BY DEF SameLife, DemoGrows
<1>2. LoadTrue(h)'
  <2>1. PICK f : f = h.seen
    OBVIOUS
  <2>2. (HashesOf(f) => HashesOf(f)') /\ (TrueRun(f) => TrueRun(f)')
    BY <1>1, TruthStays
  <2> QED
    BY <2>1, <2>2 DEF LoadTrue, SameLife
<1>3. Earlier(h.step) => Earlier(h.step)'
  <2>1. PICK s : s = h.step
    OBVIOUS
  <2>2. Earlier(s) => Earlier(s)'
    BY <1>1, EarlierStays
  <2> QED
    BY <2>1, <2>2
<1>4. landed(h.step) => landed(h.step)'
  <2>1. PICK s : s = h.step
    OBVIOUS
  <2>2. landed(s) => landed(s)'
    BY <1>1, LandedStays
  <2> QED
    BY <2>1, <2>2
<1>5. h.hash \in DOMAIN demoChain.sent =>
        h.hash \in DOMAIN demoChain'.sent /\ demoChain'.sent[h.hash] = demoChain.sent[h.hash]
  BY <1>1 DEF DemoGrows
<1>6. WorkTrue(h)'
  BY <1>1, <1>3, <1>4, <1>5 DEF WorkTrue, SameLife, Blank
<1> QED
  BY <1>2, <1>6

\* A step of slot q in the same life of the chain.
LEMMA TruthKeeps ==
  ASSUME TruthInv, NEW q \in Slots, OnlySlot(q), DemoTyped', SameLife, ChainEpochs',
         HashesOf(demoFile)', TrueRun(demoFile)',
         demoFile.epoch = demoChain.epoch => JourneyOrder',
         LoadTrue(handling[q])', WorkTrue(handling[q])',
         handling[q].at # "free" \/ (\A r \in Slots : Alone(r)'), handling'[q].at \notin Resets,
         demoChain' = demoChain \/ handling[q].at \in Loaded
  PROVE  TruthInv'
<1>1. \A r \in Slots : Alone(r) /\ LoadTrue(handling[r]) /\ WorkTrue(handling[r])
  BY SlotParts DEF TruthInv
<1>2. demoChain'.epoch = demoChain.epoch
  BY DEF SameLife, DemoGrows
<1>3. FileTrue'
  BY <1>2 DEF FileTrue, SameLife, TruthInv
<1>4. \A r \in Slots : r # q /\ handling[r].at \in Resets => handling[q].at = "free"
  BY <1>1 DEF Alone
<1>5. ASSUME NEW r \in Slots
      PROVE  Alone(r)'
  <2>1. CASE handling[q].at # "free"
    <3>1. handling'[r].at \notin Resets
      BY <1>4, <2>1 DEF OnlySlot
    <3> QED
      BY <3>1 DEF Alone
  <2>2. CASE handling[q].at = "free"
    BY <2>2
  <2> QED
    BY <2>1, <2>2
<1>6. ASSUME NEW r \in Slots
      PROVE  SlotTrue(r)'
  <2>1. Alone(r)'
    BY <1>5
  <2>2. LoadTrue(handling[r])' /\ WorkTrue(handling[r])'
    <3>1. CASE r = q
      BY <3>1
    <3>2. CASE r # q
      <4>1. PICK h : h = handling[r]
        OBVIOUS
      <4>2. LoadTrue(h)' /\ WorkTrue(h)'
        BY <1>1, <4>1, WorkStays
      <4>3. handling'[r] = h
        BY <3>2, <4>1 DEF OnlySlot
      <4> QED
        BY <4>2, <4>3
    <3> QED
      BY <3>1, <3>2
  <2> QED
    BY <2>1, <2>2, SlotPartsNext
<1>7. Unwritten'
  <2>1. SUFFICES ASSUME \/ demoFile'.deployment # deployed'.id
                        \/ \E r \in Slots : handling'[r].at \in {"snapshot", "reinitialize"}
                 PROVE  \A s \in Steps : ~landed(s)'
    BY DEF Unwritten
  <2>2. \/ demoFile.deployment # deployed.id
        \/ \E r \in Slots : r # q /\ handling[r].at \in {"snapshot", "reinitialize"}
    BY <2>1 DEF SameLife, OnlySlot, Resets
  <2>3. handling[q].at \notin Loaded
    BY <1>1, <2>2 DEF LoadTrue, Alone, Resets, Loaded, Executing
  <2>4. demoChain' = demoChain /\ \A s \in Steps : ~landed(s)
    BY <2>2, <2>3 DEF TruthInv, Unwritten
  <2> QED
    BY <2>4 DEF landed, landings
<1> QED
  BY <1>3, <1>6, <1>7 DEF TruthInv

\* A step of slot q that leaves the chain alone.
LEMMA StillTrue ==
  ASSUME TruthInv, NEW q \in Slots, OnlySlot(q), DemoTyped', demoChain' = demoChain, deployed' = deployed,
         demoFile'.epoch = demoFile.epoch, demoFile'.deployment = demoFile.deployment,
         HashesOf(demoFile)', TrueRun(demoFile)',
         LoadTrue(handling[q])', WorkTrue(handling[q])',
         handling[q].at # "free" \/ (\A r \in Slots : Alone(r)'), handling'[q].at \notin Resets
  PROVE  TruthInv'
<1>1. SameLife
  BY DEF SameLife, DemoGrows
<1>2. ChainEpochs'
  BY DEF TruthInv, ChainEpochs
<1>3. demoFile.epoch = demoChain.epoch => JourneyOrder'
  BY DEF TruthInv, FileTrue, JourneyOrder, landed, landings
<1> QED
  BY <1>1, <1>2, <1>3, TruthKeeps

\* The run that a step keeps is as true as it was.
LEMMA FileStays ==
  ASSUME TruthInv, DemoGrows, demoFile' = demoFile
  PROVE  HashesOf(demoFile)' /\ TrueRun(demoFile)'
<1>1. PICK f : f = demoFile
  OBVIOUS
<1>2. HashesOf(f) /\ TrueRun(f)
  BY <1>1 DEF TruthInv, FileTrue
<1>3. HashesOf(f)' /\ TrueRun(f)'
  BY <1>2, TruthStays
<1> QED
  BY <1>1, <1>3

\* A new record of step s is true if it names a transaction of that step
\* and confirms nothing that did not happen.
LEMMA RecordTrue ==
  ASSUME NEW f, NEW g, NEW s \in Steps, HashesOf(f), TrueRun(f), SameBut(f, g, s),
         g.hash[s] # 0 => g.hash[s] \in DOMAIN demoChain.sent /\ demoChain.sent[g.hash[s]].step = s,
         g.status[s] = "confirmed" => stepKind(s) = "signature" \/ landed(s) \/ f.status[s] = "confirmed"
  PROVE  HashesOf(g) /\ TrueRun(g)
<1>1. HashesOf(g)
  BY DEF HashesOf, SameBut
<1>2. TrueRun(g)
  BY DEF TrueRun, SameBut
<1> QED
  BY <1>1, <1>2

\* An idle slot relies on nothing.
LEMMA IdleTrue ==
  ASSUME NEW q, handling'[q] = Idle
  PROVE  LoadTrue(handling[q])' /\ WorkTrue(handling[q])' /\ handling'[q].at \notin Resets
<1>1. handling'[q].at = "free"
  BY DEF Idle
<1> QED
  BY <1>1 DEF LoadTrue, WorkTrue, Resets, Loaded, Executing

\* An execution starts on a true run: the steps before its own happened.
LEMMA StartTrue ==
  ASSUME NEW q, NEW s, NEW f \in Runs, Starts(q, s, f), HashesOf(f)', TrueRun(f)',
         f.epoch = demoFile'.epoch, f.deployment = demoFile'.deployment, f.deployment = deployed'.id
  PROVE  LoadTrue(handling[q])' /\ WorkTrue(handling[q])' /\ handling'[q].at \notin Resets
<1>1. /\ handling'[q].at = "before" /\ handling'[q].step = s /\ handling'[q].seen = f /\ handling'[q].hash = 0
      /\ s \in Steps /\ s = nextActionFor(f)
  BY DEF Starts
<1>2. LoadTrue(handling[q])'
  BY <1>1 DEF LoadTrue
<1>3. PICK j \in DOMAIN DemoSteps :
        /\ DemoSteps[j] = s
        /\ \A i \in DOMAIN DemoSteps : i < j => f.status[DemoSteps[i]] = "confirmed"
  BY <1>1, NextIs
<1>4. ASSUME f.epoch = demoChain'.epoch
      PROVE  Earlier(s)'
  <2>1. SUFFICES ASSUME NEW i \in DOMAIN DemoSteps, NEW k \in DOMAIN DemoSteps,
                        i < k, DemoSteps[k] = s, stepKind(DemoSteps[i]) # "signature"
                 PROVE  landed(DemoSteps[i])'
    BY DEF Earlier
  <2>2. k = j
    BY <1>3, <2>1, DemoAssumption
  <2>3. f.status[DemoSteps[i]] = "confirmed" /\ DemoSteps[i] \in Steps
    BY <1>3, <2>1, <2>2, StepsAre
  <2> QED
    BY <1>4, <2>1, <2>3 DEF TrueRun
<1>5. WorkTrue(handling[q])' /\ handling'[q].at \notin Resets
  BY <1>1, <1>4 DEF WorkTrue, Resets
<1> QED
  BY <1>2, <1>5

\* A request that waits for the chain, to write a run or for a receipt.
LEMMA WaitTrue ==
  ASSUME TruthInv, NEW q, NEW a, NEW s, NEW f, Waits(q, a, s, f),
         demoChain' = demoChain, deployed' = deployed,
         \/ a = "initialize" /\ f = freshRun /\ demoFile.deployment # deployed.id
         \/ a = "receipt" /\ f = demoFile /\ demoFile.deployment = deployed.id
  PROVE  LoadTrue(handling[q])' /\ WorkTrue(handling[q])' /\ handling'[q].at \notin Resets
<1>1. HashesOf(demoFile)' /\ TrueRun(demoFile)'
  BY FileStays DEF Waits, DemoGrows
<1>2. handling'[q].at = a /\ handling'[q].seen = f /\ demoFile' = demoFile
  BY DEF Waits
<1>3. LoadTrue(handling[q])'
  BY <1>1, <1>2 DEF LoadTrue, Loaded, Executing
<1>4. Blank(freshRun)
  BY FreshIs DEF TruthInv, DemoTyped, Blank
<1>5. a = "initialize" => Blank(handling[q].seen)'
  BY <1>2, <1>4 DEF Blank
<1>6. WorkTrue(handling[q])' /\ handling'[q].at \notin Resets
  BY <1>2, <1>5 DEF WorkTrue, Resets, Executing
<1> QED
  BY <1>3, <1>6

\* A load keeps the truth.
LEMMA LoadKeeps ==
  ASSUME TruthInv, NEW q \in Slots, NEW s, OnlySlot(q), Loads(q, s), DemoTyped',
         demoChain' = demoChain, deployed' = deployed, \A r \in Slots : Alone(r)'
  PROVE  TruthInv'
<1>1. PICK p : p = pendingIn(demoFile)
  OBVIOUS
<1>2. PICK f \in Runs : f = demoFile
  BY DEF TruthInv, DemoTyped, DemoTypes
<1>3. PICK g \in Runs : g = demoFile'
  BY DEF DemoTyped, DemoTypes
<1>4. DemoGrows
  BY DEF DemoGrows
<1>5. CASE demoFile.deployment # deployed.id /\ Waits(q, "initialize", s, freshRun)
  <2>1. demoFile' = demoFile
    BY <1>5 DEF Waits
  <2>2. HashesOf(demoFile)' /\ TrueRun(demoFile)'
    BY <1>4, <2>1, FileStays
  <2>3. LoadTrue(handling[q])' /\ WorkTrue(handling[q])' /\ handling'[q].at \notin Resets
    BY <1>5, WaitTrue
  <2> QED
    BY <2>1, <2>2, <2>3, StillTrue
<1>6. CASE demoFile.deployment = deployed.id /\ Waits(q, "receipt", s, demoFile)
  <2>1. demoFile' = demoFile
    BY <1>6 DEF Waits
  <2>2. HashesOf(demoFile)' /\ TrueRun(demoFile)'
    BY <1>4, <2>1, FileStays
  <2>3. LoadTrue(handling[q])' /\ WorkTrue(handling[q])' /\ handling'[q].at \notin Resets
    BY <1>6, WaitTrue
  <2> QED
    BY <2>1, <2>2, <2>3, StillTrue
<1>7. CASE /\ demoFile.deployment = deployed.id
           /\ \/ g = f
              \/ p \in Steps /\ f.status[p] = "pending" /\ g = updateAction(f, p, "failed", 0)
           /\ Starts(q, s, g) \/ handling'[q] = Idle
  <2>1. g.epoch = f.epoch /\ g.deployment = f.deployment /\ HashesOf(g) /\ TrueRun(g)
    <3>1. HashesOf(f) /\ TrueRun(f)
      BY <1>2 DEF TruthInv, FileTrue
    <3>2. CASE g = f
      BY <3>1, <3>2
    <3>3. CASE p \in Steps /\ f.status[p] = "pending" /\ g = updateAction(f, p, "failed", 0)
      <4>1. PICK word \in {"none", "pending", "confirmed", "failed"} : word = "failed"
        OBVIOUS
      <4>2. PICK n \in Nat : n = 0
        OBVIOUS
      <4>3. g = updateAction(f, p, word, n)
        BY <3>3, <4>1, <4>2
      <4>4. SameBut(f, g, p) /\ Updated(f, g, p, word, n)
        BY <3>3, <4>3, UpdateIs
      <4>5. g.status[p] = "failed" /\ g.hash[p] = 0
        BY <3>3, <4>1, <4>2, <4>4 DEF Updated
      <4>6. HashesOf(g) /\ TrueRun(g)
        BY <3>1, <3>3, <4>4, <4>5, RecordTrue
      <4> QED
        BY <4>4, <4>6 DEF SameBut
    <3> QED
      BY <1>7, <3>2, <3>3
  <2>2. HashesOf(g)' /\ TrueRun(g)'
    BY <1>4, <2>1, TruthStays
  <2>3. HashesOf(demoFile)' /\ TrueRun(demoFile)'
    BY <1>3, <2>2
  <2>4. LoadTrue(handling[q])' /\ WorkTrue(handling[q])' /\ handling'[q].at \notin Resets
    <3>1. CASE handling'[q] = Idle
      BY <3>1, IdleTrue
    <3>2. CASE Starts(q, s, g)
      BY <1>2, <1>3, <1>7, <2>1, <2>2, <3>2, StartTrue
    <3> QED
      BY <1>7, <3>1, <3>2
  <2> QED
    BY <1>2, <1>3, <2>1, <2>3, <2>4, StillTrue
<1> QED
  BY <1>1, <1>2, <1>3, <1>5, <1>6, <1>7 DEF Loads

\* A request that goes on with a true run of this deployment.
LEMMA GoesOnTrue ==
  ASSUME NEW q, NEW f \in Runs, GoesOn(q, f), HashesOf(f)', TrueRun(f)',
         f.epoch = demoFile'.epoch, f.deployment = demoFile'.deployment, f.deployment = deployed'.id
  PROVE  LoadTrue(handling[q])' /\ WorkTrue(handling[q])' /\ handling'[q].at \notin Resets
<1>1. PICK s : s = handling[q].step
  OBVIOUS
<1>2. CASE Starts(q, s, f)
  BY <1>2, StartTrue
<1>3. CASE handling'[q] = Idle
  BY <1>3, IdleTrue
<1> QED
  BY <1>1, <1>2, <1>3 DEF GoesOn

\* The first run of a deployment is written.
LEMMA InitializeKeeps ==
  ASSUME TruthInv, NEW q \in Slots, initializeRun(q)
  PROVE  TruthInv'
<1>1. OnlySlot(q) /\ GoesOn(q, demoFile') /\ demoFile' = startedRun(q) /\ DemoTyped'
  BY InitializeIs DEF TruthInv
<1>2. /\ demoChain' = demoChain /\ deployed' = deployed /\ DemoGrows
      /\ handling[q].at = "initialize"
  BY DEF initializeRun, DemoGrows
<1>3. PICK f \in Runs : f = demoFile'
  BY <1>1 DEF DemoTyped, DemoTypes
<1>4. /\ f.epoch = demoChain.epoch /\ f.deployment = deployed.id
      /\ \A s \in Steps : f.status[s] = "none" /\ f.hash[s] = 0
  <2>1. Blank(handling[q].seen)
    BY <1>2 DEF TruthInv, SlotTrue
  <2> QED
    BY <1>1, <1>3, <2>1, StartedIs DEF TruthInv, Blank
<1>5. HashesOf(f)' /\ TrueRun(f)'
  BY <1>4 DEF HashesOf, TrueRun
<1>6. LoadTrue(handling[q])' /\ WorkTrue(handling[q])' /\ handling'[q].at \notin Resets
  BY <1>1, <1>2, <1>3, <1>4, <1>5, GoesOnTrue
<1>7. \A r \in Slots : Alone(r) /\ LoadTrue(handling[r]) /\ WorkTrue(handling[r])
  BY SlotParts DEF TruthInv
<1>8. CASE demoFile.deployment = deployed.id
  <2>1. demoFile.epoch = demoChain.epoch
    BY <1>2, <1>7, <1>8 DEF WorkTrue
  <2>2. demoFile'.epoch = demoFile.epoch /\ demoFile'.deployment = demoFile.deployment
    BY <1>3, <1>4, <1>8, <2>1
  <2> QED
    BY <1>1, <1>2, <1>3, <1>5, <1>6, <2>2, StillTrue
<1>9. CASE demoFile.deployment # deployed.id
  <2>1. \A s \in Steps : ~landed(s)'
    BY <1>2, <1>9 DEF TruthInv, Unwritten, landed, landings
  <2>2. FileTrue'
    <3>1. demoFile'.epoch <= demoChain'.epoch
      BY <1>2, <1>3, <1>4 DEF TruthInv, DemoTyped, DemoTypes
    <3> QED
      BY <1>3, <1>5, <2>1, <3>1, StepsAre DEF FileTrue, JourneyOrder
  <2>3. \A r \in Slots : r # q => handling'[r].at \notin Resets
    BY <1>1, <1>2, <1>7 DEF Alone, OnlySlot
  <2>4. ASSUME NEW r \in Slots
        PROVE  SlotTrue(r)'
    <3>1. Alone(r)'
      BY <1>6, <2>3 DEF Alone
    <3>2. LoadTrue(handling[r])' /\ WorkTrue(handling[r])'
      <4>1. CASE r = q
        BY <1>6, <4>1
      <4>2. CASE r # q
        <5>1. handling'[r] = handling[r]
          BY <1>1, <4>2 DEF OnlySlot
        <5>2. handling[r].at \notin Loaded
          BY <1>7, <1>9 DEF LoadTrue
        <5>3. demoFile'.epoch = demoChain'.epoch
          BY <1>2, <1>3, <1>4
        <5> QED
          BY <1>2, <1>7, <5>1, <5>2, <5>3 DEF LoadTrue, WorkTrue, Loaded, Executing, Blank
      <4> QED
        BY <4>1, <4>2
    <3> QED
      BY <3>1, <3>2, SlotPartsNext
  <2>5. Unwritten' /\ ChainEpochs'
    BY <1>2, <2>1 DEF Unwritten, ChainEpochs, TruthInv
  <2> QED
    BY <1>1, <2>2, <2>4, <2>5 DEF TruthInv
<1> QED
  BY <1>8, <1>9

\* A receipt that was read is of the pending action.
LEMMA DecidedTrue ==
  ASSUME NEW f, NEW g, Decided(f, g), HashesOf(f), TrueRun(f)
  PROVE  HashesOf(g) /\ TrueRun(g) /\ g.epoch = f.epoch /\ g.deployment = f.deployment
<1>1. PICK p \in Steps :
        /\ f.status[p] = "pending" /\ receiptOf(f.hash[p]) # "none"
        /\ SameBut(f, g, p) /\ g.hash[p] = f.hash[p]
        /\ g.status[p] = IF receiptOf(f.hash[p]) = "success" THEN "confirmed" ELSE "failed"
  BY DEF Decided
<1>2. PICK n : n = f.hash[p]
  OBVIOUS
<1>3. n # 0 /\ demoChain.sent[n].epoch = demoChain.epoch
  BY <1>1, <1>2 DEF receiptOf
<1>4. n \in DOMAIN demoChain.sent /\ demoChain.sent[n].step = p
  BY <1>2, <1>3 DEF HashesOf
<1>5. g.status[p] = "confirmed" => landed(p)
  <2>1. SUFFICES ASSUME g.status[p] = "confirmed"
                 PROVE  landed(p)
    OBVIOUS
  <2>2. receiptOf(n) = "success"
    BY <1>1, <1>2, <2>1
  <2>3. demoChain.sent[n].ok
    BY <1>3, <2>2 DEF receiptOf
  <2> QED
    BY <1>3, <1>4, <2>3 DEF landed, landings
<1>6. HashesOf(g) /\ TrueRun(g)
  BY <1>1, <1>2, <1>4, <1>5, RecordTrue
<1> QED
  BY <1>1, <1>6 DEF SameBut

\* Reconciling keeps the truth.
LEMMA ReconcileKeeps ==
  ASSUME TruthInv, NEW q \in Slots, reconcilePending(q)
  PROVE  TruthInv'
<1>1. /\ OnlySlot(q) /\ DemoTyped'
      /\ \/ demoFile' = demoFile /\ GoesOn(q, handling[q].seen)
         \/ Decided(handling[q].seen, demoFile') /\ GoesOn(q, demoFile')
  BY ReconcileIs DEF TruthInv
<1>2. demoChain' = demoChain /\ deployed' = deployed /\ DemoGrows /\ handling[q].at = "receipt"
  BY DEF reconcilePending, DemoGrows
<1>3. PICK f \in Runs : f = handling[q].seen
  BY DEF TruthInv, DemoTyped, DemoTypes, Requests
<1>4. /\ demoFile.deployment = deployed.id
      /\ f.deployment = demoFile.deployment /\ f.epoch = demoFile.epoch
      /\ HashesOf(f) /\ TrueRun(f)
  BY <1>2, <1>3, SlotParts DEF TruthInv, LoadTrue, Loaded
<1>5. CASE demoFile' = demoFile /\ GoesOn(q, f)
  <2>1. HashesOf(demoFile)' /\ TrueRun(demoFile)'
    BY <1>2, <1>5, FileStays
  <2>2. HashesOf(f)' /\ TrueRun(f)'
    BY <1>2, <1>4, TruthStays
  <2>3. LoadTrue(handling[q])' /\ WorkTrue(handling[q])' /\ handling'[q].at \notin Resets
    BY <1>2, <1>4, <1>5, <2>2, GoesOnTrue
  <2> QED
    BY <1>1, <1>2, <1>5, <2>1, <2>3, StillTrue
<1>6. CASE Decided(f, demoFile') /\ GoesOn(q, demoFile')
  <2>1. PICK g \in Runs : g = demoFile'
    BY <1>1 DEF DemoTyped, DemoTypes
  <2>2. Decided(f, g) /\ GoesOn(q, g)
    BY <1>6, <2>1
  <2>3. HashesOf(g) /\ TrueRun(g) /\ g.epoch = f.epoch /\ g.deployment = f.deployment
    BY <1>4, <2>2, DecidedTrue
  <2>4. HashesOf(g)' /\ TrueRun(g)'
    BY <1>2, <2>3, TruthStays
  <2>5. LoadTrue(handling[q])' /\ WorkTrue(handling[q])' /\ handling'[q].at \notin Resets
    BY <1>2, <1>4, <2>1, <2>2, <2>3, <2>4, GoesOnTrue
  <2>6. HashesOf(demoFile)' /\ TrueRun(demoFile)'
    BY <2>1, <2>4
  <2> QED
    BY <1>1, <1>2, <1>4, <2>1, <2>3, <2>5, <2>6, StillTrue
<1> QED
  BY <1>1, <1>3, <1>5, <1>6

\* A request that goes to another station of its execution.
LEMMA CarriesTrue ==
  ASSUME TruthInv, NEW q \in Slots, NEW a \in Executing, handling[q].at \in Executing, Carries(q, a),
         SameLife, WorkTrue(handling[q])'
  PROVE  LoadTrue(handling[q])' /\ handling'[q].at \notin Resets
<1>1. PICK f : f = handling[q].seen
  OBVIOUS
<1>2. /\ demoFile.deployment = deployed.id
      /\ f.deployment = demoFile.deployment /\ f.epoch = demoFile.epoch
      /\ HashesOf(f) /\ TrueRun(f)
  BY <1>1, SlotParts DEF TruthInv, LoadTrue, Loaded
<1>3. HashesOf(f)' /\ TrueRun(f)'
  BY <1>2, TruthStays DEF SameLife
<1>4. LoadTrue(handling[q])'
  BY <1>1, <1>2, <1>3 DEF LoadTrue, Carries, SameLife
<1> QED
  BY <1>4 DEF Carries, Executing, Resets

\* The attempt is recorded.
LEMMA BeforeKeeps ==
  ASSUME TruthInv, NEW q \in Slots, observeBefore(q)
  PROVE  TruthInv'
<1>1. /\ OnlySlot(q) /\ DemoTyped'
      /\ \/ /\ MovedTo(q, "run")
            /\ SameBut(handling[q].seen, demoFile', handling[q].step)
            /\ demoFile'.status[handling[q].step] = "pending" /\ demoFile'.hash[handling[q].step] = 0
         \/ handling'[q] = Idle /\ demoFile' = demoFile
  BY BeforeIs DEF TruthInv
<1>2. demoChain' = demoChain /\ deployed' = deployed /\ DemoGrows /\ handling[q].at = "before"
  BY DEF observeBefore, DemoGrows
<1>3. CASE handling'[q] = Idle /\ demoFile' = demoFile
  <2>1. HashesOf(demoFile)' /\ TrueRun(demoFile)'
    BY <1>2, <1>3, FileStays
  <2>2. LoadTrue(handling[q])' /\ WorkTrue(handling[q])' /\ handling'[q].at \notin Resets
    BY <1>3, IdleTrue
  <2> QED
    BY <1>1, <1>2, <1>3, <2>1, <2>2, StillTrue
<1>4. CASE /\ MovedTo(q, "run")
           /\ SameBut(handling[q].seen, demoFile', handling[q].step)
           /\ demoFile'.status[handling[q].step] = "pending" /\ demoFile'.hash[handling[q].step] = 0
  <2>1. PICK f : f = handling[q].seen
    OBVIOUS
  <2>2. PICK g : g = demoFile'
    OBVIOUS
  <2>3. PICK s \in Steps : s = handling[q].step
    BY <1>2, StepIs DEF TruthInv, Executing
  <2>4. /\ f.deployment = demoFile.deployment /\ f.epoch = demoFile.epoch
        /\ HashesOf(f) /\ TrueRun(f)
    BY <1>2, <2>1, SlotParts DEF TruthInv, LoadTrue, Loaded, Executing
  <2>5. SameBut(f, g, s) /\ g.status[s] = "pending" /\ g.hash[s] = 0
    BY <1>4, <2>1, <2>2, <2>3
  <2>6. HashesOf(g) /\ TrueRun(g)
    BY <2>4, <2>5, RecordTrue
  <2>7. HashesOf(g)' /\ TrueRun(g)'
    BY <1>2, <2>6, TruthStays
  <2>8. demoFile'.epoch = demoFile.epoch /\ demoFile'.deployment = demoFile.deployment
    BY <2>2, <2>4, <2>5 DEF SameBut
  <2>9. SameLife
    BY <1>2, <2>8 DEF SameLife
  <2>10. WorkTrue(handling[q])'
    <3>1. WorkTrue(handling[q])
      BY SlotParts DEF TruthInv
    <3>2. Earlier(s) => Earlier(s)'
      BY <1>2, EarlierStays
    <3> QED
      BY <1>2, <1>4, <2>3, <2>8, <3>1, <3>2 DEF WorkTrue, MovedTo, Executing
  <2>11. LoadTrue(handling[q])' /\ handling'[q].at \notin Resets
    <3>1. Carries(q, "run") /\ "run" \in Executing /\ handling[q].at \in Executing
      BY <1>2, <1>4 DEF MovedTo, Carries, Executing
    <3> QED
      BY <2>9, <2>10, <3>1, CarriesTrue
  <2> QED
    BY <1>1, <1>2, <2>2, <2>7, <2>8, <2>10, <2>11, StillTrue
<1> QED
  BY <1>1, <1>3, <1>4

\* A step happens after the steps that come before it.
LEMMA MinedOrder ==
  ASSUME TruthInv, NEW q \in Slots, handling[q].at \in {"run", "send"},
         NEW s \in Steps, s = handling[q].step, demoChain' = mined(s)
  PROVE  /\ DemoGrows /\ ChainEpochs' /\ landed(s)'
         /\ demoFile.epoch = demoChain.epoch => JourneyOrder'
         /\ MinedAt(Len(demoChain.sent) + 1, s)
<1>1. s \in Steps /\ s = handling[q].step
  OBVIOUS
<1>2. DemoGrows /\ MinedAt(Len(demoChain.sent) + 1, s)
  BY <1>1, MinedIs DEF TruthInv, DemoTyped
<1>3. PICK k : k = Len(demoChain.sent) + 1
  OBVIOUS
<1>4. MinedAt(k, s)
  BY <1>2, <1>3
<1>5. ChainEpochs'
  <2>1. SUFFICES ASSUME NEW i \in DOMAIN demoChain'.sent
                 PROVE  demoChain'.sent[i].epoch <= demoChain'.epoch
    BY DEF ChainEpochs
  <2>2. demoChain.epoch \in Nat /\ demoChain'.epoch = demoChain.epoch
    BY <1>2 DEF TruthInv, DemoTyped, DemoTypes, DemoGrows
  <2>3. CASE i = k
    BY <1>4, <2>2, <2>3 DEF MinedAt
  <2>4. CASE i # k
    <3>1. i \in DOMAIN demoChain.sent /\ demoChain'.sent[i] = demoChain.sent[i]
      BY <1>2, <1>4, <2>4 DEF MinedAt, DemoGrows
    <3> QED
      BY <2>2, <3>1 DEF TruthInv, ChainEpochs
  <2> QED
    BY <2>3, <2>4
<1>6. landed(s)'
  BY <1>2, <1>4, MinedLands
<1>7. ASSUME demoFile.epoch = demoChain.epoch
      PROVE  JourneyOrder'
  <2>1. Earlier(s) /\ JourneyOrder
    BY <1>1, <1>7, SlotParts DEF TruthInv, FileTrue, WorkTrue
  <2>2. SUFFICES ASSUME NEW i \in DOMAIN DemoSteps, NEW j \in DOMAIN DemoSteps,
                        i < j, landed(DemoSteps[j])', stepKind(DemoSteps[i]) # "signature"
                 PROVE  landed(DemoSteps[i])'
    BY DEF JourneyOrder
  <2>3. PICK t : t = DemoSteps[j]
    OBVIOUS
  <2>4. PICK u : u = DemoSteps[i]
    OBVIOUS
  <2>5. landed(u)
    <3>1. CASE t = s
      BY <2>1, <2>2, <2>3, <2>4, <3>1 DEF Earlier
    <3>2. CASE t # s
      <4>1. landed(t)
        BY <1>2, <1>4, <2>2, <2>3, <3>2, MinedOnly
      <4> QED
        BY <2>1, <2>2, <2>3, <2>4, <4>1 DEF JourneyOrder
    <3> QED
      BY <3>1, <3>2
  <2>6. landed(u)'
    BY <1>2, <2>5, LandedStays
  <2> QED
    BY <2>4, <2>6
<1> QED
  BY <1>1, <1>2, <1>5, <1>6, <1>7

\* The catch block guesses nothing.
LEMMA CaughtKeeps ==
  ASSUME TruthInv, NEW q \in Slots, handling[q].at \in Executing, Caught(q), OnlySlot(q), DemoTyped',
         deployed' = deployed, DemoGrows, ChainEpochs',
         demoFile.epoch = demoChain.epoch => JourneyOrder'
  PROVE  TruthInv'
<1>1. PICK s \in Steps : s = handling[q].step
  BY StepIs DEF TruthInv
<1>2. PICK f \in Runs : f = demoFile
  BY DEF TruthInv, DemoTyped, DemoTypes
<1>3. PICK g \in Runs : g = demoFile'
  BY DEF DemoTyped, DemoTypes
<1>4. /\ SameBut(f, g, s) /\ g.hash[s] = f.hash[s]
      /\ g.status[s] # "confirmed" \/ g = f
  BY <1>1, <1>2, <1>3, CaughtRun DEF TruthInv, DemoTyped
<1>5. HashesOf(f) /\ TrueRun(f)
  BY <1>2 DEF TruthInv, FileTrue
<1>6. HashesOf(g) /\ TrueRun(g)
  <2>1. g.hash[s] # 0 => g.hash[s] \in DOMAIN demoChain.sent /\ demoChain.sent[g.hash[s]].step = s
    BY <1>4, <1>5 DEF HashesOf
  <2>2. g.status[s] = "confirmed" => f.status[s] = "confirmed"
    BY <1>4
  <2> QED
    BY <1>4, <1>5, <2>1, <2>2, RecordTrue
<1>7. HashesOf(g)' /\ TrueRun(g)'
  BY <1>6, TruthStays
<1>8. SameLife
  BY <1>2, <1>3, <1>4 DEF SameLife, SameBut
<1>9. demoFile.deployment = deployed.id /\ WorkTrue(handling[q])
  BY SlotParts DEF TruthInv, LoadTrue, Loaded
<1>10. LoadTrue(handling[q])' /\ WorkTrue(handling[q])' /\ handling'[q].at \notin Resets
  <2>1. CASE handling'[q] = Idle
    BY <2>1, IdleTrue
  <2>2. CASE handling'[q] # Idle
    <3>1. /\ demoFile' = demoFile /\ handling'[q].at = "observe" /\ handling'[q].step = s
          /\ handling'[q].seen = demoFile /\ handling'[q].hash = handling[q].hash
      BY <1>1, <2>2 DEF Caught
    <3>2. LoadTrue(handling[q])'
      BY <1>3, <1>7, <1>9, <3>1 DEF LoadTrue
    <3>3. handling[q].hash # 0 =>
            handling[q].hash \in DOMAIN demoChain'.sent /\ demoChain'.sent[handling[q].hash].step = s
      BY <1>1, <1>9 DEF WorkTrue, DemoGrows
    <3>4. WorkTrue(handling[q])' /\ handling'[q].at \notin Resets
      BY <3>1, <3>3 DEF WorkTrue, Resets
    <3> QED
      BY <3>2, <3>4
  <2> QED
    BY <2>1, <2>2
<1>11. handling[q].at # "free" /\ handling[q].at \in Loaded
  BY DEF Executing, Loaded
<1>12. HashesOf(demoFile)' /\ TrueRun(demoFile)'
  BY <1>3, <1>7
<1> QED
  BY <1>8, <1>10, <1>11, <1>12, TruthKeeps

\* A chain that did not move is in order.
LEMMA StayOrder ==
  ASSUME TruthInv, demoChain' = demoChain
  PROVE  DemoGrows /\ ChainEpochs' /\ (demoFile.epoch = demoChain.epoch => JourneyOrder')
  BY DEF TruthInv, FileTrue, DemoGrows, ChainEpochs, JourneyOrder, landed, landings

\* A request goes to another station while the file stays.
LEMMA CarryKeeps ==
  ASSUME TruthInv, NEW q \in Slots, NEW a \in Executing, handling[q].at \in Executing, Carries(q, a),
         OnlySlot(q), DemoTyped', demoFile' = demoFile, deployed' = deployed, DemoGrows, ChainEpochs',
         demoFile.epoch = demoChain.epoch => JourneyOrder',
         WorkTrue(handling[q])'
  PROVE  TruthInv'
<1>1. SameLife
  BY DEF SameLife
<1>2. LoadTrue(handling[q])' /\ handling'[q].at \notin Resets
  BY <1>1, CarriesTrue
<1>3. HashesOf(demoFile)' /\ TrueRun(demoFile)'
  BY FileStays
<1>4. handling[q].at # "free" /\ handling[q].at \in Loaded
  BY DEF Executing, Loaded
<1> QED
  BY <1>1, <1>2, <1>3, <1>4, TruthKeeps

\* The step runs.
LEMMA RunKeeps ==
  ASSUME TruthInv, NEW q \in Slots, runStep(q)
  PROVE  TruthInv'
<1>1. OnlySlot(q) /\ DemoTyped' /\ RunOutcome(q)
  BY RunIs DEF TruthInv
<1>2. /\ deployed' = deployed /\ handling[q].at = "run"
      /\ handling[q].at \in Executing /\ "confirm" \in Executing /\ "send" \in Executing
  BY DEF runStep, Executing
<1>3. PICK s \in Steps : s = handling[q].step
  BY <1>2, StepIs DEF TruthInv
<1>4. WorkTrue(handling[q])
  BY SlotParts DEF TruthInv
<1>5. CASE /\ stepKind(s) = "signature" /\ demoChain' = demoChain /\ demoFile' = demoFile
           /\ Carries(q, "confirm") /\ handling'[q].hash = handling[q].hash
  <2>1. WorkTrue(handling[q])'
    BY <1>2, <1>3, <1>4, <1>5 DEF WorkTrue, Carries
  <2> QED
    BY <1>1, <1>2, <1>5, <2>1, StayOrder, CarryKeeps
<1>6. CASE demoChain' = mined(s) /\ demoFile' = demoFile /\ MovedTo(q, "confirm")
  <2>1. /\ DemoGrows /\ ChainEpochs' /\ landed(s)'
        /\ demoFile.epoch = demoChain.epoch => JourneyOrder'
    BY <1>2, <1>3, <1>6, MinedOrder
  <2>2. Carries(q, "confirm")
    BY <1>6 DEF MovedTo, Carries
  <2>3. handling[q].hash # 0 =>
          handling[q].hash \in DOMAIN demoChain'.sent /\ demoChain'.sent[handling[q].hash].step = s
    BY <1>2, <1>3, <1>4, <2>1 DEF WorkTrue, DemoGrows
  <2>4. landed(s)' /\ handling'[q].step = s /\ handling'[q].at = "confirm" /\ handling'[q].hash = handling[q].hash
    BY <1>3, <1>6, <2>1 DEF MovedTo
  <2>5. WorkTrue(handling[q])'
    BY <2>3, <2>4 DEF WorkTrue
  <2> QED
    BY <1>1, <1>2, <1>6, <2>1, <2>2, <2>5, CarryKeeps
<1>7. CASE demoChain' = mined(s) /\ Caught(q)
  <2>1. /\ DemoGrows /\ ChainEpochs'
        /\ demoFile.epoch = demoChain.epoch => JourneyOrder'
    BY <1>2, <1>3, <1>7, MinedOrder
  <2> QED
    BY <1>1, <1>2, <1>7, <2>1, CaughtKeeps
<1>8. CASE demoChain' = demoChain /\ demoFile' = demoFile /\ MovedTo(q, "send")
  <2>1. DemoGrows /\ ChainEpochs' /\ (demoFile.epoch = demoChain.epoch => JourneyOrder')
    BY <1>8, StayOrder
  <2>2. Earlier(s) => Earlier(s)'
    BY <2>1, EarlierStays
  <2>3. WorkTrue(handling[q])'
    BY <1>2, <1>3, <1>4, <1>8, <2>2 DEF WorkTrue, MovedTo
  <2>4. Carries(q, "send")
    BY <1>8 DEF MovedTo, Carries
  <2> QED
    BY <1>1, <1>2, <1>8, <2>1, <2>3, <2>4, CarryKeeps
<1>9. CASE demoChain' = demoChain /\ Caught(q)
  BY <1>1, <1>2, <1>9, StayOrder, CaughtKeeps
<1> QED
  BY <1>1, <1>3, <1>5, <1>6, <1>7, <1>8, <1>9 DEF RunOutcome, Same, Stays

\* The transaction is sent.
LEMMA SendTrue ==
  ASSUME TruthInv, NEW q \in Slots, sendTransaction(q)
  PROVE  TruthInv'
<1>1. OnlySlot(q) /\ DemoTyped' /\ SendOutcome(q)
  BY SendIs DEF TruthInv
<1>2. /\ deployed' = deployed /\ handling[q].at = "send"
      /\ handling[q].at \in Executing /\ "broadcast" \in Executing
  BY DEF sendTransaction, Executing
<1>3. PICK s \in Steps : s = handling[q].step
  BY <1>2, StepIs DEF TruthInv
<1>4. CASE /\ demoChain' = mined(s) /\ demoFile' = demoFile /\ Carries(q, "broadcast")
           /\ handling'[q].hash = Len(demoChain.sent) + 1
  <2>1. /\ DemoGrows /\ ChainEpochs'
        /\ demoFile.epoch = demoChain.epoch => JourneyOrder'
        /\ MinedAt(Len(demoChain.sent) + 1, s)
    BY <1>2, <1>3, <1>4, MinedOrder
  <2>2. PICK k : k = Len(demoChain.sent) + 1
    OBVIOUS
  <2>3. k \in DOMAIN demoChain'.sent /\ demoChain'.sent[k].step = s
    BY <2>1, <2>2 DEF MinedAt
  <2>4. k # 0
    <3>1. demoChain.sent \in Seq([step : Steps, ok : BOOLEAN, epoch : Nat])
      BY DEF TruthInv, DemoTyped, DemoTypes
    <3>2. Len(demoChain.sent) \in Nat
      BY <3>1
    <3> QED
      BY <2>2, <3>2
  <2>5. WorkTrue(handling[q])'
    BY <1>3, <1>4, <2>2, <2>3, <2>4 DEF WorkTrue, Carries
  <2> QED
    BY <1>1, <1>2, <1>4, <2>1, <2>5, CarryKeeps
<1>5. CASE demoChain' = mined(s) /\ Caught(q)
  <2>1. /\ DemoGrows /\ ChainEpochs'
        /\ demoFile.epoch = demoChain.epoch => JourneyOrder'
    BY <1>2, <1>3, <1>5, MinedOrder
  <2> QED
    BY <1>1, <1>2, <1>5, <2>1, CaughtKeeps
<1>6. CASE demoChain' = demoChain /\ Caught(q)
  BY <1>1, <1>2, <1>6, StayOrder, CaughtKeeps
<1> QED
  BY <1>1, <1>3, <1>4, <1>5, <1>6 DEF SendOutcome, Same, Stays

\* The hash is recorded.
LEMMA BroadcastTrue ==
  ASSUME TruthInv, NEW q \in Slots, onTransactionBroadcast(q)
  PROVE  TruthInv'
<1>1. /\ OnlySlot(q) /\ DemoTyped' /\ MovedTo(q, "wait")
      /\ SameBut(demoFile, demoFile', handling[q].step)
      /\ demoFile'.status[handling[q].step] = demoFile.status[handling[q].step]
      /\ demoFile'.hash[handling[q].step] \in {demoFile.hash[handling[q].step], handling[q].hash}
  BY BroadcastIs DEF TruthInv
<1>2. /\ demoChain' = demoChain /\ deployed' = deployed /\ DemoGrows /\ handling[q].at = "broadcast"
      /\ handling[q].at \in Executing /\ "wait" \in Executing
  BY DEF onTransactionBroadcast, DemoGrows, Executing
<1>3. PICK s \in Steps : s = handling[q].step
  BY <1>2, StepIs DEF TruthInv
<1>4. PICK f : f = demoFile
  OBVIOUS
<1>5. PICK g : g = demoFile'
  OBVIOUS
<1>6. WorkTrue(handling[q])
  BY SlotParts DEF TruthInv
<1>7. SameBut(f, g, s) /\ g.status[s] = f.status[s] /\ HashesOf(f) /\ TrueRun(f)
  BY <1>1, <1>3, <1>4, <1>5 DEF TruthInv, FileTrue
<1>8. g.hash[s] # 0 => g.hash[s] \in DOMAIN demoChain.sent /\ demoChain.sent[g.hash[s]].step = s
  BY <1>1, <1>2, <1>3, <1>4, <1>5, <1>6, <1>7 DEF WorkTrue, HashesOf
<1>9. HashesOf(g) /\ TrueRun(g)
  BY <1>7, <1>8, RecordTrue
<1>10. HashesOf(g)' /\ TrueRun(g)'
  BY <1>2, <1>9, TruthStays
<1>11. SameLife /\ demoFile'.epoch = demoFile.epoch /\ demoFile'.deployment = demoFile.deployment
  BY <1>2, <1>4, <1>5, <1>7 DEF SameLife, SameBut
<1>12. WorkTrue(handling[q])'
  BY <1>1, <1>2, <1>6 DEF WorkTrue, MovedTo
<1>13. LoadTrue(handling[q])' /\ handling'[q].at \notin Resets
  <2>1. Carries(q, "wait")
    BY <1>1 DEF MovedTo, Carries
  <2> QED
    BY <1>2, <1>11, <1>12, <2>1, CarriesTrue
<1> QED
  BY <1>1, <1>2, <1>5, <1>10, <1>11, <1>12, <1>13, StillTrue

\* The receipt is awaited.
LEMMA WaitKeeps ==
  ASSUME TruthInv, NEW q \in Slots, waitForReceipt(q)
  PROVE  TruthInv'
<1>1. /\ OnlySlot(q) /\ DemoTyped'
      /\ \/ receiptOf(handling[q].hash) = "success" /\ Same /\ MovedTo(q, "confirm")
         \/ Caught(q)
  BY WaitIs DEF TruthInv
<1>2. /\ demoChain' = demoChain /\ deployed' = deployed /\ handling[q].at = "wait"
      /\ handling[q].at \in Executing /\ "confirm" \in Executing
  BY DEF waitForReceipt, Executing
<1>3. DemoGrows /\ ChainEpochs' /\ (demoFile.epoch = demoChain.epoch => JourneyOrder')
  BY <1>2, StayOrder
<1>4. CASE Caught(q)
  BY <1>1, <1>2, <1>3, <1>4, CaughtKeeps
<1>5. CASE receiptOf(handling[q].hash) = "success" /\ Same /\ MovedTo(q, "confirm")
  <2>1. PICK n : n = handling[q].hash
    OBVIOUS
  <2>2. PICK s : s = handling[q].step
    OBVIOUS
  <2>3. WorkTrue(handling[q])
    BY SlotParts DEF TruthInv
  <2>4. n \in DOMAIN demoChain.sent /\ demoChain.sent[n].step = s
    BY <1>2, <2>1, <2>2, <2>3 DEF WorkTrue
  <2>5. demoChain.sent[n].ok /\ demoChain.sent[n].epoch = demoChain.epoch
    BY <1>5, <2>1 DEF receiptOf
  <2>6. landed(s)
    BY <2>4, <2>5 DEF landed, landings
  <2>7. landed(s)'
    BY <1>3, <2>6, LandedStays
  <2>8. WorkTrue(handling[q])'
    BY <1>2, <1>5, <2>1, <2>2, <2>4, <2>7 DEF WorkTrue, MovedTo
  <2>9. Carries(q, "confirm") /\ demoFile' = demoFile
    BY <1>5 DEF MovedTo, Carries, Same
  <2> QED
    BY <1>1, <1>2, <1>3, <2>8, <2>9, CarryKeeps
<1> QED
  BY <1>1, <1>4, <1>5

\* The action is confirmed, and it happened.
LEMMA ConfirmKeeps ==
  ASSUME TruthInv, NEW q \in Slots, confirmAction(q)
  PROVE  TruthInv'
<1>1. /\ OnlySlot(q) /\ DemoTyped'
      /\ \/ /\ handling'[q] = Idle
            /\ SameBut(demoFile, demoFile', handling[q].step)
            /\ \E n \in {handling[q].hash, demoFile.hash[handling[q].step]} :
                 Updated(demoFile, demoFile', handling[q].step, "confirmed", n)
         \/ Caught(q)
  BY ConfirmIs DEF TruthInv
<1>2. /\ demoChain' = demoChain /\ deployed' = deployed /\ handling[q].at = "confirm"
      /\ handling[q].at \in Executing
  BY DEF confirmAction, Executing
<1>3. DemoGrows /\ ChainEpochs' /\ (demoFile.epoch = demoChain.epoch => JourneyOrder')
  BY <1>2, StayOrder
<1>4. CASE Caught(q)
  BY <1>1, <1>2, <1>3, <1>4, CaughtKeeps
<1>5. CASE ~Caught(q)
  <2>1. PICK s \in Steps : s = handling[q].step
    BY <1>2, StepIs DEF TruthInv
  <2>2. PICK f : f = demoFile
    OBVIOUS
  <2>3. PICK g : g = demoFile'
    OBVIOUS
  <2>4. PICK n \in {handling[q].hash, f.hash[s]} : Updated(f, g, s, "confirmed", n)
    BY <1>1, <1>5, <2>1, <2>2, <2>3
  <2>5. SameBut(f, g, s) /\ HashesOf(f) /\ TrueRun(f) /\ handling'[q] = Idle
    BY <1>1, <1>5, <2>1, <2>2, <2>3 DEF TruthInv, FileTrue
  <2>6. WorkTrue(handling[q])
    BY SlotParts DEF TruthInv
  <2>7. stepKind(s) = "signature" \/ landed(s)
    BY <1>2, <2>1, <2>6 DEF WorkTrue
  <2>8. g.hash[s] # 0 => g.hash[s] \in DOMAIN demoChain.sent /\ demoChain.sent[g.hash[s]].step = s
    <3>1. g.hash[s] \in {handling[q].hash, f.hash[s]}
      BY <2>4 DEF Updated
    <3> QED
      BY <1>2, <2>1, <2>5, <2>6, <3>1 DEF WorkTrue, HashesOf
  <2>9. HashesOf(g) /\ TrueRun(g)
    BY <2>5, <2>7, <2>8, RecordTrue
  <2>10. HashesOf(g)' /\ TrueRun(g)'
    BY <1>3, <2>9, TruthStays
  <2>11. demoFile'.epoch = demoFile.epoch /\ demoFile'.deployment = demoFile.deployment
    BY <2>2, <2>3, <2>5 DEF SameBut
  <2>12. LoadTrue(handling[q])' /\ WorkTrue(handling[q])' /\ handling'[q].at \notin Resets
    BY <2>5, IdleTrue
  <2> QED
    BY <1>1, <1>2, <2>3, <2>10, <2>11, <2>12, StillTrue
<1> QED
  BY <1>4, <1>5

\* The retained transaction decides.
LEMMA ObserveKeeps ==
  ASSUME TruthInv, NEW q \in Slots, observeRetained(q)
  PROVE  TruthInv'
<1>1. /\ OnlySlot(q) /\ DemoTyped' /\ handling'[q] = Idle
      /\ demoFile' = demoFile \/ Decided(handling[q].seen, demoFile')
  BY ObserveIs DEF TruthInv
<1>2. demoChain' = demoChain /\ deployed' = deployed /\ DemoGrows /\ handling[q].at = "observe"
  BY DEF observeRetained, DemoGrows
<1>3. LoadTrue(handling[q])' /\ WorkTrue(handling[q])' /\ handling'[q].at \notin Resets
  BY <1>1, IdleTrue
<1>4. CASE demoFile' = demoFile
  <2>1. HashesOf(demoFile)' /\ TrueRun(demoFile)'
    BY <1>2, <1>4, FileStays
  <2> QED
    BY <1>1, <1>2, <1>3, <1>4, <2>1, StillTrue
<1>5. CASE Decided(handling[q].seen, demoFile')
  <2>1. PICK f : f = handling[q].seen
    OBVIOUS
  <2>2. PICK g : g = demoFile'
    OBVIOUS
  <2>3. /\ f.deployment = demoFile.deployment /\ f.epoch = demoFile.epoch
        /\ HashesOf(f) /\ TrueRun(f)
    BY <1>2, <2>1, SlotParts DEF TruthInv, LoadTrue, Loaded, Executing
  <2>4. HashesOf(g) /\ TrueRun(g) /\ g.epoch = f.epoch /\ g.deployment = f.deployment
    BY <1>5, <2>1, <2>2, <2>3, DecidedTrue
  <2>5. HashesOf(g)' /\ TrueRun(g)'
    BY <1>2, <2>4, TruthStays
  <2> QED
    BY <1>1, <1>2, <1>3, <2>2, <2>3, <2>4, <2>5, StillTrue
<1> QED
  BY <1>1, <1>4, <1>5

\* In a new life of the chain nothing has happened yet.
LEMMA NewLife ==
  ASSUME DemoTyped, ChainEpochs,
         demoChain'.epoch = demoChain.epoch + 1, demoChain'.sent = demoChain.sent
  PROVE  ChainEpochs' /\ \A s \in Steps : ~landed(s)'
<1>1. demoChain.epoch \in Nat /\ \A i \in DOMAIN demoChain.sent : demoChain.sent[i].epoch \in Nat
  <2>1. PICK Txs : Txs = [step : Steps, ok : BOOLEAN, epoch : Nat]
    OBVIOUS
  <2>2. PICK old \in Seq(Txs) : old = demoChain.sent
    BY <2>1 DEF DemoTyped, DemoTypes
  <2>3. \A i \in DOMAIN old : old[i] \in Txs
    OBVIOUS
  <2>4. \A t \in Txs : t.epoch \in Nat
    BY <2>1
  <2> QED
    BY <2>2, <2>3, <2>4 DEF DemoTyped, DemoTypes
<1>2. \A i \in DOMAIN demoChain.sent :
        /\ demoChain.sent[i].epoch <= demoChain'.epoch
        /\ demoChain.sent[i].epoch # demoChain'.epoch
  BY <1>1 DEF ChainEpochs
<1> QED
  BY <1>2 DEF ChainEpochs, landed, landings

\* A step in which nothing happened yet and every request but one is over.
LEMMA QuietTrue ==
  ASSUME DemoTyped', ChainEpochs', HashesOf(demoFile)', \A s \in Steps : ~landed(s)',
         TrueRun(demoFile)', demoFile'.epoch <= demoChain'.epoch, NEW q, handling'[q].at \in Resets \cup {"free"},
         handling'[q].at \in Resets => Blank(handling[q].seen)',
         \A r \in Slots : r # q => handling'[r].at = "free"
  PROVE  TruthInv'
<1>1. FileTrue' /\ Unwritten'
  BY StepsAre DEF FileTrue, JourneyOrder, Unwritten
<1>2. ASSUME NEW r \in Slots
      PROVE  SlotTrue(r)'
  <2>1. Alone(r)'
    BY DEF Alone, Resets
  <2>2. handling'[r].at \in Resets \cup {"free"}
    OBVIOUS
  <2>3. LoadTrue(handling[r])' /\ WorkTrue(handling[r])'
    BY <2>2 DEF LoadTrue, WorkTrue, Resets, Loaded, Executing
  <2> QED
    BY <2>1, <2>3, SlotPartsNext
<1> QED
  BY <1>1, <1>2 DEF TruthInv

\* The requests are over, but for a reset that begins or ends.
LEMMA OverTrue ==
  ASSUME TruthInv, DemoTyped', SameLife, demoChain' = demoChain, demoFile' = demoFile,
         \A r \in Slots : handling'[r].at \in {"free", "revert"},
         \A r \in Slots : handling'[r].at = "revert" => Blank(handling[r].seen)',
         \A r, t \in Slots : handling'[r].at = "revert" /\ t # r => handling'[t].at = "free"
  PROVE  TruthInv'
<1>1. HashesOf(demoFile)' /\ TrueRun(demoFile)'
  BY FileStays DEF SameLife
<1>2. ChainEpochs' /\ (demoFile.epoch = demoChain.epoch => JourneyOrder')
  BY StayOrder
<1>3. FileTrue'
  BY <1>1, <1>2 DEF FileTrue, TruthInv
<1>4. Unwritten'
  <2>1. \A s \in Steps : landed(s)' <=> landed(s)
    BY DEF landed, landings
  <2> QED
    BY <2>1 DEF TruthInv, Unwritten, SameLife
<1>5. ASSUME NEW r \in Slots
      PROVE  SlotTrue(r)'
  <2>1. Alone(r)'
    BY DEF Alone, Resets
  <2>2. LoadTrue(handling[r])' /\ WorkTrue(handling[r])'
    BY DEF LoadTrue, WorkTrue, Loaded, Executing
  <2> QED
    BY <2>1, <2>2, SlotPartsNext
<1> QED
  BY <1>2, <1>3, <1>4, <1>5 DEF TruthInv

\* The runs of earlier lives are not of a new one.
LEMMA PastLife ==
  ASSUME TruthInv, demoChain'.epoch = demoChain.epoch + 1
  PROVE  demoFile.epoch # demoChain'.epoch /\ demoFile.epoch <= demoChain'.epoch
<1>1. demoFile.epoch \in Nat /\ demoChain.epoch \in Nat /\ demoFile.epoch <= demoChain.epoch
  BY DEF TruthInv, FileTrue, DemoTyped, DemoTypes, Runs
<1> QED
  BY <1>1

\* A reset begins.
LEMMA ResetKeeps ==
  ASSUME TruthInv, NEW q \in Slots, resetLivingDemoRun(q), \A r \in Slots : Alone(r)'
  PROVE  TruthInv'
<1>1. OnlySlot(q) /\ DemoTyped' /\ handling'[q].at = "revert" /\ handling'[q].seen = freshRun
  BY ResetIs DEF TruthInv
<1>2. demoChain' = demoChain /\ demoFile' = demoFile /\ deployed' = deployed
  BY DEF resetLivingDemoRun
<1>3. SameLife
  BY <1>2 DEF SameLife, DemoGrows
<1>4. handling'[q].at = "revert" /\ \A r \in Slots : r # q => handling'[r].at = "free"
  BY <1>1 DEF Alone, Resets
<1>5. Blank(handling[q].seen)'
  BY <1>1, <1>2, FreshIs DEF Blank, TruthInv, DemoTyped
<1> QED
  BY <1>1, <1>2, <1>3, <1>4, <1>5, OverTrue

\* The chain is reverted.
LEMMA RevertKeeps ==
  ASSUME TruthInv, NEW q \in Slots, revertChain(q)
  PROVE  TruthInv'
<1>1. /\ OnlySlot(q) /\ DemoTyped' /\ deployed'.id = deployed.id
      /\ \/ /\ demoChain'.epoch = demoChain.epoch + 1 /\ demoChain'.sent = demoChain.sent
            /\ MovedTo(q, "snapshot")
         \/ demoChain' = demoChain /\ handling'[q] = Idle
  BY RevertIs DEF TruthInv
<1>2. demoFile' = demoFile /\ handling[q].at = "revert"
  BY DEF revertChain
<1>3. \A r \in Slots : r # q => handling'[r].at = "free"
  BY <1>1, <1>2, SlotParts DEF TruthInv, Alone, Resets, OnlySlot
<1>4. CASE demoChain' = demoChain /\ handling'[q] = Idle
  <2>1. SameLife
    BY <1>1, <1>2, <1>4 DEF SameLife, DemoGrows
  <2>2. handling'[q].at = "free"
    BY <1>4 DEF Idle
  <2> QED
    BY <1>1, <1>2, <1>3, <1>4, <2>1, <2>2, OverTrue
<1>5. CASE /\ demoChain'.epoch = demoChain.epoch + 1 /\ demoChain'.sent = demoChain.sent
           /\ MovedTo(q, "snapshot")
  <2>1. ChainEpochs' /\ \A s \in Steps : ~landed(s)'
    BY <1>5, NewLife DEF TruthInv
  <2>2. HashesOf(demoFile)'
    BY <1>2, <1>5 DEF TruthInv, FileTrue, HashesOf
  <2>3. demoFile.epoch # demoChain'.epoch /\ demoFile'.epoch <= demoChain'.epoch
    BY <1>2, <1>5, PastLife DEF TruthInv, FileTrue
  <2>4. TrueRun(demoFile)'
    BY <1>2, <2>3 DEF TrueRun
  <2>5. handling'[q].at = "snapshot" /\ Blank(handling[q].seen)'
    BY <1>1, <1>2, <1>5 DEF MovedTo, TruthInv, SlotTrue, Blank
  <2> QED
    BY <1>1, <1>3, <2>1, <2>2, <2>3, <2>4, <2>5, QuietTrue DEF Resets
<1> QED
  BY <1>1, <1>4, <1>5

\* A snapshot is taken of the chain in which nothing happened yet.
LEMMA SnapshotKeeps ==
  ASSUME TruthInv, NEW q \in Slots, saveSnapshot(q)
  PROVE  TruthInv'
<1>1. OnlySlot(q) /\ DemoTyped' /\ MovedTo(q, "reinitialize")
  BY SnapshotIs DEF TruthInv
<1>2. demoChain' = demoChain /\ demoFile' = demoFile /\ DemoGrows /\ handling[q].at = "snapshot"
  BY DEF saveSnapshot, DemoGrows
<1>3. handling'[q].at = "reinitialize" /\ \A r \in Slots : r # q => handling'[r].at = "free"
  BY <1>1, <1>2, SlotParts DEF TruthInv, Alone, Resets, OnlySlot, MovedTo
<1>4. \A s \in Steps : ~landed(s)'
  BY <1>2 DEF TruthInv, Unwritten, landed, landings
<1>5. HashesOf(demoFile)' /\ TrueRun(demoFile)'
  BY <1>2, FileStays
<1>6. ChainEpochs' /\ demoFile'.epoch <= demoChain'.epoch
  BY <1>2 DEF TruthInv, ChainEpochs, FileTrue
<1>7. Blank(handling[q].seen)'
  BY <1>1, <1>2, SnapshotIs DEF MovedTo, TruthInv, SlotTrue, Blank
<1> QED
  BY <1>1, <1>3, <1>4, <1>5, <1>6, <1>7, QuietTrue DEF Resets

\* The run of the reverted chain is written.
LEMMA ReinitializeKeeps ==
  ASSUME TruthInv, NEW q \in Slots, reinitialize(q)
  PROVE  TruthInv'
<1>1. OnlySlot(q) /\ DemoTyped' /\ handling'[q] = Idle
  BY ReinitializeIs DEF TruthInv
<1>2. demoChain' = demoChain /\ demoFile' = startedRun(q) /\ handling[q].at = "reinitialize"
  BY DEF reinitialize
<1>3. handling'[q].at = "free" /\ \A r \in Slots : r # q => handling'[r].at = "free"
  BY <1>1, <1>2, SlotParts DEF TruthInv, Alone, Resets, OnlySlot, Idle
<1>4. \A s \in Steps : ~landed(s)'
  BY <1>2 DEF TruthInv, Unwritten, landed, landings
<1>5. /\ demoFile'.epoch = demoChain.epoch /\ demoChain.epoch \in Nat
      /\ \A s \in Steps : demoFile'.status[s] = "none" /\ demoFile'.hash[s] = 0
  <2>1. Blank(handling[q].seen)
    BY <1>2 DEF TruthInv, SlotTrue
  <2> QED
    BY <1>2, <2>1, StartedIs DEF TruthInv, DemoTyped, DemoTypes, Blank
<1>6. HashesOf(demoFile)' /\ TrueRun(demoFile)'
  BY <1>5 DEF HashesOf, TrueRun
<1>7. ChainEpochs' /\ demoFile'.epoch <= demoChain'.epoch
  BY <1>2, <1>5 DEF TruthInv, ChainEpochs
<1> QED
  BY <1>1, <1>3, <1>4, <1>6, <1>7, QuietTrue DEF Resets

\* A new chain and a new deployment.
LEMMA LocalnetKeeps ==
  ASSUME TruthInv, localnet, resting
  PROVE  TruthInv'
<1>1. /\ DemoTyped' /\ demoChain'.epoch = demoChain.epoch + 1 /\ demoChain'.sent = demoChain.sent
  BY LocalnetIs DEF TruthInv
<1>2. demoFile' = demoFile /\ \A r \in Slots : handling'[r].at = "free"
  BY DEF localnet, resting
<1>3. ChainEpochs' /\ \A s \in Steps : ~landed(s)'
  BY <1>1, NewLife DEF TruthInv
<1>4. HashesOf(demoFile)'
  BY <1>1, <1>2 DEF TruthInv, FileTrue, HashesOf
<1>5. demoFile.epoch # demoChain'.epoch /\ demoFile'.epoch <= demoChain'.epoch
  BY <1>1, <1>2, PastLife DEF TruthInv, FileTrue
<1>6. TrueRun(demoFile)'
  BY <1>2, <1>5 DEF TrueRun
<1>7. FileTrue' /\ Unwritten'
  BY <1>3, <1>4, <1>5, <1>6, StepsAre DEF FileTrue, JourneyOrder, Unwritten
<1>8. \A r \in Slots : SlotTrue(r)'
  <2>1. ASSUME NEW r \in Slots
        PROVE  SlotTrue(r)'
    <3>1. Alone(r)' /\ LoadTrue(handling[r])' /\ WorkTrue(handling[r])'
      BY <1>2 DEF Alone, LoadTrue, WorkTrue, Resets, Loaded, Executing
    <3> QED
      BY <3>1, SlotPartsNext
  <2> QED
    BY <2>1
<1> QED
  BY <1>1, <1>3, <1>7, <1>8 DEF TruthInv

\* The server dies.
LEMMA DeathKeeps ==
  ASSUME TruthInv, serverDies
  PROVE  TruthInv'
<1>1. DemoTyped' /\ \A q \in Slots : handling'[q] = Idle
  BY DeathFrees DEF TruthInv
<1>2. \A q \in Slots : handling'[q].at = "free"
  BY <1>1 DEF Idle
<1>3. demoChain' = demoChain /\ demoFile' = demoFile /\ SameLife
  BY DEF serverDies, SameLife, DemoGrows
<1> QED
  BY <1>1, <1>2, <1>3, OverTrue

\* The truth holds before the first request.
LEMMA TruthInit ==
  ASSUME DemoInit
  PROVE  TruthInv
<1>1. PICK d \in {0, 1} :
      /\ demoChain = [epoch |-> 0, sent |-> << >>] /\ deployed = [id |-> 1, snapshot |-> TRUE]
      /\ demoFile = [epoch |-> 0, deployment |-> d, conflict |-> FALSE,
                     status |-> [s \in Steps |-> "none"], hash |-> [s \in Steps |-> 0]]
      /\ activeAction = NoStep /\ handling = [q \in Slots |-> Free]
      /\ tally = [actions |-> 0, faults |-> 0, deaths |-> 0, lives |-> 0]
  BY DEF DemoInit
<1>2. demoFile \in Runs /\ \A s \in Steps : demoFile.status[s] = "none" /\ demoFile.hash[s] = 0
  <2>1. [s \in Steps |-> "none"] \in [Steps -> {"none", "pending", "confirmed", "failed"}]
    OBVIOUS
  <2>2. [s \in Steps |-> 0] \in [Steps -> Nat]
    OBVIOUS
  <2> QED
    BY <1>1, <2>1, <2>2 DEF Runs
<1>3. Free \in Requests /\ Free.at = "free"
  BY <1>2 DEF Free, Requests, Ats
<1>4. handling \in [Slots -> Requests] /\ \A q \in Slots : handling[q].at = "free"
  BY <1>1, <1>3
<1>5. demoChain \in [epoch : Nat, sent : Seq([step : Steps, ok : BOOLEAN, epoch : Nat])]
  BY <1>1
<1>6. DemoTypes
  BY <1>1, <1>2, <1>4, <1>5 DEF DemoTypes
<1>7. StepsKnown
  BY <1>4 DEF StepsKnown, Known, Executing
<1>8. demoChain.epoch = 0 /\ demoChain.sent = << >> /\ demoFile.epoch = 0
  BY <1>1
<1>9. DOMAIN demoChain.sent = {}
  BY <1>8
<1>10. \A s : ~landed(s)
  BY <1>9 DEF landed, landings
<1>11. ChainEpochs /\ FileTrue /\ Unwritten
  BY <1>2, <1>8, <1>9, <1>10 DEF ChainEpochs, FileTrue, Unwritten, HashesOf, TrueRun, JourneyOrder
<1>12. \A q \in Slots : SlotTrue(q)
  BY <1>4 DEF SlotTrue, Loaded, Executing
<1> QED
  BY <1>6, <1>7, <1>11, <1>12 DEF TruthInv, DemoTyped

\* Without a reset among other requests, each has the server to itself.
LEMMA ResetAlone ==
  ASSUME DemoNext, "reset" \notin overlaps'
  PROVE  /\ "reset" \notin overlaps /\ \A r \in Slots : Alone(r)'
         /\ resting \/ deployed'.id = deployed.id
<1>1. overlaps' = overlaps \cup overlapping' \cup {k \in {"reset"} : redeployed}
  BY DEF DemoNext
<1>2. "reset" \notin overlaps /\ "reset" \notin overlapping' /\ ~redeployed
  BY <1>1
<1>3. "reset" \in DOMAIN Replacing /\ Replacing["reset"] = Resets
  BY DEF Replacing, Resets
<1>4. \A q, r \in Slots : ~(q # r /\ handling'[q].at \in Replacing["reset"] /\ handling'[r].at # "free")
  BY <1>2, <1>3 DEF overlapping, Replacing
<1>5. \A r \in Slots : Alone(r)'
  BY <1>3, <1>4 DEF Alone
<1> QED
  BY <1>2, <1>5 DEF redeployed

\* Every step keeps the truth, if no reset overlaps another request.
LEMMA TruthNext ==
  ASSUME TruthInv, DemoNext, "reset" \notin overlaps'
  PROVE  TruthInv'
<1>a. \A r \in Slots : Alone(r)'
  BY ResetAlone
<1>1. ASSUME NEW q \in Slots, getLivingDemoRun(q)
      PROVE  TruthInv'
  <2>1. OnlySlot(q) /\ Loads(q, NoStep) /\ DemoTyped'
    BY <1>1, GetIs DEF TruthInv
  <2>2. demoChain' = demoChain /\ deployed' = deployed
    BY <1>1 DEF getLivingDemoRun
  <2> QED
    BY <1>a, <2>1, <2>2, LoadKeeps
<1>2. ASSUME NEW q \in Slots, executeLivingDemoAction(q)
      PROVE  TruthInv'
  <2>1. OnlySlot(q) /\ DemoTyped'
    BY <1>2, ExecuteIs DEF TruthInv
  <2>2. PICK s \in Steps : Loads(q, s)
    BY <1>2, ExecuteIs DEF TruthInv
  <2>3. demoChain' = demoChain /\ deployed' = deployed
    BY <1>2 DEF executeLivingDemoAction
  <2> QED
    BY <1>a, <2>1, <2>2, <2>3, LoadKeeps
<1>3. CASE localnet
  <2>1. deployed'.id # deployed.id
    BY <1>3, LocalnetIs DEF TruthInv, DemoTyped, DemoTypes
  <2>2. resting
    BY <2>1, ResetAlone
  <2> QED
    BY <1>3, <2>2, LocalnetKeeps
<1>4. CASE serverDies
  BY <1>4, DeathKeeps
<1>5. ASSUME NEW q \in Slots, resetLivingDemoRun(q)
      PROVE  TruthInv'
  BY <1>5, <1>a, ResetKeeps
<1> QED
  BY <1>1, <1>2, <1>3, <1>4, <1>5, InitializeKeeps, ReconcileKeeps, BeforeKeeps, RunKeeps, SendTrue, BroadcastTrue,
     WaitKeeps, ConfirmKeeps, ObserveKeeps, RevertKeeps, SnapshotKeeps, ReinitializeKeeps DEF DemoNext, DemoStep

\* A run of the chain's present life tells the truth about it: what it
\* calls confirmed took effect, and nothing takes effect before the steps
\* that come first, whatever fails or dies, unless a reset or a
\* redeployment ran while another request was being served.
THEOREM ConfirmedStaysOnChain == DemoSpec => []ConfirmedIsOnChain
<1>1. DemoInit => ("reset" \notin overlaps => TruthInv)
  BY TruthInit
<1>2. ("reset" \notin overlaps => TruthInv) /\ [DemoNext]_demoVars => ("reset" \notin overlaps => TruthInv)'
  <2>1. CASE DemoNext
    <3>1. "reset" \notin overlaps' => "reset" \notin overlaps
      BY <2>1, ResetAlone
    <3> QED
      BY <2>1, <3>1, TruthNext
  <2>2. CASE UNCHANGED demoVars
    BY <2>2 DEF demoVars, TruthInv, DemoTyped, DemoTypes, StepsKnown, Known, ChainEpochs, FileTrue, HashesOf,
                TrueRun, JourneyOrder, Unwritten, SlotTrue, Earlier, landed, landings, Blank
  <2> QED
    BY <2>1, <2>2
<1>3. ("reset" \notin overlaps => TruthInv) => ConfirmedIsOnChain
  BY DEF TruthInv, FileTrue, TrueRun, JourneyOrder, ConfirmedIsOnChain
<1> QED
  BY <1>1, <1>2, <1>3, PTL DEF DemoSpec

-----------------------------------------------------------------------------
\* Nothing happens twice unless something was lost.

\* What landed is confirmed or about to be.
Settling ==
  \A s \in Steps : landed(s) =>
    \/ demoFile.status[s] = "confirmed"
    \/ \E q \in Slots : handling[q].step = s /\ handling[q].at \in {"broadcast", "wait", "confirm"}

Once == \A s \in Steps : \A i, j \in landings(s) : i = j

PendingIsActive == \A s \in Steps : demoFile.status[s] = "pending" => activeAction = s

\* The only request under way in slot q, or none.
OnlyAt(q) == \A r \in Slots : r # q => handling[r].at = "free"

\* A step of the only request under way.
LEMMA CalmStep ==
  ASSUME NEW q \in Slots, OnlySlot(q), OnlyAt(q), deployed' = deployed, demoFile.deployment = deployed.id,
         demoFile'.deployment = demoFile.deployment,
         SlotCalm(q)', PendingIsActive', Settling', Once'
  PROVE  CalmRun'
<1>1. \A r \in Slots : r # q => handling'[r].at = "free"
  BY DEF OnlyAt, OnlySlot
<1>2. \A r \in Slots : SlotCalm(r)'
  <2>1. ASSUME NEW r \in Slots, r # q
        PROVE  SlotCalm(r)'
    BY <1>1, <2>1 DEF SlotCalm
  <2> QED
    BY <2>1
<1> QED
  BY <1>1, <1>2 DEF CalmRun, PendingIsActive, Settling, Once

\* An execution that is under way is the only one.
LEMMA CalmSlot ==
  ASSUME DemoTyped, CalmRun, NEW q \in Slots, handling[q].at # "free"
  PROVE  /\ OnlyAt(q) /\ SlotCalm(q) /\ handling[q].step \in Steps /\ activeAction = handling[q].step
         /\ handling[q].at \in Executing \ {"observe"}
         /\ demoFile.status[handling[q].step] # "confirmed"
         /\ landed(handling[q].step) => handling[q].at \in {"broadcast", "wait", "confirm"}
<1>1. OnlyAt(q) /\ SlotCalm(q)
  BY DEF CalmRun, OnlyAt
<1>2. handling[q].at \in Executing \ {"observe"} /\ activeAction = handling[q].step
  BY <1>1 DEF SlotCalm
<1>3. handling[q].step \in Steps
  BY <1>2, StepIs
<1>4. demoFile.status[handling[q].step] # "confirmed"
  BY <1>1, <1>2 DEF SlotCalm, Executing
<1>5. landed(handling[q].step) => handling[q].at \in {"broadcast", "wait", "confirm"}
  <2>1. SUFFICES ASSUME landed(handling[q].step)
                 PROVE  handling[q].at \in {"broadcast", "wait", "confirm"}
    OBVIOUS
  <2>2. PICK r \in Slots : handling[r].at \in {"broadcast", "wait", "confirm"}
    BY <1>3, <1>4, <2>1 DEF CalmRun
  <2>3. r = q
    BY <1>1, <2>2 DEF OnlyAt
  <2> QED
    BY <2>2, <2>3
<1> QED
  BY <1>1, <1>2, <1>3, <1>4, <1>5

\* A chain that did not move.
LEMMA StillOnce ==
  ASSUME CalmRun, demoChain' = demoChain
  PROVE  Once' /\ \A s \in Steps : landed(s)' <=> landed(s)
  BY DEF CalmRun, Once, landed, landings

\* A step that had not landed lands once.
LEMMA MinedOnce ==
  ASSUME DemoTyped, CalmRun, NEW s \in Steps, ~landed(s), demoChain' = mined(s)
  PROVE  /\ Once' /\ \A t \in Steps : landed(t)' => t = s \/ landed(t)
         /\ Len(demoChain.sent) + 1 \in DOMAIN demoChain'.sent
         /\ demoChain'.sent[Len(demoChain.sent) + 1].ok
<1>1. DemoGrows /\ MinedAt(Len(demoChain.sent) + 1, s)
  BY MinedIs DEF DemoTyped
<1>2. PICK k : k = Len(demoChain.sent) + 1
  OBVIOUS
<1>3. MinedAt(k, s)
  BY <1>1, <1>2
<1>4. \A t \in Steps : landed(t)' => t = s \/ landed(t)
  BY <1>1, <1>3, MinedOnly
<1>5. k \in DOMAIN demoChain'.sent /\ demoChain'.sent[k].ok
  <2>1. PICK okay \in BOOLEAN : okay = (~onceOnly(s) \/ ~landed(s))
    OBVIOUS
  <2>2. okay
    BY <2>1
  <2>3. k \in DOMAIN demoChain'.sent /\ demoChain'.sent[k] = [step |-> s, ok |-> okay, epoch |-> demoChain.epoch]
    BY <1>3, <2>1 DEF MinedAt
  <2> QED
    BY <2>2, <2>3
<1>6. Once'
  <2>1. SUFFICES ASSUME NEW t \in Steps, NEW i \in landings(t)', NEW j \in landings(t)'
                 PROVE  i = j
    BY DEF Once
  <2>2. \A n \in landings(t)' : n # k => n \in landings(t)
    BY <1>1, <1>3 DEF landings, MinedAt, DemoGrows
  <2>3. k \in landings(t)' => t = s
    BY <1>3 DEF landings, MinedAt
  <2>4. landings(s) = {}
    BY DEF landed
  <2>5. CASE t = s
    BY <2>1, <2>2, <2>4, <2>5
  <2>6. CASE t # s
    <3>1. i \in landings(t) /\ j \in landings(t)
      BY <2>1, <2>2, <2>3, <2>6
    <3> QED
      BY <3>1 DEF CalmRun
  <2> QED
    BY <2>5, <2>6
<1> QED
  BY <1>2, <1>4, <1>5, <1>6

\* Nothing is lost by a step that loses nothing.
LEMMA SameLoss ==
  ASSUME tally' = tally, Lossless'
  PROVE  Lossless
  BY DEF Lossless

\* Without a loss a load waits for nothing.
LEMMA CalmLoad ==
  ASSUME DemoTyped, CalmRun, NEW q \in Slots, NEW s, Loads(q, s)
  PROVE  /\ demoFile' = demoFile
         /\ Starts(q, s, demoFile) \/ (handling'[q] = Idle /\ activeAction' = activeAction)
<1>1. PICK p : p = pendingIn(demoFile)
  OBVIOUS
<1>2. p \in Steps /\ demoFile.status[p] = "pending" => activeAction = p
  BY DEF CalmRun
<1> QED
  BY <1>1, <1>2 DEF Loads, CalmRun

\* A request that ends where it began.
LEMMA CalmRead ==
  ASSUME DemoTyped, CalmRun, NEW q \in Slots, OnlySlot(q), handling[q].at = "free", handling'[q] = Idle,
         demoFile' = demoFile, activeAction' = activeAction, demoChain' = demoChain, deployed' = deployed
  PROVE  CalmRun'
<1>1. handling'[q].at = "free"
  BY DEF Idle
<1>2. ASSUME NEW r \in Slots
      PROVE  SlotCalm(r)'
  <2>1. CASE r = q
    BY <1>1, <2>1 DEF SlotCalm
  <2>2. CASE r # q
    <3>1. handling'[r] = handling[r] /\ SlotCalm(r)
      BY <2>2 DEF OnlySlot, CalmRun
    <3> QED
      BY <3>1 DEF SlotCalm
  <2> QED
    BY <2>1, <2>2
<1>3. \A r, t \in Slots : handling'[r].at # "free" /\ handling'[t].at # "free" => r = t
  <2>1. \A r \in Slots : handling'[r].at # "free" => handling[r].at # "free"
    BY <1>1 DEF OnlySlot
  <2> QED
    BY <2>1 DEF CalmRun
<1>4. Settling'
  <2>1. SUFFICES ASSUME NEW s \in Steps, landed(s)', demoFile.status[s] # "confirmed"
                 PROVE  \E r \in Slots :
                          handling'[r].step = s /\ handling'[r].at \in {"broadcast", "wait", "confirm"}
    BY DEF Settling
  <2>2. landed(s)
    BY <2>1, StillOnce
  <2>3. PICK r \in Slots : handling[r].step = s /\ handling[r].at \in {"broadcast", "wait", "confirm"}
    BY <2>1, <2>2 DEF CalmRun
  <2>4. handling'[r] = handling[r]
    BY <2>3 DEF OnlySlot
  <2> QED
    BY <2>3, <2>4
<1>5. Once'
  BY StillOnce
<1> QED
  BY <1>2, <1>3, <1>4, <1>5 DEF CalmRun, Settling, Once

\* A read without a loss.
LEMMA GetCalm ==
  ASSUME CalmInv, NEW q \in Slots, getLivingDemoRun(q), Lossless'
  PROVE  CalmRun'
<1>1. DemoTyped /\ CalmRun
  BY SameLoss DEF CalmInv, getLivingDemoRun
<1>2. OnlySlot(q) /\ Loads(q, NoStep)
  BY <1>1, GetIs
<1>3. demoFile' = demoFile /\ (Starts(q, NoStep, demoFile) \/ (handling'[q] = Idle /\ activeAction' = activeAction))
  BY <1>1, <1>2, CalmLoad
<1>4. handling'[q] = Idle /\ activeAction' = activeAction
  BY <1>3, StepsAre DEF Starts
<1> QED
  BY <1>1, <1>2, <1>3, <1>4, CalmRead DEF getLivingDemoRun

\* An execution is asked for without a loss.
LEMMA ExecuteCalm ==
  ASSUME CalmInv, NEW q \in Slots, executeLivingDemoAction(q), Lossless'
  PROVE  CalmRun'
<1>1. DemoTyped /\ CalmRun
  BY AskedIs DEF CalmInv, DemoTyped, executeLivingDemoAction
<1>2. OnlySlot(q)
  BY <1>1, ExecuteIs
<1>3. PICK s \in Steps : Loads(q, s)
  BY <1>1, ExecuteIs
<1>4. demoFile' = demoFile /\ (Starts(q, s, demoFile) \/ (handling'[q] = Idle /\ activeAction' = activeAction))
  BY <1>1, <1>3, CalmLoad
<1>5. /\ handling[q].at = "free" /\ demoChain' = demoChain /\ deployed' = deployed /\ activeAction = NoStep
  BY DEF executeLivingDemoAction, unlocked
<1>6. CASE handling'[q] = Idle /\ activeAction' = activeAction
  BY <1>1, <1>2, <1>4, <1>5, <1>6, CalmRead
<1>7. CASE Starts(q, s, demoFile)
  <2>1. \A r \in Slots : handling[r].at = "free"
    <3>1. SUFFICES ASSUME NEW r \in Slots, handling[r].at # "free"
                   PROVE  FALSE
      OBVIOUS
    <3>2. activeAction \in Steps
      BY <1>1, <3>1, CalmSlot
    <3> QED
      BY <1>5, <3>2, StepsAre
  <2>2. OnlyAt(q)
    BY <2>1 DEF OnlyAt
  <2>3. \A t \in Steps : demoFile.status[t] # "pending"
    BY <1>1, <1>5, StepsAre DEF CalmRun
  <2>4. PICK f \in Runs : f = demoFile
    BY <1>1 DEF DemoTyped, DemoTypes
  <2>5. f.status[s] # "confirmed"
    BY <1>7, <2>4, NextIs DEF Starts
  <2>6. /\ handling'[q].at = "before" /\ handling'[q].step = s /\ handling'[q].seen = demoFile /\ activeAction' = s
    BY <1>7 DEF Starts
  <2>7. SlotCalm(q)'
    BY <1>4, <2>4, <2>5, <2>6 DEF SlotCalm, Executing
  <2>8. PendingIsActive'
    BY <1>4, <2>3 DEF PendingIsActive
  <2>9. \A t \in Steps : landed(t) => demoFile.status[t] = "confirmed"
    BY <1>1, <2>1 DEF CalmRun
  <2>10. Settling' /\ Once'
    BY <1>1, <1>4, <1>5, <2>9, StillOnce DEF Settling
  <2> QED
    BY <1>1, <1>2, <1>4, <1>5, <2>2, <2>7, <2>8, <2>10, CalmStep DEF CalmRun
<1> QED
  BY <1>4, <1>6, <1>7

\* The attempt is recorded without a loss.
LEMMA BeforeCalm ==
  ASSUME CalmInv, NEW q \in Slots, observeBefore(q), Lossless'
  PROVE  CalmRun'
<1>1. /\ OnlySlot(q) /\ MovedTo(q, "run") /\ tally' = tally
      /\ SameBut(handling[q].seen, demoFile', handling[q].step)
      /\ demoFile'.status[handling[q].step] = "pending" /\ demoFile'.hash[handling[q].step] = 0
  BY BeforeIs DEF CalmInv
<1>2. DemoTyped /\ CalmRun
  BY <1>1, SameLoss DEF CalmInv
<1>3. /\ handling[q].at = "before" /\ demoChain' = demoChain /\ deployed' = deployed
      /\ activeAction' = activeAction
  BY DEF observeBefore
<1>4. /\ OnlyAt(q) /\ SlotCalm(q) /\ activeAction = handling[q].step
      /\ landed(handling[q].step) => handling[q].at \in {"broadcast", "wait", "confirm"}
  BY <1>2, <1>3, CalmSlot
<1>5. PICK s : s = handling[q].step
  OBVIOUS
<1>6. SameBut(demoFile, demoFile', s) /\ demoFile'.status[s] = "pending" /\ demoFile'.hash[s] = 0
  BY <1>1, <1>3, <1>4, <1>5 DEF SlotCalm
<1>7. SlotCalm(q)'
  BY <1>1, <1>3, <1>4, <1>5, <1>6 DEF SlotCalm, MovedTo, Executing
<1>8. PendingIsActive'
  BY <1>2, <1>3, <1>4, <1>5, <1>6 DEF PendingIsActive, CalmRun, SameBut
<1>9. Settling' /\ Once'
  <2>1. Once' /\ \A t \in Steps : landed(t)' <=> landed(t)
    BY <1>2, <1>3, StillOnce
  <2>2. ASSUME NEW t \in Steps, landed(t)
        PROVE  demoFile'.status[t] = "confirmed"
    <3>1. t # s
      BY <1>3, <1>4, <1>5, <2>2
    <3>2. demoFile.status[t] = "confirmed"
      BY <1>2, <1>3, <1>4, <2>2 DEF CalmRun, OnlyAt
    <3> QED
      BY <1>6, <3>1, <3>2 DEF SameBut
  <2> QED
    BY <2>1, <2>2 DEF Settling
<1> QED
  BY <1>1, <1>2, <1>3, <1>4, <1>6, <1>7, <1>8, <1>9, CalmStep DEF CalmRun, SameBut

\* The execution goes on while the file and the chain stay.
LEMMA CarryCalm ==
  ASSUME DemoTyped, CalmRun, NEW q \in Slots, handling[q].at # "free", OnlySlot(q),
         handling'[q].step = handling[q].step, SlotCalm(q)',
         handling[q].at \in {"broadcast", "wait", "confirm"} => handling'[q].at \in {"broadcast", "wait", "confirm"},
         demoChain' = demoChain, deployed' = deployed, activeAction' = activeAction,
         demoFile'.deployment = demoFile.deployment,
         \A t \in Steps : demoFile'.status[t] = demoFile.status[t]
  PROVE  CalmRun'
<1>1. OnlyAt(q)
  BY CalmSlot
<1>2. Once' /\ \A t \in Steps : landed(t)' <=> landed(t)
  BY StillOnce
<1>3. Settling'
  <2>1. SUFFICES ASSUME NEW t \in Steps, landed(t), demoFile.status[t] # "confirmed"
                 PROVE  \E r \in Slots :
                          handling'[r].step = t /\ handling'[r].at \in {"broadcast", "wait", "confirm"}
    BY <1>2 DEF Settling
  <2>2. PICK r \in Slots : handling[r].step = t /\ handling[r].at \in {"broadcast", "wait", "confirm"}
    BY <2>1 DEF CalmRun
  <2>3. r = q
    BY <1>1, <2>2 DEF OnlyAt
  <2> QED
    BY <2>2, <2>3
<1>4. PendingIsActive'
  BY DEF PendingIsActive, CalmRun
<1> QED
  BY <1>1, <1>2, <1>3, <1>4, CalmStep DEF CalmRun

\* The step lands.
LEMMA LandCalm ==
  ASSUME DemoTyped, CalmRun, NEW q \in Slots, handling[q].at \in {"run", "send"}, OnlySlot(q),
         handling'[q].step = handling[q].step, handling'[q].at \in {"broadcast", "confirm"},
         handling'[q].at = "broadcast" => handling'[q].hash = Len(demoChain.sent) + 1,
         demoChain' = mined(handling[q].step), deployed' = deployed, activeAction' = activeAction,
         demoFile' = demoFile
  PROVE  CalmRun'
<1>1. /\ OnlyAt(q) /\ SlotCalm(q) /\ handling[q].step \in Steps /\ activeAction = handling[q].step
      /\ ~landed(handling[q].step)
  BY CalmSlot
<1>2. PICK s \in Steps : s = handling[q].step
  BY <1>1
<1>3. /\ Once' /\ \A t \in Steps : landed(t)' => t = s \/ landed(t)
      /\ Len(demoChain.sent) + 1 \in DOMAIN demoChain'.sent
      /\ demoChain'.sent[Len(demoChain.sent) + 1].ok
  BY <1>1, <1>2, MinedOnce
<1>4. SlotCalm(q)'
  <2>1. /\ demoFile'.status[s] = "pending" /\ activeAction' = s /\ handling'[q].step = s
    BY <1>1, <1>2 DEF SlotCalm
  <2> QED
    BY <1>3, <2>1 DEF SlotCalm, Executing
<1>5. Settling'
  <2>1. SUFFICES ASSUME NEW t \in Steps, landed(t)', t # s
                 PROVE  demoFile'.status[t] = "confirmed"
    BY <1>2 DEF Settling
  <2>2. landed(t)
    BY <1>3, <2>1
  <2> QED
    BY <1>1, <2>2 DEF CalmRun, OnlyAt
<1>6. PendingIsActive'
  BY DEF PendingIsActive, CalmRun
<1> QED
  BY <1>1, <1>3, <1>4, <1>5, <1>6, CalmStep DEF CalmRun

\* The catch block of a step that was refused.
LEMMA CaughtCalm ==
  ASSUME DemoTyped, CalmRun, NEW q \in Slots, handling[q].at = "run", OnlySlot(q), Caught(q),
         demoChain' = demoChain, deployed' = deployed
  PROVE  CalmRun'
<1>1. /\ OnlyAt(q) /\ SlotCalm(q) /\ handling[q].step \in Steps /\ activeAction = handling[q].step
      /\ ~landed(handling[q].step)
  BY CalmSlot
<1>2. PICK s \in Steps : s = handling[q].step
  BY <1>1
<1>3. demoFile.hash[s] = 0 /\ demoFile.status[s] = "pending"
  BY <1>1, <1>2 DEF SlotCalm
<1>4. /\ demoFile' = updateAction(demoFile, s, "failed", 0)
      /\ activeAction' = NoStep /\ handling'[q] = Idle
  BY <1>2, <1>3 DEF Caught
<1>5. PICK f \in Runs : f = demoFile
  BY DEF DemoTyped, DemoTypes
<1>6. PICK g : g = demoFile'
  OBVIOUS
<1>7. PICK word \in {"none", "pending", "confirmed", "failed"} : word = "failed"
  OBVIOUS
<1>8. PICK n \in Nat : n = 0
  OBVIOUS
<1>9. g = updateAction(f, s, word, n)
  BY <1>4, <1>5, <1>6, <1>7, <1>8
<1>10. SameBut(f, g, s) /\ Updated(f, g, s, word, n)
  BY <1>9, UpdateIs
<1>11. g.status[s] = "failed" /\ g.deployment = f.deployment /\ \A t \in Steps : t # s => g.status[t] = f.status[t]
  BY <1>3, <1>5, <1>7, <1>10 DEF Updated, SameBut
<1>12. SlotCalm(q)'
  BY <1>4 DEF SlotCalm, Idle
<1>13. PendingIsActive'
  BY <1>1, <1>2, <1>5, <1>6, <1>11 DEF PendingIsActive, CalmRun
<1>14. Settling' /\ Once'
  <2>1. Once' /\ \A t \in Steps : landed(t)' <=> landed(t)
    BY StillOnce
  <2>2. \A t \in Steps : landed(t) => t # s /\ demoFile.status[t] = "confirmed"
    BY <1>1, <1>2 DEF CalmRun, OnlyAt
  <2> QED
    BY <1>5, <1>6, <1>11, <2>1, <2>2 DEF Settling
<1> QED
  BY <1>1, <1>5, <1>6, <1>11, <1>12, <1>13, <1>14, CalmStep DEF CalmRun

\* The step runs without a loss.
LEMMA RunCalm ==
  ASSUME CalmInv, NEW q \in Slots, runStep(q), Lossless'
  PROVE  CalmRun'
<1>1. OnlySlot(q) /\ RunOutcome(q)
  BY RunIs DEF CalmInv
<1>2. DemoTyped /\ CalmRun
  <2>1. counted("faults") => ~Lossless'
    BY FaultIs DEF CalmInv, DemoTyped
  <2>2. tally' = tally
    BY <2>1 DEF runStep, rpcFails
  <2> QED
    BY <2>2, SameLoss DEF CalmInv
<1>3. handling[q].at = "run" /\ deployed' = deployed
  BY DEF runStep
<1>4. SlotCalm(q)
  BY <1>2 DEF CalmRun
<1>5. CASE Stays /\ Same /\ Carries(q, "confirm")
  <2>1. SlotCalm(q)'
    BY <1>3, <1>4, <1>5 DEF SlotCalm, Carries, Same, Executing
  <2> QED
    BY <1>1, <1>2, <1>3, <1>5, <2>1, CarryCalm DEF Carries, Same, Stays
<1>6. CASE demoChain' = mined(handling[q].step) /\ Same /\ MovedTo(q, "confirm")
  BY <1>1, <1>2, <1>3, <1>6, LandCalm DEF Same, MovedTo
<1>7. CASE Stays /\ Same /\ MovedTo(q, "send")
  <2>1. SlotCalm(q)'
    BY <1>3, <1>4, <1>7 DEF SlotCalm, MovedTo, Same, Executing
  <2> QED
    BY <1>1, <1>2, <1>3, <1>7, <2>1, CarryCalm DEF MovedTo, Same, Stays
<1>8. CASE Stays /\ Caught(q)
  BY <1>1, <1>2, <1>3, <1>8, CaughtCalm DEF Stays
<1> QED
  BY <1>1, <1>5, <1>6, <1>7, <1>8 DEF RunOutcome

\* The transaction is sent without a loss.
LEMMA SendCalm ==
  ASSUME CalmInv, NEW q \in Slots, sendTransaction(q), Lossless'
  PROVE  CalmRun'
<1>1. OnlySlot(q) /\ SendOutcome(q)
  BY SendIs DEF CalmInv
<1>2. /\ demoChain' = mined(handling[q].step) /\ Same /\ Carries(q, "broadcast")
      /\ handling'[q].hash = Len(demoChain.sent) + 1
  BY <1>1 DEF SendOutcome
<1>3. DemoTyped /\ CalmRun
  BY <1>2, SameLoss DEF CalmInv, Same
<1>4. handling[q].at = "send" /\ deployed' = deployed
  BY DEF sendTransaction
<1> QED
  BY <1>1, <1>2, <1>3, <1>4, LandCalm DEF Same, Carries

\* The hash is recorded without a loss.
LEMMA BroadcastCalm ==
  ASSUME CalmInv, NEW q \in Slots, onTransactionBroadcast(q), Lossless'
  PROVE  CalmRun'
<1>1. /\ OnlySlot(q) /\ MovedTo(q, "wait") /\ SameBut(demoFile, demoFile', handling[q].step)
      /\ demoFile'.status[handling[q].step] = demoFile.status[handling[q].step]
  BY BroadcastIs DEF CalmInv
<1>2. /\ handling[q].at = "broadcast" /\ demoChain' = demoChain /\ deployed' = deployed
      /\ activeAction' = activeAction /\ tally' = tally
  BY DEF onTransactionBroadcast
<1>3. DemoTyped /\ CalmRun
  BY <1>2, SameLoss DEF CalmInv
<1>4. demoFile'.deployment = demoFile.deployment /\ \A t \in Steps : demoFile'.status[t] = demoFile.status[t]
  BY <1>1 DEF SameBut
<1>5. SlotCalm(q) /\ handling[q].step \in Steps
  BY <1>2, <1>3, CalmSlot
<1>6. SlotCalm(q)'
  BY <1>1, <1>2, <1>4, <1>5 DEF SlotCalm, MovedTo, Executing
<1> QED
  BY <1>1, <1>2, <1>3, <1>4, <1>6, CarryCalm DEF MovedTo

\* The receipt of a transaction that was not lost is a success.
LEMMA WaitCalm ==
  ASSUME CalmInv, NEW q \in Slots, waitForReceipt(q), Lossless'
  PROVE  CalmRun'
<1>1. /\ OnlySlot(q)
      /\ \/ receiptOf(handling[q].hash) = "success" /\ Same /\ MovedTo(q, "confirm")
         \/ Caught(q) /\ receiptOf(handling[q].hash) = "reverted"
  BY WaitIs DEF CalmInv
<1>2. DemoTyped /\ CalmRun
  <2>1. counted("faults") => ~Lossless'
    BY FaultIs DEF CalmInv, DemoTyped
  <2>2. tally' = tally
    BY <2>1 DEF waitForReceipt, rpcFails
  <2> QED
    BY <2>2, SameLoss DEF CalmInv
<1>3. handling[q].at = "wait" /\ demoChain' = demoChain /\ deployed' = deployed
  BY DEF waitForReceipt
<1>4. SlotCalm(q)
  BY <1>2 DEF CalmRun
<1>5. receiptOf(handling[q].hash) # "reverted"
  BY <1>3, <1>4 DEF SlotCalm, receiptOf
<1>6. Same /\ MovedTo(q, "confirm")
  BY <1>1, <1>5
<1>7. SlotCalm(q)'
  BY <1>3, <1>4, <1>6 DEF SlotCalm, MovedTo, Same, Executing
<1> QED
  BY <1>1, <1>2, <1>3, <1>6, <1>7, CarryCalm DEF MovedTo, Same

\* The action is confirmed without a loss.
LEMMA ConfirmCalm ==
  ASSUME CalmInv, NEW q \in Slots, confirmAction(q), Lossless'
  PROVE  CalmRun'
<1>1. /\ OnlySlot(q) /\ activeAction' = NoStep /\ handling'[q] = Idle /\ tally' = tally
      /\ SameBut(demoFile, demoFile', handling[q].step)
      /\ \E n \in {handling[q].hash, demoFile.hash[handling[q].step]} :
           Updated(demoFile, demoFile', handling[q].step, "confirmed", n)
  BY ConfirmIs DEF CalmInv
<1>2. DemoTyped /\ CalmRun
  BY <1>1, SameLoss DEF CalmInv
<1>3. handling[q].at = "confirm" /\ demoChain' = demoChain /\ deployed' = deployed
  BY DEF confirmAction
<1>4. OnlyAt(q) /\ SlotCalm(q) /\ handling[q].step \in Steps /\ activeAction = handling[q].step
  BY <1>2, <1>3, CalmSlot
<1>5. PICK s \in Steps : s = handling[q].step
  BY <1>4
<1>6. demoFile.status[s] = "pending"
  BY <1>3, <1>4, <1>5 DEF SlotCalm
<1>7. /\ demoFile'.status[s] = "confirmed" /\ demoFile'.deployment = demoFile.deployment
      /\ \A t \in Steps : t # s => demoFile'.status[t] = demoFile.status[t]
  BY <1>1, <1>5, <1>6 DEF Updated, SameBut
<1>8. SlotCalm(q)'
  BY <1>1 DEF SlotCalm, Idle
<1>9. PendingIsActive'
  BY <1>2, <1>4, <1>5, <1>7 DEF PendingIsActive, CalmRun
<1>10. Settling' /\ Once'
  <2>1. Once' /\ \A t \in Steps : landed(t)' <=> landed(t)
    BY <1>2, <1>3, StillOnce
  <2>2. \A t \in Steps : landed(t) => t = s \/ demoFile.status[t] = "confirmed"
    BY <1>2, <1>4, <1>5 DEF CalmRun, OnlyAt
  <2> QED
    BY <1>7, <2>1, <2>2 DEF Settling
<1> QED
  BY <1>1, <1>2, <1>3, <1>4, <1>7, <1>8, <1>9, <1>10, CalmStep DEF CalmRun

\* Without a loss no request waits for a receipt or a reset.
LEMMA NotCalm ==
  ASSUME CalmInv, NEW q \in Slots, tally' = tally,
         handling[q].at \in {"initialize", "receipt", "observe", "revert", "snapshot", "reinitialize"}
  PROVE  ~Lossless'
<1>1. Lossless' => SlotCalm(q)
  BY SameLoss DEF CalmInv, CalmRun
<1> QED
  BY <1>1 DEF SlotCalm, Executing

\* Nor does a failed call leave the run without a loss.
LEMMA NotCalmFault ==
  ASSUME CalmInv, NEW q \in Slots, tally' = tally \/ counted("faults"),
         handling[q].at \in {"receipt", "observe"}
  PROVE  ~Lossless'
<1>1. counted("faults") => ~Lossless'
  BY FaultIs DEF CalmInv, DemoTyped
<1> QED
  BY <1>1, NotCalm

\* An execution under way is calm if nothing was lost and nothing overlaps
\* the creation of the run.
LEMMA CalmAt ==
  ASSUME LossInv, overlaps = {}, NEW q \in Slots, handling[q].at \notin {"free", "initialize"}
  PROVE  CalmInv
  BY DEF LossInv, CalmInv, Creating

\* What overlapped stays recorded, and a creation has the server to itself.
LEMMA CreationAlone ==
  ASSUME DemoNext, overlaps' = {}
  PROVE  /\ overlaps = {}
         /\ \A q, r \in Slots : handling'[q].at = "initialize" /\ handling'[r].at # "free" => q = r
<1>1. overlaps' = overlaps \cup overlapping' \cup {k \in {"reset"} : redeployed}
  BY DEF DemoNext
<1>2. overlaps = {} /\ "creation" \notin overlapping'
  BY <1>1
<1>3. "creation" \in DOMAIN Replacing /\ Replacing["creation"] = {"initialize"}
  BY DEF Replacing
<1>4. \A q, r \in Slots : ~(q # r /\ handling'[q].at \in Replacing["creation"] /\ handling'[r].at # "free")
  BY <1>2, <1>3 DEF overlapping, Replacing
<1> QED
  BY <1>2, <1>3, <1>4

\* A request finds no run and waits to create one.
LEMMA LoadCreates ==
  ASSUME DemoTyped, Creating, NEW q \in Slots, NEW s, handling[q].at = "free", OnlySlot(q), Loads(q, s),
         demoChain' = demoChain, deployed' = deployed,
         \A p, r \in Slots : handling'[p].at = "initialize" /\ handling'[r].at # "free" => p = r
  PROVE  Creating'
<1>1. Waits(q, "initialize", s, freshRun)
  BY DEF Loads, Creating
<1>2. /\ handling'[q].at = "initialize" /\ handling'[q].seen = freshRun
      /\ demoFile' = demoFile /\ activeAction' = activeAction
  BY <1>1 DEF Waits
<1>3. Blank(handling[q].seen)'
  BY <1>2, FreshIs DEF Blank, DemoTyped
<1>4. \A r \in Slots : r # q => handling'[r].at = "free"
  BY <1>2
<1>5. \A t \in Steps : landings(t)' = {}
  BY DEF Creating, landings
<1> QED
  BY <1>2, <1>3, <1>4, <1>5 DEF Creating

\* The run is created, and the request that did goes on alone.
LEMMA CreatedCalm ==
  ASSUME DemoTyped, Creating, NEW q \in Slots, initializeRun(q)
  PROVE  CalmRun'
<1>1. OnlySlot(q) /\ GoesOn(q, demoFile') /\ demoFile' = startedRun(q) /\ demoFile' \in Runs
  BY InitializeIs, StartedIs
<1>2. handling[q].at = "initialize" /\ demoChain' = demoChain /\ deployed' = deployed
  BY DEF initializeRun
<1>3. demoFile'.deployment = deployed'.id /\ \A s \in Steps : demoFile'.status[s] = "none"
  BY <1>1, <1>2, StartedIs DEF Creating, Blank
<1>4. \A r \in Slots : r # q => handling'[r].at = "free"
  BY <1>1, <1>2 DEF Creating, OnlySlot
<1>5. \A s \in Steps : landings(s)' = {} /\ ~landed(s)'
  BY <1>2 DEF Creating, landings, landed
<1>6. SlotCalm(q)'
  <2>1. CASE handling'[q] = Idle
    BY <2>1 DEF SlotCalm, Idle
  <2>2. CASE Starts(q, handling[q].step, demoFile')
    <3>1. /\ handling'[q].at = "before" /\ handling'[q].step = handling[q].step /\ handling[q].step \in Steps
          /\ handling'[q].seen = demoFile' /\ activeAction' = handling[q].step
      BY <2>2 DEF Starts
    <3> QED
      BY <1>3, <3>1 DEF SlotCalm, Executing
  <2> QED
    BY <1>1, <2>1, <2>2 DEF GoesOn
<1>7. \A r \in Slots : SlotCalm(r)'
  <2>1. ASSUME NEW r \in Slots, r # q
        PROVE  SlotCalm(r)'
    BY <1>4, <2>1 DEF SlotCalm
  <2> QED
    BY <1>6, <2>1
<1> QED
  BY <1>3, <1>4, <1>5, <1>7 DEF CalmRun

\* Every step keeps the types, and the calm unless something is lost.
LEMMA LossNext ==
  ASSUME LossInv, DemoNext
  PROVE  LossInv'
<1>1. ASSUME NEW q \in Slots, NEW s, OnlySlot(q), Loads(q, s), DemoTyped', handling[q].at = "free",
             demoChain' = demoChain, deployed' = deployed, Lossless' => Lossless,
             CalmInv /\ Lossless' => CalmRun'
      PROVE  LossInv'
  <2>1. SUFFICES ASSUME Lossless', overlaps' = {}
                 PROVE  CalmRun' \/ Creating'
    BY <1>1 DEF LossInv
  <2>2. /\ overlaps = {} /\ Lossless /\ DemoTyped
        /\ \A p, r \in Slots : handling'[p].at = "initialize" /\ handling'[r].at # "free" => p = r
    BY <1>1, <2>1, CreationAlone DEF LossInv
  <2>3. CASE CalmRun
    BY <1>1, <2>1, <2>2, <2>3 DEF CalmInv
  <2>4. CASE Creating
    BY <1>1, <2>2, <2>4, LoadCreates
  <2> QED
    BY <2>2, <2>3, <2>4 DEF LossInv
<1>2. ASSUME NEW q \in Slots, getLivingDemoRun(q)
      PROVE  LossInv'
  <2>1. OnlySlot(q) /\ Loads(q, NoStep) /\ DemoTyped'
    BY <1>2, GetIs DEF LossInv
  <2>2. /\ handling[q].at = "free" /\ demoChain' = demoChain /\ deployed' = deployed
        /\ Lossless' => Lossless
    BY <1>2, SameLoss DEF getLivingDemoRun
  <2>3. CalmInv /\ Lossless' => CalmRun'
    BY <1>2, GetCalm
  <2> QED
    BY <1>1, <2>1, <2>2, <2>3
<1>3. ASSUME NEW q \in Slots, executeLivingDemoAction(q)
      PROVE  LossInv'
  <2>1. OnlySlot(q) /\ (\E s \in Steps : Loads(q, s)) /\ DemoTyped'
    BY <1>3, ExecuteIs DEF LossInv
  <2>2. /\ handling[q].at = "free" /\ demoChain' = demoChain /\ deployed' = deployed
        /\ Lossless' => Lossless
    BY <1>3, AskedIs DEF executeLivingDemoAction, LossInv, DemoTyped
  <2>3. CalmInv /\ Lossless' => CalmRun'
    BY <1>3, ExecuteCalm
  <2> QED
    BY <1>1, <2>1, <2>2, <2>3
<1>4. ASSUME NEW q \in Slots, initializeRun(q)
      PROVE  LossInv'
  <2>1. DemoTyped'
    BY <1>4, InitializeIs DEF LossInv
  <2>2. ASSUME Lossless', overlaps = {}
        PROVE  CalmRun'
    <3>1. DemoTyped /\ (CalmRun \/ Creating)
      BY <1>4, <2>2, SameLoss DEF LossInv, initializeRun
    <3>2. ~CalmRun
      BY <1>4 DEF CalmRun, SlotCalm, Executing, initializeRun
    <3> QED
      BY <1>4, <3>1, <3>2, CreatedCalm
  <2> QED
    BY <2>1, <2>2, CreationAlone DEF LossInv
<1>5. ASSUME NEW q \in Slots, observeBefore(q)
      PROVE  LossInv'
  <2>1. DemoTyped'
    BY <1>5, BeforeIs DEF LossInv
  <2>2. ASSUME Lossless', overlaps = {}
        PROVE  CalmRun'
    <3>1. CalmInv
      BY <1>5, <2>2, CalmAt DEF observeBefore
    <3> QED
      BY <1>5, <2>2, <3>1, BeforeCalm
  <2> QED
    BY <2>1, <2>2, CreationAlone DEF LossInv
<1>6. ASSUME NEW q \in Slots, runStep(q)
      PROVE  LossInv'
  <2>1. DemoTyped'
    BY <1>6, RunIs DEF LossInv
  <2>2. ASSUME Lossless', overlaps = {}
        PROVE  CalmRun'
    <3>1. CalmInv
      BY <1>6, <2>2, CalmAt DEF runStep
    <3> QED
      BY <1>6, <2>2, <3>1, RunCalm
  <2> QED
    BY <2>1, <2>2, CreationAlone DEF LossInv
<1>7. ASSUME NEW q \in Slots, sendTransaction(q)
      PROVE  LossInv'
  <2>1. DemoTyped'
    BY <1>7, SendIs DEF LossInv
  <2>2. ASSUME Lossless', overlaps = {}
        PROVE  CalmRun'
    <3>1. CalmInv
      BY <1>7, <2>2, CalmAt DEF sendTransaction
    <3> QED
      BY <1>7, <2>2, <3>1, SendCalm
  <2> QED
    BY <2>1, <2>2, CreationAlone DEF LossInv
<1>8. ASSUME NEW q \in Slots, onTransactionBroadcast(q)
      PROVE  LossInv'
  <2>1. DemoTyped'
    BY <1>8, BroadcastIs DEF LossInv
  <2>2. ASSUME Lossless', overlaps = {}
        PROVE  CalmRun'
    <3>1. CalmInv
      BY <1>8, <2>2, CalmAt DEF onTransactionBroadcast
    <3> QED
      BY <1>8, <2>2, <3>1, BroadcastCalm
  <2> QED
    BY <2>1, <2>2, CreationAlone DEF LossInv
<1>9. ASSUME NEW q \in Slots, waitForReceipt(q)
      PROVE  LossInv'
  <2>1. DemoTyped'
    BY <1>9, WaitIs DEF LossInv
  <2>2. ASSUME Lossless', overlaps = {}
        PROVE  CalmRun'
    <3>1. CalmInv
      BY <1>9, <2>2, CalmAt DEF waitForReceipt
    <3> QED
      BY <1>9, <2>2, <3>1, WaitCalm
  <2> QED
    BY <2>1, <2>2, CreationAlone DEF LossInv
<1>10. ASSUME NEW q \in Slots, confirmAction(q)
       PROVE  LossInv'
  <2>1. DemoTyped'
    BY <1>10, ConfirmIs DEF LossInv
  <2>2. ASSUME Lossless', overlaps = {}
        PROVE  CalmRun'
    <3>1. CalmInv
      BY <1>10, <2>2, CalmAt DEF confirmAction
    <3> QED
      BY <1>10, <2>2, <3>1, ConfirmCalm
  <2> QED
    BY <2>1, <2>2, CreationAlone DEF LossInv
<1>11. ASSUME NEW q \in Slots, reconcilePending(q)
       PROVE  LossInv'
  <2>1. DemoTyped'
    BY <1>11, ReconcileIs DEF LossInv
  <2>2. ASSUME Lossless', overlaps = {}
        PROVE  FALSE
    <3>1. CalmInv
      BY <1>11, <2>2, CalmAt DEF reconcilePending
    <3> QED
      BY <1>11, <2>2, <3>1, NotCalmFault DEF reconcilePending
  <2> QED
    BY <2>1, <2>2, CreationAlone DEF LossInv
<1>12. ASSUME NEW q \in Slots, observeRetained(q)
       PROVE  LossInv'
  <2>1. DemoTyped'
    BY <1>12, ObserveIs DEF LossInv
  <2>2. ASSUME Lossless', overlaps = {}
        PROVE  FALSE
    <3>1. CalmInv
      BY <1>12, <2>2, CalmAt DEF observeRetained
    <3> QED
      BY <1>12, <2>2, <3>1, NotCalmFault DEF observeRetained
  <2> QED
    BY <2>1, <2>2, CreationAlone DEF LossInv
<1>13. ASSUME NEW q \in Slots, revertChain(q)
       PROVE  LossInv'
  <2>1. DemoTyped'
    BY <1>13, RevertIs DEF LossInv
  <2>2. ASSUME Lossless', overlaps = {}
        PROVE  FALSE
    <3>1. CalmInv
      BY <1>13, <2>2, CalmAt DEF revertChain
    <3> QED
      BY <1>13, <2>2, <3>1, NotCalm DEF revertChain
  <2> QED
    BY <2>1, <2>2, CreationAlone DEF LossInv
<1>14. ASSUME NEW q \in Slots, saveSnapshot(q)
       PROVE  LossInv'
  <2>1. DemoTyped'
    BY <1>14, SnapshotIs DEF LossInv
  <2>2. ASSUME Lossless', overlaps = {}
        PROVE  FALSE
    <3>1. CalmInv
      BY <1>14, <2>2, CalmAt DEF saveSnapshot
    <3> QED
      BY <1>14, <2>2, <3>1, NotCalm DEF saveSnapshot
  <2> QED
    BY <2>1, <2>2, CreationAlone DEF LossInv
<1>15. ASSUME NEW q \in Slots, reinitialize(q)
       PROVE  LossInv'
  <2>1. DemoTyped'
    BY <1>15, ReinitializeIs DEF LossInv
  <2>2. ASSUME Lossless', overlaps = {}
        PROVE  FALSE
    <3>1. CalmInv
      BY <1>15, <2>2, CalmAt DEF reinitialize
    <3> QED
      BY <1>15, <2>2, <3>1, NotCalm DEF reinitialize
  <2> QED
    BY <2>1, <2>2, CreationAlone DEF LossInv
<1>16. ASSUME NEW q \in Slots, resetLivingDemoRun(q)
       PROVE  LossInv'
  BY <1>16, ResetIs DEF LossInv
<1>17. CASE localnet
  BY <1>17, LocalnetIs DEF LossInv
<1>18. CASE serverDies
  BY <1>18, DeathFrees DEF LossInv
<1> QED
  BY <1>2, <1>3, <1>4, <1>5, <1>6, <1>7, <1>8, <1>9, <1>10, <1>11, <1>12, <1>13, <1>14, <1>15,
     <1>16, <1>17, <1>18 DEF DemoNext, DemoStep

\* Two pages cannot make a step happen twice: a second landing takes a
\* death of the server, a call that failed, a new life of the chain, or a
\* request that was served while the run file was being created; however
\* many requests overlap otherwise.
THEOREM RepeatedNeedsLoss == DemoSpec => []RepeatedOnlyAfterLoss
<1>1. DemoInit => LossInv
  <2>1. SUFFICES ASSUME DemoInit
                 PROVE  LossInv
    OBVIOUS
  <2>2. DemoTyped
    BY <2>1, TruthInit DEF TruthInv
  <2>3. /\ \A q \in Slots : handling[q].at = "free"
        /\ \A s \in Steps : demoFile.status[s] = "none"
        /\ demoChain.sent = << >> /\ activeAction = NoStep
    BY <2>1 DEF DemoInit, Free
  <2>4. \A s : landings(s) = {}
    BY <2>3 DEF landings
  <2>5. CASE demoFile.deployment = deployed.id
    <3>1. CalmRun
      BY <2>3, <2>4, <2>5 DEF CalmRun, SlotCalm, landed
    <3> QED
      BY <2>2, <3>1 DEF LossInv
  <2>6. CASE demoFile.deployment # deployed.id
    <3>1. Creating
      BY <2>3, <2>4, <2>6 DEF Creating
    <3> QED
      BY <2>2, <3>1 DEF LossInv
  <2> QED
    BY <2>5, <2>6
<1>2. LossInv /\ [DemoNext]_demoVars => LossInv'
  <2>1. CASE DemoNext
    BY <2>1, LossNext
  <2>2. CASE UNCHANGED demoVars
    BY <2>2 DEF demoVars, LossInv, DemoTyped, DemoTypes, StepsKnown, Known, Lossless, CalmRun, SlotCalm,
                landed, landings, Creating, Blank
  <2> QED
    BY <2>1, <2>2
<1>3. LossInv => RepeatedOnlyAfterLoss
  <2>1. SUFFICES ASSUME LossInv, Lossless, overlaps = {}, NEW s \in Steps
                 PROVE  Cardinality(landings(s)) <= 1
    BY DEF RepeatedOnlyAfterLoss, stepsLandOnce, Lossless
  <2>2. \A i, j \in landings(s) : i = j
    BY <2>1 DEF LossInv, CalmRun, Creating
  <2>3. CASE landings(s) = {}
    BY <2>3, FS_EmptySet
  <2>4. CASE landings(s) # {}
    <3>1. PICK i : landings(s) = {i}
      BY <2>2, <2>4
    <3> QED
      BY <3>1, FS_Singleton
  <2> QED
    BY <2>3, <2>4
<1> QED
  BY <1>1, <1>2, <1>3, PTL DEF DemoSpec
=============================================================================
