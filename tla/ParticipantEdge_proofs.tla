------------------------ MODULE ParticipantEdge_proofs ------------------------
(***************************************************************************)
(* Proofs about the two edges at which participants meet the service: the  *)
(* import coordinator that takes their uploads, and the pages on which     *)
(* they follow a run, for any tickets, claims, faults, crashes, runs,      *)
(* cases, wallets, polls and answers that are lost, late or damaged.       *)
(***************************************************************************)
EXTENDS ImportCoordinator, ManagedPages, DirectPage, SequenceTheorems, TLAPS

-----------------------------------------------------------------------------
(***************************************************************************)
(* The import coordinator.  What is published is exact for any number of   *)
(* processes on one directory; that a committed ticket keeps its claims is *)
(* proved as long as no two processes have run at the same time.           *)
(***************************************************************************)

GateRec == [for: {"none", "begin", "start"},
            pc: {"idle", "scan", "rollback", "unlink", "intent", "claim",
                 "commit", "journal", "recover"},
            t: Tickets \cup {None}, u: Tickets \cup {None}, i: Nat,
            todo: SUBSET Tickets]

JobRec == [pc: JobSteps, recovered: BOOLEAN, uncertain: BOOLEAN]

\* The steps of a job that has seen both objects exact, and those that
\* come after the ciphertext was recorded.
Hashed == {"reconcile", "verify", "publish", "publishing", "mark"}
WithManifest == {"stageManifest", "streamManifest", "logManifest", "hash"} \cup Hashed

\* What the holder of the reservation lock works on.
GateOK(g) ==
  /\ g.for = "begin" => g.t \in Tickets
  /\ g.pc \in {"intent", "claim", "journal"} => g.for = "begin"
  /\ g.pc \in {"rollback", "unlink"} => g.u \in Tickets /\ g.i \in 0..Len(needs[g.u])
  /\ g.pc = "unlink" => g.i > 0
  /\ g.pc = "claim" => g.i \in 1..(Len(needs[g.t]) + 1)
  /\ g.pc = "recover" => g.todo \subseteq commit

\* What a job at a step relies on, whatever other processes did since.
JobOK(t, s) ==
  /\ s # "idle" => t \in commit
  /\ s = "streamCiphertext" => ciphertext[t] = "partial"
  /\ s = "markCiphertext" => ciphertext[t] = "exact"
  /\ s \in WithManifest => t \in marked
  /\ s = "streamManifest" => manifest[t] = "partial"
  /\ s \in Hashed => exactObjects(t)
  /\ s = "mark" => publication[t] = "complete"

\* One process at a time writes an object.
OneWriter ==
  \A s \in {"streamCiphertext", "streamManifest"}, t \in Tickets, p, q \in Procs :
    at(p, t, s) /\ at(q, t, s) => p = q

ImportInv ==
  /\ TypeOK
  /\ \A p \in Procs : GateOK(gate[p])
  /\ \A p \in Procs, t \in Tickets : JobOK(t, job[p][t].pc)
  /\ OneWriter
  /\ \A t \in marked : ciphertext[t] = "exact"
  /\ PublishedIsExact

\* What the only process that reserves knows of the claims.
OwnGate(g) ==
  /\ g.for = "begin" => client[g.t] # "new"
  /\ g.for = "begin" /\ g.pc # "journal" => g.t \notin commit
  /\ g.pc \in {"rollback", "unlink"} => g.u \notin commit
  /\ g.pc = "unlink" => claim[needs[g.u][g.i]] = g.u
  /\ g.pc = "claim" => \A j \in 1..(g.i - 1) : claim[needs[g.t][j]] = g.t

OwnInv ==
  /\ OwnershipIsAlwaysWhole
  /\ \A t \in commit : client[t] # "new"
  /\ \A p \in Procs : OwnGate(gate[p])

\* No other process holds its reservation lock.
Alone(p) == \A q \in Procs : q # p => gate[q] = Free

\* A process that does not run holds nothing, and as long as none has met
\* another there is one that runs.
UpInv ==
  /\ \A p \in Procs : p \notin up => gate[p] = Free
  /\ met = {} => \A p, q \in up : p = q

-----------------------------------------------------------------------------
\* Steps of the reservation lock.

\* The files a reservation writes keep their types.
FilesOK ==
  /\ up \subseteq Procs
  /\ client \in [Tickets -> {"new", "asking", "holds", "refused", "lost"}]
  /\ intent \in [Tickets -> Procs \cup {Dead, None}]
  /\ commit \subseteq Tickets
  /\ claim \in [Claims -> Tickets \cup {None}]

\* What is known of a process stays known while commitments only grow.
LEMMA GateStays ==
  ASSUME NEW g, GateOK(g), commit \subseteq commit'
  PROVE  GateOK(g)'
BY DEF GateOK

\* A step that moves one process through its reservation and leaves the
\* objects and the jobs alone keeps the invariant.
LEMMA GateStep ==
  ASSUME ImportInv, UNCHANGED <<pinned, job, objects, torn, expired, crashes>>,
         FilesOK', commit \subseteq commit',
         NEW p \in Procs, NEW h \in GateRec, gate' = [gate EXCEPT ![p] = h], GateOK(h)'
  PROVE  ImportInv'
<1>1. gate \in [Procs -> GateRec]
  BY DEF ImportInv, TypeOK, GateRec
<1>2. gate' \in [Procs -> GateRec] /\ gate'[p] = h /\ \A q \in Procs : q # p => gate'[q] = gate[q]
  BY <1>1
<1>3. TypeOK'
  BY <1>2 DEF ImportInv, TypeOK, FilesOK, GateRec, objects
<1>4. \A q \in Procs : GateOK(gate[q])'
  <2> SUFFICES ASSUME NEW q \in Procs
               PROVE  GateOK(gate[q])'
    OBVIOUS
  <2>1. CASE q = p
    BY <1>2, <2>1 DEF GateOK
  <2>2. CASE q # p
    <3>1. PICK g : g = gate[q]
      OBVIOUS
    <3>2. GateOK(g)
      BY <3>1 DEF ImportInv
    <3>3. GateOK(g)'
      BY <3>2, GateStays
    <3>4. gate'[q] = g
      BY <1>2, <2>2, <3>1
    <3> QED
      BY <3>3, <3>4 DEF GateOK
  <2> QED
    BY <2>1, <2>2
<1>5. \A q \in Procs, t \in Tickets : JobOK(t, job[q][t].pc)'
  BY DEF ImportInv, JobOK, objects, exactObjects
<1>6. OneWriter'
  BY DEF ImportInv, OneWriter, at
<1>7. (\A t \in marked : ciphertext[t] = "exact")' /\ PublishedIsExact'
  BY DEF ImportInv, PublishedIsExact, objects
<1> QED
  BY <1>3, <1>4, <1>5, <1>6, <1>7 DEF ImportInv

\* The members of the list of claims of a ticket.
LEMMA NeedsType ==
  ASSUME NEW t \in Tickets
  PROVE  /\ Len(needs[t]) \in Nat /\ DOMAIN needs[t] = 1..Len(needs[t])
         /\ \A i \in 1..Len(needs[t]) : needs[t][i] \in Claims
BY ImportAssumption

\* A reservation that ends frees the lock.
LEMMA FreeGate ==
  Free \in GateRec /\ GateOK(Free)
BY DEF Free, GateRec, GateOK

\* A refused request keeps the invariant.
LEMMA RefuseStep ==
  ASSUME ImportInv, NEW p \in Procs, refuse(p), UNCHANGED <<pinned, job, objects, torn, expired, crashes, commit>>,
         intent' \in [Tickets -> Procs \cup {Dead, None}], claim' \in [Claims -> Tickets \cup {None}]
  PROVE  ImportInv'
<1>1. FilesOK'
  BY DEF FilesOK, ImportInv, TypeOK, refuse
<1>2. gate' = [gate EXCEPT ![p] = Free]
  BY DEF refuse
<1>3. Free \in GateRec /\ GateOK(Free)'
  BY FreeGate DEF Free, GateOK
<1> QED
  BY <1>1, <1>2, <1>3, GateStep

\* A process starts, or begins a reservation.
LEMMA BeginSteps ==
  ASSUME ImportInv, pinned' = pinned, NEW p \in Procs,
         createCoordinator(p) \/ \E t \in Tickets : beginImport(p, t)
  PROVE  ImportInv'
<1>1. intents \subseteq Tickets
  BY DEF intents
<1>2. CASE createCoordinator(p)
  <2> PICK h : h = [Free EXCEPT !.for = "start", !.pc = "scan", !.todo = intents]
    OBVIOUS
  <2>1. h \in GateRec /\ h.for = "start" /\ h.pc = "scan"
    BY <1>1 DEF Free, GateRec
  <2>2. gate' = [gate EXCEPT ![p] = h] /\ UNCHANGED <<job, objects, torn, expired, crashes, client, files>>
        /\ up' = up \cup {p}
    BY <1>2 DEF createCoordinator
  <2>3. FilesOK' /\ commit' = commit
    BY <2>2 DEF FilesOK, ImportInv, TypeOK, files
  <2>4. GateOK(h)'
    BY <2>1 DEF GateOK
  <2> QED
    BY <2>1, <2>2, <2>3, <2>4, GateStep
<1>3. CASE \E t \in Tickets : beginImport(p, t)
  <2>1. PICK t \in Tickets : beginImport(p, t)
    BY <1>3
  <2> PICK h : h = [Free EXCEPT !.for = "begin", !.pc = "scan", !.t = t, !.todo = intents]
    OBVIOUS
  <2>2. h \in GateRec /\ h.for = "begin" /\ h.pc = "scan" /\ h.t = t
    BY <1>1 DEF Free, GateRec
  <2>3. gate' = [gate EXCEPT ![p] = h] /\ UNCHANGED <<up, job, files, objects, torn, expired, crashes>>
        /\ client' = [client EXCEPT ![t] = "asking"]
    BY <2>1 DEF beginImport
  <2>4. FilesOK' /\ commit' = commit
    BY <2>3 DEF FilesOK, ImportInv, TypeOK, files
  <2>5. GateOK(h)'
    BY <2>2 DEF GateOK
  <2> QED
    BY <2>2, <2>3, <2>4, <2>5, GateStep
<1> QED
  BY <1>2, <1>3

\* What the invariant says of the process that takes a step.
LEMMA GateOf ==
  ASSUME ImportInv, NEW p \in Procs, NEW g, g = gate[p]
  PROVE  /\ g \in GateRec /\ GateOK(g) /\ gate \in [Procs -> GateRec]
         /\ FilesOK
<1>1. gate \in [Procs -> GateRec]
  BY DEF ImportInv, TypeOK, GateRec
<1>2. GateOK(gate[p])
  BY DEF ImportInv
<1>3. FilesOK
  BY DEF ImportInv, TypeOK, FilesOK
<1> QED
  BY <1>1, <1>2, <1>3 DEF GateOK

\* The reservation log is scanned.
LEMMA ScanSteps ==
  ASSUME ImportInv, pinned' = pinned, NEW p \in Procs,
         recoverReservationTransactions(p) \/ scanned(p)
  PROVE  ImportInv'
<1> PICK g : g = gate[p]
  OBVIOUS
<1>1. g \in GateRec /\ GateOK(g) /\ gate \in [Procs -> GateRec] /\ FilesOK
  BY GateOf
<1>2. g.pc = "scan" /\ UNCHANGED <<job, intent, commit, objects, torn, expired, crashes>>
  BY DEF recoverReservationTransactions, scanned, files
<1>3. ASSUME NEW u \in g.todo, claim' \in [Claims -> Tickets \cup {None}], UNCHANGED <<up, client>>,
             scanNext(p, gate[p].todo \ {u})
      PROVE  ImportInv'
  <2> PICK h : h = [g EXCEPT !.todo = @ \ {u}]
    OBVIOUS
  <2>1. h \in GateRec /\ h.pc = "scan" /\ h.for = g.for /\ h.t = g.t
    BY <1>1, <1>2 DEF GateRec
  <2>2. gate' = [gate EXCEPT ![p] = h]
    BY <1>1, <1>3 DEF scanNext
  <2>3. FilesOK'
    BY <1>1, <1>2, <1>3 DEF FilesOK
  <2>4. GateOK(h)'
    BY <1>1, <2>1 DEF GateOK
  <2> QED
    BY <1>2, <2>1, <2>2, <2>3, <2>4, GateStep
<1>4. CASE recoverReservationTransactions(p)
  <2>1. PICK u \in g.todo : recoverCommitted(p, u) \/ recoverUncommitted(p, u)
    BY <1>4 DEF recoverReservationTransactions
  <2>2. u \in Tickets
    BY <1>1 DEF GateRec
  <2>3. CASE recoverCommitted(p, u)
    <3>1. CASE integrity(u)
      <4>1. claim' \in [Claims -> Tickets \cup {None}]
        BY <1>1, <2>2, <2>3, <3>1 DEF recoverCommitted, FilesOK
      <4> QED
        BY <1>3, <2>3, <3>1, <4>1 DEF recoverCommitted
    <3>2. CASE ~integrity(u)
      BY <1>1, <1>2, <2>3, <3>2, RefuseStep DEF recoverCommitted, FilesOK
    <3> QED
      BY <3>1, <3>2
  <2>4. CASE recoverUncommitted(p, u)
    <3>1. claim' = claim
      BY <2>4 DEF recoverUncommitted
    <3>2. CASE refuse(p)
      BY <1>1, <1>2, <3>1, <3>2, RefuseStep DEF FilesOK
    <3>3. CASE scanNext(p, gate[p].todo \ {u}) /\ UNCHANGED <<up, client>>
      BY <1>1, <1>3, <3>1, <3>3 DEF FilesOK
    <3>4. CASE gate' = [gate EXCEPT ![p].pc = "rollback", ![p].u = u, ![p].i = Len(needs[u])]
               /\ UNCHANGED <<up, client>>
      <4> PICK h : h = [g EXCEPT !.pc = "rollback", !.u = u, !.i = Len(needs[u])]
        OBVIOUS
      <4>1. Len(needs[u]) \in Nat
        BY <2>2, NeedsType
      <4>2. /\ h \in GateRec /\ h.pc = "rollback" /\ h.for = g.for /\ h.t = g.t
            /\ h.u = u /\ h.i = Len(needs[u])
        BY <1>1, <2>2, <4>1 DEF GateRec
      <4>3. gate' = [gate EXCEPT ![p] = h]
        BY <1>1, <3>4
      <4>4. FilesOK'
        BY <1>1, <1>2, <3>1, <3>4 DEF FilesOK
      <4>5. GateOK(h)'
        BY <1>1, <2>2, <4>1, <4>2 DEF GateOK
      <4> QED
        BY <1>2, <4>2, <4>3, <4>4, <4>5, GateStep
    <3> QED
      BY <2>4, <3>2, <3>3, <3>4 DEF recoverUncommitted
  <2> QED
    BY <2>1, <2>3, <2>4
<1>5. CASE scanned(p)
  <2> PICK h : h = [g EXCEPT !.pc = IF g.for = "begin" THEN "intent" ELSE "recover",
                             !.todo = IF g.for = "begin" THEN {} ELSE commit]
    OBVIOUS
  <2>1. /\ h \in GateRec /\ h.for = g.for /\ h.t = g.t
        /\ h.pc = IF g.for = "begin" THEN "intent" ELSE "recover"
        /\ h.todo = IF g.for = "begin" THEN {} ELSE commit
    BY <1>1 DEF GateRec, FilesOK
  <2>2. gate' = [gate EXCEPT ![p] = h]
    BY <1>1, <1>5 DEF scanned
  <2>3. FilesOK' /\ commit' = commit
    BY <1>1, <1>5 DEF FilesOK, scanned, files
  <2>4. GateOK(h)'
    BY <1>1, <2>1, <2>3 DEF GateOK
  <2> QED
    BY <1>2, <2>1, <2>2, <2>3, <2>4, GateStep
<1> QED
  BY <1>4, <1>5

\* A reservation is rolled back.
LEMMA RollBackSteps ==
  ASSUME ImportInv, pinned' = pinned, NEW p \in Procs,
         removeExactReservationClaim(p) \/ unlinkClaim(p) \/ rolledBack(p)
  PROVE  ImportInv'
<1> PICK g : g = gate[p]
  OBVIOUS
<1>1. g \in GateRec /\ GateOK(g) /\ gate \in [Procs -> GateRec] /\ FilesOK
  BY GateOf
<1>2. UNCHANGED <<job, commit, objects, torn, expired, crashes>>
  BY DEF removeExactReservationClaim, unlinkClaim, rolledBack, files
<1>3. CASE removeExactReservationClaim(p)
  <2>1. g.pc = "rollback" /\ g.i > 0 /\ UNCHANGED <<up, client, files>>
    BY <1>3 DEF removeExactReservationClaim
  <2>2. g.u \in Tickets /\ g.i \in 0..Len(needs[g.u])
    BY <1>1, <2>1 DEF GateOK
  <2>3. PICK h : h = IF claim[needs[g.u][g.i]] = g.u THEN [g EXCEPT !.pc = "unlink"]
                     ELSE [g EXCEPT !.i = g.i - 1]
    OBVIOUS
  <2>4. g.i \in Nat /\ g.i - 1 \in Nat
    BY <1>1, <2>1 DEF GateRec
  <2>5. /\ h \in GateRec /\ h.for = g.for /\ h.t = g.t /\ h.u = g.u
        /\ \/ h.pc = "unlink" /\ h.i = g.i
           \/ h.pc = "rollback" /\ h.i = g.i - 1
    <3>1. CASE h = [g EXCEPT !.pc = "unlink"]
      BY <1>1, <3>1 DEF GateRec
    <3>2. CASE h = [g EXCEPT !.i = g.i - 1]
      BY <1>1, <2>1, <2>4, <3>2 DEF GateRec
    <3> QED
      BY <2>3, <3>1, <3>2
  <2>6. gate' = [gate EXCEPT ![p] = h]
    BY <1>1, <1>3, <2>3 DEF removeExactReservationClaim
  <2>7. FilesOK'
    BY <1>1, <2>1 DEF FilesOK, files
  <2>8. Len(needs[g.u]) \in Nat
    BY <2>2, NeedsType
  <2>9. GateOK(h)'
    BY <1>1, <2>1, <2>2, <2>4, <2>5, <2>8 DEF GateOK
  <2> QED
    BY <1>2, <2>5, <2>6, <2>7, <2>9, GateStep
<1>4. CASE unlinkClaim(p)
  <2>1. g.pc = "unlink" /\ intent' = intent
    BY <1>4 DEF unlinkClaim
  <2>2. g.u \in Tickets /\ g.i \in 0..Len(needs[g.u]) /\ g.i > 0 /\ Len(needs[g.u]) \in Nat
    BY <1>1, <2>1, NeedsType DEF GateOK
  <2>3. CASE refuse(p) /\ claim' = claim
    BY <1>1, <1>2, <2>1, <2>3, RefuseStep DEF FilesOK
  <2>4. CASE /\ claim' = [claim EXCEPT ![needs[gate[p].u][gate[p].i]] = None]
             /\ gate' = [gate EXCEPT ![p].pc = "rollback", ![p].i = @ - 1]
             /\ UNCHANGED <<up, client>>
    <3> PICK h : h = [g EXCEPT !.pc = "rollback", !.i = g.i - 1]
      OBVIOUS
    <3>1. g.i \in Nat /\ g.i - 1 \in Nat
      BY <2>2
    <3>2. /\ h \in GateRec /\ h.for = g.for /\ h.t = g.t /\ h.u = g.u
          /\ h.pc = "rollback" /\ h.i = g.i - 1
      BY <1>1, <3>1 DEF GateRec
    <3>3. gate' = [gate EXCEPT ![p] = h]
      BY <1>1, <2>4
    <3>4. FilesOK'
      BY <1>1, <1>2, <2>1, <2>4 DEF FilesOK
    <3>5. GateOK(h)'
      BY <1>1, <2>2, <3>1, <3>2 DEF GateOK
    <3> QED
      BY <1>2, <3>2, <3>3, <3>4, <3>5, GateStep
  <2> QED
    BY <1>4, <2>3, <2>4 DEF unlinkClaim
<1>5. CASE rolledBack(p)
  <2>1. intent' = [intent EXCEPT ![g.u] = None] /\ claim' = claim
    BY <1>5 DEF rolledBack
  <2>2. intent' \in [Tickets -> Procs \cup {Dead, None}]
    BY <1>1, <2>1 DEF FilesOK
  <2>3. CASE refuse(p)
    BY <1>1, <1>2, <2>1, <2>2, <2>3, RefuseStep DEF FilesOK
  <2>4. CASE ~(gate[p].t = gate[p].u)
    <3> PICK h : h = [g EXCEPT !.pc = "scan", !.u = None, !.i = 0, !.todo = @ \ {g.u}]
      OBVIOUS
    <3>1. h \in GateRec /\ h.for = g.for /\ h.t = g.t /\ h.pc = "scan"
      BY <1>1 DEF GateRec
    <3>2. gate' = [gate EXCEPT ![p] = h] /\ UNCHANGED <<up, client>>
      BY <1>1, <1>5, <2>4 DEF rolledBack
    <3>3. FilesOK'
      BY <1>1, <1>2, <2>1, <2>2, <3>2 DEF FilesOK
    <3>4. GateOK(h)'
      BY <1>1, <3>1 DEF GateOK
    <3> QED
      BY <1>2, <3>1, <3>2, <3>3, <3>4, GateStep
  <2> QED
    BY <1>5, <2>3, <2>4 DEF rolledBack
<1> QED
  BY <1>3, <1>4, <1>5

\* A reservation is made: intent, claims, commit, response.
LEMMA ReserveSteps ==
  ASSUME ImportInv, pinned' = pinned, NEW p \in Procs,
         \/ writeIntent(p) \/ createOrVerifyReservationClaim(p) \/ writeCommit(p)
         \/ reserved(p) \/ recovered(p)
  PROVE  ImportInv'
<1> PICK g : g = gate[p]
  OBVIOUS
<1>1. g \in GateRec /\ GateOK(g) /\ gate \in [Procs -> GateRec] /\ FilesOK
  BY GateOf
<1>2. UNCHANGED <<job, objects, torn, expired, crashes>>
  BY DEF writeIntent, createOrVerifyReservationClaim, writeCommit, reserved, recovered
<1>3. g.pc \in {"intent", "claim", "journal"} => g.t \in Tickets /\ Len(needs[g.t]) \in Nat
  BY <1>1, NeedsType DEF GateOK
<1>4. CASE writeIntent(p)
  <2> PICK h : h = [g EXCEPT !.pc = "claim", !.i = 1]
    OBVIOUS
  <2>1. g.pc = "intent" /\ intent' = [intent EXCEPT ![g.t] = p] /\ UNCHANGED <<up, client, commit, claim>>
    BY <1>4 DEF writeIntent
  <2>2. h \in GateRec /\ h.for = g.for /\ h.t = g.t /\ h.pc = "claim" /\ h.i = 1
    BY <1>1 DEF GateRec
  <2>3. gate' = [gate EXCEPT ![p] = h]
    BY <1>1, <1>4 DEF writeIntent
  <2>4. FilesOK'
    BY <1>1, <2>1 DEF FilesOK
  <2>5. GateOK(h)'
    BY <1>1, <1>3, <2>1, <2>2 DEF GateOK
  <2> QED
    BY <1>2, <2>1, <2>2, <2>3, <2>4, <2>5, GateStep
<1>5. CASE createOrVerifyReservationClaim(p)
  <2>1. g.pc = "claim" /\ g.i <= Len(needs[g.t]) /\ UNCHANGED <<up, client, intent, commit>>
    BY <1>5 DEF createOrVerifyReservationClaim
  <2>2. g.t \in Tickets /\ Len(needs[g.t]) \in Nat /\ g.i \in 1..(Len(needs[g.t]) + 1)
    BY <1>1, <1>3, <2>1 DEF GateOK
  <2>3. CASE occupied(gate[p].t, needs[gate[p].t][gate[p].i])
    <3> PICK h : h = [g EXCEPT !.pc = "rollback", !.u = g.t, !.i = Len(needs[g.t])]
      OBVIOUS
    <3>1. /\ h \in GateRec /\ h.for = g.for /\ h.t = g.t /\ h.pc = "rollback"
          /\ h.u = g.t /\ h.i = Len(needs[g.t])
      BY <1>1, <2>2 DEF GateRec
    <3>2. gate' = [gate EXCEPT ![p] = h] /\ claim' = claim
      BY <1>1, <1>5, <2>3 DEF createOrVerifyReservationClaim
    <3>3. FilesOK'
      BY <1>1, <2>1, <3>2 DEF FilesOK
    <3>4. GateOK(h)'
      BY <1>1, <2>2, <3>1 DEF GateOK
    <3> QED
      BY <1>2, <2>1, <3>1, <3>2, <3>3, <3>4, GateStep
  <2>4. CASE ~occupied(gate[p].t, needs[gate[p].t][gate[p].i])
    <3> PICK h : h = [g EXCEPT !.i = g.i + 1]
      OBVIOUS
    <3>1. /\ h \in GateRec /\ h.for = g.for /\ h.t = g.t /\ h.pc = "claim"
          /\ h.i = g.i + 1
      BY <1>1, <2>1, <2>2 DEF GateRec
    <3>2. gate' = [gate EXCEPT ![p] = h] /\ claim' = [claim EXCEPT ![needs[g.t][g.i]] = g.t]
      BY <1>1, <1>5, <2>4 DEF createOrVerifyReservationClaim
    <3>3. FilesOK'
      BY <1>1, <2>1, <2>2, <3>2 DEF FilesOK
    <3>4. GateOK(h)'
      BY <1>1, <2>1, <2>2, <3>1 DEF GateOK
    <3> QED
      BY <1>2, <2>1, <3>1, <3>2, <3>3, <3>4, GateStep
  <2> QED
    BY <2>3, <2>4
<1>6. CASE writeCommit(p)
  <2> PICK h : h = [g EXCEPT !.pc = "journal"]
    OBVIOUS
  <2>1. g.pc = "claim" /\ commit' = commit \cup {g.t} /\ UNCHANGED <<up, client, intent, claim>>
    BY <1>6 DEF writeCommit
  <2>2. h \in GateRec /\ h.for = g.for /\ h.t = g.t /\ h.pc = "journal"
    BY <1>1 DEF GateRec
  <2>3. gate' = [gate EXCEPT ![p] = h]
    BY <1>1, <1>6 DEF writeCommit
  <2>4. FilesOK' /\ commit \subseteq commit'
    BY <1>1, <1>3, <2>1 DEF FilesOK
  <2>5. GateOK(h)'
    BY <1>1, <1>3, <2>1, <2>2 DEF GateOK
  <2> QED
    BY <1>2, <2>2, <2>3, <2>4, <2>5, GateStep
<1>7. CASE reserved(p) \/ recovered(p)
  <2>1. gate' = [gate EXCEPT ![p] = Free] /\ UNCHANGED <<up, files>>
    BY <1>7 DEF reserved, recovered
  <2>2. FilesOK' /\ commit' = commit
    BY <1>1, <1>7, <2>1 DEF FilesOK, files, reserved, recovered
  <2>3. Free \in GateRec /\ GateOK(Free)'
    BY FreeGate DEF Free, GateOK
  <2> QED
    BY <1>2, <2>1, <2>2, <2>3, GateStep
<1> QED
  BY <1>4, <1>5, <1>6, <1>7

-----------------------------------------------------------------------------
\* Steps of the uploads.

\* The objects and markers keep their types.
ObjectsOK ==
  /\ ciphertext \in [Tickets -> {"absent", "partial", "exact"}]
  /\ manifest \in [Tickets -> {"absent", "partial", "exact"}]
  /\ marked \subseteq Tickets /\ published \subseteq Tickets
  /\ failure \in [Tickets -> {None, "FAILED", "RECONCILIATION_REQUIRED"}]
  /\ publication \in [Tickets -> {"none", "begun", "complete"}]

\* Exact objects, markers and completed publications stay.
Advances ==
  /\ \A u \in Tickets :
       /\ ciphertext[u] = "exact" => ciphertext'[u] = "exact"
       /\ manifest[u] = "exact" => manifest'[u] = "exact"
       /\ publication[u] = "complete" => publication'[u] = "complete"
  /\ marked \subseteq marked'

\* What another job relies on still holds, if the object it writes is not
\* touched.
LEMMA JobStays ==
  ASSUME NEW u \in Tickets, NEW s, JobOK(u, s), Advances, commit' = commit,
         s = "streamCiphertext" => ciphertext'[u] = ciphertext[u],
         s = "streamManifest" => manifest'[u] = manifest[u]
  PROVE  JobOK(u, s)'
BY DEF JobOK, Advances, exactObjects

\* A step of one job keeps the invariant.
LEMMA JobMove ==
  ASSUME ImportInv, UNCHANGED <<pinned, outside>>,
         NEW p \in Procs, NEW t \in Tickets, NEW j \in JobRec, job' = [job EXCEPT ![p][t] = j],
         ObjectsOK', Advances, JobOK(t, j.pc)',
         \A u \in Tickets : u # t => ciphertext'[u] = ciphertext[u] /\ manifest'[u] = manifest[u],
         \A q \in Procs : q # p =>
           /\ at(q, t, "streamCiphertext") => ciphertext'[t] = ciphertext[t] /\ j.pc # "streamCiphertext"
           /\ at(q, t, "streamManifest") => manifest'[t] = manifest[t] /\ j.pc # "streamManifest",
         (\A u \in marked : ciphertext[u] = "exact")', PublishedIsExact'
  PROVE  ImportInv'
<1>1. job \in [Procs -> [Tickets -> JobRec]]
  BY DEF ImportInv, TypeOK, JobRec
<1>2. /\ job' \in [Procs -> [Tickets -> JobRec]] /\ job'[p][t] = j
      /\ \A q \in Procs, u \in Tickets : q # p \/ u # t => job'[q][u] = job[q][u]
  BY <1>1
<1>3. TypeOK'
  BY <1>2 DEF ImportInv, TypeOK, ObjectsOK, JobRec, outside, files
<1>4. commit' = commit /\ gate' = gate
  BY DEF outside, files
<1>5. \A q \in Procs : GateOK(gate[q])'
  BY <1>4 DEF ImportInv, GateOK
<1>6. \A q \in Procs, u \in Tickets : JobOK(u, job[q][u].pc)'
  <2> SUFFICES ASSUME NEW q \in Procs, NEW u \in Tickets
               PROVE  JobOK(u, job[q][u].pc)'
    OBVIOUS
  <2>1. CASE q = p /\ u = t
    BY <1>2, <2>1 DEF JobOK
  <2>2. CASE q # p \/ u # t
    <3>1. PICK s : s = job[q][u].pc
      OBVIOUS
    <3>2. JobOK(u, s) /\ job'[q][u].pc = s
      BY <1>2, <2>2, <3>1 DEF ImportInv
    <3>3. /\ s = "streamCiphertext" => ciphertext'[u] = ciphertext[u]
          /\ s = "streamManifest" => manifest'[u] = manifest[u]
      BY <2>2, <3>1 DEF at
    <3>4. JobOK(u, s)'
      BY <1>4, <3>2, <3>3, JobStays
    <3> QED
      BY <3>2, <3>4 DEF JobOK, exactObjects
  <2> QED
    BY <2>1, <2>2
<1>7. OneWriter'
  <2> SUFFICES ASSUME NEW s \in {"streamCiphertext", "streamManifest"}, NEW u \in Tickets,
                      NEW q \in Procs, NEW r \in Procs, job'[q][u].pc = s, job'[r][u].pc = s
               PROVE  q = r
    BY DEF OneWriter, at
  <2>1. CASE u # t \/ (q # p /\ r # p)
    BY <1>2, <2>1 DEF ImportInv, OneWriter, at
  <2>2. CASE u = t /\ q = p /\ r # p
    BY <1>2, <2>2 DEF at
  <2>3. CASE u = t /\ r = p /\ q # p
    BY <1>2, <2>3 DEF at
  <2> QED
    BY <2>1, <2>2, <2>3
<1> QED
  BY <1>3, <1>5, <1>6, <1>7 DEF ImportInv

\* A job that goes on, and one that ends.
LEMMA NextJob ==
  ASSUME ImportInv, NEW p \in Procs, NEW t \in Tickets
  PROVE  /\ \A s \in JobSteps : goto(p, t, s) =>
              \E j \in JobRec : j.pc = s /\ job' = [job EXCEPT ![p][t] = j]
         /\ done(p, t) => \E j \in JobRec : j.pc = "idle" /\ job' = [job EXCEPT ![p][t] = j]
<1>1. job \in [Procs -> [Tickets -> JobRec]]
  BY DEF ImportInv, TypeOK, JobRec
<1>2. ASSUME NEW s \in JobSteps, goto(p, t, s)
      PROVE  \E j \in JobRec : j.pc = s /\ job' = [job EXCEPT ![p][t] = j]
  <2>1. PICK j : j = [job[p][t] EXCEPT !.pc = s]
    OBVIOUS
  <2>2. j \in JobRec /\ j.pc = s
    BY <1>1, <2>1 DEF JobRec
  <2>3. job' = [job EXCEPT ![p][t] = j]
    BY <1>1, <1>2, <2>1 DEF goto
  <2> QED
    BY <2>2, <2>3
<1>3. ASSUME done(p, t)
      PROVE  \E j \in JobRec : j.pc = "idle" /\ job' = [job EXCEPT ![p][t] = j]
  <2>1. NoJob \in JobRec /\ NoJob.pc = "idle"
    BY DEF NoJob, JobRec, JobSteps
  <2> QED
    BY <1>3, <2>1 DEF done
<1> QED
  BY <1>2, <1>3

\* A step that changes no object but a failure marker.
LEMMA PassiveStep ==
  ASSUME ImportInv, UNCHANGED <<pinned, outside, ciphertext, manifest, marked, published, publication>>,
         NEW p \in Procs, NEW t \in Tickets, NEW s \in JobSteps \ {"streamCiphertext", "streamManifest"},
         \E j \in JobRec : j.pc = s /\ job' = [job EXCEPT ![p][t] = j],
         failure' \in [Tickets -> {None, "FAILED", "RECONCILIATION_REQUIRED"}],
         JobOK(t, s)
  PROVE  ImportInv'
<1>1. PICK j \in JobRec : j.pc = s /\ job' = [job EXCEPT ![p][t] = j]
  OBVIOUS
<1>2. ObjectsOK' /\ Advances
  BY DEF ImportInv, TypeOK, ObjectsOK, Advances
<1>3. commit' = commit
  BY DEF outside, files
<1>4. JobOK(t, s)'
  BY <1>3 DEF JobOK, exactObjects
<1>5. JobOK(t, j.pc)'
  BY <1>1, <1>4
<1>6. (\A u \in marked : ciphertext[u] = "exact")' /\ PublishedIsExact'
  BY <1>3 DEF ImportInv, PublishedIsExact
<1> QED
  BY <1>1, <1>2, <1>5, <1>6, JobMove

\* The marker of a failed job.
LEMMA FailureType ==
  ASSUME ImportInv, NEW t \in Tickets, NEW state \in {"FAILED", "RECONCILIATION_REQUIRED"}
  PROVE  recordTerminalFailure(t, state) \in [Tickets -> {None, "FAILED", "RECONCILIATION_REQUIRED"}]
BY DEF ImportInv, TypeOK, recordTerminalFailure

\* A failed job has ended, or has the journal line of its marker to write.
LEMMA FailedJob ==
  ASSUME ImportInv, NEW p \in Procs, NEW t \in Tickets,
         NEW state \in {"FAILED", "RECONCILIATION_REQUIRED"}, failed(p, t, state)
  PROVE  /\ \E s \in {"idle", "log"} : \E j \in JobRec : j.pc = s /\ job' = [job EXCEPT ![p][t] = j]
         /\ failure' \in [Tickets -> {None, "FAILED", "RECONCILIATION_REQUIRED"}]
<1>1. failure' \in [Tickets -> {None, "FAILED", "RECONCILIATION_REQUIRED"}]
  BY FailureType DEF failed
<1>2. done(p, t) \/ goto(p, t, "log")
  BY DEF failed
<1>3. "log" \in JobSteps
  BY DEF JobSteps
<1> QED
  BY <1>1, <1>2, <1>3, NextJob

\* A job that fails changes nothing but its marker.
LEMMA FailedStep ==
  ASSUME ImportInv, UNCHANGED <<pinned, outside, ciphertext, manifest, marked, published, publication>>,
         NEW p \in Procs, NEW t \in Tickets, NEW state \in {"FAILED", "RECONCILIATION_REQUIRED"},
         t \in commit, failed(p, t, state)
  PROVE  ImportInv'
<1>1. PICK s \in {"idle", "log"} : \E j \in JobRec : j.pc = s /\ job' = [job EXCEPT ![p][t] = j]
  BY FailedJob
<1>2. failure' \in [Tickets -> {None, "FAILED", "RECONCILIATION_REQUIRED"}]
  BY FailedJob
<1>3. s \in JobSteps \ {"streamCiphertext", "streamManifest"} /\ JobOK(t, s)
  BY DEF JobSteps, JobOK, WithManifest, Hashed
<1> QED
  BY <1>1, <1>2, <1>3, PassiveStep

\* A job that ends or moves on without touching anything.
LEMMA QuietStep ==
  ASSUME ImportInv, UNCHANGED <<pinned, outside, objects>>, NEW p \in Procs, NEW t \in Tickets,
         \/ done(p, t)
         \/ \E s \in JobSteps \ {"streamCiphertext", "streamManifest"} : goto(p, t, s) /\ JobOK(t, s)
  PROVE  ImportInv'
<1>1. failure' \in [Tickets -> {None, "FAILED", "RECONCILIATION_REQUIRED"}]
  BY DEF ImportInv, TypeOK, objects
<1>2. CASE done(p, t)
  <2>1. \E j \in JobRec : j.pc = "idle" /\ job' = [job EXCEPT ![p][t] = j]
    BY <1>2, NextJob
  <2>2. "idle" \in JobSteps \ {"streamCiphertext", "streamManifest"} /\ JobOK(t, "idle")
    BY DEF JobSteps, JobOK, WithManifest, Hashed
  <2> QED
    BY <1>1, <2>1, <2>2, PassiveStep DEF objects
<1>3. CASE \E s \in JobSteps \ {"streamCiphertext", "streamManifest"} : goto(p, t, s) /\ JobOK(t, s)
  <2>1. PICK s \in JobSteps \ {"streamCiphertext", "streamManifest"} : goto(p, t, s) /\ JobOK(t, s)
    BY <1>3
  <2>2. \E j \in JobRec : j.pc = s /\ job' = [job EXCEPT ![p][t] = j]
    BY <2>1, NextJob
  <2> QED
    BY <1>1, <2>1, <2>2, PassiveStep DEF objects
<1> QED
  BY <1>2, <1>3

\* What a job at a step relies on.
LEMMA JobOf ==
  ASSUME ImportInv, NEW p \in Procs, NEW t \in Tickets, NEW s, at(p, t, s)
  PROVE  JobOK(t, s)
BY DEF ImportInv, at

\* The steps that look at the objects and go on or fail.
LEMMA LookingSteps ==
  ASSUME ImportInv, pinned' = pinned, NEW p \in Procs, NEW t \in Tickets,
         \/ uploadCiphertext(p, t) \/ uploadArtifactManifest(p, t) \/ logged(p, t) \/ logManifest(p, t)
         \/ hashObjects(p, t) \/ reconcilePublication(p, t) \/ verifyArtifact(p, t)
  PROVE  ImportInv'
<1> USE DEF JobSteps, WithManifest, Hashed
<1>1. CASE uploadCiphertext(p, t)
  <2>1. goto(p, t, "stageCiphertext") /\ JobOK(t, "stageCiphertext") /\ UNCHANGED <<pinned, outside, objects>>
    BY <1>1 DEF uploadCiphertext, JobOK
  <2> QED
    BY <2>1, QuietStep
<1>2. CASE uploadArtifactManifest(p, t)
  <2>1. /\ goto(p, t, "stageManifest") /\ JobOK(t, "stageManifest") /\ UNCHANGED <<pinned, outside, objects>>
    BY <1>2 DEF uploadArtifactManifest, manifestInOrder, JobOK
  <2> QED
    BY <2>1, QuietStep
<1>3. CASE logged(p, t)
  BY <1>3, QuietStep DEF logged
<1>9. ASSUME NEW s, JobOK(t, s), s # "idle"
      PROVE  t \in commit
  BY <1>9 DEF JobOK
<1>4. CASE logManifest(p, t)
  <2>1. goto(p, t, "hash") /\ UNCHANGED <<pinned, outside, objects>> /\ JobOK(t, "logManifest")
    BY <1>4, JobOf DEF logManifest
  <2>2. JobOK(t, "hash")
    BY <2>1 DEF JobOK
  <2> QED
    BY <2>1, <2>2, QuietStep
<1>5. ASSUME NEW s \in Hashed, goto(p, t, s), JobOK(t, s), UNCHANGED <<outside, objects>>
      PROVE  ImportInv'
  BY <1>5, QuietStep
<1>6. CASE hashObjects(p, t)
  <2>1. UNCHANGED <<outside, ciphertext, manifest, marked, published, publication>> /\ JobOK(t, "hash")
    BY <1>6, JobOf DEF hashObjects
  <2>2. CASE exactObjects(t)
    <3>1. PICK s : s = IF job[p][t].recovered THEN "reconcile" ELSE "verify"
      OBVIOUS
    <3>2. goto(p, t, s) /\ s \in {"reconcile", "verify"} /\ failure' = failure
      BY <1>6, <2>2, <3>1 DEF hashObjects, goto
    <3>3. JobOK(t, s)
      BY <2>1, <2>2, <3>2 DEF JobOK
    <3> QED
      BY <1>5, <2>1, <3>2, <3>3 DEF objects
  <2>3. CASE ~exactObjects(t)
    BY <1>6, <1>9, <2>1, <2>3, FailedStep DEF hashObjects
  <2> QED
    BY <2>2, <2>3
<1>7. CASE reconcilePublication(p, t)
  <2>1. UNCHANGED <<outside, ciphertext, manifest, marked, published, publication>> /\ JobOK(t, "reconcile")
    BY <1>7, JobOf DEF reconcilePublication
  <2>2. CASE failed(p, t, "FAILED")
    BY <1>9, <2>1, <2>2, FailedStep
  <2>3. CASE publication[t] = "complete" /\ goto(p, t, "mark") /\ UNCHANGED failure
    <3>1. JobOK(t, "mark")
      BY <2>1, <2>3 DEF JobOK
    <3> QED
      BY <1>5, <2>1, <2>3, <3>1 DEF objects
  <2>4. CASE goto(p, t, "verify") /\ UNCHANGED failure
    <3>1. JobOK(t, "verify")
      BY <2>1 DEF JobOK
    <3> QED
      BY <1>5, <2>1, <2>4, <3>1 DEF objects
  <2> QED
    BY <1>7, <2>2, <2>3, <2>4 DEF reconcilePublication, notCompleted
<1>8. CASE verifyArtifact(p, t)
  <2>1. UNCHANGED <<outside, ciphertext, manifest, marked, published, publication>> /\ JobOK(t, "verify")
    BY <1>8, JobOf DEF verifyArtifact
  <2>2. CASE failed(p, t, "FAILED")
    BY <1>9, <2>1, <2>2, FailedStep
  <2>3. CASE goto(p, t, "publish") /\ UNCHANGED failure
    <3>1. JobOK(t, "publish")
      BY <2>1 DEF JobOK
    <3> QED
      BY <1>5, <2>1, <2>3, <3>1 DEF objects
  <2> QED
    BY <1>8, <2>2, <2>3 DEF verifyArtifact
<1> QED
  BY <1>1, <1>2, <1>3, <1>4, <1>6, <1>7, <1>8

\* A stream that is refused, because there is an object.
LEMMA ReplayedStep ==
  ASSUME ImportInv, UNCHANGED <<pinned, outside, ciphertext, manifest, marked, published, publication>>,
         NEW p \in Procs, NEW t \in Tickets, t \in commit, replayed(p, t)
  PROVE  ImportInv'
<1>1. CASE pinned
  BY <1>1, FailedStep DEF replayed
<1>2. CASE ~pinned
  BY <1>2, QuietStep DEF replayed, objects
<1> QED
  BY <1>1, <1>2

\* The bytes of one object change, and the job goes on or ends.
LEMMA CiphertextWritten ==
  ASSUME ImportInv, UNCHANGED <<pinned, outside, manifest, marked, published, publication>>,
         failure' \in [Tickets -> {None, "FAILED", "RECONCILIATION_REQUIRED"}],
         NEW p \in Procs, NEW t \in Tickets, t \in commit, ciphertext[t] # "exact",
         \A q \in Procs : at(q, t, "streamCiphertext") => q = p,
         NEW s \in {"idle", "log", "streamCiphertext", "markCiphertext"},
         \E j \in JobRec : j.pc = s /\ job' = [job EXCEPT ![p][t] = j],
         ciphertext' = [ciphertext EXCEPT ![t] =
           IF s \in {"idle", "log"} THEN "absent" ELSE IF s = "streamCiphertext" THEN "partial" ELSE "exact"]
  PROVE  ImportInv'
<1>1. PICK j \in JobRec : j.pc = s /\ job' = [job EXCEPT ![p][t] = j]
  OBVIOUS
<1>2. PICK v : v = IF s \in {"idle", "log"} THEN "absent" ELSE IF s = "streamCiphertext" THEN "partial" ELSE "exact"
  OBVIOUS
<1>3. v \in {"absent", "partial", "exact"} /\ ciphertext \in [Tickets -> {"absent", "partial", "exact"}]
  BY <1>2 DEF ImportInv, TypeOK
<1>4. ciphertext' \in [Tickets -> {"absent", "partial", "exact"}] /\ ciphertext'[t] = v
      /\ \A u \in Tickets : u # t => ciphertext'[u] = ciphertext[u]
  BY <1>2, <1>3
<1>5. ObjectsOK' /\ Advances
  BY <1>4 DEF ImportInv, TypeOK, ObjectsOK, Advances
<1>6. commit' = commit
  BY DEF outside, files
<1>7. JobOK(t, s)'
  BY <1>2, <1>4, <1>6 DEF JobOK, WithManifest, Hashed
<1>8. JobOK(t, j.pc)'
  BY <1>1, <1>7
<1>9. (\A u \in marked : ciphertext[u] = "exact")'
  BY <1>4 DEF ImportInv, TypeOK
<1>10. PublishedIsExact'
  BY <1>4, <1>6 DEF ImportInv, TypeOK, PublishedIsExact
<1>11. j.pc # "streamManifest"
  BY <1>1
<1> QED
  BY <1>1, <1>4, <1>5, <1>8, <1>9, <1>10, <1>11, JobMove

\* The same for the manifest.
LEMMA ManifestWritten ==
  ASSUME ImportInv, UNCHANGED <<pinned, outside, ciphertext, marked, published, publication>>,
         failure' \in [Tickets -> {None, "FAILED", "RECONCILIATION_REQUIRED"}],
         NEW p \in Procs, NEW t \in Tickets, t \in commit, t \in marked, manifest[t] # "exact",
         \A q \in Procs : at(q, t, "streamManifest") => q = p,
         NEW s \in {"idle", "log", "streamManifest", "logManifest"},
         \E j \in JobRec : j.pc = s /\ job' = [job EXCEPT ![p][t] = j],
         manifest' = [manifest EXCEPT ![t] =
           IF s \in {"idle", "log"} THEN "absent" ELSE IF s = "streamManifest" THEN "partial" ELSE "exact"]
  PROVE  ImportInv'
<1>1. PICK j \in JobRec : j.pc = s /\ job' = [job EXCEPT ![p][t] = j]
  OBVIOUS
<1>2. PICK v : v = IF s \in {"idle", "log"} THEN "absent" ELSE IF s = "streamManifest" THEN "partial" ELSE "exact"
  OBVIOUS
<1>3. v \in {"absent", "partial", "exact"} /\ manifest \in [Tickets -> {"absent", "partial", "exact"}]
  BY <1>2 DEF ImportInv, TypeOK
<1>4. manifest' \in [Tickets -> {"absent", "partial", "exact"}] /\ manifest'[t] = v
      /\ \A u \in Tickets : u # t => manifest'[u] = manifest[u]
  BY <1>2, <1>3
<1>5. ObjectsOK' /\ Advances
  BY <1>4 DEF ImportInv, TypeOK, ObjectsOK, Advances
<1>6. commit' = commit
  BY DEF outside, files
<1>7. JobOK(t, s)'
  BY <1>2, <1>4, <1>6 DEF JobOK, WithManifest, Hashed
<1>8. JobOK(t, j.pc)'
  BY <1>1, <1>7
<1>9. (\A u \in marked : ciphertext[u] = "exact")'
  BY DEF ImportInv
<1>10. PublishedIsExact'
  BY <1>4, <1>6 DEF ImportInv, TypeOK, PublishedIsExact
<1>11. j.pc # "streamCiphertext"
  BY <1>1
<1> QED
  BY <1>1, <1>4, <1>5, <1>8, <1>9, <1>10, <1>11, JobMove

\* The ciphertext arrives.
LEMMA CiphertextSteps ==
  ASSUME ImportInv, pinned' = pinned, NEW p \in Procs, NEW t \in Tickets,
         stageCiphertext(p, t) \/ streamCiphertext(p, t)
  PROVE  ImportInv'
<1>1. UNCHANGED <<outside, manifest, marked, published, publication>>
  BY DEF stageCiphertext, streamCiphertext
<1>2. t \in commit
  BY JobOf DEF JobOK, stageCiphertext, streamCiphertext
<1>3. UNCHANGED failure => failure' \in [Tickets -> {None, "FAILED", "RECONCILIATION_REQUIRED"}]
  BY DEF ImportInv, TypeOK
<1>4. {"markCiphertext", "streamCiphertext"} \subseteq JobSteps
  BY DEF JobSteps
<1>5. CASE stageCiphertext(p, t)
  <2>1. CASE ciphertext' = ciphertext
    <3>1. ciphertext[t] = "absent" =>
            ciphertext' # [ciphertext EXCEPT ![t] = "exact"] /\ ciphertext' # [ciphertext EXCEPT ![t] = "partial"]
      BY <2>1 DEF ImportInv, TypeOK
    <3>2. replayed(p, t) \/ failed(p, t, "FAILED")
      BY <1>5, <3>1 DEF stageCiphertext
    <3> QED
      BY <1>1, <1>2, <2>1, <3>2, ReplayedStep, FailedStep
  <2>2. ASSUME ciphertext[t] = "absent"
        PROVE  \A q \in Procs : ~at(q, t, "streamCiphertext")
    BY <2>2 DEF ImportInv, JobOK, at
  <2>3. CASE ciphertext[t] = "absent" /\ ciphertext' = [ciphertext EXCEPT ![t] = "exact"]
             /\ goto(p, t, "markCiphertext") /\ UNCHANGED failure
    <3>1. \E j \in JobRec : j.pc = "markCiphertext" /\ job' = [job EXCEPT ![p][t] = j]
      BY <1>4, <2>3, NextJob
    <3> QED
      BY <1>1, <1>2, <1>3, <2>2, <2>3, <3>1, CiphertextWritten
  <2>4. CASE ciphertext[t] = "absent" /\ ciphertext' = [ciphertext EXCEPT ![t] = "partial"]
             /\ goto(p, t, "streamCiphertext") /\ UNCHANGED failure
    <3>1. \E j \in JobRec : j.pc = "streamCiphertext" /\ job' = [job EXCEPT ![p][t] = j]
      BY <1>4, <2>4, NextJob
    <3> QED
      BY <1>1, <1>2, <1>3, <2>2, <2>4, <3>1, CiphertextWritten
  <2> QED
    BY <1>5, <2>1, <2>3, <2>4 DEF stageCiphertext
<1>6. CASE streamCiphertext(p, t)
  <2>1. ciphertext[t] = "partial" /\ \A q \in Procs : at(q, t, "streamCiphertext") => q = p
    BY <1>6, JobOf DEF JobOK, streamCiphertext, ImportInv, OneWriter
  <2>2. CASE ciphertext' = [ciphertext EXCEPT ![t] = "exact"] /\ goto(p, t, "markCiphertext") /\ UNCHANGED failure
    <3>1. \E j \in JobRec : j.pc = "markCiphertext" /\ job' = [job EXCEPT ![p][t] = j]
      BY <1>4, <2>2, NextJob
    <3> QED
      BY <1>1, <1>2, <1>3, <2>1, <2>2, <3>1, CiphertextWritten
  <2>3. CASE ciphertext' = [ciphertext EXCEPT ![t] = "absent"] /\ failed(p, t, "FAILED")
    <3>1. PICK s \in {"idle", "log"} : \E j \in JobRec : j.pc = s /\ job' = [job EXCEPT ![p][t] = j]
      BY <2>3, FailedJob
    <3>2. failure' \in [Tickets -> {None, "FAILED", "RECONCILIATION_REQUIRED"}]
      BY <2>3, FailedJob
    <3> QED
      BY <1>1, <1>2, <2>1, <2>3, <3>1, <3>2, CiphertextWritten
  <2> QED
    BY <1>6, <2>2, <2>3 DEF streamCiphertext
<1> QED
  BY <1>5, <1>6

\* The manifest arrives.
LEMMA ManifestSteps ==
  ASSUME ImportInv, pinned' = pinned, NEW p \in Procs, NEW t \in Tickets,
         stageManifest(p, t) \/ streamManifest(p, t)
  PROVE  ImportInv'
<1>1. UNCHANGED <<outside, ciphertext, marked, published, publication>>
  BY DEF stageManifest, streamManifest
<1>2. t \in commit /\ t \in marked
  BY JobOf DEF JobOK, stageManifest, streamManifest, WithManifest
<1>3. UNCHANGED failure => failure' \in [Tickets -> {None, "FAILED", "RECONCILIATION_REQUIRED"}]
  BY DEF ImportInv, TypeOK
<1>4. {"logManifest", "streamManifest"} \subseteq JobSteps
  BY DEF JobSteps
<1>5. CASE stageManifest(p, t)
  <2>1. CASE manifest' = manifest
    <3>1. manifest[t] = "absent" =>
            manifest' # [manifest EXCEPT ![t] = "exact"] /\ manifest' # [manifest EXCEPT ![t] = "partial"]
      BY <2>1 DEF ImportInv, TypeOK
    <3>2. replayed(p, t) \/ failed(p, t, "FAILED")
      BY <1>5, <3>1 DEF stageManifest
    <3> QED
      BY <1>1, <1>2, <2>1, <3>2, ReplayedStep, FailedStep
  <2>2. ASSUME manifest[t] = "absent"
        PROVE  \A q \in Procs : ~at(q, t, "streamManifest")
    BY <2>2 DEF ImportInv, JobOK, at
  <2>3. CASE manifest[t] = "absent" /\ manifest' = [manifest EXCEPT ![t] = "exact"]
             /\ goto(p, t, "logManifest") /\ UNCHANGED failure
    <3>1. \E j \in JobRec : j.pc = "logManifest" /\ job' = [job EXCEPT ![p][t] = j]
      BY <1>4, <2>3, NextJob
    <3> QED
      BY <1>1, <1>2, <1>3, <2>2, <2>3, <3>1, ManifestWritten
  <2>4. CASE manifest[t] = "absent" /\ manifest' = [manifest EXCEPT ![t] = "partial"]
             /\ goto(p, t, "streamManifest") /\ UNCHANGED failure
    <3>1. \E j \in JobRec : j.pc = "streamManifest" /\ job' = [job EXCEPT ![p][t] = j]
      BY <1>4, <2>4, NextJob
    <3> QED
      BY <1>1, <1>2, <1>3, <2>2, <2>4, <3>1, ManifestWritten
  <2> QED
    BY <1>5, <2>1, <2>3, <2>4 DEF stageManifest
<1>6. CASE streamManifest(p, t)
  <2>1. manifest[t] = "partial" /\ \A q \in Procs : at(q, t, "streamManifest") => q = p
    BY <1>6, JobOf DEF JobOK, streamManifest, ImportInv, OneWriter
  <2>2. CASE manifest' = [manifest EXCEPT ![t] = "exact"] /\ goto(p, t, "logManifest") /\ UNCHANGED failure
    <3>1. \E j \in JobRec : j.pc = "logManifest" /\ job' = [job EXCEPT ![p][t] = j]
      BY <1>4, <2>2, NextJob
    <3> QED
      BY <1>1, <1>2, <1>3, <2>1, <2>2, <3>1, ManifestWritten
  <2>3. CASE manifest' = [manifest EXCEPT ![t] = "absent"] /\ failed(p, t, "FAILED")
    <3>1. PICK s \in {"idle", "log"} : \E j \in JobRec : j.pc = s /\ job' = [job EXCEPT ![p][t] = j]
      BY <2>3, FailedJob
    <3>2. failure' \in [Tickets -> {None, "FAILED", "RECONCILIATION_REQUIRED"}]
      BY <2>3, FailedJob
    <3> QED
      BY <1>1, <1>2, <2>1, <2>3, <3>1, <3>2, ManifestWritten
  <2> QED
    BY <1>6, <2>2, <2>3 DEF streamManifest
<1> QED
  BY <1>5, <1>6

\* Markers are written, and the publisher works.
LEMMA MarkerMoved ==
  ASSUME ImportInv, UNCHANGED <<pinned, outside, ciphertext, manifest>>, ObjectsOK', Advances,
         NEW p \in Procs, NEW t \in Tickets, NEW s \in JobSteps \ {"streamCiphertext", "streamManifest"},
         \E j \in JobRec : j.pc = s /\ job' = [job EXCEPT ![p][t] = j], JobOK(t, s)',
         (\A u \in marked : ciphertext[u] = "exact")', PublishedIsExact'
  PROVE  ImportInv'
<1>1. PICK j \in JobRec : j.pc = s /\ job' = [job EXCEPT ![p][t] = j]
  OBVIOUS
<1>2. JobOK(t, j.pc)'
  BY <1>1
<1> QED
  BY <1>1, <1>2, JobMove

\* The ciphertext is recorded.
LEMMA MarkCiphertextStep ==
  ASSUME ImportInv, pinned' = pinned, NEW p \in Procs, NEW t \in Tickets, markCiphertext(p, t)
  PROVE  ImportInv'
<1>1. UNCHANGED <<outside, ciphertext, manifest, published, publication>> /\ JobOK(t, "markCiphertext")
  BY JobOf DEF markCiphertext
<1>2. commit' = commit
  BY <1>1 DEF outside, files
<1>3. CASE marked' = marked \cup {t} /\ goto(p, t, "log") /\ UNCHANGED failure
  <2>1. "log" \in JobSteps \ {"streamCiphertext", "streamManifest"}
    BY DEF JobSteps
  <2>2. \E j \in JobRec : j.pc = "log" /\ job' = [job EXCEPT ![p][t] = j]
    BY <1>3, <2>1, NextJob
  <2>3. ObjectsOK' /\ Advances
    BY <1>1, <1>3 DEF ImportInv, TypeOK, ObjectsOK, Advances
  <2>4. JobOK(t, "log")'
    BY <1>1, <1>2 DEF JobOK, WithManifest, Hashed
  <2>5. (\A u \in marked : ciphertext[u] = "exact")' /\ PublishedIsExact'
    BY <1>1, <1>2, <1>3 DEF ImportInv, JobOK, PublishedIsExact
  <2> QED
    BY <1>1, <2>1, <2>2, <2>3, <2>4, <2>5, MarkerMoved
<1>4. CASE failed(p, t, "FAILED") /\ UNCHANGED marked
  <2>1. t \in commit
    BY <1>1 DEF JobOK
  <2> QED
    BY <1>1, <1>4, <2>1, FailedStep
<1> QED
  BY <1>3, <1>4 DEF markCiphertext

\* The publisher begins, completes, or is given up on.
LEMMA PublisherSteps ==
  ASSUME ImportInv, pinned' = pinned, NEW p \in Procs, NEW t \in Tickets,
         publishArtifact(p, t) \/ publishReturns(p, t)
  PROVE  ImportInv'
<1>1. UNCHANGED <<outside, ciphertext, manifest, marked, published>>
  BY DEF publishArtifact, publishReturns
<1>2. JobOK(t, "publish")
  BY JobOf DEF publishArtifact, publishReturns, JobOK, WithManifest, Hashed
<1>3. commit' = commit
  BY <1>1 DEF outside, files
<1>4. ASSUME NEW v \in {"begun", "complete"}, publication' = [publication EXCEPT ![t] = v],
             publication[t] # "complete" \/ v = "complete",
             NEW s \in {"publishing", "mark", "idle", "log"}, s = "mark" => v = "complete",
             \E j \in JobRec : j.pc = s /\ job' = [job EXCEPT ![p][t] = j],
             failure' \in [Tickets -> {None, "FAILED", "RECONCILIATION_REQUIRED"}]
      PROVE  ImportInv'
  <2>1. publication \in [Tickets -> {"none", "begun", "complete"}]
    BY DEF ImportInv, TypeOK
  <2>2. /\ publication' \in [Tickets -> {"none", "begun", "complete"}] /\ publication'[t] = v
        /\ \A u \in Tickets : u # t => publication'[u] = publication[u]
    BY <1>4, <2>1
  <2>3. ObjectsOK' /\ Advances
    BY <1>1, <1>4, <2>2 DEF ImportInv, TypeOK, ObjectsOK, Advances
  <2>4. s \in JobSteps \ {"streamCiphertext", "streamManifest"}
    BY DEF JobSteps
  <2>5. JobOK(t, s)'
    BY <1>1, <1>2, <1>3, <1>4, <2>2 DEF JobOK, WithManifest, Hashed, exactObjects
  <2>6. (\A u \in marked : ciphertext[u] = "exact")' /\ PublishedIsExact'
    BY <1>1, <1>3, <2>3 DEF ImportInv, TypeOK, PublishedIsExact, Advances
  <2> QED
    BY <1>1, <1>4, <2>3, <2>4, <2>5, <2>6, MarkerMoved
<1>5. failure \in [Tickets -> {None, "FAILED", "RECONCILIATION_REQUIRED"}]
  BY DEF ImportInv, TypeOK
<1>6. {"publishing", "mark"} \subseteq JobSteps /\ t \in commit
  BY <1>2 DEF JobSteps, JobOK
<1>7. CASE publishArtifact(p, t)
  <2>1. CASE publication[t] = "complete"
    BY <1>1, <1>6, <1>7, <2>1, FailedStep DEF publishArtifact
  <2>2. CASE publication[t] # "complete"
    <3>1. publication' = [publication EXCEPT ![t] = "begun"] /\ goto(p, t, "publishing") /\ failure' = failure
      BY <1>7, <2>2 DEF publishArtifact
    <3>2. \E j \in JobRec : j.pc = "publishing" /\ job' = [job EXCEPT ![p][t] = j]
      BY <1>6, <3>1, NextJob
    <3> QED
      BY <1>4, <1>5, <2>2, <3>1, <3>2
  <2> QED
    BY <2>1, <2>2
<1>8. CASE publishReturns(p, t)
  <2>1. CASE publication' = [publication EXCEPT ![t] = "complete"] /\ goto(p, t, "mark") /\ UNCHANGED failure
    <3>1. \E j \in JobRec : j.pc = "mark" /\ job' = [job EXCEPT ![p][t] = j]
      BY <1>6, <2>1, NextJob
    <3> QED
      BY <1>4, <1>5, <2>1, <3>1
  <2>2. CASE publication' = publication /\ failed(p, t, "RECONCILIATION_REQUIRED")
    BY <1>1, <1>6, <2>2, FailedStep
  <2>3. CASE publication' = [publication EXCEPT ![t] = "complete"] /\ failed(p, t, "RECONCILIATION_REQUIRED")
    <3>1. PICK s \in {"idle", "log"} : \E j \in JobRec : j.pc = s /\ job' = [job EXCEPT ![p][t] = j]
      BY <2>3, FailedJob
    <3>2. failure' \in [Tickets -> {None, "FAILED", "RECONCILIATION_REQUIRED"}]
      BY <2>3, FailedJob
    <3> QED
      BY <1>4, <2>3, <3>1, <3>2
  <2> QED
    BY <1>8, <2>1, <2>2, <2>3 DEF publishReturns
<1> QED
  BY <1>7, <1>8

\* The import is marked as published.
LEMMA MarkPublishedStep ==
  ASSUME ImportInv, pinned' = pinned, NEW p \in Procs, NEW t \in Tickets, markPublished(p, t)
  PROVE  ImportInv'
<1>1. UNCHANGED <<outside, ciphertext, manifest, marked, publication>> /\ JobOK(t, "mark")
  BY JobOf DEF markPublished
<1>2. commit' = commit
  BY <1>1 DEF outside, files
<1>3. CASE published' = published \cup {t} /\ goto(p, t, "log") /\ UNCHANGED failure
  <2>1. "log" \in JobSteps \ {"streamCiphertext", "streamManifest"}
    BY DEF JobSteps
  <2>2. \E j \in JobRec : j.pc = "log" /\ job' = [job EXCEPT ![p][t] = j]
    BY <1>3, <2>1, NextJob
  <2>3. ObjectsOK' /\ Advances
    BY <1>1, <1>3 DEF ImportInv, TypeOK, ObjectsOK, Advances
  <2>4. JobOK(t, "log")'
    BY <1>1, <1>2 DEF JobOK, WithManifest, Hashed
  <2>5. t \in commit /\ t \in marked /\ publication[t] = "complete" /\ exactObjects(t)
    BY <1>1 DEF JobOK, WithManifest, Hashed
  <2>6. (\A u \in marked : ciphertext[u] = "exact")' /\ PublishedIsExact'
    BY <1>1, <1>2, <1>3, <2>5 DEF ImportInv, PublishedIsExact, exactObjects
  <2> QED
    BY <1>1, <2>1, <2>2, <2>3, <2>4, <2>6, MarkerMoved
<1>4. CASE failed(p, t, "FAILED") /\ UNCHANGED published
  <2>1. t \in commit
    BY <1>1 DEF JobOK
  <2> QED
    BY <1>1, <1>4, <2>1, FailedStep
<1> QED
  BY <1>3, <1>4 DEF markPublished

-----------------------------------------------------------------------------
\* Recovery, crashes and time.

\* A publisher without a coordinator completes.
LEMMA PublishAloneStep ==
  ASSUME ImportInv, pinned' = pinned, NEW t \in Tickets, publishAlone(t)
  PROVE  ImportInv'
<1>1. UNCHANGED <<outside, job, ciphertext, manifest, marked, published, failure>>
      /\ publication' = [publication EXCEPT ![t] = "complete"]
  BY DEF publishAlone
<1>2. commit' = commit /\ gate' = gate
  BY <1>1 DEF outside, files
<1>3. Advances
  BY <1>1 DEF ImportInv, TypeOK, Advances
<1>4. TypeOK'
  BY <1>1 DEF ImportInv, TypeOK, outside, files
<1>5. \A q \in Procs : GateOK(gate[q])'
  BY <1>2 DEF ImportInv, GateOK
<1>6. \A q \in Procs, u \in Tickets : JobOK(u, job[q][u].pc)'
  <2> SUFFICES ASSUME NEW q \in Procs, NEW u \in Tickets
               PROVE  JobOK(u, job[q][u].pc)'
    OBVIOUS
  <2>1. PICK s : s = job[q][u].pc
    OBVIOUS
  <2>2. JobOK(u, s)
    BY <2>1 DEF ImportInv
  <2>3. JobOK(u, s)'
    BY <1>1, <1>2, <1>3, <2>2, JobStays
  <2> QED
    BY <1>1, <2>1, <2>3 DEF JobOK, exactObjects
<1>7. OneWriter'
  BY <1>1 DEF ImportInv, OneWriter, at
<1>8. (\A u \in marked : ciphertext[u] = "exact")' /\ PublishedIsExact'
  BY <1>1, <1>2, <1>3 DEF ImportInv, TypeOK, PublishedIsExact, Advances
<1> QED
  BY <1>4, <1>5, <1>6, <1>7, <1>8 DEF ImportInv

\* The expiry of an authorization, and steps that change nothing.
LEMMA IdleStep ==
  ASSUME ImportInv, UNCHANGED <<pinned, up, gate, job, client, files, objects, torn, crashes>>,
         expired' \subseteq Tickets
  PROVE  ImportInv'
<1>1. TypeOK'
  BY DEF ImportInv, TypeOK, files, objects
<1>2. \A q \in Procs : GateOK(gate[q])'
  BY DEF ImportInv, GateOK, files
<1>3. \A q \in Procs, u \in Tickets : JobOK(u, job[q][u].pc)'
  BY DEF ImportInv, JobOK, exactObjects, files, objects
<1>4. OneWriter'
  BY DEF ImportInv, OneWriter, at
<1>5. (\A u \in marked : ciphertext[u] = "exact")' /\ PublishedIsExact'
  BY DEF ImportInv, PublishedIsExact, files, objects
<1> QED
  BY <1>1, <1>2, <1>3, <1>4, <1>5 DEF ImportInv

\* A process dies: its jobs and its lock are gone, the files stay.
LEMMA CrashStep ==
  ASSUME ImportInv, pinned' = pinned, NEW p \in Procs, crash(p)
  PROVE  ImportInv'
<1>1. /\ gate' = [gate EXCEPT ![p] = Free] /\ job' = [job EXCEPT ![p] = [t \in Tickets |-> NoJob]]
      /\ UNCHANGED <<commit, claim, objects, expired>>
  BY DEF crash
<1>2. gate \in [Procs -> GateRec] /\ job \in [Procs -> [Tickets -> JobRec]]
  BY DEF ImportInv, TypeOK, GateRec, JobRec
<1>3. Free \in GateRec /\ GateOK(Free)
  BY FreeGate
<1>4. NoJob \in JobRec /\ NoJob.pc = "idle"
  BY DEF NoJob, JobRec, JobSteps
<1>5. /\ gate' \in [Procs -> GateRec] /\ \A q \in Procs : gate'[q] = IF q = p THEN Free ELSE gate[q]
      /\ job' \in [Procs -> [Tickets -> JobRec]]
      /\ \A q \in Procs, u \in Tickets : job'[q][u] = IF q = p THEN NoJob ELSE job[q][u]
  BY <1>1, <1>2, <1>3, <1>4
<1>6. crashes' \in 0 .. MaxCrashes /\ torn' \in BOOLEAN
  <2>1. crashes \in 0 .. MaxCrashes /\ crashes < MaxCrashes /\ crashes' = crashes + 1
    BY DEF ImportInv, TypeOK, crash
  <2>2. MaxCrashes \in Nat
    BY ImportAssumption
  <2>3. crashes' \in 0 .. MaxCrashes
    BY <2>1, <2>2
  <2>4. torn \in BOOLEAN /\ (torn' = torn \/ torn' = TRUE)
    BY DEF ImportInv, TypeOK, crash
  <2>5. torn' \in BOOLEAN
    BY <2>4, Zenon
  <2> QED
    BY <2>3, <2>5
<1>7. FilesOK'
  BY <1>1 DEF ImportInv, TypeOK, FilesOK, crash
<1>8. TypeOK'
  BY <1>1, <1>5, <1>6, <1>7 DEF ImportInv, TypeOK, FilesOK, GateRec, JobRec, objects
<1>9. \A q \in Procs : GateOK(gate[q])'
  BY <1>1, <1>3, <1>5 DEF ImportInv, GateOK
<1>10. \A q \in Procs, u \in Tickets : JobOK(u, job[q][u].pc)'
  <2> SUFFICES ASSUME NEW q \in Procs, NEW u \in Tickets
               PROVE  JobOK(u, job[q][u].pc)'
    OBVIOUS
  <2>1. CASE q = p
    BY <1>4, <1>5, <2>1 DEF JobOK, WithManifest, Hashed
  <2>2. CASE q # p
    BY <1>1, <1>5, <2>2 DEF ImportInv, JobOK, exactObjects, objects
  <2> QED
    BY <2>1, <2>2
<1>11. OneWriter'
  BY <1>4, <1>5 DEF ImportInv, OneWriter, at
<1>12. (\A u \in marked : ciphertext[u] = "exact")' /\ PublishedIsExact'
  BY <1>1 DEF ImportInv, PublishedIsExact, objects
<1> QED
  BY <1>8, <1>9, <1>10, <1>11, <1>12 DEF ImportInv

\* A started process takes up the imports it finds.
LEMMA RecoverStep ==
  ASSUME ImportInv, pinned' = pinned, NEW p \in Procs, NEW t \in Tickets, recover(p, t)
  PROVE  ImportInv'
<1> PICK g : g = gate[p]
  OBVIOUS
<1> PICK h : h = [g EXCEPT !.todo = @ \ {t}]
  OBVIOUS
<1>1. g \in GateRec /\ GateOK(g) /\ gate \in [Procs -> GateRec] /\ FilesOK
  BY GateOf
<1>2. g.pc = "recover" /\ t \in g.todo
      /\ UNCHANGED <<up, client, files, ciphertext, manifest, published, publication, torn, expired, crashes>>
  BY DEF recover
<1>3. t \in commit /\ commit' = commit
  BY <1>1, <1>2 DEF GateOK, files
<1>4. h \in GateRec /\ h.pc = "recover" /\ h.for = g.for /\ h.t = g.t /\ h.todo \subseteq g.todo
  BY <1>1, <1>2 DEF GateRec
<1>5. gate' = [gate EXCEPT ![p] = h]
  BY <1>1 DEF recover
<1>6. gate' \in [Procs -> GateRec] /\ \A q \in Procs : gate'[q] = IF q = p THEN h ELSE gate[q]
  BY <1>1, <1>4, <1>5
<1>7. \A q \in Procs : GateOK(gate[q])'
  <2> SUFFICES ASSUME NEW q \in Procs
               PROVE  GateOK(gate[q])'
    OBVIOUS
  <2>1. CASE q = p
    BY <1>1, <1>2, <1>3, <1>4, <1>6, <2>1 DEF GateOK
  <2>2. CASE q # p
    BY <1>3, <1>6, <2>2 DEF ImportInv, GateOK
  <2> QED
    BY <2>1, <2>2
<1>8. /\ marked \subseteq marked' /\ marked' \subseteq marked \cup {t}
      /\ marked' # marked => ciphertext[t] = "exact"
      /\ failure' \in [Tickets -> {None, "FAILED", "RECONCILIATION_REQUIRED"}]
  BY FailureType DEF recover, ImportInv, TypeOK
<1>9. job \in [Procs -> [Tickets -> JobRec]]
  BY DEF ImportInv, TypeOK, JobRec
<1>10. \/ job' = job
       \/ \E j \in JobRec : /\ (j.pc = "log" \/ (j.pc = "hash" /\ t \in marked'))
                            /\ job' = [job EXCEPT ![p][t] = j]
  <2>1. /\ [pc |-> "hash", recovered |-> TRUE, uncertain |-> failure[t] # None] \in JobRec
        /\ [pc |-> "log", recovered |-> TRUE, uncertain |-> FALSE] \in JobRec
    BY DEF JobRec, JobSteps
  <2> QED
    BY <2>1 DEF recover
<1>11. /\ job' \in [Procs -> [Tickets -> JobRec]]
       /\ \A q \in Procs, u \in Tickets :
            \/ job'[q][u] = job[q][u]
            \/ u = t /\ (job'[q][u].pc = "log" \/ (job'[q][u].pc = "hash" /\ t \in marked'))
  BY <1>9, <1>10
<1>12. TypeOK'
  BY <1>2, <1>6, <1>8, <1>11 DEF ImportInv, TypeOK, GateRec, JobRec, files
<1>13. Advances
  BY <1>2, <1>8 DEF Advances
<1>14. \A q \in Procs, u \in Tickets : JobOK(u, job[q][u].pc)'
  <2> SUFFICES ASSUME NEW q \in Procs, NEW u \in Tickets
               PROVE  JobOK(u, job[q][u].pc)'
    OBVIOUS
  <2>1. CASE job'[q][u] = job[q][u]
    <3>1. PICK s : s = job[q][u].pc
      OBVIOUS
    <3>2. JobOK(u, s)
      BY <3>1 DEF ImportInv
    <3>3. JobOK(u, s)'
      BY <1>2, <1>3, <1>13, <3>2, JobStays
    <3> QED
      BY <2>1, <3>1, <3>3 DEF JobOK, exactObjects
  <2>2. CASE u = t /\ (job'[q][u].pc = "log" \/ (job'[q][u].pc = "hash" /\ t \in marked'))
    BY <1>3, <2>2 DEF JobOK, WithManifest, Hashed
  <2> QED
    BY <1>11, <2>1, <2>2
<1>15. OneWriter'
  <2>1. \A s \in {"streamCiphertext", "streamManifest"}, q \in Procs, u \in Tickets :
          job'[q][u].pc = s => job[q][u].pc = s
    BY <1>11
  <2> QED
    BY <2>1 DEF ImportInv, OneWriter, at
<1>16. (\A u \in marked : ciphertext[u] = "exact")' /\ PublishedIsExact'
  BY <1>2, <1>3, <1>8 DEF ImportInv, PublishedIsExact
<1> QED
  BY <1>7, <1>12, <1>14, <1>15, <1>16 DEF ImportInv

\* Every step keeps the invariant, whichever process takes it.
LEMMA ImportStep ==
  ASSUME ImportInv, [Next]_vars
  PROVE  ImportInv'
<1>1. ASSUME pinned' = pinned, NEW p \in Procs, createCoordinator(p) \/ reserveStep(p) \/ crash(p)
      PROVE  ImportInv'
  BY <1>1, BeginSteps, ScanSteps, RollBackSteps, ReserveSteps, RecoverStep, CrashStep DEF reserveStep
<1>2. ASSUME pinned' = pinned, NEW p \in Procs, NEW t \in Tickets,
             beginImport(p, t) \/ jobStep(p, t) \/ uploadCiphertext(p, t) \/ uploadArtifactManifest(p, t)
      PROVE  ImportInv'
  <2>1. CASE beginImport(p, t)
    BY <1>2, <2>1, BeginSteps
  <2>2. CASE jobStep(p, t)
    BY <1>2, <2>2, CiphertextSteps, MarkCiphertextStep, LookingSteps, ManifestSteps, PublisherSteps,
       MarkPublishedStep DEF jobStep
  <2>3. CASE uploadCiphertext(p, t) \/ uploadArtifactManifest(p, t)
    BY <1>2, <2>3, LookingSteps
  <2> QED
    BY <1>2, <2>1, <2>2, <2>3
<1>3. ASSUME pinned' = pinned, NEW t \in Tickets, publishAlone(t) \/ expire(t)
      PROVE  ImportInv'
  <2>1. CASE publishAlone(t)
    BY <1>3, <2>1, PublishAloneStep
  <2>2. CASE expire(t)
    <3>1. expired' \subseteq Tickets
      BY <2>2 DEF expire, ImportInv, TypeOK
    <3> QED
      BY <1>3, <2>2, <3>1, IdleStep DEF expire
  <2> QED
    BY <1>3, <2>1, <2>2
<1>4. CASE UNCHANGED vars
  <2>1. expired' \subseteq Tickets
    BY <1>4 DEF vars, ImportInv, TypeOK
  <2> QED
    BY <1>4, <2>1, IdleStep DEF vars
<1> QED
  BY <1>1, <1>2, <1>3, <1>4 DEF Next

\* A directory begins empty.
LEMMA ImportInit ==
  ASSUME Init
  PROVE  ImportInv
<1>1. /\ \A p \in Procs : gate[p] = Free
      /\ \A p \in Procs, t \in Tickets : job[p][t] = NoJob
  BY DEF Init
<1>2. Free \in GateRec /\ GateOK(Free)
  BY FreeGate
<1>3. NoJob \in JobRec /\ NoJob.pc = "idle"
  BY DEF NoJob, JobRec, JobSteps
<1>4. gate \in [Procs -> GateRec] /\ job \in [Procs -> [Tickets -> JobRec]]
  BY <1>2, <1>3 DEF Init
<1>5. TypeOK
  <2>1. MaxCrashes \in Nat
    BY ImportAssumption
  <2>2. crashes \in 0 .. MaxCrashes
    BY <2>1 DEF Init
  <2>3. pinned \in BOOLEAN /\ torn \in BOOLEAN
    BY Zenon DEF Init
  <2>4. /\ client \in [Tickets -> {"new", "asking", "holds", "refused", "lost"}]
        /\ intent \in [Tickets -> Procs \cup {Dead, None}]
        /\ claim \in [Claims -> Tickets \cup {None}]
        /\ ciphertext \in [Tickets -> {"absent", "partial", "exact"}]
        /\ manifest \in [Tickets -> {"absent", "partial", "exact"}]
        /\ failure \in [Tickets -> {None, "FAILED", "RECONCILIATION_REQUIRED"}]
        /\ publication \in [Tickets -> {"none", "begun", "complete"}]
    BY DEF Init
  <2>5. /\ up \subseteq Procs /\ commit \subseteq Tickets /\ marked \subseteq Tickets
        /\ published \subseteq Tickets /\ expired \subseteq Tickets
    BY DEF Init
  <2> QED
    BY <1>4, <2>2, <2>3, <2>4, <2>5 DEF TypeOK, GateRec, JobRec
<1>6. \A p \in Procs : GateOK(gate[p])
  BY <1>1, <1>2 DEF GateOK
<1>7. \A p \in Procs, t \in Tickets : JobOK(t, job[p][t].pc)
  BY <1>1, <1>3 DEF JobOK, WithManifest, Hashed
<1>8. OneWriter
  BY <1>1, <1>3 DEF OneWriter, at
<1>9. (\A t \in marked : ciphertext[t] = "exact") /\ PublishedIsExact
  BY DEF Init, PublishedIsExact
<1> QED
  BY <1>5, <1>6, <1>7, <1>8, <1>9 DEF ImportInv

\* The invariant of the coordinators: types, what the lock is held for,
\* what every job relies on, and one writer per object.
THEOREM ImportInvariant == Spec => []ImportInv
<1>1. Init => ImportInv
  BY ImportInit
<1>2. ImportInv /\ [Next]_vars => ImportInv'
  BY ImportStep
<1> QED
  BY <1>1, <1>2, PTL DEF Spec

\* A published marker stands for a completed publication of two exact
\* objects of a committed ticket, for any number of processes that share
\* the directory and crash.
THEOREM PublishedStaysExact == Spec => []PublishedIsExact
<1>1. ImportInv => PublishedIsExact
  BY DEF ImportInv
<1> QED
  BY <1>1, ImportInvariant, PTL

-----------------------------------------------------------------------------
\* One coordinator process at a time on the directory.

\* While neither the commitments nor the claims move, ownership does not.
LEMMA OwnershipKept ==
  ASSUME OwnInv, UNCHANGED <<commit, claim>>
  PROVE  OwnershipIsAlwaysWhole'
BY DEF OwnInv, OwnershipIsAlwaysWhole, Needs

\* The only process moves on.
LEMMA OwnMove ==
  ASSUME ImportInv, OwnInv, NEW p \in Procs, Alone(p), NEW h, gate' = [gate EXCEPT ![p] = h],
         OwnGate(h)', OwnershipIsAlwaysWhole', (\A t \in commit : client[t] # "new")'
  PROVE  OwnInv'
<1>1. gate \in [Procs -> GateRec]
  BY DEF ImportInv, TypeOK, GateRec
<1>2. \A q \in Procs : gate'[q] = IF q = p THEN h ELSE Free
  BY <1>1 DEF Alone
<1>3. Free.for = "none" /\ Free.pc = "idle"
  BY DEF Free
<1>4. \A q \in Procs : OwnGate(gate[q])'
  BY <1>2, <1>3 DEF OwnGate
<1> QED
  BY <1>4 DEF OwnInv

\* What is known of the process that takes a step.
LEMMA OwnOf ==
  ASSUME ImportInv, OwnInv, NEW p \in Procs, NEW g, g = gate[p]
  PROVE  OwnGate(g) /\ OwnershipIsAlwaysWhole /\ \A t \in commit : client[t] # "new"
BY DEF OwnInv, OwnGate

\* A free lock says nothing of the claims.
LEMMA OwnFree ==
  OwnGate(Free)'
BY DEF OwnGate, Free

\* The request is refused or the start given up.
LEMMA OwnRefuse ==
  ASSUME ImportInv, OwnInv, NEW p \in Procs, Alone(p), refuse(p), UNCHANGED <<commit, claim>>
  PROVE  OwnInv'
<1>1. gate' = [gate EXCEPT ![p] = Free]
  BY DEF refuse
<1>2. client' = client \/ client' = [client EXCEPT ![gate[p].t] = "refused"]
  BY DEF refuse
<1>3. (\A t \in commit : client[t] # "new")'
  BY <1>2 DEF ImportInv, TypeOK, OwnInv
<1> QED
  BY <1>1, <1>3, OwnFree, OwnershipKept, OwnMove

\* A new reservation is for a ticket that has no commitment yet.
LEMMA OwnBegin ==
  ASSUME ImportInv, OwnInv, NEW p \in Procs, Alone(p),
         createCoordinator(p) \/ \E t \in Tickets : beginImport(p, t)
  PROVE  OwnInv'
<1>1. UNCHANGED <<commit, claim>>
  BY DEF createCoordinator, beginImport, files
<1>2. CASE createCoordinator(p)
  <2> PICK h : h = [Free EXCEPT !.for = "start", !.pc = "scan", !.todo = intents]
    OBVIOUS
  <2>1. h.for = "start" /\ h.pc = "scan"
    BY DEF Free
  <2>2. gate' = [gate EXCEPT ![p] = h] /\ client' = client
    BY <1>2 DEF createCoordinator
  <2>3. OwnGate(h)'
    BY <2>1 DEF OwnGate
  <2>4. (\A t \in commit : client[t] # "new")'
    BY <1>1, <2>2 DEF OwnInv
  <2> QED
    BY <1>1, <2>2, <2>3, <2>4, OwnershipKept, OwnMove
<1>3. CASE \E t \in Tickets : beginImport(p, t)
  <2>1. PICK t \in Tickets : beginImport(p, t)
    BY <1>3
  <2> PICK h : h = [Free EXCEPT !.for = "begin", !.pc = "scan", !.t = t, !.todo = intents]
    OBVIOUS
  <2>2. h.for = "begin" /\ h.pc = "scan" /\ h.t = t
    BY DEF Free
  <2>3. /\ gate' = [gate EXCEPT ![p] = h] /\ client' = [client EXCEPT ![t] = "asking"]
        /\ client[t] = "new"
    BY <2>1 DEF beginImport
  <2>4. client \in [Tickets -> {"new", "asking", "holds", "refused", "lost"}]
    BY DEF ImportInv, TypeOK
  <2>5. t \notin commit /\ client'[t] # "new"
    BY <2>3, <2>4 DEF OwnInv
  <2>6. OwnGate(h)'
    BY <1>1, <2>2, <2>5 DEF OwnGate
  <2>7. (\A u \in commit : client[u] # "new")'
    BY <1>1, <2>3, <2>4, <2>5 DEF OwnInv, ImportInv, TypeOK
  <2> QED
    BY <1>1, <2>3, <2>6, <2>7, OwnershipKept, OwnMove
<1> QED
  BY <1>2, <1>3

\* The scan finds the claims of every committed ticket in place, and rolls
\* back uncommitted tickets only.
LEMMA OwnScan ==
  ASSUME ImportInv, OwnInv, NEW p \in Procs, Alone(p),
         recoverReservationTransactions(p) \/ scanned(p)
  PROVE  OwnInv'
<1> PICK g : g = gate[p]
  OBVIOUS
<1>1. g \in GateRec /\ GateOK(g) /\ gate \in [Procs -> GateRec] /\ FilesOK
  BY GateOf
<1>2. OwnGate(g) /\ OwnershipIsAlwaysWhole /\ \A t \in commit : client[t] # "new"
  BY OwnOf
<1>3. g.pc = "scan" /\ commit' = commit
  BY DEF recoverReservationTransactions, scanned, files
<1>4. ASSUME claim' = claim, client' = client, NEW h, gate' = [gate EXCEPT ![p] = h],
             h.for = g.for, h.t = g.t, h.pc \in {"scan", "rollback", "intent", "recover"},
             h.pc = "rollback" => h.u \notin commit
      PROVE  OwnInv'
  <2>1. OwnGate(h)'
    BY <1>2, <1>3, <1>4 DEF OwnGate
  <2>2. (\A t \in commit : client[t] # "new")'
    BY <1>2, <1>3, <1>4
  <2> QED
    BY <1>3, <1>4, <2>1, <2>2, OwnershipKept, OwnMove
<1>5. ASSUME NEW u \in g.todo, claim' = claim, client' = client, scanNext(p, gate[p].todo \ {u})
      PROVE  OwnInv'
  <2> PICK h : h = [g EXCEPT !.todo = @ \ {u}]
    OBVIOUS
  <2>1. h.pc = "scan" /\ h.for = g.for /\ h.t = g.t
    BY <1>1, <1>3 DEF GateRec
  <2>2. gate' = [gate EXCEPT ![p] = h]
    BY <1>1, <1>5 DEF scanNext
  <2> QED
    BY <1>4, <1>5, <2>1, <2>2
<1>6. CASE recoverReservationTransactions(p)
  <2>1. PICK u \in g.todo : recoverCommitted(p, u) \/ recoverUncommitted(p, u)
    BY <1>6 DEF recoverReservationTransactions
  <2>2. u \in Tickets
    BY <1>1 DEF GateRec
  <2>3. CASE recoverCommitted(p, u)
    <3>1. CASE integrity(u)
      <4>1. claim' = [c \in Claims |-> IF \E i \in DOMAIN needs[u] : needs[u][i] = c THEN u ELSE claim[c]]
        BY <2>3, <3>1 DEF recoverCommitted
      <4>2. \A c \in Claims : (\E i \in DOMAIN needs[u] : needs[u][i] = c) => claim[c] = u
        BY <1>2, <2>3 DEF recoverCommitted, OwnershipIsAlwaysWhole, Needs
      <4>3. claim' = claim
        BY <1>1, <4>1, <4>2 DEF FilesOK
      <4> QED
        BY <1>5, <2>3, <3>1, <4>3 DEF recoverCommitted
    <3>2. CASE ~integrity(u)
      BY <1>3, <2>3, <3>2, OwnRefuse DEF recoverCommitted
    <3> QED
      BY <3>1, <3>2
  <2>4. CASE recoverUncommitted(p, u)
    <3>1. claim' = claim /\ u \notin commit
      BY <2>4 DEF recoverUncommitted
    <3>2. CASE refuse(p)
      BY <1>3, <3>1, <3>2, OwnRefuse
    <3>3. CASE scanNext(p, gate[p].todo \ {u}) /\ UNCHANGED <<up, client>>
      BY <1>5, <3>1, <3>3
    <3>4. CASE gate' = [gate EXCEPT ![p].pc = "rollback", ![p].u = u, ![p].i = Len(needs[u])]
               /\ UNCHANGED <<up, client>>
      <4> PICK h : h = [g EXCEPT !.pc = "rollback", !.u = u, !.i = Len(needs[u])]
        OBVIOUS
      <4>1. h.pc = "rollback" /\ h.for = g.for /\ h.t = g.t /\ h.u = u
        BY <1>1 DEF GateRec
      <4>2. gate' = [gate EXCEPT ![p] = h]
        BY <1>1, <3>4
      <4> QED
        BY <1>4, <3>1, <3>4, <4>1, <4>2
    <3> QED
      BY <2>4, <3>2, <3>3, <3>4 DEF recoverUncommitted
  <2> QED
    BY <2>1, <2>3, <2>4
<1>7. CASE scanned(p)
  <2> PICK h : h = [g EXCEPT !.pc = IF g.for = "begin" THEN "intent" ELSE "recover",
                             !.todo = IF g.for = "begin" THEN {} ELSE commit]
    OBVIOUS
  <2>1. h.for = g.for /\ h.t = g.t /\ h.pc \in {"intent", "recover"}
    BY <1>1 DEF GateRec
  <2>2. gate' = [gate EXCEPT ![p] = h] /\ claim' = claim /\ client' = client
    BY <1>1, <1>7 DEF scanned, files
  <2> QED
    BY <1>4, <2>1, <2>2
<1> QED
  BY <1>6, <1>7

\* A roll-back removes claims of an uncommitted ticket only: the claim
\* that it read is still that ticket's when it is unlinked.
LEMMA OwnRollBack ==
  ASSUME ImportInv, OwnInv, NEW p \in Procs, Alone(p),
         removeExactReservationClaim(p) \/ unlinkClaim(p) \/ rolledBack(p)
  PROVE  OwnInv'
<1> PICK g : g = gate[p]
  OBVIOUS
<1>1. g \in GateRec /\ GateOK(g) /\ gate \in [Procs -> GateRec] /\ FilesOK
  BY GateOf
<1>2. OwnGate(g) /\ OwnershipIsAlwaysWhole /\ \A t \in commit : client[t] # "new"
  BY OwnOf
<1>3. commit' = commit /\ g.pc \in {"rollback", "unlink"} /\ g.u \notin commit
  BY <1>2 DEF removeExactReservationClaim, unlinkClaim, rolledBack, files, OwnGate
<1>4. g.for = "begin" => g.t \notin commit /\ client[g.t] # "new"
  BY <1>2, <1>3 DEF OwnGate
<1>5. CASE removeExactReservationClaim(p)
  <2>1. PICK h : h = IF claim[needs[g.u][g.i]] = g.u THEN [g EXCEPT !.pc = "unlink"]
                     ELSE [g EXCEPT !.i = g.i - 1]
    OBVIOUS
  <2>2. /\ h.for = g.for /\ h.t = g.t /\ h.u = g.u
        /\ \/ h.pc = "unlink" /\ h.i = g.i /\ claim[needs[g.u][g.i]] = g.u
           \/ h.pc = "rollback"
    <3>1. CASE claim[needs[g.u][g.i]] = g.u
      BY <1>1, <2>1, <3>1 DEF GateRec
    <3>2. CASE claim[needs[g.u][g.i]] # g.u
      <4>1. g.pc = "rollback" /\ h = [g EXCEPT !.i = g.i - 1]
        BY <1>5, <2>1, <3>2 DEF removeExactReservationClaim
      <4> QED
        BY <1>1, <4>1 DEF GateRec
    <3> QED
      BY <3>1, <3>2
  <2>3. gate' = [gate EXCEPT ![p] = h] /\ UNCHANGED <<client, claim>>
    BY <1>1, <1>5, <2>1 DEF removeExactReservationClaim, files
  <2>4. OwnGate(h)'
    BY <1>3, <1>4, <2>2, <2>3 DEF OwnGate
  <2>5. (\A t \in commit : client[t] # "new")'
    BY <1>2, <1>3, <2>3
  <2> QED
    BY <1>3, <2>3, <2>4, <2>5, OwnershipKept, OwnMove
<1>6. CASE unlinkClaim(p)
  <2>1. PICK c : c = needs[g.u][g.i]
    OBVIOUS
  <2>2. g.pc = "unlink" /\ claim[c] = g.u
    BY <1>2, <1>6, <2>1 DEF unlinkClaim, OwnGate
  <2>3. CASE refuse(p) /\ claim' = claim
    BY <1>3, <2>3, OwnRefuse
  <2>4. CASE /\ claim' = [claim EXCEPT ![needs[gate[p].u][gate[p].i]] = None]
             /\ gate' = [gate EXCEPT ![p].pc = "rollback", ![p].i = @ - 1]
             /\ UNCHANGED <<up, client>>
    <3> PICK h : h = [g EXCEPT !.pc = "rollback", !.i = g.i - 1]
      OBVIOUS
    <3>1. h.for = g.for /\ h.t = g.t /\ h.u = g.u /\ h.pc = "rollback"
      BY <1>1 DEF GateRec
    <3>2. gate' = [gate EXCEPT ![p] = h]
      BY <1>1, <2>4
    <3>3. claim' = [claim EXCEPT ![c] = None]
      BY <2>1, <2>4
    <3>4. \A t \in commit : c \notin Needs(t)
      BY <1>2, <1>3, <2>2 DEF OwnershipIsAlwaysWhole
    <3>5. \A t \in commit : \A d \in Needs(t) : claim'[d] = t
      <4> SUFFICES ASSUME NEW t \in commit, NEW d \in Needs(t)
                   PROVE  claim'[d] = t
        OBVIOUS
      <4>1. t \in Tickets /\ claim[d] = t /\ d # c
        BY <1>1, <1>2, <3>4 DEF OwnershipIsAlwaysWhole, FilesOK
      <4>2. d \in Claims
        BY <4>1, NeedsType DEF Needs
      <4> QED
        BY <1>1, <3>3, <4>1, <4>2 DEF FilesOK
    <3>6. OwnershipIsAlwaysWhole'
      BY <1>2, <1>3, <3>5 DEF OwnershipIsAlwaysWhole, Needs
    <3>7. OwnGate(h)'
      BY <1>3, <1>4, <2>4, <3>1 DEF OwnGate
    <3>8. (\A t \in commit : client[t] # "new")'
      BY <1>2, <1>3, <2>4
    <3> QED
      BY <3>2, <3>6, <3>7, <3>8, OwnMove
  <2> QED
    BY <1>6, <2>3, <2>4 DEF unlinkClaim
<1>7. CASE rolledBack(p)
  <2>1. claim' = claim
    BY <1>7 DEF rolledBack
  <2>2. CASE refuse(p)
    BY <1>3, <2>1, <2>2, OwnRefuse
  <2>3. CASE ~(gate[p].t = gate[p].u)
    <3> PICK h : h = [g EXCEPT !.pc = "scan", !.u = None, !.i = 0, !.todo = @ \ {g.u}]
      OBVIOUS
    <3>1. h.for = g.for /\ h.t = g.t /\ h.pc = "scan"
      BY <1>1 DEF GateRec
    <3>2. gate' = [gate EXCEPT ![p] = h] /\ client' = client
      BY <1>1, <1>7, <2>3 DEF rolledBack
    <3>3. OwnGate(h)'
      BY <1>3, <1>4, <3>1, <3>2 DEF OwnGate
    <3>4. (\A t \in commit : client[t] # "new")'
      BY <1>2, <1>3, <3>2
    <3> QED
      BY <1>3, <2>1, <3>2, <3>3, <3>4, OwnershipKept, OwnMove
  <2> QED
    BY <1>7, <2>2, <2>3 DEF rolledBack
<1> QED
  BY <1>5, <1>6, <1>7

\* A ticket is claimed for and committed: every claim it needs was free or
\* its own when it was taken, and none has been taken back since.
LEMMA OwnReserve ==
  ASSUME ImportInv, OwnInv, NEW p \in Procs, Alone(p),
         writeIntent(p) \/ createOrVerifyReservationClaim(p) \/ writeCommit(p) \/ reserved(p)
  PROVE  OwnInv'
<1> PICK g : g = gate[p]
  OBVIOUS
<1>1. g \in GateRec /\ GateOK(g) /\ gate \in [Procs -> GateRec] /\ FilesOK
  BY GateOf
<1>2. OwnGate(g) /\ OwnershipIsAlwaysWhole /\ \A t \in commit : client[t] # "new"
  BY OwnOf
<1>3. g.pc \in {"intent", "claim", "journal"} /\ g.for = "begin" /\ g.t \in Tickets
  BY <1>1 DEF writeIntent, createOrVerifyReservationClaim, writeCommit, reserved, GateOK
<1>4. /\ Len(needs[g.t]) \in Nat /\ DOMAIN needs[g.t] = 1..Len(needs[g.t])
      /\ \A i \in 1..Len(needs[g.t]) : needs[g.t][i] \in Claims
  BY <1>3, NeedsType
<1>5. client[g.t] # "new" /\ (g.pc # "journal" => g.t \notin commit)
  BY <1>2, <1>3 DEF OwnGate
<1>6. CASE writeIntent(p)
  <2> PICK h : h = [g EXCEPT !.pc = "claim", !.i = 1]
    OBVIOUS
  <2>1. g.pc = "intent" /\ UNCHANGED <<client, commit, claim>>
    BY <1>6 DEF writeIntent
  <2>2. h.for = g.for /\ h.t = g.t /\ h.pc = "claim" /\ h.i = 1
    BY <1>1 DEF GateRec
  <2>3. gate' = [gate EXCEPT ![p] = h]
    BY <1>1, <1>6 DEF writeIntent
  <2>4. OwnGate(h)'
    BY <1>3, <1>5, <2>1, <2>2 DEF OwnGate
  <2>5. (\A t \in commit : client[t] # "new")'
    BY <1>2, <2>1
  <2> QED
    BY <2>1, <2>3, <2>4, <2>5, OwnershipKept, OwnMove
<1>7. CASE createOrVerifyReservationClaim(p)
  <2>1. g.pc = "claim" /\ g.i <= Len(needs[g.t]) /\ UNCHANGED <<client, commit>>
    BY <1>7 DEF createOrVerifyReservationClaim
  <2>2. g.i \in 1..(Len(needs[g.t]) + 1) /\ g.t \notin commit
        /\ \A j \in 1..(g.i - 1) : claim[needs[g.t][j]] = g.t
    BY <1>1, <1>2, <1>5, <2>1 DEF GateOK, OwnGate
  <2>3. (\A t \in commit : client[t] # "new")'
    BY <1>2, <2>1
  <2>4. CASE occupied(gate[p].t, needs[gate[p].t][gate[p].i])
    <3> PICK h : h = [g EXCEPT !.pc = "rollback", !.u = g.t, !.i = Len(needs[g.t])]
      OBVIOUS
    <3>1. h.for = g.for /\ h.t = g.t /\ h.pc = "rollback" /\ h.u = g.t
      BY <1>1 DEF GateRec
    <3>2. gate' = [gate EXCEPT ![p] = h] /\ claim' = claim
      BY <1>1, <1>7, <2>4 DEF createOrVerifyReservationClaim
    <3>3. OwnGate(h)'
      BY <1>3, <1>5, <2>1, <2>2, <3>1 DEF OwnGate
    <3> QED
      BY <2>1, <2>3, <3>2, <3>3, OwnershipKept, OwnMove
  <2>5. CASE ~occupied(gate[p].t, needs[gate[p].t][gate[p].i])
    <3>1. PICK c : c = needs[g.t][g.i]
      OBVIOUS
    <3> PICK h : h = [g EXCEPT !.i = g.i + 1]
      OBVIOUS
    <3>2. g.i \in 1..Len(needs[g.t]) /\ c \in Claims
      BY <1>4, <2>1, <2>2, <3>1
    <3>3. h.for = g.for /\ h.t = g.t /\ h.pc = "claim" /\ h.i = g.i + 1
      BY <1>1, <2>1 DEF GateRec
    <3>4. gate' = [gate EXCEPT ![p] = h] /\ claim' = [claim EXCEPT ![c] = g.t] /\ claim[c] \in {g.t, None}
      BY <1>1, <1>7, <2>5, <3>1 DEF createOrVerifyReservationClaim, occupied
    <3>5. \A d \in Claims : claim'[d] = IF d = c THEN g.t ELSE claim[d]
      BY <1>1, <3>4 DEF FilesOK
    <3>6. \A t \in commit : \A d \in Needs(t) : claim'[d] = t
      <4> SUFFICES ASSUME NEW t \in commit, NEW d \in Needs(t)
                   PROVE  claim'[d] = t
        OBVIOUS
      <4>1. t \in Tickets /\ claim[d] = t /\ t # g.t /\ t # None
        BY <1>1, <1>2, <2>2, ImportAssumption DEF OwnershipIsAlwaysWhole, FilesOK
      <4>2. d \in Claims /\ d # c
        BY <3>4, <4>1, NeedsType DEF Needs
      <4> QED
        BY <3>5, <4>1, <4>2
    <3>7. OwnershipIsAlwaysWhole'
      BY <1>2, <2>1, <3>6 DEF OwnershipIsAlwaysWhole, Needs
    <3>8. \A j \in 1..(h.i - 1) : claim'[needs[g.t][j]] = g.t
      <4> SUFFICES ASSUME NEW j \in 1..(h.i - 1)
                   PROVE  claim'[needs[g.t][j]] = g.t
        OBVIOUS
      <4>1. j \in 1..Len(needs[g.t]) /\ (j = g.i \/ j \in 1..(g.i - 1))
        BY <1>4, <3>2, <3>3
      <4>2. needs[g.t][j] \in Claims
        BY <1>4, <4>1
      <4> QED
        BY <2>2, <3>1, <3>5, <4>1, <4>2
    <3>9. OwnGate(h)'
      BY <1>3, <1>5, <2>1, <2>2, <3>3, <3>8 DEF OwnGate
    <3> QED
      BY <2>3, <3>4, <3>7, <3>9, OwnMove
  <2> QED
    BY <2>4, <2>5
<1>8. CASE writeCommit(p)
  <2> PICK h : h = [g EXCEPT !.pc = "journal"]
    OBVIOUS
  <2>1. g.pc = "claim" /\ g.i > Len(needs[g.t]) /\ commit' = commit \cup {g.t} /\ UNCHANGED <<client, claim>>
    BY <1>8 DEF writeCommit
  <2>2. h.for = g.for /\ h.t = g.t /\ h.pc = "journal"
    BY <1>1 DEF GateRec
  <2>3. gate' = [gate EXCEPT ![p] = h]
    BY <1>1, <1>8 DEF writeCommit
  <2>4. g.i \in 1..(Len(needs[g.t]) + 1) /\ \A j \in 1..(g.i - 1) : claim[needs[g.t][j]] = g.t
    BY <1>1, <1>2, <2>1 DEF GateOK, OwnGate
  <2>5. \A c \in Needs(g.t) : claim[c] = g.t
    <3>1. 1..(g.i - 1) = 1..Len(needs[g.t])
      BY <1>4, <2>1, <2>4
    <3> QED
      BY <1>4, <2>4, <3>1 DEF Needs
  <2>6. \A t \in commit : \A c \in Needs(t) : claim[c] = t
    BY <1>2 DEF OwnershipIsAlwaysWhole
  <2>7. \A t, u \in commit \cup {g.t} : u # t => Needs(u) \cap Needs(t) = {}
    BY <2>5, <2>6
  <2>8. OwnershipIsAlwaysWhole'
    BY <2>1, <2>5, <2>6, <2>7 DEF OwnershipIsAlwaysWhole, Needs
  <2>9. OwnGate(h)' /\ (\A t \in commit : client[t] # "new")'
    BY <1>2, <1>3, <1>5, <2>1, <2>2 DEF OwnGate
  <2> QED
    BY <2>3, <2>8, <2>9, OwnMove
<1>9. CASE reserved(p)
  <2>1. /\ gate' = [gate EXCEPT ![p] = Free] /\ UNCHANGED <<commit, claim>>
        /\ client' = [client EXCEPT ![g.t] = "holds"]
    BY <1>9 DEF reserved, files
  <2>2. (\A t \in commit : client[t] # "new")'
    BY <1>1, <1>2, <2>1 DEF FilesOK
  <2> QED
    BY <2>1, <2>2, OwnFree, OwnershipKept, OwnMove
<1> QED
  BY <1>6, <1>7, <1>8, <1>9

\* Recovery of the imports, and a crash, leave the claims alone.
LEMMA OwnRestart ==
  ASSUME ImportInv, OwnInv, NEW p \in Procs, Alone(p),
         recovered(p) \/ crash(p) \/ \E t \in Tickets : recover(p, t)
  PROVE  OwnInv'
<1> PICK g : g = gate[p]
  OBVIOUS
<1>1. g \in GateRec /\ GateOK(g) /\ gate \in [Procs -> GateRec] /\ FilesOK
  BY GateOf
<1>2. OwnGate(g) /\ OwnershipIsAlwaysWhole /\ \A t \in commit : client[t] # "new"
  BY OwnOf
<1>3. UNCHANGED <<commit, claim>>
  BY DEF recovered, crash, recover, files
<1>4. CASE recovered(p) \/ crash(p)
  <2>1. gate' = [gate EXCEPT ![p] = Free]
    BY <1>4 DEF recovered, crash
  <2>2. \A t \in Tickets : client'[t] = client[t] \/ client'[t] = "lost"
    BY <1>4 DEF recovered, crash
  <2>3. (\A t \in commit : client[t] # "new")'
    BY <1>1, <1>2, <1>3, <2>2 DEF FilesOK
  <2> QED
    BY <1>3, <2>1, <2>3, OwnFree, OwnershipKept, OwnMove
<1>5. CASE \E t \in Tickets : recover(p, t)
  <2>1. PICK t \in Tickets : recover(p, t)
    BY <1>5
  <2> PICK h : h = [g EXCEPT !.todo = @ \ {t}]
    OBVIOUS
  <2>2. h.pc = "recover" /\ h.for = g.for /\ h.t = g.t /\ g.pc = "recover"
    BY <1>1, <2>1 DEF GateRec, recover
  <2>3. gate' = [gate EXCEPT ![p] = h] /\ client' = client
    BY <1>1, <2>1 DEF recover
  <2>4. OwnGate(h)'
    BY <1>2, <1>3, <2>2, <2>3 DEF OwnGate
  <2>5. (\A u \in commit : client[u] # "new")'
    BY <1>2, <1>3, <2>3
  <2> QED
    BY <1>3, <2>3, <2>4, <2>5, OwnershipKept, OwnMove
<1> QED
  BY <1>4, <1>5

\* A job never touches a reservation.
LEMMA JobLeavesClaims ==
  ASSUME NEW p \in Procs, NEW t \in Tickets,
         jobStep(p, t) \/ uploadCiphertext(p, t) \/ uploadArtifactManifest(p, t)
  PROVE  UNCHANGED outside
<1>1. ASSUME jobStep(p, t)
      PROVE  UNCHANGED outside
  <2>1. CASE stageCiphertext(p, t) \/ streamCiphertext(p, t) \/ markCiphertext(p, t) \/ logged(p, t)
    BY <2>1 DEF stageCiphertext, streamCiphertext, markCiphertext, logged
  <2>2. CASE stageManifest(p, t) \/ streamManifest(p, t) \/ logManifest(p, t) \/ hashObjects(p, t)
    BY <2>2 DEF stageManifest, streamManifest, logManifest, hashObjects
  <2>3. CASE \/ reconcilePublication(p, t) \/ verifyArtifact(p, t) \/ publishArtifact(p, t)
             \/ publishReturns(p, t) \/ markPublished(p, t)
    BY <2>3 DEF reconcilePublication, verifyArtifact, publishArtifact, publishReturns, markPublished
  <2> QED
    BY <1>1, <2>1, <2>2, <2>3 DEF jobStep
<1> QED
  BY <1>1 DEF uploadCiphertext, uploadArtifactManifest

\* A step through the reservation leaves the lock of a process that is not
\* running free.
LEMMA ReserveUp ==
  ASSUME ImportInv, UpInv, NEW p \in Procs, reserveStep(p)
  PROVE  /\ p \in up /\ up' \subseteq up
         /\ \A q \in Procs : q \notin up' => gate'[q] = Free
<1>1. gate \in [Procs -> GateRec]
  BY DEF ImportInv, TypeOK, GateRec
<1>2. gate[p].pc # "idle"
  BY DEF reserveStep, recoverReservationTransactions, scanned, removeExactReservationClaim, unlinkClaim,
         rolledBack, writeIntent, createOrVerifyReservationClaim, writeCommit, reserved, recovered, recover
<1>3. Free.pc = "idle"
  BY DEF Free
<1>4. p \in up
  BY <1>2, <1>3 DEF UpInv
<1>5. \A q \in Procs : q # p => gate'[q] = gate[q]
  <2>1. \E h : gate' = [gate EXCEPT ![p] = h]
    <3>1. CASE recoverReservationTransactions(p) \/ scanned(p) \/ recovered(p)
      BY <1>1, <3>1 DEF recoverReservationTransactions, recoverCommitted, recoverUncommitted, scanNext, refuse,
         scanned, recovered
    <3>2. CASE removeExactReservationClaim(p) \/ unlinkClaim(p) \/ rolledBack(p)
      BY <1>1, <3>2 DEF removeExactReservationClaim, unlinkClaim, rolledBack, refuse
    <3>3. CASE writeIntent(p) \/ createOrVerifyReservationClaim(p) \/ writeCommit(p) \/ reserved(p)
      BY <1>1, <3>3 DEF writeIntent, createOrVerifyReservationClaim, writeCommit, reserved
    <3>4. CASE \E t \in Tickets : recover(p, t)
      BY <1>1, <3>4 DEF recover
    <3> QED
      BY <3>1, <3>2, <3>3, <3>4 DEF reserveStep
  <2> QED
    BY <1>1, <2>1
<1>6. up' = up \/ (up' = up \ {p} /\ gate' = [gate EXCEPT ![p] = Free])
  <2>1. CASE recoverReservationTransactions(p) \/ unlinkClaim(p) \/ rolledBack(p)
    BY <2>1 DEF recoverReservationTransactions, recoverCommitted, recoverUncommitted, refuse, unlinkClaim, rolledBack
  <2>2. CASE \/ scanned(p) \/ recovered(p) \/ removeExactReservationClaim(p) \/ writeIntent(p)
             \/ createOrVerifyReservationClaim(p) \/ writeCommit(p) \/ reserved(p)
             \/ \E t \in Tickets : recover(p, t)
    BY <2>2 DEF scanned, recovered, removeExactReservationClaim, writeIntent,
       createOrVerifyReservationClaim, writeCommit, reserved, recover
  <2> QED
    BY <2>1, <2>2 DEF reserveStep
<1> QED
  BY <1>1, <1>4, <1>5, <1>6 DEF UpInv

\* Processes start and stop one at a time, and whoever runs beside another is
\* noted.
LEMMA UpStep ==
  ASSUME ImportInv, UpInv, [Next]_vars
  PROVE  /\ UpInv'
         /\ met' = {} => met = {}
<1>1. gate \in [Procs -> GateRec]
  BY DEF ImportInv, TypeOK, GateRec
<1>2. /\ met' = {} => met = {}
      /\ met' = {} => \A p, q \in up' : p = q
  BY DEF Next, meets, vars, UpInv
<1>3. ASSUME UNCHANGED <<up, gate>>
      PROVE  \A q \in Procs : q \notin up' => gate'[q] = Free
  BY <1>3 DEF UpInv
<1>4. ASSUME NEW p \in Procs, createCoordinator(p) \/ reserveStep(p) \/ crash(p)
      PROVE  \A q \in Procs : q \notin up' => gate'[q] = Free
  <2>1. CASE createCoordinator(p)
    BY <1>1, <2>1 DEF createCoordinator, UpInv
  <2>2. CASE reserveStep(p)
    BY <2>2, ReserveUp
  <2>3. CASE crash(p)
    BY <1>1, <2>3 DEF crash, UpInv
  <2> QED
    BY <1>4, <2>1, <2>2, <2>3
<1>5. ASSUME NEW p \in Procs, NEW t \in Tickets,
             beginImport(p, t) \/ jobStep(p, t) \/ uploadCiphertext(p, t) \/ uploadArtifactManifest(p, t)
      PROVE  \A q \in Procs : q \notin up' => gate'[q] = Free
  <2>1. CASE beginImport(p, t)
    BY <1>1, <2>1 DEF beginImport, serving, UpInv
  <2>2. CASE jobStep(p, t) \/ uploadCiphertext(p, t) \/ uploadArtifactManifest(p, t)
    BY <1>3, <2>2, JobLeavesClaims DEF outside
  <2> QED
    BY <1>5, <2>1, <2>2
<1>6. ASSUME NEW t \in Tickets, publishAlone(t) \/ expire(t)
      PROVE  \A q \in Procs : q \notin up' => gate'[q] = Free
  BY <1>3, <1>6 DEF publishAlone, expire, outside
<1>7. ASSUME UNCHANGED vars
      PROVE  \A q \in Procs : q \notin up' => gate'[q] = Free
  BY <1>3, <1>7 DEF vars
<1>8. \A q \in Procs : q \notin up' => gate'[q] = Free
  BY <1>4, <1>5, <1>6, <1>7 DEF Next
<1> QED
  BY <1>2, <1>8 DEF UpInv

\* Who takes a step is alone, as long as no two processes have met.
LEMMA StepAlone ==
  ASSUME UpInv, NEW p \in Procs, p \in up \cup up',
         up \subseteq up' \/ up' \subseteq up,
         \A a, b \in up : a = b, \A a, b \in up' : a = b
  PROVE  Alone(p)
<1> SUFFICES ASSUME NEW q \in Procs, q # p
             PROVE  q \notin up
  BY DEF Alone, UpInv
<1> QED
  OBVIOUS

\* Every step of the only process keeps ownership whole.
LEMMA OwnStep ==
  ASSUME ImportInv, UpInv, OwnInv, met = {}, [Next]_vars, UpInv', met' = {}
  PROVE  OwnInv'
<1> USE DEF UpInv
<1>1. ASSUME UNCHANGED <<gate, client, commit, claim>>
      PROVE  OwnInv'
  BY <1>1 DEF OwnInv, OwnGate, OwnershipIsAlwaysWhole, Needs
<1>6. (\A a, b \in up : a = b) /\ (\A a, b \in up' : a = b)
  OBVIOUS
<1>2. ASSUME NEW p \in Procs, createCoordinator(p) \/ reserveStep(p) \/ crash(p)
      PROVE  OwnInv'
  <2>1. p \in up \cup up' /\ (up \subseteq up' \/ up' \subseteq up)
    BY <1>2, ReserveUp DEF createCoordinator, crash
  <2>2. Alone(p)
    BY <1>6, <2>1, StepAlone
  <2> QED
    BY <1>2, <2>2, OwnBegin, OwnScan, OwnRollBack, OwnReserve, OwnRestart DEF reserveStep
<1>3. ASSUME NEW p \in Procs, NEW t \in Tickets,
             beginImport(p, t) \/ jobStep(p, t) \/ uploadCiphertext(p, t) \/ uploadArtifactManifest(p, t)
      PROVE  OwnInv'
  <2>1. CASE beginImport(p, t)
    <3>1. p \in up \cup up' /\ (up \subseteq up' \/ up' \subseteq up)
      BY <2>1 DEF beginImport, serving
    <3>2. Alone(p)
      BY <1>6, <3>1, StepAlone
    <3> QED
      BY <2>1, <3>2, OwnBegin
  <2>2. CASE jobStep(p, t) \/ uploadCiphertext(p, t) \/ uploadArtifactManifest(p, t)
    BY <1>1, <2>2, JobLeavesClaims DEF outside, files
  <2> QED
    BY <1>3, <2>1, <2>2
<1>4. ASSUME NEW t \in Tickets, publishAlone(t) \/ expire(t)
      PROVE  OwnInv'
  BY <1>1, <1>4 DEF publishAlone, expire, outside, files
<1>5. CASE UNCHANGED vars
  BY <1>1, <1>5 DEF vars, files
<1> QED
  BY <1>2, <1>3, <1>4, <1>5 DEF Next

\* As long as no two coordinators have run at the same time, a committed
\* ticket owns its role and its nonces and shares them with no other
\* commitment, however reservations, roll-backs, crashes and restarts follow
\* each other.
THEOREM OwnershipStaysWhole == Spec => []OwnershipIsWhole
<1> DEFINE Owned == UpInv /\ (met = {} => OwnInv)
<1>1. Init => Owned
  <2> SUFFICES ASSUME Init
               PROVE  UpInv /\ OwnInv
    OBVIOUS
  <2>1. commit = {} /\ up = {} /\ \A p \in Procs : gate[p] = Free
    BY DEF Init
  <2>2. Free.for = "none" /\ Free.pc = "idle"
    BY DEF Free
  <2>3. \A p \in Procs : OwnGate(gate[p])
    BY <2>1, <2>2 DEF OwnGate
  <2> QED
    BY <2>1, <2>3 DEF UpInv, OwnInv, OwnershipIsAlwaysWhole
<1>2. ImportInv /\ Owned /\ [Next]_vars => Owned'
  BY UpStep, OwnStep
<1>3. Owned => OwnershipIsWhole
  BY DEF OwnInv, OwnershipIsWhole
<1> QED
  BY <1>1, <1>2, <1>3, ImportInvariant, PTL DEF Spec

-----------------------------------------------------------------------------
\* Verdicts.

\* The markers a verdict is read from: the first failure stays, and what
\* is published stays so.
Kept == /\ \A t \in Tickets : failure[t] # None => failure'[t] = failure[t]
        /\ published \subseteq published'

\* A failure marker is created, never replaced.
LEMMA FailureKept ==
  ASSUME ImportInv, NEW t \in Tickets, NEW state,
         failure' = failure \/ failure' = recordTerminalFailure(t, state)
  PROVE  \A u \in Tickets : failure[u] # None => failure'[u] = failure[u]
<1>1. failure \in [Tickets -> {None, "FAILED", "RECONCILIATION_REQUIRED"}]
  BY DEF ImportInv, TypeOK
<1>2. CASE failure' = failure
  BY <1>2
<1>3. CASE failure' # failure
  <2>1. failure[t] = None /\ failure' = [failure EXCEPT ![t] = state]
    BY <1>3 DEF recordTerminalFailure
  <2> QED
    BY <1>1, <2>1
<1> QED
  BY <1>2, <1>3

\* A job creates at most one failure marker, its own.
LEMMA JobKeeps ==
  ASSUME ImportInv, NEW p \in Procs, NEW t \in Tickets,
         jobStep(p, t) \/ uploadCiphertext(p, t) \/ uploadArtifactManifest(p, t)
  PROVE  Kept
<1>1. /\ published \subseteq published'
      /\ \/ failure' = failure
         \/ \E state : failure' = recordTerminalFailure(t, state)
  <2>1. CASE logged(p, t) \/ logManifest(p, t) \/ uploadCiphertext(p, t) \/ uploadArtifactManifest(p, t)
    BY <2>1 DEF logged, logManifest, uploadCiphertext, uploadArtifactManifest, objects
  <2>2. CASE stageCiphertext(p, t)
    BY <2>2 DEF stageCiphertext, replayed, failed
  <2>3. CASE streamCiphertext(p, t) \/ markCiphertext(p, t)
    BY <2>3 DEF streamCiphertext, markCiphertext, failed
  <2>4. CASE stageManifest(p, t)
    BY <2>4 DEF stageManifest, replayed, failed
  <2>5. CASE streamManifest(p, t) \/ hashObjects(p, t)
    BY <2>5 DEF streamManifest, hashObjects, failed
  <2>6. CASE reconcilePublication(p, t) \/ verifyArtifact(p, t)
    BY <2>6 DEF reconcilePublication, notCompleted, verifyArtifact, failed
  <2>7. CASE publishArtifact(p, t) \/ publishReturns(p, t)
    BY <2>7 DEF publishArtifact, publishReturns, failed
  <2>8. CASE markPublished(p, t)
    BY <2>8 DEF markPublished, failed
  <2> QED
    BY <2>1, <2>2, <2>3, <2>4, <2>5, <2>6, <2>7, <2>8 DEF jobStep
<1>2. \A u \in Tickets : failure[u] # None => failure'[u] = failure[u]
  BY <1>1, FailureKept
<1> QED
  BY <1>1, <1>2 DEF Kept

\* No step of any process takes a marker back.
LEMMA StepKeeps ==
  ASSUME ImportInv, [Next]_vars
  PROVE  Kept
<1>1. ASSUME UNCHANGED <<failure, published>>
      PROVE  Kept
  BY <1>1 DEF Kept
<1>2. ASSUME NEW p \in Procs, createCoordinator(p) \/ reserveStep(p) \/ crash(p)
      PROVE  Kept
  <2>1. CASE createCoordinator(p) \/ crash(p)
    BY <1>1, <2>1 DEF createCoordinator, crash, objects
  <2>2. CASE recoverReservationTransactions(p) \/ scanned(p)
    BY <1>1, <2>2 DEF recoverReservationTransactions, scanned, objects
  <2>3. CASE removeExactReservationClaim(p) \/ unlinkClaim(p) \/ rolledBack(p)
    BY <1>1, <2>3 DEF removeExactReservationClaim, unlinkClaim, rolledBack, objects
  <2>4. CASE \/ writeIntent(p) \/ createOrVerifyReservationClaim(p) \/ writeCommit(p)
             \/ reserved(p) \/ recovered(p)
    BY <1>1, <2>4 DEF writeIntent, createOrVerifyReservationClaim, writeCommit, reserved, recovered, objects
  <2>5. ASSUME NEW t \in Tickets, recover(p, t)
        PROVE  Kept
    <3>1. published' = published /\ (failure' = failure \/ failure' = recordTerminalFailure(t, "FAILED"))
      BY <2>5 DEF recover
    <3>2. \A u \in Tickets : failure[u] # None => failure'[u] = failure[u]
      BY <3>1, FailureKept
    <3> QED
      BY <3>1, <3>2 DEF Kept
  <2> QED
    BY <1>2, <2>1, <2>2, <2>3, <2>4, <2>5 DEF reserveStep
<1>3. ASSUME NEW p \in Procs, NEW t \in Tickets,
             beginImport(p, t) \/ jobStep(p, t) \/ uploadCiphertext(p, t) \/ uploadArtifactManifest(p, t)
      PROVE  Kept
  <2>1. CASE beginImport(p, t)
    BY <1>1, <2>1 DEF beginImport, objects
  <2> QED
    BY <1>3, <2>1, JobKeeps
<1>4. ASSUME NEW t \in Tickets, publishAlone(t) \/ expire(t)
      PROVE  Kept
  BY <1>1, <1>4 DEF publishAlone, expire, objects
<1>5. CASE UNCHANGED vars
  BY <1>1, <1>5 DEF vars, objects
<1> QED
  BY <1>2, <1>3, <1>4, <1>5 DEF Next

\* A failure marker never changes and a published import is reported as
\* published from then on, for any number of processes on one directory.
THEOREM VerdictStaysFinal == Spec => VerdictIsFinal
<1>1. ImportInv /\ [Next]_vars =>
        [\A t \in Tickets :
          /\ failure[t] # None => failure'[t] = failure[t]
          /\ publicStatus(t) = "PUBLISHED" => publicStatus(t)' = "PUBLISHED"]_vars
  <2> SUFFICES ASSUME ImportInv, [Next]_vars, NEW t \in Tickets
               PROVE  /\ failure[t] # None => failure'[t] = failure[t]
                      /\ publicStatus(t) = "PUBLISHED" => publicStatus(t)' = "PUBLISHED"
    OBVIOUS
  <2>1. Kept
    BY StepKeeps
  <2>2. failure[t] \in {None, "FAILED", "RECONCILIATION_REQUIRED"}
    BY DEF ImportInv, TypeOK
  <2>3. publicStatus(t) = "PUBLISHED" => t \in published
    BY <2>2 DEF publicStatus
  <2>4. t \in published' => publicStatus(t)' = "PUBLISHED"
    BY DEF publicStatus
  <2> QED
    BY <2>1, <2>3, <2>4 DEF Kept
<1> QED
  BY <1>1, ImportInvariant, PTL DEF Spec, VerdictIsFinal

-----------------------------------------------------------------------------
(***************************************************************************)
(* The managed pages.                                                      *)
(***************************************************************************)

\* The words that views, runs and screens are made of.
Words == {"none", "lost", "unreadable", "busy", "refusal", "custom", "governed", "coalition",
          "conflict", "no-conflict", "opened", "refused", "managed", "mini",
          "CASE_CREATED", "EVALUATED", "RELEASED", "RECOURSE_OPENED", "COMPLETE", "ABORTED",
          "OPEN_LOCAL_CURE_PATH", "RECORD_AND_CLOSE", "EXECUTION_READY", "NO_CONFLICT_NO_SETTLEMENT",
          "idle", "STARTING", "POSTED", "RUNNING", "BUSY", "REFUSED", "SERVICE_UNAVAILABLE"}

Rcpt == [run : Nat, result : Words]

Views == [kind : Words, run : Nat, stage : Words, result : Words, scenario : Words,
          recourse : Words, plan : Words, settlement : Words, receipt : Rcpt]

Runs == [kind : Kinds, stage : Words, result : Words]

Screens == [run : Nat, view : Views, phase : Words, notice : Words, eligible : BOOLEAN,
            restoring : BOOLEAN, failures : Nat, polls : Nat, previous : Rcpt]

Answers == [to : {"poll", "restore", "start"}, n : Nat, body : Views]

PageTypes ==
  /\ surface \in {"managed", "mini"}
  /\ runs \in Seq(Runs)
  /\ screen \in Screens
  /\ answers \subseteq Answers

\* A run without a release has no result.
RunOK(c) == c.stage \in {"CASE_CREATED", "EVALUATED"} => c.result = "none"

\* A view that the service gave of a run, now or earlier.
Past(b) ==
  /\ b.kind \in Kinds /\ b.run \in DOMAIN runs
  /\ b.scenario = b.result
  /\ b.result # "none" => runs[b.run].result = b.result
  /\ b.stage = "COMPLETE" => runs[b.run].stage = "COMPLETE"
  /\ b.stage # "COMPLETE" => b.receipt = NoReceipt

\* A view that says nothing of its run that the service did not say.
Released(v) ==
  /\ v.run \in DOMAIN runs
  /\ v.result # "none" =>
       /\ runs[v.run].result = v.result
       /\ v.stage = "COMPLETE" /\ v.receipt # NoReceipt =>
            runs[v.run].stage = "COMPLETE" /\ v.receipt = [run |-> v.run, result |-> v.result]

ShowOK(s) ==
  /\ s.run # NoRun => s.run \in DOMAIN runs
  /\ s.view # NoView => Released(s.view)
  /\ s.restoring => surface = "managed" /\ s.run # NoRun
  /\ surface = "mini" /\ s.phase \in {"STARTING", "POSTED"} => s.view = NoView

\* What the page relies on when an answer arrives: a read is of the run on
\* the screen, and the page still waits for it.
PollOK(a) == Past(a.body) /\ a.body.run = pollRun /\ polling(screen)
RestoreOK(a) == /\ Past(a.body) /\ a.body.run = screen.run
                /\ surface = "managed" /\ screen.view = NoView
StartOK(a) == /\ screen.phase = "POSTED"
              /\ a.body \in {Busy, Refusal} \/ (Past(a.body) /\ a.body.result = "none")

AnswersOK ==
  /\ \A a \in answers : /\ a.to = "poll" => PollOK(a)
                        /\ a.to = "restore" => RestoreOK(a)
                        /\ a.to = "start" => StartOK(a)
  /\ \A a, b \in answers : a.to = "start" /\ b.to = "start" => a = b

\* The inductive invariant of the managed pages.
PagesInv ==
  /\ PageTypes
  /\ \A r \in DOMAIN runs : RunOK(runs[r])
  /\ ShowOK(screen)
  /\ AnswersOK

\* A step that keeps what a page has settled on.
KeptView ==
  /\ IF surface = "managed" THEN terminalView(screen.view) ELSE screen.view.result # "none"
  /\ screen'.view # screen.view
  /\ screen.phase # "POSTED"
  => /\ surface = "mini" /\ screen'.view = NoView
     /\ screen'.previous = [run |-> screen.view.run, result |-> screen.view.result]

-----------------------------------------------------------------------------
\* Views.

\* The page's constant views have the members of a view.
LEMMA ConstantViews ==
  /\ NoReceipt \in Rcpt
  /\ NoView \in Views /\ Lost \in Views /\ Unread \in Views /\ Busy \in Views /\ Refusal \in Views
  /\ NoView.run = 0 /\ NoView.result = "none" /\ NoView.stage = "none" /\ NoView.kind = "none"
  /\ Lost.kind = "lost" /\ Unread.kind = "unreadable" /\ Busy.kind = "busy" /\ Refusal.kind = "refusal"
  /\ Busy.run = 0 /\ Refusal.run = 0
  /\ Blank \in Screens /\ Blank.view = NoView /\ Blank.run = 0 /\ Blank.restoring = FALSE
  /\ Blank.phase = "idle"
<1>1. NoReceipt \in Rcpt
  BY DEF NoReceipt, Rcpt, NoRun, Words
<1>2. NoView \in Views /\ NoView.run = 0 /\ NoView.result = "none" /\ NoView.stage = "none" /\ NoView.kind = "none"
  BY <1>1 DEF NoView, Views, NoRun, Words
<1>3. /\ Lost \in Views /\ Unread \in Views /\ Busy \in Views /\ Refusal \in Views
      /\ Lost.kind = "lost" /\ Unread.kind = "unreadable" /\ Busy.kind = "busy" /\ Refusal.kind = "refusal"
      /\ Busy.run = 0 /\ Refusal.run = 0
  BY <1>2 DEF Lost, Unread, Busy, Refusal, Views, Words
<1>4. /\ Blank \in Screens /\ Blank.view = NoView /\ Blank.run = 0 /\ Blank.restoring = FALSE
      /\ Blank.phase = "idle"
  BY <1>1, <1>2 DEF Blank, Screens, NoRun, Words
<1> QED
  BY <1>1, <1>2, <1>3, <1>4

\* The plan and the settlement of a result are named.
LEMMA PlanType ==
  ASSUME NEW x
  PROVE  planFor(x) \in Words /\ settlementFor(x) \in Words
BY DEF planFor, settlementFor, Words

\* The service's projection of a run is a view of it.
LEMMA ProjectionIs ==
  ASSUME NEW kind \in Words, NEW r \in Nat, NEW c, c.stage \in Words, c.result \in Words,
         NEW b, b = customSupervisedView(kind, r, c)
  PROVE  /\ b \in Views /\ b.kind = kind /\ b.run = r
         /\ b.stage = c.stage /\ b.result = c.result /\ b.scenario = c.result
         /\ b.receipt = IF c.stage = "COMPLETE" THEN [run |-> r, result |-> c.result] ELSE NoReceipt
<1>1. PICK x : x = IF kind # "coalition" /\ reached(c.stage, "RECOURSE_OPENED")
                   THEN IF c.result = "conflict" THEN "opened" ELSE "refused"
                   ELSE "none"
  OBVIOUS
<1>2. PICK p : p = IF kind = "governed" THEN planFor(c.result) ELSE "none"
  OBVIOUS
<1>3. PICK q : q = IF kind = "coalition" THEN settlementFor(c.result) ELSE "none"
  OBVIOUS
<1>4. PICK t : t = IF c.stage = "COMPLETE" THEN [run |-> r, result |-> c.result] ELSE NoReceipt
  OBVIOUS
<1>5. x \in Words /\ p \in Words /\ q \in Words
  BY <1>1, <1>2, <1>3, PlanType DEF Words
<1>6. t \in Rcpt
  BY <1>4, ConstantViews DEF Rcpt
<1>7. b = [kind |-> kind, run |-> r, stage |-> c.stage, result |-> c.result, scenario |-> c.result,
           recourse |-> x, plan |-> p, settlement |-> q, receipt |-> t]
  BY <1>1, <1>2, <1>3, <1>4, Zenon DEF customSupervisedView
<1> QED
  BY <1>4, <1>5, <1>6, <1>7 DEF Views

\* A page says that a receipt is sealed of complete views only.
LEMMA SealedIsComplete ==
  ASSUME NEW v, managedProductState(v) = "RECEIPT_SEALED"
  PROVE  v.stage = "COMPLETE" /\ v.receipt # NoReceipt
BY DEF managedProductState

\* A view in which one member is wrong is refused, or what it says of its
\* run is still what the service said.
LEMMA AcceptedIsTrue ==
  ASSUME PageTypes, NEW b \in Views, Past(b), NEW v \in {b} \cup distorted(b, DOMAIN runs),
         parseManagedWorkerView(v), v.run = b.run \/ b.result = "none"
  PROVE  v \in Views /\ Released(v)
<1> DEFINE P == /\ (v.result = "none" => v.scenario = "none")
                /\ (v.result # "none" => v.scenario = v.result)
                /\ (v.stage = "COMPLETE" => v.receipt # NoReceipt)
                /\ (v.receipt # NoReceipt => v.receipt = [run |-> v.run, result |-> v.result])
<1>1. P
  BY DEF parseManagedWorkerView, parseCustomSupervisedReceipt
<1>2. DOMAIN runs \subseteq Nat
  BY DEF PageTypes
<1> HIDE DEF P
<1>3. CASE v = b
  BY <1>1, <1>3 DEF Past, Released, P
<1>4. CASE \E x \in Verdicts \cup {"none"} : v = [b EXCEPT !.result = x]
  <2>1. PICK x \in Verdicts \cup {"none"} : v = [b EXCEPT !.result = x]
    BY <1>4
  <2>2. v \in Views /\ v.result = x /\ v.scenario = b.scenario /\ v.run = b.run
        /\ v.stage = b.stage /\ v.receipt = b.receipt
    BY <2>1 DEF Views, Verdicts, Words
  <2> QED
    BY <1>1, <2>2 DEF Past, Released, P
<1>5. CASE \E x \in Words : \/ v = [b EXCEPT !.scenario = x] \/ v = [b EXCEPT !.recourse = x]
                             \/ v = [b EXCEPT !.plan = x] \/ v = [b EXCEPT !.settlement = x]
  <2>1. v \in Views /\ v.result = b.result /\ v.run = b.run /\ v.stage = b.stage /\ v.receipt = b.receipt
    BY <1>5 DEF Views
  <2> QED
    BY <1>1, <2>1 DEF Past, Released, P
<1>6. CASE \E x \in {"RELEASED", "COMPLETE", "ABORTED"} : v = [b EXCEPT !.stage = x]
  <2>1. PICK x \in {"RELEASED", "COMPLETE", "ABORTED"} : v = [b EXCEPT !.stage = x]
    BY <1>6
  <2>2. v \in Views /\ v.result = b.result /\ v.run = b.run /\ v.stage = x /\ v.receipt = b.receipt
    BY <2>1 DEF Views, Words
  <2> QED
    BY <1>1, <2>2 DEF Past, Released, P
<1>7. CASE \E x \in DOMAIN runs : v = [b EXCEPT !.run = x]
  <2>1. PICK x \in DOMAIN runs : v = [b EXCEPT !.run = x]
    BY <1>7
  <2>2. v \in Views /\ v.result = b.result /\ v.run = x /\ v.stage = b.stage /\ v.receipt = b.receipt
    BY <1>2, <2>1 DEF Views
  <2> QED
    BY <1>1, <2>2 DEF Past, Released, P
<1>8. CASE \E x \in Receipts(DOMAIN runs) : v = [b EXCEPT !.receipt = x]
  <2>1. PICK x \in Receipts(DOMAIN runs) : v = [b EXCEPT !.receipt = x]
    BY <1>8
  <2>2. x \in Rcpt
    BY <1>2, ConstantViews DEF Receipts, Rcpt, Verdicts, Words
  <2>3. v \in Views /\ v.result = b.result /\ v.run = b.run /\ v.stage = b.stage /\ v.receipt = x
    BY <2>1, <2>2 DEF Views
  <2> QED
    BY <1>1, <2>3 DEF Past, Released, P
<1>9. \A x \in Verdicts \cup {"none"} : x \in Words
  BY DEF Verdicts, Words
<1>10. \A x \in {"none", "opened", "refused"} : x \in Words
  BY DEF Words
<1> QED
  BY <1>3, <1>4, <1>5, <1>6, <1>7, <1>8, <1>9, <1>10, PlanType DEF distorted

-----------------------------------------------------------------------------
\* Runs only move on, and answers are only taken.

RunsGrow ==
  /\ runs' \in Seq(Runs)
  /\ \A r \in DOMAIN runs' : RunOK(runs'[r])
  /\ \A r \in DOMAIN runs :
       /\ r \in DOMAIN runs'
       /\ runs[r].result # "none" => runs'[r].result = runs[r].result
       /\ runs[r].stage = "COMPLETE" => runs'[r].stage = "COMPLETE"

\* What the service said of a run stays said.
LEMMA GrownStays ==
  ASSUME RunsGrow, NEW v
  PROVE  (Past(v) => Past(v)') /\ (Released(v) => Released(v)')
BY DEF RunsGrow, Past, Released

\* The page waits for the same answers about the same run.
LEMMA UntouchedPage ==
  ASSUME PagesInv, RunsGrow, surface' = surface, NEW s \in Screens, screen' = s,
         s.run = screen.run, s.view = screen.view, s.phase = screen.phase, s.notice = screen.notice,
         s.restoring = screen.restoring
  PROVE  /\ ShowOK(screen)'
         /\ \A a \in answers : /\ a.to = "poll" => PollOK(a)'
                               /\ a.to = "restore" => RestoreOK(a)'
                               /\ a.to = "start" => StartOK(a)'
<1>1. PICK v : v = screen.view
  OBVIOUS
<1>2. ShowOK(screen)'
  <2>1. screen'.view = v /\ screen'.run = screen.run /\ screen'.restoring = screen.restoring
    BY <1>1
  <2>2. v # NoView => Released(v)'
    BY <1>1, GrownStays DEF PagesInv, ShowOK
  <2>3. v # NoView => Released(screen.view)'
    BY <2>1, <2>2 DEF Released
  <2> QED
    BY <2>1, <2>3 DEF ShowOK, PagesInv, RunsGrow
<1>3. ASSUME NEW a \in answers
      PROVE  /\ a.to = "poll" => PollOK(a)'
             /\ a.to = "restore" => RestoreOK(a)'
             /\ a.to = "start" => StartOK(a)'
  <2>1. Past(a.body) => Past(a.body)'
    BY GrownStays
  <2>2. pollRun' = pollRun /\ (polling(screen))' = polling(screen)
    BY DEF pollRun, polling, terminalView, verdictOf
  <2>3. a.to = "poll" => PollOK(a)'
    BY <2>1, <2>2 DEF PollOK, PagesInv, AnswersOK
  <2>4. a.to = "restore" => RestoreOK(a)'
    BY <2>1 DEF RestoreOK, PagesInv, AnswersOK
  <2>5. a.to = "start" => StartOK(a)'
    BY <2>1 DEF StartOK, PagesInv, AnswersOK
  <2> QED
    BY <2>3, <2>4, <2>5
<1> QED
  BY <1>2, <1>3

\* The page goes to a state that shows nothing new or a released view, and
\* drops the reads of the effects that are cleaned up.
LEMMA BecomesKeeps ==
  ASSUME PagesInv, NEW s \in Screens, NEW left \in SUBSET answers, becomes(s, left), ShowOK(s),
         \A a \in left : a.to = "start" => s.phase = "POSTED"
  PROVE  PagesInv'
<1>1. screen' = s /\ surface' = surface /\ runs' = runs /\ answers' = cancelled(left, s)
  BY DEF becomes
<1>2. answers' \subseteq left
  BY <1>1 DEF cancelled
<1>3. PageTypes'
  BY <1>1, <1>2 DEF PagesInv, PageTypes
<1>4. ShowOK(screen)'
  <2>1. ShowOK(s)'
    BY <1>1 DEF ShowOK, Released
  <2> QED
    BY <1>1, <2>1 DEF ShowOK, Released
<1>5. ASSUME NEW a \in answers'
      PROVE  /\ a.to = "poll" => PollOK(a)'
             /\ a.to = "restore" => RestoreOK(a)'
             /\ a.to = "start" => StartOK(a)'
  <2>1. a \in answers /\ a \in left
    BY <1>2
  <2>2. Past(a.body) => Past(a.body)'
    BY <1>1 DEF Past
  <2>3. ASSUME a.to = "poll"
        PROVE  PollOK(a)'
    <3>1. pollDeps(s) = pollDeps(screen)
      BY <1>1, <2>3 DEF cancelled
    <3>2. PollOK(a)
      BY <2>1, <2>3 DEF PagesInv, AnswersOK
    <3>3. pollRun' = IF surface = "managed" THEN s.run ELSE s.view.run
      BY <1>1 DEF pollRun
    <3>4. (polling(screen))' = polling(s)
      BY <1>1 DEF polling
    <3>5. CASE surface = "managed"
      <4>1. s.run = screen.run /\ terminalView(s.view) = terminalView(screen.view) /\ s.notice = screen.notice
        BY <3>1, <3>5 DEF pollDeps
      <4> QED
        BY <2>2, <3>2, <3>3, <3>4, <3>5, <4>1 DEF PollOK, polling, pollRun
    <3>6. CASE surface # "managed"
      <4>1. s.phase = screen.phase /\ s.view.run = screen.view.run
            /\ (verdictOf(s.view) # "none") = (verdictOf(screen.view) # "none")
        BY <3>1, <3>6 DEF pollDeps
      <4>2. s.view.run # 0
        BY <3>2, <3>6, <4>1 DEF PollOK, Past, pollRun, PagesInv, PageTypes
      <4>3. s.view # NoView
        BY <4>2, ConstantViews
      <4> QED
        BY <2>2, <3>2, <3>3, <3>4, <3>6, <4>1, <4>3 DEF PollOK, polling, pollRun
    <3> QED
      BY <3>5, <3>6
  <2>4. ASSUME a.to = "restore"
        PROVE  RestoreOK(a)'
    <3>1. s.run = screen.run /\ s.view = screen.view
      BY <1>1, <2>4 DEF cancelled
    <3> QED
      BY <1>1, <2>1, <2>2, <2>4, <3>1 DEF RestoreOK, PagesInv, AnswersOK
  <2>5. ASSUME a.to = "start"
        PROVE  StartOK(a)'
    BY <1>1, <2>1, <2>2, <2>5 DEF StartOK, PagesInv, AnswersOK
  <2> QED
    BY <2>3, <2>4, <2>5
<1>6. \A a, b \in answers' : a.to = "start" /\ b.to = "start" => a = b
  BY <1>2 DEF PagesInv, AnswersOK
<1>7. \A r \in DOMAIN runs' : RunOK(runs'[r])
  BY <1>1 DEF PagesInv
<1> QED
  BY <1>3, <1>4, <1>5, <1>6, <1>7 DEF PagesInv, AnswersOK

\* The page that could not read its run.
LEMMA UnavailableIs ==
  ASSUME NEW s \in Screens, NEW u, u = unavailable(s)
  PROVE  /\ u \in Screens /\ u.run = s.run /\ u.view = s.view /\ u.restoring = s.restoring
         /\ (surface = "managed" => u.phase = s.phase) /\ (surface # "managed" => u.phase = "REFUSED")
BY DEF unavailable, Screens, Words

\* A page that keeps its run and its view shows nothing new.
LEMMA SameShows ==
  ASSUME ShowOK(screen), NEW u, u.run = screen.run, u.view = screen.view \/ u.view = NoView,
         u.restoring => screen.restoring,
         u.view = NoView \/ u.phase = screen.phase \/ u.phase \notin {"STARTING", "POSTED"} \/ surface # "mini"
  PROVE  ShowOK(u)
BY DEF ShowOK

-----------------------------------------------------------------------------
\* The service's steps.

\* A run opens without a result, and moves on without losing one.
LEMMA MovedRun ==
  ASSUME NEW c \in Runs, RunOK(c), ~finished(c), NEW d \in moved(c)
  PROVE  /\ d \in Runs /\ RunOK(d)
         /\ c.result # "none" => d.result = c.result
         /\ c.stage # "COMPLETE"
<1>1. c.stage # "COMPLETE"
  BY DEF finished
<1>2. CASE c.stage = "CASE_CREATED"
  <2>1. d = [c EXCEPT !.stage = "EVALUATED"] \/ d = [c EXCEPT !.stage = "ABORTED"]
    BY <1>2 DEF moved
  <2> QED
    BY <1>1, <1>2, <2>1 DEF Runs, RunOK, Words
<1>3. CASE c.stage = "EVALUATED"
  <2>1. PICK x \in Verdicts : d = [c EXCEPT !.stage = "RELEASED", !.result = x]
    BY <1>3 DEF moved
  <2> QED
    BY <1>1, <1>3, <2>1 DEF Runs, RunOK, Words, Verdicts
<1>4. CASE c.stage \notin {"CASE_CREATED", "EVALUATED"}
  <2>1. d = [c EXCEPT !.stage = "RECOURSE_OPENED"] \/ d = [c EXCEPT !.stage = "COMPLETE"]
    BY <1>4 DEF moved
  <2> QED
    BY <1>1, <1>4, <2>1 DEF Runs, RunOK, Words
<1> QED
  BY <1>2, <1>3, <1>4

\* The service opens a run behind the others.
LEMMA OpenedRun ==
  ASSUME PagesInv, NEW k \in ViewKinds, runs' = opened(k)
  PROVE  /\ RunsGrow /\ Len(runs) + 1 \in DOMAIN runs'
         /\ runs'[Len(runs) + 1] = [kind |-> k, stage |-> "CASE_CREATED", result |-> "none"]
<1>1. PICK c : c = [kind |-> k, stage |-> "CASE_CREATED", result |-> "none"]
  OBVIOUS
<1>2. c \in Runs /\ RunOK(c)
  BY <1>1, PagesAssumption DEF Runs, RunOK, Words
<1>3. runs \in Seq(Runs) /\ runs' = Append(runs, c) /\ \A r \in DOMAIN runs : RunOK(runs[r])
  BY <1>1 DEF opened, PagesInv, PageTypes
<1>4. /\ runs' \in Seq(Runs) /\ DOMAIN runs' = 1 .. Len(runs) + 1 /\ DOMAIN runs = 1 .. Len(runs)
      /\ runs'[Len(runs) + 1] = c /\ \A r \in 1 .. Len(runs) : runs'[r] = runs[r]
  BY <1>2, <1>3
<1>5. Len(runs) \in Nat
  BY <1>3
<1>6. \A r \in DOMAIN runs' : RunOK(runs'[r])
  BY <1>2, <1>3, <1>4, <1>5
<1>7. \A r \in DOMAIN runs : r \in DOMAIN runs' /\ runs'[r] = runs[r]
  BY <1>4, <1>5
<1> QED
  BY <1>1, <1>4, <1>5, <1>6, <1>7 DEF RunsGrow

\* A page that is left alone while the service moves on.
LEMMA ServiceKeeps ==
  ASSUME PagesInv, RunsGrow, UNCHANGED <<surface, screen, answers, errs>>
  PROVE  PagesInv' /\ KeptView
<1>1. PICK s : s = screen
  OBVIOUS
<1>2. s \in Screens
  BY <1>1 DEF PagesInv, PageTypes
<1>3. /\ ShowOK(screen)'
      /\ \A a \in answers : /\ a.to = "poll" => PollOK(a)'
                            /\ a.to = "restore" => RestoreOK(a)'
                            /\ a.to = "start" => StartOK(a)'
  BY <1>1, <1>2, UntouchedPage
<1>4. AnswersOK'
  BY <1>3 DEF AnswersOK, PagesInv
<1>5. PageTypes' /\ \A r \in DOMAIN runs' : RunOK(runs'[r])
  BY DEF RunsGrow, PagesInv, PageTypes
<1> QED
  BY <1>3, <1>4, <1>5 DEF PagesInv, KeptView

\* A run moves on.
LEMMA MovesKeep ==
  ASSUME PagesInv, runMoves
  PROVE  PagesInv' /\ KeptView
<1>1. PICK r \in DOMAIN runs : ~finished(runs[r]) /\ \E d \in moved(runs[r]) : runs' = [runs EXCEPT ![r] = d]
  BY DEF runMoves
<1>2. PICK d \in moved(runs[r]) : runs' = [runs EXCEPT ![r] = d]
  BY <1>1
<1>3. PICK c : c = runs[r]
  OBVIOUS
<1>4. c \in Runs /\ RunOK(c) /\ runs \in Seq(Runs)
  BY <1>3 DEF PagesInv, PageTypes
<1>5. d \in Runs /\ RunOK(d) /\ (c.result # "none" => d.result = c.result) /\ c.stage # "COMPLETE"
  BY <1>1, <1>2, <1>3, <1>4, MovedRun
<1>6. /\ runs' \in Seq(Runs) /\ DOMAIN runs' = DOMAIN runs /\ runs'[r] = d
      /\ \A q \in DOMAIN runs : q # r => runs'[q] = runs[q]
  BY <1>2, <1>4, <1>5
<1>7. \A q \in DOMAIN runs' : RunOK(runs'[q])
  BY <1>5, <1>6 DEF PagesInv
<1>8. RunsGrow
  BY <1>3, <1>5, <1>6, <1>7 DEF RunsGrow
<1> QED
  BY <1>8, ServiceKeeps DEF runMoves

\* Another visitor takes the slot.
LEMMA VisitorKeeps ==
  ASSUME PagesInv, visitorStarts
  PROVE  PagesInv' /\ KeptView
BY OpenedRun, ServiceKeeps DEF visitorStarts

-----------------------------------------------------------------------------
\* The page's reads.

\* What the service answers to a read is a view of the run.
LEMMA ReadIsPast ==
  ASSUME PagesInv, NEW r \in DOMAIN runs, NEW b, b = projection(r)
  PROVE  b \in Views /\ Past(b) /\ b.run = r
<1>1. PICK c : c = runs[r]
  OBVIOUS
<1>2. c \in Runs /\ r \in Nat
  BY <1>1 DEF PagesInv, PageTypes
<1>3. c.kind \in Kinds /\ c.kind \in Words /\ c.stage \in Words /\ c.result \in Words
  BY <1>2 DEF Runs, Kinds, Words
<1>4. PICK kind : kind = c.kind
  OBVIOUS
<1>5. b = customSupervisedView(kind, r, c)
  BY <1>1, <1>4 DEF projection
<1>6. kind \in Words /\ kind \in Kinds
  BY <1>3, <1>4
<1>7. /\ b \in Views /\ b.kind = kind /\ b.run = r
      /\ b.stage = c.stage /\ b.result = c.result /\ b.scenario = c.result
      /\ b.receipt = IF c.stage = "COMPLETE" THEN [run |-> r, result |-> c.result] ELSE NoReceipt
  BY <1>2, <1>3, <1>5, <1>6, ProjectionIs
<1> QED
  BY <1>1, <1>6, <1>7 DEF Past

\* The run that a page polls exists.
LEMMA PolledRun ==
  ASSUME PagesInv, polling(screen)
  PROVE  pollRun \in DOMAIN runs
BY DEF polling, pollRun, PagesInv, ShowOK, Released

\* A poll is sent.
LEMMA PollKeeps ==
  ASSUME PagesInv, poll
  PROVE  PagesInv' /\ KeptView
<1>1. PICK b : b = projection(pollRun)
  OBVIOUS
<1>2. PICK s : s = [screen EXCEPT !.polls = @ + 1]
  OBVIOUS
<1>3. PICK a : a = [to |-> "poll", n |-> screen.polls + 1, body |-> b]
  OBVIOUS
<1>4. /\ polling(screen) /\ screen' = s /\ answers' = answers \cup {a}
      /\ surface' = surface /\ runs' = runs
  BY <1>1, <1>2, <1>3 DEF poll
<1>5. b \in Views /\ Past(b) /\ b.run = pollRun
  BY <1>1, <1>4, PolledRun, ReadIsPast
<1>6. /\ s \in Screens /\ s.run = screen.run /\ s.view = screen.view /\ s.phase = screen.phase
      /\ s.notice = screen.notice /\ s.restoring = screen.restoring /\ screen.polls + 1 \in Nat
  BY <1>2 DEF PagesInv, PageTypes, Screens
<1>7. a \in Answers /\ a.to = "poll" /\ a.body = b
  BY <1>3, <1>5, <1>6 DEF Answers
<1>8. RunsGrow
  BY <1>4 DEF RunsGrow, PagesInv, PageTypes
<1>9. /\ ShowOK(screen)'
      /\ \A x \in answers : /\ x.to = "poll" => PollOK(x)'
                            /\ x.to = "restore" => RestoreOK(x)'
                            /\ x.to = "start" => StartOK(x)'
  BY <1>4, <1>6, <1>8, UntouchedPage
<1>10. PollOK(a)'
  <2>1. pollRun' = pollRun /\ (polling(screen))' = polling(screen)
    BY <1>4, <1>6 DEF pollRun, polling, terminalView, verdictOf
  <2>2. Past(b)'
    BY <1>5, <1>8, GrownStays
  <2> QED
    BY <1>4, <1>5, <1>7, <2>1, <2>2 DEF PollOK
<1>11. AnswersOK'
  BY <1>4, <1>7, <1>9, <1>10 DEF AnswersOK, PagesInv
<1>12. PageTypes' /\ \A r \in DOMAIN runs' : RunOK(runs'[r])
  BY <1>4, <1>6, <1>7, <1>8 DEF RunsGrow, PagesInv, PageTypes
<1> QED
  BY <1>4, <1>6, <1>9, <1>11, <1>12 DEF PagesInv, KeptView

\* The page reads the run it was opened at.
LEMMA RestoreKeeps ==
  ASSUME PagesInv, restore
  PROVE  PagesInv' /\ KeptView
<1>1. PICK b : b = projection(screen.run)
  OBVIOUS
<1>2. PICK s : s = screen
  OBVIOUS
<1>3. PICK a : a = [to |-> "restore", n |-> 0, body |-> b]
  OBVIOUS
<1>4. /\ screen.restoring /\ screen.view = NoView /\ screen' = s /\ answers' = answers \cup {a}
      /\ surface' = surface /\ runs' = runs
  BY <1>1, <1>2, <1>3 DEF restore
<1>5. screen.run \in DOMAIN runs /\ surface = "managed"
  BY <1>4 DEF PagesInv, ShowOK
<1>6. b \in Views /\ Past(b) /\ b.run = screen.run
  BY <1>1, <1>5, ReadIsPast
<1>7. a \in Answers /\ a.to = "restore" /\ a.body = b
  BY <1>3, <1>6 DEF Answers
<1>8. RunsGrow /\ s \in Screens
  BY <1>2, <1>4 DEF RunsGrow, PagesInv, PageTypes
<1>9. /\ ShowOK(screen)'
      /\ \A x \in answers : /\ x.to = "poll" => PollOK(x)'
                            /\ x.to = "restore" => RestoreOK(x)'
                            /\ x.to = "start" => StartOK(x)'
  BY <1>2, <1>4, <1>8, UntouchedPage
<1>10. RestoreOK(a)'
  <2>1. Past(b)'
    BY <1>6, <1>8, GrownStays
  <2> QED
    BY <1>2, <1>4, <1>5, <1>6, <1>7, <2>1 DEF RestoreOK
<1>11. AnswersOK'
  BY <1>4, <1>7, <1>9, <1>10 DEF AnswersOK, PagesInv
<1>12. PageTypes' /\ \A r \in DOMAIN runs' : RunOK(runs'[r])
  BY <1>2, <1>4, <1>7, <1>8 DEF RunsGrow, PagesInv, PageTypes
<1> QED
  BY <1>2, <1>4, <1>9, <1>11, <1>12 DEF PagesInv, KeptView

-----------------------------------------------------------------------------
\* The page's answers.

\* An answer the page can parse is a view of its run, true of it.
LEMMA ArrivingIs ==
  ASSUME PagesInv, NEW b \in Views, Past(b), NEW v \in arriving(b), v.kind \in Kinds,
         parseManagedWorkerView(v), v.run = b.run \/ b.result = "none"
  PROVE  v \in Views /\ Released(v)
<1>1. v # Lost /\ v # Unread
  BY ConstantViews DEF Kinds
<1>2. v \in {b} \cup distorted(b, DOMAIN runs)
  BY <1>1 DEF arriving
<1> QED
  BY <1>2, AcceptedIsTrue DEF PagesInv

\* A poll is answered, in any order.
LEMMA PollAnsweredKeeps ==
  ASSUME PagesInv, pollAnswered
  PROVE  PagesInv' /\ KeptView
<1> DEFINE S(v) == CASE acceptable(v, pollRun) -> [screen EXCEPT !.view = v, !.failures = 0]
                     [] failedRead(v) -> IF screen.failures + 1 < FailureLimit
                                         THEN [screen EXCEPT !.failures = screen.failures + 1]
                                         ELSE unavailable([screen EXCEPT !.failures = screen.failures + 1])
                     [] OTHER -> unavailable(screen)
<1>0. PICK a \in answers : a.to = "poll" /\ \E v \in arriving(a.body) : becomes(S(v), answers \ {a})
  BY DEF pollAnswered
<1>1. PICK v \in arriving(a.body) : becomes(S(v), answers \ {a})
  BY <1>0
<1>2. PICK s : s = S(v)
  OBVIOUS
<1>3. becomes(s, answers \ {a}) /\ answers \ {a} \in SUBSET answers /\ screen' = s
  BY <1>1, <1>2 DEF becomes
<1>4. a.body \in Views /\ PollOK(a) /\ screen \in Screens
  BY <1>0 DEF PagesInv, PageTypes, AnswersOK, Answers
<1>5. PICK f : f = [screen EXCEPT !.failures = screen.failures + 1]
  OBVIOUS
<1>6. /\ f \in Screens /\ f.run = screen.run /\ f.view = screen.view /\ f.restoring = screen.restoring
      /\ f.phase = screen.phase
  BY <1>4, <1>5 DEF Screens
<1>7. \/ acceptable(v, pollRun) /\ s = [screen EXCEPT !.view = v, !.failures = 0]
      \/ s = f \/ s = unavailable(f) \/ s = unavailable(screen)
  BY <1>2, <1>5
<1>8. \A x \in answers : x.to = "start" => surface = "managed" /\ screen.phase = "POSTED"
  BY <1>4 DEF PagesInv, AnswersOK, StartOK, PollOK, polling, PageTypes
<1>9. s \in Screens /\ ShowOK(s) /\ (surface = "managed" => s.phase = screen.phase)
  <2>1. CASE acceptable(v, pollRun) /\ s = [screen EXCEPT !.view = v, !.failures = 0]
    <3>1. v \in Views /\ Released(v)
      BY <1>4, <2>1, ArrivingIs DEF acceptable, PollOK
    <3>2. /\ s \in Screens /\ s.view = v /\ s.run = screen.run /\ s.restoring = screen.restoring
          /\ s.phase = screen.phase
      BY <1>4, <2>1, <3>1 DEF Screens
    <3>3. surface = "mini" => s.phase = "RUNNING"
      BY <1>4, <3>2 DEF PollOK, polling
    <3> QED
      BY <3>1, <3>2, <3>3 DEF ShowOK, PagesInv
  <2>2. CASE s = f
    BY <1>6, <2>2, SameShows DEF PagesInv
  <2>3. CASE s = unavailable(f)
    <3>1. /\ s \in Screens /\ s.run = f.run /\ s.view = f.view /\ s.restoring = f.restoring
          /\ (surface = "managed" => s.phase = f.phase) /\ (surface # "managed" => s.phase = "REFUSED")
      BY <1>6, <2>3, UnavailableIs
    <3> QED
      BY <1>6, <3>1, SameShows DEF PagesInv
  <2>4. CASE s = unavailable(screen)
    <3>1. /\ s \in Screens /\ s.run = screen.run /\ s.view = screen.view /\ s.restoring = screen.restoring
          /\ (surface = "managed" => s.phase = screen.phase) /\ (surface # "managed" => s.phase = "REFUSED")
      BY <1>4, <2>4, UnavailableIs
    <3> QED
      BY <3>1, SameShows DEF PagesInv
  <2> QED
    BY <1>7, <2>1, <2>2, <2>3, <2>4
<1>10. PagesInv'
  BY <1>3, <1>8, <1>9, BecomesKeeps
<1>11. KeptView
  BY <1>4 DEF KeptView, PollOK, polling, verdictOf
<1> QED
  BY <1>10, <1>11

\* The first read of a page that was opened at a run is answered.
LEMMA RestoreAnsweredKeeps ==
  ASSUME PagesInv, restoreAnswered
  PROVE  PagesInv' /\ KeptView
<1>1. PICK d : d = [screen EXCEPT !.restoring = FALSE]
  OBVIOUS
<1> DEFINE S(v) == CASE acceptable(v, screen.run) -> [d EXCEPT !.view = v]
                     [] failedRead(v) -> [d EXCEPT !.failures = @ + 1]
                     [] OTHER -> unavailable(d)
<1>0. PICK a \in answers : a.to = "restore" /\ \E v \in arriving(a.body) : becomes(S(v), answers \ {a})
  BY <1>1 DEF restoreAnswered
<1>2. PICK v \in arriving(a.body) : becomes(S(v), answers \ {a})
  BY <1>0
<1>3. PICK s : s = S(v)
  OBVIOUS
<1>4. becomes(s, answers \ {a}) /\ answers \ {a} \in SUBSET answers /\ screen' = s
  BY <1>2, <1>3 DEF becomes
<1>5. a.body \in Views /\ RestoreOK(a) /\ screen \in Screens
  BY <1>0 DEF PagesInv, PageTypes, AnswersOK, Answers
<1>6. /\ d \in Screens /\ d.run = screen.run /\ d.view = screen.view /\ d.restoring = FALSE
      /\ d.phase = screen.phase
  BY <1>1, <1>5 DEF Screens
<1>7. \/ acceptable(v, screen.run) /\ s = [d EXCEPT !.view = v]
      \/ s = [d EXCEPT !.failures = @ + 1] \/ s = unavailable(d)
  BY <1>3
<1>8. s \in Screens /\ ShowOK(s) /\ s.phase = screen.phase
  <2>1. CASE acceptable(v, screen.run) /\ s = [d EXCEPT !.view = v]
    <3>1. v \in Views /\ Released(v)
      BY <1>5, <2>1, ArrivingIs DEF acceptable, RestoreOK
    <3>2. s \in Screens /\ s.view = v /\ s.run = screen.run /\ s.restoring = FALSE /\ s.phase = screen.phase
      BY <1>6, <2>1, <3>1 DEF Screens
    <3> QED
      BY <1>5, <3>1, <3>2 DEF ShowOK, PagesInv, RestoreOK
  <2>2. CASE s = [d EXCEPT !.failures = @ + 1]
    <3>1. s \in Screens /\ s.view = screen.view /\ s.run = screen.run /\ s.restoring = FALSE
          /\ s.phase = screen.phase
      BY <1>6, <2>2 DEF Screens
    <3> QED
      BY <3>1, SameShows DEF PagesInv
  <2>3. CASE s = unavailable(d)
    <3>1. /\ s \in Screens /\ s.run = d.run /\ s.view = d.view /\ s.restoring = d.restoring
          /\ (surface = "managed" => s.phase = d.phase)
      BY <1>6, <2>3, UnavailableIs
    <3> QED
      BY <1>5, <1>6, <3>1, SameShows DEF PagesInv, RestoreOK
  <2> QED
    BY <1>7, <2>1, <2>2, <2>3
<1>9. \A x \in answers : x.to = "start" => screen.phase = "POSTED"
  BY DEF PagesInv, AnswersOK, StartOK
<1>10. PagesInv'
  BY <1>4, <1>8, <1>9, BecomesKeeps
<1>11. KeptView
  BY <1>5, ConstantViews DEF KeptView, RestoreOK, terminalView
<1> QED
  BY <1>10, <1>11

-----------------------------------------------------------------------------
\* What the visitor does.

\* Another state of the page with the same run and view, or none.
LEMMA PressKeeps ==
  ASSUME PagesInv, NEW s \in Screens, becomes(s, answers), s.run = screen.run,
         s.view = screen.view \/ s.view = NoView, s.restoring = screen.restoring,
         s.phase = screen.phase \/ screen.phase # "POSTED",
         s.view = NoView \/ s.phase = screen.phase \/ s.phase \notin {"STARTING", "POSTED"} \/ surface # "mini"
  PROVE  PagesInv'
<1>1. ShowOK(s)
  BY SameShows DEF PagesInv
<1>2. \A x \in answers : x.to = "start" => s.phase = "POSTED"
  BY DEF PagesInv, AnswersOK, StartOK
<1>3. answers \in SUBSET answers
  OBVIOUS
<1> QED
  BY <1>1, <1>2, <1>3, BecomesKeeps

\* Eligibility and notices are beside the view.
LEMMA AsideKeeps ==
  ASSUME PagesInv, checkEligibility \/ retry
  PROVE  PagesInv' /\ KeptView
<1>1. PICK s : becomes(s, answers) /\ \/ \E e \in BOOLEAN : s = [screen EXCEPT !.eligible = e]
                                      \/ s = [screen EXCEPT !.notice = "none", !.failures = 0, !.polls = 0]
  BY DEF checkEligibility, retry
<1>2. /\ s \in Screens /\ s.run = screen.run /\ s.view = screen.view /\ s.restoring = screen.restoring
      /\ s.phase = screen.phase
  <2>1. screen \in Screens /\ "none" \in Words
    BY DEF PagesInv, PageTypes, Words
  <2>2. CASE \E e \in BOOLEAN : s = [screen EXCEPT !.eligible = e]
    BY <2>1, <2>2 DEF Screens
  <2>3. CASE s = [screen EXCEPT !.notice = "none", !.failures = 0, !.polls = 0]
    BY <2>1, <2>3 DEF Screens
  <2> QED
    BY <1>1, <2>2, <2>3
<1>3. screen' = s
  BY <1>1 DEF becomes
<1> QED
  BY <1>1, <1>2, <1>3, PressKeeps DEF KeptView

\* The visitor starts a run.
LEMMA StartKeeps ==
  ASSUME PagesInv, start
  PROVE  PagesInv' /\ KeptView
<1>1. PICK s : s = IF surface = "managed" THEN [screen EXCEPT !.phase = "STARTING"]
                   ELSE [screen EXCEPT !.phase = "STARTING", !.view = NoView, !.polls = 0, !.failures = 0]
  OBVIOUS
<1>2. becomes(s, answers) /\ mayStart /\ screen' = s
  BY <1>1 DEF start, becomes
<1>3. /\ s \in Screens /\ s.run = screen.run /\ s.restoring = screen.restoring
      /\ s.view = IF surface = "managed" THEN screen.view ELSE NoView
  BY <1>1, ConstantViews DEF PagesInv, PageTypes, Screens, Words
<1>4. screen.phase # "POSTED" /\ (surface # "managed" => screen.view.result = "none")
  BY <1>2 DEF mayStart, verdictOf
<1>5. PagesInv'
  BY <1>2, <1>3, <1>4, PressKeeps
<1> QED
  BY <1>2, <1>3, <1>4, <1>5 DEF KeptView

\* No run was started.
LEMMA NotStartedIs ==
  ASSUME NEW s \in Screens, NEW u, u = notStarted(s)
  PROVE  /\ u \in Screens /\ u.run = s.run /\ u.view = s.view /\ u.restoring = s.restoring
         /\ u.phase \in {"idle", "REFUSED"}
BY DEF notStarted, Screens, Words

\* The launch token is refused.
LEMMA RefusedKeeps ==
  ASSUME PagesInv, tokenRefused
  PROVE  PagesInv' /\ KeptView
<1>1. PICK s : s = notStarted(screen)
  OBVIOUS
<1>2. becomes(s, answers) /\ screen' = s /\ screen.phase = "STARTING" /\ screen \in Screens
  BY <1>1 DEF tokenRefused, becomes, PagesInv, PageTypes
<1>3. /\ s \in Screens /\ s.run = screen.run /\ s.view = screen.view /\ s.restoring = screen.restoring
      /\ s.phase \in {"idle", "REFUSED"}
  BY <1>1, <1>2, NotStartedIs
<1>4. PagesInv'
  BY <1>2, <1>3, PressKeeps
<1> QED
  BY <1>2, <1>3, <1>4 DEF KeptView

\* The mini check is cleared for another case.
LEMMA AnotherKeeps ==
  ASSUME PagesInv, tryAnotherCase
  PROVE  PagesInv' /\ KeptView
<1>1. PICK p : p = [run |-> screen.view.run, result |-> verdictOf(screen.view)]
  OBVIOUS
<1>2. PICK s : s = [Blank EXCEPT !.previous = p]
  OBVIOUS
<1>3. becomes(s, answers) /\ screen' = s /\ surface = "mini" /\ verdictOf(screen.view) # "none"
  BY <1>1, <1>2 DEF tryAnotherCase, becomes
<1>4. p \in Rcpt
  BY <1>1 DEF Rcpt, verdictOf, PagesInv, PageTypes, Screens, Views
<1>5. /\ s \in Screens /\ s.run = 0 /\ s.restoring = FALSE /\ s.view = NoView /\ s.phase = "idle"
      /\ s.previous = p
  BY <1>2, <1>4, ConstantViews DEF Screens
<1>6. ShowOK(s)
  BY <1>5 DEF ShowOK, NoRun
<1>7. \A x \in answers : x.to = "start" => s.phase = "POSTED"
  BY <1>3, ConstantViews DEF PagesInv, AnswersOK, StartOK, ShowOK, verdictOf
<1>8. answers \in SUBSET answers
  OBVIOUS
<1>9. PagesInv'
  BY <1>3, <1>5, <1>6, <1>7, <1>8, BecomesKeeps
<1> QED
  BY <1>1, <1>3, <1>5, <1>9 DEF KeptView, verdictOf

\* The case is posted: the service opens a run or refuses.
LEMMA PostKeeps ==
  ASSUME PagesInv, postCase
  PROVE  PagesInv' /\ KeptView
<1>1. PICK s : s = [screen EXCEPT !.phase = "POSTED"]
  OBVIOUS
<1>2. screen' = s /\ screen.phase = "STARTING" /\ surface' = surface
  BY <1>1 DEF postCase
<1>3. /\ s \in Screens /\ s.run = screen.run /\ s.view = screen.view /\ s.restoring = screen.restoring
      /\ s.notice = screen.notice /\ s.phase = "POSTED"
  BY <1>1 DEF PagesInv, PageTypes, Screens, Words
<1>4. /\ RunsGrow
      /\ \E b \in Views : /\ b \in {Busy, Refusal} \/ (Past(b)' /\ b.result = "none")
                          /\ answers' = answers \cup {[to |-> "start", n |-> 0, body |-> b]}
  <2>1. CASE /\ \E body \in {Refusal} \cup IF slotTaken THEN {Busy} ELSE {} :
                  answers' = answers \cup {[to |-> "start", n |-> 0, body |-> body]}
             /\ UNCHANGED runs
    <3>1. PICK b : b \in {Busy, Refusal} /\ answers' = answers \cup {[to |-> "start", n |-> 0, body |-> b]}
      BY <2>1
    <3>2. b \in Views
      BY <3>1, ConstantViews
    <3>3. RunsGrow
      BY <2>1 DEF RunsGrow, PagesInv, PageTypes
    <3> QED
      BY <3>1, <3>2, <3>3
  <2>2. ASSUME NEW k \in ViewKinds, runs' = opened(k),
               answers' = answers \cup {[to |-> "start", n |-> 0,
                            body |-> customSupervisedView(k, Len(runs) + 1, opened(k)[Len(runs) + 1])]}
        PROVE  /\ RunsGrow
               /\ \E b \in Views : /\ b \in {Busy, Refusal} \/ (Past(b)' /\ b.result = "none")
                                   /\ answers' = answers \cup {[to |-> "start", n |-> 0, body |-> b]}
    <3>1. PICK r : r = Len(runs) + 1
      OBVIOUS
    <3>2. PICK c : c = opened(k)[r]
      OBVIOUS
    <3>3. /\ RunsGrow /\ r \in DOMAIN runs' /\ runs'[r] = c /\ r \in Nat
          /\ c = [kind |-> k, stage |-> "CASE_CREATED", result |-> "none"]
      BY <2>2, <3>1, <3>2, OpenedRun DEF PagesInv, PageTypes
    <3>4. PICK b : b = customSupervisedView(k, r, c)
      OBVIOUS
    <3>5. k \in Kinds /\ k \in Words /\ c.stage = "CASE_CREATED" /\ c.result = "none"
          /\ c.stage \in Words /\ c.result \in Words
      BY <3>3, PagesAssumption DEF Kinds, Words
    <3>6. /\ b \in Views /\ b.kind = k /\ b.run = r /\ b.stage = c.stage /\ b.result = c.result
          /\ b.scenario = c.result
          /\ b.receipt = IF c.stage = "COMPLETE" THEN [run |-> r, result |-> c.result] ELSE NoReceipt
      <4>1. r \in Nat /\ k \in Words /\ c.stage \in Words /\ c.result \in Words
        BY <3>3, <3>5
      <4> QED
        BY <3>4, <4>1, ProjectionIs
    <3>7. Past(b)'
      BY <3>3, <3>5, <3>6 DEF Past
    <3>8. answers' = answers \cup {[to |-> "start", n |-> 0, body |-> b]}
      BY <2>2, <3>1, <3>2, <3>4
    <3> QED
      BY <3>3, <3>5, <3>6, <3>7, <3>8
  <2> QED
    BY <2>1, <2>2 DEF postCase
<1>5. PICK b \in Views : /\ b \in {Busy, Refusal} \/ (Past(b)' /\ b.result = "none")
                         /\ answers' = answers \cup {[to |-> "start", n |-> 0, body |-> b]}
  BY <1>4
<1>6. PICK a : a = [to |-> "start", n |-> 0, body |-> b]
  OBVIOUS
<1>7. a \in Answers /\ a.to = "start" /\ a.body = b /\ answers' = answers \cup {a}
  BY <1>5, <1>6 DEF Answers
<1>8. \A x \in answers : x.to # "start"
  BY <1>2 DEF PagesInv, AnswersOK, StartOK
<1>9. ShowOK(screen)'
  <2>1. PICK v : v = screen.view
    OBVIOUS
  <2>2. screen'.view = v /\ (v # NoView => Released(v)')
    BY <1>2, <1>3, <1>4, <2>1, GrownStays DEF PagesInv, ShowOK
  <2>3. v # NoView => Released(screen.view)'
    BY <2>2 DEF Released
  <2>4. surface = "mini" => v = NoView
    BY <1>2, <2>1 DEF PagesInv, ShowOK
  <2>5. s.run # NoRun => s.run \in DOMAIN runs'
    BY <1>3, <1>4 DEF PagesInv, ShowOK, RunsGrow
  <2>6. s.restoring => surface = "managed" /\ s.run # NoRun
    BY <1>3 DEF PagesInv, ShowOK
  <2> QED
    BY <1>2, <1>3, <2>2, <2>3, <2>4, <2>5, <2>6 DEF ShowOK
<1>10. ASSUME NEW x \in answers'
       PROVE  /\ x.to = "poll" => PollOK(x)'
              /\ x.to = "restore" => RestoreOK(x)'
              /\ x.to = "start" => StartOK(x)'
  <2>1. CASE x = a
    BY <1>2, <1>3, <1>5, <1>7, <2>1 DEF StartOK
  <2>2. CASE x \in answers
    <3>1. Past(x.body) => Past(x.body)'
      BY <1>4, GrownStays
    <3>2. x.to = "poll" => surface = "managed"
      BY <1>2, <2>2 DEF PagesInv, AnswersOK, PollOK, polling
    <3>3. surface = "managed" => pollRun' = pollRun /\ (polling(screen))' = polling(screen)
      BY <1>2, <1>3 DEF pollRun, polling, terminalView
    <3>4. x.to = "poll" => PollOK(x)'
      BY <2>2, <3>1, <3>2, <3>3 DEF PagesInv, AnswersOK, PollOK
    <3>5. x.to = "restore" => RestoreOK(x)'
      BY <1>2, <1>3, <2>2, <3>1 DEF PagesInv, AnswersOK, RestoreOK
    <3> QED
      BY <1>8, <2>2, <3>4, <3>5
  <2> QED
    BY <1>7, <2>1, <2>2
<1>11. AnswersOK'
  BY <1>7, <1>8, <1>10 DEF AnswersOK
<1>12. PageTypes' /\ \A r \in DOMAIN runs' : RunOK(runs'[r])
  BY <1>2, <1>3, <1>4, <1>7 DEF RunsGrow, PagesInv, PageTypes
<1> QED
  BY <1>2, <1>3, <1>9, <1>11, <1>12 DEF PagesInv, KeptView

\* The answer to a start: a run, whichever the answer names, or none.
LEMMA StartAnsweredKeeps ==
  ASSUME PagesInv, startAnswered
  PROVE  PagesInv' /\ KeptView
<1> DEFINE S(v) ==
      CASE v = Busy -> IF surface = "managed" THEN [screen EXCEPT !.phase = "idle", !.notice = "BUSY"]
                       ELSE [screen EXCEPT !.phase = "BUSY"]
        [] v \in {Refusal, Lost} -> notStarted(screen)
        [] v.kind \in Kinds /\ parseManagedWorkerView(v) ->
             IF surface = "managed" THEN [screen EXCEPT !.phase = "idle", !.run = v.run, !.view = v]
             ELSE [screen EXCEPT !.phase = "RUNNING", !.view = v]
        [] OTHER -> unavailable(notStarted(screen))
<1>0. PICK a \in answers : a.to = "start" /\ \E v \in arriving(a.body) : becomes(S(v), answers \ {a})
  BY DEF startAnswered
<1>1. PICK v \in arriving(a.body) : becomes(S(v), answers \ {a})
  BY <1>0
<1>2. PICK s : s = S(v)
  OBVIOUS
<1>3. becomes(s, answers \ {a}) /\ answers \ {a} \in SUBSET answers /\ screen' = s
  BY <1>1, <1>2 DEF becomes
<1>4. a.body \in Views /\ StartOK(a) /\ screen \in Screens
  BY <1>0 DEF PagesInv, PageTypes, AnswersOK, Answers
<1>5. \A x \in answers \ {a} : x.to # "start"
  BY <1>0 DEF PagesInv, AnswersOK
<1>6. PICK n : n = notStarted(screen)
  OBVIOUS
<1>7. /\ n \in Screens /\ n.run = screen.run /\ n.view = screen.view /\ n.restoring = screen.restoring
      /\ n.phase \in {"idle", "REFUSED"}
  BY <1>4, <1>6, NotStartedIs
<1>8. \/ s = [screen EXCEPT !.phase = "idle", !.notice = "BUSY"]
      \/ s = [screen EXCEPT !.phase = "BUSY"]
      \/ s = n \/ s = unavailable(n)
      \/ /\ v.kind \in Kinds /\ parseManagedWorkerView(v)
         /\ \/ surface = "managed" /\ s = [screen EXCEPT !.phase = "idle", !.run = v.run, !.view = v]
            \/ surface # "managed" /\ s = [screen EXCEPT !.phase = "RUNNING", !.view = v]
  BY <1>2, <1>6
<1>9. s \in Screens /\ ShowOK(s)
  <2>1. CASE \/ s = [screen EXCEPT !.phase = "idle", !.notice = "BUSY"]
             \/ s = [screen EXCEPT !.phase = "BUSY"]
    <3>1. /\ s \in Screens /\ s.run = screen.run /\ s.view = screen.view /\ s.restoring = screen.restoring
          /\ s.phase \in {"idle", "BUSY"}
      BY <1>4, <2>1 DEF Screens, Words
    <3> QED
      BY <3>1, SameShows DEF PagesInv
  <2>2. CASE s = n
    BY <1>7, <2>2, SameShows DEF PagesInv
  <2>3. CASE s = unavailable(n)
    <3>1. /\ s \in Screens /\ s.run = n.run /\ s.view = n.view /\ s.restoring = n.restoring
          /\ (surface = "managed" => s.phase = n.phase) /\ (surface # "managed" => s.phase = "REFUSED")
      BY <1>7, <2>3, UnavailableIs
    <3> QED
      BY <1>7, <3>1, SameShows DEF PagesInv
  <2>4. CASE /\ v.kind \in Kinds /\ parseManagedWorkerView(v)
             /\ \/ surface = "managed" /\ s = [screen EXCEPT !.phase = "idle", !.run = v.run, !.view = v]
                \/ surface # "managed" /\ s = [screen EXCEPT !.phase = "RUNNING", !.view = v]
    <3>1. a.body \notin {Busy, Refusal}
      <4>1. ASSUME a.body \in {Busy, Refusal}
            PROVE  FALSE
        <5>1. v \in {Busy, Refusal, Lost, Unread}
          BY <4>1, ConstantViews DEF arriving, NoRun
        <5> QED
          BY <2>4, <5>1, ConstantViews DEF Kinds
      <4> QED
        BY <4>1
    <3>2. v \in Views /\ Released(v)
      BY <1>4, <2>4, <3>1, ArrivingIs DEF StartOK
    <3>3. /\ s \in Screens /\ s.view = v /\ s.restoring = screen.restoring /\ s.phase \in {"idle", "RUNNING"}
          /\ s.run \in {v.run, screen.run} /\ (surface = "managed" => s.run = v.run)
      <4>1. v.run \in Nat /\ "idle" \in Words /\ "RUNNING" \in Words
        BY <3>2 DEF Views, Words
      <4> QED
        BY <1>4, <2>4, <3>2, <4>1 DEF Screens
    <3>4. v.run # NoRun /\ v.run \in DOMAIN runs
      BY <3>2 DEF Released, PagesInv, PageTypes, NoRun
    <3> QED
      BY <3>2, <3>3, <3>4 DEF ShowOK, PagesInv
  <2> QED
    BY <1>8, <2>1, <2>2, <2>3, <2>4
<1>10. PagesInv'
  BY <1>3, <1>5, <1>9, BecomesKeeps
<1> QED
  BY <1>4, <1>10 DEF KeptView, StartOK

-----------------------------------------------------------------------------
\* Either page may be opened afresh, and the live page at a run.
LEMMA PagesStart == PagesInit => PagesInv
<1> SUFFICES ASSUME PagesInit PROVE PagesInv
  OBVIOUS
<1>1. AnswersOK /\ answers \subseteq Answers /\ surface \in {"managed", "mini"}
  BY DEF PagesInit, AnswersOK
<1>2. CASE runs = << >> /\ screen = Blank
  <2>1. runs \in Seq(Runs) /\ \A r \in DOMAIN runs : RunOK(runs[r])
    BY <1>2
  <2>2. screen \in Screens /\ ShowOK(screen)
    BY <1>2, ConstantViews DEF ShowOK, NoRun
  <2> QED
    BY <1>1, <2>1, <2>2 DEF PagesInv, PageTypes
<1>3. CASE /\ surface = "managed"
           /\ runs \in {<<[kind |-> k, stage |-> s, result |-> x]>> :
                          k \in ViewKinds, s \in {"CASE_CREATED", "EVALUATED"}, x \in {"none"}}
           /\ screen = [Blank EXCEPT !.run = 1, !.restoring = TRUE]
  <2>1. PICK k \in ViewKinds, s \in {"CASE_CREATED", "EVALUATED"} :
          runs = <<[kind |-> k, stage |-> s, result |-> "none"]>>
    BY <1>3
  <2>2. PICK c : c = [kind |-> k, stage |-> s, result |-> "none"]
    OBVIOUS
  <2>3. c \in Runs /\ RunOK(c)
    BY <2>2, PagesAssumption DEF Runs, RunOK, Words
  <2>4. runs = <<c>>
    BY <2>1, <2>2
  <2>5. runs \in Seq(Runs) /\ DOMAIN runs = {1} /\ runs[1] = c
    BY <2>3, <2>4
  <2>6. screen \in Screens /\ screen.run = 1 /\ screen.view = NoView /\ screen.phase = "idle"
    BY <1>3, ConstantViews DEF Screens
  <2>7. ShowOK(screen)
    BY <1>3, <2>5, <2>6 DEF ShowOK, NoRun
  <2> QED
    BY <1>1, <2>3, <2>5, <2>6, <2>7 DEF PagesInv, PageTypes
<1> QED
  BY <1>2, <1>3 DEF PagesInit

\* Every step of the managed pages keeps the invariant.
LEMMA PagesStep ==
  ASSUME PagesInv, [PagesNext]_pageVars
  PROVE  PagesInv' /\ KeptView
<1>1. CASE UNCHANGED pageVars
  <2>1. RunsGrow /\ UNCHANGED <<surface, screen, answers, errs>>
    BY <1>1 DEF RunsGrow, PagesInv, PageTypes, pageVars
  <2> QED
    BY <2>1, ServiceKeeps
<1>2. CASE runMoves \/ visitorStarts
  BY <1>2, MovesKeep, VisitorKeeps
<1>3. CASE poll \/ restore
  BY <1>3, PollKeeps, RestoreKeeps
<1>4. CASE pollAnswered \/ restoreAnswered \/ startAnswered
  BY <1>4, PollAnsweredKeeps, RestoreAnsweredKeeps, StartAnsweredKeeps
<1>5. CASE checkEligibility \/ retry \/ start \/ tokenRefused \/ postCase \/ tryAnotherCase
  BY <1>5, AsideKeeps, StartKeeps, RefusedKeeps, PostKeeps, AnotherKeeps
<1> QED
  BY <1>1, <1>2, <1>3, <1>4, <1>5 DEF PagesNext

\* Whatever answers are lost, late or damaged, the page waits only for
\* reads of the run on its screen and shows of it what the service said.
THEOREM PagesInvariant == PagesSpec => []PagesInv
<1>1. PagesInit => PagesInv
  BY PagesStart
<1>2. PagesInv /\ [PagesNext]_pageVars => PagesInv'
  BY PagesStep
<1> QED
  BY <1>1, <1>2, PTL DEF PagesSpec

\* A verdict or a sealed receipt on a page is the one its run released
\* (readManagedRun, parseManagedWorkerView).
THEOREM ShownStaysReleased == PagesSpec => []ShownIsReleased
<1>1. PagesInv => ShownIsReleased
  BY SealedIsComplete DEF PagesInv, ShowOK, Released, ShownIsReleased
<1> QED
  BY <1>1, PagesInvariant, PTL

\* A late read never takes away what a page has settled on (the clean-up
\* of the polling and restoring effects).
THEOREM ShownStaysKept == PagesSpec => ShownIsKept
<1>1. PagesInv /\ [PagesNext]_pageVars =>
        [ /\ IF surface = "managed" THEN terminalView(screen.view) ELSE screen.view.result # "none"
          /\ screen'.view # screen.view
          /\ screen.phase # "POSTED"
          => /\ surface = "mini" /\ screen'.view = NoView
             /\ screen'.previous = [run |-> screen.view.run, result |-> screen.view.result] ]_screen
  BY PagesStep DEF KeptView
<1> QED
  BY <1>1, PagesInvariant, PTL DEF PagesSpec, ShownIsKept

-----------------------------------------------------------------------------
(***************************************************************************)
(* The two-wallet page.                                                    *)
(***************************************************************************)

MaybeWallet == Wallets \cup {NoWallet}

CaseStages == {"MATCH_PREPARED", "PARTICIPANT_A_SUBMITTED", "PARTICIPANT_B_SUBMITTED",
               "EVALUATED", "RELEASED", "COMPLETE", "ABORTED"}

Cases == [stage : CaseStages, A : MaybeWallet, B : MaybeWallet, result : {"none", "conflict"},
          abandoned : BOOLEAN]

Signature == [code : Nat, role : {"A", "B"}, wallet : Wallets]

PageFields == {"case", "role", "claim", "eligibility", "launch", "auth", "pending", "notice",
               "failures", "restoring"}
AuthFields == {"at", "code", "role", "wallet", "token"}

DirectTypes ==
  /\ store \in Seq(Cases) /\ connected \in MaybeWallet /\ signed \in Seq(Signature)
  /\ DOMAIN dpage = PageFields /\ DOMAIN dpage.auth = AuthFields

\* The stage of a case says who is admitted and whether it was released.
CaseOK(c) ==
  /\ c.A = NoWallet <=> c.stage = "MATCH_PREPARED"
  /\ c.A = NoWallet => c.B = NoWallet
  /\ c.stage = "PARTICIPANT_A_SUBMITTED" <=> c.A # NoWallet /\ c.B = NoWallet
  /\ c.stage \notin {"RELEASED", "COMPLETE"} => c.result = "none"

\* What a projection tells of a case.
told(p) == [A |-> p.A, B |-> p.B, stage |-> p.view.stage, result |-> p.view.result]

Before(s, t) == t = "ABORTED" \/ (s # "ABORTED" /\ reached(t, s))

\* y is the case x, now or later.
Forward(x, y) ==
  /\ x.stage \in CaseStages /\ y.stage \in CaseStages /\ Before(x.stage, y.stage)
  /\ x.A # NoWallet => y.A = x.A
  /\ x.B # NoWallet => y.B = x.B
  /\ x.result # "none" => y.result = x.result

\* What the page shows and what its reads bring is true of the case, and a
\* read is never older than what is shown.
ShownOK ==
  dpage.case # Missing =>
    /\ dpage.case.code \in DOMAIN store
    /\ Forward(told(dpage.case), store[dpage.case.code])

ReadsOK ==
  \A a \in reads :
    /\ dpage.case # Missing /\ a.code = dpage.case.code
    /\ bothAdmitted(a)
    /\ Forward(told(dpage.case), told(a)) /\ Forward(told(a), store[a.code])

\* What the running call has captured is still the page's.
CallOK ==
  /\ dpage.auth.at \in {"rest", "create", "challenge", "sign", "post"} /\ dpage.role \in {"A", "B", "none"}
  /\ dpage.auth.at # "rest" =>
       dpage.role \in {"A", "B"} /\ dpage.auth.role = dpage.role /\ dpage.auth.wallet \in Wallets
  /\ dpage.auth.at = "create" => dpage.case = Missing
  /\ dpage.auth.at \in {"challenge", "sign", "post"} =>
       dpage.case # Missing /\ dpage.auth.code = dpage.case.code
  /\ dpage.auth.at \in {"challenge", "sign"} => dpage.pending = NoPost
  /\ dpage.restoring \in {0} \cup DOMAIN store
  /\ dpage.restoring # 0 => dpage.case = Missing /\ dpage.auth.at = "rest"

\* The admission kept for a retry.
PendingOK ==
  dpage.pending # NoPost =>
    /\ dpage.case # Missing /\ dpage.pending.code = dpage.case.code
    /\ dpage.pending.role = dpage.role /\ dpage.role \in {"A", "B"}
    /\ dpage.pending.wallet \in Wallets

\* A signature is kept for a retry, or its role is behind the page.
Settled(role) ==
  \/ dpage.pending # NoPost /\ dpage.pending.role = role
  \/ role = "A" /\ dpage.role # "A"
  \/ role = "B" /\ dpage.role = "none" /\ dpage.case.B # NoWallet

SignedOK ==
  /\ \A i \in DOMAIN signed : /\ dpage.case # Missing /\ signed[i].code = dpage.case.code
                              /\ Settled(signed[i].role)
  /\ \A i, j \in DOMAIN signed : signed[i].role = signed[j].role => i = j

\* The inductive invariant of the two-wallet page.
DirectInv ==
  /\ DirectTypes
  /\ \A k \in DOMAIN store : CaseOK(store[k])
  /\ ShownOK /\ ReadsOK /\ CallOK /\ PendingOK /\ SignedOK

\* A step that does not take the page back.
OnlyForward ==
  dpage.case # Missing => dpage'.case.code = dpage.case.code /\ Forward(told(dpage.case), told(dpage'.case))

-----------------------------------------------------------------------------
\* Stages and cases.

\* The places of the stages.
LEMMA StageIndices ==
  /\ stageIndex("MATCH_PREPARED") = 2 /\ stageIndex("PARTICIPANT_A_SUBMITTED") = 3
  /\ stageIndex("PARTICIPANT_B_SUBMITTED") = 5 /\ stageIndex("EVALUATED") = 6
  /\ stageIndex("RELEASED") = 7 /\ stageIndex("COMPLETE") = 10
<1>1. Len(StageOrder) = 10
  BY DEF StageOrder
<1>2. \A i \in 1 .. 10 :
        /\ StageOrder[i] = "MATCH_PREPARED" <=> i = 2
        /\ StageOrder[i] = "PARTICIPANT_A_SUBMITTED" <=> i = 3
        /\ StageOrder[i] = "PARTICIPANT_B_SUBMITTED" <=> i = 5
        /\ StageOrder[i] = "EVALUATED" <=> i = 6
        /\ StageOrder[i] = "RELEASED" <=> i = 7
        /\ StageOrder[i] = "COMPLETE" <=> i = 10
  BY DEF StageOrder
<1>3. \A i \in 1 .. Len(StageOrder) : i \in 1 .. 10
  BY <1>1
<1>4. {2, 3, 5, 6, 7, 10} \subseteq 1 .. Len(StageOrder)
  BY <1>1
<1> QED
  BY <1>2, <1>3, <1>4 DEF stageIndex

\* A later case is still later than what was before it.
LEMMA ForwardOn ==
  ASSUME NEW x, NEW y, NEW z, Forward(x, y), Forward(y, z)
  PROVE  Forward(x, z)
<1>1. ASSUME NEW s \in CaseStages, NEW t \in CaseStages, NEW u \in CaseStages, Before(s, t), Before(t, u)
      PROVE  Before(s, u)
  <2>1. \A q \in CaseStages : q # "ABORTED" => stageIndex(q) \in Nat
    BY StageIndices DEF CaseStages
  <2> QED
    BY <1>1, <2>1 DEF Before, reached
<1> QED
  BY <1>1 DEF Forward

\* Every case is its own first later state.
LEMMA ForwardSame ==
  ASSUME NEW x, x.stage \in CaseStages
  PROVE  Forward(x, x)
<1>1. \A q \in CaseStages : q # "ABORTED" => stageIndex(q) \in Nat
  BY StageIndices DEF CaseStages
<1> QED
  BY <1>1 DEF Forward, Before, reached

\* What the service tells of a case.
LEMMA ProjectIs ==
  ASSUME NEW k \in DOMAIN store, NEW b, b = projectAdmission(k), k # 0
  PROVE  /\ b.code = k /\ b # Missing /\ b.A = store[k].A /\ b.B = store[k].B
         /\ told(b) = [A |-> store[k].A, B |-> store[k].B, stage |-> store[k].stage, result |-> store[k].result]
<1>1. b.code = k /\ b.A = store[k].A /\ b.B = store[k].B
      /\ b.view = customSupervisedView("governed", k, store[k])
  BY DEF projectAdmission
<1>2. b.view.stage = store[k].stage /\ b.view.result = store[k].result
  BY <1>1 DEF customSupervisedView
<1>3. b # Missing
  BY <1>1 DEF Missing
<1> QED
  BY <1>1, <1>2, <1>3 DEF told

\* A case moves on by itself.
LEMMA MovedCase ==
  ASSUME NEW c \in Cases, CaseOK(c), NEW d \in movedCase(c)
  PROVE  d \in Cases /\ CaseOK(d) /\ Forward(c, d)
<1>1. c.stage \in CaseStages
  BY DEF Cases
<1>2. CASE c.stage = "PARTICIPANT_B_SUBMITTED"
  <2>1. d = [c EXCEPT !.stage = "EVALUATED"] \/ d = [c EXCEPT !.stage = "ABORTED"]
    BY <1>2 DEF movedCase
  <2>2. /\ d \in Cases /\ d.stage \in {"EVALUATED", "ABORTED"} /\ d.A = c.A /\ d.B = c.B
        /\ d.result = c.result
    BY <2>1 DEF Cases, CaseStages
  <2> QED
    BY <1>2, <2>2, StageIndices DEF CaseOK, Forward, Before, reached, CaseStages
<1>3. CASE c.stage = "EVALUATED"
  <2>1. d = [c EXCEPT !.stage = "RELEASED", !.result = "conflict"]
    BY <1>3 DEF movedCase
  <2>2. d \in Cases /\ d.stage = "RELEASED" /\ d.A = c.A /\ d.B = c.B
    BY <2>1 DEF Cases, CaseStages
  <2> QED
    BY <1>3, <2>2, StageIndices DEF CaseOK, Forward, Before, reached, CaseStages
<1>4. CASE c.stage = "RELEASED"
  <2>1. d = [c EXCEPT !.stage = "COMPLETE"]
    BY <1>4 DEF movedCase
  <2>2. d \in Cases /\ d.stage = "COMPLETE" /\ d.A = c.A /\ d.B = c.B /\ d.result = c.result
    BY <2>1 DEF Cases, CaseStages
  <2> QED
    BY <1>4, <2>2, StageIndices DEF CaseOK, Forward, Before, reached, CaseStages
<1>5. CASE c.stage \notin {"PARTICIPANT_B_SUBMITTED", "EVALUATED", "RELEASED"}
  <2>1. d = [c EXCEPT !.abandoned = TRUE]
    BY <1>5 DEF movedCase
  <2>2. d \in Cases /\ d.stage = c.stage /\ d.A = c.A /\ d.B = c.B /\ d.result = c.result
    BY <2>1 DEF Cases
  <2>3. Forward(c, c)
    BY <1>1, ForwardSame
  <2> QED
    BY <2>2, <2>3 DEF CaseOK, Forward
<1> QED
  BY <1>2, <1>3, <1>4, <1>5

\* Whether the case may be admitted to and what the admission makes of it.
LEMMA AdmittedCase ==
  ASSUME DirectInv, NEW k \in DOMAIN store, NEW role \in {"A", "B"}, NEW w \in Wallets,
         mayAdmit(k, role, w), NEW st, st = withAdmitted(k, role, w)
  PROVE  /\ st \in Seq(Cases) /\ DOMAIN st = DOMAIN store
         /\ \A q \in DOMAIN store : CaseOK(st[q]) /\ Forward(store[q], st[q])
         /\ st[k].A # NoWallet /\ (role = "B" => st[k].B # NoWallet)
<1>1. PICK c : c = store[k]
  OBVIOUS
<1>2. store \in Seq(Cases) /\ c \in Cases /\ CaseOK(c) /\ w # NoWallet /\ w \in MaybeWallet
  BY <1>1, DirectAssumption DEF DirectInv, DirectTypes, MaybeWallet
<1>3. \/ role = "A" /\ c.A = NoWallet
      \/ role = "B" /\ c.A # NoWallet /\ c.B = NoWallet
      \/ (role = "A" /\ c.A = w) \/ (role = "B" /\ c.B = w)
  BY <1>1 DEF mayAdmit
<1>4. \A q \in DOMAIN store : CaseOK(store[q]) /\ Forward(store[q], store[q])
  <2> TAKE q \in DOMAIN store
  <2>1. store[q] \in Cases
    BY <1>2
  <2>2. store[q].stage \in CaseStages
    BY <2>1 DEF Cases
  <2> QED
    BY <2>2, ForwardSame DEF DirectInv
<1>5. ASSUME NEW d \in Cases, st = [store EXCEPT ![k] = d], CaseOK(d), Forward(c, d)
      PROVE  /\ st \in Seq(Cases) /\ DOMAIN st = DOMAIN store /\ st[k] = d
             /\ \A q \in DOMAIN store : CaseOK(st[q]) /\ Forward(store[q], st[q])
  <2>1. /\ st \in Seq(Cases) /\ DOMAIN st = DOMAIN store /\ st[k] = d
        /\ \A q \in DOMAIN store : q # k => st[q] = store[q]
    BY <1>2, <1>5
  <2> QED
    BY <1>1, <1>4, <1>5, <2>1
<1>6. CASE role = "A" /\ c.A = NoWallet
  <2>1. PICK d : d = [c EXCEPT !.A = w, !.stage = "PARTICIPANT_A_SUBMITTED"]
    OBVIOUS
  <2>2. /\ d \in Cases /\ d.A = w /\ d.B = c.B /\ d.stage = "PARTICIPANT_A_SUBMITTED"
        /\ d.result = c.result
    BY <1>2, <2>1 DEF Cases, CaseStages
  <2>3. st = [store EXCEPT ![k].A = w, ![k].stage = "PARTICIPANT_A_SUBMITTED"]
    BY <1>1, <1>6 DEF withAdmitted
  <2>4. st = [store EXCEPT ![k] = d]
    BY <1>1, <1>2, <2>1, <2>3
  <2>5. CaseOK(d) /\ Forward(c, d)
    BY <1>2, <1>6, <2>2, StageIndices DEF CaseOK, Forward, Before, reached, CaseStages
  <2> QED
    BY <1>2, <1>5, <1>6, <2>2, <2>4, <2>5
<1>7. CASE role = "B" /\ c.A # NoWallet /\ c.B = NoWallet
  <2>1. PICK d : d = [c EXCEPT !.B = w, !.stage = "PARTICIPANT_B_SUBMITTED"]
    OBVIOUS
  <2>2. /\ d \in Cases /\ d.B = w /\ d.A = c.A /\ d.stage = "PARTICIPANT_B_SUBMITTED"
        /\ d.result = c.result
    BY <1>2, <2>1 DEF Cases, CaseStages
  <2>3. st = [store EXCEPT ![k].B = w, ![k].stage = "PARTICIPANT_B_SUBMITTED"]
    BY <1>1, <1>7 DEF withAdmitted
  <2>4. st = [store EXCEPT ![k] = d]
    BY <1>1, <1>2, <2>1, <2>3
  <2>5. CaseOK(d) /\ Forward(c, d)
    BY <1>2, <1>7, <2>2, StageIndices DEF CaseOK, Forward, Before, reached, CaseStages
  <2> QED
    BY <1>2, <1>5, <1>7, <2>2, <2>4, <2>5
<1>8. CASE (role = "A" /\ c.A = w) \/ (role = "B" /\ c.B = w)
  <2>1. st = store
    BY <1>1, <1>2, <1>8 DEF withAdmitted
  <2>2. c.A # NoWallet /\ (role = "B" => c.B # NoWallet)
    BY <1>2, <1>8 DEF CaseOK
  <2> QED
    BY <1>1, <1>2, <1>4, <2>1, <2>2
<1> QED
  BY <1>3, <1>6, <1>7, <1>8

-----------------------------------------------------------------------------
\* Frames.

StoreGrows ==
  /\ store' \in Seq(Cases)
  /\ \A k \in DOMAIN store' : CaseOK(store'[k])
  /\ \A k \in DOMAIN store : k \in DOMAIN store' /\ Forward(store[k], store'[k])

\* An unchanged store moves on too.
LEMMA StoreStays ==
  ASSUME DirectInv, store' = store
  PROVE  StoreGrows
<1>1. ASSUME NEW k \in DOMAIN store
      PROVE  Forward(store[k], store[k])
  <2>1. store[k] \in Cases
    BY DEF DirectInv, DirectTypes
  <2>2. store[k].stage \in CaseStages
    BY <2>1 DEF Cases
  <2> QED
    BY <2>2, ForwardSame
<1> QED
  BY <1>1 DEF StoreGrows, DirectInv, DirectTypes

\* What was told of a case stays told.
LEMMA ToldStays ==
  ASSUME StoreGrows, NEW x, NEW k \in DOMAIN store, Forward(x, store[k])
  PROVE  k \in DOMAIN store' /\ Forward(x, store'[k])
<1>1. PICK y : y = store[k]
  OBVIOUS
<1>2. PICK z : z = store'[k]
  OBVIOUS
<1>3. Forward(x, y) /\ Forward(y, z) /\ k \in DOMAIN store'
  BY <1>1, <1>2 DEF StoreGrows
<1>4. Forward(x, z)
  BY <1>3, ForwardOn
<1> QED
  BY <1>2, <1>3, <1>4

\* The page keeps its case, its role and what it keeps for a retry.
LEMMA CaseStays ==
  ASSUME DirectInv, StoreGrows, reads' \subseteq reads, signed' = signed, connected' \in MaybeWallet,
         NEW d, dpage' = d, DOMAIN d = PageFields,
         d.case = dpage.case, d.role = dpage.role, d.pending = dpage.pending,
         DOMAIN d.auth = AuthFields, CallOK'
  PROVE  DirectInv' /\ OnlyForward
<1>1. PICK p : p = dpage.case
  OBVIOUS
<1>2. PICK t : t = told(p)
  OBVIOUS
<1>3. p # Missing => p.code \in DOMAIN store /\ Forward(t, store[p.code])
  BY <1>1, <1>2 DEF DirectInv, ShownOK
<1>4. p # Missing => p.code \in DOMAIN store' /\ Forward(t, store'[p.code])
  BY <1>3, ToldStays
<1>5. dpage'.case = p
  BY <1>1
<1>6. ShownOK'
  BY <1>2, <1>4, <1>5 DEF ShownOK
<1>7. ReadsOK'
  <2> SUFFICES ASSUME NEW a \in reads'
               PROVE  /\ p # Missing /\ a.code = p.code /\ bothAdmitted(a)
                      /\ Forward(t, told(a)) /\ Forward(told(a), store'[a.code])
    BY <1>2, <1>5 DEF ReadsOK
  <2>1. /\ p # Missing /\ a.code = p.code /\ bothAdmitted(a)
        /\ Forward(t, told(a)) /\ Forward(told(a), store[a.code])
    BY <1>1, <1>2 DEF DirectInv, ReadsOK
  <2>2. Forward(told(a), store'[a.code])
    BY <1>3, <2>1, ToldStays
  <2> QED
    BY <2>1, <2>2
<1>10. PendingOK' /\ SignedOK'
  BY DEF DirectInv, PendingOK, SignedOK, Settled
<1>11. DirectTypes'
  BY DEF DirectInv, DirectTypes, StoreGrows
<1>12. OnlyForward
  <2>1. p # Missing => t.stage \in CaseStages
    BY <1>3 DEF Forward
  <2>2. p # Missing => Forward(t, t)
    BY <2>1, ForwardSame
  <2> QED
    BY <1>1, <1>2, <1>5, <2>2 DEF OnlyForward
<1> QED
  BY <1>6, <1>7, <1>10, <1>11, <1>12 DEF DirectInv, StoreGrows

\* ... and its call goes on or ends.
LEMMA SameCaseKeeps ==
  ASSUME DirectInv, StoreGrows, reads' \subseteq reads, signed' = signed, connected' \in MaybeWallet,
         NEW d, dpage' = d, DOMAIN d = PageFields,
         d.case = dpage.case, d.role = dpage.role, d.pending = dpage.pending,
         d.restoring = dpage.restoring \/ d.restoring = 0, d.auth = dpage.auth \/ d.auth = Resting
  PROVE  DirectInv' /\ OnlyForward
<1>1. Resting.at = "rest" /\ DOMAIN Resting = AuthFields
  BY DEF Resting, AuthFields
<1>2. d.restoring \in {0} \cup DOMAIN store'
  BY DEF DirectInv, CallOK, StoreGrows
<1>3. CallOK'
  BY <1>1, <1>2 DEF DirectInv, CallOK
<1>4. DOMAIN d.auth = AuthFields
  BY <1>1 DEF DirectInv, DirectTypes
<1> QED
  BY <1>3, <1>4, CaseStays

\* Resetting what is bound to the wallet leaves the case alone.
LEMMA BoundIs ==
  ASSUME NEW s, DOMAIN s = PageFields, NEW w, NEW d, d = walletBound(s, w)
  PROVE  /\ DOMAIN d = PageFields /\ d.case = s.case /\ d.role = s.role /\ d.pending = s.pending
         /\ d.restoring = s.restoring /\ d.auth = s.auth
BY DEF walletBound, PageFields

\* The page is shown with the same case.
LEMMA ShowsKeeps ==
  ASSUME DirectInv, StoreGrows, signed' = signed, connected' = connected,
         NEW s, NEW accepted, NEW left \in SUBSET reads, shows(s, left, accepted), DOMAIN s = PageFields,
         s.case = dpage.case, s.role = dpage.role, s.pending = dpage.pending,
         s.restoring = dpage.restoring \/ s.restoring = 0,
         s.auth = dpage.auth \/ s.auth = Resting
  PROVE  DirectInv' /\ OnlyForward
<1>1. PICK d : d = walletBound(s, connected)
  OBVIOUS
<1>2. dpage' = d /\ reads' \subseteq reads
  BY <1>1 DEF shows, awaited
<1>3. /\ DOMAIN d = PageFields /\ d.case = s.case /\ d.role = s.role /\ d.pending = s.pending
      /\ d.restoring = s.restoring /\ d.auth = s.auth
  BY <1>1, BoundIs
<1>4. connected' \in MaybeWallet
  BY DEF DirectInv, DirectTypes
<1> QED
  BY <1>2, <1>3, <1>4, SameCaseKeeps

-----------------------------------------------------------------------------
\* The service's steps.

\* The page is left alone while the service moves on.
LEMMA StoreKeeps ==
  ASSUME DirectInv, StoreGrows, UNCHANGED <<spent, issued, connected, dpage, reads, checks, signed, misses>>
  PROVE  DirectInv' /\ OnlyForward
<1>1. PICK d : d = dpage
  OBVIOUS
<1>2. dpage' = d /\ DOMAIN d = PageFields /\ connected' \in MaybeWallet
  BY <1>1 DEF DirectInv, DirectTypes
<1> QED
  BY <1>1, <1>2, SameCaseKeeps

\* A case moves on by itself.
LEMMA CaseMovesKeep ==
  ASSUME DirectInv, caseMoves
  PROVE  DirectInv' /\ OnlyForward
<1>1. PICK k \in DOMAIN store : \E d \in movedCase(store[k]) : store' = [store EXCEPT ![k] = d]
  BY DEF caseMoves
<1>2. PICK d \in movedCase(store[k]) : store' = [store EXCEPT ![k] = d]
  BY <1>1
<1>3. PICK c : c = store[k]
  OBVIOUS
<1>4. c \in Cases /\ CaseOK(c) /\ store \in Seq(Cases)
  BY <1>3 DEF DirectInv, DirectTypes
<1>5. d \in Cases /\ CaseOK(d) /\ Forward(c, d)
  BY <1>2, <1>3, <1>4, MovedCase
<1>6. /\ store' \in Seq(Cases) /\ DOMAIN store' = DOMAIN store /\ store'[k] = d
      /\ \A q \in DOMAIN store : q # k => store'[q] = store[q]
  BY <1>2, <1>4, <1>5
<1>7. \A q \in DOMAIN store : Forward(store[q], store'[q]) /\ CaseOK(store'[q])
  <2> TAKE q \in DOMAIN store
  <2>1. CASE q = k
    BY <1>3, <1>5, <1>6, <2>1
  <2>2. CASE q # k
    <3>1. store[q] \in Cases /\ store'[q] = store[q] /\ CaseOK(store[q])
      BY <1>4, <1>6, <2>2 DEF DirectInv
    <3>2. store[q].stage \in CaseStages
      BY <3>1 DEF Cases
    <3>3. Forward(store[q], store[q])
      BY <3>2, ForwardSame
    <3> QED
      BY <3>1, <3>3
  <2> QED
    BY <2>1, <2>2
<1>8. StoreGrows
  BY <1>6, <1>7 DEF StoreGrows
<1> QED
  BY <1>8, StoreKeeps DEF caseMoves

\* Another browser admits a participant.
LEMMA OtherAdmitsKeeps ==
  ASSUME DirectInv, otherBrowserAdmits
  PROVE  DirectInv' /\ OnlyForward
<1>1. PICK k \in DOMAIN store, role \in {"A", "B"}, w \in Wallets :
        mayAdmit(k, role, w) /\ store' = withAdmitted(k, role, w)
  BY DEF otherBrowserAdmits
<1>2. PICK st : st = withAdmitted(k, role, w)
  OBVIOUS
<1>3. /\ st \in Seq(Cases) /\ DOMAIN st = DOMAIN store
      /\ \A q \in DOMAIN store : CaseOK(st[q]) /\ Forward(store[q], st[q])
  BY <1>1, <1>2, AdmittedCase
<1>4. StoreGrows
  BY <1>1, <1>2, <1>3 DEF StoreGrows
<1> QED
  BY <1>4, StoreKeeps DEF otherBrowserAdmits

-----------------------------------------------------------------------------
\* Steps that leave the case alone.

\* The wallet, its eligibility, its token, the claim and the notice.
LEMMA AroundKeeps ==
  ASSUME DirectInv, walletChanges \/ launchExpires \/ checkApass \/ checkAnswered \/ writeClaim \/ dismiss
  PROVE  DirectInv' /\ OnlyForward
<1>1. store' = store /\ signed' = signed
  BY DEF walletChanges, launchExpires, checkApass, checkAnswered, writeClaim, dismiss, service
<1>2. StoreGrows
  BY <1>1, StoreStays
<1>3. DOMAIN dpage = PageFields /\ reads \in SUBSET reads /\ connected \in MaybeWallet
  BY DEF DirectInv, DirectTypes
<1>4. CASE walletChanges
  <2>1. PICK d : d = walletBound(dpage, connected')
    OBVIOUS
  <2>2. PICK w : w = connected'
    OBVIOUS
  <2>3. dpage' = d /\ reads' = reads /\ connected' \in MaybeWallet
    BY <1>4, <2>1 DEF walletChanges, MaybeWallet
  <2>4. d = walletBound(dpage, w)
    BY <2>1, <2>2
  <2>5. /\ DOMAIN d = PageFields /\ d.case = dpage.case /\ d.role = dpage.role /\ d.pending = dpage.pending
        /\ d.restoring = dpage.restoring /\ d.auth = dpage.auth
    BY <1>3, <2>4, BoundIs
  <2> QED
    BY <1>1, <1>2, <2>3, <2>5, SameCaseKeeps
<1>5. CASE launchExpires \/ checkApass \/ writeClaim
  <2>1. PICK d : d = dpage'
    OBVIOUS
  <2>2. /\ DOMAIN d = PageFields /\ d.case = dpage.case /\ d.role = dpage.role /\ d.pending = dpage.pending
        /\ d.restoring = dpage.restoring /\ d.auth = dpage.auth
    BY <1>3, <1>5, <2>1 DEF launchExpires, checkApass, writeClaim, PageFields
  <2>3. reads' = reads /\ connected' = connected
    BY <1>5 DEF launchExpires, checkApass, writeClaim
  <2> QED
    BY <1>1, <1>2, <1>3, <2>1, <2>2, <2>3, SameCaseKeeps
<1>6. CASE checkAnswered \/ dismiss
  <2>1. PICK s : /\ shows(s, reads, FALSE)
                 /\ \/ \E a, b : s = [dpage EXCEPT !.launch = a, !.eligibility = b]
                    \/ s = [dpage EXCEPT !.notice = FALSE, !.failures = 0]
    BY <1>6 DEF checkAnswered, dismiss
  <2>2. /\ DOMAIN s = PageFields /\ s.case = dpage.case /\ s.role = dpage.role /\ s.pending = dpage.pending
        /\ s.restoring = dpage.restoring /\ s.auth = dpage.auth
    BY <1>3, <2>1 DEF PageFields
  <2>3. connected' = connected
    BY <1>6 DEF checkAnswered, dismiss
  <2> QED
    BY <1>1, <1>2, <1>3, <2>1, <2>2, <2>3, ShowsKeeps
<1> QED
  BY <1>4, <1>5, <1>6

\* A call that ends without an answer leaves the case alone.
LEMMA GivesUpIs ==
  ASSUME DOMAIN dpage = PageFields, NEW s, s \in {dpage, failClosed(dpage)}, NEW d, d = givesUp(s)
  PROVE  /\ DOMAIN d = PageFields /\ d.case = dpage.case /\ d.role = dpage.role /\ d.pending = dpage.pending
         /\ d.restoring = dpage.restoring /\ d.auth = Resting
<1>1. /\ DOMAIN s = PageFields /\ s.case = dpage.case /\ s.role = dpage.role /\ s.pending = dpage.pending
      /\ s.restoring = dpage.restoring
  BY DEF failClosed, PageFields
<1> QED
  BY <1>1 DEF givesUp, PageFields

\* Such a call keeps the invariant, whatever the service did.
LEMMA GivesUpKeeps ==
  ASSUME DirectInv, StoreGrows, signed' = signed, connected' = connected,
         NEW s \in {dpage, failClosed(dpage)}, shows(givesUp(s), reads, FALSE)
  PROVE  DirectInv' /\ OnlyForward
<1>1. PICK d : d = givesUp(s)
  OBVIOUS
<1>2. DOMAIN dpage = PageFields /\ reads \in SUBSET reads
  BY DEF DirectInv, DirectTypes
<1>3. /\ DOMAIN d = PageFields /\ d.case = dpage.case /\ d.role = dpage.role /\ d.pending = dpage.pending
      /\ d.restoring = dpage.restoring /\ d.auth = Resting
  BY <1>1, <1>2, GivesUpIs
<1> QED
  BY <1>1, <1>2, <1>3, ShowsKeeps

-----------------------------------------------------------------------------
\* Reads.

\* A poll is sent: its answer is not older than what is shown.
LEMMA PollCaseKeeps ==
  ASSUME DirectInv, pollCase
  PROVE  DirectInv' /\ OnlyForward
<1>1. PICK p : p = dpage.case
  OBVIOUS
<1>2. PICK k : k = p.code
  OBVIOUS
<1>3. PICK a : a = projectAdmission(k)
  OBVIOUS
<1>4. /\ p # Missing /\ bothAdmitted(p) /\ reads' = reads \cup {a} /\ dpage' = dpage
      /\ store' = store /\ connected' = connected /\ signed' = signed
  BY <1>1, <1>2, <1>3 DEF pollCase, service
<1>5. k \in DOMAIN store /\ k # 0 /\ Forward(told(p), store[k]) /\ store \in Seq(Cases)
  BY <1>1, <1>2, <1>4 DEF DirectInv, ShownOK, DirectTypes
<1>6. /\ a.code = k /\ a # Missing /\ a.A = store[k].A /\ a.B = store[k].B
      /\ told(a) = [A |-> store[k].A, B |-> store[k].B, stage |-> store[k].stage, result |-> store[k].result]
  BY <1>3, <1>5, ProjectIs
<1>7. PICK t : t = told(a)
  OBVIOUS
<1>8. t.A = store[k].A /\ t.B = store[k].B /\ t.stage = store[k].stage /\ t.result = store[k].result
  BY <1>6, <1>7
<1>9. Forward(told(p), t)
  BY <1>5, <1>8 DEF Forward
<1>10. Forward(t, store[k])
  <2>1. t.stage \in CaseStages
    BY <1>9 DEF Forward
  <2>2. Forward(t, t)
    BY <2>1, ForwardSame
  <2> QED
    BY <1>8, <2>2 DEF Forward
<1>11. bothAdmitted(a)
  <2>1. told(p).A = p.A /\ told(p).B = p.B
    BY DEF told
  <2> QED
    BY <1>4, <1>5, <1>6, <2>1 DEF bothAdmitted, Forward
<1>12. ReadsOK'
  BY <1>1, <1>2, <1>4, <1>6, <1>7, <1>9, <1>10, <1>11 DEF DirectInv, ReadsOK
<1>13. DirectTypes' /\ ShownOK' /\ CallOK' /\ PendingOK' /\ SignedOK' /\ \A q \in DOMAIN store' : CaseOK(store'[q])
  BY <1>4 DEF DirectInv, DirectTypes, ShownOK, CallOK, PendingOK, SignedOK, Settled
<1>14. OnlyForward
  <2>1. told(p).stage \in CaseStages
    BY <1>5 DEF Forward
  <2>2. Forward(told(p), told(p))
    BY <2>1, ForwardSame
  <2> QED
    BY <1>1, <1>4, <2>2 DEF OnlyForward
<1> QED
  BY <1>12, <1>13, <1>14 DEF DirectInv

\* A poll is answered, in any order: a readable answer replaces the case
\* and cancels the reads still under way.
LEMMA PollCaseAnsweredKeeps ==
  ASSUME DirectInv, pollCaseAnswered
  PROVE  DirectInv' /\ OnlyForward
<1>1. PICK a \in reads : \E got \in {a, Missing} :
        /\ \E s \in IF parseParticipantCaseResponse(got) THEN {[dpage EXCEPT !.case = got, !.failures = 0]}
                    ELSE {failClosed(dpage)} \cup
                         IF got # Missing THEN {}
                         ELSE {IF [dpage EXCEPT !.failures = @ + 1].failures < SilenceLimit
                               THEN [dpage EXCEPT !.failures = @ + 1]
                               ELSE failClosed([dpage EXCEPT !.failures = @ + 1])} :
             shows(s, reads \ {a}, parseParticipantCaseResponse(got))
        /\ UNCHANGED <<service, connected, checks, signed>>
  BY DEF pollCaseAnswered
<1>2. store' = store /\ signed' = signed /\ connected' = connected
  BY <1>1 DEF service
<1>3. PICK got \in {a, Missing} :
        \E s \in IF parseParticipantCaseResponse(got) THEN {[dpage EXCEPT !.case = got, !.failures = 0]}
                    ELSE {failClosed(dpage)} \cup
                         IF got # Missing THEN {}
                         ELSE {IF [dpage EXCEPT !.failures = @ + 1].failures < SilenceLimit
                               THEN [dpage EXCEPT !.failures = @ + 1]
                               ELSE failClosed([dpage EXCEPT !.failures = @ + 1])} :
             shows(s, reads \ {a}, parseParticipantCaseResponse(got))
  BY <1>1
<1>4. StoreGrows /\ DOMAIN dpage = PageFields /\ reads \ {a} \in SUBSET reads
  BY <1>2, StoreStays DEF DirectInv, DirectTypes
<1>5. CASE ~parseParticipantCaseResponse(got)
  <2>1. PICK f : f = [dpage EXCEPT !.failures = @ + 1]
    OBVIOUS
  <2>a. PICK accepted : accepted = parseParticipantCaseResponse(got)
    OBVIOUS
  <2>2. PICK s : s \in {failClosed(dpage), f, failClosed(f)} /\ shows(s, reads \ {a}, accepted)
    BY <1>3, <1>5, <2>1, <2>a
  <2>3. /\ DOMAIN f = PageFields /\ f.case = dpage.case /\ f.role = dpage.role /\ f.pending = dpage.pending
        /\ f.restoring = dpage.restoring /\ f.auth = dpage.auth
    BY <1>4, <2>1 DEF PageFields
  <2>4. /\ DOMAIN s = PageFields /\ s.case = dpage.case /\ s.role = dpage.role /\ s.pending = dpage.pending
        /\ s.restoring = dpage.restoring /\ s.auth = dpage.auth
    BY <1>4, <2>2, <2>3 DEF failClosed, PageFields
  <2> QED
    BY <1>2, <1>4, <2>2, <2>4, ShowsKeeps
<1>6. CASE parseParticipantCaseResponse(got)
  <2>1. got = a /\ a # Missing
    BY <1>6 DEF parseParticipantCaseResponse
  <2>2. PICK s : s = [dpage EXCEPT !.case = a, !.failures = 0] /\ shows(s, reads \ {a}, TRUE)
    BY <1>3, <1>6, <2>1
  <2>3. PICK d : d = walletBound(s, connected)
    OBVIOUS
  <2>4. dpage' = d /\ reads' = {}
    BY <2>2, <2>3 DEF shows, awaited
  <2>5. /\ DOMAIN s = PageFields /\ s.case = a /\ s.role = dpage.role /\ s.pending = dpage.pending
        /\ s.restoring = dpage.restoring /\ s.auth = dpage.auth
    BY <1>4, <2>2 DEF PageFields
  <2>6. /\ DOMAIN d = PageFields /\ d.case = a /\ d.role = dpage.role /\ d.pending = dpage.pending
        /\ d.restoring = dpage.restoring /\ d.auth = dpage.auth
    BY <2>3, <2>5, BoundIs
  <2>7. /\ dpage.case # Missing /\ a.code = dpage.case.code /\ bothAdmitted(a)
        /\ Forward(told(dpage.case), told(a)) /\ Forward(told(a), store[a.code])
    BY DEF DirectInv, ReadsOK
  <2>8. ShownOK' /\ ReadsOK'
    BY <1>2, <2>4, <2>6, <2>7 DEF DirectInv, ShownOK, ReadsOK
  <2>9. CallOK' /\ PendingOK'
    BY <1>2, <2>1, <2>4, <2>6, <2>7 DEF DirectInv, CallOK, PendingOK
  <2>10. SignedOK'
    BY <1>2, <2>1, <2>4, <2>6, <2>7 DEF DirectInv, SignedOK, Settled, bothAdmitted
  <2>11. DirectTypes'
    BY <1>2, <2>4, <2>6 DEF DirectInv, DirectTypes
  <2>12. OnlyForward
    BY <2>4, <2>6, <2>7 DEF OnlyForward
  <2> QED
    BY <1>2, <2>8, <2>9, <2>10, <2>11, <2>12 DEF DirectInv
<1> QED
  BY <1>5, <1>6

\* What the service tells now is true now.
LEMMA ToldIsTrue ==
  ASSUME DirectInv, NEW k \in DOMAIN store, NEW a, a = projectAdmission(k)
  PROVE  a.code = k /\ a # Missing /\ Forward(told(a), store[k])
<1>1. k # 0 /\ store[k] \in Cases
  BY DEF DirectInv, DirectTypes
<1>2. /\ a.code = k /\ a # Missing
      /\ told(a) = [A |-> store[k].A, B |-> store[k].B, stage |-> store[k].stage, result |-> store[k].result]
  BY <1>1, ProjectIs
<1>3. store[k].stage \in CaseStages
  BY <1>1 DEF Cases
<1>4. Forward(store[k], store[k])
  BY <1>3, ForwardSame
<1> QED
  BY <1>2, <1>4 DEF Forward

\* The page opened at a case reads it.
LEMMA RestoreCaseKeeps ==
  ASSUME DirectInv, restoreCase
  PROVE  DirectInv' /\ OnlyForward
<1>1. PICK k : k = dpage.restoring
  OBVIOUS
<1>2. PICK s : s = [dpage EXCEPT !.restoring = 0]
  OBVIOUS
<1>3. PICK got \in {projectAdmission(k), Missing} :
        shows(IF parseParticipantCaseResponse(got) THEN acceptCase(s, got) ELSE failClosed(s), reads, TRUE)
  BY <1>1, <1>2 DEF restoreCase
<1>4. store' = store /\ signed' = signed /\ connected' = connected /\ k > 0
  BY <1>1 DEF restoreCase, service
<1>5. /\ DOMAIN s = PageFields /\ s.case = dpage.case /\ s.role = dpage.role /\ s.pending = dpage.pending
      /\ s.restoring = 0 /\ s.auth = dpage.auth /\ DOMAIN dpage = PageFields /\ reads \in SUBSET reads
  BY <1>2 DEF PageFields, DirectInv, DirectTypes
<1>6. k \in DOMAIN store /\ dpage.case = Missing /\ dpage.auth.at = "rest"
  BY <1>1, <1>4 DEF DirectInv, CallOK
<1>7. CASE ~parseParticipantCaseResponse(got)
  <2>1. PICK f : f = failClosed(s)
    OBVIOUS
  <2>2. /\ DOMAIN f = PageFields /\ f.case = dpage.case /\ f.role = dpage.role /\ f.pending = dpage.pending
        /\ f.restoring = 0 /\ f.auth = dpage.auth
    BY <1>5, <2>1 DEF failClosed, PageFields
  <2>3. shows(f, reads, TRUE)
    BY <1>3, <1>7, <2>1
  <2>4. StoreGrows
    BY <1>4, StoreStays
  <2> QED
    BY <1>4, <1>5, <2>2, <2>3, <2>4, ShowsKeeps
<1>8. CASE parseParticipantCaseResponse(got)
  <2>1. got = projectAdmission(k)
    BY <1>8 DEF parseParticipantCaseResponse
  <2>2. got.code = k /\ got # Missing /\ Forward(told(got), store[k])
    BY <1>6, <2>1, ToldIsTrue
  <2>3. PICK u : u = acceptCase(s, got)
    OBVIOUS
  <2>4. dpage.pending = NoPost /\ \A i \in DOMAIN signed : FALSE
    BY <1>6 DEF DirectInv, PendingOK, SignedOK
  <2>5. /\ DOMAIN u = PageFields /\ u.case = got /\ u.role \in {"A", "none"} /\ u.pending = NoPost
        /\ u.restoring = 0 /\ u.auth = dpage.auth
    BY <1>5, <2>3, <2>4 DEF acceptCase, PageFields
  <2>6. PICK d : d = walletBound(u, connected)
    OBVIOUS
  <2>7. dpage' = d /\ reads' = {}
    BY <1>3, <1>8, <2>3, <2>6 DEF shows, awaited
  <2>8. /\ DOMAIN d = PageFields /\ d.case = u.case /\ d.role = u.role /\ d.pending = u.pending
        /\ d.restoring = u.restoring /\ d.auth = u.auth
    BY <2>5, <2>6, BoundIs
  <2>9. ShownOK' /\ ReadsOK'
    BY <1>4, <1>6, <2>2, <2>5, <2>7, <2>8 DEF ShownOK, ReadsOK
  <2>10. CallOK' /\ PendingOK'
    BY <1>4, <1>6, <2>5, <2>7, <2>8 DEF CallOK, PendingOK
  <2>11. SignedOK'
    BY <1>4, <2>4 DEF SignedOK
  <2>12. DirectTypes' /\ \A q \in DOMAIN store' : CaseOK(store'[q])
    BY <1>4, <2>5, <2>7, <2>8 DEF DirectInv, DirectTypes
  <2> QED
    BY <1>6, <2>9, <2>10, <2>11, <2>12 DEF DirectInv, OnlyForward
<1> QED
  BY <1>7, <1>8

-----------------------------------------------------------------------------
\* The call that admits a participant.

\* The button captures the wallet, the role and the case.
LEMMA AuthorizeKeeps ==
  ASSUME DirectInv, authorize
  PROVE  DirectInv' /\ OnlyForward
<1>1. /\ dpage.role # "none" /\ dpage.restoring = 0 /\ connected # NoWallet /\ store' = store /\ signed' = signed
      /\ connected' = connected /\ reads' = reads
  BY DEF authorize, panel, service
<1>2. connected \in Wallets /\ connected \in MaybeWallet /\ dpage.role \in {"A", "B"}
  BY <1>1 DEF DirectInv, DirectTypes, MaybeWallet, CallOK
<1>3. PICK x : /\ dpage' = [dpage EXCEPT !.auth = x]
               /\ \/ /\ dpage.pending # NoPost
                     /\ x = [at |-> "post", code |-> dpage.case.code, role |-> dpage.pending.role,
                             wallet |-> dpage.pending.wallet, token |-> 0]
                  \/ /\ dpage.pending = NoPost
                     /\ x = [at |-> IF dpage.case = Missing THEN "create" ELSE "challenge",
                             code |-> dpage.case.code, role |-> dpage.role, wallet |-> connected,
                             token |-> dpage.launch.token]
  BY DEF authorize
<1>4. /\ DOMAIN x = AuthFields /\ x.code = dpage.case.code
      /\ \/ dpage.pending # NoPost /\ x.at = "post" /\ x.role = dpage.pending.role /\ x.wallet = dpage.pending.wallet
         \/ /\ dpage.pending = NoPost /\ x.role = dpage.role /\ x.wallet = connected
            /\ x.at = IF dpage.case = Missing THEN "create" ELSE "challenge"
  BY <1>3 DEF AuthFields
<1>5. PICK d : d = [dpage EXCEPT !.auth = x]
  OBVIOUS
<1>6. /\ DOMAIN d = PageFields /\ d.case = dpage.case /\ d.role = dpage.role /\ d.pending = dpage.pending
      /\ d.restoring = dpage.restoring /\ d.auth = x /\ dpage' = d
  BY <1>3, <1>5 DEF DirectInv, DirectTypes, PageFields
<1>7. CallOK'
  BY <1>1, <1>2, <1>4, <1>6 DEF DirectInv, PendingOK, CallOK
<1>8. StoreGrows
  BY <1>1, StoreStays
<1> QED
  BY <1>1, <1>2, <1>4, <1>6, <1>7, <1>8, CaseStays

\* The challenge is given, refused or lost.
LEMMA ChallengeKeeps ==
  ASSUME DirectInv, requestChallenge
  PROVE  DirectInv' /\ OnlyForward
<1>1. store' = store /\ signed' = signed /\ connected' = connected /\ dpage.auth.at = "challenge"
  BY DEF requestChallenge, service
<1>2. StoreGrows /\ reads \in SUBSET reads /\ DOMAIN dpage = PageFields /\ DOMAIN dpage.auth = AuthFields
  BY <1>1, StoreStays DEF DirectInv, DirectTypes
<1>3. CASE \E s \in {dpage, failClosed(dpage)} : shows(givesUp(s), reads, FALSE)
  BY <1>1, <1>2, <1>3, GivesUpKeeps
<1>4. CASE shows([dpage EXCEPT !.auth.at = "sign"], reads, FALSE)
  <2>1. PICK x : x = [dpage.auth EXCEPT !.at = "sign"]
    OBVIOUS
  <2>2. DOMAIN x = AuthFields /\ x.at = "sign" /\ x.code = dpage.auth.code /\ x.role = dpage.auth.role
        /\ x.wallet = dpage.auth.wallet
    BY <1>2, <2>1 DEF AuthFields
  <2>3. PICK s : s = [dpage EXCEPT !.auth = x]
    OBVIOUS
  <2>4. shows(s, reads, FALSE)
    BY <1>2, <1>4, <2>1, <2>3 DEF PageFields
  <2>5. /\ DOMAIN s = PageFields /\ s.case = dpage.case /\ s.role = dpage.role /\ s.pending = dpage.pending
        /\ s.restoring = dpage.restoring /\ s.auth = x
    BY <1>2, <2>3 DEF PageFields
  <2>6. PICK d : d = walletBound(s, connected)
    OBVIOUS
  <2>7. dpage' = d /\ reads' \subseteq reads
    BY <2>4, <2>6 DEF shows, awaited
  <2>8. /\ DOMAIN d = PageFields /\ d.case = s.case /\ d.role = s.role /\ d.pending = s.pending
        /\ d.restoring = s.restoring /\ d.auth = s.auth
    BY <2>5, <2>6, BoundIs
  <2>9. CallOK'
    BY <1>1, <2>2, <2>5, <2>7, <2>8 DEF DirectInv, CallOK
  <2>10. connected' \in MaybeWallet
    BY <1>1 DEF DirectInv, DirectTypes
  <2> QED
    BY <1>1, <1>2, <2>2, <2>5, <2>7, <2>8, <2>9, <2>10, CaseStays
<1> QED
  BY <1>3, <1>4 DEF requestChallenge

\* A case is created for the page, or its answer is lost.
LEMMA CreateKeeps ==
  ASSUME DirectInv, createNeutralCase
  PROVE  DirectInv' /\ OnlyForward
<1>1. signed' = signed /\ connected' = connected /\ dpage.auth.at = "create"
  BY DEF createNeutralCase
<1>2. /\ DOMAIN dpage = PageFields /\ DOMAIN dpage.auth = AuthFields /\ store \in Seq(Cases)
      /\ dpage.case = Missing
  BY <1>1 DEF DirectInv, DirectTypes, CallOK
<1>3. CASE store' = store /\ shows(givesUp(dpage), reads, FALSE)
  <2>1. StoreGrows
    BY <1>3, StoreStays
  <2> QED
    BY <1>1, <1>3, <2>1, GivesUpKeeps
<1>4. CASE store' = Append(store, Fresh)
  <2>1. PICK n : n = Len(store) + 1
    OBVIOUS
  <2>2. /\ Fresh \in Cases /\ CaseOK(Fresh) /\ Fresh.stage = "MATCH_PREPARED" /\ Fresh.A = NoWallet
        /\ Fresh.B = NoWallet /\ Fresh.result = "none"
    BY DEF Fresh, Cases, CaseOK, MaybeWallet, CaseStages
  <2>3. /\ store' \in Seq(Cases) /\ DOMAIN store' = 1 .. n /\ DOMAIN store = 1 .. Len(store)
        /\ store'[n] = Fresh /\ \A k \in 1 .. Len(store) : store'[k] = store[k]
    BY <1>2, <1>4, <2>1, <2>2
  <2>4. n \in Nat /\ n # 0 /\ n \in 1 .. n /\ \A k \in 1 .. n : k = n \/ k \in 1 .. Len(store)
    BY <1>2, <2>1
  <2>5. StoreGrows
    <3>1. \A k \in DOMAIN store' : CaseOK(store'[k])
      BY <2>2, <2>3, <2>4 DEF DirectInv
    <3>2. ASSUME NEW k \in DOMAIN store
          PROVE  k \in DOMAIN store' /\ Forward(store[k], store'[k])
      <4>1. k \in DOMAIN store' /\ store'[k] = store[k] /\ store[k] \in Cases
        BY <1>2, <2>1, <2>3
      <4>2. store[k].stage \in CaseStages
        BY <4>1 DEF Cases
      <4>3. Forward(store[k], store[k])
        BY <4>2, ForwardSame
      <4> QED
        BY <4>1, <4>3
    <3> QED
      BY <2>3, <3>1, <3>2 DEF StoreGrows
  <2>6. CASE \E s \in {dpage, failClosed(dpage)} : shows(givesUp(s), reads, FALSE)
    BY <1>1, <2>5, <2>6, GivesUpKeeps
  <2>7. CASE shows([dpage EXCEPT !.case = [Missing EXCEPT !.code = Len(store) + 1,
                            !.view = customSupervisedView("governed", Len(store) + 1, Fresh),
                            !.lifecycle = participantLifecycle(Fresh)],
                            !.auth.at = "challenge", !.auth.code = Len(store) + 1], reads, TRUE)
    <3>1. PICK v : v = customSupervisedView("governed", n, Fresh)
      OBVIOUS
    <3>2. v.stage = "MATCH_PREPARED" /\ v.result = "none"
      BY <2>2, <3>1 DEF customSupervisedView
    <3>3. PICK p : p = [Missing EXCEPT !.code = n, !.view = v, !.lifecycle = participantLifecycle(Fresh)]
      OBVIOUS
    <3>4. p.code = n /\ p.view = v /\ p.A = NoWallet /\ p.B = NoWallet
      BY <3>3 DEF Missing
    <3>5. p # Missing
      BY <2>4, <3>4 DEF Missing
    <3>6. PICK x : x = [dpage.auth EXCEPT !.at = "challenge", !.code = n]
      OBVIOUS
    <3>7. /\ DOMAIN x = AuthFields /\ x.at = "challenge" /\ x.code = n /\ x.role = dpage.auth.role
          /\ x.wallet = dpage.auth.wallet
      BY <1>2, <3>6 DEF AuthFields
    <3>8. PICK s : s = [dpage EXCEPT !.case = p, !.auth = x]
      OBVIOUS
    <3>9. shows(s, reads, TRUE)
      <4>1. s = [dpage EXCEPT !.case = p, !.auth.at = "challenge", !.auth.code = n]
        BY <1>2, <3>6, <3>8 DEF PageFields
      <4> QED
        BY <2>1, <2>7, <3>1, <3>3, <4>1
    <3>10. /\ DOMAIN s = PageFields /\ s.case = p /\ s.role = dpage.role /\ s.pending = dpage.pending
           /\ s.restoring = dpage.restoring /\ s.auth = x
      BY <1>2, <3>8 DEF PageFields
    <3>11. PICK d : d = walletBound(s, connected)
      OBVIOUS
    <3>12. dpage' = d /\ reads' = {}
      BY <3>9, <3>11 DEF shows, awaited
    <3>13. /\ DOMAIN d = PageFields /\ d.case = s.case /\ d.role = s.role /\ d.pending = s.pending
           /\ d.restoring = s.restoring /\ d.auth = s.auth
      BY <3>10, <3>11, BoundIs
    <3>14. dpage.pending = NoPost /\ dpage.restoring = 0 /\ \A i \in DOMAIN signed : FALSE
      BY <1>1, <1>2 DEF DirectInv, PendingOK, SignedOK, CallOK
    <3>15. Forward(told(p), store'[n])
      <4>1. PICK t : t = told(p)
        OBVIOUS
      <4>2. t.stage = "MATCH_PREPARED" /\ t.result = "none" /\ t.A = NoWallet /\ t.B = NoWallet
        BY <3>2, <3>4, <4>1 DEF told
      <4>3. t.stage \in CaseStages
        BY <4>2 DEF CaseStages
      <4>4. Forward(t, t)
        BY <4>3, ForwardSame
      <4>5. Forward(t, store'[n])
        BY <2>2, <2>3, <4>2, <4>4 DEF Forward
      <4> QED
        BY <4>1, <4>5
    <3>16. ShownOK' /\ ReadsOK'
      BY <2>3, <2>4, <3>4, <3>10, <3>12, <3>13, <3>15 DEF ShownOK, ReadsOK
    <3>17. CallOK' /\ PendingOK'
      BY <1>1, <3>4, <3>5, <3>7, <3>10, <3>12, <3>13, <3>14 DEF DirectInv, CallOK, PendingOK
    <3>18. SignedOK'
      BY <1>1, <3>14 DEF SignedOK
    <3>19. DirectTypes'
      BY <1>1, <2>3, <3>7, <3>10, <3>12, <3>13 DEF DirectInv, DirectTypes
    <3> QED
      BY <1>2, <2>5, <3>16, <3>17, <3>18, <3>19 DEF DirectInv, OnlyForward, StoreGrows
  <2> QED
    BY <1>4, <2>6, <2>7 DEF createNeutralCase
<1> QED
  BY <1>3, <1>4 DEF createNeutralCase

\* The wallet signs once for a role, or declines.
LEMMA SignKeeps ==
  ASSUME DirectInv, signAdmission
  PROVE  DirectInv' /\ OnlyForward
<1>1. store' = store /\ connected' = connected /\ dpage.auth.at = "sign"
  BY DEF signAdmission, service
<1>2. /\ StoreGrows /\ DOMAIN dpage = PageFields /\ DOMAIN dpage.auth = AuthFields
      /\ signed \in Seq(Signature) /\ store \in Seq(Cases)
  BY <1>1, StoreStays DEF DirectInv, DirectTypes
<1>3. CASE shows(givesUp(dpage), reads, FALSE) /\ signed' = signed
  BY <1>1, <1>2, <1>3, GivesUpKeeps
<1>4. CASE /\ signed' = Append(signed, [code |-> dpage.auth.code, role |-> dpage.auth.role,
                                        wallet |-> dpage.auth.wallet])
           /\ shows(retained([dpage EXCEPT !.auth.at = "post"]), reads, FALSE)
  <2>1. PICK g : g = [code |-> dpage.auth.code, role |-> dpage.auth.role, wallet |-> dpage.auth.wallet]
    OBVIOUS
  <2>2. /\ dpage.role \in {"A", "B"} /\ dpage.auth.role = dpage.role /\ dpage.auth.wallet \in Wallets
        /\ dpage.case # Missing /\ dpage.auth.code = dpage.case.code /\ dpage.pending = NoPost
        /\ dpage.case.code \in DOMAIN store /\ dpage.restoring = 0
    BY <1>1 DEF DirectInv, CallOK, ShownOK
  <2>3. /\ g \in Signature /\ g.code = dpage.case.code /\ g.role = dpage.role /\ g.wallet \in Wallets
        /\ g.code # 0
    BY <1>2, <2>1, <2>2 DEF Signature
  <2>4. g # NoPost
    BY <2>3 DEF NoPost
  <2>5. PICK x : x = [dpage.auth EXCEPT !.at = "post"]
    OBVIOUS
  <2>6. /\ DOMAIN x = AuthFields /\ x.at = "post" /\ x.code = dpage.auth.code /\ x.role = dpage.auth.role
        /\ x.wallet = dpage.auth.wallet
    BY <1>2, <2>5 DEF AuthFields
  <2>7. PICK r : r = [dpage EXCEPT !.auth.at = "post"]
    OBVIOUS
  <2>8. /\ DOMAIN r = PageFields /\ r.case = dpage.case /\ r.role = dpage.role /\ r.auth = x
        /\ r.restoring = dpage.restoring
    BY <1>2, <2>5, <2>7 DEF PageFields
  <2>9. PICK s : s = retained(r)
    OBVIOUS
  <2>10. /\ DOMAIN s = PageFields /\ s.case = dpage.case /\ s.role = dpage.role /\ s.auth = x
         /\ s.restoring = dpage.restoring
         /\ s.pending = [code |-> x.code, role |-> x.role, wallet |-> x.wallet]
    BY <2>8, <2>9 DEF retained, PageFields
  <2>11. s.pending = g
    BY <2>1, <2>6, <2>10
  <2>12. PICK d : d = walletBound(s, connected)
    OBVIOUS
  <2>13. dpage' = d /\ reads' \subseteq reads /\ signed' = Append(signed, g)
    BY <1>4, <2>1, <2>7, <2>9, <2>12 DEF shows, awaited
  <2>14. /\ DOMAIN d = PageFields /\ d.case = s.case /\ d.role = s.role /\ d.pending = s.pending
         /\ d.restoring = s.restoring /\ d.auth = s.auth
    BY <2>10, <2>12, BoundIs
  <2>15. ShownOK' /\ ReadsOK'
    BY <1>1, <2>10, <2>13, <2>14 DEF DirectInv, ShownOK, ReadsOK
  <2>16. CallOK' /\ PendingOK'
    BY <1>1, <2>2, <2>3, <2>6, <2>10, <2>11, <2>13, <2>14 DEF DirectInv, CallOK, PendingOK
  <2>17. \A i \in DOMAIN signed : signed[i].role # dpage.role
    BY <2>2 DEF DirectInv, SignedOK, Settled
  <2>18. /\ signed' \in Seq(Signature) /\ DOMAIN signed' = 1 .. Len(signed) + 1
         /\ DOMAIN signed = 1 .. Len(signed) /\ Len(signed) \in Nat
         /\ signed'[Len(signed) + 1] = g /\ \A i \in 1 .. Len(signed) : signed'[i] = signed[i]
    BY <1>2, <2>3, <2>13
  <2>19. SignedOK'
    <3>1. ASSUME NEW i \in DOMAIN signed'
          PROVE  d.case # Missing /\ signed'[i].code = d.case.code /\ Settled(signed[i].role)'
      <4>1. CASE i = Len(signed) + 1
        BY <2>2, <2>3, <2>4, <2>10, <2>11, <2>13, <2>14, <2>18, <4>1 DEF Settled
      <4>2. CASE i # Len(signed) + 1
        <5>1. i \in DOMAIN signed /\ signed'[i] = signed[i]
          BY <2>18, <4>2
        <5>2. signed[i].code = dpage.case.code /\ Settled(signed[i].role)
          BY <5>1 DEF DirectInv, SignedOK
        <5> QED
          BY <2>2, <2>10, <2>13, <2>14, <5>1, <5>2 DEF Settled
      <4> QED
        BY <4>1, <4>2
    <3>2. ASSUME NEW i \in DOMAIN signed', NEW j \in DOMAIN signed', signed'[i].role = signed'[j].role
          PROVE  i = j
      BY <2>3, <2>17, <2>18, <3>2 DEF DirectInv, SignedOK
    <3> QED
      BY <2>13, <3>1, <3>2 DEF SignedOK
  <2>20. DirectTypes'
    BY <1>1, <1>2, <2>6, <2>10, <2>13, <2>14, <2>18 DEF DirectInv, DirectTypes
  <2>21. OnlyForward
    <3>1. PICK t : t = told(dpage.case)
      OBVIOUS
    <3>2. t.stage \in CaseStages
      BY <2>2, <3>1 DEF DirectInv, ShownOK, Forward
    <3>3. Forward(t, t)
      BY <3>2, ForwardSame
    <3> QED
      BY <2>10, <2>13, <2>14, <3>1, <3>3 DEF OnlyForward
  <2> QED
    BY <1>1, <2>15, <2>16, <2>19, <2>20, <2>21 DEF DirectInv
<1> QED
  BY <1>3, <1>4 DEF signAdmission

\* The signed admission is posted: it lands or not, and is answered or not.
LEMMA PostAdmissionKeeps ==
  ASSUME DirectInv, postAdmission
  PROVE  DirectInv' /\ OnlyForward
<1>1. PICK k : k = dpage.auth.code
  OBVIOUS
<1>2. PICK st : st = withAdmitted(k, dpage.auth.role, dpage.auth.wallet)
  OBVIOUS
<1>3. signed' = signed /\ connected' = connected /\ dpage.auth.at = "post"
  BY DEF postAdmission
<1>4. /\ dpage.role \in {"A", "B"} /\ dpage.auth.role = dpage.role /\ dpage.auth.wallet \in Wallets
      /\ dpage.case # Missing /\ k = dpage.case.code /\ k \in DOMAIN store /\ dpage.restoring = 0
      /\ DOMAIN dpage = PageFields /\ DOMAIN dpage.auth = AuthFields
      /\ Forward(told(dpage.case), store[k]) /\ store \in Seq(Cases)
  BY <1>1, <1>3 DEF DirectInv, CallOK, ShownOK, DirectTypes
<1>5. CASE store' = store /\ shows(givesUp(dpage), reads, FALSE)
  <2>1. StoreGrows
    BY <1>5, StoreStays
  <2> QED
    BY <1>3, <1>5, <2>1, GivesUpKeeps
<1>6. CASE mayAdmit(k, dpage.auth.role, dpage.auth.wallet) /\ store' = st
  <2>1. PICK role, w : role = dpage.auth.role /\ w = dpage.auth.wallet
    OBVIOUS
  <2>2. role \in {"A", "B"} /\ w \in Wallets /\ mayAdmit(k, role, w) /\ st = withAdmitted(k, role, w)
    BY <1>2, <1>4, <1>6, <2>1
  <2>3. /\ st \in Seq(Cases) /\ DOMAIN st = DOMAIN store
        /\ \A q \in DOMAIN store : CaseOK(st[q]) /\ Forward(store[q], st[q])
        /\ st[k].A # NoWallet /\ (role = "B" => st[k].B # NoWallet)
    BY <1>4, <2>2, AdmittedCase
  <2>4. StoreGrows
    BY <1>6, <2>3 DEF StoreGrows
  <2>5. CASE \E s \in {dpage, failClosed(dpage)} : shows(givesUp(s), reads, FALSE)
    BY <1>3, <2>4, <2>5, GivesUpKeeps
  <2>6. CASE shows(givesUp(acceptCase(dpage, [projectAdmission(k) EXCEPT
                              !.view = customSupervisedView("governed", k, st[k]),
                              !.lifecycle = participantLifecycle(st[k]),
                              !.A = st[k].A, !.B = st[k].B])), reads, TRUE)
    <3>1. PICK v : v = customSupervisedView("governed", k, st[k])
      OBVIOUS
    <3>2. v.stage = st[k].stage /\ v.result = st[k].result
      BY <3>1 DEF customSupervisedView
    <3>3. PICK p : p = [projectAdmission(k) EXCEPT !.view = v, !.lifecycle = participantLifecycle(st[k]),
                                                   !.A = st[k].A, !.B = st[k].B]
      OBVIOUS
    <3>4. p.code = k /\ p.view = v /\ p.A = st[k].A /\ p.B = st[k].B
      BY <3>3 DEF projectAdmission
    <3>5. k # 0 /\ p # Missing
      BY <1>4, <3>4 DEF Missing
    <3>6. PICK c : c = acceptCase(dpage, p)
      OBVIOUS
    <3>7. /\ DOMAIN c = PageFields /\ c.case = p /\ c.role = "none" /\ c.pending = NoPost
          /\ c.restoring = dpage.restoring
      BY <1>4, <2>3, <3>4, <3>6 DEF acceptCase, PageFields
    <3>8. PICK s : s = givesUp(c)
      OBVIOUS
    <3>9. /\ DOMAIN s = PageFields /\ s.case = p /\ s.role = "none" /\ s.pending = NoPost
          /\ s.restoring = dpage.restoring /\ s.auth = Resting
      BY <3>7, <3>8 DEF givesUp, PageFields
    <3>10. PICK d : d = walletBound(s, connected)
      OBVIOUS
    <3>11. dpage' = d /\ reads' = {}
      BY <2>6, <3>1, <3>3, <3>6, <3>8, <3>10 DEF shows, awaited
    <3>12. /\ DOMAIN d = PageFields /\ d.case = s.case /\ d.role = s.role /\ d.pending = s.pending
           /\ d.restoring = s.restoring /\ d.auth = s.auth
      BY <3>9, <3>10, BoundIs
    <3>13. Resting.at = "rest" /\ DOMAIN Resting = AuthFields
      BY DEF Resting, AuthFields
    <3>14. PICK t : t = told(p)
      OBVIOUS
    <3>15. t.stage = st[k].stage /\ t.result = st[k].result /\ t.A = st[k].A /\ t.B = st[k].B
      BY <3>2, <3>4, <3>14 DEF told
    <3>16. Forward(store[k], t)
      BY <1>4, <2>3, <3>15 DEF Forward
    <3>17. Forward(told(dpage.case), t)
      <4>1. PICK a, b : a = told(dpage.case) /\ b = store[k]
        OBVIOUS
      <4>2. Forward(a, b) /\ Forward(b, t)
        BY <1>4, <3>16, <4>1
      <4> QED
        BY <4>1, <4>2, ForwardOn
    <3>18. Forward(t, store'[k])
      <4>1. t.stage \in CaseStages
        BY <3>16 DEF Forward
      <4>2. Forward(t, t)
        BY <4>1, ForwardSame
      <4> QED
        BY <1>6, <3>15, <4>2 DEF Forward
    <3>19. ShownOK' /\ ReadsOK'
      BY <1>4, <1>6, <2>3, <3>4, <3>9, <3>11, <3>12, <3>14, <3>18 DEF ShownOK, ReadsOK
    <3>20. CallOK' /\ PendingOK'
      BY <1>4, <3>9, <3>11, <3>12, <3>13 DEF CallOK, PendingOK
    <3>21. SignedOK'
      <4>1. ASSUME NEW i \in DOMAIN signed
            PROVE  signed[i].code = p.code /\ (signed[i].role = "A" \/ (signed[i].role = "B" /\ p.B # NoWallet))
        <5>1. signed[i].code = dpage.case.code /\ Settled(signed[i].role)
          BY DEF DirectInv, SignedOK
        <5>2. dpage.pending # NoPost => dpage.pending.role = dpage.role
          BY DEF DirectInv, PendingOK
        <5> QED
          BY <1>4, <2>1, <2>3, <3>4, <5>1, <5>2 DEF Settled
      <4> QED
        BY <1>3, <3>5, <3>9, <3>11, <3>12, <4>1 DEF DirectInv, SignedOK, Settled
    <3>22. DirectTypes'
      BY <1>3, <1>6, <2>3, <3>9, <3>11, <3>12, <3>13 DEF DirectInv, DirectTypes
    <3>23. OnlyForward
      BY <1>4, <3>4, <3>9, <3>11, <3>12, <3>14, <3>17 DEF OnlyForward
    <3> QED
      BY <2>4, <3>19, <3>20, <3>21, <3>22, <3>23 DEF DirectInv, StoreGrows
  <2> QED
    BY <1>1, <1>2, <1>5, <1>6, <2>5, <2>6 DEF postAdmission
<1> QED
  BY <1>1, <1>2, <1>5, <1>6 DEF postAdmission

\* The page goes on for the second participant.
LEMMA ContinueKeeps ==
  ASSUME DirectInv, continueAsParticipantB
  PROVE  DirectInv' /\ OnlyForward
<1>1. /\ dpage.role = "none" /\ dpage.case.A # NoWallet /\ dpage.case.B = NoWallet
      /\ store' = store /\ signed' = signed /\ connected' = connected
  BY DEF continueAsParticipantB, service
<1>2. PICK s : s = [dpage EXCEPT !.role = "B", !.claim = FALSE, !.eligibility = Idle, !.launch = NoLaunch]
  OBVIOUS
<1>3. DOMAIN dpage = PageFields /\ dpage.case # Missing /\ dpage.auth.at = "rest" /\ dpage.pending = NoPost
  BY <1>1 DEF DirectInv, DirectTypes, CallOK, PendingOK, Missing
<1>4. /\ DOMAIN s = PageFields /\ s.case = dpage.case /\ s.role = "B" /\ s.pending = dpage.pending
      /\ s.restoring = dpage.restoring /\ s.auth = dpage.auth
  BY <1>2, <1>3 DEF PageFields
<1>5. PICK d : d = walletBound(s, connected)
  OBVIOUS
<1>6. dpage' = d /\ reads' \subseteq reads
  BY <1>2, <1>5 DEF continueAsParticipantB, shows, awaited
<1>7. /\ DOMAIN d = PageFields /\ d.case = s.case /\ d.role = s.role /\ d.pending = s.pending
      /\ d.restoring = s.restoring /\ d.auth = s.auth
  BY <1>4, <1>5, BoundIs
<1>8. ShownOK' /\ ReadsOK'
  BY <1>1, <1>4, <1>6, <1>7 DEF DirectInv, ShownOK, ReadsOK
<1>9. CallOK' /\ PendingOK'
  BY <1>1, <1>3, <1>4, <1>6, <1>7 DEF DirectInv, CallOK, PendingOK
<1>10. SignedOK'
  <2>1. \A i \in DOMAIN signed : signed[i].role = "A"
    BY <1>1, <1>3 DEF DirectInv, SignedOK, Settled
  <2> QED
    BY <1>1, <1>3, <1>4, <1>6, <1>7, <2>1 DEF DirectInv, SignedOK, Settled
<1>11. DirectTypes' /\ \A k \in DOMAIN store' : CaseOK(store'[k])
  BY <1>1, <1>4, <1>6, <1>7 DEF DirectInv, DirectTypes
<1>12. OnlyForward
  <2>1. PICK t : t = told(dpage.case)
    OBVIOUS
  <2>2. t.stage \in CaseStages
    BY <1>3, <2>1 DEF DirectInv, ShownOK, Forward
  <2>3. Forward(t, t)
    BY <2>2, ForwardSame
  <2> QED
    BY <1>4, <1>6, <1>7, <2>1, <2>3 DEF OnlyForward
<1> QED
  BY <1>8, <1>9, <1>10, <1>11, <1>12 DEF DirectInv

-----------------------------------------------------------------------------
\* The page starts without a case, or is opened at one.
LEMMA DirectStart == DirectInit => DirectInv
<1> SUFFICES ASSUME DirectInit PROVE DirectInv
  OBVIOUS
<1>1. PICK code \in {0, 1} :
        /\ store = IF code = 0 THEN << >> ELSE <<Fresh>>
        /\ dpage = [case |-> Missing, role |-> "A", claim |-> FALSE, eligibility |-> Idle, launch |-> NoLaunch,
                    auth |-> Resting, pending |-> NoPost, notice |-> FALSE, failures |-> 0, restoring |-> code]
  BY DEF DirectInit
<1>2. /\ dpage.case = Missing /\ dpage.role = "A" /\ dpage.auth = Resting /\ dpage.pending = NoPost
      /\ dpage.restoring = code /\ DOMAIN dpage = PageFields
  BY <1>1 DEF PageFields
<1>3. reads = {} /\ signed = << >> /\ connected = NoWallet
  BY DEF DirectInit
<1>4. Fresh \in Cases /\ CaseOK(Fresh)
  BY DEF Fresh, Cases, CaseOK, MaybeWallet, CaseStages
<1>5. /\ store \in Seq(Cases) /\ (\A k \in DOMAIN store : CaseOK(store[k])) /\ (code # 0 => code \in DOMAIN store)
  <2>1. CASE code = 0
    BY <1>1, <2>1
  <2>2. CASE code = 1
    <3>1. store = <<Fresh>>
      BY <1>1, <2>2
    <3>2. store \in Seq(Cases) /\ DOMAIN store = {1} /\ store[1] = Fresh
      BY <1>4, <3>1
    <3> QED
      BY <1>4, <2>2, <3>2
  <2> QED
    BY <2>1, <2>2
<1>6. Resting.at = "rest" /\ DOMAIN Resting = AuthFields
  BY DEF Resting, AuthFields
<1>7. DirectTypes
  BY <1>2, <1>3, <1>5, <1>6 DEF DirectTypes, MaybeWallet
<1>8. ShownOK /\ ReadsOK /\ CallOK /\ PendingOK /\ SignedOK
  BY <1>2, <1>3, <1>5, <1>6 DEF ShownOK, ReadsOK, CallOK, PendingOK, SignedOK
<1> QED
  BY <1>5, <1>7, <1>8 DEF DirectInv

\* Every step of the two-wallet page keeps the invariant.
LEMMA DirectStep ==
  ASSUME DirectInv, [DirectNext]_directVars
  PROVE  DirectInv' /\ OnlyForward
<1>1. CASE UNCHANGED directVars
  <2>1. store' = store /\ UNCHANGED <<spent, issued, connected, dpage, reads, checks, signed, misses>>
    BY <1>1 DEF directVars
  <2> QED
    BY <2>1, StoreStays, StoreKeeps
<1>2. CASE caseMoves \/ otherBrowserAdmits
  BY <1>2, CaseMovesKeep, OtherAdmitsKeeps
<1>3. CASE restoreCase \/ pollCase \/ pollCaseAnswered
  BY <1>3, RestoreCaseKeeps, PollCaseKeeps, PollCaseAnsweredKeeps
<1>4. CASE walletChanges \/ launchExpires \/ checkApass \/ checkAnswered \/ writeClaim \/ dismiss
  BY <1>4, AroundKeeps
<1>5. CASE authorize \/ createNeutralCase \/ requestChallenge \/ signAdmission \/ postAdmission
  BY <1>5, AuthorizeKeeps, CreateKeeps, ChallengeKeeps, SignKeeps, PostAdmissionKeeps
<1>6. CASE continueAsParticipantB
  BY <1>6, ContinueKeeps
<1> QED
  BY <1>1, <1>2, <1>3, <1>4, <1>5, <1>6 DEF DirectNext

\* What the page shows and awaits is never ahead of the service, and what
\* its call has captured stays the page's across every await.
THEOREM DirectInvariant == DirectSpec => []DirectInv
<1>1. DirectInit => DirectInv
  BY DirectStart
<1>2. DirectInv /\ [DirectNext]_directVars => DirectInv'
  BY DirectStep
<1> QED
  BY <1>1, <1>2, PTL DEF DirectSpec

\* A role of a case is signed for once on a page, and a lost answer is
\* retried with the same signature (authorize, postAdmission).
THEOREM SignedStaysOnce == DirectSpec => []SignedOnce
<1>1. DirectInv => SignedOnce
  BY DEF DirectInv, SignedOK, PendingOK, SignedOnce
<1> QED
  BY <1>1, DirectInvariant, PTL

\* The case on the screen never goes back, in whatever order the polls
\* are answered (acceptCase and the clean-up of the polling effect).
THEOREM CaseNeverGoesBack == DirectSpec => NeverGoesBack
<1>1. DirectInv /\ [DirectNext]_directVars =>
        [ LET old == dpage.case
              new == dpage'.case
          IN old # Missing =>
               /\ new.code = old.code
               /\ old.A # NoWallet => new.A = old.A
               /\ old.B # NoWallet => new.B = old.B
               /\ \/ new.view.stage = "ABORTED"
                  \/ old.view.stage # "ABORTED" /\ reached(new.view.stage, old.view.stage)
               /\ old.view.result # "none" => new.view.result = old.view.result ]_dpage
  BY DirectStep DEF OnlyForward, Forward, Before, told
<1> QED
  BY <1>1, DirectInvariant, PTL DEF DirectSpec, NeverGoesBack

=============================================================================
