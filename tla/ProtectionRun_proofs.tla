------------------------- MODULE ProtectionRun_proofs -------------------------
(***************************************************************************)
(* Proofs about ProtectionRun: that the record is never ahead of what is   *)
(* published, for any number of requests, the reads that pass by the lock  *)
(* included; and, for requests that are served one after the other, that a *)
(* recovered record is the uninterrupted one, that the one-shot programs   *)
(* are started once and that the operation on offer is accepted.           *)
(***************************************************************************)
EXTENDS ProtectionRun, TLAPS

JournalRecord == [phase : Phases \cup {"ABORTED"}, outcome : Outcomes]

Directory ==
    [exec : Execution \cup {None}, journal : Seq(JournalRecord), disk : SUBSET Artifacts,
     keyFiles : SUBSET Roles, pledgeFiles : SUBSET Roles, profile : BOOLEAN,
     ledger : SUBSET Roles]

Request ==
    [op : Operations \cup {None}, at : {"idle", "inspecting", "inspected", "child"},
     exec : Execution \cup {None}, pend : Nat, phase : Phases \cup {"ABORTED", None},
     seen : SUBSET Artifacts, left : Seq(Artifacts)]

\* The objects of which one must be published before the record may name a
\* stage.
provenBy(stage) ==
    CASE stage = "MATCH_PREPARED"          -> {"foundation"}
      [] stage = "PARTICIPANT_A_SUBMITTED" -> {"submissionA"}
      [] stage = "PARTICIPANT_B_PUBLISHED" -> {"submissionB"}
      [] stage = "PARTICIPANT_B_SUBMITTED" -> {"manifest"}
      [] stage = "EVALUATED"               -> {"evaluation"}
      [] stage = "RELEASED"                -> {"result"}
      [] stage \in {"RECOURSE_OPENED", "CHRONOLOGY_COMPLETE"} -> {"record", "outcome"}
      [] stage = "COMPLETE"                -> {"evidence"}
      [] OTHER                             -> Artifacts

proven(stage, d) ==
    stage \in {"CASE_CREATED", "ABORTED"} \/ provenBy(stage) \cap d # {}

\* What is published was published in the order of the protocol.
Closed(d) ==
    /\ "submissionA" \in d => "foundation" \in d
    /\ "submissionB" \in d => "submissionA" \in d
    /\ "manifest" \in d => "submissionB" \in d
    /\ "evaluation" \in d => "manifest" \in d
    /\ "result" \in d => "evaluation" \in d
    /\ "record" \in d => "result" \in d
    /\ "outcome" \in d => "result" \in d /\ (variant.truth => "record" \in d)
    /\ "evidence" \in d => "record" \in d \/ "outcome" \in d
    /\ "productEvidence" \in d => "evidence" \in d

\* The stages at which an operation is begun.
sources(phase) ==
    CASE phase = "PREPARING"        -> {"CASE_CREATED"}
      [] phase = "SUBMITTING_A"     -> {"MATCH_PREPARED"}
      [] phase = "SUBMITTING_B"     -> {"PARTICIPANT_A_SUBMITTED"}
      [] phase = "FINALIZING"       -> {"PARTICIPANT_B_PUBLISHED"}
      [] phase = "EVALUATING"       -> {"PARTICIPANT_B_SUBMITTED"}
      [] phase = "RELEASING"        -> {"EVALUATED"}
      [] phase = "OPENING_RECOURSE" -> {"RELEASED"}
      [] phase = "ADVANCING_CURE"   -> {"RECOURSE_OPENED"}
      [] phase = "EXPORTING"        -> {"RECOURSE_OPENED", "CHRONOLOGY_COMPLETE"}
      [] OTHER                      -> {"COMPLETE"}

\* The objects a child program may publish, and whether the one that ends
\* its work is out.
objects(phase) ==
    CASE phase = "PREPARING"        -> {"partialFoundation", "foundation"}
      [] phase = "SUBMITTING_A"     -> {"signatureA", "submissionA", "enrollmentA"}
      [] phase = "SUBMITTING_B"     -> {"signatureB", "submissionB", "enrollmentB"}
      [] phase = "FINALIZING"       -> {"manifest"}
      [] phase = "EVALUATING"       -> {"evaluationAdmitted", "resultCiphertext", "evaluation"}
      [] phase = "RELEASING"        -> {"releaseAdmitted", "retainedResult", "result", "releaseConsumed"}
      [] phase = "OPENING_RECOURSE" -> {"clock", "record"}
      [] phase = "EXPORTING"        -> {"attestation", "evidence"}
      [] OTHER                      -> {"retained"}

ends(phase, d) ==
    CASE phase = "OPENING_RECOURSE" -> variant.truth => "record" \in d
      [] phase = "RETAINING"        -> TRUE
      [] OTHER                      -> provenBy(Target[phase]) \cap d # {}

pendingPhase(f) == Last(f.journal).phase

\* A directory whose record and objects are in order.
Sound(f) ==
    /\ f \in Directory
    /\ pendingOperation(f) # 0 => pendingPhase(f) \in Phases
    /\ Closed(f.disk)
    /\ f.exec # None => proven(f.exec.stage, f.disk)

\* A request relies on objects that are published and stay so: what it has
\* read may be out of date, but it was proven.
Relies(k, f) ==
    /\ k.at # "idle" => k.op \in Operations /\ k.exec \in Execution /\ f.exec # None
    /\ k.at \in {"inspecting", "inspected"} =>
            /\ proven(k.exec.stage, f.disk)
            /\ k.pend # 0 => k.phase \in Phases
    /\ k.seen \subseteq f.disk
    /\ k.at = "child" =>
            /\ k.phase \in Phases \ {"ADVANCING_CURE"}
            /\ \E s \in sources(k.phase) : proven(s, f.disk)
            /\ ToSet(k.left) \subseteq objects(k.phase)
            /\ ends(k.phase, f.disk \cup ToSet(k.left))

StageInv ==
    /\ variant \in Variants
    /\ Sound(fs)
    /\ call \in [Callers -> Request]
    /\ \A c \in Callers : Relies(call[c], fs)

-----------------------------------------------------------------------------
\* Requests one after the other.

\* Either there is one caller, or all callers take the lock.
Sequential ==
    \/ \A c \in Callers, d \in Callers : c = d
    \/ Operations \cap Readers = {}

past(e, stage) == e.stage # "ABORTED" /\ Rank(e.stage) >= Rank(stage)

\* RecoveryIsFaithful, of any record.
Faithful(e) ==
    e.stage # "ABORTED" =>
        /\ e.keys = past(e, "MATCH_PREPARED")
        /\ ("A" \in e.subs) = past(e, "PARTICIPANT_A_SUBMITTED")
        /\ ("B" \in e.subs) = past(e, "PARTICIPANT_B_PUBLISHED")
        /\ e.evaluated = past(e, "EVALUATED")
        /\ e.release = IF past(e, "RELEASED") /\ ~variant.coalition THEN variant.truth ELSE None
        /\ e.coalitionRelease = IF past(e, "RELEASED") /\ variant.coalition THEN variant.truth ELSE None
        /\ e.plan = (variant.policy /\ past(e, "RELEASED"))
        /\ e.recourse = IF past(e, "RECOURSE_OPENED") THEN variant.truth ELSE None
        /\ e.receipt = past(e, "COMPLETE")

abortRecorded(f) == f.journal # <<>> /\ Last(f.journal).outcome = "ABORTED"

pendingIs(f, phase) == pendingOperation(f) # 0 /\ pendingPhase(f) = phase

\* The record, the journal and the objects tell one story: a pending
\* operation is at its beginning or saved, a one-shot program that was
\* admitted is pending, recorded or aborted, and what was begun was
\* admissible.
Coherent(f) ==
    LET e == f.exec
    IN  /\ Faithful(e)
        /\ e.stage = "ABORTED" => abortRecorded(f)
        /\ pendingOperation(f) # 0 =>
                e.stage \in sources(pendingPhase(f)) \cup {Target[pendingPhase(f)]}
        /\ "evaluationAdmitted" \in f.disk =>
                abortRecorded(f) \/ past(e, "EVALUATED") \/ pendingIs(f, "EVALUATING")
        /\ "releaseAdmitted" \in f.disk =>
                abortRecorded(f) \/ past(e, "RELEASED") \/ pendingIs(f, "RELEASING")
        /\ variant.coalition /\ (e.stage = "EVALUATED" \/ pendingIs(f, "EVALUATING")) => f.profile
        /\ variant.coalition => ~past(e, "RECOURSE_OPENED") /\ ~pendingIs(f, "OPENING_RECOURSE")
        /\ e.stage = "CHRONOLOGY_COMPLETE" \/ pendingIs(f, "ADVANCING_CURE") => variant.truth
        /\ pendingIs(f, "EXPORTING") /\ e.stage = "RECOURSE_OPENED" => ~variant.truth

\* The one request that runs has read what is still there.
UpToDate(k, f) ==
    k.at # "idle" =>
        /\ k.exec = f.exec
        /\ k.pend = pendingOperation(f)
        /\ k.pend # 0 => k.phase = pendingPhase(f)
        /\ abortRecorded(f) => f.exec.stage = "ABORTED"
        /\ k.at = "inspected" => k.seen = f.disk
        /\ k.at = "child" => k.pend # 0 /\ k.exec.stage \in sources(k.phase)

\* A request that runs holds the lock or is the only one, and is up to date.
Fits(calls, l, f) ==
    /\ \A c \in Callers : calls[c].at # "idle" => l = c \/ \A d \in Callers : d = c
    /\ \A c \in Callers : UpToDate(calls[c], f)

RunInv ==
    /\ StageInv
    /\ IF fs.exec # None THEN Coherent(fs) ELSE fs.journal = <<>> /\ fs.disk = {}
    /\ Fits(call, lock, fs)

-----------------------------------------------------------------------------
\* The enumerations.

\* The stages, one by one.
LEMMA StageSet ==
  ToSet(Stages) = {"CASE_CREATED", "MATCH_PREPARED", "PARTICIPANT_A_SUBMITTED",
      "PARTICIPANT_B_PUBLISHED", "PARTICIPANT_B_SUBMITTED", "EVALUATED",
      "RELEASED", "RECOURSE_OPENED", "CHRONOLOGY_COMPLETE", "COMPLETE", "ABORTED"}
BY DEF ToSet, Stages

\* The phases, one by one.
LEMMA PhaseSet ==
  Phases = {"PREPARING", "SUBMITTING_A", "SUBMITTING_B", "FINALIZING", "EVALUATING",
            "RELEASING", "OPENING_RECOURSE", "ADVANCING_CURE", "EXPORTING", "RETAINING"}
BY DEF Phases, Target

\* The stage each phase promises.
LEMMA Targets ==
  /\ Target["PREPARING"] = "MATCH_PREPARED"
  /\ Target["SUBMITTING_A"] = "PARTICIPANT_A_SUBMITTED"
  /\ Target["SUBMITTING_B"] = "PARTICIPANT_B_PUBLISHED"
  /\ Target["FINALIZING"] = "PARTICIPANT_B_SUBMITTED"
  /\ Target["EVALUATING"] = "EVALUATED"
  /\ Target["RELEASING"] = "RELEASED"
  /\ Target["OPENING_RECOURSE"] = "RECOURSE_OPENED"
  /\ Target["ADVANCING_CURE"] = "CHRONOLOGY_COMPLETE"
  /\ Target["EXPORTING"] = "COMPLETE"
  /\ Target["RETAINING"] = "COMPLETE"
BY DEF Target

\* The order of the stages.
LEMMA Ranks ==
  /\ Rank("CASE_CREATED") = 1 /\ Rank("MATCH_PREPARED") = 2
  /\ Rank("PARTICIPANT_A_SUBMITTED") = 3 /\ Rank("PARTICIPANT_B_PUBLISHED") = 4
  /\ Rank("PARTICIPANT_B_SUBMITTED") = 5 /\ Rank("EVALUATED") = 6 /\ Rank("RELEASED") = 7
  /\ Rank("RECOURSE_OPENED") = 8 /\ Rank("CHRONOLOGY_COMPLETE") = 9 /\ Rank("COMPLETE") = 10
<1>0. /\ Len(Stages) = 11
      /\ Stages[1] = "CASE_CREATED" /\ Stages[2] = "MATCH_PREPARED"
      /\ Stages[3] = "PARTICIPANT_A_SUBMITTED" /\ Stages[4] = "PARTICIPANT_B_PUBLISHED"
      /\ Stages[5] = "PARTICIPANT_B_SUBMITTED" /\ Stages[6] = "EVALUATED"
      /\ Stages[7] = "RELEASED" /\ Stages[8] = "RECOURSE_OPENED"
      /\ Stages[9] = "CHRONOLOGY_COMPLETE" /\ Stages[10] = "COMPLETE" /\ Stages[11] = "ABORTED"
  BY DEF Stages
<1>1. ASSUME NEW n \in 1 .. 11, NEW s, Stages[n] = s, \A i \in 1 .. 11 : Stages[i] = s => i = n
      PROVE  Rank(s) = n
  BY <1>0, <1>1 DEF Rank
<1>2. \A i \in 1 .. 11 : i = 1 \/ i = 2 \/ i = 3 \/ i = 4 \/ i = 5 \/ i = 6 \/ i = 7 \/ i = 8
                          \/ i = 9 \/ i = 10 \/ i = 11
  OBVIOUS
<1>3. Rank("CASE_CREATED") = 1 /\ Rank("MATCH_PREPARED") = 2 /\ Rank("PARTICIPANT_A_SUBMITTED") = 3
  BY <1>0, <1>1, <1>2
<1>4. /\ Rank("PARTICIPANT_B_PUBLISHED") = 4 /\ Rank("PARTICIPANT_B_SUBMITTED") = 5
      /\ Rank("EVALUATED") = 6
  BY <1>0, <1>1, <1>2
<1>5. Rank("RELEASED") = 7 /\ Rank("RECOURSE_OPENED") = 8
  BY <1>0, <1>1, <1>2
<1>6. Rank("CHRONOLOGY_COMPLETE") = 9 /\ Rank("COMPLETE") = 10
  BY <1>0, <1>1, <1>2
<1> QED
  BY <1>3, <1>4, <1>5, <1>6

-----------------------------------------------------------------------------
\* What the writes do to the directory.

\* Saving the record changes nothing else.
LEMMA Saves ==
  ASSUME NEW f \in Directory, NEW e \in Execution
  PROVE  /\ saveState(f, e) \in Directory
         /\ saveState(f, e).exec = e
         /\ saveState(f, e).journal = f.journal /\ saveState(f, e).disk = f.disk
         /\ saveState(f, e).keyFiles = f.keyFiles /\ saveState(f, e).pledgeFiles = f.pledgeFiles
         /\ saveState(f, e).profile = f.profile /\ saveState(f, e).ledger = f.ledger
BY DEF saveState, Directory

\* A pending record is the last one.
LEMMA Pending ==
  ASSUME NEW f \in Directory
  PROVE  /\ pendingOperation(f) \in Nat
         /\ f.journal \in Seq(JournalRecord) /\ Len(f.journal) \in Nat
         /\ pendingOperation(f) # 0 <=> (f.journal # <<>> /\ Last(f.journal).outcome = "PENDING")
         /\ pendingOperation(f) # 0 => /\ pendingOperation(f) = Len(f.journal)
                                       /\ Len(f.journal) >= 1
                                       /\ Last(f.journal) \in JournalRecord
                                       /\ Last(f.journal) = f.journal[Len(f.journal)]
         /\ f.journal # <<>> => Last(f.journal) \in JournalRecord
<1>1. f.journal \in Seq(JournalRecord)
  BY DEF Directory
<1>2. Len(f.journal) \in Nat /\ (f.journal # <<>> => Len(f.journal) >= 1)
  BY <1>1
<1>3. f.journal # <<>> => Last(f.journal) \in JournalRecord
  BY <1>1, <1>2 DEF Last
<1> QED
  BY <1>1, <1>2, <1>3 DEF pendingOperation, Last

\* Finishing closes the pending record and changes nothing else.
LEMMA Finishes ==
  ASSUME NEW f \in Directory, NEW i \in Nat, NEW o \in Outcomes \ {"PENDING"}, mayFinish(f, i)
  PROVE  LET g == finishOperation(f, i, o)
         IN  /\ g \in Directory
             /\ g.exec = f.exec /\ g.disk = f.disk /\ g.keyFiles = f.keyFiles
             /\ g.pledgeFiles = f.pledgeFiles /\ g.profile = f.profile /\ g.ledger = f.ledger
             /\ pendingOperation(g) = 0
             /\ g.journal # <<>> /\ Last(g.journal).outcome = o
             /\ Len(g.journal) = Len(f.journal) /\ g.journal[i].outcome = o
<1> DEFINE g == finishOperation(f, i, o)
           j == [phase |-> IF o = "ABORTED" THEN "ABORTED" ELSE f.journal[i].phase, outcome |-> o]
<1>1. i = Len(f.journal) /\ i >= 1 /\ f.journal \in Seq(JournalRecord) /\ f.journal[i] \in JournalRecord
  BY Pending DEF mayFinish
<1>2. j \in JournalRecord
  BY <1>1 DEF JournalRecord
<1>3. g = [f EXCEPT !.journal = [f.journal EXCEPT ![i] = j]]
  BY DEF finishOperation, Directory
<1>4. PICK w : w = [f.journal EXCEPT ![i] = j]
  OBVIOUS
<1>5. w \in Seq(JournalRecord) /\ Len(w) = Len(f.journal) /\ w[i] = j
  BY <1>1, <1>2, <1>4
<1>6. g \in Directory /\ g.journal = w
      /\ g.exec = f.exec /\ g.disk = f.disk /\ g.keyFiles = f.keyFiles
      /\ g.pledgeFiles = f.pledgeFiles /\ g.profile = f.profile /\ g.ledger = f.ledger
  BY <1>3, <1>4, <1>5 DEF Directory
<1>7. w # <<>> /\ Last(w) = j /\ j.outcome = o
  BY <1>1, <1>5 DEF Last
<1> HIDE DEF g, j
<1>8. pendingOperation(g) = 0
  BY <1>6, <1>7 DEF pendingOperation
<1> QED
  BY <1>5, <1>6, <1>7, <1>8 DEF g

\* Beginning leaves the pending record of that phase.
LEMMA Begins ==
  ASSUME NEW f \in Directory, NEW phase \in Phases, mayBegin(f, phase)
  PROVE  LET g == beginOperation(f, phase)
         IN  /\ g \in Directory
             /\ g.exec = f.exec /\ g.disk = f.disk /\ g.keyFiles = f.keyFiles
             /\ g.pledgeFiles = f.pledgeFiles /\ g.profile = f.profile /\ g.ledger = f.ledger
             /\ pendingOperation(g) # 0 /\ pendingPhase(g) = phase
             /\ g.journal # <<>> /\ Last(g.journal).outcome = "PENDING"
<1> DEFINE g == beginOperation(f, phase)
           j == [phase |-> phase, outcome |-> "PENDING"]
<1>1. CASE pendingOperation(f) # 0
  BY <1>1, Pending DEF beginOperation, mayBegin, pendingPhase
<1>2. CASE pendingOperation(f) = 0
  <2>1. f.journal \in Seq(JournalRecord) /\ Len(f.journal) \in Nat
    BY Pending
  <2>2. j \in JournalRecord
    BY DEF JournalRecord, Outcomes
  <2>3. PICK w : w = Append(f.journal, j)
    OBVIOUS
  <2>4. w \in Seq(JournalRecord) /\ Len(w) = Len(f.journal) + 1 /\ w[Len(w)] = j
    BY <2>1, <2>2, <2>3
  <2>5. w # <<>> /\ Last(w) = j /\ Len(w) # 0
    BY <2>1, <2>4 DEF Last
  <2>6. /\ g \in Directory /\ g.journal = w
        /\ g.exec = f.exec /\ g.disk = f.disk /\ g.keyFiles = f.keyFiles
        /\ g.pledgeFiles = f.pledgeFiles /\ g.profile = f.profile /\ g.ledger = f.ledger
    BY <1>2, <2>3, <2>4 DEF Directory, beginOperation
  <2> HIDE DEF g
  <2>7. pendingOperation(g) # 0 /\ pendingPhase(g) = phase
    BY <2>5, <2>6 DEF pendingOperation, pendingPhase
  <2> QED
    BY <2>5, <2>6, <2>7 DEF g
<1> QED
  BY <1>1, <1>2

-----------------------------------------------------------------------------
\* Every write leaves a sound directory.

\* Sequences of directories, as a continuation passes through them.
Path(S) == Seq(S)

SoundDirs == {g \in Directory : Sound(g) /\ g.exec # None /\ fs.disk \subseteq g.disk}

\* The fields of the case.
LEMMA VariantFields ==
  ASSUME variant \in Variants
  PROVE  /\ variant.truth \in BOOLEAN /\ variant.policy \in BOOLEAN /\ variant.coalition \in BOOLEAN
         /\ variant.kind \in {"fixed", "operator", "admitted"}
         /\ variant.policy => variant.kind = "operator" /\ ~variant.coalition
         /\ variant.coalition => variant.kind # "fixed"
<1>1. variant \in Variant
  BY RunAssumption
<1>2. variant.policy => variant.kind = "operator" /\ ~variant.coalition
  BY RunAssumption
<1>3. variant.coalition => variant.kind # "fixed"
  BY RunAssumption
<1> QED
  BY <1>1, <1>2, <1>3 DEF Variant

\* The record after a release, and after the recourse was opened.
LEMMA Releases ==
  ASSUME variant \in Variants, NEW e \in Execution, NEW i \in Nat
  PROVE  /\ governedRelease(e) \in Execution /\ governedRelease(e).stage = "RELEASED"
         /\ coalitionRelease(e) \in Execution /\ coalitionRelease(e).stage = "RELEASED"
         /\ afterRelease(e) \in Execution /\ afterRelease(e).stage = "RELEASED"
         /\ afterRecourse(e, variant.truth, i) \in Execution
         /\ afterRecourse(e, variant.truth, i).stage = "RECOURSE_OPENED"
<1>1. governedRelease(e) \in Execution /\ governedRelease(e).stage = "RELEASED"
  BY VariantFields, StageSet DEF governedRelease, Execution
<1>2. coalitionRelease(e) \in Execution /\ coalitionRelease(e).stage = "RELEASED"
  <2>1. settlementFor(variant.truth) \in {"EXECUTION_READY", "NO_CONFLICT_NO_SETTLEMENT"}
    BY DEF settlementFor
  <2> QED
    BY <2>1, VariantFields, StageSet DEF coalitionRelease, Execution
<1>3. /\ afterRecourse(e, variant.truth, i) \in Execution
      /\ afterRecourse(e, variant.truth, i).stage = "RECOURSE_OPENED"
  BY VariantFields, StageSet DEF afterRecourse, Execution
<1> QED
  BY <1>1, <1>2, <1>3 DEF afterRelease

\* A reconstructed record is a record, at the stage the phase promises.
LEMMA Reconstructs ==
  ASSUME variant \in Variants, NEW e \in Execution, NEW phase \in Phases, NEW i \in Nat
  PROVE  /\ reconstructed(e, phase, i) \in Execution
         /\ phase \in {"ADVANCING_CURE", "RETAINING"} => reconstructed(e, phase, i) = e
         /\ phase \notin {"ADVANCING_CURE", "RETAINING"} =>
                reconstructed(e, phase, i).stage = Target[phase]
<1>1. CASE phase = "PREPARING"
  BY <1>1, StageSet, Targets DEF reconstructed, Execution
<1>2. CASE phase = "SUBMITTING_A"
  BY <1>2, StageSet, Targets DEF reconstructed, Execution, Roles
<1>3. CASE phase = "SUBMITTING_B"
  BY <1>3, StageSet, Targets DEF reconstructed, Execution, Roles
<1>4. CASE phase = "FINALIZING"
  BY <1>4, StageSet, Targets DEF reconstructed, Execution
<1>5. CASE phase = "EVALUATING"
  BY <1>5, StageSet, Targets DEF reconstructed, Execution
<1>6. CASE phase = "RELEASING"
  BY <1>6, Targets, Releases DEF reconstructed
<1>7. CASE phase = "OPENING_RECOURSE"
  BY <1>7, Targets, Releases DEF reconstructed
<1>8. CASE phase = "EXPORTING"
  BY <1>8, StageSet, Targets DEF reconstructed, Execution
<1>9. CASE phase \in {"ADVANCING_CURE", "RETAINING"}
  BY <1>9 DEF reconstructed
<1> QED
  BY <1>1, <1>2, <1>3, <1>4, <1>5, <1>6, <1>7, <1>8, <1>9, PhaseSet

\* What is proven stays proven.
LEMMA StaysProven ==
  ASSUME NEW s, NEW c, NEW d, c \subseteq d, proven(s, c)
  PROVE  proven(s, d)
BY DEF proven

\* Saving a proven record.
LEMMA SoundSave ==
  ASSUME NEW f \in SoundDirs, NEW e \in Execution, proven(e.stage, f.disk)
  PROVE  saveState(f, e) \in SoundDirs
<1> PICK g : g = saveState(f, e)
  OBVIOUS
<1>1. /\ g \in Directory /\ g.exec = e /\ g.journal = f.journal /\ g.disk = f.disk
  BY Saves DEF SoundDirs
<1>2. pendingOperation(g) = pendingOperation(f) /\ pendingPhase(g) = pendingPhase(f)
  BY <1>1 DEF pendingOperation, pendingPhase
<1>3. e # None
  BY NoneAssumption
<1> QED
  BY <1>1, <1>2, <1>3 DEF SoundDirs, Sound

\* Closing the pending record.
LEMMA SoundFinish ==
  ASSUME NEW f \in SoundDirs, NEW i \in Nat, NEW o \in Outcomes \ {"PENDING"}, mayFinish(f, i)
  PROVE  finishOperation(f, i, o) \in SoundDirs
<1> PICK g : g = finishOperation(f, i, o)
  OBVIOUS
<1>1. g \in Directory /\ g.exec = f.exec /\ g.disk = f.disk /\ pendingOperation(g) = 0
  BY Finishes DEF SoundDirs
<1> QED
  BY <1>1 DEF SoundDirs, Sound

\* Beginning an operation, or finding one pending.
LEMMA SoundBegin ==
  ASSUME NEW f \in SoundDirs, NEW phase \in Phases
  PROVE  /\ beginOperation(f, phase) \in SoundDirs
         /\ beginOperation(f, phase).disk = f.disk /\ beginOperation(f, phase).exec = f.exec
<1>1. CASE pendingOperation(f) # 0
  BY <1>1 DEF beginOperation
<1>2. CASE pendingOperation(f) = 0
  <2>1. mayBegin(f, phase)
    BY <1>2 DEF mayBegin
  <2>2. PICK g : g = beginOperation(f, phase)
    OBVIOUS
  <2>3. g \in Directory /\ g.exec = f.exec /\ g.disk = f.disk /\ pendingPhase(g) = phase
    BY <2>1, <2>2, Begins DEF SoundDirs
  <2> QED
    BY <2>2, <2>3 DEF SoundDirs, Sound
<1> QED
  BY <1>1, <1>2

\* Files other than the record, the journal and the objects.
LEMMA SoundFiles ==
  ASSUME NEW f \in SoundDirs, NEW S \in SUBSET Roles, NEW b \in BOOLEAN
  PROVE  /\ [f EXCEPT !.pledgeFiles = S] \in SoundDirs
         /\ [f EXCEPT !.keyFiles = S] \in SoundDirs
         /\ [f EXCEPT !.profile = b] \in SoundDirs
<1>1. ASSUME NEW g \in Directory, g.exec = f.exec, g.journal = f.journal, g.disk = f.disk
      PROVE  g \in SoundDirs
  <2>1. pendingOperation(g) = pendingOperation(f) /\ pendingPhase(g) = pendingPhase(f)
    BY <1>1 DEF pendingOperation, pendingPhase
  <2> QED
    BY <1>1, <2>1 DEF SoundDirs, Sound
<1>2. /\ [f EXCEPT !.pledgeFiles = S] \in Directory
      /\ [f EXCEPT !.keyFiles = S] \in Directory
      /\ [f EXCEPT !.profile = b] \in Directory
  BY DEF SoundDirs, Directory
<1>3. f \in Directory
  BY DEF SoundDirs
<1> QED
  BY <1>1, <1>2, <1>3 DEF Directory

\* Publishing an object whose predecessors are out.
LEMMA SoundPublish ==
  ASSUME NEW f \in SoundDirs, NEW o \in Artifacts, Closed(f.disk \cup {o})
  PROVE  /\ published(f, o) \in SoundDirs /\ published(f, o).disk = f.disk \cup {o}
         /\ published(f, o).journal = f.journal /\ published(f, o).exec = f.exec
<1> PICK g : g = published(f, o)
  OBVIOUS
<1>1. /\ g \in Directory /\ g.exec = f.exec /\ g.journal = f.journal /\ g.disk = f.disk \cup {o}
  BY DEF SoundDirs, Directory, published
<1>2. pendingOperation(g) = pendingOperation(f) /\ pendingPhase(g) = pendingPhase(f)
  BY <1>1 DEF pendingOperation, pendingPhase
<1>3. proven(g.exec.stage, g.disk)
  BY <1>1, StaysProven DEF SoundDirs, Sound
<1> QED
  BY <1>1, <1>2, <1>3 DEF SoundDirs, Sound

\* A record is proven by the end of a child's work, unless the work is to
\* open a recourse case.
LEMMA Ended ==
  ASSUME NEW phase \in Phases \ {"ADVANCING_CURE", "OPENING_RECOURSE", "RETAINING"}, NEW d,
         ends(phase, d)
  PROVE  proven(Target[phase], d)
BY DEF ends, proven

\* Saving and finishing: the last state holds the saved record.
LEMMA SoundSaveAndFinish ==
  ASSUME NEW f \in SoundDirs, NEW e \in Execution, proven(e.stage, f.disk), NEW i \in Nat,
         NEW o \in {"COMPLETED", "RECONCILED"}
  PROVE  LET w == saveAndFinish(f, e, i, o)
         IN  /\ w \in Path(SoundDirs) /\ w # <<>> /\ Last(w) \in SoundDirs
             /\ Last(w).exec = e /\ Last(w).disk = f.disk
<1> DEFINE w == saveAndFinish(f, e, i, o)
<1> PICK s : s = saveState(f, e)
  OBVIOUS
<1>1. s \in SoundDirs /\ s.exec = e /\ s.disk = f.disk /\ s.journal = f.journal /\ s \in Directory
  BY SoundSave, Saves DEF SoundDirs
<1>2. CASE ~mayFinish(f, i)
  <2>1. w = <<s>>
    BY <1>2 DEF saveAndFinish
  <2> QED
    BY <1>1, <2>1 DEF Last, Path
<1>3. CASE mayFinish(f, i)
  <2>1. mayFinish(s, i)
    BY <1>1, <1>3 DEF mayFinish, pendingOperation
  <2> PICK t : t = finishOperation(s, i, o)
    OBVIOUS
  <2>2. t \in SoundDirs /\ t.exec = e /\ t.disk = f.disk
    BY <1>1, <2>1, SoundFinish, Finishes DEF Outcomes
  <2>3. w = <<s, t>>
    BY <1>3 DEF saveAndFinish
  <2> QED
    BY <1>1, <2>2, <2>3 DEF Last, Path
<1> QED
  BY <1>2, <1>3

\* Sequences of directories: concatenation and the last element.
LEMMA Concatenates ==
  ASSUME NEW S, NEW v \in Path(S), NEW w \in Path(S)
  PROVE  /\ v \o w \in Path(S)
         /\ w # <<>> => Last(w) \in S /\ v \o w # <<>> /\ Last(v \o w) = Last(w)
         /\ w = <<>> => v \o w = v
<1>1. Len(v) \in Nat /\ Len(w) \in Nat /\ Len(v \o w) = Len(v) + Len(w) /\ v \o w \in Path(S)
  BY DEF Path
<1>2. ASSUME w # <<>>
      PROVE  Last(w) \in S /\ v \o w # <<>> /\ Last(v \o w) = Last(w)
  <2>1. Len(w) >= 1
    BY <1>1, <1>2 DEF Path
  <2>2. (v \o w)[Len(v) + Len(w)] = w[Len(w)]
    BY <1>1, <2>1 DEF Path
  <2> QED
    BY <1>1, <2>1, <2>2 DEF Last, Path
<1>3. ASSUME w = <<>>
      PROVE  v \o w = v
  BY <1>3 DEF Path
<1> QED
  BY <1>1, <1>2, <1>3

\* The directory a request is left with: as it was, or the last it wrote.
after(x, w) == Last(<<x>> \o w)

\* after, by its two cases.
LEMMA LastWritten ==
  ASSUME NEW S, NEW x \in S, NEW w \in Path(S)
  PROVE  /\ w = <<>> => after(x, w) = x
         /\ w # <<>> => after(x, w) = Last(w)
         /\ after(x, w) \in S
<1>1. ASSUME w = <<>>
      PROVE  after(x, w) = x
  BY <1>1 DEF Last, after
<1>2. ASSUME w # <<>>
      PROVE  after(x, w) = Last(w) /\ Last(w) \in S
  <2> PICK v : v = <<x>>
    OBVIOUS
  <2>1. v \in Path(S)
    BY DEF Path
  <2>2. Last(v \o w) = Last(w) /\ Last(w) \in S
    BY <1>2, <2>1, Concatenates
  <2> QED
    BY <2>2 DEF after
<1> QED
  BY <1>1, <1>2

\* The two shapes that a recovery writes.
wrote(g, v) == <<g>> \o v
wroteAll(g, v, a, b) == <<g>> \o v \o <<a, b>>

\* Where a recovery ends.
LEMMA Recovery ==
  ASSUME NEW S, NEW f \in S, NEW g \in S, NEW v \in Path(S), v # <<>>, NEW a \in S, NEW b \in S
  PROVE  /\ wrote(g, v) \in Path(S) /\ after(f, wrote(g, v)) = Last(v)
         /\ wroteAll(g, v, a, b) \in Path(S) /\ after(f, wroteAll(g, v, a, b)) = b
<1>1. PICK x, y : x = <<g>> /\ y = <<a, b>>
  OBVIOUS
<1>2. x \in Path(S) /\ y \in Path(S) /\ y # <<>> /\ Last(y) = b
  BY <1>1 DEF Last, Path
<1>3. x \o v \in Path(S) /\ x \o v # <<>> /\ Last(x \o v) = Last(v)
  BY <1>2, Concatenates
<1>4. PICK p : p = x \o v
  OBVIOUS
<1>5. p \o y \in Path(S) /\ p \o y # <<>> /\ Last(p \o y) = b
  <2>1. p \in Path(S)
    BY <1>3, <1>4
  <2> QED
    BY <1>2, <2>1, Concatenates
<1>6. PICK q : q = p \o y
  OBVIOUS
<1>7. /\ p \in Path(S) /\ p # <<>> /\ Last(p) = Last(v)
      /\ q \in Path(S) /\ q # <<>> /\ Last(q) = b
  BY <1>3, <1>4, <1>5, <1>6
<1>8. after(f, p) = Last(v) /\ after(f, q) = b
  BY <1>7, LastWritten
<1>9. p = wrote(g, v) /\ q = wroteAll(g, v, a, b)
  BY <1>1, <1>4, <1>6 DEF wrote, wroteAll
<1> QED
  BY <1>7, <1>8, <1>9

\* What the published objects prove of a pending operation is proven.
LEMMA ProvesTarget ==
  ASSUME variant \in Variants, NEW f, NEW e \in Execution, NEW phase \in Phases, NEW i \in Nat,
         NEW seen, NEW private, seen \subseteq f.disk, Closed(f.disk),
         proven(e.stage, f.disk), proves(f, e, phase, seen, private)
  PROVE  /\ proven(reconstructed(e, phase, i).stage, f.disk)
         /\ rebuildsEvidence(f, phase) => "evidence" \in f.disk
<1>0. phase \notin {"ADVANCING_CURE", "RETAINING"} => reconstructed(e, phase, i).stage = Target[phase]
  BY Reconstructs
<1>1. CASE phase = "PREPARING"
  BY <1>0, <1>1, Targets DEF proves, proven, provenBy, rebuildsEvidence
<1>2. CASE phase = "SUBMITTING_A"
  BY <1>0, <1>2, Targets DEF proves, proven, provenBy, rebuildsEvidence
<1>3. CASE phase = "SUBMITTING_B"
  BY <1>0, <1>3, Targets DEF proves, proven, provenBy, rebuildsEvidence
<1>4. CASE phase = "FINALIZING"
  BY <1>0, <1>4, Targets DEF proves, proven, provenBy, rebuildsEvidence
<1>5. CASE phase = "EVALUATING"
  BY <1>0, <1>5, Targets DEF proves, proven, provenBy, rebuildsEvidence
<1>6. CASE phase = "RELEASING"
  BY <1>0, <1>6, Targets DEF proves, proven, provenBy, rebuildsEvidence
<1>7. CASE phase = "OPENING_RECOURSE"
  BY <1>0, <1>7, Targets DEF proves, proven, provenBy, rebuildsEvidence
<1>8. CASE phase = "EXPORTING"
  BY <1>0, <1>8, Targets DEF proves, proven, provenBy, rebuildsEvidence, Closed
<1>9. CASE phase \in {"ADVANCING_CURE", "RETAINING"}
  BY <1>9, Reconstructs DEF rebuildsEvidence
<1> QED
  BY <1>1, <1>2, <1>3, <1>4, <1>5, <1>6, <1>7, <1>8, <1>9, PhaseSet

\* Reconciliation writes sound directories and returns a proven record.
LEMMA SoundReconcile ==
  ASSUME variant \in Variants, NEW f \in SoundDirs, NEW e \in Execution, NEW i \in Nat, NEW phase,
         i # 0 => phase \in Phases, NEW seen, NEW private, seen \subseteq f.disk,
         proven(e.stage, f.disk)
  PROVE  LET r == reconcileState(f, e, i, phase, seen, private)
             g == after(f, r.steps)
         IN  /\ r.steps \in Path(SoundDirs) /\ r.exec \in Execution
             /\ g \in SoundDirs /\ f.disk \subseteq g.disk
             /\ proven(r.exec.stage, g.disk)
<1> DEFINE kept == [steps |-> <<>>, exec |-> e, refusal |-> None]
           abort == [e EXCEPT !.stage = "ABORTED"]
           h == finishOperation(f, i, "ABORTED")
           aborted == IF mayFinish(f, i)
                      THEN [steps |-> <<h, saveState(h, abort)>>, exec |-> abort, refusal |-> None]
                      ELSE [kept EXCEPT !.refusal = "replaced"]
           f1 == IF rebuildsEvidence(f, phase)
                 THEN [f EXCEPT !.disk = @ \cup {"productEvidence"}] ELSE f
           q == reconstructed(e, phase, i)
           w == saveAndFinish(f1, q, i, "RECONCILED")
           f2 == [Last(w) EXCEPT !.pledgeFiles = {}]
           f3 == [f2 EXCEPT !.keyFiles = @ \ submitter(phase)]
           recovered == IF mayFinish(f, i)
                        THEN [steps |-> <<f1>> \o w \o <<f2, f3>>, exec |-> q, refusal |-> None]
                        ELSE [steps |-> <<f1>> \o w, exec |-> q, refusal |-> "replaced"]
           Good(r) == /\ r.steps \in Path(SoundDirs) /\ r.exec \in Execution
                      /\ after(f, r.steps) \in SoundDirs
                      /\ f.disk \subseteq after(f, r.steps).disk
                      /\ proven(r.exec.stage, after(f, r.steps).disk)
<1>1. ASSUME NEW x
      PROVE  Good([steps |-> <<>>, exec |-> e, refusal |-> x])
  <2>1. after(f, <<>>) = f
    BY DEF Last, after
  <2> QED
    BY <2>1 DEF Path
<1>2. ASSUME i # 0
      PROVE  Good(aborted)
  <2>1. CASE ~mayFinish(f, i)
    BY <1>1, <2>1
  <2>2. CASE mayFinish(f, i)
    <3>1. abort \in Execution /\ abort.stage = "ABORTED"
      BY StageSet DEF Execution
    <3> PICK a, b, s : a = abort /\ b = h /\ s = saveState(b, a)
      OBVIOUS
    <3>2. b \in SoundDirs /\ b.disk = f.disk
      BY <2>2, SoundFinish, Finishes DEF Outcomes, SoundDirs
    <3>3. proven(a.stage, b.disk) /\ proven(a.stage, f.disk)
      BY <3>1 DEF proven
    <3>4. s \in SoundDirs /\ s.disk = f.disk
      BY <3>1, <3>2, <3>3, SoundSave, Saves DEF SoundDirs
    <3>5. after(f, <<b, s>>) = s
      BY DEF Last, after
    <3>6. aborted = [steps |-> <<b, s>>, exec |-> a, refusal |-> None]
      BY <2>2
    <3> QED
      BY <3>1, <3>2, <3>3, <3>4, <3>5, <3>6 DEF Path
  <2> QED
    BY <2>1, <2>2
<1>3. ASSUME i # 0, proves(f, e, phase, seen, private)
      PROVE  Good(recovered)
  <2>1. Closed(f.disk) /\ f \in Directory
    BY DEF SoundDirs, Sound
  <2>2. q \in Execution /\ proven(q.stage, f.disk)
    BY <1>3, <2>1, Reconstructs, ProvesTarget
  <2> PICK g, x : g = f1 /\ x = q
    OBVIOUS
  <2>3. g \in SoundDirs /\ f.disk \subseteq g.disk
    <3>1. CASE ~rebuildsEvidence(f, phase)
      BY <3>1
    <3>2. CASE rebuildsEvidence(f, phase)
      <4>1. "evidence" \in f.disk
        BY <1>3, <2>1, <3>2, ProvesTarget
      <4>2. Closed(f.disk \cup {"productEvidence"})
        BY <2>1, <4>1 DEF Closed
      <4>3. g = published(f, "productEvidence")
        BY <3>2 DEF published
      <4> QED
        BY <4>2, <4>3, SoundPublish DEF Artifacts
    <3> QED
      BY <3>1, <3>2
  <2>4. proven(x.stage, g.disk)
    BY <2>2, <2>3, StaysProven
  <2> PICK v : v = saveAndFinish(g, x, i, "RECONCILED")
    OBVIOUS
  <2> HIDE DEF recovered, w, f1, q, Good
  <2>5. v \in Path(SoundDirs) /\ v # <<>> /\ Last(v) \in SoundDirs /\ Last(v).disk = g.disk
    BY <2>2, <2>3, <2>4, SoundSaveAndFinish
  <2> PICK g2, g3 : g2 = [Last(v) EXCEPT !.pledgeFiles = {}]
                    /\ g3 = [g2 EXCEPT !.keyFiles = @ \ submitter(phase)]
    OBVIOUS
  <2>6. g2 \in SoundDirs /\ g2.disk = g.disk
    BY <2>5, SoundFiles DEF SoundDirs, Directory
  <2>7. g3 \in SoundDirs /\ g3.disk = g.disk
    <3>1. g2.keyFiles \ submitter(phase) \in SUBSET Roles
      BY <2>6 DEF SoundDirs, Directory
    <3>2. g3 \in SoundDirs
      BY <2>6, <3>1, SoundFiles
    <3>3. g3.disk = g2.disk
      BY <2>6 DEF SoundDirs, Directory
    <3> QED
      BY <2>6, <3>2, <3>3
  <2>8. CASE mayFinish(f, i)
    <3> PICK u : u = wroteAll(g, v, g2, g3)
      OBVIOUS
    <3>1. recovered = [steps |-> u, exec |-> x, refusal |-> None]
      BY <2>8 DEF recovered, w, f1, q, wroteAll
    <3>2. u \in Path(SoundDirs) /\ after(f, u) = g3
      BY <2>3, <2>5, <2>6, <2>7, Recovery
    <3> QED
      BY <2>2, <2>3, <2>4, <2>7, <3>1, <3>2 DEF Good
  <2>9. CASE ~mayFinish(f, i)
    <3> PICK u : u = wrote(g, v)
      OBVIOUS
    <3>1. recovered = [steps |-> u, exec |-> x, refusal |-> "replaced"]
      BY <2>9 DEF recovered, w, f1, q, wrote
    <3>2. u \in Path(SoundDirs) /\ after(f, u) = Last(v)
      BY <2>3, <2>5, <2>6, <2>7, Recovery
    <3> QED
      BY <2>2, <2>3, <2>4, <2>5, <3>1, <3>2 DEF Good
  <2> QED
    BY <2>8, <2>9
<1>4. LET r == reconcileState(f, e, i, phase, seen, private)
      IN  \/ \E x : r = [steps |-> <<>>, exec |-> e, refusal |-> x]
          \/ i # 0 /\ r = aborted
          \/ i # 0 /\ proves(f, e, phase, seen, private) /\ r = recovered
  <2> HIDE DEF aborted, recovered
  <2>1. \A x : [kept EXCEPT !.refusal = x] = [steps |-> <<>>, exec |-> e, refusal |-> x]
    OBVIOUS
  <2>2. LET r == reconcileState(f, e, i, phase, seen, private)
        IN  \/ r = kept
            \/ \E x : r = [kept EXCEPT !.refusal = x]
            \/ i # 0 /\ r = aborted
            \/ i # 0 /\ proves(f, e, phase, seen, private) /\ r = recovered
    BY DEF reconcileState, aborted, recovered
  <2> QED
    BY <2>1, <2>2
<1> HIDE DEF aborted, recovered
<1> QED
  BY <1>1, <1>2, <1>3, <1>4

-----------------------------------------------------------------------------
\* What the child programs publish.

lacking(o, d) == IF o \in d THEN <<>> ELSE <<o>>

\* The elements of a concatenation.
LEMMA Elements ==
  ASSUME NEW S, NEW v \in Path(S), NEW w \in Path(S)
  PROVE  ToSet(v \o w) = ToSet(v) \cup ToSet(w)
<1>1. /\ Len(v) \in Nat /\ Len(w) \in Nat /\ Len(v \o w) = Len(v) + Len(w)
      /\ DOMAIN v = 1 .. Len(v) /\ DOMAIN w = 1 .. Len(w) /\ DOMAIN (v \o w) = 1 .. Len(v) + Len(w)
  BY DEF Path
<1>2. \A i \in 1 .. Len(v) : (v \o w)[i] = v[i]
  BY DEF Path
<1>3. \A i \in 1 .. Len(w) : (v \o w)[Len(v) + i] = w[i]
  BY DEF Path
<1>4. ASSUME NEW x \in ToSet(v \o w)
      PROVE  x \in ToSet(v) \cup ToSet(w)
  <2>1. PICK i \in 1 .. Len(v) + Len(w) : x = (v \o w)[i]
    BY <1>1, <1>4 DEF ToSet
  <2>2. CASE i <= Len(v)
    BY <1>1, <1>2, <2>1, <2>2 DEF ToSet
  <2>3. CASE i > Len(v)
    <3>1. i - Len(v) \in 1 .. Len(w) /\ Len(v) + (i - Len(v)) = i
      BY <1>1, <2>1, <2>3
    <3>2. x = w[i - Len(v)]
      BY <1>3, <2>1, <3>1
    <3> QED
      BY <1>1, <3>1, <3>2 DEF ToSet
  <2> QED
    BY <1>1, <2>1, <2>2, <2>3
<1>5. ToSet(v) \subseteq ToSet(v \o w)
  <2> SUFFICES ASSUME NEW i \in 1 .. Len(v)
               PROVE  v[i] \in ToSet(v \o w)
    BY <1>1 DEF ToSet
  <2>1. i \in 1 .. Len(v) + Len(w)
    BY <1>1
  <2> QED
    BY <1>1, <1>2, <2>1 DEF ToSet
<1>6. ToSet(w) \subseteq ToSet(v \o w)
  <2> SUFFICES ASSUME NEW i \in 1 .. Len(w)
               PROVE  w[i] \in ToSet(v \o w)
    BY <1>1 DEF ToSet
  <2>1. Len(v) + i \in 1 .. Len(v) + Len(w)
    BY <1>1
  <2> QED
    BY <1>1, <1>3, <2>1 DEF ToSet
<1> QED
  BY <1>4, <1>5, <1>6

\* An object that may be lacking.
LEMMA Lacking ==
  ASSUME NEW o, NEW S, o \in S, NEW d
  PROVE  /\ lacking(o, d) \in Path(S) /\ ToSet(lacking(o, d)) \subseteq {o}
         /\ o \in d \cup ToSet(lacking(o, d))
         /\ o \notin d => o \in ToSet(lacking(o, d))
<1>1. CASE o \in d
  BY <1>1 DEF lacking, Path, ToSet
<1>2. CASE o \notin d
  BY <1>2 DEF lacking, Path, ToSet
<1> QED
  BY <1>1, <1>2

\* Two and three of them.
LEMMA LackingTwo ==
  ASSUME NEW o \in Artifacts, NEW p \in Artifacts, NEW d
  PROVE  /\ lacking(o, d) \o lacking(p, d) \in Path(Artifacts)
         /\ ToSet(lacking(o, d) \o lacking(p, d)) \subseteq {o, p}
         /\ p \in d \cup ToSet(lacking(o, d) \o lacking(p, d))
<1>1. PICK v, w : v = lacking(o, d) /\ w = lacking(p, d)
  OBVIOUS
<1>2. /\ v \in Path(Artifacts) /\ w \in Path(Artifacts) /\ ToSet(v) \subseteq {o}
      /\ ToSet(w) \subseteq {p} /\ p \in d \cup ToSet(w)
  BY <1>1, Lacking
<1>3. v \o w \in Path(Artifacts) /\ ToSet(v \o w) = ToSet(v) \cup ToSet(w)
  BY <1>2, Concatenates, Elements
<1>4. PICK x : x = v \o w
  OBVIOUS
<1>5. x \in Path(Artifacts) /\ ToSet(x) \subseteq {o, p} /\ p \in d \cup ToSet(x)
  BY <1>2, <1>3, <1>4
<1> QED
  BY <1>1, <1>4, <1>5

\* What a child has to publish is of its phase, and ends it.
LEMMA Publications ==
  ASSUME variant \in Variants, NEW phase \in Phases \ {"ADVANCING_CURE"}, NEW d
  PROVE  /\ publications(phase, d) \in Seq(Artifacts)
         /\ ToSet(publications(phase, d)) \subseteq objects(phase)
         /\ ends(phase, d \cup ToSet(publications(phase, d)))
<1>0. /\ {"partialFoundation", "foundation", "signatureA", "submissionA", "enrollmentA",
          "signatureB", "submissionB", "enrollmentB", "manifest"} \subseteq Artifacts
      /\ {"evaluationAdmitted", "resultCiphertext", "evaluation", "releaseAdmitted",
          "retainedResult", "result", "releaseConsumed"} \subseteq Artifacts
      /\ {"clock", "record", "attestation", "evidence", "retained"} \subseteq Artifacts
  BY DEF Artifacts
<1>1. CASE phase = "PREPARING"
  <2>1. publications(phase, d) = <<"partialFoundation", "foundation">>
    BY <1>1 DEF publications
  <2>2. ToSet(<<"partialFoundation", "foundation">>) = {"partialFoundation", "foundation"}
    BY DEF ToSet
  <2> QED
    <3>1. publications(phase, d) \in Seq(Artifacts)
      BY <1>0, <2>1
    <3>2. ToSet(publications(phase, d)) = objects(phase)
      BY <1>1, <2>1, <2>2 DEF objects
    <3>3. provenBy(Target[phase]) \cap objects(phase) # {}
      BY <1>1, Targets DEF objects, provenBy
    <3>4. ends(phase, d \cup objects(phase))
      BY <1>1, <3>3 DEF ends
    <3> QED
      BY <3>1, <3>2, <3>4
<1>2. CASE phase = "SUBMITTING_A"
  <2>1. publications(phase, d) = <<"signatureA", "submissionA", "enrollmentA">>
    BY <1>2 DEF publications
  <2>2. ToSet(<<"signatureA", "submissionA", "enrollmentA">>) = {"signatureA", "submissionA", "enrollmentA"}
    BY DEF ToSet
  <2> QED
    <3>1. publications(phase, d) \in Seq(Artifacts)
      BY <1>0, <2>1
    <3>2. ToSet(publications(phase, d)) = objects(phase)
      BY <1>2, <2>1, <2>2 DEF objects
    <3>3. provenBy(Target[phase]) \cap objects(phase) # {}
      BY <1>2, Targets DEF objects, provenBy
    <3>4. ends(phase, d \cup objects(phase))
      BY <1>2, <3>3 DEF ends
    <3> QED
      BY <3>1, <3>2, <3>4
<1>3. CASE phase = "SUBMITTING_B"
  <2>1. publications(phase, d) = <<"signatureB", "submissionB", "enrollmentB">>
    BY <1>3 DEF publications
  <2>2. ToSet(<<"signatureB", "submissionB", "enrollmentB">>) = {"signatureB", "submissionB", "enrollmentB"}
    BY DEF ToSet
  <2> QED
    <3>1. publications(phase, d) \in Seq(Artifacts)
      BY <1>0, <2>1
    <3>2. ToSet(publications(phase, d)) = objects(phase)
      BY <1>3, <2>1, <2>2 DEF objects
    <3>3. provenBy(Target[phase]) \cap objects(phase) # {}
      BY <1>3, Targets DEF objects, provenBy
    <3>4. ends(phase, d \cup objects(phase))
      BY <1>3, <3>3 DEF ends
    <3> QED
      BY <3>1, <3>2, <3>4
<1>4. CASE phase = "FINALIZING"
  <2>1. publications(phase, d) = <<"manifest">>
    BY <1>4 DEF publications
  <2>2. ToSet(<<"manifest">>) = {"manifest"}
    BY DEF ToSet
  <2> QED
    <3>1. publications(phase, d) \in Seq(Artifacts)
      BY <1>0, <2>1
    <3>2. ToSet(publications(phase, d)) = objects(phase)
      BY <1>4, <2>1, <2>2 DEF objects
    <3>3. provenBy(Target[phase]) \cap objects(phase) # {}
      BY <1>4, Targets DEF objects, provenBy
    <3>4. ends(phase, d \cup objects(phase))
      BY <1>4, <3>3 DEF ends
    <3> QED
      BY <3>1, <3>2, <3>4
<1>5. CASE phase = "EVALUATING"
  <2>1. publications(phase, d) = <<"evaluationAdmitted", "resultCiphertext", "evaluation">>
    BY <1>5 DEF publications
  <2>2. ToSet(<<"evaluationAdmitted", "resultCiphertext", "evaluation">>)
            = {"evaluationAdmitted", "resultCiphertext", "evaluation"}
    BY DEF ToSet
  <2> QED
    <3>1. publications(phase, d) \in Seq(Artifacts)
      BY <1>0, <2>1
    <3>2. ToSet(publications(phase, d)) = objects(phase)
      BY <1>5, <2>1, <2>2 DEF objects
    <3>3. provenBy(Target[phase]) \cap objects(phase) # {}
      BY <1>5, Targets DEF objects, provenBy
    <3>4. ends(phase, d \cup objects(phase))
      BY <1>5, <3>3 DEF ends
    <3> QED
      BY <3>1, <3>2, <3>4
<1>6. CASE phase = "RELEASING"
  <2> DEFINE L == lacking("releaseAdmitted", d)
             K == lacking("retainedResult", d)
             R == lacking("result", d)
             C == lacking("releaseConsumed", d)
  <2>0. SUFFICES /\ publications(phase, d) \in Path(Artifacts)
                 /\ ToSet(publications(phase, d)) \subseteq
                        {"releaseAdmitted", "retainedResult", "result", "releaseConsumed"}
                 /\ "result" \in d \cup ToSet(publications(phase, d))
    BY <1>6, Targets DEF objects, ends, provenBy, Path
  <2>1. CASE variant.coalition /\ "result" \in d
    <3>1. publications(phase, d) = <<>>
      BY <1>6, <2>1 DEF publications
    <3> QED
      BY <2>1, <3>1 DEF Path, ToSet
  <2>2. CASE variant.coalition /\ "result" \notin d
    <3>1. publications(phase, d) = L \o <<"result">> \o C
      BY <1>6, <2>2 DEF publications, lacking
    <3>2. PICK v, w, x : v = L /\ w = <<"result">> /\ x = C
      OBVIOUS
    <3>3. v \in Path(Artifacts) /\ x \in Path(Artifacts)
      BY <3>2, Lacking, <1>0
    <3>4. ToSet(v) \subseteq {"releaseAdmitted"} /\ ToSet(x) \subseteq {"releaseConsumed"}
      BY <3>2, Lacking, <1>0
    <3>5. w \in Path(Artifacts)
      BY <1>0, <3>2 DEF Path
    <3>6. ToSet(w) = {"result"}
      BY <3>2 DEF ToSet
    <3>7. v \o w \in Path(Artifacts) /\ ToSet(v \o w) = ToSet(v) \cup ToSet(w)
      BY <3>3, <3>5, Concatenates, Elements
    <3>8. PICK y : y = v \o w
      OBVIOUS
    <3>9. y \in Path(Artifacts)
      BY <3>7, <3>8
    <3>10. y \o x \in Path(Artifacts) /\ ToSet(y \o x) = ToSet(y) \cup ToSet(x)
      BY <3>3, <3>9, Concatenates, Elements
    <3>11. publications(phase, d) = y \o x
      BY <3>1, <3>2, <3>8
    <3>12. ToSet(y) = ToSet(v) \cup ToSet(w)
      BY <3>7, <3>8
    <3> QED
      BY <3>4, <3>6, <3>10, <3>11, <3>12
  <2>3. CASE ~variant.coalition
    <3>1. publications(phase, d) = L \o K \o R
      BY <1>6, <2>3 DEF publications, lacking
    <3>2. PICK y, x : y = L \o K /\ x = R
      OBVIOUS
    <3>3. y \in Path(Artifacts) /\ ToSet(y) \subseteq {"releaseAdmitted", "retainedResult"}
      BY <3>2, LackingTwo, <1>0
    <3>4. x \in Path(Artifacts) /\ ToSet(x) \subseteq {"result"} /\ "result" \in d \cup ToSet(x)
      BY <3>2, Lacking, <1>0
    <3>5. y \o x \in Path(Artifacts) /\ ToSet(y \o x) = ToSet(y) \cup ToSet(x)
      BY <3>3, <3>4, Concatenates, Elements
    <3>6. publications(phase, d) = y \o x
      BY <3>1, <3>2
    <3> QED
      BY <3>3, <3>4, <3>5, <3>6
  <2> QED
    BY <2>1, <2>2, <2>3
<1>7. CASE phase = "OPENING_RECOURSE"
  <2>1. CASE variant.truth
    <3>1. publications(phase, d) = lacking("clock", d) \o lacking("record", d)
      BY <1>7, <2>1 DEF publications, lacking
    <3>2. /\ publications(phase, d) \in Path(Artifacts)
          /\ ToSet(publications(phase, d)) \subseteq {"clock", "record"}
          /\ "record" \in d \cup ToSet(publications(phase, d))
      BY <3>1, LackingTwo, <1>0
    <3> QED
      BY <1>7, <3>2 DEF objects, ends, Path
  <2>2. CASE ~variant.truth
    <3>1. publications(phase, d) = <<>>
      BY <1>7, <2>2 DEF publications
    <3> QED
      <4>1. <<>> \in Seq(Artifacts) /\ ToSet(<<>>) = {}
        BY DEF ToSet
      <4>2. ends(phase, d)
        BY <1>7, <2>2 DEF ends
      <4>3. d \cup {} = d
        OBVIOUS
      <4> QED
        BY <3>1, <4>1, <4>2, <4>3
  <2> QED
    BY <2>1, <2>2
<1>8. CASE phase = "EXPORTING"
  <2>1. publications(phase, d) = lacking("attestation", d) \o lacking("evidence", d)
    BY <1>8 DEF publications, lacking
  <2>2. /\ publications(phase, d) \in Path(Artifacts)
        /\ ToSet(publications(phase, d)) \subseteq {"attestation", "evidence"}
        /\ "evidence" \in d \cup ToSet(publications(phase, d))
    BY <2>1, LackingTwo, <1>0
  <2> QED
    BY <1>8, <2>2, Targets DEF objects, ends, Path, provenBy
<1>9. CASE phase = "RETAINING"
  <2>1. publications(phase, d) = lacking("retained", d)
    BY <1>9 DEF publications, lacking
  <2>2. publications(phase, d) \in Path(Artifacts) /\ ToSet(publications(phase, d)) \subseteq {"retained"}
    BY <2>1, Lacking, <1>0
  <2> QED
    BY <1>9, <2>2 DEF objects, ends, Path
<1> QED
  BY <1>1, <1>2, <1>3, <1>4, <1>5, <1>6, <1>7, <1>8, <1>9, PhaseSet

\* The objects of a phase come after the ones its stage is proven by.
LEMMA ClosedUnder ==
  ASSUME NEW phase \in Phases \ {"ADVANCING_CURE"}, NEW d, Closed(d), NEW O,
         O \subseteq objects(phase), \E s \in sources(phase) : proven(s, d)
  PROVE  Closed(d \cup O)
<1>1. CASE phase = "PREPARING"
  BY <1>1 DEF objects, Closed
<1>2. CASE phase = "SUBMITTING_A"
  BY <1>2 DEF objects, Closed, sources, proven, provenBy
<1>3. CASE phase = "SUBMITTING_B"
  BY <1>3 DEF objects, Closed, sources, proven, provenBy
<1>4. CASE phase = "FINALIZING"
  BY <1>4 DEF objects, Closed, sources, proven, provenBy
<1>5. CASE phase = "EVALUATING"
  BY <1>5 DEF objects, Closed, sources, proven, provenBy
<1>6. CASE phase = "RELEASING"
  BY <1>6 DEF objects, Closed, sources, proven, provenBy
<1>7. CASE phase = "OPENING_RECOURSE"
  BY <1>7 DEF objects, Closed, sources, proven, provenBy
<1>8. CASE phase = "EXPORTING"
  BY <1>8 DEF objects, Closed, sources, proven, provenBy
<1>9. CASE phase = "RETAINING"
  BY <1>9 DEF objects, Closed
<1> QED
  BY <1>1, <1>2, <1>3, <1>4, <1>5, <1>6, <1>7, <1>8, <1>9, PhaseSet

-----------------------------------------------------------------------------
\* The continuations write sound directories.

\* One more write after a path.
LEMMA Extends ==
  ASSUME NEW S, NEW x \in S, NEW v \in Path(S), NEW w \in Path(S)
  PROVE  /\ v \o w \in Path(S)
         /\ w # <<>> => after(x, v \o w) = Last(w) /\ Last(w) \in S
<1>1. v \o w \in Path(S) /\ (w # <<>> => v \o w # <<>> /\ Last(v \o w) = Last(w) /\ Last(w) \in S)
  BY Concatenates
<1>2. PICK u : u = v \o w
  OBVIOUS
<1>3. u \in Path(S) /\ (u # <<>> => after(x, u) = Last(u))
  BY <1>1, <1>2, LastWritten
<1> QED
  BY <1>1, <1>2, <1>3

\* A role's key, and the settlement profile.
LEMMA SoundKey ==
  ASSUME NEW f \in SoundDirs, NEW r \in Roles
  PROVE  /\ rawParticipantKey(f, r) \in SoundDirs /\ rawParticipantKey(f, r).disk = f.disk
         /\ ensureCoalitionSettlementProfileCommitted(f) \in SoundDirs
         /\ ensureCoalitionSettlementProfileCommitted(f).disk = f.disk
         /\ ensureCoalitionSettlementProfileCommitted(f).exec = f.exec
<1>1. f \in Directory /\ f.keyFiles \cup {r} \in SUBSET Roles
  BY DEF SoundDirs, Directory
<1>2. PICK K : K = f.keyFiles \cup {r}
  OBVIOUS
<1>3. [f EXCEPT !.keyFiles = K] \in SoundDirs /\ [f EXCEPT !.profile = TRUE] \in SoundDirs
  BY <1>1, <1>2, SoundFiles
<1>4. /\ [f EXCEPT !.keyFiles = K].disk = f.disk /\ [f EXCEPT !.profile = TRUE].disk = f.disk
      /\ [f EXCEPT !.profile = TRUE].exec = f.exec
  BY <1>1 DEF Directory
<1> QED
  BY <1>2, <1>3, <1>4 DEF rawParticipantKey, ensureCoalitionSettlementProfileCommitted

\* The operations that begin a phase.
Works == {"prepare", "submitA", "submitB", "evaluate", "release", "recourse", "cure", "export", "retain"}

\* An admissible operation begins a phase at one of its stages.
LEMMA PhaseBegun ==
  ASSUME NEW op, NEW f, NEW e \in Execution, admissible(op, f, e), op \notin {"claimA", "claimB"}
  PROVE  /\ op \in Works /\ PhaseOf(op, e) \in Phases
         /\ e.stage \in sources(PhaseOf(op, e))
         /\ op = "cure" <=> PhaseOf(op, e) = "ADVANCING_CURE"
         /\ op = "evaluate" <=> PhaseOf(op, e) = "EVALUATING"
<1>1. op \in Works
  BY DEF admissible, Works
<1>2. CASE op = "prepare"
  BY <1>2, PhaseSet DEF admissible, Works, PhaseOf, sources
<1>3. CASE op = "submitA"
  BY <1>3, PhaseSet DEF admissible, Works, PhaseOf, sources
<1>4. CASE op = "submitB"
  BY <1>4, PhaseSet DEF admissible, Works, PhaseOf, sources
<1>5. CASE op = "evaluate"
  BY <1>5, PhaseSet DEF admissible, Works, PhaseOf, sources
<1>6. CASE op = "release"
  BY <1>6, PhaseSet DEF admissible, Works, PhaseOf, sources
<1>7. CASE op = "recourse"
  BY <1>7, PhaseSet DEF admissible, Works, PhaseOf, sources
<1>8. CASE op = "cure"
  BY <1>8, PhaseSet DEF admissible, Works, PhaseOf, sources
<1>9. CASE op = "export"
  BY <1>9, PhaseSet DEF admissible, Works, PhaseOf, sources
<1>10. CASE op = "retain"
  BY <1>10, PhaseSet DEF admissible, Works, PhaseOf, sources
<1> QED
  BY <1>1, <1>2, <1>3, <1>4, <1>5, <1>6, <1>7, <1>8, <1>9, <1>10 DEF Works

\* The writes before the child.
LEMMA SoundBeginning ==
  ASSUME NEW f \in SoundDirs, NEW op, NEW e \in Execution, PhaseOf(op, e) \in Phases
  PROVE  LET b == beginning(op, f, e)
         IN  /\ b \in Path(SoundDirs) /\ b # <<>> /\ Last(b) \in SoundDirs /\ Last(b).disk = f.disk
<1>1. PICK phase : phase = PhaseOf(op, e)
  OBVIOUS
<1>2. PICK g : g = IF op = "evaluate" THEN ensureCoalitionSettlementProfileCommitted(f) ELSE f
  OBVIOUS
<1>3. g \in SoundDirs /\ g.disk = f.disk
  <2>1. "A" \in Roles
    BY DEF Roles
  <2> QED
    BY <1>2, <2>1, SoundKey
<1>4. PICK b : b = beginOperation(g, phase)
  OBVIOUS
<1>5. b \in SoundDirs /\ b.disk = f.disk
  BY <1>1, <1>3, <1>4, SoundBegin
<1>6. PICK a, c : a = rawParticipantKey(b, "A") /\ c = rawParticipantKey(a, "B")
  OBVIOUS
<1>7. a \in SoundDirs /\ a.disk = f.disk /\ c \in SoundDirs /\ c.disk = f.disk
  <2>1. "A" \in Roles /\ "B" \in Roles
    BY DEF Roles
  <2>2. a \in SoundDirs /\ a.disk = f.disk
    BY <1>5, <1>6, <2>1, SoundKey
  <2> QED
    BY <1>6, <2>1, <2>2, SoundKey
<1>8. PICK p : p = [b EXCEPT !.pledgeFiles = @ \cup {roleOf(op)}]
  OBVIOUS
<1>9. p \in SoundDirs /\ p.disk = f.disk
  <2>1. b \in Directory /\ b.pledgeFiles \cup {roleOf(op)} \in SUBSET Roles
    BY <1>5 DEF SoundDirs, Directory, roleOf, Roles
  <2>2. PICK P : P = b.pledgeFiles \cup {roleOf(op)}
    OBVIOUS
  <2>3. [b EXCEPT !.pledgeFiles = P] \in SoundDirs
    BY <1>5, <2>1, <2>2, SoundFiles
  <2>4. [b EXCEPT !.pledgeFiles = P].disk = b.disk
    BY <2>1 DEF Directory
  <2> QED
    BY <1>5, <1>8, <2>2, <2>3, <2>4
<1>10. beginning(op, f, e) = CASE phase = "PREPARING" -> <<b, a, c>>
                               [] phase \in {"SUBMITTING_A", "SUBMITTING_B"} -> <<b, p>>
                               [] OTHER -> <<g, b>>
  BY <1>1, <1>2, <1>4, <1>6, <1>8 DEF beginning
<1>11. <<b, a, c>> \in Path(SoundDirs) /\ <<b, a, c>> # <<>> /\ Last(<<b, a, c>>) = c
  BY <1>5, <1>7 DEF Path, Last
<1>12. /\ <<b, p>> \in Path(SoundDirs) /\ <<b, p>> # <<>> /\ Last(<<b, p>>) = p
       /\ <<g, b>> \in Path(SoundDirs) /\ <<g, b>> # <<>> /\ Last(<<g, b>>) = b
  BY <1>3, <1>5, <1>9 DEF Path, Last
<1>13. PICK u, v, w : u = <<b, a, c>> /\ v = <<b, p>> /\ w = <<g, b>>
  OBVIOUS
<1>14. /\ u \in Path(SoundDirs) /\ u # <<>> /\ Last(u) = c
       /\ v \in Path(SoundDirs) /\ v # <<>> /\ Last(v) = p
       /\ w \in Path(SoundDirs) /\ w # <<>> /\ Last(w) = b
  BY <1>11, <1>12, <1>13
<1>15. beginning(op, f, e) \in {u, v, w}
  BY <1>10, <1>13
<1> QED
  BY <1>5, <1>7, <1>9, <1>14, <1>15

\* The writes after the child.
LEMMA SoundCompleting ==
  ASSUME variant \in Variants, NEW f \in SoundDirs, NEW e \in Execution, NEW i \in Nat,
         NEW phase \in Phases \ {"ADVANCING_CURE"}, ends(phase, f.disk),
         \E s \in sources(phase) : proven(s, f.disk)
  PROVE  LET w == completing(phase, f, e, i)
         IN  /\ w \in Path(SoundDirs) /\ w # <<>> /\ Last(w) \in SoundDirs
             /\ f.disk \subseteq Last(w).disk
<1> DEFINE Good(w) == /\ w \in Path(SoundDirs) /\ w # <<>> /\ Last(w) \in SoundDirs
                      /\ f.disk \subseteq Last(w).disk
<1> SUFFICES Good(completing(phase, f, e, i))
  OBVIOUS
<1>0. f \in Directory /\ Closed(f.disk)
  BY DEF SoundDirs, Sound
<1>1. ASSUME NEW x \in SoundDirs, f.disk \subseteq x.disk
      PROVE  Good(<<x>>)
  BY <1>1 DEF Path, Last
<1>2. PICK q : q = reconstructed(e, phase, i)
  OBVIOUS
<1>3. q \in Execution /\ (phase \notin {"ADVANCING_CURE", "RETAINING"} => q.stage = Target[phase])
  BY <1>2, Reconstructs
<1>4. phase \notin {"OPENING_RECOURSE", "RETAINING"} => proven(Target[phase], f.disk)
  BY Ended
<1>5. ASSUME NEW x \in SoundDirs, f.disk \subseteq x.disk, NEW y \in Execution, proven(y.stage, x.disk)
      PROVE  Good(saveAndFinish(x, y, i, "COMPLETED"))
  BY <1>5, SoundSaveAndFinish
<1>6. ASSUME NEW x \in SoundDirs, NEW v \in Path(SoundDirs), Good(v)
      PROVE  Good(<<x>> \o v)
  <2>1. PICK y : y = <<x>>
    OBVIOUS
  <2>2. y \in Path(SoundDirs)
    BY <2>1 DEF Path
  <2>3. y \o v \in Path(SoundDirs) /\ y \o v # <<>> /\ Last(y \o v) = Last(v)
    BY <1>6, <2>2, Concatenates
  <2> QED
    BY <1>6, <2>1, <2>3
<1>7. CASE phase = "PREPARING"
  <2>1. PICK s : s = saveState(f, q)
    OBVIOUS
  <2>2. s \in SoundDirs /\ s.disk = f.disk /\ s.journal = f.journal
    BY <1>0, <1>3, <1>4, <1>7, <2>1, SoundSave, Saves
  <2>3. PICK p : p = ensureCoalitionSettlementProfileCommitted(s)
    OBVIOUS
  <2>4. p \in SoundDirs /\ p.disk = f.disk
    <3>1. "A" \in Roles
      BY DEF Roles
    <3> QED
      BY <2>2, <2>3, <3>1, SoundKey
  <2>5. p.journal = f.journal
    BY <2>2, <2>3 DEF ensureCoalitionSettlementProfileCommitted, SoundDirs, Directory
  <2>6. CASE ~mayFinish(f, i)
    <3>1. completing(phase, f, e, i) = <<s, p>> \o <<>>
      BY <1>2, <1>7, <2>1, <2>3, <2>6 DEF completing, preparePrivateMatch
    <3>2. <<s, p>> \o <<>> = <<s, p>>
      OBVIOUS
    <3>3. Good(<<s, p>>)
      BY <2>2, <2>4 DEF Path, Last
    <3> QED
      BY <3>1, <3>2, <3>3
  <2>7. CASE mayFinish(f, i)
    <3>1. mayFinish(p, i)
      BY <2>5, <2>7 DEF mayFinish, pendingOperation
    <3>2. PICK t : t = finishOperation(p, i, "COMPLETED")
      OBVIOUS
    <3>3. t \in SoundDirs /\ t.disk = f.disk
      <4>1. "COMPLETED" \in Outcomes \ {"PENDING"} /\ p \in Directory
        BY <2>4 DEF Outcomes, SoundDirs
      <4> QED
        BY <2>4, <3>1, <3>2, <4>1, SoundFinish, Finishes
    <3>4. completing(phase, f, e, i) = <<s, p>> \o <<t>>
      BY <1>2, <1>7, <2>1, <2>3, <2>7, <3>2 DEF completing, preparePrivateMatch
    <3>5. PICK x, y : x = <<s, p>> /\ y = <<t>>
      OBVIOUS
    <3>6. x \in Path(SoundDirs) /\ y \in Path(SoundDirs) /\ y # <<>> /\ Last(y) = t
      BY <2>2, <2>4, <3>3, <3>5 DEF Path, Last
    <3>7. x \o y \in Path(SoundDirs) /\ x \o y # <<>> /\ Last(x \o y) = t
      BY <3>6, Concatenates
    <3>8. completing(phase, f, e, i) = x \o y
      BY <3>4, <3>5
    <3> QED
      BY <3>3, <3>7, <3>8
  <2> QED
    BY <2>6, <2>7
<1>8. ASSUME NEW r \in Roles, phase \in {"SUBMITTING_A", "SUBMITTING_B"}
      PROVE  Good(submitParticipantPledge(r, phase, f, e, i))
  <2>1. PICK g, h : g = [f EXCEPT !.pledgeFiles = @ \ {r}] /\ h = [g EXCEPT !.keyFiles = @ \ {r}]
    OBVIOUS
  <2>2. PICK P : P = f.pledgeFiles \ {r}
    OBVIOUS
  <2>3. P \in SUBSET Roles
    BY <1>0, <2>2 DEF Directory
  <2>4. g \in SoundDirs /\ g.disk = f.disk
    <3>1. g = [f EXCEPT !.pledgeFiles = P]
      BY <2>1, <2>2
    <3>2. [f EXCEPT !.pledgeFiles = P] \in SoundDirs
      BY <2>3, SoundFiles
    <3>3. [f EXCEPT !.pledgeFiles = P].disk = f.disk
      BY <1>0 DEF Directory
    <3> QED
      BY <3>1, <3>2, <3>3
  <2>5. PICK K : K = g.keyFiles \ {r}
    OBVIOUS
  <2>6. g \in Directory /\ K \in SUBSET Roles
    BY <2>4, <2>5 DEF SoundDirs, Directory
  <2>7. h \in SoundDirs /\ h.disk = f.disk
    <3>1. h = [g EXCEPT !.keyFiles = K]
      BY <2>1, <2>5
    <3>2. [g EXCEPT !.keyFiles = K] \in SoundDirs
      BY <2>4, <2>6, SoundFiles
    <3>3. [g EXCEPT !.keyFiles = K].disk = g.disk
      BY <2>6 DEF Directory
    <3> QED
      BY <2>4, <3>1, <3>2, <3>3
  <2>8. PICK v : v = saveAndFinish(h, q, i, "COMPLETED")
    OBVIOUS
  <2>9. proven(q.stage, h.disk)
    BY <1>3, <1>4, <1>8, <2>7
  <2>10. Good(v) /\ v \in Path(SoundDirs)
    <3>1. v \in Path(SoundDirs) /\ v # <<>> /\ Last(v) \in SoundDirs /\ Last(v).disk = h.disk
      BY <1>3, <2>7, <2>8, <2>9, SoundSaveAndFinish
    <3> QED
      BY <2>7, <3>1
  <2>11. PICK y : y = <<g, h>>
    OBVIOUS
  <2>12. y \in Path(SoundDirs)
    BY <2>4, <2>7, <2>11 DEF Path
  <2>13. y \o v \in Path(SoundDirs) /\ y \o v # <<>> /\ Last(y \o v) = Last(v)
    BY <2>10, <2>12, Concatenates
  <2>14. PICK z : z = y \o v
    OBVIOUS
  <2>15. Good(z)
    BY <2>10, <2>13, <2>14
  <2>16. Good(<<f>>) /\ Good(<<g>>)
    BY <1>1, <2>4
  <2>17. submitParticipantPledge(r, phase, f, e, i) \in {<<f>>, <<g>>, z}
    BY <1>2, <2>1, <2>8, <2>11, <2>14 DEF submitParticipantPledge
  <2> HIDE DEF Good
  <2> QED
    BY <2>15, <2>16, <2>17
<1>9. CASE phase \in {"SUBMITTING_A", "SUBMITTING_B"}
  <2>1. /\ phase = "SUBMITTING_A" => completing(phase, f, e, i) = submitParticipantPledge("A", phase, f, e, i)
        /\ phase = "SUBMITTING_B" => completing(phase, f, e, i) = submitParticipantPledge("B", phase, f, e, i)
    BY DEF completing
  <2>2. "A" \in Roles /\ "B" \in Roles
    BY DEF Roles
  <2> HIDE DEF Good
  <2> QED
    BY <1>8, <1>9, <2>1, <2>2
<1>10. CASE phase \in {"FINALIZING", "EVALUATING"}
  <2>1. completing(phase, f, e, i) = saveAndFinish(f, q, i, "COMPLETED")
    BY <1>2, <1>10 DEF completing, finalizeParticipantSubmissions, evaluatePrivateConflict
  <2> HIDE DEF Good
  <2> QED
    BY <1>3, <1>4, <1>5, <1>10, <2>1
<1>11. CASE phase = "RELEASING"
  <2>1. proven("RELEASED", f.disk)
    BY <1>4, <1>11, Targets
  <2>2. PICK x, y : x = coalitionRelease(e) /\ y = governedRelease(e)
    OBVIOUS
  <2>3. x \in Execution /\ y \in Execution /\ x.stage = "RELEASED" /\ y.stage = "RELEASED"
    BY <2>2, Releases
  <2>4. completing(phase, f, e, i) \in
          {<<f>>, saveAndFinish(f, x, i, "COMPLETED"), saveAndFinish(f, y, i, "COMPLETED")}
    BY <1>11, <2>2 DEF completing, releaseCoalitionResult, releaseGovernedResult
  <2>5. Good(<<f>>) /\ Good(saveAndFinish(f, x, i, "COMPLETED")) /\ Good(saveAndFinish(f, y, i, "COMPLETED"))
    <3>1. f.disk \subseteq f.disk
      OBVIOUS
    <3> HIDE DEF Good
    <3> QED
      BY <1>1, <1>5, <2>1, <2>3, <3>1
  <2> HIDE DEF Good
  <2> QED
    BY <2>4, <2>5
<1>12. CASE phase = "OPENING_RECOURSE"
  <2>1. variant.truth => "record" \in f.disk
    BY <1>12 DEF ends
  <2>2. "result" \in f.disk
    BY <1>12 DEF sources, proven, provenBy
  <2>3. Closed(f.disk \cup {"outcome"})
    BY <1>0, <2>1, <2>2 DEF Closed
  <2>4. PICK g : g = published(f, "outcome")
    OBVIOUS
  <2>5. g \in SoundDirs /\ g.disk = f.disk \cup {"outcome"}
    <3>1. "outcome" \in Artifacts
      BY DEF Artifacts
    <3> QED
      BY <2>3, <2>4, <3>1, SoundPublish
  <2>6. PICK y : y = afterRecourse(e, variant.truth, i)
    OBVIOUS
  <2>7. y \in Execution /\ y.stage = "RECOURSE_OPENED"
    BY <2>6, Releases
  <2>8. proven(y.stage, g.disk)
    BY <2>5, <2>7 DEF proven, provenBy
  <2>9. PICK v : v = saveAndFinish(g, y, i, "COMPLETED")
    OBVIOUS
  <2>10. Good(v)
    BY <1>5, <2>5, <2>7, <2>8, <2>9
  <2>11. Good(<<g>> \o v)
    BY <1>6, <2>5, <2>10
  <2>12. completing(phase, f, e, i) = <<g>> \o v
    BY <1>12, <2>4, <2>6, <2>9 DEF completing, openRecourseCase
  <2> HIDE DEF Good
  <2> QED
    BY <2>11, <2>12
<1>13. CASE phase = "EXPORTING"
  <2>1. "evidence" \in f.disk
    BY <1>13, Targets DEF ends, provenBy
  <2>2. ASSUME NEW g \in SoundDirs, f.disk \subseteq g.disk, NEW o \in {"productEvidence", "customReceipt", "bridgeEvidence"}
        PROVE  published(g, o) \in SoundDirs /\ f.disk \subseteq published(g, o).disk
    <3>1. Closed(g.disk) /\ "evidence" \in g.disk /\ o \in Artifacts
      BY <2>1, <2>2 DEF SoundDirs, Sound, Artifacts
    <3>2. Closed(g.disk \cup {o})
      BY <2>2, <3>1 DEF Closed
    <3> QED
      BY <2>2, <3>1, <3>2, SoundPublish
  <2>3. PICK a, b, c : a = published(f, "productEvidence") /\ b = published(f, "customReceipt")
                       /\ c = published(b, "bridgeEvidence")
    OBVIOUS
  <2>4. /\ a \in SoundDirs /\ f.disk \subseteq a.disk /\ b \in SoundDirs /\ f.disk \subseteq b.disk
        /\ c \in SoundDirs /\ f.disk \subseteq c.disk
    <3>1. a \in SoundDirs /\ f.disk \subseteq a.disk /\ b \in SoundDirs /\ f.disk \subseteq b.disk
      BY <2>2, <2>3
    <3> QED
      BY <2>2, <2>3, <3>1
  <2>5. PICK w : w = IF custom THEN customReceipt(f) ELSE <<published(f, "productEvidence")>>
    OBVIOUS
  <2>6. w \in {<<a>>, <<b>>, <<b, c>>}
    BY <2>3, <2>5 DEF customReceipt
  <2>7. Good(<<a>>) /\ Good(<<b>>) /\ Good(<<b, c>>)
    BY <2>4 DEF Path, Last
  <2>8. Good(w)
    <3> HIDE DEF Good
    <3> QED
      BY <2>6, <2>7
  <2>9. PICK x : x = Last(w)
    OBVIOUS
  <2>10. x \in SoundDirs /\ f.disk \subseteq x.disk /\ proven(q.stage, x.disk)
    <3>1. proven(q.stage, f.disk)
      BY <1>3, <1>4, <1>13
    <3>2. x \in SoundDirs /\ f.disk \subseteq x.disk
      BY <2>8, <2>9
    <3> QED
      BY <3>1, <3>2, StaysProven
  <2>11. PICK v : v = saveAndFinish(x, q, i, "COMPLETED")
    OBVIOUS
  <2>12. Good(v)
    BY <1>3, <1>5, <2>10, <2>11
  <2>13. w \o v \in Path(SoundDirs) /\ w \o v # <<>> /\ Last(w \o v) = Last(v)
    BY <2>8, <2>12, Concatenates
  <2>14. completing(phase, f, e, i) = w \o v
    BY <1>2, <1>13, <2>5, <2>9, <2>11 DEF completing, exportProtectionEvidence
  <2> QED
    BY <2>12, <2>13, <2>14
<1>14. CASE phase = "RETAINING"
  <2>1. PICK t : t = finishOperation(f, i, "COMPLETED")
    OBVIOUS
  <2>2. mayFinish(f, i) => t \in SoundDirs /\ t.disk = f.disk
    <3>1. "COMPLETED" \in Outcomes \ {"PENDING"}
      BY DEF Outcomes
    <3> QED
      BY <1>0, <2>1, <3>1, SoundFinish, Finishes
  <2>3. completing(phase, f, e, i) = IF mayFinish(f, i) THEN <<t>> ELSE <<f>>
    BY <1>14, <2>1 DEF completing, retainProtectionEvidence
  <2>4. Good(<<f>>) /\ (mayFinish(f, i) => Good(<<t>>))
    BY <1>1, <2>2
  <2> HIDE DEF Good
  <2> QED
    BY <2>3, <2>4
<1> HIDE DEF Good
<1> QED
  BY <1>7, <1>9, <1>10, <1>11, <1>12, <1>13, <1>14, PhaseSet

\* An idle request relies on nothing.
LEMMA IdleRelies ==
  ASSUME NEW f
  PROVE  Idle \in Request /\ Relies(Idle, f)
<1>1. /\ Idle.at = "idle" /\ Idle.op = None /\ Idle.exec = None /\ Idle.pend = 0
      /\ Idle.phase = None /\ Idle.seen = {} /\ Idle.left = <<>>
  BY DEF Idle
<1>2. Idle \in Request
  BY DEF Idle, Request
<1>3. Relies(Idle, f)
  BY <1>1 DEF Relies
<1> QED
  BY <1>2, <1>3

\* A child that is started relies on the stage it is started at.
LEMMA ChildRelies ==
  ASSUME variant \in Variants, NEW f \in SoundDirs, NEW op \in Operations, NEW e \in Execution,
         NEW phase \in Phases \ {"ADVANCING_CURE"}, \E s \in sources(phase) : proven(s, f.disk)
  PROVE  child(op, phase, f, e) \in Request /\ Relies(child(op, phase, f, e), f)
<1>1. PICK k : k = child(op, phase, f, e)
  OBVIOUS
<1>2. /\ k.op = op /\ k.at = "child" /\ k.exec = e /\ k.pend = pendingOperation(f)
      /\ k.phase = phase /\ k.seen = {} /\ k.left = publications(phase, f.disk)
  BY <1>1 DEF child
<1>3. pendingOperation(f) \in Nat
  BY Pending DEF SoundDirs
<1>4. /\ publications(phase, f.disk) \in Seq(Artifacts)
      /\ ToSet(publications(phase, f.disk)) \subseteq objects(phase)
      /\ ends(phase, f.disk \cup ToSet(publications(phase, f.disk)))
  BY Publications
<1>5. k \in Request
  BY <1>1, <1>3, <1>4 DEF child, Request
<1>6. Relies(k, f)
  BY <1>2, <1>4 DEF Relies, SoundDirs
<1> QED
  BY <1>1, <1>5, <1>6

\* What a request may do after its inspection: nothing more, mint a key,
\* record a claim, complete the chronology or start a child.
Continues(c) ==
    LET k == call[c]
        r == reconcileState(fs, k.exec, k.pend, k.phase, k.seen, k.op \notin Readers)
        f == after(fs, r.steps)
        e == r.exec
        g == rawParticipantKey(f, roleOf(k.op))
        cl == saveState(f, [e EXCEPT !.claims = @ \cup {roleOf(k.op)}])
        phase == PhaseOf(k.op, e)
        b == beginning(k.op, f, e)
        N == afterInspection(c)
        begins == /\ r.refusal = None /\ k.op \notin Readers /\ admissible(k.op, f, e)
                  /\ k.op \notin {"claimA", "claimB"} /\ mayBegin(f, phase)
    IN  \/ N = [steps |-> r.steps, next |-> Idle]
        \/ N = [steps |-> r.steps \o <<g>>, next |-> Idle]
        \/ N = [steps |-> r.steps \o <<cl>>, next |-> Idle]
        \/ /\ begins /\ phase = "ADVANCING_CURE"
           /\ N = [steps |-> r.steps \o (b \o completeCureChronology(Last(b), e, pendingOperation(Last(b)))),
                   next |-> Idle]
        \/ /\ begins /\ phase # "ADVANCING_CURE"
           /\ N = [steps |-> r.steps \o b, next |-> child(k.op, phase, Last(b), e)]

\* It does one of them.
LEMMA Continuations ==
  ASSUME NEW c
  PROVE  Continues(c)
<1> PICK k : k = call[c]
  OBVIOUS
<1> PICK r : r = reconcileState(fs, k.exec, k.pend, k.phase, k.seen, k.op \notin Readers)
  OBVIOUS
<1> PICK f, e : f = after(fs, r.steps) /\ e = r.exec
  OBVIOUS
<1> PICK g : g = rawParticipantKey(f, roleOf(k.op))
  OBVIOUS
<1> PICK cl : cl = saveState(f, [e EXCEPT !.claims = @ \cup {roleOf(k.op)}])
  OBVIOUS
<1> PICK phase, b : phase = PhaseOf(k.op, e) /\ b = beginning(k.op, f, e)
  OBVIOUS
<1> DEFINE N == afterInspection(c)
           begins == /\ r.refusal = None /\ k.op \notin Readers /\ admissible(k.op, f, e)
                     /\ k.op \notin {"claimA", "claimB"} /\ mayBegin(f, phase)
           end == [steps |-> r.steps, next |-> Idle]
           then(w) == [end EXCEPT !.steps = r.steps \o w]
           late(w) == [then(w) EXCEPT !.next = child(k.op, phase, Last(w), e)]
<1> SUFFICES
      \/ N = [steps |-> r.steps, next |-> Idle]
      \/ N = [steps |-> r.steps \o <<g>>, next |-> Idle]
      \/ N = [steps |-> r.steps \o <<cl>>, next |-> Idle]
      \/ /\ begins /\ phase = "ADVANCING_CURE"
         /\ N = [steps |-> r.steps \o (b \o completeCureChronology(Last(b), e, pendingOperation(Last(b)))),
                 next |-> Idle]
      \/ /\ begins /\ phase # "ADVANCING_CURE"
         /\ N = [steps |-> r.steps \o b, next |-> child(k.op, phase, Last(b), e)]
  BY DEF Continues
<1>1. f = Last(<<fs>> \o r.steps)
  BY DEF after
<1>2. ASSUME NEW w
      PROVE  /\ then(w) = [steps |-> r.steps \o w, next |-> Idle]
             /\ late(w) = [steps |-> r.steps \o w, next |-> child(k.op, phase, Last(w), e)]
  <2>1. PICK z, x : z = r.steps \o w /\ x = child(k.op, phase, Last(w), e)
    OBVIOUS
  <2>2. [end EXCEPT !.steps = z] = [steps |-> z, next |-> Idle]
    OBVIOUS
  <2>3. [[steps |-> z, next |-> Idle] EXCEPT !.next = x] = [steps |-> z, next |-> x]
    OBVIOUS
  <2> QED
    BY <2>1, <2>2, <2>3, Zenon
<1> HIDE DEF end, then, late
<1>3. CASE r.refusal # None \/ k.op \in {"read", "replay"}
  <2>1. N = end
    BY <1>3 DEF afterInspection, end
  <2> QED
    BY <2>1 DEF end
<1>4. CASE r.refusal = None /\ k.op \in {"contextA", "contextB"}
  <2>1. N = then(<<g>>)
    BY <1>1, <1>4 DEF afterInspection, end, then
  <2> QED
    BY <1>2, <2>1
<1>5. CASE r.refusal = None /\ k.op \notin Readers
  <2> DEFINE X == IF alreadyDone(k.op, f, e) \/ ~admissible(k.op, f, e) THEN end
                  ELSE IF k.op \in {"claimA", "claimB"} THEN then(admitParticipantClaim(f, e, roleOf(k.op)))
                  ELSE CASE ~mayBegin(f, phase) -> end
                         [] mayBegin(f, phase) /\ phase = "ADVANCING_CURE" ->
                              then(b \o completeCureChronology(Last(b), e, pendingOperation(Last(b))))
                         [] OTHER -> late(b)
  <2>1. N = X
    BY <1>1, <1>5 DEF afterInspection, end, then, late, Readers
  <2>2. admitParticipantClaim(f, e, roleOf(k.op)) = <<cl>>
    BY DEF admitParticipantClaim
  <2>3. \/ X = end
        \/ X = then(<<cl>>)
        \/ /\ begins /\ phase = "ADVANCING_CURE"
           /\ X = then(b \o completeCureChronology(Last(b), e, pendingOperation(Last(b))))
        \/ begins /\ phase # "ADVANCING_CURE" /\ X = late(b)
    BY <1>5, <2>2
  <2> HIDE DEF X, N, begins
  <2>4. CASE X = end
    BY <2>1, <2>4 DEF end
  <2>5. CASE X = then(<<cl>>)
    BY <1>2, <2>1, <2>5
  <2>6. CASE begins /\ phase = "ADVANCING_CURE"
             /\ X = then(b \o completeCureChronology(Last(b), e, pendingOperation(Last(b))))
    BY <1>2, <2>1, <2>6
  <2>7. CASE begins /\ phase # "ADVANCING_CURE" /\ X = late(b)
    <3>1. late(b) = [steps |-> r.steps \o b, next |-> child(k.op, phase, Last(b), e)]
      BY <1>2, Zenon
    <3> QED
      BY <2>1, <2>7, <3>1, Zenon
  <2> QED
    BY <2>3, <2>4, <2>5, <2>6, <2>7
<1> QED
  BY <1>3, <1>4, <1>5 DEF Readers

\* A request after its inspection.
LEMMA SoundInspection ==
  ASSUME StageInv, NEW c \in Callers, call[c].at = "inspected"
  PROVE  LET n == afterInspection(c)
         IN  /\ n.steps \in Path(SoundDirs) /\ n.next \in Request
             /\ after(fs, n.steps) \in SoundDirs /\ Relies(n.next, after(fs, n.steps))
<1>1. PICK k : k = call[c]
  OBVIOUS
<1>2. /\ variant \in Variants /\ k \in Request /\ k.exec \in Execution /\ fs.exec # None
      /\ proven(k.exec.stage, fs.disk) /\ (k.pend # 0 => k.phase \in Phases)
      /\ k.seen \subseteq fs.disk
  BY <1>1 DEF StageInv, Relies
<1>3. fs \in SoundDirs /\ k.pend \in Nat /\ k.op \in Operations
  BY <1>1, <1>2 DEF StageInv, Sound, SoundDirs, Request, Relies
<1>4. PICK r : r = reconcileState(fs, k.exec, k.pend, k.phase, k.seen, k.op \notin Readers)
  OBVIOUS
<1>5. PICK f, e : f = after(fs, r.steps) /\ e = r.exec
  OBVIOUS
<1>6. /\ r.steps \in Path(SoundDirs) /\ e \in Execution /\ f \in SoundDirs
      /\ proven(e.stage, f.disk)
  <2>1. LET x == reconcileState(fs, k.exec, k.pend, k.phase, k.seen, k.op \notin Readers)
        IN  /\ x.steps \in Path(SoundDirs) /\ x.exec \in Execution
            /\ after(fs, x.steps) \in SoundDirs /\ proven(x.exec.stage, after(fs, x.steps).disk)
    BY <1>2, <1>3, SoundReconcile DEF after
  <2> QED
    BY <1>4, <1>5, <2>1
<1> DEFINE Good(n) == /\ n.steps \in Path(SoundDirs) /\ n.next \in Request
                      /\ after(fs, n.steps) \in SoundDirs /\ Relies(n.next, after(fs, n.steps))
<1> SUFFICES Good(afterInspection(c))
  OBVIOUS
<1>7. ASSUME NEW w \in Path(SoundDirs), w # <<>>, NEW x \in Request, Relies(x, Last(w))
      PROVE  Good([steps |-> r.steps \o w, next |-> x])
  <2>1. r.steps \o w \in Path(SoundDirs) /\ after(fs, r.steps \o w) = Last(w) /\ Last(w) \in SoundDirs
    BY <1>3, <1>6, <1>7, Extends
  <2> QED
    BY <1>7, <2>1
<1>8. Good([steps |-> r.steps, next |-> Idle])
  BY <1>5, <1>6, IdleRelies
<1>9. ASSUME NEW w \in Path(SoundDirs), w # <<>>
      PROVE  Good([steps |-> r.steps \o w, next |-> Idle])
  BY <1>7, <1>9, IdleRelies
<1>10. ASSUME NEW x \in SoundDirs
       PROVE  <<x>> \in Path(SoundDirs) /\ <<x>> # <<>>
  BY DEF Path
<1>11. roleOf(k.op) \in Roles
  BY DEF roleOf, Roles
<1>12. PICK g : g = rawParticipantKey(f, roleOf(k.op))
  OBVIOUS
<1>13. Good([steps |-> r.steps \o <<g>>, next |-> Idle])
  <2>1. g \in SoundDirs
    BY <1>6, <1>11, <1>12, SoundKey
  <2>2. <<g>> \in Path(SoundDirs) /\ <<g>> # <<>>
    BY <1>10, <2>1
  <2> HIDE DEF Good
  <2> QED
    BY <1>9, <2>2
<1>14. PICK cl : cl = saveState(f, [e EXCEPT !.claims = @ \cup {roleOf(k.op)}])
  OBVIOUS
<1>15. Good([steps |-> r.steps \o <<cl>>, next |-> Idle])
  <2>1. PICK y : y = [e EXCEPT !.claims = @ \cup {roleOf(k.op)}]
    OBVIOUS
  <2>2. y \in Execution /\ y.stage = e.stage
    BY <1>6, <1>11, <2>1 DEF Execution
  <2>3. cl \in SoundDirs
    BY <1>6, <1>14, <2>1, <2>2, SoundSave
  <2>4. <<cl>> \in Path(SoundDirs) /\ <<cl>> # <<>>
    BY <1>10, <2>3
  <2> HIDE DEF Good
  <2> QED
    BY <1>9, <2>4
<1>16. PICK phase, b : phase = PhaseOf(k.op, e) /\ b = beginning(k.op, f, e)
  OBVIOUS
<1>17. ASSUME admissible(k.op, f, e), k.op \notin {"claimA", "claimB"}
       PROVE  /\ phase \in Phases /\ e.stage \in sources(phase)
              /\ b \in Path(SoundDirs) /\ b # <<>> /\ Last(b) \in SoundDirs /\ Last(b).disk = f.disk
  <2>1. phase \in Phases /\ e.stage \in sources(phase)
    BY <1>6, <1>16, <1>17, PhaseBegun
  <2> QED
    BY <1>6, <1>16, <2>1, SoundBeginning
<1>18. ASSUME admissible(k.op, f, e), k.op \notin {"claimA", "claimB"}, phase = "ADVANCING_CURE"
       PROVE  Good([steps |-> r.steps \o (b \o completeCureChronology(Last(b), e, pendingOperation(Last(b)))),
                    next |-> Idle])
  <2>1. PICK l, y : l = Last(b) /\ y = [e EXCEPT !.stage = "CHRONOLOGY_COMPLETE"]
    OBVIOUS
  <2>2. /\ l \in SoundDirs /\ l.disk = f.disk /\ b \in Path(SoundDirs)
        /\ e.stage = "RECOURSE_OPENED"
    BY <1>17, <1>18, <2>1 DEF sources
  <2>3. y \in Execution /\ y.stage = "CHRONOLOGY_COMPLETE"
    BY <1>6, <2>1, StageSet DEF Execution
  <2>4. proven(y.stage, l.disk)
    BY <1>6, <2>2, <2>3 DEF proven, provenBy
  <2>5. pendingOperation(l) \in Nat
    BY <2>2, Pending DEF SoundDirs
  <2>6. PICK v : v = completeCureChronology(l, e, pendingOperation(l))
    OBVIOUS
  <2>7. v = saveAndFinish(l, y, pendingOperation(l), "COMPLETED")
    BY <2>1, <2>6 DEF completeCureChronology
  <2>8. v \in Path(SoundDirs) /\ v # <<>>
    BY <2>2, <2>3, <2>4, <2>5, <2>7, SoundSaveAndFinish
  <2>9. b \o v \in Path(SoundDirs) /\ b \o v # <<>>
    BY <2>2, <2>8, Concatenates
  <2>10. PICK w : w = b \o v
    OBVIOUS
  <2>11. Good([steps |-> r.steps \o w, next |-> Idle])
    <3>1. w \in Path(SoundDirs) /\ w # <<>>
      BY <2>9, <2>10
    <3> HIDE DEF Good
    <3> QED
      BY <1>9, <3>1
  <2>12. b \o completeCureChronology(Last(b), e, pendingOperation(Last(b))) = w
    BY <2>1, <2>6, <2>10
  <2> HIDE DEF Good
  <2> QED
    BY <2>11, <2>12
<1>19. ASSUME admissible(k.op, f, e), k.op \notin {"claimA", "claimB"}, phase # "ADVANCING_CURE"
       PROVE  Good([steps |-> r.steps \o b, next |-> child(k.op, phase, Last(b), e)])
  <2>1. PICK l, y : l = Last(b) /\ y = child(k.op, phase, l, e)
    OBVIOUS
  <2>2. /\ l \in SoundDirs /\ b \in Path(SoundDirs) /\ b # <<>>
        /\ phase \in Phases \ {"ADVANCING_CURE"} /\ \E s \in sources(phase) : proven(s, l.disk)
    BY <1>6, <1>17, <1>19, <2>1
  <2>3. y \in Request /\ Relies(y, l)
    BY <1>2, <1>3, <1>6, <1>19, <2>1, <2>2, ChildRelies
  <2>4. Good([steps |-> r.steps \o b, next |-> y])
    BY <1>7, <2>1, <2>2, <2>3
  <2> HIDE DEF Good
  <2> QED
    BY <2>1, <2>4
<1> DEFINE N == afterInspection(c)
<1>20. \/ N = [steps |-> r.steps, next |-> Idle]
       \/ N = [steps |-> r.steps \o <<g>>, next |-> Idle]
       \/ N = [steps |-> r.steps \o <<cl>>, next |-> Idle]
       \/ /\ admissible(k.op, f, e) /\ k.op \notin {"claimA", "claimB"} /\ phase = "ADVANCING_CURE"
          /\ N = [steps |-> r.steps \o (b \o completeCureChronology(Last(b), e, pendingOperation(Last(b)))),
                  next |-> Idle]
       \/ /\ admissible(k.op, f, e) /\ k.op \notin {"claimA", "claimB"} /\ phase # "ADVANCING_CURE"
          /\ N = [steps |-> r.steps \o b, next |-> child(k.op, phase, Last(b), e)]
  <2> HIDE DEF Good
  <2>1. Continues(c)
    BY Continuations
  <2> QED
    BY <1>1, <1>4, <1>5, <1>12, <1>14, <1>16, <2>1 DEF Continues
<1> HIDE DEF Good, N
<1> QED
  BY <1>8, <1>13, <1>15, <1>18, <1>19, <1>20 DEF N

\* A request after its child.
LEMMA SoundChild ==
  ASSUME StageInv, NEW c \in Callers, call[c].at = "child", call[c].left = <<>>
  PROVE  LET n == afterChild(c)
         IN  /\ n.steps \in Path(SoundDirs) /\ n.next \in Request
             /\ after(fs, n.steps) \in SoundDirs /\ Relies(n.next, after(fs, n.steps))
<1>1. PICK k : k = call[c]
  OBVIOUS
<1>2. /\ variant \in Variants /\ k \in Request /\ k.exec \in Execution /\ fs.exec # None
      /\ k.op \in Operations /\ k.pend \in Nat /\ k.phase \in Phases \ {"ADVANCING_CURE"}
      /\ \E s \in sources(k.phase) : proven(s, fs.disk)
      /\ ends(k.phase, fs.disk \cup ToSet(k.left))
  BY <1>1 DEF StageInv, Relies, Request
<1>3. ends(k.phase, fs.disk)
  <2>1. ToSet(k.left) = {}
    BY <1>1 DEF ToSet
  <2>2. fs.disk \cup {} = fs.disk
    OBVIOUS
  <2> QED
    BY <1>2, <2>1, <2>2
<1>4. fs \in SoundDirs
  BY <1>2 DEF StageInv, Sound, SoundDirs
<1>5. PICK w, f, b : /\ w = completing(k.phase, fs, k.exec, k.pend) /\ f = Last(w)
                     /\ b = beginOperation(f, "FINALIZING")
  OBVIOUS
<1>6. w \in Path(SoundDirs) /\ w # <<>> /\ f \in SoundDirs /\ fs.disk \subseteq f.disk
  BY <1>2, <1>3, <1>4, <1>5, SoundCompleting
<1>7. b \in SoundDirs /\ b.disk = f.disk
  BY <1>5, <1>6, SoundBegin, PhaseSet
<1> DEFINE Good(n) == /\ n.steps \in Path(SoundDirs) /\ n.next \in Request
                      /\ after(fs, n.steps) \in SoundDirs /\ Relies(n.next, after(fs, n.steps))
<1> SUFFICES Good(afterChild(c))
  OBVIOUS
<1>8. Good([steps |-> w, next |-> Idle])
  <2>1. after(fs, w) = f
    BY <1>4, <1>5, <1>6, LastWritten
  <2> QED
    BY <1>6, <2>1, IdleRelies
<1>9. ASSUME k.phase = "SUBMITTING_B"
      PROVE  Good([steps |-> w \o <<b>>, next |-> child(k.op, "FINALIZING", b, f.exec)])
  <2>1. PICK y : y = child(k.op, "FINALIZING", b, f.exec)
    OBVIOUS
  <2>2. proven("PARTICIPANT_B_PUBLISHED", b.disk)
    BY <1>3, <1>6, <1>7, <1>9, Targets, StaysProven DEF ends, proven
  <2>3. \E s \in sources("FINALIZING") : proven(s, b.disk)
    BY <2>2 DEF sources
  <2>4. f.exec \in Execution /\ "FINALIZING" \in Phases \ {"ADVANCING_CURE"}
    BY <1>6, PhaseSet DEF SoundDirs, Directory
  <2>5. y \in Request /\ Relies(y, b)
    BY <1>2, <1>7, <2>1, <2>3, <2>4, ChildRelies
  <2>6. PICK v : v = <<b>>
    OBVIOUS
  <2>7. v \in Path(SoundDirs) /\ v # <<>> /\ Last(v) = b
    BY <1>7, <2>6 DEF Path, Last
  <2>8. w \o v \in Path(SoundDirs) /\ after(fs, w \o v) = b
    BY <1>4, <1>6, <2>7, Extends
  <2>9. PICK u : u = w \o v
    OBVIOUS
  <2>10. Good([steps |-> u, next |-> y])
    BY <1>7, <2>5, <2>8, <2>9
  <2> HIDE DEF Good
  <2> QED
    BY <2>1, <2>6, <2>9, <2>10
<1>10. \/ afterChild(c) = [steps |-> w, next |-> Idle]
       \/ /\ k.phase = "SUBMITTING_B"
          /\ afterChild(c) = [steps |-> w \o <<b>>, next |-> child(k.op, "FINALIZING", b, f.exec)]
  BY <1>1, <1>5 DEF afterChild
<1> HIDE DEF Good
<1> QED
  BY <1>8, <1>9, <1>10

\* Whatever a request is ready to do.
LEMMA SoundReady ==
  ASSUME StageInv, NEW c \in Callers, NEW n \in ready(c)
  PROVE  /\ n.steps \in Path(SoundDirs) /\ n.next \in Request
         /\ after(fs, n.steps) \in SoundDirs /\ Relies(n.next, after(fs, n.steps))
<1>1. \/ call[c].at = "inspected" /\ n = afterInspection(c)
      \/ call[c].at = "child" /\ call[c].left = <<>> /\ n = afterChild(c)
  BY DEF ready
<1>2. CASE call[c].at = "inspected" /\ n = afterInspection(c)
  BY <1>2, SoundInspection
<1>3. CASE call[c].at = "child" /\ call[c].left = <<>> /\ n = afterChild(c)
  BY <1>3, SoundChild
<1> QED
  BY <1>1, <1>2, <1>3

\* A request keeps what it relies on while objects are added.
LEMMA ReliesKept ==
  ASSUME NEW k, NEW f, NEW g, Relies(k, f), f.disk \subseteq g.disk, g.exec # None
  PROVE  Relies(k, g)
<1>1. ASSUME k.at = "child"
      PROVE  /\ \E s \in sources(k.phase) : proven(s, g.disk)
             /\ ends(k.phase, g.disk \cup ToSet(k.left))
  <2>1. \E s \in sources(k.phase) : proven(s, g.disk)
    BY <1>1, StaysProven DEF Relies
  <2>2. ends(k.phase, f.disk \cup ToSet(k.left))
    BY <1>1 DEF Relies
  <2>3. f.disk \cup ToSet(k.left) \subseteq g.disk \cup ToSet(k.left)
    OBVIOUS
  <2>4. PICK d, e : d = f.disk \cup ToSet(k.left) /\ e = g.disk \cup ToSet(k.left)
    OBVIOUS
  <2>5. ends(k.phase, d) /\ d \subseteq e => ends(k.phase, e)
    BY DEF ends
  <2> QED
    BY <2>1, <2>2, <2>3, <2>4, <2>5
<1>2. ASSUME k.at \in {"inspecting", "inspected"}
      PROVE  proven(k.exec.stage, g.disk)
  BY <1>2, StaysProven DEF Relies
<1> QED
  BY <1>1, <1>2 DEF Relies

\* The invariant after a step, from what the step leaves.
LEMMA StageStep ==
  ASSUME StageInv, variant' = variant, NEW g, fs' = g, Sound(g),
         call' \in [Callers -> Request], \A c \in Callers : Relies(call'[c], g)
  PROVE  StageInv'
<1>1. Sound(fs)'
  BY DEF Sound, Closed, pendingOperation, pendingPhase, proven, provenBy, Directory,
         JournalRecord, Execution
<1>2. ASSUME NEW c \in Callers
      PROVE  Relies(call[c], fs)'
  <2>1. Relies(call'[c], fs')
    OBVIOUS
  <2>2. PICK k, f : k = call'[c] /\ f = fs'
    OBVIOUS
  <2>3. Relies(k, f)
    BY <2>1, <2>2
  <2>4. \A d : ends(k.phase, d) <=> CASE k.phase = "OPENING_RECOURSE" -> variant'.truth => "record" \in d
                                      [] k.phase = "RETAINING"        -> TRUE
                                      [] OTHER                      -> provenBy(Target[k.phase]) \cap d # {}
    BY DEF ends
  <2> QED
    BY <2>2, <2>3, <2>4 DEF Relies, ends
<1> QED
  BY <1>1, <1>2 DEF StageInv, Request

\* A part of a child's objects, and the ones that are left.
LEMMA Parts ==
  ASSUME NEW S, NEW w \in Seq(S), w # <<>>, NEW v, v = <<Head(w)>> \/ v = w
  PROVE  LET l == SubSeq(w, Len(v) + 1, Len(w))
         IN  /\ l \in Seq(S)
             /\ ToSet(v) \subseteq ToSet(w) /\ ToSet(l) \subseteq ToSet(w)
             /\ ToSet(w) \subseteq ToSet(v) \cup ToSet(l)
<1> DEFINE l == SubSeq(w, Len(v) + 1, Len(w))
<1>1. Len(w) \in Nat /\ Len(w) >= 1 /\ DOMAIN w = 1 .. Len(w)
  OBVIOUS
<1>2. Len(v) = 1 \/ Len(v) = Len(w)
  OBVIOUS
<1>3. DOMAIN v = 1 .. Len(v) /\ \A i \in 1 .. Len(v) : v[i] = w[i]
  <2>1. CASE v = <<Head(w)>>
    BY <1>1, <2>1
  <2>2. CASE v = w
    BY <1>1, <2>2
  <2> QED
    BY <2>1, <2>2
<1>4. PICK n \in Nat : n = Len(v) /\ n >= 1 /\ n <= Len(w)
  <2>1. PICK m, n : m = Len(w) /\ n = Len(v)
    OBVIOUS
  <2>2. m \in Nat /\ m >= 1 /\ (n = 1 \/ n = m)
    BY <1>1, <1>2, <2>1
  <2>3. n \in Nat /\ n >= 1 /\ n <= m
    BY <2>2, SMT
  <2> QED
    BY <2>1, <2>3
<1>5. /\ SubSeq(w, n + 1, Len(w)) \in Seq(S)
      /\ Len(SubSeq(w, n + 1, Len(w))) = Len(w) - n
      /\ \A i \in 1 .. Len(w) - n : SubSeq(w, n + 1, Len(w))[i] = w[n + i]
  <2>1. PICK m : m = Len(w)
    OBVIOUS
  <2>2. m \in Nat /\ n + 1 \in 1 .. m + 1
    BY <1>1, <1>4, <2>1
  <2>3. SubSeq(w, n + 1, m) \in Seq(S)
    BY <2>1, <2>2
  <2>4. Len(SubSeq(w, n + 1, m)) = m - n
    BY <2>1, <2>2
  <2>5. \A i \in 1 .. m - n : SubSeq(w, n + 1, m)[i] = w[n + i]
    BY <2>1, <2>2
  <2> QED
    BY <2>1, <2>3, <2>4, <2>5
<1>6. PICK x : x = SubSeq(w, n + 1, Len(w))
  OBVIOUS
<1>7. /\ x \in Seq(S) /\ DOMAIN x = 1 .. Len(w) - n
      /\ \A i \in 1 .. Len(w) - n : x[i] = w[n + i]
  BY <1>5, <1>6
<1>8. ToSet(v) \subseteq ToSet(w)
  <2> SUFFICES ASSUME NEW i \in 1 .. Len(v)
               PROVE  v[i] \in ToSet(w)
    BY <1>3 DEF ToSet
  <2>1. i \in 1 .. Len(w)
    BY <1>1, <1>4
  <2> QED
    BY <1>1, <1>3, <2>1 DEF ToSet
<1>9. ToSet(x) \subseteq ToSet(w)
  <2> SUFFICES ASSUME NEW i \in 1 .. Len(w) - n
               PROVE  x[i] \in ToSet(w)
    BY <1>7 DEF ToSet
  <2>1. n + i \in 1 .. Len(w)
    BY <1>1, <1>4
  <2> QED
    BY <1>1, <1>7, <2>1 DEF ToSet
<1>10. ToSet(w) \subseteq ToSet(v) \cup ToSet(x)
  <2> SUFFICES ASSUME NEW i \in 1 .. Len(w)
               PROVE  w[i] \in ToSet(v) \cup ToSet(x)
    BY <1>1 DEF ToSet
  <2>1. CASE i <= n
    <3>1. i \in 1 .. n
      BY <2>1
    <3> QED
      BY <1>3, <1>4, <3>1 DEF ToSet
  <2>2. CASE i > n
    <3>1. i - n \in 1 .. Len(w) - n /\ n + (i - n) = i
      BY <1>1, <1>4, <2>2
    <3>2. x[i - n] = w[i]
      BY <1>7, <3>1
    <3> QED
      BY <1>7, <3>1, <3>2 DEF ToSet
  <2> QED
    BY <1>1, <1>4, <2>1, <2>2
<1> HIDE DEF l
<1>11. l = x
  BY <1>4, <1>6 DEF l
<1> QED
  BY <1>7, <1>8, <1>9, <1>10, <1>11 DEF l

\* A child publishes some of its objects.
LEMMA SoundPublication ==
  ASSUME StageInv, NEW c \in Callers, publish(c)
  PROVE  StageInv'
<1>1. PICK k : k = call[c]
  OBVIOUS
<1>2. PICK v : v = IF ChildrenFail THEN <<Head(k.left)>> ELSE k.left
  OBVIOUS
<1>3. PICK l : l = SubSeq(k.left, Len(v) + 1, Len(k.left))
  OBVIOUS
<1>4. PICK g : g = [fs EXCEPT !.disk = @ \cup ToSet(v)]
  OBVIOUS
<1>5. PICK n : n = [k EXCEPT !.left = l]
  OBVIOUS
<1>6. /\ call \in [Callers -> Request] /\ k.at = "child" /\ k.left # <<>> /\ variant \in Variants
      /\ variant' = variant
  BY <1>1 DEF StageInv, publish
<1>7. fs' = g /\ call' = [call EXCEPT ![c] = n]
  BY <1>1, <1>2, <1>3, <1>4, <1>5, <1>6 DEF publish
<1>8. /\ k \in Request /\ Relies(k, fs) /\ fs \in Directory /\ fs.exec # None /\ Closed(fs.disk)
      /\ k.left \in Seq(Artifacts)
  BY <1>1, <1>6 DEF StageInv, Relies, Sound, Request
<1>9. /\ l \in Seq(Artifacts) /\ ToSet(v) \subseteq ToSet(k.left) /\ ToSet(l) \subseteq ToSet(k.left)
      /\ ToSet(k.left) \subseteq ToSet(v) \cup ToSet(l)
  BY <1>2, <1>3, <1>6, <1>8, Parts
<1>10. /\ k.phase \in Phases \ {"ADVANCING_CURE"} /\ \E s \in sources(k.phase) : proven(s, fs.disk)
       /\ ToSet(k.left) \subseteq objects(k.phase) /\ ends(k.phase, fs.disk \cup ToSet(k.left))
  BY <1>6, <1>8 DEF Relies
<1>11. PICK d : d = fs.disk \cup ToSet(v)
  OBVIOUS
<1>12. Closed(d) /\ fs.disk \subseteq d /\ d \subseteq Artifacts
  <2>1. ToSet(v) \subseteq objects(k.phase)
    BY <1>9, <1>10
  <2>2. Closed(fs.disk \cup ToSet(v))
    BY <1>8, <1>10, <2>1, ClosedUnder
  <2>3. ToSet(k.left) \subseteq Artifacts
    BY <1>8 DEF ToSet
  <2>4. fs.disk \subseteq Artifacts
    BY <1>8 DEF Directory
  <2> QED
    BY <1>9, <1>11, <2>2, <2>3, <2>4
<1>13. /\ g \in Directory /\ g.disk = d /\ g.exec = fs.exec /\ g.journal = fs.journal
  BY <1>4, <1>8, <1>11, <1>12 DEF Directory
<1>14. Sound(g)
  <2>1. pendingOperation(g) = pendingOperation(fs) /\ pendingPhase(g) = pendingPhase(fs)
    BY <1>13 DEF pendingOperation, pendingPhase
  <2>2. proven(fs.exec.stage, d)
    BY <1>8, <1>12, StaysProven DEF StageInv, Sound
  <2>3. pendingOperation(fs) # 0 => pendingPhase(fs) \in Phases
    BY DEF StageInv, Sound
  <2> QED
    BY <1>12, <1>13, <2>1, <2>2, <2>3 DEF Sound
<1>15. /\ n \in Request /\ n.at = k.at /\ n.op = k.op /\ n.exec = k.exec /\ n.phase = k.phase
       /\ n.seen = k.seen /\ n.left = l
  BY <1>5, <1>8, <1>9 DEF Request
<1>16. Relies(k, g)
  BY <1>8, <1>12, <1>13, ReliesKept
<1>17. Relies(n, g)
  <2>1. ToSet(l) \subseteq objects(n.phase)
    BY <1>9, <1>10, <1>15
  <2>2. d \cup ToSet(k.left) = d \cup ToSet(l)
    BY <1>9, <1>11
  <2>3. ends(n.phase, g.disk \cup ToSet(n.left))
    BY <1>6, <1>13, <1>15, <1>16, <2>2 DEF Relies
  <2> QED
    BY <1>6, <1>10, <1>15, <1>16, <2>1, <2>3 DEF Relies
<1>18. call' \in [Callers -> Request] /\ \A x \in Callers : Relies(call'[x], g)
  <2>1. \A x \in Callers : Relies(call[x], g)
    BY <1>8, <1>12, <1>13, ReliesKept DEF StageInv
  <2> QED
    BY <1>6, <1>7, <1>15, <1>17, <2>1
<1> QED
  BY <1>6, <1>7, <1>14, <1>18, StageStep

\* Every step keeps the record behind what is published.
LEMMA StageNext ==
  ASSUME StageInv, [Next]_vars
  PROVE  StageInv'
<1>0. /\ variant \in Variants /\ Sound(fs) /\ fs \in Directory /\ call \in [Callers -> Request]
      /\ \A x \in Callers : Relies(call[x], fs)
  BY DEF StageInv, Sound
<1>1. CASE create
  <2>1. fs' = saveState(fs, NewExecution) /\ variant' = variant /\ call' = call /\ fs.exec = None
    BY <1>1 DEF create
  <2>2. NewExecution \in Execution /\ NewExecution.stage = "CASE_CREATED"
    BY StageSet DEF NewExecution, Execution
  <2>3. PICK g, e : g = saveState(fs, e) /\ e = NewExecution
    OBVIOUS
  <2>4. g \in Directory /\ g.exec = e /\ g.journal = fs.journal /\ g.disk = fs.disk
    BY <1>0, <2>2, <2>3, Saves
  <2>5. pendingOperation(g) = pendingOperation(fs) /\ pendingPhase(g) = pendingPhase(fs)
    BY <2>4 DEF pendingOperation, pendingPhase
  <2>6. Sound(g)
    <3>1. proven(e.stage, g.disk)
      BY <2>2, <2>3 DEF proven
    <3> QED
      BY <1>0, <2>4, <2>5, <3>1 DEF Sound
  <2>7. g.exec # None
    BY <2>2, <2>3, <2>4, NoneAssumption
  <2>8. \A x \in Callers : Relies(call[x], g)
    BY <1>0, <2>4, <2>7, ReliesKept
  <2> QED
    BY <1>0, <2>1, <2>3, <2>6, <2>8, StageStep
<1>2. ASSUME NEW r \in Roles, admitRole(r)
      PROVE  StageInv'
  <2>1. /\ fs' = [fs EXCEPT !.ledger = @ \cup {r}] /\ variant' = variant /\ call' = call
        /\ fs.exec # None
    BY <1>2 DEF admitRole
  <2>2. PICK g : g = [fs EXCEPT !.ledger = @ \cup {r}]
    OBVIOUS
  <2>3. g \in Directory /\ g.exec = fs.exec /\ g.journal = fs.journal /\ g.disk = fs.disk
    BY <1>0, <2>2 DEF Directory
  <2>4. pendingOperation(g) = pendingOperation(fs) /\ pendingPhase(g) = pendingPhase(fs)
    BY <2>3 DEF pendingOperation, pendingPhase
  <2>5. Sound(g)
    BY <1>0, <2>3, <2>4 DEF Sound
  <2>6. \A x \in Callers : Relies(call[x], g)
    BY <1>0, <2>1, <2>3, ReliesKept
  <2> QED
    BY <1>0, <2>1, <2>2, <2>5, <2>6, StageStep
<1>3. ASSUME NEW c \in Callers, NEW op \in Operations, enter(c, op)
      PROVE  StageInv'
  <2>1. variant' = variant /\ fs.exec # None /\ fs.exec \in Execution /\ fs \in SoundDirs
        /\ proven(fs.exec.stage, fs.disk)
    BY <1>0, <1>3 DEF enter, Sound, SoundDirs, Directory
  <2>2. CASE /\ fs' = saveState(fs, [fs.exec EXCEPT !.stage = "ABORTED"])
             /\ call' = call
    <3>1. PICK e, g : e = [fs.exec EXCEPT !.stage = "ABORTED"] /\ g = saveState(fs, e)
      OBVIOUS
    <3>2. e \in Execution /\ e.stage = "ABORTED"
      BY <2>1, <3>1, StageSet DEF Execution
    <3>3. proven(e.stage, fs.disk)
      BY <3>2 DEF proven
    <3>4. g \in SoundDirs
      BY <2>1, <3>1, <3>2, <3>3, SoundSave
    <3>5. Sound(g) /\ g.exec # None /\ fs.disk \subseteq g.disk
      BY <3>4 DEF SoundDirs
    <3>6. \A x \in Callers : Relies(call[x], g)
      BY <1>0, <3>5, ReliesKept
    <3> QED
      BY <1>0, <2>1, <2>2, <3>1, <3>5, <3>6, StageStep
  <2>3. CASE /\ fs' = fs
             /\ call' = [call EXCEPT ![c] =
                  [Idle EXCEPT !.op = op, !.at = "inspecting", !.exec = fs.exec,
                               !.pend = pendingOperation(fs),
                               !.phase = IF pendingOperation(fs) = 0 THEN None ELSE Last(fs.journal).phase]]
    <3>1. PICK p, i, e : /\ p = IF pendingOperation(fs) = 0 THEN None ELSE Last(fs.journal).phase
                         /\ i = pendingOperation(fs) /\ e = fs.exec
      OBVIOUS
    <3>2. i \in Nat /\ (i # 0 => p \in Phases) /\ p \in Phases \cup {None}
      BY <1>0, <3>1, Pending DEF Sound, pendingPhase
    <3>3. PICK n : n = [Idle EXCEPT !.op = op, !.at = "inspecting", !.exec = e, !.pend = i, !.phase = p]
      OBVIOUS
    <3>4. /\ n.op = op /\ n.at = "inspecting" /\ n.exec = e /\ n.pend = i /\ n.phase = p
          /\ n.seen = {} /\ n.left = <<>>
      BY <3>3 DEF Idle
    <3>5. n \in Request
      <4>1. n = [op |-> op, at |-> "inspecting", exec |-> e, pend |-> i, phase |-> p,
                 seen |-> {}, left |-> <<>>]
        BY <3>3 DEF Idle
      <4>2. e \in Execution
        BY <2>1, <3>1
      <4> QED
        BY <3>2, <4>1, <4>2 DEF Request
    <3>6. Relies(n, fs)
      BY <2>1, <3>1, <3>2, <3>4 DEF Relies
    <3>7. call' = [call EXCEPT ![c] = n]
      BY <2>3, <3>1, <3>3
    <3>8. call' \in [Callers -> Request] /\ \A x \in Callers : Relies(call'[x], fs)
      BY <1>0, <3>5, <3>6, <3>7
    <3> QED
      BY <1>0, <2>1, <2>3, <3>8, StageStep
  <2> QED
    BY <1>3, <2>2, <2>3 DEF enter
<1>4. ASSUME NEW c \in Callers, inspect(c)
      PROVE  StageInv'
  <2>1. PICK k, n : k = call[c] /\ n = [k EXCEPT !.at = "inspected", !.seen = fs.disk]
    OBVIOUS
  <2>2. /\ k \in Request /\ Relies(k, fs) /\ k.at = "inspecting" /\ fs' = fs /\ variant' = variant
        /\ call' = [call EXCEPT ![c] = n]
    BY <1>0, <1>4, <2>1 DEF inspect
  <2>3. /\ n.op = k.op /\ n.at = "inspected" /\ n.exec = k.exec /\ n.pend = k.pend /\ n.phase = k.phase
        /\ n.seen = fs.disk /\ n \in Request
    BY <1>0, <2>1, <2>2 DEF Request, Directory
  <2>4. Relies(n, fs)
    BY <2>2, <2>3 DEF Relies
  <2>5. call' \in [Callers -> Request] /\ \A x \in Callers : Relies(call'[x], fs)
    BY <1>0, <2>2, <2>3, <2>4
  <2> QED
    BY <1>0, <2>2, <2>5, StageStep
<1>5. ASSUME NEW c \in Callers, continue(c)
      PROVE  StageInv'
  <2>1. PICK n \in ready(c) : /\ fs' = Last(<<fs>> \o n.steps) /\ call' = [call EXCEPT ![c] = n.next]
                              /\ variant' = variant
    BY <1>5 DEF continue
  <2>2. PICK g : g = after(fs, n.steps)
    OBVIOUS
  <2>3. fs' = g
    BY <2>1, <2>2 DEF after
  <2>4. n.next \in Request /\ g \in SoundDirs /\ Relies(n.next, g)
    BY <2>2, SoundReady
  <2>5. Sound(g) /\ g.exec # None /\ fs.disk \subseteq g.disk
    BY <2>4 DEF SoundDirs
  <2>6. \A x \in Callers : Relies(call[x], g)
    BY <1>0, <2>5, ReliesKept
  <2>7. call' \in [Callers -> Request] /\ \A x \in Callers : Relies(call'[x], g)
    BY <1>0, <2>1, <2>4, <2>6
  <2> QED
    BY <2>1, <2>3, <2>5, <2>7, StageStep
<1>6. ASSUME NEW c \in Callers, publish(c)
      PROVE  StageInv'
  BY <1>6, SoundPublication
<1>7. ASSUME NEW c \in Callers, childFails(c)
      PROVE  StageInv'
  <2>1. fs' = fs /\ variant' = variant /\ call' = [call EXCEPT ![c] = Idle]
    BY <1>7 DEF childFails
  <2>2. call' \in [Callers -> Request] /\ \A x \in Callers : Relies(call'[x], fs)
    BY <1>0, <2>1, IdleRelies
  <2> QED
    BY <1>0, <2>1, <2>2, StageStep
<1>8. CASE Crash
  <2>1. variant' = variant /\ call' = [c \in Callers |-> Idle]
    BY <1>8 DEF Crash
  <2>2. PICK g : g = fs'
    OBVIOUS
  <2>3. Sound(g)
    <3>1. CASE fs' = fs
      BY <1>0, <2>2, <3>1
    <3>2. ASSUME NEW c \in Callers, NEW n \in ready(c), NEW i \in 1 .. Len(n.steps) - 1, fs' = n.steps[i]
          PROVE  Sound(g)
      <4>1. n.steps \in Seq(SoundDirs)
        BY SoundReady DEF Path
      <4>2. i \in 1 .. Len(n.steps)
        BY <4>1
      <4>3. n.steps[i] \in SoundDirs
        BY <4>1, <4>2
      <4> QED
        BY <2>2, <3>2, <4>3 DEF SoundDirs
    <3> QED
      BY <1>8, <3>1, <3>2 DEF Crash
  <2>4. call' \in [Callers -> Request] /\ \A x \in Callers : Relies(call'[x], g)
    BY <2>1, IdleRelies
  <2> QED
    BY <2>1, <2>2, <2>3, <2>4, StageStep
<1>9. CASE UNCHANGED vars
  <2>1. fs' = fs /\ variant' = variant /\ call' = call
    BY <1>9 DEF vars
  <2> QED
    BY <1>0, <2>1, StageStep
<1> QED
  BY <1>1, <1>2, <1>3, <1>4, <1>5, <1>6, <1>7, <1>8, <1>9 DEF Next

\* The invariant holds at first.
LEMMA StageInit ==
  ASSUME Init
  PROVE  StageInv
<1>1. /\ variant \in Variants /\ fs = EmptyDirectory /\ call = [c \in Callers |-> Idle]
  BY DEF Init
<1>2. /\ fs \in Directory /\ fs.exec = None /\ fs.disk = {} /\ fs.journal = <<>>
  BY <1>1 DEF EmptyDirectory, Directory
<1>3. pendingOperation(fs) = 0 /\ Closed(fs.disk)
  BY <1>2 DEF pendingOperation, Closed
<1>4. call \in [Callers -> Request] /\ \A c \in Callers : Relies(call[c], fs)
  BY <1>1, IdleRelies
<1> QED
  BY <1>1, <1>2, <1>3, <1>4 DEF StageInv, Sound

\* However many requests run, and whatever they read beside the lock, the
\* run directory and the requests stay in order (StageInv).
THEOREM StageInvariant == Spec => []StageInv
<1>1. Init => StageInv
  BY StageInit
<1>2. StageInv /\ [Next]_vars => StageInv'
  BY StageNext
<1> QED
  BY <1>1, <1>2, PTL DEF Spec

\* The record never claims a step whose cryptographic objects were not
\* published: for any number of callers, for children that stop between
\* two objects and for a process that is killed between any two writes.
THEOREM StageStaysProven == Spec => []StageIsProven
<1>1. ASSUME StageInv
      PROVE  StageIsProven
  <2>1. Closed(fs.disk) /\ (fs.exec # None => fs.exec \in Execution /\ proven(fs.exec.stage, fs.disk))
    BY <1>1 DEF StageInv, Sound, Directory
  <2>2. CASE fs.exec = None
    BY <2>2 DEF StageIsProven, reached
  <2>3. CASE fs.exec # None
    <3>1. PICK s, d : s = fs.exec.stage /\ d = fs.disk
      OBVIOUS
    <3>2. s \in ToSet(Stages) /\ proven(s, d) /\ Closed(d)
      BY <2>1, <2>3, <3>1 DEF Execution
    <3>3. CASE s \in {"CASE_CREATED", "ABORTED"}
      BY <3>1, <3>3, Ranks DEF StageIsProven, reached
    <3>4. CASE s = "MATCH_PREPARED"
      <4>1. "foundation" \in d
        BY <3>2, <3>4 DEF proven, provenBy
      <4> QED
        BY <3>1, <3>4, <4>1, Ranks DEF StageIsProven, reached
    <3>5. CASE s = "PARTICIPANT_A_SUBMITTED"
      <4>1. "submissionA" \in d /\ "foundation" \in d
        BY <3>2, <3>5 DEF proven, provenBy, Closed
      <4> QED
        BY <3>1, <3>5, <4>1, Ranks DEF StageIsProven, reached
    <3>6. CASE s = "PARTICIPANT_B_PUBLISHED"
      <4>1. {"submissionA", "foundation", "submissionB"} \subseteq d
        BY <3>2, <3>6 DEF proven, provenBy, Closed
      <4> QED
        BY <3>1, <3>6, <4>1, Ranks DEF StageIsProven, reached
    <3>7. CASE s = "PARTICIPANT_B_SUBMITTED"
      <4>1. {"submissionA", "foundation", "submissionB", "manifest"} \subseteq d
        BY <3>2, <3>7 DEF proven, provenBy, Closed
      <4> QED
        BY <3>1, <3>7, <4>1, Ranks DEF StageIsProven, reached
    <3>8. CASE s = "EVALUATED"
      <4>1. {"submissionA", "foundation", "submissionB", "manifest", "evaluation"} \subseteq d
        BY <3>2, <3>8 DEF proven, provenBy, Closed
      <4> QED
        BY <3>1, <3>8, <4>1, Ranks DEF StageIsProven, reached
    <3>9. CASE s = "RELEASED"
      <4>1. {"submissionA", "foundation", "submissionB", "manifest", "evaluation", "result"} \subseteq d
        BY <3>2, <3>9 DEF proven, provenBy, Closed
      <4> QED
        BY <3>1, <3>9, <4>1, Ranks DEF StageIsProven, reached
    <3>10. CASE s \in {"RECOURSE_OPENED", "CHRONOLOGY_COMPLETE", "COMPLETE"}
      <4>1. "record" \in d \/ "outcome" \in d
        BY <3>2, <3>10 DEF proven, provenBy, Closed
      <4>2. /\ {"submissionA", "foundation", "submissionB", "manifest", "evaluation", "result"} \subseteq d
            /\ variant.truth => "record" \in d
        BY <3>2, <4>1 DEF Closed
      <4>3. s = "COMPLETE" => "evidence" \in d
        BY <3>2 DEF proven, provenBy
      <4> QED
        BY <3>1, <3>10, <4>2, <4>3, Ranks DEF StageIsProven, reached
    <3> QED
      BY <3>2, <3>3, <3>4, <3>5, <3>6, <3>7, <3>8, <3>9, <3>10, StageSet
  <2> QED
    BY <2>2, <2>3
<1> QED
  BY <1>1, StageInvariant, PTL

-----------------------------------------------------------------------------
\* Requests one after the other: the writes keep the story coherent.

\* The stages from a stage on.
LEMMA Pasts ==
  ASSUME NEW e \in Execution
  PROVE  /\ past(e, "COMPLETE") = (e.stage = "COMPLETE")
         /\ past(e, "RECOURSE_OPENED") =
                (e.stage \in {"RECOURSE_OPENED", "CHRONOLOGY_COMPLETE", "COMPLETE"})
         /\ past(e, "RELEASED") =
                (e.stage \in {"RELEASED", "RECOURSE_OPENED", "CHRONOLOGY_COMPLETE", "COMPLETE"})
         /\ past(e, "EVALUATED") =
                (e.stage \in {"EVALUATED", "RELEASED", "RECOURSE_OPENED", "CHRONOLOGY_COMPLETE", "COMPLETE"})
         /\ past(e, "PARTICIPANT_B_PUBLISHED") =
                (e.stage \notin {"CASE_CREATED", "MATCH_PREPARED", "PARTICIPANT_A_SUBMITTED", "ABORTED"})
         /\ past(e, "PARTICIPANT_A_SUBMITTED") =
                (e.stage \notin {"CASE_CREATED", "MATCH_PREPARED", "ABORTED"})
         /\ past(e, "MATCH_PREPARED") = (e.stage \notin {"CASE_CREATED", "ABORTED"})
<1>1. e.stage \in ToSet(Stages)
  BY DEF Execution
<1>2. PICK s : s = e.stage
  OBVIOUS
<1>3. CASE s = "ABORTED"
  BY <1>2, <1>3 DEF past
<1>4. CASE s \in {"CASE_CREATED", "MATCH_PREPARED", "PARTICIPANT_A_SUBMITTED"}
  BY <1>2, <1>4, Ranks DEF past
<1>5. CASE s \in {"PARTICIPANT_B_PUBLISHED", "PARTICIPANT_B_SUBMITTED", "EVALUATED"}
  BY <1>2, <1>5, Ranks DEF past
<1>6. CASE s \in {"RELEASED", "RECOURSE_OPENED", "CHRONOLOGY_COMPLETE", "COMPLETE"}
  BY <1>2, <1>6, Ranks DEF past
<1> QED
  BY <1>1, <1>2, <1>3, <1>4, <1>5, <1>6, StageSet

\* Faithful, by the stages.
LEMMA FaithfulStages ==
  ASSUME NEW e \in Execution
  PROVE  Faithful(e) <=>
           (e.stage # "ABORTED" =>
              /\ e.keys = (e.stage # "CASE_CREATED")
              /\ ("A" \in e.subs) = (e.stage \notin {"CASE_CREATED", "MATCH_PREPARED"})
              /\ ("B" \in e.subs) = (e.stage \notin {"CASE_CREATED", "MATCH_PREPARED", "PARTICIPANT_A_SUBMITTED"})
              /\ e.evaluated = (e.stage \in {"EVALUATED", "RELEASED", "RECOURSE_OPENED",
                                             "CHRONOLOGY_COMPLETE", "COMPLETE"})
              /\ LET released == e.stage \in {"RELEASED", "RECOURSE_OPENED", "CHRONOLOGY_COMPLETE", "COMPLETE"}
                 IN  /\ e.release = IF released /\ ~variant.coalition THEN variant.truth ELSE None
                     /\ e.coalitionRelease = IF released /\ variant.coalition THEN variant.truth ELSE None
                     /\ e.plan = (variant.policy /\ released)
              /\ e.recourse = IF e.stage \in {"RECOURSE_OPENED", "CHRONOLOGY_COMPLETE", "COMPLETE"}
                              THEN variant.truth ELSE None
              /\ e.receipt = (e.stage = "COMPLETE"))
<1>1. CASE e.stage = "ABORTED"
  BY <1>1 DEF Faithful
<1>2. CASE e.stage # "ABORTED"
  BY <1>2, Pasts DEF Faithful
<1> QED
  BY <1>1, <1>2

\* A record a phase may be at: begun, or saved and not yet closed.
at(e, phase) == e.stage \in sources(phase) \cup {Target[phase]}

\* The stages at which a phase is pending.
LEMMA AtStages ==
  ASSUME NEW e, NEW phase \in Phases, at(e, phase)
  PROVE  /\ phase = "PREPARING" => e.stage \in {"CASE_CREATED", "MATCH_PREPARED"}
         /\ phase = "SUBMITTING_A" => e.stage \in {"MATCH_PREPARED", "PARTICIPANT_A_SUBMITTED"}
         /\ phase = "SUBMITTING_B" => e.stage \in {"PARTICIPANT_A_SUBMITTED", "PARTICIPANT_B_PUBLISHED"}
         /\ phase = "FINALIZING" => e.stage \in {"PARTICIPANT_B_PUBLISHED", "PARTICIPANT_B_SUBMITTED"}
         /\ phase = "EVALUATING" => e.stage \in {"PARTICIPANT_B_SUBMITTED", "EVALUATED"}
         /\ phase = "RELEASING" => e.stage \in {"EVALUATED", "RELEASED"}
         /\ phase = "OPENING_RECOURSE" => e.stage \in {"RELEASED", "RECOURSE_OPENED"}
         /\ phase = "ADVANCING_CURE" => e.stage \in {"RECOURSE_OPENED", "CHRONOLOGY_COMPLETE"}
         /\ phase = "EXPORTING" => e.stage \in {"RECOURSE_OPENED", "CHRONOLOGY_COMPLETE", "COMPLETE"}
         /\ phase = "RETAINING" => e.stage = "COMPLETE"
BY Targets DEF at, sources

\* Recovering a phase from its objects leaves the record that the
\* uninterrupted operation leaves.
LEMMA FaithfulReconstruction ==
  ASSUME variant \in Variants, NEW e \in Execution, NEW phase \in Phases, NEW i \in Nat, at(e, phase),
         Faithful(e), phase = "ADVANCING_CURE" => e.stage = "CHRONOLOGY_COMPLETE",
         phase = "OPENING_RECOURSE" => ~variant.coalition
  PROVE  LET q == reconstructed(e, phase, i)
         IN  q \in Execution /\ q.stage = Target[phase] /\ Faithful(q)
<1>1. PICK q : q = reconstructed(e, phase, i)
  OBVIOUS
<1>2. q \in Execution /\ q.stage = Target[phase]
  <2>1. CASE phase \in {"ADVANCING_CURE", "RETAINING"}
    BY <1>1, <2>1, Reconstructs, AtStages, Targets
  <2>2. CASE phase \notin {"ADVANCING_CURE", "RETAINING"}
    BY <1>1, <2>2, Reconstructs
  <2> QED
    BY <2>1, <2>2
<1>3. Faithful(q)
  <2>1. CASE phase = "PREPARING"
    <3>1. /\ q.keys = TRUE /\ q.subs = e.subs /\ q.evaluated = e.evaluated /\ q.release = e.release
          /\ q.coalitionRelease = e.coalitionRelease /\ q.plan = e.plan /\ q.recourse = e.recourse
          /\ q.receipt = e.receipt /\ q.stage = "MATCH_PREPARED"
      BY <1>1, <2>1, Targets DEF reconstructed, Execution
    <3>2. e.stage \in {"CASE_CREATED", "MATCH_PREPARED"}
      BY <2>1, AtStages
    <3>3. /\ "A" \notin e.subs /\ "B" \notin e.subs /\ e.evaluated = FALSE /\ e.release = None
          /\ e.coalitionRelease = None /\ e.plan = FALSE /\ e.recourse = None /\ e.receipt = FALSE
      BY <3>2, FaithfulStages DEF Execution
    <3> QED
      BY <1>2, <3>1, <3>3, FaithfulStages DEF Execution
  <2>2. CASE phase = "SUBMITTING_A"
    <3>1. /\ q.keys = e.keys /\ q.subs = e.subs \cup {"A"} /\ q.evaluated = e.evaluated
          /\ q.release = e.release /\ q.coalitionRelease = e.coalitionRelease /\ q.plan = e.plan
          /\ q.recourse = e.recourse /\ q.receipt = e.receipt /\ q.stage = "PARTICIPANT_A_SUBMITTED"
      BY <1>1, <2>2, Targets DEF reconstructed, Execution
    <3> QED
      BY <1>2, <2>2, <3>1, AtStages, FaithfulStages
  <2>3. CASE phase = "SUBMITTING_B"
    <3>1. /\ q.keys = e.keys /\ q.subs = e.subs \cup {"B"} /\ q.evaluated = e.evaluated
          /\ q.release = e.release /\ q.coalitionRelease = e.coalitionRelease /\ q.plan = e.plan
          /\ q.recourse = e.recourse /\ q.receipt = e.receipt /\ q.stage = "PARTICIPANT_B_PUBLISHED"
      BY <1>1, <2>3, Targets DEF reconstructed, Execution
    <3> QED
      BY <1>2, <2>3, <3>1, AtStages, FaithfulStages
  <2>4. CASE phase = "FINALIZING"
    <3>1. /\ q.keys = e.keys /\ q.subs = e.subs /\ q.evaluated = e.evaluated
          /\ q.release = e.release /\ q.coalitionRelease = e.coalitionRelease /\ q.plan = e.plan
          /\ q.recourse = e.recourse /\ q.receipt = e.receipt /\ q.stage = "PARTICIPANT_B_SUBMITTED"
      BY <1>1, <2>4, Targets DEF reconstructed, Execution
    <3> QED
      BY <1>2, <2>4, <3>1, AtStages, FaithfulStages
  <2>5. CASE phase = "EVALUATING"
    <3>1. /\ q.keys = e.keys /\ q.subs = e.subs /\ q.evaluated = TRUE
          /\ q.release = e.release /\ q.coalitionRelease = e.coalitionRelease /\ q.plan = e.plan
          /\ q.recourse = e.recourse /\ q.receipt = e.receipt /\ q.stage = "EVALUATED"
      BY <1>1, <2>5, Targets DEF reconstructed, Execution
    <3> QED
      BY <1>2, <2>5, <3>1, AtStages, FaithfulStages
  <2>6. CASE phase = "RELEASING" /\ variant.coalition
    <3>1. /\ q.keys = e.keys /\ q.subs = e.subs /\ q.evaluated = e.evaluated
          /\ q.release = e.release /\ q.coalitionRelease = variant.truth /\ q.plan = e.plan
          /\ q.recourse = e.recourse /\ q.receipt = e.receipt /\ q.stage = "RELEASED"
      BY <1>1, <2>6, Targets DEF reconstructed, Execution, afterRelease, coalitionRelease
    <3>2. ~variant.policy
      BY <2>6, VariantFields
    <3> QED
      BY <1>2, <2>6, <3>1, <3>2, AtStages, FaithfulStages
  <2>7. CASE phase = "RELEASING" /\ ~variant.coalition
    <3>1. /\ q.keys = e.keys /\ q.subs = e.subs /\ q.evaluated = e.evaluated
          /\ q.release = variant.truth /\ q.coalitionRelease = e.coalitionRelease
          /\ q.plan = variant.policy
          /\ q.recourse = e.recourse /\ q.receipt = e.receipt /\ q.stage = "RELEASED"
      BY <1>1, <2>7, Targets DEF reconstructed, Execution, afterRelease, governedRelease
    <3>2. variant.policy \in BOOLEAN
      BY VariantFields
    <3> QED
      BY <1>2, <2>7, <3>1, <3>2, AtStages, FaithfulStages
  <2>8. CASE phase = "OPENING_RECOURSE"
    <3>1. /\ q.keys = e.keys /\ q.subs = e.subs /\ q.evaluated = e.evaluated
          /\ q.release = e.release /\ q.coalitionRelease = e.coalitionRelease /\ q.plan = e.plan
          /\ q.recourse = variant.truth /\ q.receipt = e.receipt /\ q.stage = "RECOURSE_OPENED"
      BY <1>1, <2>8, Targets DEF reconstructed, Execution, afterRecourse
    <3> QED
      BY <1>2, <2>8, <3>1, AtStages, FaithfulStages
  <2>9. CASE phase = "EXPORTING"
    <3>1. /\ q.keys = e.keys /\ q.subs = e.subs /\ q.evaluated = e.evaluated
          /\ q.release = e.release /\ q.coalitionRelease = e.coalitionRelease /\ q.plan = e.plan
          /\ q.recourse = e.recourse /\ q.receipt = TRUE /\ q.stage = "COMPLETE"
      BY <1>1, <2>9, Targets DEF reconstructed, Execution
    <3>2. CASE e.stage = "RECOURSE_OPENED"
      BY <1>2, <3>1, <3>2, FaithfulStages
    <3>3. CASE e.stage = "CHRONOLOGY_COMPLETE"
      BY <1>2, <3>1, <3>3, FaithfulStages
    <3>4. CASE e.stage = "COMPLETE"
      BY <1>2, <3>1, <3>4, FaithfulStages
    <3> QED
      BY <2>9, <3>2, <3>3, <3>4, AtStages
  <2>10. CASE phase \in {"ADVANCING_CURE", "RETAINING"}
    BY <1>1, <2>10, Reconstructs
  <2> QED
    BY <2>1, <2>2, <2>3, <2>4, <2>5, <2>6, <2>7, <2>8, <2>9, <2>10, PhaseSet
<1> QED
  BY <1>1, <1>2, <1>3

\* The chronology is the only operation that changes nothing but the stage.
LEMMA FaithfulChronology ==
  ASSUME variant \in Variants, NEW e \in Execution, Faithful(e), e.stage = "RECOURSE_OPENED"
  PROVE  LET q == [e EXCEPT !.stage = "CHRONOLOGY_COMPLETE"]
         IN  q \in Execution /\ q.stage = "CHRONOLOGY_COMPLETE" /\ Faithful(q)
<1>1. PICK q : q = [e EXCEPT !.stage = "CHRONOLOGY_COMPLETE"]
  OBVIOUS
<1>2. q \in Execution
  BY <1>1, StageSet DEF Execution
<1>3. /\ q.keys = e.keys /\ q.subs = e.subs /\ q.evaluated = e.evaluated
      /\ q.release = e.release /\ q.coalitionRelease = e.coalitionRelease /\ q.plan = e.plan
      /\ q.recourse = e.recourse /\ q.receipt = e.receipt /\ q.stage = "CHRONOLOGY_COMPLETE"
  BY <1>1 DEF Execution
<1>4. Faithful(q)
  BY <1>2, <1>3, FaithfulStages
<1> QED
  BY <1>1, <1>2, <1>3, <1>4

\* A claim changes nothing but the claims.
LEMMA FaithfulClaim ==
  ASSUME NEW e \in Execution, Faithful(e), NEW r \in Roles
  PROVE  LET q == [e EXCEPT !.claims = @ \cup {r}]
         IN  q \in Execution /\ q.stage = e.stage /\ Faithful(q)
<1>1. PICK q : q = [e EXCEPT !.claims = @ \cup {r}]
  OBVIOUS
<1>2. q \in Execution
  BY <1>1 DEF Execution
<1>3. /\ q.keys = e.keys /\ q.subs = e.subs /\ q.evaluated = e.evaluated
      /\ q.release = e.release /\ q.coalitionRelease = e.coalitionRelease /\ q.plan = e.plan
      /\ q.recourse = e.recourse /\ q.receipt = e.receipt /\ q.stage = e.stage
  BY <1>1 DEF Execution
<1>4. Faithful(q)
  BY <1>2, <1>3, FaithfulStages
<1> QED
  BY <1>1, <1>2, <1>3, <1>4

\* Directories whose record, journal and objects tell one story.
CoherentDirs ==
    {g \in Directory : /\ g.exec \in Execution /\ Coherent(g)
                       /\ pendingOperation(g) # 0 => pendingPhase(g) \in Phases}

\* The journal of a directory, as Coherent looks at it.
sameJournal(f, g) ==
    /\ pendingOperation(g) = pendingOperation(f) /\ pendingPhase(g) = pendingPhase(f)
    /\ abortRecorded(g) <=> abortRecorded(f)

\* Equal journals are the same journal.
LEMMA SameJournal ==
  ASSUME NEW f, NEW g, g.journal = f.journal
  PROVE  sameJournal(f, g)
BY DEF sameJournal, pendingOperation, pendingPhase, abortRecorded

\* An aborted journal has nothing pending.
LEMMA AbortedOrPending ==
  ASSUME NEW f \in Directory
  PROVE  abortRecorded(f) => pendingOperation(f) = 0
BY Pending DEF abortRecorded

\* Files that the story does not mention.
LEMMA SameStory ==
  ASSUME NEW f \in CoherentDirs, NEW g \in Directory, g.exec = f.exec, g.journal = f.journal,
         f.profile => g.profile,
         "evaluationAdmitted" \in g.disk => "evaluationAdmitted" \in f.disk,
         "releaseAdmitted" \in g.disk => "releaseAdmitted" \in f.disk
  PROVE  g \in CoherentDirs /\ sameJournal(f, g)
<1>1. sameJournal(f, g)
  BY SameJournal
<1>2. \A p : pendingIs(g, p) <=> pendingIs(f, p)
  BY <1>1 DEF sameJournal, pendingIs
<1>3. Coherent(f) /\ f.exec \in Execution /\ (pendingOperation(f) # 0 => pendingPhase(f) \in Phases)
  BY DEF CoherentDirs
<1>4. Coherent(g)
  BY <1>1, <1>2, <1>3 DEF Coherent, sameJournal
<1> QED
  BY <1>1, <1>3, <1>4 DEF CoherentDirs, sameJournal

\* From a stage of a phase to the stage it promises.
LEMMA Progress ==
  ASSUME NEW phase \in Phases, NEW e \in Execution, at(e, phase), NEW q \in Execution,
         q.stage = Target[phase]
  PROVE  /\ q.stage # "ABORTED" /\ e.stage # "ABORTED" /\ at(q, phase)
         /\ past(e, "EVALUATED") \/ phase = "EVALUATING" => past(q, "EVALUATED")
         /\ past(e, "RELEASED") \/ phase = "RELEASING" => past(q, "RELEASED")
         /\ q.stage = "EVALUATED" => phase = "EVALUATING"
         /\ past(q, "RECOURSE_OPENED") => past(e, "RECOURSE_OPENED") \/ phase = "OPENING_RECOURSE"
         /\ q.stage = "CHRONOLOGY_COMPLETE" => phase = "ADVANCING_CURE"
         /\ phase = "EXPORTING" => q.stage # "RECOURSE_OPENED"
<1>0. at(q, phase)
  BY DEF at
<1>1. CASE phase \in {"PREPARING", "SUBMITTING_A", "SUBMITTING_B"}
  BY <1>0, <1>1, AtStages, Targets, Pasts
<1>2. CASE phase = "FINALIZING"
  BY <1>0, <1>2, AtStages, Targets, Pasts
<1>5. CASE phase = "EVALUATING"
  BY <1>0, <1>5, AtStages, Targets, Pasts
<1>6. CASE phase = "RELEASING"
  <2>1. q.stage = "RELEASED" /\ e.stage \in {"EVALUATED", "RELEASED"}
    BY <1>6, AtStages, Targets
  <2> QED
    BY <1>0, <1>6, <2>1, Pasts
<1>3. CASE phase \in {"OPENING_RECOURSE", "ADVANCING_CURE"}
  BY <1>0, <1>3, AtStages, Targets, Pasts
<1>4. CASE phase \in {"EXPORTING", "RETAINING"}
  BY <1>0, <1>4, AtStages, Targets, Pasts
<1> QED
  BY <1>1, <1>2, <1>3, <1>4, <1>5, <1>6, PhaseSet

\* Saving what a pending operation promises, and then closing it.
LEMMA CoherentSave ==
  ASSUME NEW f \in CoherentDirs, NEW i \in Nat, mayFinish(f, i), NEW q \in Execution, Faithful(q),
         q.stage = Target[pendingPhase(f)], NEW o \in {"COMPLETED", "RECONCILED"}
  PROVE  LET s == saveState(f, q)
             t == finishOperation(s, i, o)
         IN  /\ s \in CoherentDirs /\ mayFinish(s, i) /\ s.disk = f.disk
             /\ t \in CoherentDirs /\ t.exec = q /\ t.disk = f.disk
             /\ pendingOperation(t) = 0 /\ ~abortRecorded(t) /\ t.journal[i].outcome = o
<1>1. PICK s : s = saveState(f, q)
  OBVIOUS
<1>2. PICK t : t = finishOperation(s, i, o)
  OBVIOUS
<1>3. PICK phase, e : phase = pendingPhase(f) /\ e = f.exec
  OBVIOUS
<1>4. f \in Directory /\ Coherent(f) /\ pendingOperation(f) = i /\ i # 0 /\ phase \in Phases /\ e \in Execution
  BY <1>3 DEF CoherentDirs, mayFinish
<1>5. at(e, phase)
  BY <1>3, <1>4 DEF Coherent, at
<1>6. /\ s \in Directory /\ s.exec = q /\ s.journal = f.journal /\ s.disk = f.disk /\ s.profile = f.profile
  BY <1>1, <1>4, Saves
<1>7. sameJournal(f, s)
  BY <1>6, SameJournal
<1>8. ~abortRecorded(f)
  BY <1>4, AbortedOrPending
<1>9. /\ q.stage # "ABORTED" /\ e.stage # "ABORTED" /\ at(q, phase)
      /\ past(e, "EVALUATED") \/ phase = "EVALUATING" => past(q, "EVALUATED")
      /\ past(e, "RELEASED") \/ phase = "RELEASING" => past(q, "RELEASED")
      /\ q.stage = "EVALUATED" => phase = "EVALUATING"
      /\ past(q, "RECOURSE_OPENED") => past(e, "RECOURSE_OPENED") \/ phase = "OPENING_RECOURSE"
      /\ q.stage = "CHRONOLOGY_COMPLETE" => phase = "ADVANCING_CURE"
      /\ phase = "EXPORTING" => q.stage # "RECOURSE_OPENED"
  BY <1>3, <1>4, <1>5, Progress
<1>10. ASSUME NEW p
       PROVE  (pendingIs(f, p) <=> phase = p) /\ (pendingIs(s, p) <=> phase = p)
  BY <1>3, <1>4, <1>7 DEF pendingIs, sameJournal
<1>11. /\ "evaluationAdmitted" \in f.disk => past(q, "EVALUATED")
       /\ "releaseAdmitted" \in f.disk => past(q, "RELEASED")
       /\ variant.coalition /\ (e.stage = "EVALUATED" \/ phase = "EVALUATING") => f.profile
       /\ variant.coalition => ~past(q, "RECOURSE_OPENED") /\ phase # "OPENING_RECOURSE"
       /\ phase = "ADVANCING_CURE" => variant.truth
  BY <1>3, <1>4, <1>8, <1>9, <1>10 DEF Coherent
<1>12. Coherent(s)
  <2>1. pendingOperation(s) # 0 => q.stage \in sources(pendingPhase(s)) \cup {Target[pendingPhase(s)]}
    BY <1>3, <1>7, <1>9 DEF sameJournal, at
  <2> QED
    BY <1>6, <1>9, <1>10, <1>11, <2>1 DEF Coherent
<1>13. s \in CoherentDirs /\ mayFinish(s, i)
  BY <1>3, <1>4, <1>6, <1>7, <1>12 DEF CoherentDirs, sameJournal, mayFinish
<1>14. /\ t \in Directory /\ t.exec = q /\ t.disk = f.disk /\ t.profile = f.profile
       /\ pendingOperation(t) = 0 /\ t.journal # <<>> /\ Last(t.journal).outcome = o
       /\ t.journal[i].outcome = o
  BY <1>2, <1>6, <1>13, Finishes DEF Outcomes
<1>15. ~abortRecorded(t) /\ \A p : ~pendingIs(t, p)
  BY <1>14 DEF abortRecorded, pendingIs
<1>16. Coherent(t)
  BY <1>9, <1>11, <1>14, <1>15 DEF Coherent
<1>17. t \in CoherentDirs
  BY <1>14, <1>16 DEF CoherentDirs
<1> QED
  BY <1>1, <1>2, <1>6, <1>13, <1>14, <1>15, <1>17

\* Closing the pending record as aborted, and then saving the abort.
LEMMA CoherentAbort ==
  ASSUME NEW f \in CoherentDirs, NEW i \in Nat, mayFinish(f, i)
  PROVE  LET h == finishOperation(f, i, "ABORTED")
             s == saveState(h, [f.exec EXCEPT !.stage = "ABORTED"])
         IN  /\ h \in CoherentDirs /\ s \in CoherentDirs /\ s.disk = f.disk
             /\ s.exec = [f.exec EXCEPT !.stage = "ABORTED"] /\ s.exec.stage = "ABORTED"
             /\ pendingOperation(s) = 0
<1>1. PICK h, a : h = finishOperation(f, i, "ABORTED") /\ a = [f.exec EXCEPT !.stage = "ABORTED"]
  OBVIOUS
<1>2. PICK s : s = saveState(h, a)
  OBVIOUS
<1>3. f \in Directory /\ Coherent(f) /\ f.exec \in Execution
  BY DEF CoherentDirs
<1>4. /\ h \in Directory /\ h.exec = f.exec /\ h.disk = f.disk /\ h.profile = f.profile
      /\ pendingOperation(h) = 0 /\ h.journal # <<>> /\ Last(h.journal).outcome = "ABORTED"
  BY <1>1, <1>3, Finishes DEF Outcomes
<1>5. abortRecorded(h) /\ \A p : ~pendingIs(h, p)
  BY <1>4 DEF abortRecorded, pendingIs
<1>6. Coherent(h)
  BY <1>3, <1>4, <1>5 DEF Coherent
<1>7. a \in Execution /\ a.stage = "ABORTED"
  BY <1>1, <1>3, StageSet DEF Execution
<1>8. /\ s \in Directory /\ s.exec = a /\ s.journal = h.journal /\ s.disk = h.disk
  BY <1>2, <1>4, <1>7, Saves
<1>9. sameJournal(h, s)
  BY <1>8, SameJournal
<1>10. abortRecorded(s) /\ pendingOperation(s) = 0 /\ \A p : ~pendingIs(s, p)
  BY <1>4, <1>5, <1>9 DEF sameJournal, pendingIs
<1>11. Coherent(s)
  BY <1>7, <1>8, <1>10 DEF Coherent, Faithful, past
<1>12. h \in CoherentDirs /\ s \in CoherentDirs
  BY <1>3, <1>4, <1>6, <1>7, <1>8, <1>10, <1>11 DEF CoherentDirs
<1> QED
  BY <1>1, <1>2, <1>4, <1>7, <1>8, <1>10, <1>12

\* Beginning an operation that is admissible.
LEMMA CoherentBegin ==
  ASSUME NEW f \in CoherentDirs, NEW phase \in Phases, mayBegin(f, phase), ~abortRecorded(f),
         f.exec.stage \in sources(phase),
         phase = "EVALUATING" /\ variant.coalition => f.profile,
         phase = "OPENING_RECOURSE" => ~variant.coalition,
         phase = "ADVANCING_CURE" => variant.truth,
         phase = "EXPORTING" /\ f.exec.stage = "RECOURSE_OPENED" => ~variant.truth
  PROVE  LET b == beginOperation(f, phase)
         IN  /\ b \in CoherentDirs /\ b.exec = f.exec /\ b.disk = f.disk
             /\ pendingOperation(b) # 0 /\ pendingPhase(b) = phase /\ ~abortRecorded(b)
<1>1. PICK b, e : b = beginOperation(f, phase) /\ e = f.exec
  OBVIOUS
<1>2. f \in Directory /\ Coherent(f) /\ e \in Execution
  BY <1>1 DEF CoherentDirs
<1>3. /\ b \in Directory /\ b.exec = e /\ b.disk = f.disk /\ b.profile = f.profile
      /\ pendingOperation(b) # 0 /\ pendingPhase(b) = phase
  BY <1>1, <1>2, Begins
<1>4. ~abortRecorded(b) /\ e.stage # "ABORTED"
  BY <1>1, <1>2, <1>3, AbortedOrPending DEF Coherent
<1>5. \A p : pendingIs(b, p) <=> phase = p
  BY <1>3 DEF pendingIs
<1>6. \A p : pendingIs(f, p) => phase = p
  BY DEF pendingIs, mayBegin, pendingPhase
<1>7. /\ "evaluationAdmitted" \in f.disk => past(e, "EVALUATED") \/ phase = "EVALUATING"
      /\ "releaseAdmitted" \in f.disk => past(e, "RELEASED") \/ phase = "RELEASING"
      /\ variant.coalition /\ e.stage = "EVALUATED" => f.profile
      /\ variant.coalition => ~past(e, "RECOURSE_OPENED")
      /\ e.stage = "CHRONOLOGY_COMPLETE" => variant.truth
      /\ Faithful(e)
  BY <1>1, <1>2, <1>6 DEF Coherent
<1>8. Coherent(b)
  BY <1>1, <1>3, <1>4, <1>5, <1>7 DEF Coherent
<1> QED
  BY <1>1, <1>2, <1>3, <1>4, <1>8 DEF CoherentDirs

\* Saving and finishing, as the operations write them.
LEMMA CoherentSaveAndFinish ==
  ASSUME NEW f \in CoherentDirs, NEW i \in Nat, mayFinish(f, i), NEW q \in Execution, Faithful(q),
         q.stage = Target[pendingPhase(f)], NEW o \in {"COMPLETED", "RECONCILED"}
  PROVE  LET w == saveAndFinish(f, q, i, o)
         IN  /\ w \in Path(CoherentDirs) /\ w # <<>> /\ Last(w) \in CoherentDirs
             /\ Last(w).exec = q /\ Last(w).disk = f.disk
             /\ pendingOperation(Last(w)) = 0 /\ ~abortRecorded(Last(w))
<1>1. PICK s : s = saveState(f, q)
  OBVIOUS
<1>2. PICK t : t = finishOperation(s, i, o)
  OBVIOUS
<1>3. /\ s \in CoherentDirs /\ t \in CoherentDirs /\ t.exec = q /\ t.disk = f.disk
      /\ pendingOperation(t) = 0 /\ ~abortRecorded(t)
  BY <1>1, <1>2, CoherentSave
<1>4. PICK w : w = saveAndFinish(f, q, i, o)
  OBVIOUS
<1>5. w = <<s, t>>
  BY <1>1, <1>2, <1>4 DEF saveAndFinish
<1>6. w \in Path(CoherentDirs) /\ w # <<>> /\ Last(w) = t
  BY <1>3, <1>5 DEF Path, Last
<1> QED
  BY <1>3, <1>4, <1>6

\* The files of the roles and the settlement profile.
LEMMA CoherentFiles ==
  ASSUME NEW f \in CoherentDirs, NEW S \in SUBSET Roles
  PROVE  /\ [f EXCEPT !.pledgeFiles = S] \in CoherentDirs /\ sameJournal(f, [f EXCEPT !.pledgeFiles = S])
         /\ [f EXCEPT !.keyFiles = S] \in CoherentDirs /\ sameJournal(f, [f EXCEPT !.keyFiles = S])
         /\ [f EXCEPT !.profile = TRUE] \in CoherentDirs /\ sameJournal(f, [f EXCEPT !.profile = TRUE])
<1>0. f \in Directory
  BY DEF CoherentDirs
<1>1. ASSUME NEW g, g = [f EXCEPT !.pledgeFiles = S]
      PROVE  g \in CoherentDirs /\ sameJournal(f, g)
  <2>1. /\ g \in Directory /\ g.exec = f.exec /\ g.journal = f.journal /\ g.disk = f.disk
        /\ g.profile = f.profile
    BY <1>0, <1>1 DEF Directory
  <2> QED
    BY <2>1, SameStory
<1>2. ASSUME NEW g, g = [f EXCEPT !.keyFiles = S]
      PROVE  g \in CoherentDirs /\ sameJournal(f, g)
  <2>1. /\ g \in Directory /\ g.exec = f.exec /\ g.journal = f.journal /\ g.disk = f.disk
        /\ g.profile = f.profile
    BY <1>0, <1>2 DEF Directory
  <2> QED
    BY <2>1, SameStory
<1>3. ASSUME NEW g, g = [f EXCEPT !.profile = TRUE]
      PROVE  g \in CoherentDirs /\ sameJournal(f, g)
  <2>1. /\ g \in Directory /\ g.exec = f.exec /\ g.journal = f.journal /\ g.disk = f.disk
        /\ g.profile = TRUE
    BY <1>0, <1>3 DEF Directory
  <2> QED
    BY <2>1, SameStory
<1> QED
  BY <1>1, <1>2, <1>3

\* An object other than the two admissions.
LEMMA CoherentPublish ==
  ASSUME NEW f \in CoherentDirs, NEW o \in Artifacts \ {"evaluationAdmitted", "releaseAdmitted"}
  PROVE  /\ published(f, o) \in CoherentDirs /\ sameJournal(f, published(f, o))
         /\ published(f, o).exec = f.exec /\ published(f, o).disk = f.disk \cup {o}
<1>1. PICK g : g = published(f, o)
  OBVIOUS
<1>2. /\ g \in Directory /\ g.exec = f.exec /\ g.journal = f.journal /\ g.disk = f.disk \cup {o}
      /\ g.profile = f.profile
  BY <1>1 DEF published, Directory, CoherentDirs
<1>3. g \in CoherentDirs /\ sameJournal(f, g)
  BY <1>2, SameStory
<1> QED
  BY <1>1, <1>2, <1>3

\* Reconciliation of an up-to-date reading.  It leaves nothing pending, or
\* it leaves the directory as it was, with a pending operation that is not
\* proven and not irreversible, or whose evidence it cannot build.
LEMMA CoherentReconcile ==
  ASSUME variant \in Variants, NEW f \in CoherentDirs, f.exec # None, NEW phase, NEW private,
         pendingOperation(f) # 0 => phase = pendingPhase(f),
         abortRecorded(f) => f.exec.stage = "ABORTED"
  PROVE  LET i == pendingOperation(f)
             r == reconcileState(f, f.exec, i, phase, f.disk, private)
             g == after(f, r.steps)
         IN  /\ r.steps \in Path(CoherentDirs) /\ g \in CoherentDirs /\ r.exec = g.exec
             /\ f.disk \subseteq g.disk /\ (abortRecorded(g) => g.exec.stage = "ABORTED")
             /\ \/ pendingOperation(g) = 0
                \/ /\ g = f
                   /\ \/ /\ ~proves(f, f.exec, phase, f.disk, private)
                         /\ ~irreversible(phase, f.disk, private)
                      \/ /\ proves(f, f.exec, phase, f.disk, private)
                         /\ custom /\ rebuildsEvidence(f, phase)
<1>1. PICK i, e, seen : i = pendingOperation(f) /\ e = f.exec /\ seen = f.disk
  OBVIOUS
<1> DEFINE unproven == ~proves(f, e, phase, seen, private) /\ ~irreversible(phase, seen, private)
           stuck == proves(f, e, phase, seen, private) /\ custom /\ rebuildsEvidence(f, phase)
           Good(r) == /\ r.steps \in Path(CoherentDirs) /\ after(f, r.steps) \in CoherentDirs
                      /\ r.exec = after(f, r.steps).exec /\ seen \subseteq after(f, r.steps).disk
                      /\ abortRecorded(after(f, r.steps)) => after(f, r.steps).exec.stage = "ABORTED"
                      /\ \/ pendingOperation(after(f, r.steps)) = 0
                         \/ after(f, r.steps) = f /\ (unproven \/ stuck)
           kept == [steps |-> <<>>, exec |-> e, refusal |-> None]
           abort == [e EXCEPT !.stage = "ABORTED"]
           h == finishOperation(f, i, "ABORTED")
           aborted == [steps |-> <<h, saveState(h, abort)>>, exec |-> abort, refusal |-> None]
           f1 == IF rebuildsEvidence(f, phase)
                 THEN [f EXCEPT !.disk = @ \cup {"productEvidence"}] ELSE f
           q == reconstructed(e, phase, i)
           w == saveAndFinish(f1, q, i, "RECONCILED")
           f2 == [Last(w) EXCEPT !.pledgeFiles = {}]
           f3 == [f2 EXCEPT !.keyFiles = @ \ submitter(phase)]
           recovered == [steps |-> <<f1>> \o w \o <<f2, f3>>, exec |-> q, refusal |-> None]
           R == reconcileState(f, e, i, phase, seen, private)
<1> SUFFICES Good(R)
  BY <1>1
<1>2. /\ f \in Directory /\ Coherent(f) /\ i \in Nat /\ e \in Execution
      /\ i # 0 => phase \in Phases /\ at(e, phase) /\ mayFinish(f, i)
      /\ e = f.exec /\ seen = f.disk /\ Faithful(e)
  <2>1. f \in Directory /\ Coherent(f) /\ e \in Execution /\ i \in Nat
    BY <1>1, Pending DEF CoherentDirs
  <2>2. i # 0 => phase \in Phases /\ at(e, phase) /\ mayFinish(f, i)
    BY <1>1 DEF CoherentDirs, Coherent, at, mayFinish
  <2>3. Faithful(e)
    BY <1>1, <2>1 DEF Coherent
  <2> QED
    BY <1>1, <2>1, <2>2, <2>3
<1>3. ASSUME NEW x, i = 0 \/ unproven \/ stuck
      PROVE  Good([steps |-> <<>>, exec |-> e, refusal |-> x])
  <2>1. after(f, <<>>) = f /\ <<>> \in Path(CoherentDirs)
    BY DEF Last, after, Path
  <2>2. PICK y : y = [steps |-> <<>>, exec |-> e, refusal |-> x]
    OBVIOUS
  <2>3. y.steps = <<>> /\ y.exec = e /\ (i = 0 \/ unproven \/ stuck)
    BY <1>3, <2>2
  <2> HIDE DEF unproven, stuck
  <2>4. Good(y)
    BY <1>1, <1>2, <2>1, <2>3
  <2> HIDE DEF Good
  <2> QED
    BY <2>2, <2>4
<1>4. ASSUME i # 0
      PROVE  Good(aborted)
  <2>1. PICK a, b : a = abort /\ b = h
    OBVIOUS
  <2>2. PICK s : s = saveState(b, a)
    OBVIOUS
  <2>3. /\ b \in CoherentDirs /\ s \in CoherentDirs /\ s.disk = seen /\ s.exec = a
        /\ s.exec.stage = "ABORTED" /\ pendingOperation(s) = 0
    BY <1>2, <1>4, <2>1, <2>2, CoherentAbort
  <2>4. PICK u : u = <<b, s>>
    OBVIOUS
  <2>5. after(f, u) = s
    BY <2>4 DEF Last, after
  <2>6. u \in Path(CoherentDirs)
    BY <2>3, <2>4 DEF Path
  <2>7. aborted.steps = u /\ aborted.exec = a
    BY <2>1, <2>2, <2>4
  <2> HIDE DEF unproven, stuck, aborted
  <2> QED
    BY <2>3, <2>5, <2>6, <2>7
<1>5. ASSUME i # 0, proves(f, e, phase, seen, private)
      PROVE  Good(recovered)
  <2>0. /\ phase = "ADVANCING_CURE" => e.stage = "CHRONOLOGY_COMPLETE"
        /\ phase = "OPENING_RECOURSE" => ~variant.coalition
    <3>1. phase = "ADVANCING_CURE" => e.stage = "CHRONOLOGY_COMPLETE"
      BY <1>5 DEF proves
    <3>2. phase = "OPENING_RECOURSE" => pendingIs(f, "OPENING_RECOURSE")
      BY <1>1, <1>5 DEF pendingIs
    <3> QED
      BY <1>2, <3>1, <3>2 DEF Coherent
  <2>1. PICK x : x = q
    OBVIOUS
  <2>2. x \in Execution /\ x.stage = Target[phase] /\ Faithful(x)
    BY <1>2, <1>5, <2>0, <2>1, FaithfulReconstruction
  <2>3. PICK g : g = f1
    OBVIOUS
  <2>4. g \in CoherentDirs /\ sameJournal(f, g) /\ seen \subseteq g.disk
    <3>1. CASE rebuildsEvidence(f, phase)
      <4>1. g = published(f, "productEvidence")
        BY <2>3, <3>1 DEF published
      <4>2. "productEvidence" \in Artifacts \ {"evaluationAdmitted", "releaseAdmitted"}
        BY DEF Artifacts
      <4> QED
        BY <1>2, <4>1, <4>2, CoherentPublish
    <3>2. CASE ~rebuildsEvidence(f, phase)
      BY <1>2, <2>3, <3>2 DEF sameJournal
    <3> QED
      BY <3>1, <3>2
  <2>5. mayFinish(g, i) /\ pendingPhase(g) = phase
    BY <1>1, <1>2, <1>5, <2>4 DEF sameJournal, mayFinish
  <2>6. PICK v : v = saveAndFinish(g, x, i, "RECONCILED")
    OBVIOUS
  <2>7. /\ v \in Path(CoherentDirs) /\ v # <<>> /\ Last(v) \in CoherentDirs
        /\ Last(v).exec = x /\ Last(v).disk = g.disk
        /\ pendingOperation(Last(v)) = 0 /\ ~abortRecorded(Last(v))
    BY <1>2, <2>2, <2>4, <2>5, <2>6, CoherentSaveAndFinish
  <2>8. PICK l : l = Last(v)
    OBVIOUS
  <2>9. PICK g2 : g2 = [l EXCEPT !.pledgeFiles = {}]
    OBVIOUS
  <2>10. PICK K, g3 : K = g2.keyFiles \ submitter(phase) /\ g3 = [g2 EXCEPT !.keyFiles = K]
    OBVIOUS
  <2>11. g2 \in CoherentDirs /\ sameJournal(l, g2) /\ g2.exec = x /\ g2.disk = g.disk
    <3>1. g2.exec = l.exec /\ g2.disk = l.disk
      BY <2>7, <2>8, <2>9 DEF CoherentDirs, Directory
    <3> QED
      BY <2>7, <2>8, <2>9, <3>1, CoherentFiles
  <2>12. g3 \in CoherentDirs /\ sameJournal(g2, g3) /\ g3.exec = x /\ g3.disk = g.disk
    <3>1. K \in SUBSET Roles
      BY <2>10, <2>11 DEF CoherentDirs, Directory
    <3>2. g3.exec = g2.exec /\ g3.disk = g2.disk
      BY <2>10, <2>11 DEF CoherentDirs, Directory
    <3> QED
      BY <2>10, <2>11, <3>1, <3>2, CoherentFiles
  <2>13. pendingOperation(g3) = 0 /\ ~abortRecorded(g3)
    BY <2>7, <2>8, <2>11, <2>12 DEF sameJournal
  <2>14. PICK u : u = wroteAll(g, v, g2, g3)
    OBVIOUS
  <2>15. u \in Path(CoherentDirs) /\ after(f, u) = g3
    BY <2>4, <2>7, <2>11, <2>12, <2>14, Recovery
  <2>16. recovered.steps = u /\ recovered.exec = x
    BY <2>1, <2>3, <2>6, <2>8, <2>9, <2>10, <2>14 DEF wroteAll
  <2> HIDE DEF unproven, stuck, recovered
  <2> QED
    BY <2>4, <2>12, <2>13, <2>15, <2>16
<1>6. \/ \E x : /\ i = 0 \/ unproven \/ stuck
                /\ R = [steps |-> <<>>, exec |-> e, refusal |-> x]
      \/ i # 0 /\ R = aborted
      \/ i # 0 /\ proves(f, e, phase, seen, private) /\ R = recovered
  <2>1. \A x : [kept EXCEPT !.refusal = x] = [steps |-> <<>>, exec |-> e, refusal |-> x]
    OBVIOUS
  <2>2. CASE i = 0
    <3>1. R = kept \/ R = [kept EXCEPT !.refusal = "ambiguous"]
      BY <2>2 DEF reconcileState
    <3> QED
      BY <2>1, <2>2, <3>1
  <2>3. CASE i # 0
    <3>1. \/ R = aborted
          \/ proves(f, e, phase, seen, private) /\ R = recovered
          \/ stuck /\ R = [kept EXCEPT !.refusal = "v4"]
          \/ unproven /\ R = kept
      <4> HIDE DEF recovered, aborted
      <4> QED
        BY <1>2, <2>3 DEF reconcileState, recovered, aborted
    <3> HIDE DEF recovered, aborted, R, stuck, unproven
    <3> QED
      BY <2>1, <2>3, <3>1
  <2> QED
    BY <2>2, <2>3
<1> HIDE DEF aborted, recovered, Good, unproven, stuck
<1> QED
  BY <1>3, <1>4, <1>5, <1>6

\* What is begun was admissible.
LEMMA Admitted ==
  ASSUME variant \in Variants, NEW f \in CoherentDirs, NEW e, e = f.exec, NEW op,
         admissible(op, f, e), op \notin {"claimA", "claimB"}, NEW phase, phase = PhaseOf(op, e)
  PROVE  /\ phase \in Phases /\ e.stage \in sources(phase) /\ e.stage # "ABORTED"
         /\ phase = "EVALUATING" => op = "evaluate"
         /\ phase = "OPENING_RECOURSE" => ~variant.coalition
         /\ phase = "ADVANCING_CURE" => variant.truth
         /\ phase = "EXPORTING" /\ e.stage = "RECOURSE_OPENED" => ~variant.truth
<1>1. e \in Execution /\ Faithful(e) /\ (variant.coalition => ~past(e, "RECOURSE_OPENED"))
  BY DEF CoherentDirs, Coherent
<1>2. /\ op \in Works /\ phase \in Phases /\ e.stage \in sources(phase)
      /\ phase = "EVALUATING" => op = "evaluate"
  BY <1>1, PhaseBegun
<1>3. e.stage # "ABORTED"
  BY <1>2 DEF sources
<1>4. ASSUME phase = "OPENING_RECOURSE"
      PROVE  ~variant.coalition
  <2>1. op = "recourse"
    BY <1>2, <1>4 DEF Works, PhaseOf
  <2>2. e.release # None
    BY <2>1 DEF admissible
  <2> QED
    BY <1>1, <1>3, <2>2, FaithfulStages
<1>5. ASSUME phase = "ADVANCING_CURE"
      PROVE  variant.truth
  <2>1. op = "cure"
    BY <1>2, <1>5 DEF Works, PhaseOf
  <2>2. e.stage = "RECOURSE_OPENED" /\ e.recourse = TRUE
    BY <2>1 DEF admissible
  <2> QED
    BY <1>1, <2>2, FaithfulStages
<1>6. ASSUME phase = "EXPORTING", e.stage = "RECOURSE_OPENED"
      PROVE  ~variant.truth
  <2>1. op = "export"
    BY <1>2, <1>6 DEF Works, PhaseOf
  <2>2. ~e.release
    BY <1>6, <2>1 DEF admissible
  <2>3. ~variant.coalition
    BY <1>1, <1>6, Pasts
  <2> QED
    BY <1>1, <1>6, <2>2, <2>3, FaithfulStages
<1> QED
  BY <1>2, <1>3, <1>4, <1>5, <1>6

\* The writes before a child.
LEMMA CoherentBeginning ==
  ASSUME variant \in Variants, NEW f \in CoherentDirs, NEW e, e = f.exec, NEW op,
         abortRecorded(f) => e.stage = "ABORTED",
         admissible(op, f, e), op \notin {"claimA", "claimB"}, mayBegin(f, PhaseOf(op, e))
  PROVE  LET b == beginning(op, f, e)
             l == Last(b)
         IN  /\ b \in Path(CoherentDirs) /\ b # <<>> /\ l \in CoherentDirs /\ l.exec = e
             /\ pendingOperation(l) # 0 /\ pendingPhase(l) = PhaseOf(op, e) /\ ~abortRecorded(l)
<1>1. PICK phase : phase = PhaseOf(op, e)
  OBVIOUS
<1>2. /\ phase \in Phases /\ e.stage \in sources(phase) /\ e.stage # "ABORTED"
      /\ phase = "EVALUATING" => op = "evaluate"
      /\ phase = "OPENING_RECOURSE" => ~variant.coalition
      /\ phase = "ADVANCING_CURE" => variant.truth
      /\ phase = "EXPORTING" /\ e.stage = "RECOURSE_OPENED" => ~variant.truth
  BY <1>1, Admitted
<1>3. f \in Directory /\ "A" \in Roles /\ "B" \in Roles /\ roleOf(op) \in Roles
  BY DEF CoherentDirs, Roles, roleOf
<1>4. PICK g : g = IF op = "evaluate" THEN ensureCoalitionSettlementProfileCommitted(f) ELSE f
  OBVIOUS
<1>5. /\ g \in CoherentDirs /\ sameJournal(f, g) /\ g.exec = e
      /\ op = "evaluate" /\ variant.coalition => g.profile
  <2>1. CASE op = "evaluate" /\ variant.coalition
    <3>1. g = [f EXCEPT !.profile = TRUE]
      BY <1>4, <2>1 DEF ensureCoalitionSettlementProfileCommitted
    <3>2. g.exec = f.exec /\ g.profile = TRUE
      BY <1>3, <3>1 DEF Directory
    <3> QED
      BY <3>1, <3>2, CoherentFiles
  <2>2. CASE ~(op = "evaluate" /\ variant.coalition)
    <3>1. g = f
      BY <1>4, <2>2 DEF ensureCoalitionSettlementProfileCommitted
    <3> QED
      BY <2>2, <3>1 DEF sameJournal
  <2> QED
    BY <2>1, <2>2
<1>6. PICK b : b = beginOperation(g, phase)
  OBVIOUS
<1>7. /\ b \in CoherentDirs /\ b.exec = e /\ pendingOperation(b) # 0 /\ pendingPhase(b) = phase
      /\ ~abortRecorded(b)
  <2>1. mayBegin(g, phase) /\ ~abortRecorded(g)
    BY <1>1, <1>2, <1>5 DEF mayBegin, sameJournal, pendingPhase
  <2> QED
    BY <1>2, <1>5, <1>6, <2>1, CoherentBegin
<1> DEFINE Fine(l) == /\ l \in CoherentDirs /\ l.exec = e /\ pendingOperation(l) # 0
                      /\ pendingPhase(l) = phase /\ ~abortRecorded(l)
           Good(w) == w \in Path(CoherentDirs) /\ w # <<>> /\ Fine(Last(w))
<1> SUFFICES Good(beginning(op, f, e))
  BY <1>1
<1>8. ASSUME NEW x, Fine(x), NEW y \in CoherentDirs, y.exec = x.exec, sameJournal(x, y)
      PROVE  Fine(y)
  BY <1>8 DEF sameJournal
<1>9. ASSUME NEW x, Fine(x), NEW r \in Roles
      PROVE  Fine(rawParticipantKey(x, r)) /\ Fine([x EXCEPT !.pledgeFiles = @ \cup {r}])
  <2>1. x \in Directory /\ x.keyFiles \cup {r} \in SUBSET Roles /\ x.pledgeFiles \cup {r} \in SUBSET Roles
    BY <1>9 DEF CoherentDirs, Directory
  <2>2. PICK K, P : K = x.keyFiles \cup {r} /\ P = x.pledgeFiles \cup {r}
    OBVIOUS
  <2>3. PICK y, z : y = [x EXCEPT !.keyFiles = K] /\ z = [x EXCEPT !.pledgeFiles = P]
    OBVIOUS
  <2>4. y.exec = x.exec /\ z.exec = x.exec
    BY <2>1, <2>3 DEF Directory
  <2>5. y \in CoherentDirs /\ sameJournal(x, y) /\ z \in CoherentDirs /\ sameJournal(x, z)
    BY <1>9, <2>1, <2>2, <2>3, CoherentFiles
  <2>6. Fine(y) /\ Fine(z)
    BY <1>8, <1>9, <2>4, <2>5
  <2>7. rawParticipantKey(x, r) \in {x, y} /\ [x EXCEPT !.pledgeFiles = @ \cup {r}] = z
    BY <2>2, <2>3 DEF rawParticipantKey
  <2> HIDE DEF Fine
  <2> QED
    BY <1>9, <2>6, <2>7
<1>10. Fine(b)
  BY <1>7
<1>11. PICK a : a = rawParticipantKey(b, "A")
  OBVIOUS
<1>12. PICK z, p : z = rawParticipantKey(a, "B") /\ p = [b EXCEPT !.pledgeFiles = @ \cup {roleOf(op)}]
  OBVIOUS
<1>13. Fine(a) /\ Fine(z) /\ Fine(p)
  <2> HIDE DEF Fine
  <2> QED
    BY <1>3, <1>9, <1>10, <1>11, <1>12
<1>14. CASE phase = "PREPARING"
  <2>1. beginning(op, f, e) = <<b, a, z>>
    BY <1>1, <1>4, <1>6, <1>11, <1>12, <1>14 DEF beginning
  <2>2. <<b, a, z>> \in Path(CoherentDirs) /\ Last(<<b, a, z>>) = z
    BY <1>7, <1>13 DEF Path, Last
  <2> QED
    BY <1>13, <2>1, <2>2
<1>15. CASE phase \in {"SUBMITTING_A", "SUBMITTING_B"}
  <2>1. beginning(op, f, e) = <<b, p>>
    BY <1>1, <1>4, <1>6, <1>12, <1>15 DEF beginning
  <2>2. <<b, p>> \in Path(CoherentDirs) /\ Last(<<b, p>>) = p
    BY <1>7, <1>13 DEF Path, Last
  <2> QED
    BY <1>13, <2>1, <2>2
<1>16. CASE phase \notin {"PREPARING", "SUBMITTING_A", "SUBMITTING_B"}
  <2>1. beginning(op, f, e) = <<g, b>>
    BY <1>1, <1>4, <1>6, <1>16 DEF beginning
  <2>2. <<g, b>> \in Path(CoherentDirs) /\ Last(<<g, b>>) = b
    BY <1>5, <1>7 DEF Path, Last
  <2> QED
    BY <1>10, <2>1, <2>2
<1> QED
  BY <1>14, <1>15, <1>16

\* The writes after a child.  A submission of B that was closed has left
\* its record published and nothing pending.
LEMMA CoherentCompleting ==
  ASSUME variant \in Variants, NEW f \in CoherentDirs, NEW e, e = f.exec, NEW i, i = pendingOperation(f),
         i # 0, NEW phase, phase = pendingPhase(f), phase # "ADVANCING_CURE", e.stage \in sources(phase)
  PROVE  LET w == completing(phase, f, e, i)
             l == Last(w)
         IN  /\ w \in Path(CoherentDirs) /\ w # <<>> /\ l \in CoherentDirs
             /\ phase = "SUBMITTING_B" /\ l.journal[i].outcome = "COMPLETED" =>
                    /\ pendingOperation(l) = 0 /\ ~abortRecorded(l)
                    /\ l.exec.stage = "PARTICIPANT_B_PUBLISHED"
<1> DEFINE Good(w) == /\ w \in Path(CoherentDirs) /\ w # <<>> /\ Last(w) \in CoherentDirs
                      /\ phase = "SUBMITTING_B" /\ Last(w).journal[i].outcome = "COMPLETED" =>
                            /\ pendingOperation(Last(w)) = 0 /\ ~abortRecorded(Last(w))
                            /\ Last(w).exec.stage = "PARTICIPANT_B_PUBLISHED"
<1> SUFFICES Good(completing(phase, f, e, i))
  OBVIOUS
<1>1. /\ f \in Directory /\ e \in Execution /\ Faithful(e) /\ phase \in Phases /\ i \in Nat
      /\ mayFinish(f, i) /\ at(e, phase)
  BY Pending DEF CoherentDirs, Coherent, mayFinish, at
<1>2. phase = "OPENING_RECOURSE" => ~variant.coalition
  BY DEF CoherentDirs, Coherent, pendingIs
<1>3. PICK q : q = reconstructed(e, phase, i)
  OBVIOUS
<1>4. q \in Execution /\ q.stage = Target[phase] /\ Faithful(q)
  BY <1>1, <1>2, <1>3, FaithfulReconstruction
<1>5. ASSUME NEW g \in CoherentDirs, sameJournal(f, g)
      PROVE  Good(saveAndFinish(g, q, i, "COMPLETED"))
  <2>1. mayFinish(g, i) /\ pendingPhase(g) = phase
    BY <1>1, <1>5 DEF mayFinish, sameJournal
  <2>2. PICK w : w = saveAndFinish(g, q, i, "COMPLETED")
    OBVIOUS
  <2>3. /\ w \in Path(CoherentDirs) /\ w # <<>> /\ Last(w) \in CoherentDirs
        /\ Last(w).exec = q /\ pendingOperation(Last(w)) = 0 /\ ~abortRecorded(Last(w))
    BY <1>1, <1>4, <1>5, <2>1, <2>2, CoherentSaveAndFinish
  <2>4. Good(w)
    BY <1>4, <2>3, Targets
  <2> HIDE DEF Good
  <2> QED
    BY <2>2, <2>4
<1>6. ASSUME NEW v \in Path(CoherentDirs), NEW w, Good(w)
      PROVE  Good(v \o w)
  <2>1. /\ v \o w \in Path(CoherentDirs) /\ v \o w # <<>> /\ Last(v \o w) = Last(w)
    BY <1>6, Concatenates
  <2>2. PICK u : u = v \o w
    OBVIOUS
  <2>3. Good(u)
    BY <1>6, <2>1, <2>2
  <2> HIDE DEF Good
  <2> QED
    BY <2>2, <2>3
<1>7. f.journal[i].outcome # "COMPLETED"
  BY <1>1, Pending DEF mayFinish
<1>8. ASSUME NEW x \in CoherentDirs, phase # "SUBMITTING_B" \/ x.journal = f.journal
      PROVE  Good(<<x>>)
  <2>1. <<x>> \in Path(CoherentDirs) /\ <<x>> # <<>> /\ Last(<<x>>) = x
    BY DEF Path, Last
  <2> QED
    BY <1>7, <1>8, <2>1
<1>9. sameJournal(f, f)
  BY DEF sameJournal
<1>10. CASE phase = "PREPARING"
  <2>1. PICK s, p : s = saveState(f, q) /\ p = ensureCoalitionSettlementProfileCommitted(s)
    OBVIOUS
  <2>2. s \in CoherentDirs /\ mayFinish(s, i)
    BY <1>1, <1>4, <2>1, CoherentSave
  <2>3. p \in CoherentDirs /\ sameJournal(s, p) /\ p.exec = s.exec
    <3>1. {} \in SUBSET Roles /\ s \in Directory
      BY <2>2 DEF CoherentDirs
    <3>2. CASE variant.coalition
      <4>1. p = [s EXCEPT !.profile = TRUE]
        BY <2>1, <3>2 DEF ensureCoalitionSettlementProfileCommitted
      <4>2. p.exec = s.exec
        BY <3>1, <4>1 DEF Directory
      <4> QED
        BY <2>2, <3>1, <4>1, <4>2, CoherentFiles
    <3>3. CASE ~variant.coalition
      BY <2>1, <2>2, <3>3 DEF ensureCoalitionSettlementProfileCommitted, sameJournal
    <3> QED
      BY <3>2, <3>3
  <2>4. PICK t : t = finishOperation(p, i, "COMPLETED")
    OBVIOUS
  <2>5. t \in CoherentDirs
    <3>1. p.exec = q /\ p \in Directory
      BY <1>1, <1>4, <2>1, <2>3, Saves DEF CoherentDirs
    <3>2. mayFinish(p, i) /\ pendingPhase(p) = phase
      <4>1. sameJournal(f, s)
        BY <1>1, <1>4, <2>1, Saves, SameJournal
      <4> QED
        BY <2>2, <2>3, <4>1 DEF sameJournal, mayFinish
    <3>3. saveState(p, q) = p
      BY <3>1 DEF saveState, Directory
    <3> QED
      BY <1>1, <1>4, <2>3, <2>4, <3>2, <3>3, CoherentSave
  <2>6. completing(phase, f, e, i) = <<s, p>> \o <<t>>
    BY <1>1, <1>3, <1>10, <2>1, <2>4 DEF completing, preparePrivateMatch
  <2>7. Good(<<t>>)
    BY <1>8, <1>10, <2>5
  <2>8. <<s, p>> \in Path(CoherentDirs)
    BY <2>2, <2>3 DEF Path
  <2> HIDE DEF Good
  <2> QED
    BY <1>6, <2>6, <2>7, <2>8
<1>11. ASSUME NEW r \in Roles, phase \in {"SUBMITTING_A", "SUBMITTING_B"}
       PROVE  Good(submitParticipantPledge(r, phase, f, e, i))
  <2>1. PICK P : P = f.pledgeFiles \ {r}
    OBVIOUS
  <2>2. PICK g : g = [f EXCEPT !.pledgeFiles = P]
    OBVIOUS
  <2>3. PICK K : K = g.keyFiles \ {r}
    OBVIOUS
  <2>4. PICK h : h = [g EXCEPT !.keyFiles = K]
    OBVIOUS
  <2>5. P \in SUBSET Roles /\ g.journal = f.journal
    BY <1>1, <2>1, <2>2 DEF Directory
  <2>6. g \in CoherentDirs /\ sameJournal(f, g)
    BY <2>2, <2>5, CoherentFiles
  <2>7. K \in SUBSET Roles
    BY <2>3, <2>6 DEF CoherentDirs, Directory
  <2>8. h \in CoherentDirs /\ sameJournal(g, h)
    BY <2>4, <2>6, <2>7, CoherentFiles
  <2>9. sameJournal(f, h)
    BY <2>6, <2>8 DEF sameJournal
  <2>10. Good(<<f>>) /\ Good(<<g>>)
    BY <1>8, <2>5, <2>6
  <2>11. PICK v, w : v = <<g, h>> /\ w = saveAndFinish(h, q, i, "COMPLETED")
    OBVIOUS
  <2>12. v \in Path(CoherentDirs)
    BY <2>6, <2>8, <2>11 DEF Path
  <2> HIDE DEF Good
  <2>13. Good(w)
    BY <1>5, <2>8, <2>9, <2>11
  <2>14. Good(v \o w)
    BY <1>6, <2>12, <2>13
  <2>15. submitParticipantPledge(r, phase, f, e, i) \in {<<f>>, <<g>>, v \o w}
    BY <1>3, <2>1, <2>2, <2>3, <2>4, <2>11 DEF submitParticipantPledge
  <2> QED
    BY <2>10, <2>14, <2>15
<1>12. CASE phase \in {"SUBMITTING_A", "SUBMITTING_B"}
  <2>1. "A" \in Roles /\ "B" \in Roles
    BY DEF Roles
  <2>2. \E r \in Roles : completing(phase, f, e, i) = submitParticipantPledge(r, phase, f, e, i)
    BY <1>12, <2>1 DEF completing
  <2> HIDE DEF Good
  <2> QED
    BY <1>11, <1>12, <2>2
<1>13. CASE phase = "FINALIZING"
  <2>1. completing(phase, f, e, i) = saveAndFinish(f, q, i, "COMPLETED")
    BY <1>3, <1>13 DEF completing, finalizeParticipantSubmissions
  <2> HIDE DEF Good
  <2> QED
    BY <1>5, <1>9, <2>1
<1>14. CASE phase = "EVALUATING"
  <2>1. completing(phase, f, e, i) = saveAndFinish(f, q, i, "COMPLETED")
    BY <1>3, <1>14 DEF completing, evaluatePrivateConflict
  <2> HIDE DEF Good
  <2> QED
    BY <1>5, <1>9, <2>1
<1>15. CASE phase = "RELEASING"
  <2>1. q = afterRelease(e)
    BY <1>3, <1>15 DEF reconstructed
  <2>2. completing(phase, f, e, i) \in {saveAndFinish(f, q, i, "COMPLETED"), <<f>>}
    BY <1>15, <2>1 DEF completing, releaseCoalitionResult, releaseGovernedResult, afterRelease
  <2>3. Good(<<f>>)
    BY <1>8
  <2> HIDE DEF Good
  <2> QED
    BY <1>5, <1>9, <2>2, <2>3
<1>16. CASE phase = "OPENING_RECOURSE"
  <2>1. q = afterRecourse(e, variant.truth, i)
    BY <1>3, <1>16 DEF reconstructed
  <2>2. PICK g : g = published(f, "outcome")
    OBVIOUS
  <2>3. g \in CoherentDirs /\ sameJournal(f, g)
    <3>1. "outcome" \in Artifacts \ {"evaluationAdmitted", "releaseAdmitted"}
      BY DEF Artifacts
    <3> QED
      BY <2>2, <3>1, CoherentPublish
  <2>4. PICK v, w : v = <<g>> /\ w = saveAndFinish(g, q, i, "COMPLETED")
    OBVIOUS
  <2>5. completing(phase, f, e, i) = v \o w
    BY <1>16, <2>1, <2>2, <2>4 DEF completing, openRecourseCase
  <2>6. v \in Path(CoherentDirs)
    BY <2>3, <2>4 DEF Path
  <2> HIDE DEF Good
  <2>7. Good(w)
    BY <1>5, <2>3, <2>4
  <2> QED
    BY <1>6, <2>5, <2>6, <2>7
<1>17. CASE phase = "EXPORTING"
  <2>1. PICK v : v = IF custom THEN customReceipt(f) ELSE <<published(f, "productEvidence")>>
    OBVIOUS
  <2>2. PICK p, c : p = published(f, "productEvidence") /\ c = published(f, "customReceipt")
    OBVIOUS
  <2>3. PICK b : b = published(c, "bridgeEvidence")
    OBVIOUS
  <2>4. {"productEvidence", "customReceipt", "bridgeEvidence"} \subseteq
            Artifacts \ {"evaluationAdmitted", "releaseAdmitted"}
    BY DEF Artifacts
  <2>5. /\ p \in CoherentDirs /\ sameJournal(f, p) /\ c \in CoherentDirs /\ sameJournal(f, c)
    BY <2>2, <2>4, CoherentPublish
  <2>6. b \in CoherentDirs /\ sameJournal(c, b)
    BY <2>3, <2>4, <2>5, CoherentPublish
  <2>7. sameJournal(f, b)
    BY <2>5, <2>6 DEF sameJournal
  <2>8. v \in {<<p>>, <<c>>, <<c, b>>}
    BY <2>1, <2>2, <2>3 DEF customReceipt
  <2>9. v \in Path(CoherentDirs) /\ Last(v) \in CoherentDirs /\ sameJournal(f, Last(v))
    <3>1. CASE v = <<p>>
      BY <2>5, <3>1 DEF Path, Last
    <3>2. CASE v = <<c>>
      BY <2>5, <3>2 DEF Path, Last
    <3>3. CASE v = <<c, b>>
      BY <2>5, <2>6, <2>7, <3>3 DEF Path, Last
    <3> QED
      BY <2>8, <3>1, <3>2, <3>3
  <2>10. PICK w : w = saveAndFinish(Last(v), q, i, "COMPLETED")
    OBVIOUS
  <2>11. completing(phase, f, e, i) = v \o w
    BY <1>3, <1>17, <2>1, <2>10 DEF completing, exportProtectionEvidence
  <2> HIDE DEF Good
  <2>12. Good(w)
    BY <1>5, <2>9, <2>10
  <2> QED
    BY <1>6, <2>9, <2>11, <2>12
<1>18. CASE phase = "RETAINING"
  <2>1. q = e
    BY <1>3, <1>18 DEF reconstructed
  <2>2. saveState(f, q) = f
    BY <1>1, <2>1 DEF saveState, Directory
  <2>3. PICK t : t = finishOperation(f, i, "COMPLETED")
    OBVIOUS
  <2>4. t \in CoherentDirs
    BY <1>1, <1>4, <2>2, <2>3, CoherentSave
  <2>5. completing(phase, f, e, i) = <<t>>
    BY <1>1, <1>18, <2>3 DEF completing, retainProtectionEvidence
  <2>6. Good(<<t>>)
    BY <1>8, <1>18, <2>4
  <2> HIDE DEF Good
  <2> QED
    BY <2>5, <2>6
<1> HIDE DEF Good
<1> QED
  BY <1>1, <1>10, <1>12, <1>13, <1>14, <1>15, <1>16, <1>17, <1>18, PhaseSet

\* A request that is served alone, and its directory.
LEMMA Alone ==
  ASSUME RunInv, NEW c \in Callers, call[c].at # "idle"
  PROVE  /\ variant \in Variants /\ fs \in CoherentDirs /\ fs.exec # None /\ UpToDate(call[c], fs)
         /\ call[c] \in Request /\ Relies(call[c], fs)
         /\ \A d \in Callers : d # c => call[d].at = "idle"
<1>1. /\ variant \in Variants /\ Sound(fs) /\ fs.exec # None /\ call[c] \in Request /\ Coherent(fs)
      /\ UpToDate(call[c], fs) /\ Relies(call[c], fs)
  BY DEF RunInv, Fits, StageInv, Relies
<1>2. fs \in CoherentDirs
  BY <1>1 DEF Sound, CoherentDirs, Directory
<1>3. \A d \in Callers : d # c => call[d].at = "idle"
  BY DEF RunInv, Fits
<1> QED
  BY <1>1, <1>2, <1>3

\* A child that is started has read what is there.
LEMMA ChildUpToDate ==
  ASSUME NEW l, NEW e, l.exec = e, NEW op, NEW phase, pendingOperation(l) # 0,
         pendingPhase(l) = phase, ~abortRecorded(l), e.stage \in sources(phase)
  PROVE  UpToDate(child(op, phase, l, e), l)
<1>1. PICK k : k = child(op, phase, l, e)
  OBVIOUS
<1>2. k.at = "child" /\ k.exec = e /\ k.pend = pendingOperation(l) /\ k.phase = phase
  BY <1>1 DEF child
<1>3. UpToDate(k, l)
  BY <1>2 DEF UpToDate
<1> QED
  BY <1>1, <1>3

\* A request that has ended has nothing to be up to date with.
LEMMA IdleUpToDate ==
  ASSUME NEW f
  PROVE  UpToDate(Idle, f) /\ Idle.at = "idle"
BY DEF UpToDate, Idle

\* What a started child may not find: the admission of its one-shot
\* program.
startsOnce(n, d) ==
    n.at = "child" => /\ n.phase = "EVALUATING" => "evaluationAdmitted" \notin d
                      /\ n.phase = "RELEASING" => "releaseAdmitted" \notin d

\* A one-shot program is begun only if it was not admitted.
LEMMA NotAdmitted ==
  ASSUME NEW f \in CoherentDirs, NEW phase, f.exec.stage \in sources(phase),
         abortRecorded(f) => f.exec.stage = "ABORTED",
         pendingOperation(f) # 0 => ~irreversible(pendingPhase(f), f.disk, TRUE)
  PROVE  /\ phase = "EVALUATING" => "evaluationAdmitted" \notin f.disk
         /\ phase = "RELEASING" => "releaseAdmitted" \notin f.disk
<1>1. Coherent(f) /\ f.exec \in Execution
  BY DEF CoherentDirs
<1>2. ASSUME phase = "EVALUATING", "evaluationAdmitted" \in f.disk
      PROVE  FALSE
  <2>1. f.exec.stage = "PARTICIPANT_B_SUBMITTED"
    BY <1>2 DEF sources
  <2>2. ~past(f.exec, "EVALUATED") /\ ~abortRecorded(f)
    BY <1>1, <2>1, Pasts
  <2>3. pendingIs(f, "EVALUATING")
    BY <1>1, <1>2, <2>2 DEF Coherent
  <2> QED
    BY <1>2, <2>3 DEF pendingIs, irreversible
<1>3. ASSUME phase = "RELEASING", "releaseAdmitted" \in f.disk
      PROVE  FALSE
  <2>1. f.exec.stage = "EVALUATED"
    BY <1>3 DEF sources
  <2>2. ~past(f.exec, "RELEASED") /\ ~abortRecorded(f)
    BY <1>1, <2>1, Pasts
  <2>3. pendingIs(f, "RELEASING")
    BY <1>1, <1>3, <2>2 DEF Coherent
  <2> QED
    BY <1>3, <2>3 DEF pendingIs, irreversible
<1> QED
  BY <1>2, <1>3

\* A request after its inspection.
LEMMA CoherentInspection ==
  ASSUME RunInv, NEW c \in Callers, call[c].at = "inspected"
  PROVE  LET n == afterInspection(c)
         IN  /\ n.steps \in Path(CoherentDirs) /\ after(fs, n.steps) \in CoherentDirs
             /\ UpToDate(n.next, after(fs, n.steps)) /\ startsOnce(n.next, fs.disk)
<1>1. PICK k : k = call[c]
  OBVIOUS
<1>2. /\ variant \in Variants /\ fs \in CoherentDirs /\ fs.exec # None /\ k.exec = fs.exec
      /\ k.pend = pendingOperation(fs) /\ (k.pend # 0 => k.phase = pendingPhase(fs))
      /\ (abortRecorded(fs) => fs.exec.stage = "ABORTED") /\ k.seen = fs.disk
  BY <1>1, Alone DEF UpToDate
<1>3. PICK private : private = (k.op \notin Readers)
  OBVIOUS
<1>4. PICK r : r = reconcileState(fs, fs.exec, pendingOperation(fs), k.phase, fs.disk, private)
  OBVIOUS
<1>5. PICK f, e : f = after(fs, r.steps) /\ e = r.exec
  OBVIOUS
<1>6. /\ r.steps \in Path(CoherentDirs) /\ f \in CoherentDirs /\ e = f.exec
      /\ fs.disk \subseteq f.disk /\ (abortRecorded(f) => f.exec.stage = "ABORTED")
      /\ \/ pendingOperation(f) = 0
         \/ f = fs /\ ~irreversible(k.phase, fs.disk, private)
         \/ f = fs /\ rebuildsEvidence(fs, k.phase)
  <2>1. PICK p : p = k.phase
    OBVIOUS
  <2>2. pendingOperation(fs) # 0 => p = pendingPhase(fs)
    BY <1>2, <2>1
  <2>3. LET x == reconcileState(fs, fs.exec, pendingOperation(fs), p, fs.disk, private)
            g == after(fs, x.steps)
        IN  /\ x.steps \in Path(CoherentDirs) /\ g \in CoherentDirs /\ x.exec = g.exec
            /\ fs.disk \subseteq g.disk /\ (abortRecorded(g) => g.exec.stage = "ABORTED")
            /\ \/ pendingOperation(g) = 0
               \/ g = fs /\ ~irreversible(p, fs.disk, private)
               \/ g = fs /\ rebuildsEvidence(fs, p)
    BY <1>2, <2>2, CoherentReconcile
  <2> QED
    BY <1>4, <1>5, <2>1, <2>3
<1> DEFINE Good(n) == /\ n.steps \in Path(CoherentDirs) /\ after(fs, n.steps) \in CoherentDirs
                      /\ UpToDate(n.next, after(fs, n.steps)) /\ startsOnce(n.next, fs.disk)
<1> SUFFICES Good(afterInspection(c))
  OBVIOUS
<1>7. ASSUME NEW w \in Path(CoherentDirs), w # <<>>, NEW x, UpToDate(x, Last(w)), startsOnce(x, fs.disk)
      PROVE  Good([steps |-> r.steps \o w, next |-> x])
  <2>1. r.steps \o w \in Path(CoherentDirs) /\ after(fs, r.steps \o w) = Last(w) /\ Last(w) \in CoherentDirs
    BY <1>2, <1>6, <1>7, Extends
  <2> QED
    BY <1>7, <2>1
<1>8. startsOnce(Idle, fs.disk)
  BY IdleUpToDate DEF startsOnce
<1>9. Good([steps |-> r.steps, next |-> Idle])
  BY <1>5, <1>6, <1>8, IdleUpToDate
<1>10. ASSUME NEW w \in Path(CoherentDirs), w # <<>>
       PROVE  Good([steps |-> r.steps \o w, next |-> Idle])
  BY <1>7, <1>8, <1>10, IdleUpToDate
<1>11. ASSUME NEW x \in CoherentDirs
       PROVE  <<x>> \in Path(CoherentDirs) /\ <<x>> # <<>>
  BY DEF Path
<1>12. roleOf(k.op) \in Roles
  BY DEF roleOf, Roles
<1>13. PICK g : g = rawParticipantKey(f, roleOf(k.op))
  OBVIOUS
<1>14. Good([steps |-> r.steps \o <<g>>, next |-> Idle])
  <2>1. PICK K : K = f.keyFiles \cup {roleOf(k.op)}
    OBVIOUS
  <2>2. K \in SUBSET Roles
    BY <1>6, <1>12, <2>1 DEF CoherentDirs, Directory
  <2>3. g \in {f, [f EXCEPT !.keyFiles = K]}
    BY <1>13, <2>1 DEF rawParticipantKey
  <2>4. g \in CoherentDirs
    BY <1>6, <2>2, <2>3, CoherentFiles
  <2>5. <<g>> \in Path(CoherentDirs) /\ <<g>> # <<>>
    BY <1>11, <2>4
  <2> HIDE DEF Good
  <2> QED
    BY <1>10, <2>5
<1>15. PICK cl : cl = saveState(f, [e EXCEPT !.claims = @ \cup {roleOf(k.op)}])
  OBVIOUS
<1>16. Good([steps |-> r.steps \o <<cl>>, next |-> Idle])
  <2>1. PICK y : y = [e EXCEPT !.claims = @ \cup {roleOf(k.op)}]
    OBVIOUS
  <2>2. f \in Directory /\ Coherent(f) /\ e \in Execution
    BY <1>6 DEF CoherentDirs
  <2>3. y \in Execution /\ y.stage = e.stage /\ Faithful(y)
    BY <1>6, <1>12, <2>1, <2>2, FaithfulClaim DEF Coherent
  <2>4. /\ cl \in Directory /\ cl.exec = y /\ cl.journal = f.journal /\ cl.disk = f.disk
        /\ cl.profile = f.profile
    BY <1>15, <2>1, <2>2, <2>3, Saves
  <2>5. sameJournal(f, cl)
    BY <2>4, SameJournal
  <2>6. \A p : pendingIs(cl, p) <=> pendingIs(f, p)
    BY <2>5 DEF sameJournal, pendingIs
  <2>7. \A s : past(y, s) <=> past(e, s)
    BY <2>3 DEF past
  <2>8. Coherent(cl)
    BY <1>6, <2>2, <2>3, <2>4, <2>5, <2>6, <2>7 DEF Coherent, sameJournal
  <2>9. cl \in CoherentDirs
    BY <1>6, <2>3, <2>4, <2>5, <2>8 DEF CoherentDirs, sameJournal
  <2>10. <<cl>> \in Path(CoherentDirs) /\ <<cl>> # <<>>
    BY <1>11, <2>9
  <2> HIDE DEF Good
  <2> QED
    BY <1>10, <2>10
<1>17. PICK phase, b : phase = PhaseOf(k.op, e) /\ b = beginning(k.op, f, e)
  OBVIOUS
<1>18. ASSUME admissible(k.op, f, e), k.op \notin {"claimA", "claimB"}, mayBegin(f, phase)
       PROVE  /\ phase \in Phases /\ e.stage \in sources(phase)
              /\ b \in Path(CoherentDirs) /\ b # <<>> /\ Last(b) \in CoherentDirs /\ Last(b).exec = e
              /\ pendingOperation(Last(b)) # 0 /\ pendingPhase(Last(b)) = phase /\ ~abortRecorded(Last(b))
  <2>1. phase \in Phases /\ e.stage \in sources(phase)
    BY <1>2, <1>6, <1>17, <1>18, Admitted
  <2> QED
    BY <1>2, <1>6, <1>17, <1>18, <2>1, CoherentBeginning
<1>19. ASSUME admissible(k.op, f, e), k.op \notin {"claimA", "claimB"}, mayBegin(f, phase),
              phase = "ADVANCING_CURE"
       PROVE  Good([steps |-> r.steps \o (b \o completeCureChronology(Last(b), e, pendingOperation(Last(b)))),
                    next |-> Idle])
  <2>1. PICK l, y, i : /\ l = Last(b) /\ y = [e EXCEPT !.stage = "CHRONOLOGY_COMPLETE"]
                       /\ i = pendingOperation(l)
    OBVIOUS
  <2>2. /\ l \in CoherentDirs /\ l.exec = e /\ i # 0 /\ pendingPhase(l) = "ADVANCING_CURE"
        /\ b \in Path(CoherentDirs) /\ e.stage = "RECOURSE_OPENED"
    BY <1>18, <1>19, <2>1 DEF sources
  <2>3. e \in Execution /\ Faithful(e) /\ i \in Nat /\ mayFinish(l, i)
    BY <2>1, <2>2, Pending DEF CoherentDirs, Coherent, mayFinish
  <2>4. y \in Execution /\ y.stage = "CHRONOLOGY_COMPLETE" /\ Faithful(y)
    BY <1>2, <2>1, <2>2, <2>3, FaithfulChronology
  <2>5. PICK v : v = saveAndFinish(l, y, i, "COMPLETED")
    OBVIOUS
  <2>6. v \in Path(CoherentDirs) /\ v # <<>>
    BY <2>2, <2>3, <2>4, <2>5, Targets, CoherentSaveAndFinish
  <2>7. b \o v \in Path(CoherentDirs) /\ b \o v # <<>>
    BY <2>2, <2>6, Concatenates
  <2>8. PICK w : w = b \o v
    OBVIOUS
  <2>9. Good([steps |-> r.steps \o w, next |-> Idle])
    <3>1. w \in Path(CoherentDirs) /\ w # <<>>
      BY <2>7, <2>8
    <3> HIDE DEF Good
    <3> QED
      BY <1>10, <3>1
  <2>10. b \o completeCureChronology(Last(b), e, pendingOperation(Last(b))) = w
    BY <2>1, <2>5, <2>8 DEF completeCureChronology
  <2> HIDE DEF Good
  <2> QED
    BY <2>9, <2>10
<1>20. ASSUME admissible(k.op, f, e), k.op \notin {"claimA", "claimB"}, mayBegin(f, phase), private
       PROVE  Good([steps |-> r.steps \o b, next |-> child(k.op, phase, Last(b), e)])
  <2>1. PICK l : l = Last(b)
    OBVIOUS
  <2>2. PICK y : y = child(k.op, phase, l, e)
    OBVIOUS
  <2>3. /\ l \in CoherentDirs /\ l.exec = e /\ pendingOperation(l) # 0 /\ pendingPhase(l) = phase
        /\ ~abortRecorded(l) /\ b \in Path(CoherentDirs) /\ b # <<>> /\ e.stage \in sources(phase)
    BY <1>18, <1>20, <2>1
  <2>4. UpToDate(y, l)
    BY <2>2, <2>3, ChildUpToDate
  <2>5. pendingOperation(f) # 0 => ~irreversible(pendingPhase(f), f.disk, TRUE)
    BY <1>2, <1>6, <1>20 DEF irreversible, rebuildsEvidence
  <2>6. /\ phase = "EVALUATING" => "evaluationAdmitted" \notin f.disk
        /\ phase = "RELEASING" => "releaseAdmitted" \notin f.disk
    BY <1>6, <2>3, <2>5, NotAdmitted
  <2>7. startsOnce(y, fs.disk)
    <3>1. y.phase = phase
      BY <2>2 DEF child
    <3> QED
      BY <1>6, <2>6, <3>1 DEF startsOnce
  <2>8. Good([steps |-> r.steps \o b, next |-> y])
    BY <1>7, <2>1, <2>3, <2>4, <2>7
  <2> HIDE DEF Good
  <2> QED
    BY <2>1, <2>2, <2>8
<1> DEFINE N == afterInspection(c)
<1>21. \/ N = [steps |-> r.steps, next |-> Idle]
       \/ N = [steps |-> r.steps \o <<g>>, next |-> Idle]
       \/ N = [steps |-> r.steps \o <<cl>>, next |-> Idle]
       \/ /\ admissible(k.op, f, e) /\ k.op \notin {"claimA", "claimB"} /\ mayBegin(f, phase)
          /\ phase = "ADVANCING_CURE"
          /\ N = [steps |-> r.steps \o (b \o completeCureChronology(Last(b), e, pendingOperation(Last(b)))),
                  next |-> Idle]
       \/ /\ admissible(k.op, f, e) /\ k.op \notin {"claimA", "claimB"} /\ mayBegin(f, phase) /\ private
          /\ N = [steps |-> r.steps \o b, next |-> child(k.op, phase, Last(b), e)]
  <2> HIDE DEF Good
  <2>1. Continues(c)
    BY Continuations
  <2>2. r = reconcileState(fs, k.exec, k.pend, k.phase, k.seen, k.op \notin Readers)
    BY <1>2, <1>3, <1>4
  <2>3. private <=> k.op \notin Readers
    BY <1>3
  <2> QED
    BY <1>1, <1>5, <1>13, <1>15, <1>17, <2>1, <2>2, <2>3 DEF Continues
<1> HIDE DEF Good, N
<1> QED
  BY <1>9, <1>14, <1>16, <1>19, <1>20, <1>21 DEF N

\* A request after its child.
LEMMA CoherentChild ==
  ASSUME RunInv, NEW c \in Callers, call[c].at = "child", call[c].left = <<>>
  PROVE  LET n == afterChild(c)
         IN  /\ n.steps \in Path(CoherentDirs) /\ after(fs, n.steps) \in CoherentDirs
             /\ UpToDate(n.next, after(fs, n.steps))
<1>1. PICK k : k = call[c]
  OBVIOUS
<1>2. /\ variant \in Variants /\ fs \in CoherentDirs /\ k.exec = fs.exec
      /\ k.pend = pendingOperation(fs) /\ k.pend # 0 /\ k.phase = pendingPhase(fs)
      /\ k.exec.stage \in sources(k.phase) /\ k.phase # "ADVANCING_CURE"
  BY <1>1, Alone DEF UpToDate, Relies
<1>3. PICK w, f, b : /\ w = completing(k.phase, fs, k.exec, k.pend) /\ f = Last(w)
                     /\ b = beginOperation(f, "FINALIZING")
  OBVIOUS
<1>4. /\ w \in Path(CoherentDirs) /\ w # <<>> /\ f \in CoherentDirs
      /\ k.phase = "SUBMITTING_B" /\ f.journal[k.pend].outcome = "COMPLETED" =>
            /\ pendingOperation(f) = 0 /\ ~abortRecorded(f)
            /\ f.exec.stage = "PARTICIPANT_B_PUBLISHED"
  BY <1>2, <1>3, CoherentCompleting
<1> DEFINE Good(n) == /\ n.steps \in Path(CoherentDirs) /\ after(fs, n.steps) \in CoherentDirs
                      /\ UpToDate(n.next, after(fs, n.steps))
<1> SUFFICES Good(afterChild(c))
  OBVIOUS
<1>5. Good([steps |-> w, next |-> Idle])
  <2>1. after(fs, w) = f
    BY <1>2, <1>3, <1>4, LastWritten
  <2> QED
    BY <1>4, <2>1, IdleUpToDate
<1>6. ASSUME k.phase = "SUBMITTING_B", f.journal[k.pend].outcome = "COMPLETED"
      PROVE  Good([steps |-> w \o <<b>>, next |-> child(k.op, "FINALIZING", b, f.exec)])
  <2>1. /\ pendingOperation(f) = 0 /\ ~abortRecorded(f) /\ f.exec.stage = "PARTICIPANT_B_PUBLISHED"
        /\ "FINALIZING" \in Phases /\ mayBegin(f, "FINALIZING") /\ f.exec.stage \in sources("FINALIZING")
    BY <1>4, <1>6, PhaseSet DEF mayBegin, sources
  <2>2. /\ b \in CoherentDirs /\ b.exec = f.exec
        /\ pendingOperation(b) # 0 /\ pendingPhase(b) = "FINALIZING" /\ ~abortRecorded(b)
    BY <1>3, <1>4, <2>1, CoherentBegin
  <2>3. PICK y : y = child(k.op, "FINALIZING", b, f.exec)
    OBVIOUS
  <2>4. UpToDate(y, b)
    BY <2>1, <2>2, <2>3, ChildUpToDate
  <2>5. PICK v : v = <<b>>
    OBVIOUS
  <2>6. v \in Path(CoherentDirs) /\ v # <<>> /\ Last(v) = b
    BY <2>2, <2>5 DEF Path, Last
  <2>7. w \o v \in Path(CoherentDirs) /\ after(fs, w \o v) = b
    BY <1>2, <1>4, <2>6, Extends
  <2>8. PICK u : u = w \o v
    OBVIOUS
  <2>9. Good([steps |-> u, next |-> y])
    BY <2>2, <2>4, <2>7, <2>8
  <2> HIDE DEF Good
  <2> QED
    BY <2>3, <2>5, <2>8, <2>9
<1>7. \/ afterChild(c) = [steps |-> w, next |-> Idle]
      \/ /\ k.phase = "SUBMITTING_B" /\ f.journal[k.pend].outcome = "COMPLETED"
         /\ afterChild(c) = [steps |-> w \o <<b>>, next |-> child(k.op, "FINALIZING", b, f.exec)]
  BY <1>1, <1>3 DEF afterChild
<1> HIDE DEF Good
<1> QED
  BY <1>5, <1>6, <1>7

\* Whatever a request is ready to do.
LEMMA CoherentReady ==
  ASSUME RunInv, NEW c \in Callers, NEW n \in ready(c)
  PROVE  /\ n.steps \in Path(CoherentDirs) /\ after(fs, n.steps) \in CoherentDirs
         /\ UpToDate(n.next, after(fs, n.steps)) /\ call[c].at # "idle"
         /\ call[c].at # "child" => startsOnce(n.next, fs.disk)
<1>1. \/ call[c].at = "inspected" /\ n = afterInspection(c)
      \/ call[c].at = "child" /\ call[c].left = <<>> /\ n = afterChild(c)
  BY DEF ready
<1>2. CASE call[c].at = "inspected" /\ n = afterInspection(c)
  BY <1>2, CoherentInspection
<1>3. CASE call[c].at = "child" /\ call[c].left = <<>> /\ n = afterChild(c)
  BY <1>3, CoherentChild
<1> QED
  BY <1>1, <1>2, <1>3

\* The invariant after a step, from what the step leaves.
LEMMA RunStep ==
  ASSUME StageInv', variant' = variant, NEW g, fs' = g, g.exec # None => Coherent(g),
         g.exec = None => g.journal = <<>> /\ g.disk = {},
         Fits(call', lock', g)
  PROVE  RunInv'
<1>1. ASSUME g.exec # None
      PROVE  Coherent(fs)'
  <2>1. Faithful(g.exec) => Faithful(fs.exec)'
    BY DEF Faithful
  <2>2. Coherent(g) /\ Faithful(g.exec)
    BY <1>1 DEF Coherent
  <2> QED
    BY <2>1, <2>2 DEF Coherent
<1>2. Fits(call, lock, fs)'
  BY DEF Fits
<1> QED
  BY <1>1, <1>2 DEF RunInv

\* The only request that runs takes a step; the others are idle.
LEMMA OnlyRequest ==
  ASSUME RunInv, NEW c \in Callers, NEW n, NEW g, NEW l, UpToDate(n, g),
         \A d \in Callers : d # c => call[d].at = "idle",
         n.at # "idle" => l = c \/ \A d \in Callers : d = c
  PROVE  Fits([call EXCEPT ![c] = n], l, g)
<1>1. call \in [Callers -> Request]
  BY DEF RunInv, StageInv
<1>2. PICK calls : calls = [call EXCEPT ![c] = n]
  OBVIOUS
<1>3. calls[c] = n /\ \A d \in Callers : d # c => calls[d] = call[d]
  BY <1>1, <1>2
<1>4. ASSUME NEW d \in Callers
      PROVE  /\ calls[d].at # "idle" => l = d \/ \A x \in Callers : x = d
             /\ UpToDate(calls[d], g)
  <2>1. CASE d = c
    BY <1>3, <2>1
  <2>2. CASE d # c
    <3>1. calls[d] = call[d] /\ call[d].at = "idle"
      BY <1>3, <2>2
    <3> QED
      BY <3>1 DEF UpToDate
  <2> QED
    BY <2>1, <2>2
<1>5. Fits(calls, l, g)
  BY <1>4 DEF Fits
<1> QED
  BY <1>2, <1>5

\* Requests that are all idle are up to date with anything.
LEMMA AllIdle ==
  ASSUME NEW calls, NEW l, NEW g, \A d \in Callers : calls[d].at = "idle"
  PROVE  Fits(calls, l, g)
BY DEF UpToDate, Fits

\* A child publishes some of its objects: an admission is of the pending
\* operation.
LEMMA RunPublication ==
  ASSUME RunInv, NEW c \in Callers, publish(c)
  PROVE  RunInv'
<1>1. PICK k : k = call[c]
  OBVIOUS
<1>2. PICK v : v = IF ChildrenFail THEN <<Head(k.left)>> ELSE k.left
  OBVIOUS
<1>3. PICK l : l = SubSeq(k.left, Len(v) + 1, Len(k.left))
  OBVIOUS
<1>4. PICK g : g = [fs EXCEPT !.disk = @ \cup ToSet(v)]
  OBVIOUS
<1>5. PICK n : n = [k EXCEPT !.left = l]
  OBVIOUS
<1>6. k.at = "child" /\ k.left # <<>> /\ variant' = variant /\ lock' = lock
  BY <1>1 DEF publish
<1>7. /\ fs \in CoherentDirs /\ fs.exec # None /\ UpToDate(k, fs) /\ k \in Request /\ Relies(k, fs)
      /\ \A d \in Callers : d # c => call[d].at = "idle"
  BY <1>1, <1>6, Alone
<1>8. fs' = g /\ call' = [call EXCEPT ![c] = n]
  BY <1>1, <1>2, <1>3, <1>4, <1>5, <1>6 DEF publish
<1>9. k.left \in Seq(Artifacts) /\ fs \in Directory
  BY <1>7 DEF Request, CoherentDirs
<1>10. ToSet(v) \subseteq ToSet(k.left)
  BY <1>2, <1>6, <1>9, Parts
<1>11. /\ g.exec = fs.exec /\ g.journal = fs.journal /\ g.profile = fs.profile
       /\ g.disk = fs.disk \cup ToSet(v)
  BY <1>4, <1>9 DEF Directory
<1>12. /\ k.pend = pendingOperation(fs) /\ k.pend # 0 /\ k.phase = pendingPhase(fs)
       /\ ToSet(v) \subseteq objects(k.phase) /\ k.phase \in Phases
  BY <1>6, <1>7, <1>10 DEF UpToDate, Relies
<1>13. sameJournal(fs, g)
  BY <1>11, SameJournal
<1>14. Coherent(g)
  <2>1. Coherent(fs)
    BY <1>7 DEF CoherentDirs
  <2>2. \A p : pendingIs(g, p) <=> pendingIs(fs, p)
    BY <1>13 DEF sameJournal, pendingIs
  <2>3. /\ "evaluationAdmitted" \in ToSet(v) => pendingIs(fs, "EVALUATING")
        /\ "releaseAdmitted" \in ToSet(v) => pendingIs(fs, "RELEASING")
    <3>1. /\ "evaluationAdmitted" \in objects(k.phase) => k.phase = "EVALUATING"
          /\ "releaseAdmitted" \in objects(k.phase) => k.phase = "RELEASING"
      BY <1>12, PhaseSet DEF objects
    <3> QED
      BY <1>12, <3>1 DEF pendingIs
  <2> QED
    BY <1>11, <1>13, <2>1, <2>2, <2>3 DEF Coherent, sameJournal
<1>15. n.at = k.at /\ UpToDate(n, g)
  <2>1. /\ n.at = k.at /\ n.exec = k.exec /\ n.pend = k.pend /\ n.phase = k.phase
    BY <1>5, <1>7 DEF Request
  <2> QED
    BY <1>6, <1>7, <1>11, <1>13, <2>1 DEF UpToDate, sameJournal
<1>16. StageInv'
  BY SoundPublication DEF RunInv
<1>17. lock = c \/ \A d \in Callers : d = c
  BY <1>1, <1>6 DEF RunInv, Fits
<1>18. Fits(call', lock', g)
  <2>1. PICK h : h = lock'
    OBVIOUS
  <2>2. Fits([call EXCEPT ![c] = n], h, g)
    BY <2>1, <1>6, <1>7, <1>8, <1>15, <1>17, OnlyRequest
  <2> QED
    BY <2>1, <2>2, <1>6, <1>7, <1>8, <1>15, <1>17
<1> QED
  BY <1>6, <1>7, <1>8, <1>11, <1>14, <1>16, <1>18, RunStep

\* Every step of requests that are served one after the other.
LEMMA RunNext ==
  ASSUME Sequential, RunInv, [Next]_vars
  PROVE  RunInv'
<1>0. /\ StageInv /\ StageInv' /\ variant \in Variants /\ Sound(fs) /\ fs \in Directory
      /\ call \in [Callers -> Request] /\ \A x \in Callers : Relies(call[x], fs)
  BY StageNext DEF RunInv, StageInv, Sound
<1>a. ASSUME fs.exec # None
      PROVE  fs \in CoherentDirs
  BY <1>0, <1>a DEF RunInv, CoherentDirs, Sound, Directory
<1>b. ASSUME NEW g \in CoherentDirs
      PROVE  g.exec # None /\ Coherent(g)
  BY NoneAssumption DEF CoherentDirs
<1>1. CASE create
  <2>1. /\ fs' = saveState(fs, NewExecution) /\ variant' = variant /\ call' = call /\ lock' = lock
        /\ fs.exec = None
    BY <1>1 DEF create
  <2>2. fs.journal = <<>> /\ fs.disk = {} /\ \A c \in Callers : call[c].at = "idle"
    BY <1>0, <2>1 DEF RunInv, Fits, Relies
  <2>3. PICK e : e = NewExecution
    OBVIOUS
  <2>4. e \in Execution /\ e.stage = "CASE_CREATED"
    BY <2>3, StageSet DEF NewExecution, Execution
  <2>5. PICK g : g = saveState(fs, e)
    OBVIOUS
  <2>6. g \in Directory /\ g.exec = e /\ g.journal = <<>> /\ g.disk = {}
    BY <1>0, <2>2, <2>4, <2>5, Saves
  <2>7. pendingOperation(g) = 0 /\ \A p : ~pendingIs(g, p)
    BY <2>6 DEF pendingOperation, pendingIs
  <2>8. Faithful(e)
    <3>1. /\ e.keys = FALSE /\ e.subs = {} /\ e.evaluated = FALSE /\ e.release = None
          /\ e.coalitionRelease = None /\ e.plan = FALSE /\ e.recourse = None /\ e.receipt = FALSE
      BY <2>3 DEF NewExecution
    <3>4. "A" \notin e.subs /\ "B" \notin e.subs
      BY <3>1
    <3> QED
      BY <2>4, <3>1, <3>4, FaithfulStages DEF Execution
  <2>9. Coherent(g)
    <3>1. ~past(e, "RECOURSE_OPENED")
      BY <2>4, Pasts
    <3> QED
      BY <2>4, <2>6, <2>7, <2>8, <3>1 DEF Coherent
  <2>10. g.exec # None
    BY <2>4, <2>6, NoneAssumption
  <2>11. Fits(call', lock', g)
    BY <2>1, <2>2, AllIdle
  <2> QED
    BY <1>0, <2>1, <2>2, <2>3, <2>5, <2>9, <2>10, <2>11, RunStep
<1>2. ASSUME NEW r \in Roles, admitRole(r)
      PROVE  RunInv'
  <2>1. /\ fs' = [fs EXCEPT !.ledger = @ \cup {r}] /\ variant' = variant /\ call' = call /\ lock' = lock
        /\ fs.exec # None
    BY <1>2 DEF admitRole
  <2>2. PICK g : g = [fs EXCEPT !.ledger = @ \cup {r}]
    OBVIOUS
  <2>3. /\ g \in Directory /\ g.exec = fs.exec /\ g.journal = fs.journal /\ g.disk = fs.disk
        /\ g.profile = fs.profile
    BY <1>0, <2>2 DEF Directory
  <2>4. g \in CoherentDirs /\ sameJournal(fs, g)
    BY <1>a, <2>1, <2>3, SameStory
  <2>5. Fits(call, lock, g)
    BY <2>3, <2>4 DEF RunInv, Fits, UpToDate, sameJournal
  <2> QED
    BY <1>0, <1>b, <2>1, <2>2, <2>4, <2>5, RunStep
<1>3. ASSUME NEW c \in Callers, NEW op \in Operations, enter(c, op)
      PROVE  RunInv'
  <2>1. /\ variant' = variant /\ fs.exec # None /\ fs.exec \in Execution /\ fs \in CoherentDirs
        /\ mayEnter(op) /\ call[c].at = "idle"
    BY <1>3, <1>a DEF enter, CoherentDirs
  <2>2. CASE abortRecorded(fs) /\ fs.exec.stage # "ABORTED"
    <3>1. /\ fs' = saveState(fs, [fs.exec EXCEPT !.stage = "ABORTED"])
          /\ call' = call /\ lock' = lock
      BY <1>3, <2>2 DEF enter, abortRecorded
    <3>2. \A d \in Callers : call[d].at = "idle"
      BY <2>2 DEF RunInv, UpToDate, Fits
    <3>3. PICK e : e = [fs.exec EXCEPT !.stage = "ABORTED"]
      OBVIOUS
    <3>4. PICK g : g = saveState(fs, e)
      OBVIOUS
    <3>5. e \in Execution /\ e.stage = "ABORTED"
      BY <2>1, <3>3, StageSet DEF Execution
    <3>6. g \in Directory /\ g.exec = e /\ g.journal = fs.journal /\ g.disk = fs.disk
      BY <1>0, <3>4, <3>5, Saves
    <3>7. abortRecorded(g) /\ pendingOperation(g) = 0 /\ \A p : ~pendingIs(g, p)
      BY <1>0, <2>2, <3>6, SameJournal, AbortedOrPending DEF sameJournal, pendingIs
    <3>8. Coherent(g) /\ g.exec # None
      BY <3>5, <3>6, <3>7, NoneAssumption DEF Coherent, Faithful, past
    <3>9. Fits(call', lock', g)
      BY <3>1, <3>2, AllIdle
    <3> QED
      BY <1>0, <2>1, <3>1, <3>2, <3>3, <3>4, <3>8, <3>9, RunStep
  <2>3. CASE ~(abortRecorded(fs) /\ fs.exec.stage # "ABORTED")
    <3>1. PICK p, i, e : /\ p = IF pendingOperation(fs) = 0 THEN None ELSE Last(fs.journal).phase
                         /\ i = pendingOperation(fs) /\ e = fs.exec
      OBVIOUS
    <3>2. PICK n : n = [Idle EXCEPT !.op = op, !.at = "inspecting", !.exec = e, !.pend = i, !.phase = p]
      OBVIOUS
    <3>3. /\ n.at = "inspecting" /\ n.exec = e /\ n.pend = i /\ n.phase = p
      BY <3>2 DEF Idle
    <3>4. fs' = fs /\ call' = [call EXCEPT ![c] = n] /\ lock' = takes(c, op)
      BY <1>3, <2>3, <3>1, <3>2 DEF enter, abortRecorded
    <3>5. UpToDate(n, fs)
      BY <2>3, <3>1, <3>3 DEF UpToDate, pendingPhase
    <3>6. /\ lock' = c \/ \A d \in Callers : d = c
          /\ \A d \in Callers : d # c => call[d].at = "idle"
      <4>1. CASE \A x \in Callers, d \in Callers : x = d
        BY <4>1
      <4>2. CASE Operations \cap Readers = {}
        <5>1. op \notin Readers /\ lock = None /\ lock' = c
          BY <2>1, <3>4, <4>2 DEF mayEnter, Readers, takes
        <5>2. \A d \in Callers : call[d].at # "idle" => lock = d \/ \A x \in Callers : x = d
          BY DEF RunInv, Fits
        <5>3. None \notin Callers
          BY NoneAssumption
        <5> QED
          BY <5>1, <5>2, <5>3
      <4> QED
        BY <4>1, <4>2 DEF Sequential
    <3>7. Fits(call', lock', fs)
      <4>1. PICK h : h = lock'
        OBVIOUS
      <4>2. Fits([call EXCEPT ![c] = n], h, fs)
        BY <4>1, <3>4, <3>5, <3>6, OnlyRequest
      <4> QED
        BY <4>1, <4>2, <3>4, <3>5, <3>6
    <3> QED
      BY <1>0, <1>b, <2>1, <3>4, <3>7, RunStep
  <2> QED
    BY <2>2, <2>3
<1>4. ASSUME NEW c \in Callers, inspect(c)
      PROVE  RunInv'
  <2>1. PICK k, n : k = call[c] /\ n = [k EXCEPT !.at = "inspected", !.seen = fs.disk]
    OBVIOUS
  <2>2. /\ k \in Request /\ k.at = "inspecting" /\ fs' = fs /\ variant' = variant /\ lock' = lock
        /\ call' = [call EXCEPT ![c] = n]
    BY <1>0, <1>4, <2>1 DEF inspect
  <2>3. /\ n.at = "inspected" /\ n.exec = k.exec /\ n.pend = k.pend /\ n.phase = k.phase /\ n.seen = fs.disk
    BY <2>1, <2>2 DEF Request
  <2>4. /\ fs \in CoherentDirs /\ UpToDate(k, fs) /\ \A d \in Callers : d # c => call[d].at = "idle"
    BY <2>1, <2>2, Alone
  <2>5. UpToDate(n, fs)
    BY <2>2, <2>3, <2>4 DEF UpToDate
  <2>6. lock = c \/ \A d \in Callers : d = c
    BY <2>1, <2>2 DEF RunInv, Fits
  <2>7. Fits(call', lock', fs)
    <3>1. PICK h : h = lock'
      OBVIOUS
    <3>2. Fits([call EXCEPT ![c] = n], h, fs)
      BY <3>1, <2>2, <2>4, <2>5, <2>6, OnlyRequest
    <3> QED
      BY <3>1, <3>2, <2>2, <2>4, <2>5, <2>6
  <2> QED
    BY <1>0, <1>b, <2>2, <2>4, <2>7, RunStep
<1>5. ASSUME NEW c \in Callers, continue(c)
      PROVE  RunInv'
  <2>1. PICK n \in ready(c) : /\ fs' = Last(<<fs>> \o n.steps) /\ call' = [call EXCEPT ![c] = n.next]
                              /\ lock' = releases(c, n.next) /\ variant' = variant
    BY <1>5 DEF continue
  <2>2. PICK g, x : g = after(fs, n.steps) /\ x = n.next
    OBVIOUS
  <2>3. fs' = g
    BY <2>1, <2>2 DEF after
  <2>4. g \in CoherentDirs /\ UpToDate(x, g) /\ call[c].at # "idle"
    BY <2>2, CoherentReady
  <2>5. \A d \in Callers : d # c => call[d].at = "idle"
    BY <2>4, Alone
  <2>6. x.at # "idle" => lock' = c \/ \A d \in Callers : d = c
    BY <2>1, <2>2, <2>4 DEF RunInv, releases, Fits
  <2>7. Fits(call', lock', g)
    <3>1. PICK h : h = lock'
      OBVIOUS
    <3>2. Fits([call EXCEPT ![c] = x], h, g)
      BY <3>1, <2>1, <2>2, <2>4, <2>5, <2>6, OnlyRequest
    <3> QED
      BY <3>1, <3>2, <2>1, <2>2, <2>4, <2>5, <2>6
  <2> QED
    BY <1>0, <1>b, <2>1, <2>3, <2>4, <2>7, RunStep
<1>6. ASSUME NEW c \in Callers, publish(c)
      PROVE  RunInv'
  BY <1>6, RunPublication
<1>7. ASSUME NEW c \in Callers, childFails(c)
      PROVE  RunInv'
  <2>1. fs' = fs /\ variant' = variant /\ call' = [call EXCEPT ![c] = Idle] /\ call[c].at # "idle"
    BY <1>7 DEF childFails
  <2>2. fs \in CoherentDirs /\ \A d \in Callers : d # c => call[d].at = "idle"
    BY <2>1, Alone
  <2>3. Fits(call', lock', fs)
    <3>1. PICK h : h = lock'
      OBVIOUS
    <3>2. Fits([call EXCEPT ![c] = Idle], h, fs)
      BY <3>1, <2>1, <2>2, IdleUpToDate, OnlyRequest
    <3> QED
      BY <3>1, <3>2, <2>1, <2>2, IdleUpToDate
  <2> QED
    BY <1>0, <1>b, <2>1, <2>2, <2>3, RunStep
<1>8. CASE Crash
  <2>1. variant' = variant /\ call' = [c \in Callers |-> Idle]
    BY <1>8 DEF Crash
  <2>2. \A d \in Callers : call'[d].at = "idle"
    BY <2>1, IdleUpToDate
  <2>3. PICK g : g = fs'
    OBVIOUS
  <2>4. (g.exec # None => Coherent(g)) /\ (g.exec = None => g.journal = <<>> /\ g.disk = {})
    <3>1. CASE fs' = fs
      BY <2>3, <3>1 DEF RunInv
    <3>2. ASSUME NEW c \in Callers, NEW n \in ready(c), NEW i \in 1 .. Len(n.steps) - 1, fs' = n.steps[i]
          PROVE  g \in CoherentDirs
      <4>1. n.steps \in Seq(CoherentDirs)
        BY CoherentReady DEF Path
      <4>2. i \in 1 .. Len(n.steps)
        BY <4>1
      <4>3. n.steps[i] \in CoherentDirs
        BY <4>1, <4>2
      <4> QED
        BY <2>3, <3>2, <4>3
    <3> QED
      BY <1>8, <1>b, <3>1, <3>2 DEF Crash
  <2>5. Fits(call', lock', g)
    BY <2>2, AllIdle
  <2> QED
    BY <1>0, <2>1, <2>2, <2>3, <2>4, <2>5, RunStep
<1>9. CASE UNCHANGED vars
  <2>1. fs' = fs /\ variant' = variant /\ call' = call /\ lock' = lock
    BY <1>9 DEF vars
  <2>2. /\ fs.exec # None => Coherent(fs)
        /\ fs.exec = None => fs.journal = <<>> /\ fs.disk = {}
        /\ Fits(call, lock, fs)
    BY DEF RunInv
  <2> QED
    BY <1>0, <2>1, <2>2, RunStep
<1> QED
  BY <1>1, <1>2, <1>3, <1>4, <1>5, <1>6, <1>7, <1>8, <1>9 DEF Next

\* Before the case is created there is nothing.
LEMMA RunInit ==
  ASSUME Init
  PROVE  RunInv
<1>1. StageInv /\ fs = EmptyDirectory /\ call = [c \in Callers |-> Idle]
  BY StageInit DEF Init
<1>2. fs.exec = None /\ fs.journal = <<>> /\ fs.disk = {}
  BY <1>1 DEF EmptyDirectory
<1>3. \A c \in Callers : call[c].at = "idle"
  BY <1>1, IdleUpToDate
<1>4. Fits(call, lock, fs)
  BY <1>3, AllIdle
<1> QED
  BY <1>1, <1>2, <1>4 DEF RunInv

\* Requests that are served one after the other find, whatever stopped the
\* process before, a record, a journal and objects that tell one story
\* (RunInv).
THEOREM RunInvariant ==
  ASSUME Sequential
  PROVE  Spec => []RunInv
<1>1. Init => RunInv
  BY RunInit
<1>2. RunInv /\ [Next]_vars => RunInv'
  BY RunNext
<1> QED
  BY <1>1, <1>2, PTL DEF Spec

\* A record that was recovered from the published objects is the record
\* the uninterrupted operations would have left, wherever the process was
\* stopped, for requests that are served one after the other.
THEOREM RecoveryStaysFaithful ==
  ASSUME Sequential
  PROVE  Spec => []RecoveryIsFaithful
<1>1. ASSUME RunInv
      PROVE  RecoveryIsFaithful
  <2>1. SUFFICES ASSUME fs.exec # None, fs.exec.stage # "ABORTED"
                 PROVE  RecoveryIsFaithful
    BY DEF RecoveryIsFaithful
  <2>2. Faithful(fs.exec)
    BY <1>1, <2>1 DEF RunInv, Coherent
  <2>3. \A s : past(fs.exec, s) = reached(s)
    BY <2>1 DEF past, reached
  <2> QED
    BY <2>1, <2>2, <2>3 DEF Faithful, RecoveryIsFaithful
<1> QED
  BY <1>1, RunInvariant, PTL

\* The evaluator and the release boundary are never started again once the
\* run was admitted to them, for requests that are served one after the
\* other: a restart finds the admission and aborts instead.
THEOREM IrreversibleStartsOnce ==
  ASSUME Sequential
  PROVE  Spec => IrreversibleOnce
<1> DEFINE Once ==
        \A c \in Callers :
            call[c].at # "child" /\ call'[c].at = "child" =>
                /\ call'[c].phase = "EVALUATING" => "evaluationAdmitted" \notin fs.disk
                /\ call'[c].phase = "RELEASING" => "releaseAdmitted" \notin fs.disk
<1>1. ASSUME RunInv, [Next]_vars
      PROVE  Once
  <2>0. call \in [Callers -> Request]
    BY <1>1 DEF RunInv, StageInv
  <2>1. ASSUME call' = call
        PROVE  Once
    BY <2>1
  <2>2. ASSUME NEW c \in Callers, NEW n, call' = [call EXCEPT ![c] = n],
               call[c].at # "child" => startsOnce(n, fs.disk)
        PROVE  Once
    <3>1. SUFFICES ASSUME NEW d \in Callers, call[d].at # "child", call'[d].at = "child"
                   PROVE  /\ call'[d].phase = "EVALUATING" => "evaluationAdmitted" \notin fs.disk
                          /\ call'[d].phase = "RELEASING" => "releaseAdmitted" \notin fs.disk
      OBVIOUS
    <3>2. CASE d = c
      BY <2>0, <2>2, <3>1, <3>2 DEF startsOnce
    <3>3. CASE d # c
      BY <2>0, <2>2, <3>1, <3>3
    <3> QED
      BY <3>2, <3>3
  <2> HIDE DEF Once
  <2>3. ASSUME NEW c \in Callers, NEW op \in Operations, enter(c, op)
        PROVE  Once
    <3>1. PICK n : n = [Idle EXCEPT !.op = op, !.at = "inspecting", !.exec = fs.exec,
                                    !.pend = pendingOperation(fs),
                                    !.phase = IF pendingOperation(fs) = 0 THEN None ELSE Last(fs.journal).phase]
      OBVIOUS
    <3>2. n.at = "inspecting"
      BY <3>1 DEF Idle
    <3>3. startsOnce(n, fs.disk)
      BY <3>2 DEF startsOnce
    <3>4. call' = call \/ call' = [call EXCEPT ![c] = n]
      BY <2>3, <3>1 DEF enter
    <3> QED
      BY <2>1, <2>2, <3>3, <3>4
  <2>4. ASSUME NEW c \in Callers, inspect(c)
        PROVE  Once
    <3>1. PICK k, n : k = call[c] /\ n = [k EXCEPT !.at = "inspected", !.seen = fs.disk]
      OBVIOUS
    <3>2. k \in Request /\ call' = [call EXCEPT ![c] = n]
      BY <2>0, <2>4, <3>1 DEF inspect
    <3>3. n.at = "inspected"
      BY <3>1, <3>2 DEF Request
    <3>4. startsOnce(n, fs.disk)
      BY <3>3 DEF startsOnce
    <3> QED
      BY <2>2, <3>2, <3>4
  <2>5. ASSUME NEW c \in Callers, continue(c)
        PROVE  Once
    <3>1. PICK n \in ready(c) : call' = [call EXCEPT ![c] = n.next]
      BY <2>5 DEF continue
    <3>2. call[c].at # "child" => startsOnce(n.next, fs.disk)
      BY <1>1, CoherentReady
    <3> QED
      BY <2>2, <3>1, <3>2
  <2>6. ASSUME NEW c \in Callers, publish(c)
        PROVE  Once
    <3>1. PICK n : call' = [call EXCEPT ![c] = n]
      BY <2>6 DEF publish
    <3>2. call[c].at = "child"
      BY <2>6 DEF publish
    <3> QED
      BY <2>2, <3>1, <3>2
  <2>7. ASSUME NEW c \in Callers, childFails(c)
        PROVE  Once
    <3>1. call' = [call EXCEPT ![c] = Idle]
      BY <2>7 DEF childFails
    <3>2. startsOnce(Idle, fs.disk)
      BY IdleUpToDate DEF startsOnce
    <3> QED
      BY <2>2, <3>1, <3>2
  <2>8. CASE Crash
    <3>1. \A d \in Callers : call'[d].at = "idle"
      BY <2>8, IdleUpToDate DEF Crash
    <3> QED
      BY <3>1 DEF Once
  <2>9. CASE create \/ UNCHANGED vars
    BY <2>1, <2>9 DEF create, vars
  <2>10. ASSUME NEW r \in Roles, admitRole(r)
         PROVE  Once
    BY <2>1, <2>10 DEF admitRole
  <2> QED
    BY <1>1, <2>3, <2>4, <2>5, <2>6, <2>7, <2>8, <2>9, <2>10 DEF Next
<1>2. RunInv /\ [Next]_vars => [Once]_vars
  BY <1>1
<1> QED
  BY <1>2, RunInvariant, PTL DEF Spec, IrreversibleOnce

\* The operation on offer at each stage.
LEMMA Offers ==
  ASSUME variant \in Variants, NEW e \in Execution, Faithful(e), e.stage # "ABORTED",
         variant.coalition => ~past(e, "RECOURSE_OPENED")
  PROVE  LET op == offered(e)
         IN  /\ e.stage = "CASE_CREATED" => op = "prepare"
             /\ e.stage = "MATCH_PREPARED" => op = "submitA"
             /\ e.stage \in {"PARTICIPANT_A_SUBMITTED", "PARTICIPANT_B_PUBLISHED"} => op = "submitB"
             /\ e.stage = "PARTICIPANT_B_SUBMITTED" => op = "evaluate"
             /\ e.stage = "EVALUATED" => op = "release"
             /\ e.stage = "RELEASED" => op = IF variant.coalition THEN None ELSE "recourse"
             /\ e.stage = "RECOURSE_OPENED" => op = IF variant.truth THEN "cure" ELSE "export"
             /\ e.stage = "CHRONOLOGY_COMPLETE" => op = "export"
             /\ e.stage = "COMPLETE" => op = None
<1>1. PICK s, op : s = e.stage /\ op = offered(e)
  OBVIOUS
<1>2. variant.truth \in BOOLEAN /\ None \notin BOOLEAN /\ (variant.coalition => custom)
  BY VariantFields, NoneAssumption DEF custom
<1>3. CASE s \in {"CASE_CREATED", "MATCH_PREPARED", "PARTICIPANT_A_SUBMITTED", "PARTICIPANT_B_PUBLISHED",
                  "PARTICIPANT_B_SUBMITTED", "EVALUATED"}
  <2>1. e.release = None /\ e.coalitionRelease = None
    BY <1>1, <1>3, FaithfulStages
  <2>2. op = nextOperationBeforeRelease(e)
    BY <1>1, <1>3, <2>1 DEF offered, publicView, customSupervisedView, nextOperation
  <2> QED
    BY <1>1, <1>3, <2>2 DEF nextOperationBeforeRelease
<1>4. CASE s \in {"RELEASED", "RECOURSE_OPENED", "CHRONOLOGY_COMPLETE", "COMPLETE"}
  <2>1. CASE variant.coalition
    <3>1. s = "RELEASED"
      BY <1>1, <1>4, <2>1, Pasts
    <3>2. e.coalitionRelease = variant.truth
      BY <1>1, <2>1, <3>1, FaithfulStages
    <3>3. op = None
      BY <1>1, <1>2, <2>1, <3>2 DEF offered, customSupervisedView
    <3> QED
      BY <1>1, <2>1, <3>1, <3>3
  <2>2. CASE ~variant.coalition
    <3>1. e.release = variant.truth /\ e.coalitionRelease = None
      BY <1>1, <1>4, <2>2, FaithfulStages
    <3>2. op = nextOperation(e, variant.truth)
      BY <1>1, <1>2, <2>2, <3>1 DEF offered, publicView, customSupervisedView
    <3> QED
      BY <1>1, <1>4, <2>2, <3>2 DEF nextOperation, nextOperationBeforeRelease
  <2> QED
    BY <2>1, <2>2
<1>5. s \in ToSet(Stages)
  BY <1>1 DEF Execution
<1> QED
  BY <1>1, <1>3, <1>4, <1>5, StageSet

\* The operation on offer is admissible, and it is the one a pending
\* operation that has not been saved belongs to.
LEMMA OfferedIsAdmissible ==
  ASSUME variant \in Variants, variant.kind # "admitted", NEW f \in CoherentDirs, NEW e, e = f.exec,
         e.stage # "ABORTED", NEW op, op = offered(e), op # None
  PROVE  /\ admissible(op, f, e) /\ e.stage # "COMPLETE"
         /\ pendingOperation(f) # 0 /\ e.stage \in sources(pendingPhase(f)) =>
                PhaseOf(op, e) = pendingPhase(f)
<1>1. /\ e \in Execution /\ Faithful(e) /\ (variant.coalition => ~past(e, "RECOURSE_OPENED"))
      /\ (variant.coalition /\ e.stage = "EVALUATED" => f.profile)
      /\ e.stage = "CHRONOLOGY_COMPLETE" \/ pendingIs(f, "ADVANCING_CURE") => variant.truth
      /\ pendingIs(f, "EXPORTING") /\ e.stage = "RECOURSE_OPENED" => ~variant.truth
      /\ pendingOperation(f) # 0 => pendingPhase(f) \in Phases
  BY DEF CoherentDirs, Coherent
<1>2. variant.truth \in BOOLEAN /\ None \notin BOOLEAN
  BY VariantFields, NoneAssumption
<1>3. PICK s : s = e.stage
  OBVIOUS
<1>4. claimed("A", e) /\ claimed("B", e)
  BY DEF claimed
<1>5. ASSUME NEW p \in Phases, s \in sources(p)
      PROVE  /\ s = "CASE_CREATED" => p = "PREPARING"
             /\ s = "MATCH_PREPARED" => p = "SUBMITTING_A"
             /\ s = "PARTICIPANT_A_SUBMITTED" => p = "SUBMITTING_B"
             /\ s = "PARTICIPANT_B_PUBLISHED" => p = "FINALIZING"
             /\ s = "PARTICIPANT_B_SUBMITTED" => p = "EVALUATING"
             /\ s = "EVALUATED" => p = "RELEASING"
             /\ s = "RELEASED" => p = "OPENING_RECOURSE"
             /\ s = "RECOURSE_OPENED" => p \in {"ADVANCING_CURE", "EXPORTING"}
             /\ s = "CHRONOLOGY_COMPLETE" => p = "EXPORTING"
  BY <1>5, PhaseSet DEF sources
<1>6. CASE s \in {"CASE_CREATED", "MATCH_PREPARED", "PARTICIPANT_A_SUBMITTED", "PARTICIPANT_B_PUBLISHED",
                  "PARTICIPANT_B_SUBMITTED", "EVALUATED"}
  <2>1. s = "MATCH_PREPARED" => e.keys
    BY <1>1, <1>3, FaithfulStages
  <2>2. /\ s = "CASE_CREATED" => op = "prepare"
        /\ s = "MATCH_PREPARED" => op = "submitA"
        /\ s \in {"PARTICIPANT_A_SUBMITTED", "PARTICIPANT_B_PUBLISHED"} => op = "submitB"
        /\ s = "PARTICIPANT_B_SUBMITTED" => op = "evaluate"
        /\ s = "EVALUATED" => op = "release"
    BY <1>1, <1>3, Offers
  <2>3. admissible(op, f, e)
    BY <1>1, <1>3, <1>4, <1>6, <2>1, <2>2 DEF admissible
  <2>4. ASSUME pendingOperation(f) # 0, s \in sources(pendingPhase(f))
        PROVE  PhaseOf(op, e) = pendingPhase(f)
    BY <1>1, <1>3, <1>5, <1>6, <2>2, <2>4 DEF PhaseOf
  <2> QED
    BY <1>3, <1>6, <2>3, <2>4
<1>7. CASE s \in {"RELEASED", "RECOURSE_OPENED", "CHRONOLOGY_COMPLETE", "COMPLETE"}
  <2>1. /\ s = "RELEASED" => op = IF variant.coalition THEN None ELSE "recourse"
        /\ s = "RECOURSE_OPENED" => op = IF variant.truth THEN "cure" ELSE "export"
        /\ s = "CHRONOLOGY_COMPLETE" => op = "export"
        /\ s = "COMPLETE" => op = None
    BY <1>1, <1>3, Offers
  <2>2. ~variant.coalition /\ s # "COMPLETE"
    BY <1>1, <1>3, <1>7, <2>1, Pasts
  <2>3. e.release = variant.truth /\ (s # "RELEASED" => e.recourse = variant.truth)
    BY <1>1, <1>3, <1>7, <2>2, FaithfulStages
  <2>4. admissible(op, f, e)
    <3>1. CASE s = "RELEASED"
      BY <1>2, <1>3, <2>1, <2>2, <2>3, <3>1 DEF admissible
    <3>2. CASE s = "RECOURSE_OPENED" /\ variant.truth
      BY <1>2, <1>3, <2>1, <2>2, <2>3, <3>2 DEF admissible
    <3>3. CASE s = "RECOURSE_OPENED" /\ ~variant.truth
      BY <1>2, <1>3, <2>1, <2>2, <2>3, <3>3 DEF admissible
    <3>4. CASE s = "CHRONOLOGY_COMPLETE"
      BY <1>1, <1>2, <1>3, <2>1, <2>2, <2>3, <3>4 DEF admissible
    <3> QED
      BY <1>7, <2>2, <3>1, <3>2, <3>3, <3>4
  <2>5. ASSUME pendingOperation(f) # 0, s \in sources(pendingPhase(f))
        PROVE  PhaseOf(op, e) = pendingPhase(f)
    <3>1. PICK p \in Phases : p = pendingPhase(f)
      BY <1>1, <2>5
    <3>2. /\ p = "ADVANCING_CURE" => variant.truth
          /\ p = "EXPORTING" /\ s = "RECOURSE_OPENED" => ~variant.truth
      BY <1>1, <1>3, <2>5, <3>1 DEF pendingIs
    <3>3. /\ s = "RELEASED" => p = "OPENING_RECOURSE"
          /\ s = "RECOURSE_OPENED" => p \in {"ADVANCING_CURE", "EXPORTING"}
          /\ s = "CHRONOLOGY_COMPLETE" => p = "EXPORTING"
      BY <1>5, <2>5, <3>1
    <3> QED
      BY <1>7, <2>1, <2>2, <3>1, <3>2, <3>3 DEF PhaseOf
  <2> QED
    BY <1>3, <2>2, <2>4, <2>5
<1>8. s \in ToSet(Stages)
  BY <1>1, <1>3 DEF Execution
<1> QED
  BY <1>3, <1>6, <1>7, <1>8, StageSet

\* A saved operation is proven by what is published.
LEMMA SavedIsProven ==
  ASSUME variant \in Variants, NEW f \in CoherentDirs, Closed(f.disk), NEW e, e = f.exec,
         proven(e.stage, f.disk), NEW phase \in Phases, e.stage = Target[phase], e.stage # "COMPLETE"
  PROVE  proves(f, e, phase, f.disk, TRUE)
<1>1. e \in Execution /\ Faithful(e) /\ (variant.coalition => ~past(e, "RECOURSE_OPENED"))
  BY DEF CoherentDirs, Coherent
<1>2. CASE phase \in {"PREPARING", "SUBMITTING_A", "SUBMITTING_B", "FINALIZING", "EVALUATING", "RELEASING"}
  BY <1>2, Targets DEF proves, proven, provenBy
<1>3. CASE phase = "OPENING_RECOURSE"
  <2>1. e.stage = "RECOURSE_OPENED"
    BY <1>3, Targets
  <2>2. "record" \in f.disk \/ "outcome" \in f.disk
    BY <2>1 DEF proven, provenBy
  <2>3. ~variant.coalition
    BY <1>1, <2>1, Pasts
  <2>4. e.release = variant.truth /\ variant.truth # None
    BY <1>1, <2>1, <2>3, FaithfulStages, VariantFields, NoneAssumption
  <2> QED
    BY <1>3, <2>2, <2>4 DEF proves
<1>4. CASE phase = "ADVANCING_CURE"
  BY <1>4, Targets DEF proves
<1>5. phase \notin {"EXPORTING", "RETAINING"}
  BY Targets
<1> QED
  BY <1>2, <1>3, <1>4, <1>5, PhaseSet

\* The operation the view offers is one the server accepts, whatever
\* stopped the process before, for requests that are served one after the
\* other: reconciliation closes the pending record of another phase.
THEOREM OfferStaysAccepted ==
  ASSUME Sequential
  PROVE  Spec => []OfferIsAccepted
<1>1. ASSUME RunInv
      PROVE  OfferIsAccepted
  <2>1. SUFFICES ASSUME fs.exec # None, ~recordedAbort, variant.kind # "admitted"
                 PROVE  OfferIsAccepted
    BY DEF OfferIsAccepted, quiet
  <2>2. /\ variant \in Variants /\ Sound(fs) /\ Coherent(fs) /\ fs \in Directory /\ ~abortRecorded(fs)
    BY <1>1, <2>1 DEF RunInv, StageInv, Sound, recordedAbort, abortRecorded
  <2>3. fs \in CoherentDirs
    BY <2>1, <2>2 DEF CoherentDirs, Sound, Directory
  <2>4. PICK phase : phase = IF fs.journal = <<>> THEN None ELSE Last(fs.journal).phase
    OBVIOUS
  <2>5. pendingOperation(fs) # 0 => phase = pendingPhase(fs) /\ phase \in Phases
    BY <2>2, <2>4 DEF pendingOperation, pendingPhase, Sound
  <2>6. PICK i, d : i = pendingOperation(fs) /\ d = fs.disk
    OBVIOUS
  <2>7. PICK r : r = reconcileState(fs, fs.exec, i, phase, d, TRUE)
    OBVIOUS
  <2>8. PICK f, e, op : f = after(fs, r.steps) /\ e = r.exec /\ op = offered(e)
    OBVIOUS
  <2>9. /\ f \in CoherentDirs /\ e = f.exec
        /\ \/ pendingOperation(f) = 0
           \/ f = fs /\ (proves(fs, fs.exec, phase, d, TRUE) => custom /\ rebuildsEvidence(fs, phase))
    <3>1. PICK private : private = TRUE
      OBVIOUS
    <3>0. /\ pendingOperation(fs) # 0 => phase = pendingPhase(fs)
          /\ abortRecorded(fs) => fs.exec.stage = "ABORTED"
      BY <2>2, <2>5
    <3>2. LET x == reconcileState(fs, fs.exec, pendingOperation(fs), phase, fs.disk, private)
              g == after(fs, x.steps)
          IN  /\ x.steps \in Path(CoherentDirs) /\ g \in CoherentDirs /\ x.exec = g.exec
              /\ fs.disk \subseteq g.disk /\ (abortRecorded(g) => g.exec.stage = "ABORTED")
              /\ \/ pendingOperation(g) = 0
                 \/ /\ g = fs
                    /\ \/ /\ ~proves(fs, fs.exec, phase, fs.disk, private)
                          /\ ~irreversible(phase, fs.disk, private)
                       \/ /\ proves(fs, fs.exec, phase, fs.disk, private)
                          /\ custom /\ rebuildsEvidence(fs, phase)
      BY <2>1, <2>2, <2>3, <3>0, CoherentReconcile
    <3> QED
      BY <2>6, <2>7, <2>8, <3>1, <3>2
  <2>10. ASSUME op # None, e.stage # "ABORTED"
         PROVE  admissible(op, f, e) /\ mayBegin(f, PhaseOf(op, e))
    <3>1. /\ admissible(op, f, e) /\ e.stage # "COMPLETE"
          /\ pendingOperation(f) # 0 /\ e.stage \in sources(pendingPhase(f)) =>
                PhaseOf(op, e) = pendingPhase(f)
      BY <2>1, <2>2, <2>8, <2>9, <2>10, OfferedIsAdmissible
    <3>2. ASSUME pendingOperation(f) # 0
          PROVE  e.stage \in sources(pendingPhase(f))
      <4>1. f = fs /\ e = fs.exec /\ phase = pendingPhase(fs) /\ phase \in Phases
        BY <2>5, <2>9, <3>2
      <4>2. e.stage \in sources(phase) \cup {Target[phase]}
        BY <2>2, <3>2, <4>1 DEF Coherent
      <4>3. ASSUME e.stage = Target[phase]
            PROVE  FALSE
        <5>1. proves(fs, fs.exec, phase, d, TRUE)
          BY <2>1, <2>2, <2>3, <2>6, <3>1, <4>1, <4>3, SavedIsProven DEF Sound
        <5>2. phase = "EXPORTING"
          BY <2>9, <3>2, <5>1 DEF rebuildsEvidence
        <5> QED
          BY <3>1, <4>3, <5>2, Targets
      <4> QED
        BY <4>1, <4>2, <4>3
    <3>3. mayBegin(f, PhaseOf(op, e))
      BY <3>1, <3>2 DEF mayBegin, pendingPhase
    <3> QED
      BY <3>1, <3>3
  <2>11. reloaded(TRUE) = r
    BY <2>4, <2>6, <2>7 DEF reloaded
  <2> QED
    BY <2>8, <2>10, <2>11 DEF OfferIsAccepted, after
<1> QED
  BY <1>1, RunInvariant, PTL
=============================================================================
