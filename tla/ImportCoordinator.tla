------------------------- MODULE ImportCoordinator -------------------------
(***************************************************************************)
(* The coordinator of participant-originated imports: it reserves a role   *)
(* and three nonces for an upload ticket with a write-ahead log, takes the *)
(* ciphertext and then the manifest of that ticket, has them verified and  *)
(* published, and recovers all of it from its directory when it restarts.  *)
(*                                                                         *)
(* Several coordinator processes may share the directory.  Inside one      *)
(* process reservations exclude each other, and so do the uploads of one   *)
(* ticket; between processes only the files order anything, so a step here *)
(* is one file operation that another process can see.                     *)
(***************************************************************************)
EXTENDS Naturals, Sequences, FiniteSets

CONSTANTS
    Procs,          \* coordinator processes sharing the directory
    Tickets,        \* upload tickets, one per import request
    Claims,         \* role and nonce files
    needs,          \* per ticket: its role claim and then its nonce claims
    Faults,         \* TRUE: an external callback may fail
    TornAppends,    \* TRUE: a crash may cut a journal line short
    Expiring,       \* tickets whose authorization may expire
    Uploaders,      \* tickets whose client goes on to upload
    MaxCrashes,
    Dead,           \* the owner recorded by a process that is gone
    None

ASSUME ImportAssumption ==
    /\ needs \in [Tickets -> Seq(Claims)]
    /\ {Faults, TornAppends} \subseteq BOOLEAN
    /\ Uploaders \subseteq Tickets /\ Expiring \subseteq Tickets
    /\ MaxCrashes \in Nat
    /\ None \notin Tickets

VARIABLES
    pinned,         \* TRUE: the external stager; FALSE: the built-in one
    up,             \* processes that run
    gate,           \* per process: what the reservation lock is held for
    job,            \* per process and ticket: where its upload or recovery is
    client,         \* per ticket: what its client knows
    intent,         \* per ticket: the owner its intent file names, or None
    commit,         \* tickets with a commit file
    claim,          \* per role or nonce file: the ticket it names, or None
    ciphertext, manifest,   \* per ticket: the object in quarantine
    marked,         \* tickets with a ciphertext stage marker
    published,      \* tickets with a published marker
    failure,        \* per ticket: the failure marker's state, or None
    torn,           \* the journal ends in half a line
    publication,    \* per ticket: what the publisher has put in the public root
    expired,
    crashes,
    met             \* history: processes that ran while another one did

files == <<intent, commit, claim>>
objects == <<ciphertext, manifest, marked, published, failure, publication>>
vars == <<pinned, up, gate, job, client, files, objects, torn, expired, crashes,
          met>>

Free == [for |-> "none", pc |-> "idle", t |-> None, u |-> None, i |-> 0,
         todo |-> {}]
NoJob == [pc |-> "idle", recovered |-> FALSE, uncertain |-> FALSE]

JobSteps == {"idle", "stageCiphertext", "streamCiphertext", "markCiphertext",
             "log", "stageManifest", "streamManifest", "logManifest", "hash",
             "reconcile", "verify", "publish", "publishing", "mark"}

TypeOK ==
    /\ pinned \in BOOLEAN
    /\ up \subseteq Procs
    /\ gate \in [Procs ->
           [for: {"none", "begin", "start"},
            pc: {"idle", "scan", "rollback", "unlink", "intent", "claim",
                 "commit", "journal", "recover"},
            t: Tickets \cup {None}, u: Tickets \cup {None}, i: Nat,
            todo: SUBSET Tickets]]
    /\ job \in [Procs -> [Tickets ->
           [pc: JobSteps, recovered: BOOLEAN, uncertain: BOOLEAN]]]
    /\ client \in [Tickets -> {"new", "asking", "holds", "refused", "lost"}]
    /\ intent \in [Tickets -> Procs \cup {Dead, None}]
    /\ commit \subseteq Tickets
    /\ claim \in [Claims -> Tickets \cup {None}]
    /\ ciphertext \in [Tickets -> {"absent", "partial", "exact"}]
    /\ manifest \in [Tickets -> {"absent", "partial", "exact"}]
    /\ marked \subseteq Tickets /\ published \subseteq Tickets
    /\ failure \in [Tickets -> {None, "FAILED", "RECONCILIATION_REQUIRED"}]
    /\ torn \in BOOLEAN
    /\ publication \in [Tickets -> {"none", "begun", "complete"}]
    /\ expired \subseteq Tickets
    /\ crashes \in 0 .. MaxCrashes

Init ==
    /\ pinned \in BOOLEAN
    /\ up = {}
    /\ gate = [p \in Procs |-> Free]
    /\ job = [p \in Procs |-> [t \in Tickets |-> NoJob]]
    /\ client = [t \in Tickets |-> "new"]
    /\ intent = [t \in Tickets |-> None]
    /\ commit = {}
    /\ claim = [c \in Claims |-> None]
    /\ ciphertext = [t \in Tickets |-> "absent"]
    /\ manifest = [t \in Tickets |-> "absent"]
    /\ marked = {} /\ published = {}
    /\ failure = [t \in Tickets |-> None]
    /\ torn = FALSE
    /\ publication = [t \in Tickets |-> "none"]
    /\ expired = {}
    /\ crashes = 0
    /\ met = {}

-----------------------------------------------------------------------------
(* What the code reads                                                     *)

intents == {t \in Tickets : intent[t] # None}

serving(p) == p \in up /\ gate[p].for # "start"

assertUploadAvailable(t) ==
    t \notin expired /\ t \notin published /\ failure[t] = None

publicStatus(t) ==
    IF t \in published THEN "PUBLISHED"
    ELSE IF failure[t] # None THEN failure[t]
    ELSE IF manifest[t] # "absent" THEN "VERIFYING"
    ELSE IF ciphertext[t] # "absent" THEN "CIPHERTEXT_STAGED"
    ELSE "RESERVED"

\* The failure markers once t has failed: the first marker stays
recordTerminalFailure(t, state) ==
    IF failure[t] = None THEN [failure EXCEPT ![t] = state] ELSE failure

-----------------------------------------------------------------------------
(* Starting, and the scan of the reservation log that starting and every   *)
(* new reservation begin with                                              *)

restoreJournal == ~torn

createCoordinator(p) ==
    /\ p \notin up
    /\ restoreJournal
    /\ up' = up \cup {p}
    /\ gate' = [gate EXCEPT ![p] =
           [Free EXCEPT !.for = "start", !.pc = "scan", !.todo = intents]]
    /\ UNCHANGED <<job, client, files, objects, torn, expired, crashes>>

beginImport(p, t) ==
    /\ serving(p) /\ gate[p] = Free
    /\ client[t] = "new" /\ t \notin expired
    /\ client' = [client EXCEPT ![t] = "asking"]
    /\ gate' = [gate EXCEPT ![p] =
           [Free EXCEPT !.for = "begin", !.pc = "scan", !.t = t, !.todo = intents]]
    /\ UNCHANGED <<up, job, files, objects, torn, expired, crashes>>

\* The operation ends in an error: the request is refused, a start is given up
refuse(p) ==
    /\ gate' = [gate EXCEPT ![p] = Free]
    /\ up' = IF gate[p].for = "start" THEN up \ {p} ELSE up
    /\ client' = IF gate[p].for = "begin"
                 THEN [client EXCEPT ![gate[p].t] = "refused"] ELSE client

scanNext(p, rest) == gate' = [gate EXCEPT ![p].todo = rest]

mayRollBack(p, u) == intent[u] = Dead

integrity(u) == \A i \in DOMAIN needs[u] : claim[needs[u][i]] \in {u, None}

recoverCommitted(p, u) ==
    /\ u \in commit
    /\ \/ /\ integrity(u)
          /\ claim' = [c \in Claims |->
                 IF \E i \in DOMAIN needs[u] : needs[u][i] = c THEN u ELSE claim[c]]
          /\ scanNext(p, gate[p].todo \ {u})
          /\ UNCHANGED <<up, client>>
       \/ /\ ~integrity(u)
          /\ refuse(p)
          /\ UNCHANGED claim

recoverUncommitted(p, u) ==
    /\ u \notin commit
    /\ UNCHANGED claim
    /\ \/ /\ intent[u] = None       \* removed since the directory was listed
          /\ refuse(p)
       \/ /\ intent[u] # None /\ ~mayRollBack(p, u)
          /\ scanNext(p, gate[p].todo \ {u})
          /\ UNCHANGED <<up, client>>
       \/ /\ intent[u] # None /\ mayRollBack(p, u)
          /\ gate' = [gate EXCEPT ![p].pc = "rollback", ![p].u = u,
                                  ![p].i = Len(needs[u])]
          /\ UNCHANGED <<up, client>>

recoverReservationTransactions(p) ==
    /\ gate[p].pc = "scan"
    /\ \E u \in gate[p].todo : recoverCommitted(p, u) \/ recoverUncommitted(p, u)
    /\ UNCHANGED <<job, intent, commit, objects, torn, expired, crashes>>

scanned(p) ==
    /\ gate[p].pc = "scan" /\ gate[p].todo = {}
    /\ gate' = [gate EXCEPT
           ![p].pc = IF gate[p].for = "begin" THEN "intent" ELSE "recover",
           ![p].todo = IF gate[p].for = "begin" THEN {} ELSE commit]
    /\ UNCHANGED <<up, job, client, files, objects, torn, expired, crashes>>

-----------------------------------------------------------------------------
(* Rolling a reservation back: a claim is read and, when it names the      *)
(* ticket, removed; nothing keeps another process from acting in between   *)

removeExactReservationClaim(p) ==
    LET u == gate[p].u  i == gate[p].i IN
    /\ gate[p].pc = "rollback" /\ i > 0
    /\ gate' = IF claim[needs[u][i]] = u
               THEN [gate EXCEPT ![p].pc = "unlink"]
               ELSE [gate EXCEPT ![p].i = i - 1]
    /\ UNCHANGED <<up, job, client, files, objects, torn, expired, crashes>>

unlinkClaim(p) ==
    LET c == needs[gate[p].u][gate[p].i] IN
    /\ gate[p].pc = "unlink"
    /\ \/ /\ claim[c] # None
          /\ claim' = [claim EXCEPT ![c] = None]
          /\ gate' = [gate EXCEPT ![p].pc = "rollback", ![p].i = @ - 1]
          /\ UNCHANGED <<up, client>>
       \/ /\ claim[c] = None        \* ENOENT
          /\ refuse(p)
          /\ UNCHANGED claim
    /\ UNCHANGED <<job, intent, commit, objects, torn, expired, crashes>>

\* rollbackReservationTransaction's end: the intent goes last
rolledBack(p) ==
    LET u == gate[p].u IN
    /\ gate[p].pc = "rollback" /\ gate[p].i = 0
    /\ intent' = [intent EXCEPT ![u] = None]
    /\ IF gate[p].t = u THEN refuse(p)
       ELSE /\ gate' = [gate EXCEPT ![p].pc = "scan", ![p].u = None, ![p].i = 0,
                                    ![p].todo = @ \ {u}]
            /\ UNCHANGED <<up, client>>
    /\ UNCHANGED <<job, commit, claim, objects, torn, expired, crashes>>

-----------------------------------------------------------------------------
(* Reserving: intent, claims, commit, journal                              *)

writeIntent(p) ==
    /\ gate[p].pc = "intent"
    /\ intent' = [intent EXCEPT ![gate[p].t] = p]
    /\ gate' = [gate EXCEPT ![p].pc = "claim", ![p].i = 1]
    /\ UNCHANGED <<up, job, client, commit, claim, objects, torn, expired, crashes>>

occupied(t, c) == claim[c] \notin {t, None}

createOrVerifyReservationClaim(p) ==
    LET t == gate[p].t  i == gate[p].i IN
    /\ gate[p].pc = "claim" /\ i <= Len(needs[t])
    /\ IF occupied(t, needs[t][i])
       THEN /\ gate' = [gate EXCEPT ![p].pc = "rollback", ![p].u = t,
                                    ![p].i = Len(needs[t])]
            /\ UNCHANGED claim
       ELSE /\ claim' = [claim EXCEPT ![needs[t][i]] = t]
            /\ gate' = [gate EXCEPT ![p].i = i + 1]
    /\ UNCHANGED <<up, job, client, intent, commit, objects, torn, expired, crashes>>

\* Mistake: the commit marker is written before the claims
writeCommit_Early(p) ==
    /\ gate[p].pc = "claim"
    /\ commit' = commit \cup {gate[p].t}
    /\ gate' = [gate EXCEPT ![p].pc = "journal"]
    /\ UNCHANGED <<up, job, client, intent, claim, objects, torn, expired, crashes>>

writeCommit(p) ==
    /\ gate[p].pc = "claim" /\ gate[p].i > Len(needs[gate[p].t])
    /\ commit' = commit \cup {gate[p].t}
    /\ gate' = [gate EXCEPT ![p].pc = "journal"]
    /\ UNCHANGED <<up, job, client, intent, claim, objects, torn, expired, crashes>>

\* appendJournal IMPORT_RESERVED, and the response with the ticket
reserved(p) ==
    /\ gate[p].pc = "journal"
    /\ client' = [client EXCEPT ![gate[p].t] = "holds"]
    /\ gate' = [gate EXCEPT ![p] = Free]
    /\ UNCHANGED <<up, job, files, objects, torn, expired, crashes>>

-----------------------------------------------------------------------------
(* Uploads: the ciphertext first                                           *)

at(p, t, s) == job[p][t].pc = s
goto(p, t, s) == job' = [job EXCEPT ![p][t].pc = s]
done(p, t) == job' = [job EXCEPT ![p][t] = NoJob]

\* The job ends with a failure marker: a new one has its journal line still
\* to come
failed(p, t, state) ==
    /\ failure' = recordTerminalFailure(t, state)
    /\ IF failure[t] = None THEN goto(p, t, "log") ELSE done(p, t)

outside == <<up, gate, client, files, torn, expired, crashes>>

uploadCiphertext(p, t) ==
    /\ serving(p) /\ job[p][t] = NoJob
    /\ t \in Uploaders /\ client[t] = "holds" /\ t \in commit
    /\ assertUploadAvailable(t)
    /\ goto(p, t, "stageCiphertext")
    /\ UNCHANGED <<outside, objects>>

\* An object that exists refuses the stream.  The built-in stager says so with
\* a replay code, the pinned one with its own error
replayed(p, t) ==
    IF pinned THEN failed(p, t, "FAILED") ELSE done(p, t) /\ UNCHANGED failure

\* The object comes to be there: at once from the pinned stager, which links a
\* complete file, byte by byte from the built-in one
stageCiphertext(p, t) ==
    /\ at(p, t, "stageCiphertext")
    /\ \/ ciphertext[t] # "absent" /\ replayed(p, t) /\ UNCHANGED ciphertext
       \/ /\ ciphertext[t] = "absent" /\ pinned
          /\ ciphertext' = [ciphertext EXCEPT ![t] = "exact"]
          /\ goto(p, t, "markCiphertext") /\ UNCHANGED failure
       \/ /\ ciphertext[t] = "absent" /\ ~pinned
          /\ ciphertext' = [ciphertext EXCEPT ![t] = "partial"]
          /\ goto(p, t, "streamCiphertext") /\ UNCHANGED failure
       \/ /\ ciphertext[t] = "absent"     \* wrong, cut short or timed out
          /\ failed(p, t, "FAILED") /\ UNCHANGED ciphertext
    /\ UNCHANGED <<outside, manifest, marked, published, publication>>

streamCiphertext(p, t) ==
    /\ at(p, t, "streamCiphertext")
    /\ \/ /\ ciphertext' = [ciphertext EXCEPT ![t] = "exact"]
          /\ goto(p, t, "markCiphertext") /\ UNCHANGED failure
       \/ /\ ciphertext' = [ciphertext EXCEPT ![t] = "absent"]
          /\ failed(p, t, "FAILED")
    /\ UNCHANGED <<outside, manifest, marked, published, publication>>

markCiphertext(p, t) ==
    /\ at(p, t, "markCiphertext")
    /\ \/ /\ t \notin marked
          /\ marked' = marked \cup {t}
          /\ goto(p, t, "log") /\ UNCHANGED failure
       \/ t \in marked /\ failed(p, t, "FAILED") /\ UNCHANGED marked
    /\ UNCHANGED <<outside, ciphertext, manifest, published, publication>>

\* appendJournal after a marker, and the response
logged(p, t) ==
    /\ at(p, t, "log")
    /\ done(p, t)
    /\ UNCHANGED <<outside, objects>>

-----------------------------------------------------------------------------
(* Uploads: the manifest last, and what follows it                         *)

manifestInOrder(t) == t \in marked

uploadArtifactManifest(p, t) ==
    /\ serving(p) /\ job[p][t] = NoJob
    /\ t \in Uploaders /\ client[t] = "holds" /\ t \in commit
    /\ assertUploadAvailable(t) /\ manifestInOrder(t)
    /\ goto(p, t, "stageManifest")
    /\ UNCHANGED <<outside, objects>>

stageManifest(p, t) ==
    /\ at(p, t, "stageManifest")
    /\ \/ manifest[t] # "absent" /\ replayed(p, t) /\ UNCHANGED manifest
       \/ /\ manifest[t] = "absent" /\ pinned
          /\ manifest' = [manifest EXCEPT ![t] = "exact"]
          /\ goto(p, t, "logManifest") /\ UNCHANGED failure
       \/ /\ manifest[t] = "absent" /\ ~pinned
          /\ manifest' = [manifest EXCEPT ![t] = "partial"]
          /\ goto(p, t, "streamManifest") /\ UNCHANGED failure
       \/ /\ manifest[t] = "absent"
          /\ failed(p, t, "FAILED") /\ UNCHANGED manifest
    /\ UNCHANGED <<outside, ciphertext, marked, published, publication>>

streamManifest(p, t) ==
    /\ at(p, t, "streamManifest")
    /\ \/ /\ manifest' = [manifest EXCEPT ![t] = "exact"]
          /\ goto(p, t, "logManifest") /\ UNCHANGED failure
       \/ /\ manifest' = [manifest EXCEPT ![t] = "absent"]
          /\ failed(p, t, "FAILED")
    /\ UNCHANGED <<outside, ciphertext, marked, published, publication>>

logManifest(p, t) ==
    /\ at(p, t, "logManifest")
    /\ goto(p, t, "hash")
    /\ UNCHANGED <<outside, objects>>

\* Mistake: what is in quarantine is not hashed again
exactObjects_Any(t) == TRUE
exactObjects(t) == ciphertext[t] = "exact" /\ manifest[t] = "exact"

hashObjects(p, t) ==
    /\ at(p, t, "hash")
    /\ IF exactObjects(t)
       THEN /\ goto(p, t, IF job[p][t].recovered THEN "reconcile" ELSE "verify")
            /\ UNCHANGED failure
       ELSE failed(p, t, "FAILED")
    /\ UNCHANGED <<outside, ciphertext, manifest, marked, published, publication>>

\* No exact completion was found: the import goes on unless it is uncertain
notCompleted(p, t) ==
    IF job[p][t].uncertain THEN failed(p, t, "FAILED")
    ELSE goto(p, t, "verify") /\ UNCHANGED failure

reconcilePublication(p, t) ==
    /\ at(p, t, "reconcile")
    /\ \/ Faults /\ failed(p, t, "FAILED")      \* the readback is rejected
       \/ publication[t] = "complete" /\ goto(p, t, "mark") /\ UNCHANGED failure
       \/ publication[t] # "complete" /\ notCompleted(p, t)
    /\ UNCHANGED <<outside, ciphertext, manifest, marked, published, publication>>

verifyArtifact(p, t) ==
    /\ at(p, t, "verify")
    /\ \/ t \notin expired /\ goto(p, t, "publish") /\ UNCHANGED failure
       \/ (t \in expired \/ Faults) /\ failed(p, t, "FAILED")
    /\ UNCHANGED <<outside, ciphertext, manifest, marked, published, publication>>

\* The publisher resumes what was begun and refuses what was completed
publishArtifact(p, t) ==
    /\ at(p, t, "publish")
    /\ IF publication[t] = "complete"
       THEN failed(p, t, "RECONCILIATION_REQUIRED") /\ UNCHANGED publication
       ELSE /\ publication' = [publication EXCEPT ![t] = "begun"]
            /\ goto(p, t, "publishing") /\ UNCHANGED failure
    /\ UNCHANGED <<outside, ciphertext, manifest, marked, published>>

\* The publisher returns, or its answer is lost before or after it completed
publishReturns(p, t) ==
    /\ at(p, t, "publishing")
    /\ \/ /\ publication' = [publication EXCEPT ![t] = "complete"]
          /\ goto(p, t, "mark") /\ UNCHANGED failure
       \/ /\ Faults
          /\ publication' \in {publication,
                               [publication EXCEPT ![t] = "complete"]}
          /\ failed(p, t, "RECONCILIATION_REQUIRED")
    /\ UNCHANGED <<outside, ciphertext, manifest, marked, published>>

\* A publisher whose coordinator died finishes by itself
publishAlone(t) ==
    /\ publication[t] = "begun" /\ \A p \in Procs : ~at(p, t, "publishing")
    /\ publication' = [publication EXCEPT ![t] = "complete"]
    /\ UNCHANGED <<outside, job, ciphertext, manifest, marked, published, failure>>

markPublished(p, t) ==
    /\ at(p, t, "mark")
    /\ \/ /\ t \notin published
          /\ published' = published \cup {t}
          /\ goto(p, t, "log") /\ UNCHANGED failure
       \/ t \in published /\ failed(p, t, "FAILED") /\ UNCHANGED published
    /\ UNCHANGED <<outside, ciphertext, manifest, marked, publication>>

-----------------------------------------------------------------------------
(* Recovery of the imports, before the process serves                      *)

recoverable(t) ==
    t \notin published /\ failure[t] # "FAILED" /\ ciphertext[t] # "absent"

recover(p, t) ==
    /\ gate[p].pc = "recover" /\ t \in gate[p].todo
    /\ \A u \in Tickets : ~job[p][u].recovered
    /\ gate' = [gate EXCEPT ![p].todo = @ \ {t}]
    /\ \/ ~recoverable(t) /\ UNCHANGED <<job, marked, failure>>
       \/ /\ recoverable(t) /\ ciphertext[t] # "exact"
          /\ failure' = recordTerminalFailure(t, "FAILED")
          /\ job' = IF failure[t] # None THEN job
                    ELSE [job EXCEPT ![p][t] =
                             [pc |-> "log", recovered |-> TRUE, uncertain |-> FALSE]]
          /\ UNCHANGED marked
       \/ /\ recoverable(t) /\ ciphertext[t] = "exact"
          /\ marked' = marked \cup {t}
          /\ job' = IF manifest[t] = "absent" THEN job
                    ELSE [job EXCEPT ![p][t] =
                             [pc |-> "hash", recovered |-> TRUE,
                              uncertain |-> failure[t] # None]]
          /\ UNCHANGED failure
    /\ UNCHANGED <<up, client, files, ciphertext, manifest, published,
                   publication, torn, expired, crashes>>

recovered(p) ==
    /\ gate[p].pc = "recover" /\ gate[p].todo = {}
    /\ \A u \in Tickets : ~job[p][u].recovered
    /\ gate' = [gate EXCEPT ![p] = Free]
    /\ UNCHANGED <<up, job, client, files, objects, torn, expired, crashes>>

-----------------------------------------------------------------------------
(* Crashes and time                                                        *)

\* A stream the process was writing stays as it is; the pinned stager leaves a
\* whole object or none
crash(p) ==
    /\ p \in up /\ crashes < MaxCrashes
    /\ crashes' = crashes + 1
    /\ up' = up \ {p}
    /\ gate' = [gate EXCEPT ![p] = Free]
    /\ job' = [job EXCEPT ![p] = [t \in Tickets |-> NoJob]]
    /\ intent' = [t \in Tickets |-> IF intent[t] = p THEN Dead ELSE intent[t]]
    /\ client' = [t \in Tickets |->
           IF gate[p].for = "begin" /\ gate[p].t = t THEN "lost" ELSE client[t]]
    /\ \/ UNCHANGED torn
       \/ /\ TornAppends
          /\ \/ gate[p].pc = "journal"
             \/ \E t \in Tickets : at(p, t, "log") \/ at(p, t, "logManifest")
          /\ torn' = TRUE
    /\ UNCHANGED <<commit, claim, objects, expired>>

expire(t) ==
    /\ t \in Expiring \ expired
    /\ expired' = expired \cup {t}
    /\ UNCHANGED <<up, gate, job, client, files, objects, torn, crashes>>

-----------------------------------------------------------------------------
reserveStep(p) ==
    \/ recoverReservationTransactions(p) \/ scanned(p)
    \/ removeExactReservationClaim(p) \/ unlinkClaim(p) \/ rolledBack(p)
    \/ writeIntent(p) \/ createOrVerifyReservationClaim(p)
    \/ writeCommit(p) \/ reserved(p) \/ recovered(p)
    \/ \E t \in Tickets : recover(p, t)

jobStep(p, t) ==
    \/ stageCiphertext(p, t) \/ streamCiphertext(p, t) \/ markCiphertext(p, t)
    \/ logged(p, t) \/ stageManifest(p, t) \/ streamManifest(p, t)
    \/ logManifest(p, t) \/ hashObjects(p, t) \/ reconcilePublication(p, t)
    \/ verifyArtifact(p, t) \/ publishArtifact(p, t) \/ publishReturns(p, t)
    \/ markPublished(p, t)

meets(running) == {p \in running : \E q \in running : q # p}

Next ==
    /\ UNCHANGED pinned
    /\ \/ \E p \in Procs : createCoordinator(p) \/ reserveStep(p) \/ crash(p)
       \/ \E p \in Procs, t \in Tickets :
              \/ beginImport(p, t) \/ jobStep(p, t)
              \/ uploadCiphertext(p, t) \/ uploadArtifactManifest(p, t)
       \/ \E t \in Tickets : publishAlone(t) \/ expire(t)
    /\ met' = met \cup meets(up')

Spec == Init /\ [][Next]_vars

\* A coordinator that stopped is started again, one that runs goes on with what
\* it holds (the stream timeouts end a stalled upload), and clients that hold a
\* ticket upload with it
stays(A) == UNCHANGED pinned /\ A /\ met' = met \cup meets(up')

FairSpec ==
    /\ Spec
    /\ \A p \in Procs :
           /\ WF_vars(stays(createCoordinator(p))) /\ WF_vars(stays(reserveStep(p)))
           /\ \A t \in Tickets :
                  /\ WF_vars(stays(jobStep(p, t)))
                  /\ WF_vars(stays(uploadCiphertext(p, t)))
                  /\ WF_vars(stays(uploadArtifactManifest(p, t)))

-----------------------------------------------------------------------------
(* Properties                                                              *)

Needs(t) == {needs[t][i] : i \in DOMAIN needs[t]}

\* What the comment in beginImport relies on: a second coordinator can safely
\* clean up after a dead owner, so a committed ticket owns its role and its
\* nonces and nobody else is committed to any of them.  It does not hold:
\* removeExactReservationClaim reads a claim and unlinks it in two calls, and
\* two coordinators that roll the same ticket back may have a new claim in
\* between
OwnershipIsAlwaysWhole ==
    \A t \in commit :
        /\ \A c \in Needs(t) : claim[c] = t
        /\ \A u \in commit : u # t => Needs(u) \cap Needs(t) = {}

\* As long as no two coordinators have run at the same time on the directory, a
\* committed ticket owns its role and its nonces and nobody else is committed
\* to any of them, however reservations, their roll-backs, crashes and restarts
\* follow each other: recoverReservationTransactions and beginImport
OwnershipIsWhole == met = {} => OwnershipIsAlwaysWhole

\* A claim is always covered by the intent of the ticket it names, so a crash
\* anywhere in beginImport or in a roll-back leaves nothing that the next scan
\* cannot find: rollbackReservationTransaction removes the intent last
ClaimsAreLogged ==
    \A c \in Claims : claim[c] # None => intent[claim[c]] # None

\* A published marker stands for a completed publication of two exact objects
\* of a committed ticket, manifest after ciphertext: finalizeStagedImport
PublishedIsExact ==
    \A t \in published :
        /\ publication[t] = "complete"
        /\ ciphertext[t] = "exact" /\ manifest[t] = "exact"
        /\ t \in commit /\ t \in marked

\* A manifest is never in quarantine before its ciphertext has been recorded,
\* and what was published came through both: uploadArtifactManifest
ManifestIsLast ==
    \A t \in Tickets :
        manifest[t] # "absent" \/ publication[t] # "none" =>
            t \in marked /\ ciphertext[t] = "exact"

\* Once the outcome of a publication is uncertain no publication of that ticket
\* is started again: the publicationUncertain flag of finalizeStagedImport
UncertainIsNotReplayed ==
    [][\A t \in Tickets :
          failure[t] = "RECONCILIATION_REQUIRED" =>
              ~\E p \in Procs : at(p, t, "publish") /\ job'[p][t].pc = "publishing"]_vars

\* A failure marker never changes, a published marker never goes, and a
\* published import is reported as published from then on
VerdictIsFinal ==
    [][\A t \in Tickets :
          /\ failure[t] # None => failure'[t] = failure[t]
          /\ publicStatus(t) = "PUBLISHED" => publicStatus(t)' = "PUBLISHED"]_vars

\* What a dead process had claimed without committing becomes free again once a
\* coordinator runs: recoverReservationTransactions
AbandonedIsFreed ==
    \A t \in Tickets : intent[t] = Dead ~> (t \in commit \/ intent[t] = None)

\* An import whose two objects are staged reaches a verdict, across crashes:
\* recover finishes what uploadArtifactManifest began
StagedIsSettled ==
    \A t \in Tickets :
        manifest[t] # "absent" ~> publicStatus(t) # "VERIFYING"

\* A completed publication is not reported as failed once its job has ended:
\* recover asks for an exact durable readback before anything else
CompletedIsNotFailed ==
    \A t \in Tickets :
        publication[t] = "complete" => publicStatus(t) # "FAILED"

\* An exact ciphertext that arrives again is refused and burns nothing
ReplayBurnsNothing ==
    [][\A t \in Tickets :
          /\ t \in marked /\ manifest[t] = "absent"
          /\ \E p \in Procs : at(p, t, "stageCiphertext") /\ ~at(p, t, "stageCiphertext")'
          => failure'[t] = failure[t]]_vars
=============================================================================
