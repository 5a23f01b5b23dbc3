----------------------------- MODULE DirectPage -----------------------------
(***************************************************************************)
(* The two-wallet page: a participant checks a wallet's eligibility,       *)
(* creates or opens a case, asks the service for a challenge, signs it in  *)
(* the wallet and posts the signed admission; once both participants are   *)
(* admitted the page polls the case.                                       *)
(*                                                                         *)
(* Every await is a point where the wallet may change, another browser may *)
(* admit a participant and an answer may be lost.  One call of the page,   *)
(* with what the service does for it, is one step.  The admission service  *)
(* itself is ParticipantAdmission's subject.                               *)
(***************************************************************************)
EXTENDS WorkerProjection

CONSTANTS
    Wallets,        \* eligible addresses
    MaxCases,       \* cases the service creates
    MaxLaunches,    \* launch tokens it issues to the page
    SilenceLimit,   \* FAILURES_BEFORE_UNAVAILABLE
    MaxMisses,      \* answers lost or refused by the parser
    NoWallet

ASSUME DirectAssumption ==
    /\ {MaxCases, SilenceLimit} \subseteq Nat \ {0} /\ {MaxLaunches, MaxMisses} \subseteq Nat
    /\ NoWallet \notin Wallets

VARIABLES
    store,      \* the service's cases: [stage, A, B, result, abandoned]
    spent,      \* launch tokens the service has accepted
    issued,     \* launch tokens issued so far
    connected,  \* the account the wallet offers
    dpage,      \* the page's state
    reads,      \* polls under way, with the answer the service gave
    checks,     \* wallets whose eligibility is being asked for
    signed,     \* signatures made on this page: [code, role, wallet]
    misses

directVars == <<store, spent, issued, connected, dpage, reads, checks, signed, misses>>
service == <<store, spent, issued>>

NoLaunch == [wallet |-> NoWallet, token |-> 0, fresh |-> FALSE]
NoPost == [code |-> 0, role |-> "none", wallet |-> NoWallet]
Resting == [at |-> "rest", code |-> 0, role |-> "none", wallet |-> NoWallet, token |-> 0]
Idle == [state |-> "IDLE", wallet |-> NoWallet]
Missing == [code |-> 0, view |-> NoView, lifecycle |-> "none", A |-> NoWallet, B |-> NoWallet,
            abandoned |-> FALSE]

(***************************************************************************)
(* The service's answer for a case, and what the page accepts.             *)
(***************************************************************************)
participantLifecycle(c) ==
  CASE c.stage = "ABORTED" -> "EXECUTION_ABORTED"
    [] c.stage # "ABORTED" /\ c.abandoned -> "ABANDONED"
    [] ~c.abandoned /\ c.stage = "MATCH_PREPARED" ->
         IF c.A = NoWallet THEN "MATCH_PREPARED" ELSE "PARTICIPANT_A_ADMITTED"
    [] ~c.abandoned /\ c.stage = "PARTICIPANT_A_SUBMITTED" ->
         IF c.B = NoWallet THEN "PARTICIPANT_A_ADMITTED" ELSE "PARTICIPANT_B_ADMITTED"
    [] ~c.abandoned /\ c.stage = "PARTICIPANT_B_SUBMITTED" -> "SUBMISSIONS_FINALIZED"
    [] ~c.abandoned /\ c.stage = "EVALUATED" -> "EVALUATED"
    [] OTHER -> "RELEASED"

projectAdmission(k) ==
  [code |-> k, view |-> customSupervisedView("governed", k, store[k]),
   lifecycle |-> participantLifecycle(store[k]), A |-> store[k].A, B |-> store[k].B,
   abandoned |-> store[k].abandoned]

bothAdmitted(p) == p.A # NoWallet /\ p.B # NoWallet

(* The admissions an admission lifecycle stands for.                       *)
admissionProjection(p) ==
  /\ p.B # NoWallet => p.A # NoWallet
  /\ p.abandoned => ~bothAdmitted(p)
  /\ p.abandoned <=> p.lifecycle = "ABANDONED"
  /\ p.lifecycle = "MATCH_PREPARED" => p.A = NoWallet
  /\ p.lifecycle = "PARTICIPANT_A_ADMITTED" => p.A # NoWallet /\ p.B = NoWallet
  /\ p.lifecycle \in {"PARTICIPANT_B_ADMITTED", "SUBMISSIONS_FINALIZED", "EVALUATED", "RELEASED"}
       => bothAdmitted(p)

(* ... and the stages it is compatible with.  An abandoned case has none.  *)
admissionMatchesView(p) ==
  CASE p.view.stage = "ABORTED" -> p.lifecycle = "EXECUTION_ABORTED"
    [] p.view.stage = "MATCH_PREPARED" -> p.lifecycle \in {"MATCH_PREPARED", "PARTICIPANT_A_ADMITTED"}
    [] p.view.stage = "PARTICIPANT_A_SUBMITTED" ->
         p.lifecycle \in {"PARTICIPANT_A_ADMITTED", "PARTICIPANT_B_ADMITTED"}
    [] p.view.stage = "PARTICIPANT_B_SUBMITTED" -> p.lifecycle = "SUBMISSIONS_FINALIZED"
    [] p.view.stage = "EVALUATED" -> p.lifecycle = "EVALUATED"
    [] OTHER -> p.lifecycle = "RELEASED" /\ bothAdmitted(p)

parseParticipantCaseResponse(p) ==
  /\ p # Missing /\ parseManagedWorkerView(p.view) /\ p.view.run = p.code
  /\ admissionProjection(p) /\ admissionMatchesView(p)

terminalCase(p) == p.view.stage \in {"COMPLETE", "ABORTED"}

(***************************************************************************)
(* The service moves on by itself, or for another browser.                 *)
(***************************************************************************)
Fresh == [stage |-> "MATCH_PREPARED", A |-> NoWallet, B |-> NoWallet, result |-> "none", abandoned |-> FALSE]

mayAdmit(k, role, w) ==
  /\ ~store[k].abandoned /\ store[k].stage # "ABORTED"
  /\ \/ role = "A" /\ store[k].A = NoWallet /\ store[k].B # w
     \/ role = "B" /\ store[k].A \notin {NoWallet, w} /\ store[k].B = NoWallet
     \/ (role = "A" /\ store[k].A = w) \/ (role = "B" /\ store[k].B = w)
withAdmitted(k, role, w) ==
  IF role = "A" /\ store[k].A = NoWallet
  THEN [store EXCEPT ![k].A = w, ![k].stage = "PARTICIPANT_A_SUBMITTED"]
  ELSE IF role = "B" /\ store[k].B = NoWallet
  THEN [store EXCEPT ![k].B = w, ![k].stage = "PARTICIPANT_B_SUBMITTED"]
  ELSE store

movedCase(c) ==
  CASE c.stage = "PARTICIPANT_B_SUBMITTED" -> {[c EXCEPT !.stage = "EVALUATED"], [c EXCEPT !.stage = "ABORTED"]}
    [] c.stage = "EVALUATED" -> {[c EXCEPT !.stage = "RELEASED", !.result = "conflict"]}
    [] c.stage = "RELEASED" -> {[c EXCEPT !.stage = "COMPLETE"]}
    [] c.stage \in {"MATCH_PREPARED", "PARTICIPANT_A_SUBMITTED"} /\ ~c.abandoned -> {[c EXCEPT !.abandoned = TRUE]}
    [] OTHER -> {}
caseMoves ==
  /\ \E k \in DOMAIN store : \E c \in movedCase(store[k]) : store' = [store EXCEPT ![k] = c]
  /\ UNCHANGED <<spent, issued, connected, dpage, reads, checks, signed, misses>>

otherBrowserAdmits ==
  /\ \E k \in DOMAIN store, role \in {"A", "B"}, w \in Wallets :
       mayAdmit(k, role, w) /\ store' = withAdmitted(k, role, w) /\ store' # store
  /\ UNCHANGED <<spent, issued, connected, dpage, reads, checks, signed, misses>>

(***************************************************************************)
(* The page's effects.  After every change, wallet-bound state that no     *)
(* longer belongs to the connected wallet is reset, and reads are dropped  *)
(* when the case, the notice or the case's end changed under them.         *)
(***************************************************************************)
stillBound(s, w) == w # NoWallet /\ s.eligibility.wallet = w
walletBound(s, w) ==
  IF s.role # "none" /\ ~stillBound(s, w) THEN [s EXCEPT !.eligibility = Idle, !.launch = NoLaunch] ELSE s

(* Mistake: an accepted case does not cancel the reads still under way.    *)
awaited_All(left, s, accepted) == IF s.notice THEN {} ELSE left
awaited(left, s, accepted) == IF accepted \/ s.notice THEN {} ELSE left

shows(s, left, accepted) ==
  /\ dpage' = walletBound(s, connected)
  /\ reads' = awaited(left, s, accepted)

failClosed(s) == [s EXCEPT !.notice = TRUE]

acceptCase(s, p) ==
  IF p.A # NoWallet
  THEN [s EXCEPT !.case = p, !.role = "none", !.claim = FALSE, !.pending = NoPost]
  ELSE [s EXCEPT !.case = p, !.role = "A"]

hears(p, got) ==
  \/ got = p /\ UNCHANGED misses
  \/ got = Missing /\ misses < MaxMisses /\ misses' = misses + 1

(* A page opened at a case reads it once.                                  *)
restoreCase ==
  /\ dpage.restoring > 0
  /\ \E got \in {projectAdmission(dpage.restoring), Missing} :
       /\ hears(projectAdmission(dpage.restoring), got)
       /\ LET s == [dpage EXCEPT !.restoring = 0]
          IN shows(IF parseParticipantCaseResponse(got) THEN acceptCase(s, got) ELSE failClosed(s), reads, TRUE)
  /\ UNCHANGED <<service, connected, checks, signed>>

pollCase ==
  /\ dpage.case # Missing /\ bothAdmitted(dpage.case) /\ ~terminalCase(dpage.case) /\ ~dpage.notice
  /\ reads' = reads \cup {projectAdmission(dpage.case.code)}
  /\ UNCHANGED <<service, connected, dpage, checks, signed, misses>>

(* Without a readable answer the page counts a silence, and without an     *)
(* acceptable one it fails closed.                                         *)
pollCaseAnswered ==
  \E a \in reads : \E got \in {a, Missing} :
    /\ hears(a, got)
    /\ LET accepted == parseParticipantCaseResponse(got)
           silent == [dpage EXCEPT !.failures = @ + 1]
       IN \E s \in IF accepted THEN {[dpage EXCEPT !.case = got, !.failures = 0]}
                   ELSE {failClosed(dpage)} \cup
                        IF got # Missing THEN {}
                        ELSE {IF silent.failures < SilenceLimit THEN silent ELSE failClosed(silent)} :
            shows(s, reads \ {a}, accepted)
    /\ UNCHANGED <<service, connected, checks, signed>>

walletChanges ==
  /\ connected' \in (Wallets \cup {NoWallet}) \ {connected}
  /\ dpage' = walletBound(dpage, connected')
  /\ UNCHANGED <<service, reads, checks, signed, misses>>

launchExpires ==
  /\ dpage.launch.fresh
  /\ dpage' = [dpage EXCEPT !.launch.fresh = FALSE]
  /\ UNCHANGED <<service, connected, reads, checks, signed, misses>>

(***************************************************************************)
(* What the participant does.  The panel is hidden behind a notice.        *)
(***************************************************************************)
authorizing == dpage.auth.at # "rest"
panel == dpage.role # "none" /\ ~dpage.notice /\ dpage.restoring = 0
reusableLaunch == dpage.launch.wallet = connected /\ dpage.launch.fresh

checkApass ==
  /\ panel /\ ~authorizing /\ connected # NoWallet
  /\ dpage.eligibility.state \notin {"CHECKING", "VERIFIED"}
  /\ IF reusableLaunch
     THEN dpage' = [dpage EXCEPT !.eligibility = [state |-> "VERIFIED", wallet |-> connected]]
          /\ UNCHANGED checks
     ELSE dpage' = [dpage EXCEPT !.eligibility = [state |-> "CHECKING", wallet |-> connected]]
          /\ checks' = checks \cup {connected}
  /\ UNCHANGED <<service, connected, reads, signed, misses>>

checkAnswered ==
  \E w \in checks :
    /\ checks' = checks \ {w}
    /\ \/ /\ issued < MaxLaunches /\ issued' = issued + 1
          /\ shows([dpage EXCEPT !.launch = [wallet |-> w, token |-> issued + 1, fresh |-> TRUE],
                                 !.eligibility = [state |-> "VERIFIED", wallet |-> w]], reads, FALSE)
       \/ /\ shows([dpage EXCEPT !.launch = NoLaunch,
                                 !.eligibility = [state |-> "ERROR", wallet |-> w]], reads, FALSE)
          /\ UNCHANGED issued
    /\ UNCHANGED <<store, spent, connected, signed, misses>>

writeClaim ==
  /\ panel /\ ~authorizing /\ dpage.pending = NoPost /\ ~dpage.claim
  /\ dpage' = [dpage EXCEPT !.claim = TRUE]
  /\ UNCHANGED <<service, connected, reads, checks, signed, misses>>

otherWallet == IF dpage.case = Missing THEN NoWallet ELSE IF dpage.role = "A" THEN dpage.case.B ELSE dpage.case.A

(* The button: a signed admission is posted again as it is; otherwise the  *)
(* wallet, its eligibility and, for a new case, its launch token are       *)
(* checked, and captured for the rest of the call.                         *)
authorize ==
  /\ panel /\ ~authorizing /\ connected \notin {NoWallet, otherWallet}
  /\ dpage.eligibility.state = "VERIFIED"
  /\ \/ /\ dpage.pending # NoPost
        /\ dpage' = [dpage EXCEPT !.auth = [at |-> "post", code |-> dpage.case.code, role |-> dpage.pending.role,
                                            wallet |-> dpage.pending.wallet, token |-> 0]]
     \/ /\ dpage.pending = NoPost /\ dpage.claim /\ dpage.eligibility.wallet = connected
        /\ dpage.case = Missing => reusableLaunch
        /\ dpage' = [dpage EXCEPT !.auth =
                       [at |-> IF dpage.case = Missing THEN "create" ELSE "challenge",
                        code |-> dpage.case.code, role |-> dpage.role, wallet |-> connected,
                        token |-> dpage.launch.token]]
  /\ UNCHANGED <<service, connected, reads, checks, signed, misses>>

(* A call that ended without an answer the page can use.                   *)
givesUp(s) == [s EXCEPT !.auth = Resting]

createNeutralCase ==
  /\ dpage.auth.at = "create"
  /\ \/ /\ dpage.auth.token \notin spent /\ Len(store) < MaxCases
        /\ store' = Append(store, Fresh) /\ spent' = spent \cup {dpage.auth.token}
        /\ \/ /\ shows([dpage EXCEPT !.case = [Missing EXCEPT !.code = Len(store) + 1,
                            !.view = customSupervisedView("governed", Len(store) + 1, Fresh),
                            !.lifecycle = participantLifecycle(Fresh)],
                            !.auth.at = "challenge", !.auth.code = Len(store) + 1], reads, TRUE)
              /\ UNCHANGED misses
           \/ /\ misses < MaxMisses /\ misses' = misses + 1
              /\ \E s \in {dpage, failClosed(dpage)} : shows(givesUp(s), reads, FALSE)
     \/ /\ dpage.auth.token \in spent \/ Len(store) = MaxCases
        /\ shows(givesUp(dpage), reads, FALSE)
        /\ UNCHANGED <<store, spent, misses>>
  /\ UNCHANGED <<issued, connected, checks, signed>>

requestChallenge ==
  /\ dpage.auth.at = "challenge"
  /\ \/ /\ mayAdmit(dpage.auth.code, dpage.auth.role, dpage.auth.wallet)
        /\ shows([dpage EXCEPT !.auth.at = "sign"], reads, FALSE) /\ UNCHANGED misses
     \/ /\ ~mayAdmit(dpage.auth.code, dpage.auth.role, dpage.auth.wallet)
        /\ shows(givesUp(dpage), reads, FALSE) /\ UNCHANGED misses
     \/ /\ misses < MaxMisses /\ misses' = misses + 1
        /\ \E s \in {dpage, failClosed(dpage)} : shows(givesUp(s), reads, FALSE)
  /\ UNCHANGED <<service, connected, checks, signed>>

(* Mistake: the signed admission is kept only once it was accepted.        *)
retained_Late(s) == s
retained(s) ==
  [s EXCEPT !.pending = [code |-> s.auth.code, role |-> s.auth.role, wallet |-> s.auth.wallet]]

(* The wallet signs with the account the call captured, or declines.       *)
signAdmission ==
  /\ dpage.auth.at = "sign"
  /\ \/ /\ connected = dpage.auth.wallet
        /\ signed' = Append(signed, [code |-> dpage.auth.code, role |-> dpage.auth.role,
                                     wallet |-> dpage.auth.wallet])
        /\ shows(retained([dpage EXCEPT !.auth.at = "post"]), reads, FALSE)
     \/ shows(givesUp(dpage), reads, FALSE) /\ UNCHANGED signed
  /\ UNCHANGED <<service, connected, checks, misses>>

postAdmission ==
  /\ dpage.auth.at = "post"
  /\ LET k == dpage.auth.code
         landed == withAdmitted(k, dpage.auth.role, dpage.auth.wallet)
     IN \/ /\ mayAdmit(k, dpage.auth.role, dpage.auth.wallet)
           /\ store' = landed
           /\ \/ /\ shows(givesUp(acceptCase(dpage, [projectAdmission(k) EXCEPT
                              !.view = customSupervisedView("governed", k, landed[k]),
                              !.lifecycle = participantLifecycle(landed[k]),
                              !.A = landed[k].A, !.B = landed[k].B])), reads, TRUE)
                 /\ UNCHANGED misses
              \/ /\ misses < MaxMisses /\ misses' = misses + 1
                 /\ \E s \in {dpage, failClosed(dpage)} : shows(givesUp(s), reads, FALSE)
        \/ /\ \/ ~mayAdmit(k, dpage.auth.role, dpage.auth.wallet) /\ UNCHANGED misses
              \/ misses < MaxMisses /\ misses' = misses + 1
           /\ shows(givesUp(dpage), reads, FALSE)
           /\ UNCHANGED store
  /\ UNCHANGED <<spent, issued, connected, checks, signed>>

dismiss ==
  /\ dpage.notice
  /\ shows([dpage EXCEPT !.notice = FALSE, !.failures = 0], reads, FALSE)
  /\ UNCHANGED <<service, connected, checks, signed, misses>>

continueAsParticipantB ==
  /\ dpage.role = "none" /\ ~dpage.notice /\ dpage.case.A # NoWallet /\ dpage.case.B = NoWallet
  /\ shows([dpage EXCEPT !.role = "B", !.claim = FALSE, !.eligibility = Idle, !.launch = NoLaunch], reads, FALSE)
  /\ UNCHANGED <<service, connected, checks, signed, misses>>

DirectInit ==
  /\ spent = {} /\ issued = 0 /\ connected = NoWallet
  /\ reads = {} /\ checks = {} /\ signed = << >> /\ misses = 0
  /\ \E code \in {0, 1} :
       /\ store = IF code = 0 THEN << >> ELSE <<Fresh>>
       /\ dpage = [case |-> Missing, role |-> "A", claim |-> FALSE, eligibility |-> Idle, launch |-> NoLaunch,
                   auth |-> Resting, pending |-> NoPost, notice |-> FALSE, failures |-> 0, restoring |-> code]

DirectNext ==
  \/ caseMoves \/ otherBrowserAdmits
  \/ restoreCase \/ pollCase \/ pollCaseAnswered \/ walletChanges \/ launchExpires
  \/ checkApass \/ checkAnswered \/ writeClaim \/ authorize
  \/ createNeutralCase \/ requestChallenge \/ signAdmission \/ postAdmission
  \/ dismiss \/ continueAsParticipantB

DirectSpec == DirectInit /\ [][DirectNext]_directVars

(***************************************************************************)
(* Properties.                                                             *)
(***************************************************************************)
DirectTypeOK ==
  /\ Len(store) <= MaxCases /\ issued \in 0 .. MaxLaunches /\ spent \subseteq 1 .. MaxLaunches
  /\ connected \in Wallets \cup {NoWallet} /\ checks \subseteq Wallets
  /\ dpage.role \in {"A", "B", "none"} /\ misses \in 0 .. MaxMisses
  /\ dpage.auth.at \in {"rest", "create", "challenge", "sign", "post"}

(* A role of a case is signed for at most once on a page, however often    *)
(* answers are lost, and the admission kept for a retry is the one of the  *)
(* role and the case on the screen (direct-participant-execution.tsx: a    *)
(* lost response can be retried without a second challenge or signature).  *)
SignedOnce ==
  /\ \A i, j \in DOMAIN signed :
       signed[i].code = signed[j].code /\ signed[i].role = signed[j].role => i = j
  /\ dpage.pending # NoPost =>
       dpage.pending.role = dpage.role /\ dpage.pending.code = dpage.case.code

(* The case on the screen never goes back to what it was before: an older  *)
(* answer that comes late does not undo an admission, a release or an end  *)
(* (acceptCase and the clean-up of the polling effect).  Every answer is   *)
(* what the service knew of the case when it was read: the views it keeps  *)
(* for a case whose run is held (mordant-live-worker.mjs:1045) are left    *)
(* out, and nothing is said of them.                                       *)
NeverGoesBack ==
  [][ LET old == dpage.case
          new == dpage'.case
      IN old # Missing =>
           /\ new.code = old.code
           /\ old.A # NoWallet => new.A = old.A
           /\ old.B # NoWallet => new.B = old.B
           /\ \/ new.view.stage = "ABORTED"
              \/ old.view.stage # "ABORTED" /\ reached(new.view.stage, old.view.stage)
           /\ old.view.result # "none" => new.view.result = old.view.result ]_dpage
=============================================================================
