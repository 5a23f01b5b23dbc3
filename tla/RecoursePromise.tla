--------------------------- MODULE RecoursePromise ---------------------------
(***************************************************************************)
(* What a recourse adapter promises, without clocks, signatures, roles or  *)
(* running totals: money enters a pot; a conflict earmarks a fixed amount  *)
(* for each side of a run; the earmark is either released in full or       *)
(* becomes owed, and what is owed is paid to each side once.  Only money   *)
(* that is not earmarked can ever be taken back.                           *)
(***************************************************************************)
EXTENDS Integers

CONSTANTS Runs, Sides, Amounts

VARIABLES
    phase,   \* phase[run]: what has been decided about the run
    due,     \* due[run][side]: the amount earmarked for that side
    settled, \* settled[run]: the sides that have been paid
    free,    \* the part of the pot that is not earmarked
    pot      \* the money held

promiseVars == <<phase, due, settled, free, pot>>

Phases == {"untouched", "refused", "earmarked", "released", "owed"}

PromiseInit ==
    /\ phase = [run \in Runs |-> "untouched"]
    /\ due = [run \in Runs |-> [s \in Sides |-> 0]]
    /\ settled = [run \in Runs |-> {}]
    /\ free = 0
    /\ pot = 0

Sum(d) == d["A"] + d["B"]

Deposit(n) ==
    /\ free' = free + n
    /\ pot' = pot + n
    /\ UNCHANGED <<phase, due, settled>>

Gift(n) ==
    /\ pot' = pot + n
    /\ UNCHANGED <<phase, due, settled, free>>

TakeBack(n) ==
    /\ n <= free
    /\ free' = free - n
    /\ pot' = pot - n
    /\ UNCHANGED <<phase, due, settled>>

Refuse(run) ==
    /\ phase[run] = "untouched"
    /\ phase' = [phase EXCEPT ![run] = "refused"]
    /\ UNCHANGED <<due, settled, free, pot>>

Earmark(run, d) ==
    /\ phase[run] = "untouched"
    /\ 0 < Sum(d) /\ Sum(d) <= free
    /\ phase' = [phase EXCEPT ![run] = "earmarked"]
    /\ due' = [due EXCEPT ![run] = d]
    /\ free' = free - Sum(d)
    /\ UNCHANGED <<settled, pot>>

ReleaseEarmark(run) ==
    /\ phase[run] = "earmarked"
    /\ phase' = [phase EXCEPT ![run] = "released"]
    /\ free' = free + Sum(due[run])
    /\ UNCHANGED <<due, settled, pot>>

Owe(run) ==
    /\ phase[run] = "earmarked"
    /\ phase' = [phase EXCEPT ![run] = "owed"]
    /\ UNCHANGED <<due, settled, free, pot>>

Pay(run, s) ==
    /\ phase[run] = "owed"
    /\ s \notin settled[run]
    /\ due[run][s] > 0
    /\ settled' = [settled EXCEPT ![run] = @ \cup {s}]
    /\ pot' = pot - due[run][s]
    /\ UNCHANGED <<phase, due, free>>

PromiseNext ==
    \/ \E n \in Amounts : Deposit(n) \/ Gift(n) \/ TakeBack(n)
    \/ \E run \in Runs :
        \/ Refuse(run) \/ ReleaseEarmark(run) \/ Owe(run)
        \/ \E d \in [Sides -> Amounts] : Earmark(run, d)
        \/ \E s \in Sides : Pay(run, s)

PromiseSpec == PromiseInit /\ [][PromiseNext]_promiseVars
=============================================================================
