--------------------------- MODULE QuotaSemaphore ---------------------------
(***************************************************************************)
(* What the per-user task limit of POST /api/task promises: a counting     *)
(* semaphore with Max slots, kept in a Redis counter that can be           *)
(* overdrawn.  A release by a job whose slot the counter no longer holds   *)
(* runs up a debt; each unit of debt admits one job too many, until the    *)
(* counter's key expires and everything starts again from zero.            *)
(***************************************************************************)
EXTENDS Integers, FiniteSets

CONSTANTS
    Jobs,   \* the submissions of one user
    Max     \* MAX_CONCURRENT_TASKS_PER_USER

VARIABLES
    slots,  \* the jobs the limit counts as in flight
    debt    \* releases the counter took without having counted the job

vars == <<slots, debt>>

Init == slots = {} /\ debt = 0

\* A submission is let through only while the limit leaves a place.
Acquire(j) ==
    /\ j \notin slots
    /\ Cardinality(slots) < Max + debt
    /\ slots' = slots \cup {j}
    /\ UNCHANGED debt

Release(j) ==
    /\ j \in slots
    /\ slots' = slots \ {j}
    /\ UNCHANGED debt

\* A job whose slot is not counted any more releases it nevertheless.
Overdraw ==
    /\ debt' = debt + 1
    /\ UNCHANGED slots

\* The counter's key expires: nobody is counted, nothing is owed.
Lapse ==
    /\ slots' = {}
    /\ debt' = 0

Next ==
    \/ \E j \in Jobs : Acquire(j) \/ Release(j)
    \/ Overdraw
    \/ Lapse

Spec == Init /\ [][Next]_vars
=============================================================================
