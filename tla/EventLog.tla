------------------------------ MODULE EventLog ------------------------------
(***************************************************************************)
(* What the event pipeline of monitor.py promises to the history view: an  *)
(* event that was reported waits, and is then written to agent_events or   *)
(* lost, once.  Events are numbered in the order of their reports.         *)
(***************************************************************************)
EXTENDS Naturals

VARIABLES
    reported, \* how many events were reported
    pending,  \* events neither written nor lost
    stored,   \* rows of agent_events
    lost      \* events that never get there

vars == <<reported, pending, stored, lost>>

Init ==
    /\ reported = 0
    /\ pending = {}
    /\ stored = {}
    /\ lost = {}

Report ==
    /\ reported' = reported + 1
    /\ pending' = pending \cup {reported + 1}
    /\ UNCHANGED <<stored, lost>>

Store(batch) ==
    /\ batch \subseteq pending
    /\ pending' = pending \ batch
    /\ stored' = stored \cup batch
    /\ UNCHANGED <<reported, lost>>

Lose(batch) ==
    /\ batch \subseteq pending
    /\ pending' = pending \ batch
    /\ lost' = lost \cup batch
    /\ UNCHANGED <<reported, stored>>

Next ==
    \/ Report
    \/ \E batch \in SUBSET pending : Store(batch) \/ Lose(batch)

Spec == Init /\ [][Next]_vars

(***************************************************************************)
(* Every reported event waits, is stored or is lost, and only one of them. *)
(***************************************************************************)
Partition ==
    /\ pending \cup stored \cup lost = 1..reported
    /\ pending \cap stored = {}
    /\ pending \cap lost = {}
    /\ stored \cap lost = {}
=============================================================================
