------------------------------ MODULE Singletons ------------------------------
(***************************************************************************)
(* The objects a process makes once, on first use, behind a lock: the      *)
(* pool of db.py, the client of redis_client.py, the checkpointer of       *)
(* main_agent.py and the embedding model of memory_service.py.  They are   *)
(* the same double-checked lock, but for four differences: whether making  *)
(* one awaits, whether a thread makes it, whether it is assigned before it *)
(* is set up, and whether closing it takes the lock.                       *)
(***************************************************************************)
EXTENDS Naturals, Sequences, FiniteSets

CONSTANTS Tasks,       \* coroutines that use it
          MaxObjects,  \* objects made
          MaxUses      \* calls of the getter

Kinds == {"pool", "redis", "checkpointer", "model"}

\* Mutant: every object is.
AssignedFirstEverywhere == Kinds

\* Assigned when it is opened, before its setup has run.
AssignedFirst == {"checkpointer"}

Awaited == Kinds \ {"redis"}          \* made by an await, not by a plain call
Threaded == {"model"}                 \* made by a thread, which nothing cancels
Closed == Kinds \ {"model"}           \* closed at shutdown
ClosedUnlocked == {"checkpointer"}

VARIABLES
    kind,     \* which of them this is
    slot,     \* the module's variable: {} or {object}
    cm,       \* _checkpointer_cm: {} or {object}
    object,   \* each object made: new, ready, loading for nobody, failed,
              \* leaked or closed
    task,     \* each task: where it is and the object it was given
    holder,   \* of the lock: {}, a task or the closer
    closer,   \* the shutdown
    uses      \* calls so far

vars == <<kind, slot, cm, object, task, holder, closer, uses>>

Away == [at |-> "away", got |-> {}]

Init ==
    /\ kind \in Kinds
    /\ slot = {} /\ cm = {} /\ object = <<>> /\ holder = {}
    /\ task = [t \in Tasks |-> Away]
    /\ closer = "none" /\ uses = 0

Newest == Len(object)

Given(t, o) == task' = [task EXCEPT ![t] = [at |-> "using", got |-> o]]
Goes(t, where) == task' = [task EXCEPT ![t].at = where]

\* The first check, without the lock.
Get(t) ==
    /\ task[t].at = "away" /\ uses < MaxUses
    /\ uses' = uses + 1
    /\ IF slot # {} THEN Given(t, slot) ELSE Goes(t, "waiting")
    /\ UNCHANGED <<kind, slot, cm, object, holder, closer>>

\* Mutant: there is no second check.
NotChecked == {}

\* The second check, with the lock.
Found == slot

\* Then the object is begun.  A plain call is all there is to the Redis client.
Locked(t) ==
    /\ task[t].at = "waiting" /\ holder = {}
    /\ IF Found # {} THEN Given(t, Found) /\ UNCHANGED <<slot, cm, object, holder>>
       ELSE /\ Newest < MaxObjects
            /\ IF kind \in Awaited
               THEN /\ object' = Append(object, "new")
                    /\ cm' = IF kind \in ClosedUnlocked THEN {Newest + 1} ELSE {}
                    /\ holder' = {t} /\ Goes(t, "opening") /\ UNCHANGED slot
               ELSE /\ object' = Append(object, "ready")
                    /\ slot' = {Newest + 1}
                    /\ Given(t, {Newest + 1}) /\ UNCHANGED <<cm, holder>>
    /\ UNCHANGED <<kind, closer, uses>>

\* __aenter__ has returned: assigned, and setup begins.
Opened(t) ==
    /\ task[t].at = "opening" /\ kind \in AssignedFirst
    /\ slot' = {Newest}
    /\ Goes(t, "preparing")
    /\ UNCHANGED <<kind, cm, object, holder, closer, uses>>

\* The await that makes it ready has returned.
Ready(t) ==
    /\ task[t].at = IF kind \in AssignedFirst THEN "preparing" ELSE "opening"
    /\ object' = [object EXCEPT ![Newest] = IF @ = "new" THEN "ready" ELSE @]
    /\ slot' = IF kind \in AssignedFirst THEN slot ELSE {Newest}
    /\ Given(t, IF kind \in AssignedFirst THEN slot ELSE {Newest})
    /\ holder' = {}
    /\ UNCHANGED <<kind, cm, closer, uses>>

\* It raises.  Variables are reset; the connection of a checkpointer whose
\* setup fails stays open.
Failed(t) ==
    /\ task[t].at \in {"opening", "preparing"}
    /\ object' = [object EXCEPT ![Newest] =
                     IF task[t].at = "opening" THEN "failed" ELSE "leaked"]
    /\ slot' = {} /\ cm' = {} /\ holder' = {}
    /\ task' = [task EXCEPT ![t] = Away]
    /\ UNCHANGED <<kind, closer, uses>>

\* The task is cancelled, which no except clause is for: the lock is released
\* and what was assigned stays, set up or not.  A thread that has begun to load
\* the model goes on without it.
Cancelled(t) ==
    /\ task[t].at \in {"opening", "preparing"}
    /\ \E then \in IF task[t].at = "preparing" THEN {object[Newest]}
                   ELSE {"failed"} \cup (IF kind \in Threaded THEN {"loading"} ELSE {}) :
          object' = [object EXCEPT ![Newest] = then]
    /\ holder' = {}
    /\ task' = [task EXCEPT ![t] = Away]
    /\ UNCHANGED <<kind, slot, cm, closer, uses>>

\* The thread has loaded a model nobody waits for, which is dropped.
LoadedForNobody(o) ==
    /\ object[o] = "loading"
    /\ object' = [object EXCEPT ![o] = "failed"]
    /\ UNCHANGED <<kind, slot, cm, task, holder, closer, uses>>

Done(t) ==
    /\ task[t].at = "using"
    /\ task' = [task EXCEPT ![t] = Away]
    /\ UNCHANGED <<kind, slot, cm, object, holder, closer, uses>>

\* close_pool, close_redis, close_checkpointer, at shutdown.  A checkpointer
\* that is still opening cannot be closed, which is logged.
Close ==
    /\ closer = "none" /\ kind \in Closed
    /\ IF kind \in ClosedUnlocked THEN cm # {} /\ UNCHANGED holder
       ELSE slot # {} /\ holder = {} /\ holder' = {"closer"}
    /\ closer' = "closing"
    /\ object' = [o \in DOMAIN object |->
                     IF o \in slot THEN "closed" ELSE object[o]]
    /\ UNCHANGED <<kind, slot, cm, task, uses>>

\* The variable is cleared when the close has returned.
Cleared ==
    /\ closer = "closing"
    /\ closer' = "closed"
    /\ slot' = {} /\ cm' = {}
    /\ holder' = holder \ {"closer"}
    /\ UNCHANGED <<kind, object, task, uses>>

Next ==
    \/ \E t \in Tasks : Get(t) \/ Locked(t) \/ Opened(t) \/ Ready(t) \/ Failed(t)
                          \/ Cancelled(t) \/ Done(t)
    \/ \E o \in DOMAIN object : LoadedForNobody(o)
    \/ Close \/ Cleared

Spec == Init /\ [][Next]_vars

------------------------------------------------------------------------------
(* Properties. *)

SingletonTypeOK ==
    /\ slot \cup cm \subseteq DOMAIN object
    /\ \A o \in DOMAIN object : object[o] \in
          {"new", "ready", "loading", "failed", "leaked", "closed"}
    /\ holder \subseteq Tasks \cup {"closer"} /\ Cardinality(holder) <= 1
    /\ closer \in {"none", "closing", "closed"}

Live == {o \in DOMAIN object : object[o] \in {"new", "ready", "loading"}}

\* Loaded by a thread whose task was cancelled.
Orphans == {o \in DOMAIN object : object[o] = "loading"}

\* However many tasks ask for it at once, a process has one pool, client,
\* checkpointer or model at a time, but for what a failed set-up leaks, for a
\* model whose task was cancelled while its thread loads it, and for a
\* checkpointer opened while the other is closed.
AtMostOneLive ==
    \/ Cardinality(Live \ Orphans) <= 1
    \/ kind \in ClosedUnlocked /\ closer # "none"

\* The lock is there so that a process does not load a second model, of some
\* 500 MB, while it has one (memory_service.py:37).  It does: a cancelled task
\* lets the lock go while its thread loads on.
OneModelLoads == kind = "model" => Cardinality(Live) <= 1

\* No task is given an object that is not ready, but for a checkpointer whose
\* set-up is under way, was cancelled, or has failed since, and after the
\* shutdown began.
ReadyUnless ==
    \A t \in Tasks : \A o \in task[t].got :
        \/ object[o] = "ready"
        \/ kind = "checkpointer" /\ object[o] \in {"new", "leaked"}
        \/ closer # "none"
=============================================================================
