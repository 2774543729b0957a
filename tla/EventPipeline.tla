--------------------------- MODULE EventPipeline ---------------------------
(***************************************************************************)
(* The micro-batching of monitor events in one worker process              *)
(* (monitor.py _enqueue_batch, _flush_batch): runs of the agent append to  *)
(* one buffer; a timer task, and each run at its end, takes what the       *)
(* buffer holds, pushes it event by event to the Redis list and channel,   *)
(* and inserts it into agent_events in one statement.                      *)
(*                                                                         *)
(* An event is the number of its report.  The buffer is appended to only,  *)
(* so a buffer or batch is a set, read in increasing order.  An answer     *)
(* reported as streaming_content and task_result, with no await between    *)
(* them, is one event.  Each run has a thread of its own.                  *)
(***************************************************************************)
EXTENDS Naturals, Sequences, FiniteSets

CONSTANTS
    Runs,      \* executions of run_deep_agent in this process
    Timers,    \* tasks of _flush_batch_after that may exist at a time
    NoTimer,   \* _batch_flush_task is None
    CacheCap,  \* events the Redis list keeps, 500
    MaxEvents, \* bound: events reported
    Faults     \* what may happen around the code, see FaultKinds

(***************************************************************************)
(* "push"    the pipeline of LPUSH and LTRIM raises                        *)
(* "publish" PUBLISH raises                                                *)
(* "db"      the INSERT raises, for one because a session was deleted      *)
(* "cancel"  the task awaiting the final flush is cancelled                *)
(* "setup"   a run raises after its first event and before its try         *)
(* "crash"   the process dies                                              *)
(***************************************************************************)
FaultKinds == {"push", "publish", "db", "cancel", "setup", "crash"}

ASSUME PipelineAssumption ==
    /\ Timers # {}
    /\ Runs \cap Timers = {}
    /\ NoTimer \notin Timers
    /\ CacheCap \in Nat \ {0}
    /\ MaxEvents \in Nat
    /\ Faults \subseteq FaultKinds

Flushers == Timers \cup Runs

VARIABLES
    owner,      \* the run that reported each event
    run,        \* where each run of the agent is
    tool,       \* runs with a synchronous tool in an executor thread
    buffer,     \* _batch_buffer
    flushTask,  \* _batch_flush_task
    pc,         \* where each flush is
    batch,      \* the batch it took
    todo,       \* what it has yet to push
    cached,     \* the list ws:events of each run's thread, latest first
    published,  \* messages on the channels ws:channel of all threads
    rows,       \* agent_events
    lost,       \* history: events that never get there
    final       \* history: events taken by a run's final flush

runVars   == <<run, tool>>
flushVars == <<buffer, flushTask, pc, batch, todo>>
redisVars == <<cached, published>>
logVars   == <<rows, lost, final>>

vars == <<owner, runVars, flushVars, redisVars, logVars>>

RunStates == {"idle", "setup", "running", "flushing", "ended"}
FlushStates == {"done", "sleep", "cache", "publish", "persist"}

Init ==
    /\ owner = <<>>
    /\ run = [r \in Runs |-> "idle"]
    /\ tool = {}
    /\ buffer = {}
    /\ flushTask = NoTimer
    /\ pc = [f \in Flushers |-> "done"]
    /\ batch = [f \in Flushers |-> {}]
    /\ todo = [f \in Flushers |-> {}]
    /\ cached = [r \in Runs |-> <<>>]
    /\ published = <<>>
    /\ rows = {}
    /\ lost = {}
    /\ final = {}

------------------------------------------------------------------------------
(* Reporting: _emit and _enqueue_batch. *)

\* Room for another report beside those of the tools under way.
Room == Len(owner) + Cardinality(tool) < MaxEvents

\* The event the next report makes.
New == Len(owner) + 1

\* Mutant: a flush under way does not stop another timer from being started.
NoFlushTaskSleeps == \E t \in Timers : pc[t] = "done"

NoFlushTask == flushTask = NoTimer \/ pc[flushTask] = "done"

FreeTimer == CHOOSE t \in Timers : pc[t] = "done"

\* A timer task is created unless there is one.
StartTimer == flushTask' = IF NoFlushTask THEN FreeTimer ELSE flushTask

TimerStarted == IF NoFlushTask THEN [pc EXCEPT ![FreeTimer] = "sleep"] ELSE pc

\* The code called on the event loop.
Enqueue(r) ==
    /\ owner' = Append(owner, r)
    /\ buffer' = buffer \cup {New}
    /\ StartTimer
    /\ pc' = TimerStarted
    /\ UNCHANGED <<batch, todo>>

\* A run has its working directory and reports it.
RunBegins(r) ==
    /\ run[r] = "idle"
    /\ Room
    /\ run' = [run EXCEPT ![r] = "setup"]
    /\ Enqueue(r)
    /\ UNCHANGED <<tool, redisVars, logVars>>

\* The checkpointer and the prompt are there: the run enters its try.
RunReady(r) ==
    /\ run[r] = "setup"
    /\ run' = [run EXCEPT ![r] = "running"]
    /\ UNCHANGED <<owner, tool, flushVars, redisVars, logVars>>

RunFailsToStart(r) ==
    /\ "setup" \in Faults
    /\ run[r] = "setup"
    /\ run' = [run EXCEPT ![r] = "ended"]
    /\ UNCHANGED <<owner, tool, flushVars, redisVars, logVars>>

\* An answer, a call of a subagent or of an asynchronous tool.
Report(r) ==
    /\ run[r] = "running"
    /\ Room
    /\ Enqueue(r)
    /\ UNCHANGED <<runVars, redisVars, logVars>>

ToolStarts(r) ==
    /\ run[r] = "running"
    /\ r \notin tool
    /\ Room
    /\ tool' = tool \cup {r}
    /\ UNCHANGED <<owner, run, flushVars, redisVars, logVars>>

\* In a thread get_running_loop raises, and no timer is started.
ToolReports(r) ==
    /\ r \in tool
    /\ tool' = tool \ {r}
    /\ owner' = Append(owner, r)
    /\ buffer' = buffer \cup {New}
    /\ UNCHANGED <<run, flushTask, pc, batch, todo, redisVars, logVars>>
------------------------------------------------------------------------------
(* Flushing: _flush_batch. *)

\* Mutant: the buffer is not replaced by an empty one.
TakeCopy(f, found, p) ==
    /\ buffer' = found
    /\ batch' = [batch EXCEPT ![f] = found]
    /\ todo' = [todo EXCEPT ![f] = found]
    /\ pc' = [p EXCEPT ![f] = "cache"]

\* What a flush finds in the buffer becomes its batch; p is what the step has
\* done to pc before.
Take(f, found, p) ==
    /\ buffer' = {}
    /\ batch' = [batch EXCEPT ![f] = found]
    /\ todo' = [todo EXCEPT ![f] = found]
    /\ pc' = [p EXCEPT ![f] = "cache"]

TimerFires(t) ==
    /\ pc[t] = "sleep"
    /\ \/ /\ buffer = {}
          /\ pc' = [pc EXCEPT ![t] = "done"]
          /\ UNCHANGED <<buffer, batch, todo>>
       \/ buffer # {} /\ Take(t, buffer, pc)
    /\ UNCHANGED <<owner, runVars, flushTask, redisVars, logVars>>

\* Mutant: the buffer is left to the timer.
FinalFlushLeft(r, found, p) ==
    /\ run' = [run EXCEPT ![r] = "ended"]
    /\ buffer' = found
    /\ pc' = p
    /\ UNCHANGED <<batch, todo, final>>

\* The finally block of run_deep_agent.
FinalFlush(r, found, p) ==
    \/ /\ found = {}
       /\ run' = [run EXCEPT ![r] = "ended"]
       /\ UNCHANGED <<buffer, pc, batch, todo, final>>
    \/ /\ found # {}
       /\ run' = [run EXCEPT ![r] = "flushing"]
       /\ Take(r, found, p)
       /\ final' = final \cup found

\* The stream ends: no tool is under way.
RunEnds(r) ==
    /\ run[r] = "running"
    /\ r \notin tool
    /\ FinalFlush(r, buffer, pc)
    /\ UNCHANGED <<owner, tool, flushTask, redisVars, rows, lost>>

\* Cancelled or failed: the run reports that and flushes.  A tool in a thread
\* goes on.
RunStops(r) ==
    /\ run[r] = "running"
    /\ Room
    /\ owner' = Append(owner, r)
    /\ StartTimer
    /\ FinalFlush(r, buffer \cup {New}, TimerStarted)
    /\ UNCHANGED <<tool, redisVars, rows, lost>>

\* The flush ends; a run's ends the run.
Done(f) ==
    /\ pc' = [pc EXCEPT ![f] = "done"]
    /\ batch' = [batch EXCEPT ![f] = {}]
    /\ todo' = [todo EXCEPT ![f] = {}]
    /\ run' = [r \in Runs |-> IF r = f THEN "ended" ELSE run[r]]

Oldest(S) == {e \in S : \A other \in S : e <= other}

\* The flush goes on after event e.
Advance(f, e) ==
    /\ todo' = [todo EXCEPT ![f] = @ \ {e}]
    /\ pc' = [pc EXCEPT ![f] = IF todo[f] = {e} THEN "persist" ELSE "cache"]

\* Mutant: LTRIM 0 500.
TrimmedOneMore(list) ==
    SubSeq(list, 1, IF Len(list) <= CacheCap THEN Len(list) ELSE CacheCap + 1)

Trimmed(list) == SubSeq(list, 1, IF Len(list) <= CacheCap THEN Len(list) ELSE CacheCap)

\* LPUSH and LTRIM in one transaction.
Push(e) == cached' = [cached EXCEPT ![owner[e]] = Trimmed(<<e>> \o @)]

\* Mutant: an event that could not be cached is published all the same.
CacheEventOrNot(f) ==
    /\ pc[f] = "cache"
    /\ \/ \E e \in Oldest(todo[f]) : Push(e)
       \/ "push" \in Faults /\ UNCHANGED cached
    /\ pc' = [pc EXCEPT ![f] = "publish"]
    /\ UNCHANGED <<owner, runVars, buffer, flushTask, batch, todo, published, logVars>>

CacheEvent(f) ==
    /\ pc[f] = "cache"
    /\ \E e \in Oldest(todo[f]) :
          \/ /\ Push(e)
             /\ pc' = [pc EXCEPT ![f] = "publish"]
             /\ UNCHANGED todo
          \/ /\ "push" \in Faults
             /\ Advance(f, e)
             /\ UNCHANGED cached
    /\ UNCHANGED <<owner, runVars, buffer, flushTask, batch, published, logVars>>

PublishEvent(f) ==
    /\ pc[f] = "publish"
    /\ \E e \in Oldest(todo[f]) :
          /\ Advance(f, e)
          /\ \/ published' = Append(published, e)
             \/ "publish" \in Faults /\ UNCHANGED published
    /\ UNCHANGED <<owner, runVars, buffer, flushTask, batch, cached, logVars>>

\* One INSERT for the batch: an event whose session is gone fails all of it.
PersistBatch(f) ==
    /\ pc[f] = "persist"
    /\ Done(f)
    /\ \/ rows' = rows \cup batch[f] /\ UNCHANGED lost
       \/ "db" \in Faults /\ lost' = lost \cup batch[f] /\ UNCHANGED rows
    /\ UNCHANGED <<owner, tool, buffer, flushTask, redisVars, final>>

\* CancelledError passes both except clauses; the INSERT may have committed.
FinalFlushCancelled(r) ==
    /\ "cancel" \in Faults
    /\ run[r] = "flushing"
    /\ Done(r)
    /\ \/ lost' = lost \cup batch[r] /\ UNCHANGED rows
       \/ /\ pc[r] = "persist"
          /\ rows' = rows \cup batch[r]
          /\ UNCHANGED lost
    /\ UNCHANGED <<owner, tool, buffer, flushTask, redisVars, final>>

Flush(f) == CacheEvent(f) \/ PublishEvent(f) \/ PersistBatch(f)
------------------------------------------------------------------------------
Waiting == buffer \cup UNION {batch[f] : f \in Flushers}

\* The process dies; another takes the runs that have not begun.
Crash ==
    /\ "crash" \in Faults
    /\ run' = [r \in Runs |-> IF run[r] = "idle" THEN "idle" ELSE "ended"]
    /\ tool' = {}
    /\ buffer' = {}
    /\ flushTask' = NoTimer
    /\ pc' = [f \in Flushers |-> "done"]
    /\ batch' = [f \in Flushers |-> {}]
    /\ todo' = [f \in Flushers |-> {}]
    /\ lost' = lost \cup Waiting
    /\ UNCHANGED <<owner, redisVars, rows, final>>

RunNext(r) ==
    \/ RunBegins(r) \/ RunReady(r) \/ RunFailsToStart(r)
    \/ Report(r) \/ ToolStarts(r) \/ ToolReports(r)
    \/ RunEnds(r) \/ RunStops(r) \/ FinalFlushCancelled(r)

Next ==
    \/ \E r \in Runs : RunNext(r)
    \/ \E t \in Timers : TimerFires(t)
    \/ \E f \in Flushers : Flush(f)
    \/ Crash

Spec == Init /\ [][Next]_vars

(***************************************************************************)
(* The event loop runs timers, and Redis and PostgreSQL answer or fail.    *)
(* Nothing is assumed of agents, tools and users.                          *)
(***************************************************************************)
Fairness ==
    /\ \A t \in Timers : WF_vars(TimerFires(t))
    /\ \A f \in Flushers : WF_vars(Flush(f))

FairSpec == Spec /\ Fairness
=============================================================================
