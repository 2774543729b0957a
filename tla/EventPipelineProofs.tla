------------------------ MODULE EventPipelineProofs ------------------------
(* Proofs about EventPipeline, for every set of runs, timers and faults.   *)
EXTENDS EventProperties, SequenceTheorems, TLAPS

USE DEF runVars, flushVars, redisVars, logVars

------------------------------------------------------------------------------
(* Types and control. *)

\* Only the task in _batch_flush_task is under way.
OneTimer == \A t \in Timers : pc[t] # "done" => t = flushTask

\* A flush has a batch while it works on it only.
RestingFlush == \A f \in Flushers : pc[f] \in {"done", "sleep"} => batch[f] = {}

\* A run flushes when it is said to.
FlushingRun == \A r \in Runs : run[r] # "flushing" => pc[r] = "done"

Control == TypeOK /\ OneTimer /\ RestingFlush /\ FlushingRun

\* A sequence over a set is one over a larger set.
LEMMA SeqMonotone ==
    ASSUME NEW S, NEW T, S \subseteq T, NEW s \in Seq(S)
    PROVE  s \in Seq(T)
<1>1. s \in [1..Len(s) -> T] /\ Len(s) \in Nat
  OBVIOUS
<1> QED
  BY <1>1, SeqDef

\* The Redis list stays within its cap.
LEMMA PushType ==
    ASSUME NEW S, cached \in [Runs -> Seq(S)], \A r \in Runs : Len(cached[r]) <= CacheCap,
           NEW e \in S, owner[e] \in Runs, Push(e)
    PROVE  cached' \in [Runs -> Seq(S)] /\ \A r \in Runs : Len(cached'[r]) <= CacheCap
<1> DEFINE list == <<e>> \o cached[owner[e]]
<1>1. list \in Seq(S)
  OBVIOUS
<1>2. cached' = [cached EXCEPT ![owner[e]] = Trimmed(list)]
  BY DEF Push
<1> HIDE DEF list
<1>3. Trimmed(list) \in Seq(S) /\ Len(Trimmed(list)) <= CacheCap
  <2>1. \A n \in 0..Len(list) :
           SubSeq(list, 1, n) \in Seq(S) /\ Len(SubSeq(list, 1, n)) = n
    BY <1>1
  <2> QED
    BY <2>1, <1>1, PipelineAssumption DEF Trimmed
<1> QED
  BY <1>2, <1>3

\* A timer that may be started exists.
LEMMA TimerThere ==
    ASSUME Control, NoFlushTask
    PROVE  FreeTimer \in Timers /\ pc[FreeTimer] = "done"
BY PipelineAssumption DEF Control, OneTimer, NoFlushTask, FreeTimer

\* The initial state.
LEMMA ControlInit == Init => Control
BY PipelineAssumption
   DEF Init, Control, TypeOK, OneTimer, RestingFlush, FlushingRun, Flushers, RunStates,
       FlushStates, Events

(***************************************************************************)
(* What a step can do to the events: nothing; add one to the buffer; take  *)
(* the buffer, with an event added to it or not, as a flush's batch; pass  *)
(* over or publish the oldest event a flush has to push; end a flush, its  *)
(* batch stored or lost; end everything.                                   *)
(***************************************************************************)
Same == UNCHANGED <<Len(owner), buffer, batch, todo, published, rows, lost, final>>

Adds ==
    /\ Len(owner') = New
    /\ buffer' = buffer \cup {New}
    /\ UNCHANGED <<batch, todo, published, rows, lost, final>>

Takes(f) ==
    \E found \in {buffer, buffer \cup {New}} :
        /\ Len(owner') = IF found = buffer THEN Len(owner) ELSE New
        /\ batch[f] = {}
        /\ buffer' = {}
        /\ batch' = [batch EXCEPT ![f] = found]
        /\ todo' = [todo EXCEPT ![f] = found]
        /\ final' = IF f \in Runs THEN final \cup found ELSE final
        /\ UNCHANGED <<published, rows, lost>>

Passes(f) ==
    /\ \E e \in Oldest(todo[f]) :
          /\ todo' = [todo EXCEPT ![f] = @ \ {e}]
          /\ published' \in {published, Append(published, e)}
    /\ UNCHANGED <<Len(owner), buffer, batch, rows, lost, final>>

Settles(f) ==
    /\ batch' = [batch EXCEPT ![f] = {}]
    /\ todo' = [todo EXCEPT ![f] = {}]
    /\ \/ rows' = rows \cup batch[f] /\ UNCHANGED lost
       \/ lost' = lost \cup batch[f] /\ UNCHANGED rows
    /\ UNCHANGED <<Len(owner), buffer, published, final>>

Dies ==
    /\ buffer' = {}
    /\ batch' = [f \in Flushers |-> {}]
    /\ todo' = [f \in Flushers |-> {}]
    /\ lost' = lost \cup Waiting
    /\ UNCHANGED <<Len(owner), published, rows, final>>

EventStep ==
    \/ Same \/ Adds \/ Dies
    \/ \E f \in Flushers : Takes(f) \/ Passes(f) \/ Settles(f)

\* What the appending of an event does.
LEMMA Appended ==
    ASSUME TypeOK, NEW r \in Runs, owner' = Append(owner, r)
    PROVE  /\ owner' \in Seq(Runs)
           /\ Len(owner') = New
           /\ New \in Nat
           /\ Events' = Events \cup {New}
           /\ New \notin Events
BY DEF TypeOK, New, Events

\* What the starting of a timer, if need be, does.
LEMMA TimerSet ==
    ASSUME Control, StartTimer
    PROVE  /\ flushTask' \in Timers \cup {NoTimer}
           /\ TimerStarted \in [Flushers -> FlushStates]
           /\ \A t \in Timers : TimerStarted[t] # "done" => t = flushTask'
           /\ \A f \in Flushers :
                 \/ TimerStarted[f] = pc[f]
                 \/ pc[f] = "done" /\ TimerStarted[f] = "sleep" /\ f \in Timers
<1> USE DEF Control, StartTimer, TimerStarted, OneTimer, TypeOK, Flushers, FlushStates
<1>1. CASE NoFlushTask
  <2>1. /\ FreeTimer \in Timers /\ pc[FreeTimer] = "done"
        /\ \A t \in Timers : pc[t] = "done"
    BY <1>1, TimerThere, PipelineAssumption DEF NoFlushTask
  <2> QED
    BY <2>1, <1>1
<1>2. CASE ~NoFlushTask
  BY <1>2
<1> QED
  BY <1>1, <1>2

\* The sequences stay sequences of events when an event is added.
LEMMA SeqsKept ==
    ASSUME TypeOK, Events' = Events \cup {New}, UNCHANGED redisVars
    PROVE  /\ cached' \in [Runs -> Seq(Events')]
           /\ \A r \in Runs : Len(cached'[r]) <= CacheCap
           /\ published' \in Seq(Events')
<1>1. \A r \in Runs : cached[r] \in Seq(Events')
  BY SeqMonotone DEF TypeOK
<1> QED
  BY <1>1, SeqMonotone DEF TypeOK

\* Every step keeps types and control, and is one of the above.
LEMMA Steps == Control /\ [Next]_vars => Control' /\ EventStep
<1> SUFFICES ASSUME Control, [Next]_vars PROVE Control' /\ EventStep
  OBVIOUS
<1> USE PipelineAssumption
<1>a. TypeOK /\ OneTimer /\ RestingFlush /\ FlushingRun
  BY DEF Control
<1>b. \A r \in Runs : r \in Flushers /\ r \notin Timers
  BY DEF Flushers
<1>1. ASSUME NEW r \in Runs, Enqueue(r), UNCHANGED <<redisVars, logVars>>,
             run' \in [Runs -> RunStates], tool' \subseteq Runs,
             \A q \in Runs : run[q] = "flushing" => run'[q] = "flushing"
      PROVE  Control' /\ EventStep
  <2>1. /\ owner' \in Seq(Runs) /\ Len(owner') = New /\ New \in Nat
        /\ Events' = Events \cup {New} /\ New \notin Events
    BY <1>1, <1>a, Appended DEF Enqueue
  <2>2. /\ flushTask' \in Timers \cup {NoTimer}
        /\ pc' \in [Flushers -> FlushStates]
        /\ OneTimer'
        /\ \A f \in Flushers :
              \/ pc'[f] = pc[f]
              \/ pc[f] = "done" /\ pc'[f] = "sleep" /\ f \in Timers
    BY <1>1, TimerSet DEF Enqueue, OneTimer
  <2>3. TypeOK'
    BY <2>1, <2>2, <1>1, <1>a, SeqsKept DEF TypeOK, Enqueue
  <2>4. RestingFlush' /\ FlushingRun'
    BY <2>2, <1>1, <1>a, <1>b DEF Enqueue, RestingFlush, FlushingRun
  <2>5. Adds
    BY <2>1, <1>1 DEF Enqueue, Adds
  <2> QED
    BY <2>2, <2>3, <2>4, <2>5 DEF Control, EventStep
<1>2. ASSUME NEW r \in Runs, ToolReports(r) PROVE Control' /\ EventStep
  <2>1. /\ owner' \in Seq(Runs) /\ Len(owner') = New /\ New \in Nat
        /\ Events' = Events \cup {New} /\ New \notin Events
    BY <1>2, <1>a, Appended DEF ToolReports
  <2>2. TypeOK'
    BY <2>1, <1>2, <1>a, SeqsKept DEF TypeOK, ToolReports
  <2>3. OneTimer' /\ RestingFlush' /\ FlushingRun'
    BY <1>2, <1>a DEF ToolReports, OneTimer, RestingFlush, FlushingRun
  <2>4. Adds
    BY <2>1, <1>2 DEF ToolReports, Adds
  <2> QED
    BY <2>2, <2>3, <2>4 DEF Control, EventStep
<1>3. ASSUME NEW r \in Runs, RunStops(r) PROVE Control' /\ EventStep
  <2> DEFINE found == buffer \cup {New}
  <2>1. /\ owner' \in Seq(Runs) /\ Len(owner') = New /\ New \in Nat
        /\ Events' = Events \cup {New} /\ New \notin Events
    BY <1>3, <1>a, Appended DEF RunStops
  <2>2. /\ flushTask' \in Timers \cup {NoTimer}
        /\ TimerStarted \in [Flushers -> FlushStates]
        /\ \A t \in Timers : TimerStarted[t] # "done" => t = flushTask'
        /\ \A f \in Flushers :
              \/ TimerStarted[f] = pc[f]
              \/ pc[f] = "done" /\ TimerStarted[f] = "sleep" /\ f \in Timers
    BY <1>3, TimerSet DEF RunStops
  <2>3. /\ run[r] = "running"
        /\ run' = [run EXCEPT ![r] = "flushing"]
        /\ Take(r, found, TimerStarted)
        /\ final' = final \cup found
        /\ UNCHANGED <<tool, redisVars, rows, lost>>
    BY <1>3 DEF RunStops, FinalFlush
  <2>4. found \subseteq Events' /\ batch[r] = {}
    BY <2>1, <2>3, <1>a, <1>b DEF TypeOK, RestingFlush, FlushingRun
  <2> HIDE DEF found
  <2>5. /\ batch' \in [Flushers -> SUBSET Events']
        /\ todo' \in [Flushers -> SUBSET Events']
        /\ pc' \in [Flushers -> FlushStates]
    BY <2>1, <2>2, <2>3, <2>4, <1>a, <1>b DEF TypeOK, Take, FlushStates
  <2>6. TypeOK'
    BY <2>1, <2>2, <2>3, <2>4, <2>5, <1>a, SeqsKept DEF TypeOK, Take, RunStates
  <2>7. OneTimer' /\ RestingFlush' /\ FlushingRun'
    BY <2>2, <2>3, <1>a, <1>b DEF Take, OneTimer, RestingFlush, FlushingRun, TypeOK
  <2>8. Takes(r)
    <3>1. found # buffer
      BY <2>1, <1>a DEF TypeOK, found
    <3> QED
      BY <3>1, <2>1, <2>3, <2>4 DEF Takes, Take, found
  <2> QED
    BY <2>6, <2>7, <2>8, <1>b DEF Control, EventStep
<1>4. ASSUME NEW r \in Runs, RunEnds(r) PROVE Control' /\ EventStep
  <2>1. CASE buffer = {}
    <3>1. Same
      BY <2>1, <1>4 DEF RunEnds, FinalFlush, Same
    <3>2. TypeOK'
      BY <2>1, <1>4, <1>a DEF RunEnds, FinalFlush, TypeOK, Events, RunStates
    <3>3. OneTimer' /\ RestingFlush' /\ FlushingRun'
      BY <2>1, <1>4, <1>a DEF RunEnds, FinalFlush, OneTimer, RestingFlush, FlushingRun, TypeOK
    <3> QED
      BY <3>1, <3>2, <3>3 DEF Control, EventStep
  <2>2. CASE buffer # {}
    <3>1. /\ run[r] = "running"
          /\ run' = [run EXCEPT ![r] = "flushing"]
          /\ Take(r, buffer, pc)
          /\ final' = final \cup buffer
          /\ batch[r] = {}
          /\ UNCHANGED <<owner, tool, flushTask, redisVars, rows, lost>>
      BY <2>2, <1>4, <1>a, <1>b DEF RunEnds, FinalFlush, RestingFlush, FlushingRun
    <3>2. TypeOK'
      BY <3>1, <1>a, <1>b DEF Take, TypeOK, Events, RunStates, FlushStates
    <3>3. OneTimer' /\ RestingFlush' /\ FlushingRun'
      BY <3>1, <1>a, <1>b DEF Take, OneTimer, RestingFlush, FlushingRun, TypeOK
    <3>4. Takes(r)
      BY <3>1 DEF Takes, Take
    <3> QED
      BY <3>2, <3>3, <3>4, <1>b DEF Control, EventStep
  <2> QED
    BY <2>1, <2>2
<1>5. ASSUME NEW t \in Timers, TimerFires(t) PROVE Control' /\ EventStep
  <2>b. t \in Flushers /\ t \notin Runs
    BY DEF Flushers
  <2>1. CASE buffer = {} /\ pc' = [pc EXCEPT ![t] = "done"] /\ UNCHANGED <<buffer, batch, todo>>
    <3>1. Same
      BY <2>1, <1>5 DEF TimerFires, Same
    <3>2. TypeOK'
      BY <2>1, <2>b, <1>5, <1>a DEF TimerFires, TypeOK, Events, FlushStates
    <3>3. OneTimer' /\ RestingFlush' /\ FlushingRun'
      BY <2>1, <2>b, <1>5, <1>a, <1>b
         DEF TimerFires, OneTimer, RestingFlush, FlushingRun, TypeOK
    <3> QED
      BY <3>1, <3>2, <3>3 DEF Control, EventStep
  <2>2. CASE Take(t, buffer, pc)
    <3>1. batch[t] = {} /\ pc[t] = "sleep"
      BY <2>b, <1>5, <1>a DEF TimerFires, RestingFlush
    <3>2. TypeOK'
      BY <2>2, <2>b, <1>5, <1>a DEF TimerFires, Take, TypeOK, Events, FlushStates
    <3>3. OneTimer' /\ RestingFlush' /\ FlushingRun'
      BY <3>1, <2>2, <2>b, <1>5, <1>a, <1>b
         DEF TimerFires, Take, OneTimer, RestingFlush, FlushingRun, TypeOK
    <3>4. Takes(t)
      BY <3>1, <2>2, <2>b, <1>5 DEF TimerFires, Takes, Take
    <3> QED
      BY <3>2, <3>3, <3>4, <2>b DEF Control, EventStep
  <2> QED
    BY <2>1, <2>2, <1>5 DEF TimerFires
<1>6. ASSUME NEW f \in Flushers, Done(f),
             \/ rows' = rows \cup batch[f] /\ UNCHANGED lost
             \/ lost' = lost \cup batch[f] /\ UNCHANGED rows,
             UNCHANGED <<owner, tool, buffer, flushTask, redisVars, final>>
      PROVE  Control' /\ EventStep
  <2>1. TypeOK'
    BY <1>6, <1>a DEF Done, TypeOK, Events, FlushStates, RunStates
  <2>2. OneTimer' /\ RestingFlush' /\ FlushingRun'
    BY <1>6, <1>a, <1>b DEF Done, OneTimer, RestingFlush, FlushingRun, TypeOK, Flushers
  <2>3. Settles(f)
    BY <1>6 DEF Done, Settles
  <2> QED
    BY <2>1, <2>2, <2>3 DEF Control, EventStep
<1>7. ASSUME NEW f \in Flushers, CacheEvent(f) PROVE Control' /\ EventStep
  <2>1. PICK e \in Oldest(todo[f]) :
           \/ /\ Push(e)
              /\ pc' = [pc EXCEPT ![f] = "publish"]
              /\ UNCHANGED todo
           \/ Advance(f, e) /\ UNCHANGED cached
    BY <1>7 DEF CacheEvent
  <2>2. e \in todo[f] /\ e \in Events /\ pc[f] = "cache"
    BY <2>1, <1>7, <1>a DEF Oldest, TypeOK, CacheEvent
  <2>3. cached' \in [Runs -> Seq(Events)] /\ \A r \in Runs : Len(cached'[r]) <= CacheCap
    <3>1. owner[e] \in Runs
      BY <2>2, <1>a DEF TypeOK, Events
    <3> QED
      BY <3>1, <2>1, <2>2, <1>a, PushType DEF TypeOK
  <2>4. TypeOK'
    BY <2>1, <2>2, <2>3, <1>7, <1>a, ZenonT(60) DEF CacheEvent, Advance, TypeOK, Events, FlushStates
  <2>5. OneTimer' /\ RestingFlush' /\ FlushingRun'
    <3>1. PICK p \in {"publish", "persist", "cache"} : pc' = [pc EXCEPT ![f] = p]
      BY <2>1 DEF Advance
    <3> QED
      BY <3>1, <2>2, <1>7, <1>a, <1>b
         DEF CacheEvent, OneTimer, RestingFlush, FlushingRun, TypeOK
  <2>6. Same \/ Passes(f)
    BY <2>1, <1>7 DEF CacheEvent, Advance, Same, Passes
  <2> QED
    BY <2>4, <2>5, <2>6 DEF Control, EventStep
<1>8. ASSUME NEW f \in Flushers, PublishEvent(f) PROVE Control' /\ EventStep
  <2>1. PICK e \in Oldest(todo[f]) :
           Advance(f, e) /\ (UNCHANGED published \/ published' = Append(published, e))
    BY <1>8 DEF PublishEvent
  <2>2. e \in todo[f] /\ e \in Events /\ pc[f] = "publish"
    BY <2>1, <1>8, <1>a DEF Oldest, TypeOK, PublishEvent
  <2>3. published' \in Seq(Events)
    <3>1. published \in Seq(Events) /\ Append(published, e) \in Seq(Events)
      BY <2>2, <1>a DEF TypeOK
    <3> QED
      BY <3>1, <2>1
  <2>4. TypeOK'
    BY <2>1, <2>2, <2>3, <1>8, <1>a DEF PublishEvent, Advance, TypeOK, Events, FlushStates
  <2>5. OneTimer' /\ RestingFlush' /\ FlushingRun'
    <3>1. PICK p \in {"persist", "cache"} : pc' = [pc EXCEPT ![f] = p]
      BY <2>1 DEF Advance
    <3> QED
      BY <3>1, <2>2, <1>8, <1>a, <1>b
         DEF PublishEvent, OneTimer, RestingFlush, FlushingRun, TypeOK
  <2>6. Passes(f)
    BY <2>1, <1>8 DEF PublishEvent, Advance, Passes
  <2> QED
    BY <2>4, <2>5, <2>6 DEF Control, EventStep
<1>9. CASE Crash
  <2>1. Waiting \subseteq Events
    BY <1>a DEF Waiting, TypeOK
  <2>2. TypeOK'
    BY <2>1, <1>9, <1>a DEF Crash, TypeOK, Events, FlushStates, RunStates
  <2>3. OneTimer' /\ RestingFlush' /\ FlushingRun'
    BY <1>9, <1>b DEF Crash, OneTimer, RestingFlush, FlushingRun, Flushers
  <2>4. Dies
    BY <1>9 DEF Crash, Dies
  <2> QED
    BY <2>2, <2>3, <2>4 DEF Control, EventStep
<1>10. ASSUME UNCHANGED <<owner, tool, flushVars, redisVars, logVars>> \/
              UNCHANGED <<owner, run, flushVars, redisVars, logVars>>,
              run' \in [Runs -> RunStates], tool' \subseteq Runs,
              \A q \in Runs : run[q] = "flushing" => run'[q] = "flushing"
       PROVE  Control' /\ EventStep
  <2>1. TypeOK'
    BY <1>10, <1>a DEF TypeOK, Events
  <2>2. OneTimer' /\ RestingFlush' /\ FlushingRun'
    BY <1>10, <1>a DEF OneTimer, RestingFlush, FlushingRun
  <2>3. Same
    BY <1>10 DEF Same
  <2> QED
    BY <2>1, <2>2, <2>3 DEF Control, EventStep
<1>11. ASSUME NEW r \in Runs, RunNext(r) PROVE Control' /\ EventStep
  <2> USE DEF TypeOK, RunStates
  <2>1. CASE RunBegins(r)
    BY <2>1, <1>1, <1>a DEF RunBegins
  <2>2. CASE Report(r)
    BY <2>2, <1>1, <1>a DEF Report
  <2>3. CASE RunReady(r)
    BY <2>3, <1>10, <1>a DEF RunReady
  <2>4. CASE RunFailsToStart(r)
    BY <2>4, <1>10, <1>a DEF RunFailsToStart
  <2>5. CASE ToolStarts(r)
    BY <2>5, <1>10, <1>a DEF ToolStarts
  <2>6. CASE FinalFlushCancelled(r)
    BY <2>6, <1>6, <1>b DEF FinalFlushCancelled
  <2> QED
    BY <2>1, <2>2, <2>3, <2>4, <2>5, <2>6, <1>2, <1>3, <1>4, <1>11 DEF RunNext
<1>12. ASSUME NEW f \in Flushers, Flush(f) PROVE Control' /\ EventStep
  <2>1. CASE PersistBatch(f)
    BY <2>1, <1>6 DEF PersistBatch
  <2> QED
    BY <2>1, <1>7, <1>8, <1>12 DEF Flush
<1>13. CASE UNCHANGED vars
  BY <1>13, <1>10, <1>a DEF vars, TypeOK
<1> QED
  BY <1>5, <1>9, <1>11, <1>12, <1>13 DEF Next
------------------------------------------------------------------------------
(* The events. *)

\* An event is in one place: the buffer, or one batch.
Separate ==
    /\ \A f \in Flushers : buffer \cap batch[f] = {}
    /\ \A f, g \in Flushers : f # g => batch[f] \cap batch[g] = {}

\* A flush pushes what is in its batch; a run's batch is final.
Batches ==
    /\ \A f \in Flushers : todo[f] \subseteq batch[f]
    /\ \A r \in Runs : batch[r] \subseteq final

\* The buffer holds the latest events.
BufferLatest ==
    \A e \in buffer :
        /\ \A f \in Flushers : \A d \in batch[f] : d < e
        /\ \A i \in DOMAIN published : published[i] < e

\* What is to be pushed is in order with what was published.
TodoInOrder ==
    \A f \in Flushers : \A e \in todo[f] :
        \A i \in DOMAIN published : InOrder(published[i], e)

EventInv == Separate /\ Batches /\ BufferLatest /\ TodoInOrder /\ OvertakenByFinalFlush

LEMMA EventInit == Init => EventInv
BY DEF Init, EventInv, Separate, Batches, BufferLatest, TodoInOrder, OvertakenByFinalFlush,
       Flushers

\* Appending to what was published.
LEMMA PublishedAppended ==
    ASSUME published \in Seq(Events), NEW e, published' = Append(published, e)
    PROVE  /\ Len(published) \in Nat
           /\ DOMAIN published = 1..Len(published)
           /\ DOMAIN published' = 1..Len(published) + 1
           /\ \A i \in 1..Len(published) : published'[i] = published[i]
           /\ published'[Len(published) + 1] = e
  OBVIOUS

\* A flush that takes the buffer takes the latest events, all of them final
\* if it is a run's.
LEMMA TakeKept ==
    ASSUME Control, Control', EventInv, NEW f \in Flushers, Takes(f)
    PROVE  EventInv'
<1> USE DEF EventInv
<1>1. PICK found \in {buffer, buffer \cup {New}} :
        /\ batch[f] = {}
        /\ buffer' = {}
        /\ batch' = [batch EXCEPT ![f] = found]
        /\ todo' = [todo EXCEPT ![f] = found]
        /\ final' = IF f \in Runs THEN final \cup found ELSE final
        /\ UNCHANGED published
  BY DEF Takes
<1>2. /\ batch \in [Flushers -> SUBSET Events]
      /\ todo \in [Flushers -> SUBSET Events]
      /\ published \in Seq(Events)
      /\ \A e \in Events : e \in Nat /\ e < New
      /\ New \in Nat /\ New \notin Events
      /\ buffer \subseteq Events
  BY DEF Control, TypeOK, Events, New
<1>3. \A i \in DOMAIN published : published[i] \in Events
  BY <1>2
<1>4. \A e \in found :
        /\ \A g \in Flushers : \A d \in batch[g] : d < e
        /\ \A i \in DOMAIN published : published[i] < e
  BY <1>1, <1>2, <1>3 DEF BufferLatest
<1>5. \A d, e : InOrder(d, e) => InOrder(d, e)'
  BY <1>1 DEF InOrder
<1>6. Separate'
  <2>1. \A g \in Flushers : found \cap batch[g] = {}
    BY <1>1, <1>2 DEF Separate
  <2> QED
    BY <2>1, <1>1, <1>2 DEF Separate
<1>7. Batches'
  BY <1>1, <1>2 DEF Batches, Flushers
<1>8. BufferLatest'
  BY <1>1 DEF BufferLatest
<1>9. TodoInOrder'
  <2> SUFFICES ASSUME NEW g \in Flushers, NEW e \in todo'[g], NEW i \in DOMAIN published
               PROVE  InOrder(published[i], e)'
    BY <1>1 DEF TodoInOrder
  <2>1. CASE g = f
    BY <2>1, <1>1, <1>2, <1>4 DEF InOrder
  <2>2. CASE g # f
    BY <2>2, <1>1, <1>2, <1>5 DEF TodoInOrder
  <2> QED
    BY <2>1, <2>2
<1>10. OvertakenByFinalFlush'
  BY <1>1, <1>5 DEF OvertakenByFinalFlush
<1> QED
  BY <1>6, <1>7, <1>8, <1>9, <1>10

\* The oldest event a flush has to push is in order with what others have to
\* push: there is one timer, and the other flushes are final.
LEMMA PassKept ==
    ASSUME Control, Control', EventInv, NEW f \in Flushers, Passes(f)
    PROVE  EventInv'
<1> USE DEF EventInv
<1>1. PICK e \in Oldest(todo[f]) :
        /\ todo' = [todo EXCEPT ![f] = @ \ {e}]
        /\ UNCHANGED published \/ published' = Append(published, e)
  BY DEF Passes
<1>2. UNCHANGED <<buffer, batch, final>>
  BY DEF Passes
<1>3. /\ batch \in [Flushers -> SUBSET Events]
      /\ todo \in [Flushers -> SUBSET Events]
      /\ published \in Seq(Events)
      /\ \A d \in Events : d \in Nat
  BY DEF Control, TypeOK, Events
<1>4. e \in todo[f] /\ e \in batch[f] /\ e \in Nat /\ \A d \in todo[f] : e <= d
  BY <1>3 DEF Oldest, Batches
<1>5. \A g \in Flushers : todo'[g] \subseteq todo[g]
  BY <1>1, <1>3
<1>6. Separate' /\ Batches'
  BY <1>2, <1>5 DEF Separate, Batches
<1>7. CASE UNCHANGED published
  BY <1>2, <1>5, <1>6, <1>7
     DEF BufferLatest, TodoInOrder, OvertakenByFinalFlush, InOrder
<1>8. CASE published' = Append(published, e)
  <2>1. /\ Len(published) \in Nat
        /\ DOMAIN published = 1..Len(published)
        /\ DOMAIN published' = 1..Len(published) + 1
        /\ \A i \in 1..Len(published) : published'[i] = published[i]
        /\ published'[Len(published) + 1] = e
    BY <1>3, <1>8, PublishedAppended
  <2>2. BufferLatest'
    BY <2>1, <1>2, <1>4 DEF BufferLatest
  <2>3. \A g \in Flushers : \A d \in todo'[g] : InOrder(e, d)
    <3> SUFFICES ASSUME NEW g \in Flushers, NEW d \in todo'[g] PROVE InOrder(e, d)
      OBVIOUS
    <3>1. d \in todo[g] /\ d \in batch[g] /\ d \in Nat
      BY <1>3, <1>5 DEF Batches
    <3>2. CASE g = f
      BY <3>1, <3>2, <1>1, <1>3, <1>4 DEF InOrder
    <3>3. CASE g # f
      <4>1. e # d
        BY <3>1, <3>3, <1>4 DEF Separate
      <4>2. f \in Runs \/ g \in Runs
        <5>1. pc[f] # "done" /\ pc[g] # "done"
          BY <3>1, <1>4 DEF Control, RestingFlush
        <5> QED
          BY <5>1, <3>3 DEF Control, OneTimer, Flushers
      <4>3. e \in final \/ d \in final
        BY <4>2, <3>1, <1>4 DEF Batches
      <4> QED
        BY <4>1, <4>3 DEF InOrder
    <3> QED
      BY <3>2, <3>3
  <2>4. TodoInOrder'
    <3> SUFFICES ASSUME NEW g \in Flushers, NEW d \in todo'[g], NEW i \in DOMAIN published'
                 PROVE  InOrder(published'[i], d)
      BY <1>2 DEF TodoInOrder, InOrder
    <3>1. CASE i \in 1..Len(published)
      BY <3>1, <2>1, <1>5 DEF TodoInOrder
    <3>2. CASE i = Len(published) + 1
      BY <3>2, <2>1, <2>3
    <3> QED
      BY <3>1, <3>2, <2>1
  <2>5. OvertakenByFinalFlush'
    <3> SUFFICES ASSUME NEW i \in DOMAIN published', NEW k \in DOMAIN published', i < k
                 PROVE  InOrder(published'[i], published'[k])
      BY <1>2 DEF OvertakenByFinalFlush, InOrder
    <3>1. i \in 1..Len(published)
      BY <2>1
    <3>2. CASE k \in 1..Len(published)
      BY <3>1, <3>2, <2>1 DEF OvertakenByFinalFlush
    <3>3. CASE k = Len(published) + 1
      BY <3>1, <3>3, <2>1, <1>4 DEF TodoInOrder
    <3> QED
      BY <3>2, <3>3, <2>1
  <2> QED
    BY <2>2, <2>4, <2>5, <1>6
<1> QED
  BY <1>1, <1>7, <1>8

LEMMA EventKept == Control /\ Control' /\ EventInv /\ EventStep => EventInv'
<1> SUFFICES ASSUME Control, Control', EventInv, EventStep PROVE EventInv'
  OBVIOUS
<1> USE DEF EventInv
<1>1. /\ batch \in [Flushers -> SUBSET Events]
      /\ todo \in [Flushers -> SUBSET Events]
      /\ published \in Seq(Events)
      /\ \A e \in Events : e \in Nat /\ e < New
      /\ New \in Nat /\ New \notin Events
      /\ buffer \subseteq Events
  <2>1. TypeOK
    BY DEF Control
  <2>2. Len(owner) \in Nat
    BY <2>1 DEF TypeOK
  <2>3. /\ \A e \in Events : e \in Nat /\ e < New
        /\ New \in Nat /\ New \notin Events
    BY <2>2 DEF Events, New
  <2> QED
    BY <2>1, <2>3 DEF TypeOK
<1>2. CASE Same
  BY <1>2
     DEF Same, Separate, Batches, BufferLatest, TodoInOrder, OvertakenByFinalFlush, InOrder
<1>3. CASE Adds
  <2>1. \A i \in DOMAIN published : published[i] \in Events
    BY <1>1
  <2>2. Separate' /\ Batches' /\ TodoInOrder' /\ OvertakenByFinalFlush'
    BY <1>1, <1>3
       DEF Adds, Separate, Batches, TodoInOrder, OvertakenByFinalFlush, InOrder
  <2>3. BufferLatest'
    BY <2>1, <1>1, <1>3 DEF Adds, BufferLatest
  <2> QED
    BY <2>2, <2>3
<1>4. ASSUME NEW f \in Flushers, Settles(f) PROVE EventInv'
  BY <1>1, <1>4
     DEF Settles, Separate, Batches, BufferLatest, TodoInOrder, OvertakenByFinalFlush,
         InOrder, Flushers
<1>5. CASE Dies
  BY <1>5
     DEF Dies, Separate, Batches, BufferLatest, TodoInOrder, OvertakenByFinalFlush,
         InOrder, Flushers
<1> QED
  BY <1>2, <1>3, <1>4, <1>5, TakeKept, PassKept DEF EventStep

LEMMA Invariant == Spec => [](Control /\ EventInv)
<1>1. Init => Control /\ EventInv
  BY ControlInit, EventInit
<1>2. Control /\ EventInv /\ [Next]_vars => (Control /\ EventInv)'
  BY Steps, EventKept
<1> QED
  BY <1>1, <1>2, PTL DEF Spec

(***************************************************************************)
(* The states of the pipeline have their types, for all parameters.        *)
(***************************************************************************)
THEOREM PipelineTypeCorrect == Spec => []TypeOK
BY Invariant, PTL DEF Control

(***************************************************************************)
(* No event is published twice, and only where a run's final flush took    *)
(* one of two events can the later be published first.                     *)
(***************************************************************************)
THEOREM OrderHolds == Spec => []OvertakenByFinalFlush
BY Invariant, PTL DEF EventInv

------------------------------------------------------------------------------
(* The pipeline implements EventLog. *)

\* Every kind of step is a step of the log, or leaves it as it is.
LEMMA LogStep ==
    ASSUME Control, EventInv, EventStep
    PROVE  Log!Next \/ UNCHANGED Log!vars
<1> USE DEF Log!vars, Log!Next
<1>1. /\ batch \in [Flushers -> SUBSET Events]
      /\ Separate
      /\ \A f \in Flushers : batch[f] \subseteq Waiting
  BY DEF Control, TypeOK, EventInv, Waiting
<1>2. CASE Same
  BY <1>2 DEF Same, Waiting
<1>3. CASE Adds
  BY <1>3 DEF Adds, Waiting, New, Log!Report
<1>4. ASSUME NEW f \in Flushers, Takes(f) PROVE Log!Next \/ UNCHANGED Log!vars
  <2>1. PICK found \in {buffer, buffer \cup {New}} :
           /\ Len(owner') = IF found = buffer THEN Len(owner) ELSE New
           /\ batch[f] = {}
           /\ buffer' = {}
           /\ batch' = [batch EXCEPT ![f] = found]
           /\ UNCHANGED <<rows, lost>>
    BY <1>4 DEF Takes
  <2>2. Waiting' = found \cup Waiting
    <3>1. \A g \in Flushers : batch'[g] = IF g = f THEN found ELSE batch[g]
      BY <2>1, <1>1
    <3> QED
      BY <3>1, <2>1 DEF Waiting
  <2>3. CASE found = buffer
    BY <2>1, <2>2, <2>3 DEF Waiting
  <2>4. CASE found # buffer
    <3>1. Waiting' = Waiting \cup {New}
      BY <2>1, <2>2, <2>4 DEF Waiting
    <3> QED
      BY <3>1, <2>1, <2>4 DEF New, Log!Report
  <2> QED
    BY <2>3, <2>4
<1>5. ASSUME NEW f \in Flushers, Passes(f) PROVE Log!Next \/ UNCHANGED Log!vars
  BY <1>5 DEF Passes, Waiting
<1>6. ASSUME NEW f \in Flushers, Settles(f) PROVE Log!Next \/ UNCHANGED Log!vars
  <2>1. Waiting' = Waiting \ batch[f]
    <3>1. \A g \in Flushers : batch'[g] = IF g = f THEN {} ELSE batch[g]
      BY <1>6, <1>1 DEF Settles
    <3>2. buffer' = buffer /\ buffer \cap batch[f] = {}
      BY <1>6, <1>1 DEF Settles, Separate
    <3>3. \A g \in Flushers : g # f => batch[g] \cap batch[f] = {}
      BY <1>1 DEF Separate
    <3> QED
      BY <3>1, <3>2, <3>3 DEF Waiting
  <2>2. batch[f] \in SUBSET Waiting
    BY <1>1
  <2>3. Log!Store(batch[f]) \/ Log!Lose(batch[f])
    BY <2>1, <2>2, <1>6 DEF Settles, Log!Store, Log!Lose
  <2> QED
    BY <2>2, <2>3
<1>7. CASE Dies
  <2>1. Waiting' = {}
    BY <1>7 DEF Dies, Waiting
  <2>2. Log!Lose(Waiting)
    BY <2>1, <1>7 DEF Dies, Log!Lose
  <2> QED
    BY <2>2
<1> QED
  BY <1>2, <1>3, <1>4, <1>5, <1>6, <1>7 DEF EventStep

(***************************************************************************)
(* Every reported event is written to agent_events at most once, and is    *)
(* not lost and written.                                                   *)
(***************************************************************************)
THEOREM ImplementsLog == Spec => IsEventLog
<1>1. Init => Log!Init
  BY DEF Init, Log!Init, Waiting
<1>2. Control /\ EventInv /\ [Next]_vars => [Log!Next]_(Log!vars)
  BY Steps, LogStep
<1> QED
  BY <1>1, <1>2, Invariant, PTL DEF Spec, IsEventLog, Log!Spec

(***************************************************************************)
(* Every reported event waits in the buffer or a batch, is in agent_events *)
(* or was lost, and only one of them: none is dropped unnoticed.           *)
(***************************************************************************)
THEOREM EventsAccounted == Spec => []Log!Partition
<1> USE DEF Log!Partition, Log!vars
<1>1. Log!Init => Log!Partition
  BY DEF Log!Init
<1>2. Log!Partition /\ Len(owner) \in Nat /\ [Log!Next]_(Log!vars) => Log!Partition'
  <2> SUFFICES ASSUME Log!Partition, Len(owner) \in Nat, [Log!Next]_(Log!vars)
               PROVE  Log!Partition'
    OBVIOUS
  <2>1. CASE Log!Report
    BY <2>1 DEF Log!Report
  <2>2. ASSUME NEW events \in SUBSET Waiting, Log!Store(events) \/ Log!Lose(events)
        PROVE  Log!Partition'
    BY <2>2 DEF Log!Store, Log!Lose
  <2> QED
    BY <2>1, <2>2 DEF Log!Next
<1>3. Control => Len(owner) \in Nat
  BY DEF Control, TypeOK
<1> QED
  BY <1>1, <1>2, <1>3, Invariant, ImplementsLog, PTL DEF IsEventLog, Log!Spec
------------------------------------------------------------------------------
(* What was published is cached. *)

\* Event e is in the list of its thread, or was trimmed off it.
CachedIn(e) == Len(cached[owner[e]]) < CacheCap => e \in ToSet(cached[owner[e]])

\* So is what is about to be published.
CacheInv ==
    /\ \A e \in ToSet(published) : CachedIn(e)
    /\ \A f \in Flushers : pc[f] = "publish" => \A e \in Oldest(todo[f]) : CachedIn(e)

\* Steps that push and publish nothing, and lead no flush to publishing.
Quiet ==
    /\ UNCHANGED <<cached, published>>
    /\ \A e \in Events : owner'[e] = owner[e]
    /\ \A f \in Flushers : pc'[f] = "publish" => pc[f] = "publish" /\ todo'[f] = todo[f]

\* A list that is still short after a push has what it had, and the event.
LEMMA PushedIn ==
    ASSUME TypeOK, NEW e \in Events, Push(e), UNCHANGED owner
    PROVE  CachedIn(e)' /\ \A d \in Events : CachedIn(d) => CachedIn(d)'
<1> DEFINE old == cached[owner[e]]
           list == <<e>> \o old
<1>1. owner[e] \in Runs /\ \A d \in Events : owner[d] \in Runs
  BY DEF TypeOK, Events
<1>2. old \in Seq(Events) /\ list \in Seq(Events) /\ Len(list) = Len(old) + 1
      /\ list[1] = e /\ \A i \in 1 .. Len(old) : list[i + 1] = old[i]
  BY <1>1 DEF TypeOK
<1>3. cached' = [cached EXCEPT ![owner[e]] = Trimmed(list)]
  BY DEF Push
<1> HIDE DEF old, list
<1>4. Len(Trimmed(list)) < CacheCap =>
        e \in ToSet(Trimmed(list)) /\ ToSet(old) \subseteq ToSet(Trimmed(list))
              /\ Len(old) < CacheCap
  <2> SUFFICES ASSUME Len(Trimmed(list)) < CacheCap
               PROVE  e \in ToSet(Trimmed(list)) /\ ToSet(old) \subseteq ToSet(Trimmed(list))
                      /\ Len(old) < CacheCap
    OBVIOUS
  <2>1. \A n \in 0 .. Len(list) : Len(SubSeq(list, 1, n)) = n
    BY <1>2
  <2>2. Len(list) <= CacheCap
    BY <1>2, <2>1, PipelineAssumption DEF Trimmed
  <2>3. Trimmed(list) = SubSeq(list, 1, Len(list))
    BY <2>2 DEF Trimmed
  <2>4. Trimmed(list) = list
    BY <1>2, <2>3
  <2>5. Len(old) < CacheCap
    BY <1>2, <2>4, PipelineAssumption
  <2>6. e \in ToSet(list)
    BY <1>2 DEF ToSet
  <2>7. ToSet(old) \subseteq ToSet(list)
    <3> SUFFICES ASSUME NEW i \in DOMAIN old PROVE old[i] \in ToSet(list)
      BY DEF ToSet
    <3>1. i \in 1 .. Len(old) /\ i + 1 \in DOMAIN list
      BY <1>2
    <3> QED
      BY <3>1, <1>2 DEF ToSet
  <2> QED
    BY <2>4, <2>5, <2>6, <2>7
<1>5. \A r \in Runs : cached'[r] = IF r = owner[e] THEN Trimmed(list) ELSE cached[r]
  BY <1>1, <1>3 DEF TypeOK
<1>6. CachedIn(e)'
  BY <1>1, <1>4, <1>5 DEF CachedIn
<1>7. ASSUME NEW d \in Events, CachedIn(d) PROVE CachedIn(d)'
  <2>1. CASE owner[d] = owner[e]
    BY <1>1, <1>4, <1>5, <1>7, <2>1 DEF CachedIn, old
  <2>2. CASE owner[d] # owner[e]
    BY <1>1, <1>5, <1>7, <2>2 DEF CachedIn
  <2> QED
    BY <2>1, <2>2
<1> QED
  BY <1>6, <1>7

\* A step is quiet, or caches, or publishes.
LEMMA CacheSteps ==
    ASSUME Control, [Next]_vars
    PROVE  Quiet \/ \E f \in Flushers : CacheEvent(f) \/ PublishEvent(f)
<1> USE PipelineAssumption
<1>1. TypeOK /\ \A r \in Runs : r \in Flushers
  BY DEF Control, Flushers
<1>2. \A r \in Runs : \A e \in Events : Append(owner, r)[e] = owner[e]
  BY <1>1 DEF TypeOK, Events
<1>3. ASSUME StartTimer
      PROVE  \A f \in Flushers : TimerStarted[f] = "publish" => pc[f] = "publish"
  BY <1>3, TimerSet, PipelineAssumption
<1>4. ASSUME NEW r \in Runs, RunNext(r) PROVE Quiet
  <2>1. CASE RunBegins(r) \/ Report(r)
    BY <1>2, <1>3, <2>1 DEF RunBegins, Report, Enqueue, Quiet
  <2>2. CASE RunReady(r) \/ RunFailsToStart(r) \/ ToolStarts(r)
    BY <2>2 DEF RunReady, RunFailsToStart, ToolStarts, Quiet
  <2>3. CASE ToolReports(r)
    BY <1>2, <2>3 DEF ToolReports, Quiet
  <2>4. CASE RunEnds(r)
    BY <1>1, <2>4 DEF RunEnds, FinalFlush, Take, Quiet, TypeOK
  <2>5. CASE RunStops(r)
    <3>1. TimerStarted \in [Flushers -> FlushStates]
      BY <2>5, TimerSet DEF RunStops
    <3>2. \A f \in Flushers : TimerStarted[f] = "publish" => pc[f] = "publish"
      BY <1>3, <2>5 DEF RunStops
    <3>3. Take(r, buffer \cup {New}, TimerStarted)
      BY <2>5 DEF RunStops, FinalFlush
    <3>4. \A f \in Flushers : pc'[f] = "publish" => pc[f] = "publish" /\ todo'[f] = todo[f]
      BY <1>1, <3>1, <3>2, <3>3 DEF Take, TypeOK
    <3> QED
      BY <1>2, <3>4, <2>5 DEF RunStops, Quiet
  <2>6. CASE FinalFlushCancelled(r)
    BY <1>1, <2>6 DEF FinalFlushCancelled, Done, Quiet, TypeOK
  <2> QED
    BY <1>4, <2>1, <2>2, <2>3, <2>4, <2>5, <2>6 DEF RunNext
<1>5. ASSUME NEW t \in Timers, TimerFires(t) PROVE Quiet
  BY <1>1, <1>5 DEF TimerFires, Take, Quiet, TypeOK, Flushers
<1>6. ASSUME NEW f \in Flushers, PersistBatch(f) PROVE Quiet
  BY <1>1, <1>6 DEF PersistBatch, Done, Quiet, TypeOK
<1>7. CASE Crash
  BY <1>7 DEF Crash, Quiet
<1>8. CASE UNCHANGED vars
  BY <1>8 DEF vars, Quiet
<1> QED
  BY <1>4, <1>5, <1>6, <1>7, <1>8 DEF Next, Flush

LEMMA CacheKept ==
    ASSUME Control, CacheInv, [Next]_vars
    PROVE  CacheInv'
<1>1. TypeOK /\ ToSet(published) \subseteq Events
      /\ \A f \in Flushers : Oldest(todo[f]) \subseteq Events
  BY DEF Control, TypeOK, ToSet, Oldest
<1>2. CASE Quiet
  <2>1. \A e \in Events : CachedIn(e) => CachedIn(e)'
    BY <1>2 DEF Quiet, CachedIn
  <2>2. \A f \in Flushers : pc'[f] = "publish" =>
          pc[f] = "publish" /\ Oldest(todo'[f]) = Oldest(todo[f])
    BY <1>2 DEF Quiet, Oldest
  <2>3. ToSet(published') = ToSet(published)
    BY <1>2 DEF Quiet
  <2>4. \A e \in ToSet(published)' : CachedIn(e)'
    BY <1>1, <2>1, <2>3 DEF CacheInv
  <2>5. \A f \in Flushers : pc'[f] = "publish" => \A e \in Oldest(todo[f])' : CachedIn(e)'
    BY <1>1, <2>1, <2>2 DEF CacheInv
  <2> QED
    BY <2>4, <2>5 DEF CacheInv, Flushers
<1>3. ASSUME NEW f \in Flushers, CacheEvent(f) PROVE CacheInv'
  <2>1. PICK e \in Oldest(todo[f]) :
           \/ /\ Push(e) /\ pc' = [pc EXCEPT ![f] = "publish"] /\ todo' = todo
           \/ Advance(f, e) /\ cached' = cached
    BY <1>3 DEF CacheEvent
  <2>2. owner' = owner /\ published' = published /\ e \in Events
    BY <1>1, <1>3, <2>1 DEF CacheEvent
  <2>3. \A d \in Events : CachedIn(d) => CachedIn(d)'
    BY <1>1, <2>1, <2>2, PushedIn DEF CachedIn
  <2>4. CASE Push(e) /\ pc' = [pc EXCEPT ![f] = "publish"] /\ todo' = todo
    <3>1. CachedIn(e)'
      BY <1>1, <2>2, <2>4, PushedIn
    <3>2. \A d \in Oldest(todo[f]) : d = e
      BY <1>1, <2>1 DEF Oldest, Events
    <3>3. \A g \in Flushers : g # f => pc'[g] = pc[g]
      BY <1>1, <2>4 DEF TypeOK
    <3>4. \A g \in Flushers : pc'[g] = "publish" => \A d \in Oldest(todo[g]) : CachedIn(d)'
      BY <1>1, <2>3, <3>1, <3>2, <3>3 DEF CacheInv
    <3> QED
      BY <1>1, <2>2, <2>3, <2>4, <3>4 DEF CacheInv, Flushers, Oldest
  <2>5. CASE Advance(f, e) /\ cached' = cached
    <3>1. \A g \in Flushers : pc'[g] = "publish" => g # f /\ pc[g] = "publish" /\ todo'[g] = todo[g]
      BY <1>1, <2>5 DEF TypeOK, Advance
    <3> QED
      BY <1>1, <2>2, <2>3, <3>1 DEF CacheInv, Flushers, Oldest
  <2> QED
    BY <2>1, <2>4, <2>5
<1>4. ASSUME NEW f \in Flushers, PublishEvent(f) PROVE CacheInv'
  <2>1. PICK e \in Oldest(todo[f]) :
           Advance(f, e) /\ (published' = Append(published, e) \/ UNCHANGED published)
    BY <1>4 DEF PublishEvent
  <2>2. owner' = owner /\ cached' = cached /\ pc[f] = "publish"
    BY <1>4 DEF PublishEvent
  <2>3. ToSet(published') \subseteq ToSet(published) \cup {e}
    <3>1. CASE published' = Append(published, e)
      <4>1. published \in Seq(Events)
        BY <1>1 DEF TypeOK
      <4>2. /\ DOMAIN published = 1..Len(published) /\ Len(published) \in Nat
            /\ DOMAIN published' = 1..Len(published) + 1
            /\ \A i \in 1..Len(published) : published'[i] = published[i]
            /\ published'[Len(published) + 1] = e
        BY <3>1, <4>1, PublishedAppended
      <4> QED
        BY <4>2 DEF ToSet
    <3> QED
      BY <2>1, <3>1
  <2>4. \A g \in Flushers : pc'[g] = "publish" => g # f /\ pc[g] = "publish" /\ todo'[g] = todo[g]
    BY <1>1, <2>1 DEF TypeOK, Advance
  <2>5. \A d : CachedIn(d)' = CachedIn(d)
    BY <2>2 DEF CachedIn
  <2>6. CachedIn(e)
    BY <2>1, <2>2 DEF CacheInv
  <2> QED
    BY <2>3, <2>4, <2>5, <2>6 DEF CacheInv, Flushers, Oldest
<1> QED
  BY <1>2, <1>3, <1>4, CacheSteps

(***************************************************************************)
(* What was published is in the list of its thread, or was trimmed off it. *)
(***************************************************************************)
THEOREM CachedHolds == Spec => []ChannelIsCached
<1>1. Init => CacheInv
  BY DEF Init, CacheInv, ToSet
<1>2. CacheInv => ChannelIsCached
  BY DEF CacheInv, CachedIn, ChannelIsCached
<1>3. Control /\ CacheInv /\ [Next]_vars => CacheInv'
  BY CacheKept
<1> QED
  BY <1>1, <1>2, <1>3, Invariant, PTL DEF Spec
=============================================================================
