-------------------------- MODULE EventProperties --------------------------
(* What EventPipeline is checked for. *)
EXTENDS EventPipeline, SequencesExt

Events == 1..Len(owner)

TypeOK ==
    /\ owner \in Seq(Runs)
    /\ run \in [Runs -> RunStates]
    /\ tool \subseteq Runs
    /\ buffer \subseteq Events
    /\ flushTask \in Timers \cup {NoTimer}
    /\ pc \in [Flushers -> FlushStates]
    /\ batch \in [Flushers -> SUBSET Events]
    /\ todo \in [Flushers -> SUBSET Events]
    /\ cached \in [Runs -> Seq(Events)]
    /\ \A r \in Runs : Len(cached[r]) <= CacheCap
    /\ published \in Seq(Events)
    /\ rows \subseteq Events
    /\ lost \subseteq Events
    /\ final \subseteq Events

(***************************************************************************)
(* An event is written to agent_events at most once, is not lost and       *)
(* written, and never appears without having been reported: the pipeline   *)
(* implements EventLog.                                                    *)
(***************************************************************************)
Log == INSTANCE EventLog WITH
    reported <- Len(owner), pending <- Waiting, stored <- rows, lost <- lost

IsEventLog == Log!Spec

(***************************************************************************)
(* No event is published twice, and a later event overtakes an earlier one *)
(* only if a run's final flush, which does not wait for the timer's, took  *)
(* one of them.                                                            *)
(***************************************************************************)
InOrder(d, e) == d < e \/ (d # e /\ final \cap {d, e} # {})

OvertakenByFinalFlush ==
    \A i, k \in DOMAIN published : i < k => InOrder(published[i], published[k])

(***************************************************************************)
(* A page that subscribes and then reads the list misses nothing: what was *)
(* published is in the list, unless the list is full.                      *)
(***************************************************************************)
ChannelIsCached ==
    \A e \in ToSet(published) :
        LET list == cached[owner[e]]
        IN  Len(list) < CacheCap => e \in ToSet(list)

(***************************************************************************)
(* Every event of a run is written or lost when the run has ended, whether *)
(* or not a timer was set for it: the flush at the end of the run takes    *)
(* what rests in the buffer.                                               *)
(***************************************************************************)
OfRunning(e) == e \in Events /\ run[owner[e]] = "running"

SettledAfterRun ==
    \A e \in 1..MaxEvents :
        OfRunning(e) ~> (e \in rows \cup lost \/ [](OfRunning(e)))

(***************************************************************************)
(* The comment of _enqueue_batch: an event in the buffer is flushed 50 ms  *)
(* later.  An event reported while a flush is under way, or in a thread,   *)
(* starts no timer.                                                        *)
(***************************************************************************)
FlushedByTimer == \A e \in 1..MaxEvents : e \in buffer ~> e \notin buffer
=============================================================================
