---------------------------- MODULE TaskLifecycle ----------------------------
(***************************************************************************)
(* The life of a research task: submitted to the API server                *)
(* (server.py run_task), queued by ARQ, executed by a worker coroutine     *)
(* (worker.py run_agent_task) that watches a Redis cancel signal while the *)
(* agent runs (main_agent.py run_deep_agent), and cancelled by the API     *)
(* server (server.py cancel_task) or by ARQ's job_timeout.                 *)
(*                                                                         *)
(* A step is what happens between two awaits that touch Redis or           *)
(* PostgreSQL.  One user is modelled: the counter user_tasks:{uid} is per  *)
(* user, and users share nothing else here.                                *)
(***************************************************************************)
EXTENDS Integers, FiniteSets

CONSTANTS
    Jobs,              \* submissions; each enqueues at most one ARQ job
    NoJob,             \* no job id under task_job:{thread}
    Threads,           \* conversation threads
    ThreadOf,          \* the thread each submission is for
    Cancels,           \* requests to cancel a thread's task
    MaxConcurrent,     \* MAX_CONCURRENT_TASKS_PER_USER
    MaxTries,          \* WorkerSettings.max_tries
    CancelReachesBody, \* whether cancel_task gets past its first await
    Faults             \* what may happen around the code, see FaultKinds

(***************************************************************************)
(* "lapse"   user_tasks:{uid} expires, 600 s after the latest submission   *)
(* "arm"     a request dies between INCR and EXPIRE                        *)
(* "request" a request dies, or its INSERT, PUBLISH or SET raises, later   *)
(* "enqueue" arq_client.enqueue_job raises, before or after it took effect  *)
(* "db"      a PostgreSQL write of the worker or of the agent fails        *)
(* "cleanup" an error or a cancellation cuts the worker's finally short    *)
(* "crash"   the process that runs a job dies                              *)
(* "retry"   ARQ runs a job again whose coroutine raised                   *)
(* "abort"   Job.abort() takes a job off the queue                         *)
(* "ttl"     a cancel or task_job key outlives its hour                    *)
(***************************************************************************)
FaultKinds == {"lapse", "arm", "request", "enqueue", "db", "cleanup", "crash",
               "retry", "abort", "ttl"}

ASSUME ConstantsAssumption ==
    /\ IsFiniteSet(Jobs)
    /\ NoJob \notin Jobs
    /\ ThreadOf \in [Jobs -> Threads]
    /\ MaxConcurrent \in Nat
    /\ MaxTries \in Nat \ {0}
    /\ CancelReachesBody \in BOOLEAN
    /\ Faults \subseteq FaultKinds

VARIABLES
    req,         \* where each POST /api/task is
    quota,       \* the value of user_tasks:{uid}, 0 when the key is absent
    quotaKey,    \* whether that key exists, and with a TTL
    cancelKey,   \* threads with a key cancel:{thread}
    taskJob,     \* task_job:{thread}
    status,      \* sessions.status in PostgreSQL
    tries,       \* deliveries of each job by ARQ
    wpc,         \* where each job is: in ARQ's queue, or in run_agent_task
    outcome,     \* what ended its latest attempt, other than success
    cancelEvent, \* attempts whose asyncio.Event cancel_event is set
    agent,       \* each job's run_deep_agent task
    late,        \* fire-and-forget _complete_session tasks not yet run
    cpc,         \* where each cancel request is
    cjob,        \* the job a cancel request found in task_job
    uncounted,   \* history: jobs whose slot the counter no longer holds
    debt         \* history: slots uncounted jobs gave back since the key expired

quotaVars  == <<quota, quotaKey, uncounted, debt>>
keyVars    == <<cancelKey, taskJob>>
workerVars == <<tries, wpc, outcome, cancelEvent>>
agentVars  == <<agent, late>>
cancelVars == <<cpc, cjob>>

vars == <<req, quotaVars, keyVars, status, workerVars, agentVars, cancelVars>>

\* "within" and "over": INCR returned at most, or more than, the limit.
RequestStates == {"idle", "within", "over", "armed", "overArmed", "inserted",
                  "enqueued", "answered", "rejected", "refunded", "unarmed", "lost"}
Statuses == {"none", "queued", "running", "completed", "cancelled", "failed"}
\* The coroutine run_agent_task is on some worker's event loop, before and in
\* its finally block.
TryStates == {"start", "check", "spawn", "wait", "complete", "markCancelled", "markFailed"}
FinallyStates == {"release", "cleanKeys"}
WorkerStates == {"idle", "queued", "done", "abandoned"} \cup TryStates \cup FinallyStates
\* "cut": cancelled in an except clause, which then writes no status.
Outcomes == {"none", "cancelled", "timedout", "failed", "cut"}
AgentActive == {"ensure", "run"}
AgentStates == {"none", "ok", "exc", "cxl"} \cup AgentActive
CancelStates == {"idle", "signal", "abort", "mark", "unmap", "answered", "died",
                 "raised"}

Init ==
    /\ req = [j \in Jobs |-> "idle"]
    /\ quota = 0
    /\ quotaKey = "absent"
    /\ cancelKey = {}
    /\ taskJob = [t \in Threads |-> NoJob]
    /\ status = [t \in Threads |-> "none"]
    /\ tries = [j \in Jobs |-> 0]
    /\ wpc = [j \in Jobs |-> "idle"]
    /\ outcome = [j \in Jobs |-> "none"]
    /\ cancelEvent = {}
    /\ agent = [j \in Jobs |-> "none"]
    /\ late = [j \in Jobs |-> 0]
    /\ cpc = [c \in Cancels |-> "idle"]
    /\ cjob = [c \in Cancels |-> NoJob]
    /\ uncounted = {}
    /\ debt = 0

WriteStatus(j, s) == status' = [status EXCEPT ![ThreadOf[j]] = s]

\* A write whose exception the code catches and logs.
TryStatus(j, s) ==
    \/ WriteStatus(j, s)
    \/ "db" \in Faults /\ UNCHANGED status

------------------------------------------------------------------------------
(* The counter user_tasks:{uid}. *)

\* The request's INCR stands, as far as the request is concerned.
Counted(j) == req[j] \notin {"idle", "rejected", "refunded"}

\* The worker's finally block has given the slot back.
Returned(j) == wpc[j] \in {"cleanKeys", "done"}

\* The jobs the counter still counts.
Holders == {j \in Jobs : Counted(j) /\ ~Returned(j) /\ j \notin uncounted}

\* INCR and DECR create a missing key at 0 first, and give it no TTL.
Touched == IF quotaKey = "absent" THEN "persistent" ELSE quotaKey

\* DECR by job j, whose slot the counter may have forgotten.
GiveBack(j) ==
    /\ quota' = quota - 1
    /\ quotaKey' = Touched
    /\ debt' = IF j \in uncounted THEN debt + 1 ELSE debt

\* The key goes, whoever is still running.
ExpireQuota ==
    /\ "lapse" \in Faults
    /\ quotaKey = "volatile"
    /\ quotaKey' = "absent"
    /\ quota' = 0
    /\ uncounted' = uncounted \cup Holders
    /\ debt' = 0
    /\ UNCHANGED <<req, keyVars, status, workerVars, agentVars, cancelVars>>

------------------------------------------------------------------------------
(* POST /api/task. *)

RequestStep(j, from, to) ==
    /\ req[j] = from
    /\ req' = [req EXCEPT ![j] = to]
    /\ UNCHANGED <<tries, outcome, cancelEvent, agentVars, cancelVars>>

\* Mutant: the count from before the INCR is compared with the limit.
SubmitIncrOldCount(j) ==
    /\ quota' = quota + 1
    /\ quotaKey' = Touched
    /\ RequestStep(j, "idle", IF quota <= MaxConcurrent THEN "within" ELSE "over")
    /\ UNCHANGED <<uncounted, debt, keyVars, status, wpc>>

SubmitIncr(j) ==
    /\ quota' = quota + 1
    /\ quotaKey' = Touched
    /\ RequestStep(j, "idle", IF quota' <= MaxConcurrent THEN "within" ELSE "over")
    /\ UNCHANGED <<uncounted, debt, keyVars, status, wpc>>

\* Mutant: no EXPIRE.
SubmitWithoutExpire(j) ==
    /\ RequestStep(j, "within", "armed") \/ RequestStep(j, "over", "overArmed")
    /\ UNCHANGED <<quotaVars, keyVars, status, wpc>>

\* EXPIRE does nothing when the key went away since the INCR.
SubmitExpire(j) ==
    /\ RequestStep(j, "within", "armed") \/ RequestStep(j, "over", "overArmed")
    /\ quotaKey' = IF quotaKey = "absent" THEN "absent" ELSE "volatile"
    /\ UNCHANGED <<quota, uncounted, debt, keyVars, status, wpc>>

\* Mutant: the INCR is taken back but the exception not raised.
SubmitRejectGoesOn(j) ==
    /\ RequestStep(j, "overArmed", "armed")
    /\ GiveBack(j)
    /\ UNCHANGED <<uncounted, keyVars, status, wpc>>

\* 429: the INCR is taken back.
SubmitReject(j) ==
    /\ RequestStep(j, "overArmed", "rejected")
    /\ GiveBack(j)
    /\ UNCHANGED <<uncounted, keyVars, status, wpc>>

\* The session row becomes 'queued', even if another job of the thread runs.
SubmitInsert(j) ==
    /\ RequestStep(j, "armed", "inserted")
    /\ WriteStatus(j, "queued")
    /\ UNCHANGED <<quotaVars, keyVars, wpc>>

SubmitEnqueue(j) ==
    /\ RequestStep(j, "inserted", "enqueued")
    /\ wpc' = [wpc EXCEPT ![j] = "queued"]
    /\ UNCHANGED <<quotaVars, keyVars, status>>

\* Mutant: no DECR in the except clause.
SubmitEnqueueFailsNoRefund(j) ==
    /\ "enqueue" \in Faults
    /\ RequestStep(j, "inserted", "refunded")
    /\ UNCHANGED <<quotaVars, keyVars, status, wpc>>

\* The request gives the slot back.  When only ARQ's answer was lost, the job
\* is queued nevertheless, and its worker gives the slot back again.
SubmitEnqueueFails(j) ==
    /\ "enqueue" \in Faults
    /\ RequestStep(j, "inserted", "refunded")
    /\ GiveBack(j)
    /\ \/ UNCHANGED <<wpc, uncounted>>
       \/ /\ wpc' = [wpc EXCEPT ![j] = "queued"]
          /\ uncounted' = uncounted \cup {j}
    /\ UNCHANGED <<keyVars, status>>

\* The job may have run, and cleaned up, before its id is stored.
SubmitMap(j) ==
    /\ RequestStep(j, "enqueued", "answered")
    /\ taskJob' = [taskJob EXCEPT ![ThreadOf[j]] = j]
    /\ UNCHANGED <<quotaVars, cancelKey, status, wpc>>

\* Nothing takes the INCR back when the request ends anywhere else.
SubmitDies(j) ==
    /\ \/ /\ "arm" \in Faults
          /\ \E from \in {"within", "over"} : RequestStep(j, from, "unarmed")
       \/ /\ "request" \in Faults
          /\ \E from \in {"armed", "overArmed", "inserted"} : RequestStep(j, from, "lost")
       \/ /\ "request" \in Faults
          /\ RequestStep(j, "enqueued", "answered")
    /\ UNCHANGED <<quotaVars, keyVars, status, wpc>>

Submit(j) ==
    SubmitExpire(j) \/ SubmitReject(j) \/ SubmitInsert(j) \/ SubmitEnqueue(j) \/ SubmitMap(j)

------------------------------------------------------------------------------
(* ARQ, as worker.py configures and uses it: at-least-once delivery. *)

\* Mutant: no max_tries.
ArqDeliverForever(j) ==
    /\ wpc[j] = "queued"
    /\ tries' = [tries EXCEPT ![j] = @ + 1]
    /\ wpc' = [wpc EXCEPT ![j] = "start"]
    /\ outcome' = [outcome EXCEPT ![j] = "none"]
    /\ UNCHANGED <<req, quotaVars, keyVars, status, cancelEvent, agentVars, cancelVars>>

ArqDeliver(j) ==
    /\ wpc[j] = "queued"
    /\ tries[j] < MaxTries
    /\ tries' = [tries EXCEPT ![j] = @ + 1]
    /\ wpc' = [wpc EXCEPT ![j] = "start"]
    /\ outcome' = [outcome EXCEPT ![j] = "none"]
    /\ UNCHANGED <<req, quotaVars, keyVars, status, cancelEvent, agentVars, cancelVars>>

\* Out of tries: ARQ fails the job without calling run_agent_task.
ArqGiveUp(j) ==
    /\ wpc[j] = "queued"
    /\ tries[j] = MaxTries
    /\ wpc' = [wpc EXCEPT ![j] = "abandoned"]
    /\ UNCHANGED <<req, quotaVars, keyVars, status, tries, outcome, cancelEvent,
                   agentVars, cancelVars>>

\* The job goes back to the queue; a slot already returned stays returned.
Redeliver(j) ==
    /\ wpc' = [wpc EXCEPT ![j] = "queued"]
    /\ uncounted' = IF Returned(j) THEN uncounted \cup {j} ELSE uncounted

\* The process dies with the coroutine, its agent and its background tasks.
\* ARQ delivers a job it has no result of again.
WorkerCrash(j) ==
    /\ "crash" \in Faults
    /\ \/ /\ wpc[j] \in TryStates \cup FinallyStates
          /\ Redeliver(j)
       \/ /\ wpc[j] \in {"done", "abandoned"}
          /\ agent[j] \in AgentActive \/ late[j] > 0
          /\ UNCHANGED <<wpc, uncounted>>
    /\ agent' = [agent EXCEPT ![j] = "none"]
    /\ late' = [late EXCEPT ![j] = 0]
    /\ cancelEvent' = cancelEvent \ {j}
    /\ UNCHANGED <<req, quota, quotaKey, debt, keyVars, status, tries, outcome, cancelVars>>

------------------------------------------------------------------------------
(* run_agent_task. *)

WorkerStep(j, from, to) ==
    /\ wpc[j] = from
    /\ wpc' = [wpc EXCEPT ![j] = to]
    /\ UNCHANGED <<req, tries, cancelVars>>

\* To an except clause: the attempt's cancel_event is not looked at again.
Raise(j, from, to, how) ==
    /\ WorkerStep(j, from, to)
    /\ outcome' = [outcome EXCEPT ![j] = how]
    /\ cancelEvent' = cancelEvent \ {j}
    /\ UNCHANGED <<quotaVars, keyVars, status>>

\* cancel_watcher polls the key from before the try block to the finally.
CancelWatch(j) ==
    /\ wpc[j] \in {"start", "check", "spawn", "wait"}
    /\ ThreadOf[j] \in cancelKey
    /\ j \notin cancelEvent
    /\ cancelEvent' = cancelEvent \cup {j}
    /\ UNCHANGED <<req, quotaVars, keyVars, status, tries, wpc, outcome, agentVars,
                   cancelVars>>

WorkerMarkRunning(j) ==
    /\ WorkerStep(j, "start", "check")
    /\ WriteStatus(j, "running")
    /\ UNCHANGED <<quotaVars, keyVars, outcome, cancelEvent, agentVars>>

WorkerSeesCancel(j) ==
    /\ ThreadOf[j] \in cancelKey
    /\ Raise(j, "check", "markCancelled", "cancelled")
    /\ UNCHANGED agentVars

\* Mutant: the signal is not checked again before the agent starts.
WorkerIgnoresCancel(j) ==
    /\ WorkerStep(j, "check", "spawn")
    /\ UNCHANGED <<quotaVars, keyVars, status, outcome, cancelEvent, agentVars>>

\* Redis answers that there is no signal.  One stored between this answer and
\* the coroutine's next step is left to cancel_watcher.
WorkerSeesNoCancel(j) ==
    /\ ThreadOf[j] \notin cancelKey
    /\ WorkerStep(j, "check", "spawn")
    /\ UNCHANGED <<quotaVars, keyVars, status, outcome, cancelEvent, agentVars>>

WorkerSpawn(j) ==
    /\ WorkerStep(j, "spawn", "wait")
    /\ agent' = [agent EXCEPT ![j] = "ensure"]
    /\ UNCHANGED <<quotaVars, keyVars, status, outcome, cancelEvent, late>>

\* asyncio.wait returns with cancel_event set: the agent is cancelled and
\* awaited.  If it had ended already its own failure outranks the cancel.
WorkerWakeCancelled(j) ==
    /\ j \in cancelEvent
    /\ \/ /\ agent[j] = "exc"
          /\ Raise(j, "wait", "markFailed", "failed")
          /\ UNCHANGED agent
       \/ /\ agent[j] # "exc"
          /\ Raise(j, "wait", "markCancelled", "cancelled")
          /\ agent' = [agent EXCEPT ![j] = IF @ \in AgentActive THEN "cxl" ELSE @]
    /\ UNCHANGED late

WorkerWakeDone(j) ==
    /\ j \notin cancelEvent
    /\ \/ /\ agent[j] = "ok"
          /\ WorkerStep(j, "wait", "complete")
          /\ UNCHANGED <<quotaVars, keyVars, status, outcome, cancelEvent>>
       \/ /\ agent[j] = "exc"
          /\ Raise(j, "wait", "markFailed", "failed")
    /\ UNCHANGED agentVars

\* Mutant: a job waiting for its agent is never timed out.
JobTimeoutNotWaiting(j) ==
    /\ \/ \E from \in {"start", "check", "spawn", "complete"} :
             Raise(j, from, "markCancelled", "timedout")
       \/ outcome[j] = "none" /\ Raise(j, "release", "markCancelled", "timedout")
       \/ outcome[j] # "none" /\ \E from \in {"markCancelled", "markFailed", "release"} :
             Raise(j, from, "release", "cut")
    /\ UNCHANGED agentVars

\* job_timeout, or the worker shutting down, cancels run_agent_task, but not the
\* agent task asyncio.wait waits for.  It may strike when a status has been
\* written and the coroutine has not gone on ("release"); and an except clause
\* it strikes in is left with its UPDATE made or not.
JobTimeout(j) ==
    /\ \/ \E from \in {"start", "check", "spawn", "wait", "complete"} :
             Raise(j, from, "markCancelled", "timedout")
       \/ outcome[j] = "none" /\ Raise(j, "release", "markCancelled", "timedout")
       \/ outcome[j] # "none" /\ \E from \in {"markCancelled", "markFailed", "release"} :
             Raise(j, from, "release", "cut")
    /\ UNCHANGED agentVars

\* A PostgreSQL or Redis error inside the try block.
WorkerRaises(j) ==
    /\ "db" \in Faults
    /\ \E from \in {"start", "check", "complete"} : Raise(j, from, "markFailed", "failed")
    /\ UNCHANGED agentVars

WorkerMarkCompleted(j) ==
    /\ WorkerStep(j, "complete", "release")
    /\ WriteStatus(j, "completed")
    /\ UNCHANGED <<quotaVars, keyVars, outcome, cancelEvent, agentVars>>

\* Mutant: the CancelledError clause leaves the session row alone.
WorkerMarkCancelledNot(j) ==
    /\ WorkerStep(j, "markCancelled", "release")
    /\ UNCHANGED <<quotaVars, keyVars, status, outcome, cancelEvent, agentVars>>

WorkerMarkCancelled(j) ==
    /\ WorkerStep(j, "markCancelled", "release")
    /\ TryStatus(j, "cancelled")
    /\ UNCHANGED <<quotaVars, keyVars, outcome, cancelEvent, agentVars>>

WorkerMarkFailed(j) ==
    /\ WorkerStep(j, "markFailed", "release")
    /\ TryStatus(j, "failed")
    /\ UNCHANGED <<quotaVars, keyVars, outcome, cancelEvent, agentVars>>

\* The finally block gives the slot back first.
WorkerRelease(j) ==
    /\ WorkerStep(j, "release", "cleanKeys")
    /\ GiveBack(j)
    /\ UNCHANGED <<uncounted, keyVars, status, outcome, cancelEvent, agentVars>>

\* Then it deletes the thread's keys, whichever job they are for, and the
\* coroutine returns, or re-raises a failure, which ARQ may run again.
WorkerReturn(j) ==
    /\ wpc[j] = "cleanKeys"
    /\ cancelKey' = cancelKey \ {ThreadOf[j]}
    /\ taskJob' = [taskJob EXCEPT ![ThreadOf[j]] = NoJob]
    /\ \/ /\ wpc' = [wpc EXCEPT ![j] = "done"]
          /\ UNCHANGED uncounted
       \/ /\ "retry" \in Faults
          /\ outcome[j] = "failed"
          /\ tries[j] < MaxTries
          /\ Redeliver(j)
    /\ UNCHANGED <<req, quota, quotaKey, debt, status, tries, outcome, cancelEvent,
                   agentVars, cancelVars>>

\* One try block around DECR, DEL and DEL: an error or a cancellation skips what
\* is left.
WorkerCleanupFails(j) ==
    /\ "cleanup" \in Faults
    /\ \/ /\ WorkerStep(j, "release", "abandoned")
          /\ UNCHANGED cancelKey
       \/ /\ WorkerStep(j, "cleanKeys", "done")
          /\ cancelKey' \in {cancelKey, cancelKey \ {ThreadOf[j]}}
    /\ UNCHANGED <<quotaVars, taskJob, status, outcome, cancelEvent, agentVars>>

Work(j) ==
    \/ WorkerMarkRunning(j) \/ WorkerSeesCancel(j) \/ WorkerSeesNoCancel(j) \/ WorkerSpawn(j)
    \/ WorkerWakeCancelled(j) \/ WorkerWakeDone(j) \/ JobTimeout(j)
    \/ WorkerMarkCompleted(j) \/ WorkerMarkCancelled(j) \/ WorkerMarkFailed(j)
    \/ WorkerRelease(j) \/ WorkerReturn(j)

------------------------------------------------------------------------------
(* run_deep_agent, a task of its own on the worker's event loop: it goes on *)
(* when run_agent_task has ended without cancelling it.  What it reports to *)
(* the user is not part of this module.                                     *)

AgentStep(j, from, to) ==
    /\ agent[j] = from
    /\ agent' = [agent EXCEPT ![j] = to]
    /\ UNCHANGED <<req, quotaVars, keyVars, workerVars, cancelVars>>

\* _ensure_session
AgentEnsureSession(j) ==
    /\ AgentStep(j, "ensure", "run")
    /\ TryStatus(j, "running")
    /\ UNCHANGED late

\* Staging the uploads, building the agent and streaming, up to a normal end,
\* which starts _complete_session and does not wait for it.
AgentEnds(j) ==
    /\ AgentStep(j, "run", "ok")
    /\ late' = [late EXCEPT ![j] = @ + 1]
    /\ UNCHANGED status

AgentFails(j) ==
    /\ AgentStep(j, "run", "exc")
    /\ UNCHANGED <<status, late>>

\* _complete_session
LateComplete(j) ==
    /\ late[j] > 0
    /\ late' = [late EXCEPT ![j] = @ - 1]
    /\ TryStatus(j, "completed")
    /\ UNCHANGED <<req, quotaVars, keyVars, workerVars, agent, cancelVars>>

------------------------------------------------------------------------------
(* POST /api/task/{thread_id}/cancel. *)

CancelStep(c, from, to) ==
    /\ cpc[c] = from
    /\ cpc' = [cpc EXCEPT ![c] = to]
    /\ UNCHANGED <<req, quotaVars, tries, outcome, cancelEvent, agentVars>>

\* Without a mapping the answer is 404 and nothing changes.  The name get_pool
\* is local to the handler, imported on line 749, so that as committed its
\* first use on line 712 raises UnboundLocalError.
CancelLookup(c) ==
    /\ \E t \in Threads :
          /\ taskJob[t] # NoJob
          /\ cjob' = [cjob EXCEPT ![c] = taskJob[t]]
    /\ CancelStep(c, "idle", IF CancelReachesBody THEN "signal" ELSE "raised")
    /\ UNCHANGED <<keyVars, status, wpc>>

CancelSignal(c) ==
    /\ CancelStep(c, "signal", "abort")
    /\ cancelKey' = cancelKey \cup {ThreadOf[cjob[c]]}
    /\ UNCHANGED <<taskJob, status, wpc, cjob>>

\* Errors are swallowed; a job taken off the queue never reaches a worker.
CancelAbort(c) ==
    /\ CancelStep(c, "abort", "mark")
    /\ \/ UNCHANGED wpc
       \/ /\ "abort" \in Faults
          /\ wpc[cjob[c]] = "queued"
          /\ wpc' = [wpc EXCEPT ![cjob[c]] = "abandoned"]
    /\ UNCHANGED <<keyVars, status, cjob>>

CancelMark(c) ==
    /\ CancelStep(c, "mark", "unmap")
    /\ TryStatus(cjob[c], "cancelled")
    /\ UNCHANGED <<keyVars, wpc, cjob>>

CancelUnmap(c) ==
    /\ CancelStep(c, "unmap", "answered")
    /\ taskJob' = [taskJob EXCEPT ![ThreadOf[cjob[c]]] = NoJob]
    /\ UNCHANGED <<cancelKey, status, wpc, cjob>>

\* The request dies, or Redis fails, between two of its steps.
CancelDies(c) ==
    /\ "request" \in Faults
    /\ \E from \in {"signal", "abort", "mark", "unmap"} : CancelStep(c, from, "died")
    /\ UNCHANGED <<keyVars, status, wpc, cjob>>

CancelProgress(c) ==
    CancelSignal(c) \/ CancelAbort(c) \/ CancelMark(c) \/ CancelUnmap(c)

\* ex=3600 on cancel:{thread} and on task_job:{thread}.
ExpireThreadKey(t) ==
    /\ "ttl" \in Faults
    /\ \/ /\ t \in cancelKey
          /\ cancelKey' = cancelKey \ {t}
          /\ UNCHANGED taskJob
       \/ /\ taskJob[t] # NoJob
          /\ taskJob' = [taskJob EXCEPT ![t] = NoJob]
          /\ UNCHANGED cancelKey
    /\ UNCHANGED <<req, quotaVars, status, workerVars, agentVars, cancelVars>>

------------------------------------------------------------------------------

ServerNext(j) == SubmitIncr(j) \/ Submit(j) \/ SubmitEnqueueFails(j) \/ SubmitDies(j)

WorkerNext(j) ==
    \/ ArqDeliver(j) \/ ArqGiveUp(j) \/ WorkerCrash(j)
    \/ CancelWatch(j) \/ Work(j) \/ WorkerRaises(j) \/ WorkerCleanupFails(j)

AgentNext(j) ==
    AgentEnsureSession(j) \/ AgentEnds(j) \/ AgentFails(j) \/ LateComplete(j)

CancelNext(c) == CancelLookup(c) \/ CancelProgress(c) \/ CancelDies(c)

Next ==
    \/ \E j \in Jobs : ServerNext(j) \/ WorkerNext(j) \/ AgentNext(j)
    \/ \E c \in Cancels : CancelNext(c)
    \/ \E t \in Threads : ExpireThreadKey(t)
    \/ ExpireQuota

Spec == Init /\ [][Next]_vars

(***************************************************************************)
(* Requests and coroutines that can take a step take it: the event loops   *)
(* run, ARQ polls its queue and enforces job_timeout, Redis expires keys.  *)
(* Nothing obliges a user to submit or an LLM call inside the agent to     *)
(* return.                                                                 *)
(***************************************************************************)
Fairness ==
    /\ \A j \in Jobs : /\ WF_vars(Submit(j))
                       /\ WF_vars(ArqDeliver(j) \/ ArqGiveUp(j))
                       /\ WF_vars(Work(j))
                       /\ WF_vars(LateComplete(j))
    /\ \A c \in Cancels : WF_vars(CancelProgress(c))
    /\ WF_vars(ExpireQuota)

FairSpec == Spec /\ Fairness
=============================================================================
