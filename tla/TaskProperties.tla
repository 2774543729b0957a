--------------------------- MODULE TaskProperties ---------------------------
(* What TaskLifecycle is checked for. *)
EXTENDS TaskLifecycle

\* Every variable keeps its type; a missing counter key reads as 0.
TypeOK ==
    /\ req \in [Jobs -> RequestStates]
    /\ quota \in Int
    /\ quotaKey \in {"absent", "persistent", "volatile"}
    /\ quotaKey = "absent" => quota = 0
    /\ cancelKey \subseteq Threads
    /\ taskJob \in [Threads -> Jobs \cup {NoJob}]
    /\ status \in [Threads -> Statuses]
    /\ tries \in [Jobs -> 0..MaxTries]
    /\ wpc \in [Jobs -> WorkerStates]
    /\ outcome \in [Jobs -> Outcomes]
    /\ cancelEvent \subseteq Jobs
    /\ agent \in [Jobs -> AgentStates]
    /\ late \in [Jobs -> Nat]
    /\ cpc \in [Cancels -> CancelStates]
    /\ cjob \in [Cancels -> Jobs \cup {NoJob}]
    /\ \A c \in Cancels : cpc[c] # "idle" => cjob[c] \in Jobs
    /\ uncounted \subseteq Jobs
    /\ debt \in Nat

------------------------------------------------------------------------------
(* The per-user limit. *)

\* The counter is the number of submissions whose slot is out, less what jobs
\* have given back that it did not count: no exit of run_task, of the worker's
\* try block or of ARQ's redelivery forgets a slot or frees one twice unseen.
QuotaLedger == quota = Cardinality(Holders) - debt

\* A submission past the check of run_task, until its worker's finally block;
\* ARQ may run a job whose request was told that it could not be enqueued.
InFlight == {j \in Jobs : /\ req[j] \in {"inserted", "enqueued", "answered"} \/ wpc[j] # "idle"
                          /\ ~Returned(j)}

\* The limit of run_task holds for every counted task, up to the debt: however
\* INCRs, checks, DECRs, redeliveries and expiry interleave, no more counted
\* tasks are in flight than the limit and the slots given back twice allow.
AdmissionBound == Cardinality(InFlight \ uncounted) <= MaxConcurrent + debt

\* "10 minutes' expiry against leaks": a counter that says somebody is in flight
\* and has no TTL has a request on its way to EXPIRE, or one that died there.
TtlCoversCounter ==
    quota > 0 /\ quotaKey = "persistent" =>
        \E j \in Jobs : req[j] \in {"within", "over", "unarmed"}

\* The limit as its 429 answer states it: at most MaxConcurrent parallel tasks.
\* The code does not keep it: see the run quota_exceeded.
AtMostMaxInFlight == Cardinality(InFlight) <= MaxConcurrent

\* The submissions the limit let through at their INCR, as far as still counted.
Winners == {j \in Holders : req[j] \notin {"over", "overArmed", "unarmed", "lost"}}

Semaphore == INSTANCE QuotaSemaphore
                 WITH Max <- MaxConcurrent, slots <- Winners, debt <- debt

\* The INCR/check/DECR protocol over one Redis counter is a counting semaphore
\* with overdraft.
IsSemaphore == Semaphore!Spec

\* Slots lost by requests and workers that died come back: the counter does not
\* stay above zero for good.
LostSlotsHeal == quota > 0 ~> quota <= 0

------------------------------------------------------------------------------
(* Session status and cancellation. *)

Alone(j) == \A k \in Jobs : ThreadOf[k] = ThreadOf[j] => k = j

\* Nothing will write the session row of thread t any more, unless a user acts.
Quiet(t) ==
    /\ \A j \in Jobs : ThreadOf[j] = t =>
          /\ req[j] \notin {"within", "over", "armed", "overArmed", "inserted", "enqueued"}
          /\ wpc[j] \in {"idle", "done", "abandoned"}
          /\ agent[j] \notin AgentActive
          /\ late[j] = 0
    /\ \A c \in Cancels : cjob[c] # NoJob /\ ThreadOf[cjob[c]] = t =>
          cpc[c] \in {"answered", "died", "raised"}

\* When everything about a thread has come to rest, and nothing around the code
\* failed, its session stays 'queued' or 'running' only if a worker was cancelled
\* in its except clause, and 'running' also if a timed-out job left its agent
\* behind and that agent then failed: otherwise, of all the writers of
\* sessions.status, in any order, a final one comes last.
SettledStatus ==
    \A t \in Threads : Quiet(t) /\ status[t] \in {"queued", "running"} =>
        \E j \in Jobs : /\ ThreadOf[j] = t
                        /\ \/ outcome[j] = "cut"
                           \/ /\ status[t] = "running"
                              /\ outcome[j] = "timedout"
                              /\ agent[j] = "exc"

\* A cancel request has stored its signal for job j.
Signalled(j) ==
    \E c \in Cancels : cjob[c] = j /\ cpc[c] \in {"abort", "mark", "unmap", "answered"}

\* No other job of j's thread has come as far as deleting the thread's keys.
KeysUndisturbed(j) ==
    \A k \in Jobs \ {j} : ThreadOf[k] = ThreadOf[j] =>
        \/ tries[k] = 0
        \/ tries[k] = 1 /\ wpc[k] \in TryStates \cup {"release"}

\* Once a cancel request has stored its signal for a job, no worker that looks
\* for it then goes on to start that job's agent, wherever the signal caught the
\* job, unless another job of the thread has deleted the signal or ARQ is running
\* the job again.  A worker that has had its answer already starts the agent.
SignalHeeded ==
    [][\A j \in Jobs :
          /\ Signalled(j)
          /\ wpc[j] # "spawn"
          /\ tries[j] <= 1
          /\ KeysUndisturbed(j)
          => wpc'[j] # "spawn"]_vars

\* "On error or cancellation the Worker overrides the status": a session whose
\* only job has been recorded as cancelled is not completed by the agent that the
\* job left running.  The code does not keep it: see the run orphan_completes.
CancelledStays ==
    \A j \in Jobs : Alone(j) =>
        [](/\ wpc[j] = "done"
           /\ outcome[j] \in {"cancelled", "timedout"}
           /\ status[ThreadOf[j]] = "cancelled"
           /\ agent[j] \in AgentActive
           => [](status[ThreadOf[j]] # "completed"))

\* Every job ARQ accepts comes to an end, even if its agent never returns.
JobSettles ==
    \A j \in Jobs : wpc[j] = "queued" ~> wpc[j] \in {"done", "abandoned"}
=============================================================================
