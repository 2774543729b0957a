------------------------ MODULE TaskLifecycleProofs ------------------------
(* Proofs about TaskLifecycle, for every set of jobs, threads and faults.  *)
EXTENDS TaskProperties, FiniteSetTheorems, TLAPS

USE DEF quotaVars, keyVars, workerVars, agentVars, cancelVars

\* The initial values have their types.
LEMMA TypeInit == Init => TypeOK
BY ConstantsAssumption
   DEF Init, TypeOK, RequestStates, Statuses, WorkerStates, TryStates, FinallyStates,
       Outcomes, AgentStates, AgentActive, CancelStates

\* Every step of every actor keeps them.
LEMMA TypeStep == TypeOK /\ [Next]_vars => TypeOK'
<1> SUFFICES ASSUME TypeOK, [Next]_vars PROVE TypeOK'
  OBVIOUS
<1> USE ConstantsAssumption
    DEF TypeOK, RequestStates, Statuses, WorkerStates, TryStates, FinallyStates,
        Outcomes, AgentStates, AgentActive, CancelStates
<1>1. ASSUME NEW j \in Jobs, ServerNext(j) PROVE TypeOK'
  <2> USE DEF RequestStep, GiveBack, Touched, WriteStatus
  <2>1. CASE SubmitIncr(j)
    BY <2>1 DEF SubmitIncr
  <2>2. CASE SubmitExpire(j)
    BY <2>2 DEF SubmitExpire
  <2>3. CASE SubmitReject(j)
    BY <2>3 DEF SubmitReject
  <2>4. CASE SubmitInsert(j)
    BY <2>4 DEF SubmitInsert
  <2>5. CASE SubmitEnqueue(j)
    BY <2>5 DEF SubmitEnqueue
  <2>6. CASE SubmitMap(j)
    BY <2>6 DEF SubmitMap
  <2>7. CASE SubmitEnqueueFails(j)
    BY <2>7 DEF SubmitEnqueueFails
  <2>8. CASE SubmitDies(j)
    BY <2>8 DEF SubmitDies
  <2> QED
    BY <1>1, <2>1, <2>2, <2>3, <2>4, <2>5, <2>6, <2>7, <2>8 DEF ServerNext, Submit
<1>2. ASSUME NEW j \in Jobs, WorkerNext(j) PROVE TypeOK'
  <2> USE DEF WorkerStep, Raise, GiveBack, Touched, WriteStatus, TryStatus, Redeliver,
              Returned
  <2>1. CASE ArqDeliver(j)
    BY <2>1 DEF ArqDeliver
  <2>2. CASE ArqGiveUp(j)
    BY <2>2 DEF ArqGiveUp
  <2>3. CASE WorkerCrash(j)
    BY <2>3 DEF WorkerCrash
  <2>4. CASE CancelWatch(j)
    BY <2>4 DEF CancelWatch
  <2>5. CASE WorkerRaises(j)
    BY <2>5 DEF WorkerRaises
  <2>6. CASE WorkerCleanupFails(j)
    BY <2>6 DEF WorkerCleanupFails
  <2>7. CASE WorkerMarkRunning(j)
    BY <2>7 DEF WorkerMarkRunning
  <2>8. CASE WorkerSeesCancel(j)
    BY <2>8 DEF WorkerSeesCancel
  <2>9. CASE WorkerSeesNoCancel(j) \/ WorkerSpawn(j)
    BY <2>9 DEF WorkerSeesNoCancel, WorkerSpawn
  <2>10. CASE WorkerWakeCancelled(j)
    BY <2>10 DEF WorkerWakeCancelled
  <2>11. CASE WorkerWakeDone(j)
    BY <2>11 DEF WorkerWakeDone
  <2>12. CASE JobTimeout(j)
    BY <2>12 DEF JobTimeout
  <2>13. CASE WorkerMarkCompleted(j)
    BY <2>13 DEF WorkerMarkCompleted
  <2>14. CASE WorkerMarkCancelled(j)
    BY <2>14 DEF WorkerMarkCancelled
  <2>15. CASE WorkerMarkFailed(j)
    BY <2>15 DEF WorkerMarkFailed
  <2>16. CASE WorkerRelease(j)
    BY <2>16 DEF WorkerRelease
  <2>17. CASE WorkerReturn(j)
    BY <2>17 DEF WorkerReturn
  <2> QED
    BY <1>2, <2>1, <2>2, <2>3, <2>4, <2>5, <2>6, <2>7, <2>8, <2>9, <2>10, <2>11,
       <2>12, <2>13, <2>14, <2>15, <2>16, <2>17
    DEF WorkerNext, Work
<1>3. ASSUME NEW j \in Jobs, AgentNext(j) PROVE TypeOK'
  <2> USE DEF AgentStep, WriteStatus, TryStatus
  <2>1. CASE AgentEnsureSession(j)
    BY <2>1 DEF AgentEnsureSession
  <2>2. CASE AgentEnds(j)
    BY <2>2 DEF AgentEnds
  <2>3. CASE AgentFails(j)
    BY <2>3 DEF AgentFails
  <2>4. CASE LateComplete(j)
    BY <2>4 DEF LateComplete
  <2> QED
    BY <1>3, <2>1, <2>2, <2>3, <2>4 DEF AgentNext
<1>4. ASSUME NEW c \in Cancels, CancelNext(c) PROVE TypeOK'
  <2> USE DEF CancelStep, WriteStatus, TryStatus
  <2>1. CASE CancelLookup(c)
    BY <2>1 DEF CancelLookup
  <2>2. CASE CancelSignal(c)
    BY <2>2 DEF CancelSignal
  <2>3. CASE CancelAbort(c)
    BY <2>3 DEF CancelAbort
  <2>4. CASE CancelMark(c)
    BY <2>4 DEF CancelMark
  <2>5. CASE CancelUnmap(c)
    BY <2>5 DEF CancelUnmap
  <2>6. CASE CancelDies(c)
    BY <2>6 DEF CancelDies
  <2> QED
    BY <1>4, <2>1, <2>2, <2>3, <2>4, <2>5, <2>6 DEF CancelNext, CancelProgress
<1>5. ASSUME NEW t \in Threads, ExpireThreadKey(t) PROVE TypeOK'
  BY <1>5 DEF ExpireThreadKey
<1>6. CASE ExpireQuota
  BY <1>6 DEF ExpireQuota, Holders
<1>7. CASE UNCHANGED vars
  BY <1>7 DEF vars
<1> QED
  BY <1>1, <1>2, <1>3, <1>4, <1>5, <1>6, <1>7 DEF Next

\* Every reachable state is well typed.
THEOREM TypeCorrect == Spec => []TypeOK
BY TypeInit, TypeStep, PTL DEF Spec
------------------------------------------------------------------------------
(* Where a job is tells where its request is. *)

\* A job that ARQ knows has been enqueued by its request, which may have taken
\* that for a failure and given the slot back; and only a submission that was
\* made can have lost its place in the counter.
Phases ==
    /\ \A j \in Jobs : wpc[j] # "idle" =>
          \/ req[j] \in {"enqueued", "answered"}
          \/ req[j] = "refunded" /\ j \in uncounted
    /\ \A j \in uncounted : req[j] # "idle"

\* The requests that have not reached EXPIRE, or died before it.
Unarmed == {j \in Jobs : req[j] \in {"within", "over", "unarmed"}}

\* Every step keeps the phases in line.
LEMMA PhasesStep == TypeOK /\ Phases /\ [Next]_vars => Phases'
<1> SUFFICES ASSUME TypeOK, Phases, [Next]_vars PROVE Phases'
  OBVIOUS
<1> USE DEF TypeOK, Phases
<1>1. ASSUME NEW j \in Jobs, ServerNext(j) PROVE Phases'
  BY <1>1 DEF ServerNext, Submit, SubmitIncr, SubmitExpire, SubmitReject, SubmitInsert,
              SubmitEnqueue, SubmitMap, SubmitEnqueueFails, SubmitDies, RequestStep,
              GiveBack
<1>2. ASSUME NEW j \in Jobs, WorkerNext(j) PROVE Phases'
  <2>1. CASE ArqDeliver(j) \/ ArqGiveUp(j) \/ WorkerCrash(j) \/ CancelWatch(j)
    BY <2>1 DEF ArqDeliver, ArqGiveUp, WorkerCrash, CancelWatch, Redeliver, Returned,
                TryStates, FinallyStates
  <2>2. CASE WorkerRaises(j) \/ WorkerCleanupFails(j)
    BY <2>2 DEF WorkerRaises, WorkerCleanupFails, WorkerStep, Raise
  <2>3. CASE Work(j)
    BY <2>3 DEF Work, WorkerMarkRunning, WorkerSeesCancel, WorkerSeesNoCancel, WorkerSpawn,
                WorkerWakeCancelled, WorkerWakeDone, JobTimeout, WorkerMarkCompleted,
                WorkerMarkCancelled, WorkerMarkFailed, WorkerRelease, WorkerReturn,
                WorkerStep, Raise, GiveBack, Redeliver, Returned
  <2> QED
    BY <1>2, <2>1, <2>2, <2>3 DEF WorkerNext
<1>3. ASSUME NEW j \in Jobs, AgentNext(j) PROVE Phases'
  BY <1>3 DEF AgentNext, AgentEnsureSession, AgentEnds, AgentFails, LateComplete, AgentStep
<1>4. ASSUME NEW c \in Cancels, CancelNext(c) PROVE Phases'
  BY <1>4 DEF CancelNext, CancelProgress, CancelLookup, CancelSignal, CancelAbort,
              CancelMark, CancelUnmap, CancelDies, CancelStep
<1>5. CASE UNCHANGED vars \/ \E t \in Threads : ExpireThreadKey(t)
  BY <1>5 DEF vars, ExpireThreadKey
<1>6. CASE ExpireQuota
  BY <1>6 DEF ExpireQuota, Holders, Counted
<1> QED
  BY <1>1, <1>2, <1>3, <1>4, <1>5, <1>6 DEF Next

------------------------------------------------------------------------------
(* What a step can do to the counter, and to the submissions it counts. *)

\* Nothing.
Keep ==
    /\ UNCHANGED <<quota, quotaKey, debt>>
    /\ Holders' = Holders
    /\ Winners' = Winners
    /\ Unarmed' = Unarmed

\* A request's INCR, let through or not.
Incr(j) ==
    /\ j \notin Holders /\ j \notin Unarmed
    /\ quota' = quota + 1
    /\ quotaKey' = Touched
    /\ UNCHANGED debt
    /\ Holders' = Holders \cup {j}
    /\ Unarmed' = Unarmed \cup {j}
    /\ \/ quota' <= MaxConcurrent /\ Winners' = Winners \cup {j}
       \/ Winners' = Winners

\* EXPIRE.
Arm ==
    /\ UNCHANGED <<quota, debt>>
    /\ quotaKey' # "persistent"
    /\ Holders' = Holders
    /\ Winners' = Winners

\* A DECR by a submission that is counted.
Give(j) ==
    /\ j \in Holders
    /\ quota' = quota - 1
    /\ quotaKey' = Touched
    /\ UNCHANGED debt
    /\ Holders' = Holders \ {j}
    /\ Winners' = Winners \ {j}
    /\ Unarmed' = Unarmed

\* A DECR by one that is not.
GiveTwice ==
    /\ quota' = quota - 1
    /\ quotaKey' = Touched
    /\ debt' = debt + 1
    /\ Holders' = Holders
    /\ Winners' = Winners
    /\ Unarmed' = Unarmed

\* A request that dies with its slot.
Lose(j) ==
    /\ UNCHANGED <<quota, quotaKey, debt>>
    /\ Holders' = Holders
    /\ Winners' = Winners \ {j}
    /\ Unarmed' = Unarmed

\* The key expires.
Forget ==
    /\ quota' = 0
    /\ quotaKey' = "absent"
    /\ debt' = 0
    /\ Holders' = {}
    /\ Winners' = {}

QuotaStep ==
    \/ Keep \/ Arm \/ GiveTwice \/ Forget
    \/ \E j \in Jobs : Incr(j) \/ Give(j) \/ Lose(j)

\* Every step of the system is one of these.
LEMMA QuotaSteps == TypeOK /\ Phases /\ [Next]_vars => QuotaStep
<1> SUFFICES ASSUME TypeOK, Phases, [Next]_vars PROVE QuotaStep
  OBVIOUS
<1> USE DEF TypeOK, Phases, Holders, Winners, Unarmed, Counted, Returned
<1>1. ASSUME NEW j \in Jobs, ServerNext(j) PROVE QuotaStep
  <2> USE DEF RequestStep
  <2>1. CASE SubmitIncr(j)
    <3>1. Incr(j)
      BY <2>1 DEF SubmitIncr, Incr
    <3> QED
      BY <3>1 DEF QuotaStep
  <2>2. CASE SubmitExpire(j)
    <3>1. Arm
      BY <2>2 DEF SubmitExpire, Arm
    <3> QED
      BY <3>1 DEF QuotaStep
  <2>3. CASE SubmitReject(j) \/ SubmitEnqueueFails(j)
    <3>1. CASE j \in uncounted
      <4>1. GiveTwice
        BY <2>3, <3>1 DEF SubmitReject, SubmitEnqueueFails, GiveBack, GiveTwice
      <4> QED
        BY <4>1 DEF QuotaStep
    <3>2. CASE j \notin uncounted
      <4>1. Give(j)
        BY <2>3, <3>2 DEF SubmitReject, SubmitEnqueueFails, GiveBack, Give
      <4> QED
        BY <4>1 DEF QuotaStep
    <3> QED
      BY <3>1, <3>2
  <2>4. CASE SubmitInsert(j) \/ SubmitEnqueue(j) \/ SubmitMap(j)
    <3>1. Keep
      BY <2>4 DEF SubmitInsert, SubmitEnqueue, SubmitMap, Keep
    <3> QED
      BY <3>1 DEF QuotaStep
  <2>5. CASE SubmitDies(j)
    <3>1. Keep \/ Lose(j)
      BY <2>5 DEF SubmitDies, Keep, Lose
    <3> QED
      BY <3>1 DEF QuotaStep
  <2> QED
    BY <1>1, <2>1, <2>2, <2>3, <2>4, <2>5 DEF ServerNext, Submit
<1>2. ASSUME NEW j \in Jobs, WorkerNext(j) PROVE QuotaStep
  <2>1. CASE WorkerRelease(j)
    <3>1. CASE j \in uncounted
      <4>1. GiveTwice
        BY <2>1, <3>1 DEF WorkerRelease, WorkerStep, GiveBack, GiveTwice
      <4> QED
        BY <4>1 DEF QuotaStep
    <3>2. CASE j \notin uncounted
      <4>1. Give(j)
        BY <2>1, <3>2 DEF WorkerRelease, WorkerStep, GiveBack, Give
      <4> QED
        BY <4>1 DEF QuotaStep
    <3> QED
      BY <3>1, <3>2
  <2>2. CASE ArqDeliver(j) \/ ArqGiveUp(j) \/ CancelWatch(j)
    <3>1. Keep
      BY <2>2 DEF ArqDeliver, ArqGiveUp, CancelWatch, Keep
    <3> QED
      BY <3>1 DEF QuotaStep
  <2>3. CASE WorkerCrash(j) \/ WorkerReturn(j)
    <3>1. Keep
      BY <2>3 DEF WorkerCrash, WorkerReturn, Redeliver, TryStates, FinallyStates, Keep
    <3> QED
      BY <3>1 DEF QuotaStep
  <2>4. CASE WorkerRaises(j) \/ WorkerCleanupFails(j)
    <3>1. Keep
      BY <2>4 DEF WorkerRaises, WorkerCleanupFails, WorkerStep, Raise, Keep
    <3> QED
      BY <3>1 DEF QuotaStep
  <2>5. CASE \/ WorkerMarkRunning(j) \/ WorkerSeesCancel(j) \/ WorkerSeesNoCancel(j)
             \/ WorkerSpawn(j) \/ WorkerWakeCancelled(j) \/ WorkerWakeDone(j) \/ JobTimeout(j)
    <3>1. Keep
      BY <2>5 DEF WorkerMarkRunning, WorkerSeesCancel, WorkerSeesNoCancel, WorkerSpawn, WorkerWakeCancelled,
                  WorkerWakeDone, JobTimeout, WorkerStep, Raise, Keep
    <3> QED
      BY <3>1 DEF QuotaStep
  <2>6. CASE WorkerMarkCompleted(j) \/ WorkerMarkCancelled(j) \/ WorkerMarkFailed(j)
    <3>1. Keep
      BY <2>6 DEF WorkerMarkCompleted, WorkerMarkCancelled, WorkerMarkFailed, WorkerStep,
                  Keep
    <3> QED
      BY <3>1 DEF QuotaStep
  <2> QED
    BY <1>2, <2>1, <2>2, <2>3, <2>4, <2>5, <2>6 DEF WorkerNext, Work
<1>3. ASSUME NEW j \in Jobs, AgentNext(j) PROVE QuotaStep
  <2>1. Keep
    BY <1>3 DEF AgentNext, AgentEnsureSession, AgentEnds, AgentFails, LateComplete,
                AgentStep, Keep
  <2> QED
    BY <2>1 DEF QuotaStep
<1>4. ASSUME NEW c \in Cancels, CancelNext(c) PROVE QuotaStep
  <2>1. Keep
    BY <1>4 DEF CancelNext, CancelProgress, CancelLookup, CancelSignal, CancelAbort,
                CancelMark, CancelUnmap, CancelDies, CancelStep, Keep
  <2> QED
    BY <2>1 DEF QuotaStep
<1>5. CASE UNCHANGED vars \/ \E t \in Threads : ExpireThreadKey(t)
  <2>1. Keep
    BY <1>5 DEF vars, ExpireThreadKey, Keep
  <2> QED
    BY <2>1 DEF QuotaStep
<1>6. CASE ExpireQuota
  <2>1. Forget
    BY <1>6 DEF ExpireQuota, Forget
  <2> QED
    BY <2>1 DEF QuotaStep
<1> QED
  BY <1>1, <1>2, <1>3, <1>4, <1>5, <1>6 DEF Next

------------------------------------------------------------------------------
(* The inductive invariant of the per-user limit. *)

\* The submissions let through are at most the limit and the debt.
WinnersBound == Cardinality(Winners) <= MaxConcurrent + debt

\* A counter without a TTL counts no more than the requests that are still
\* between INCR and EXPIRE, or died there.
UnarmedBound == quotaKey = "persistent" => quota <= Cardinality(Unarmed)

QuotaInv == TypeOK /\ Phases /\ QuotaLedger /\ WinnersBound /\ UnarmedBound

\* The sets whose cardinalities matter are finite.
LEMMA Finite ==
    /\ IsFiniteSet(Holders) /\ Cardinality(Holders) \in Nat
    /\ IsFiniteSet(Winners) /\ Cardinality(Winners) \in Nat
    /\ IsFiniteSet(Unarmed) /\ Cardinality(Unarmed) \in Nat
<1>1. Holders \subseteq Jobs /\ Winners \subseteq Jobs /\ Unarmed \subseteq Jobs
  BY DEF Holders, Winners, Unarmed
<1> QED
  BY <1>1, ConstantsAssumption, FS_Subset, FS_CardinalityType

\* So are they after a step.
LEMMA FiniteNext == Cardinality(Winners') \in Nat /\ Cardinality(Unarmed') \in Nat
<1>1. Winners' \subseteq Jobs /\ Unarmed' \subseteq Jobs
  BY DEF Holders, Winners, Unarmed
<1> QED
  BY <1>1, ConstantsAssumption, FS_Subset, FS_CardinalityType

\* It holds when nothing has been submitted.
LEMMA QuotaInit == Init => QuotaInv
<1> SUFFICES ASSUME Init PROVE QuotaInv
  OBVIOUS
<1>1. TypeOK /\ Phases
  BY TypeInit DEF Init, Phases
<1>2. Holders = {} /\ Winners = {} /\ Unarmed = {}
  BY DEF Init, Holders, Winners, Unarmed, Counted
<1>3. Cardinality({}) = 0
  BY FS_EmptySet
<1> QED
  BY <1>1, <1>2, <1>3, ConstantsAssumption
  DEF QuotaInv, QuotaLedger, WinnersBound, UnarmedBound, Init

\* Each kind of step keeps it.
LEMMA QuotaKept == QuotaInv /\ [Next]_vars => QuotaInv'
<1> SUFFICES ASSUME QuotaInv, [Next]_vars PROVE QuotaInv'
  OBVIOUS
<1>1. TypeOK' /\ Phases' /\ QuotaStep
  BY TypeStep, PhasesStep, QuotaSteps DEF QuotaInv
<1> USE Finite, ConstantsAssumption
    DEF QuotaInv, QuotaLedger, WinnersBound, UnarmedBound
<1>2. /\ quota \in Int /\ debt \in Nat /\ quota' \in Int /\ debt' \in Nat
      /\ Cardinality(Holders) \in Nat /\ IsFiniteSet(Holders)
      /\ Cardinality(Winners) \in Nat /\ IsFiniteSet(Winners)
      /\ Cardinality(Unarmed) \in Nat /\ IsFiniteSet(Unarmed)
      /\ Cardinality(Unarmed') \in Nat
      /\ Winners \subseteq Holders
      /\ quotaKey = "absent" => quota = 0
      /\ MaxConcurrent \in Nat
  BY <1>1, FiniteNext DEF TypeOK, Winners
<1>3. CASE Keep
  BY <1>1, <1>3 DEF Keep
<1>4. ASSUME NEW j \in Jobs, Incr(j) PROVE QuotaInv'
  <2>1. Cardinality(Holders') = Cardinality(Holders) + 1
    BY <1>4, <1>2, FS_AddElement DEF Incr
  <2>2. Cardinality(Unarmed') = Cardinality(Unarmed) + 1
    BY <1>4, <1>2, FS_AddElement DEF Incr
  <2>3. Cardinality(Winners') <= MaxConcurrent + debt'
    <3>1. CASE quota' <= MaxConcurrent /\ Winners' = Winners \cup {j}
      <4>1. j \notin Winners
        BY <1>4, <1>2 DEF Incr
      <4>2. Cardinality(Winners') = Cardinality(Winners) + 1
        BY <3>1, <4>1, <1>2, FS_AddElement
      <4>3. Cardinality(Winners) <= Cardinality(Holders)
        BY <1>2, FS_Subset
      <4> QED
        BY <3>1, <4>2, <4>3, <1>2, <1>4 DEF Incr
    <3>2. CASE Winners' = Winners
      BY <3>2, <1>2, <1>4 DEF Incr
    <3> QED
      BY <3>1, <3>2, <1>4 DEF Incr
  <2>4. quotaKey' = "persistent" => quota' <= Cardinality(Unarmed')
    BY <2>2, <1>1, <1>2, <1>4 DEF Incr, TypeOK, Touched
  <2> QED
    BY <1>1, <1>2, <1>4, <2>1, <2>3, <2>4 DEF Incr
<1>5. CASE Arm
  BY <1>1, <1>5 DEF Arm
<1>6. ASSUME NEW j \in Jobs, Give(j) PROVE QuotaInv'
  <2>1. Cardinality(Holders') = Cardinality(Holders) - 1
    BY <1>6, <1>2, FS_RemoveElement DEF Give
  <2>2. Cardinality(Winners') <= Cardinality(Winners)
    BY <1>6, <1>2, FS_Subset DEF Give
  <2> QED
    BY <1>1, <1>2, <1>6, <2>1, <2>2, FiniteNext DEF Give, Touched, TypeOK
<1>7. CASE GiveTwice
  BY <1>1, <1>2, <1>7 DEF GiveTwice, Touched, TypeOK
<1>8. ASSUME NEW j \in Jobs, Lose(j) PROVE QuotaInv'
  <2>1. Cardinality(Winners') <= Cardinality(Winners)
    BY <1>8, <1>2, FS_Subset DEF Lose
  <2> QED
    BY <1>1, <1>2, <1>8, <2>1, FiniteNext DEF Lose
<1>9. CASE Forget
  BY <1>1, <1>2, <1>9, FS_EmptySet DEF Forget
<1> QED
  BY <1>1, <1>3, <1>4, <1>5, <1>6, <1>7, <1>8, <1>9 DEF QuotaStep

\* The invariant of the limit holds in every reachable state.
THEOREM QuotaInvariant == Spec => []QuotaInv
BY QuotaInit, QuotaKept, PTL DEF Spec

\* No path through the code leaks a slot or frees one twice without the ledger
\* showing it, for any number of jobs.
THEOREM LedgerHolds == Spec => []QuotaLedger
BY QuotaInvariant, PTL DEF QuotaInv

\* The limit, for any limit and any number of jobs: the counted tasks in flight
\* are at most MaxConcurrent and the debt.
THEOREM LimitHolds == Spec => []AdmissionBound
<1>1. QuotaInv => AdmissionBound
  <2> SUFFICES ASSUME QuotaInv PROVE AdmissionBound
    OBVIOUS
  <2>1. InFlight \ uncounted \subseteq Winners
    BY DEF InFlight, Winners, Holders, Counted, QuotaInv, Phases
  <2>2. Cardinality(InFlight \ uncounted) <= Cardinality(Winners)
    BY <2>1, Finite, FS_Subset
  <2>3. Cardinality(InFlight \ uncounted) \in Nat
    BY <2>1, Finite, FS_Subset, FS_CardinalityType
  <2> QED
    BY <2>2, <2>3, Finite, ConstantsAssumption
    DEF QuotaInv, WinnersBound, AdmissionBound, TypeOK
<1> QED
  BY <1>1, QuotaInvariant, PTL

\* The TTL covers every counter value that stands for somebody in flight.
THEOREM TtlHolds == Spec => []TtlCoversCounter
<1>1. QuotaInv => TtlCoversCounter
  <2> SUFFICES ASSUME QuotaInv, quota > 0, quotaKey = "persistent"
               PROVE  \E j \in Jobs : req[j] \in {"within", "over", "unarmed"}
    BY DEF TtlCoversCounter
  <2>1. Cardinality(Unarmed) # 0
    BY Finite DEF QuotaInv, UnarmedBound, TypeOK
  <2>2. Unarmed # {}
    BY <2>1, FS_EmptySet
  <2> QED
    BY <2>2 DEF Unarmed
<1> QED
  BY <1>1, QuotaInvariant, PTL

------------------------------------------------------------------------------
(* The counter implements the semaphore. *)

\* Every step of the system is a step of the semaphore, or none.
LEMMA SemaphoreStep == QuotaInv /\ [Next]_vars => [Semaphore!Next]_(Semaphore!vars)
<1> SUFFICES ASSUME QuotaInv, [Next]_vars PROVE [Semaphore!Next]_(Semaphore!vars)
  OBVIOUS
<1>1. QuotaStep
  BY QuotaSteps DEF QuotaInv
<1> USE DEF Semaphore!Next, Semaphore!vars, Semaphore!Acquire, Semaphore!Release,
            Semaphore!Overdraw, Semaphore!Lapse
<1>2. CASE Keep \/ Arm \/ GiveTwice \/ Forget
  BY <1>2 DEF Keep, Arm, GiveTwice, Forget
<1>3. ASSUME NEW j \in Jobs, Incr(j) PROVE [Semaphore!Next]_(Semaphore!vars)
  <2>1. CASE quota' <= MaxConcurrent /\ Winners' = Winners \cup {j}
    <3>1. Winners \subseteq Holders
      BY DEF Winners
    <3>2. j \notin Winners
      BY <1>3, <3>1 DEF Incr
    <3>3. Cardinality(Winners) <= Cardinality(Holders)
      BY <3>1, Finite, FS_Subset
    <3>4. Cardinality(Winners) < MaxConcurrent + debt
      BY <1>3, <2>1, <3>3, Finite, ConstantsAssumption
      DEF Incr, QuotaInv, QuotaLedger, TypeOK
    <3>5. Semaphore!Cardinality(Winners) = Cardinality(Winners)
      BY DEF Semaphore!Cardinality, Cardinality
    <3> QED
      BY <1>3, <2>1, <3>2, <3>4, <3>5 DEF Incr
  <2>2. CASE Winners' = Winners
    BY <1>3, <2>2 DEF Incr
  <2> QED
    BY <1>3, <2>1, <2>2 DEF Incr
<1>4. ASSUME NEW j \in Jobs, Give(j) \/ Lose(j) PROVE [Semaphore!Next]_(Semaphore!vars)
  BY <1>4 DEF Give, Lose
<1> QED
  BY <1>1, <1>2, <1>3, <1>4 DEF QuotaStep

\* The INCR/check/DECR protocol of run_task and run_agent_task is a counting
\* semaphore with overdraft, for every number of jobs, limit and fault.
THEOREM ImplementsSemaphore == Spec => IsSemaphore
<1>1. Init => Semaphore!Init
  BY DEF Init, Semaphore!Init, Winners, Holders, Counted
<1> QED
  BY <1>1, QuotaInvariant, SemaphoreStep, PTL DEF Spec, IsSemaphore, Semaphore!Spec

------------------------------------------------------------------------------
(* Every status that is not final has a final write to come. *)

\* The attempt of job j, under way or to come, ends in a write of the status.
Pending(j) == wpc[j] = "queued" \/ wpc[j] \in TryStates

\* A job cancelled in its except clause has written no status.
Cut(j) == outcome[j] = "cut"

\* A timed-out job has left its agent behind.
Orphan(j) == outcome[j] = "timedout" /\ agent[j] \in AgentActive \cup {"exc"}

\* A cancel request is about to write the status of thread t.
Marking(t) == \E c \in Cancels : cpc[c] = "mark" /\ ThreadOf[cjob[c]] = t

QueuedAwaits ==
    \A t \in Threads : status[t] = "queued" =>
        \/ Marking(t)
        \/ \E j \in Jobs : ThreadOf[j] = t /\ (req[j] = "inserted" \/ Pending(j) \/ Cut(j))

RunningAwaits ==
    \A t \in Threads : status[t] = "running" =>
        \/ Marking(t)
        \/ \E j \in Jobs : /\ ThreadOf[j] = t
                           /\ Pending(j) \/ late[j] > 0 \/ Orphan(j) \/ Cut(j)

\* Where a job is tells what its agent and its tries can be.
Attempts ==
    \A j \in Jobs :
        /\ agent[j] \in AgentActive => wpc[j] = "wait" \/ outcome[j] \in {"timedout", "cut"}
        /\ outcome[j] \in {"timedout", "cut"} =>
              wpc[j] \in {"markCancelled", "release", "cleanKeys", "done", "abandoned"}
        /\ wpc[j] = "queued" => tries[j] < MaxTries
        /\ wpc[j] = "idle" => tries[j] = 0

SettleInv == Attempts /\ QueuedAwaits /\ RunningAwaits

\* No request, write or process is lost.
NothingLost == Faults \cap {"request", "enqueue", "db", "crash"} = {}

\* Every step keeps attempts in line.
LEMMA AttemptsStep ==
    TypeOK /\ Phases /\ Attempts /\ NothingLost /\ [Next]_vars => Attempts'
<1> SUFFICES ASSUME TypeOK, Phases, Attempts, NothingLost, [Next]_vars PROVE Attempts'
  OBVIOUS
<1> USE ConstantsAssumption DEF TypeOK, Phases, Attempts, NothingLost, AgentActive
<1>1. ASSUME NEW j \in Jobs, ServerNext(j) PROVE Attempts'
  BY <1>1 DEF ServerNext, Submit, SubmitIncr, SubmitExpire, SubmitReject, SubmitInsert,
              SubmitEnqueue, SubmitMap, SubmitEnqueueFails, SubmitDies, RequestStep
<1>2. ASSUME NEW j \in Jobs, WorkerNext(j) PROVE Attempts'
  <2>1. CASE ArqDeliver(j) \/ ArqGiveUp(j) \/ WorkerCrash(j) \/ CancelWatch(j)
    BY <2>1 DEF ArqDeliver, ArqGiveUp, WorkerCrash, CancelWatch
  <2>2. CASE WorkerRaises(j) \/ WorkerCleanupFails(j)
    BY <2>2 DEF WorkerRaises, WorkerCleanupFails, WorkerStep
  <2>3. CASE Work(j)
    BY <2>3 DEF Work, WorkerMarkRunning, WorkerSeesCancel, WorkerSeesNoCancel, WorkerSpawn,
                WorkerWakeCancelled, WorkerWakeDone, JobTimeout, WorkerMarkCompleted,
                WorkerMarkCancelled, WorkerMarkFailed, WorkerRelease, WorkerReturn,
                WorkerStep, Raise, Redeliver
  <2> QED
    BY <1>2, <2>1, <2>2, <2>3 DEF WorkerNext
<1>3. ASSUME NEW j \in Jobs, AgentNext(j) PROVE Attempts'
  BY <1>3 DEF AgentNext, AgentEnsureSession, AgentEnds, AgentFails, LateComplete, AgentStep
<1>4. ASSUME NEW c \in Cancels, CancelNext(c) PROVE Attempts'
  BY <1>4 DEF CancelNext, CancelProgress, CancelLookup, CancelSignal, CancelAbort,
              CancelMark, CancelUnmap, CancelDies, CancelStep
<1>5. CASE UNCHANGED vars \/ ExpireQuota \/ \E t \in Threads : ExpireThreadKey(t)
  BY <1>5 DEF vars, ExpireQuota, ExpireThreadKey
<1> QED
  BY <1>1, <1>2, <1>3, <1>4, <1>5 DEF Next

\* A step that writes no status, or one of a thread, and takes no writer away.
LEMMA AwaitsStep ==
    TypeOK /\ Phases /\ SettleInv /\ NothingLost /\ [Next]_vars
        => QueuedAwaits' /\ RunningAwaits'
<1> SUFFICES ASSUME TypeOK, Phases, SettleInv, NothingLost, [Next]_vars
             PROVE  QueuedAwaits' /\ RunningAwaits'
  OBVIOUS
<1> USE ConstantsAssumption
    DEF TypeOK, Phases, SettleInv, Attempts, NothingLost, AgentActive, QueuedAwaits,
        RunningAwaits, Pending, Orphan, Cut, Marking, TryStates
<1>1. ASSUME NEW j \in Jobs, ServerNext(j) PROVE QueuedAwaits' /\ RunningAwaits'
  BY <1>1 DEF ServerNext, Submit, SubmitIncr, SubmitExpire, SubmitReject, SubmitInsert,
              SubmitEnqueue, SubmitMap, SubmitEnqueueFails, SubmitDies, RequestStep,
              WriteStatus
<1>2. ASSUME NEW j \in Jobs, WorkerNext(j) PROVE QueuedAwaits' /\ RunningAwaits'
  <2>1. CASE ArqDeliver(j) \/ ArqGiveUp(j) \/ WorkerCrash(j) \/ CancelWatch(j)
    BY <2>1 DEF ArqDeliver, ArqGiveUp, WorkerCrash, CancelWatch
  <2>2. CASE WorkerRaises(j) \/ WorkerCleanupFails(j)
    BY <2>2, SMTT(60) DEF WorkerRaises, WorkerCleanupFails, WorkerStep
  <2>3. CASE WorkerMarkRunning(j) \/ WorkerSeesCancel(j) \/ WorkerSeesNoCancel(j)
                \/ WorkerSpawn(j) \/ WorkerWakeCancelled(j) \/ WorkerWakeDone(j)
    BY <2>3, SMTT(60)
    DEF WorkerMarkRunning, WorkerSeesCancel, WorkerSeesNoCancel, WorkerSpawn, WriteStatus,
        WorkerWakeCancelled, WorkerWakeDone, WorkerStep, Raise
  <2>4. CASE WorkerMarkCompleted(j)
    BY <2>4, SMTT(60) DEF WorkerMarkCompleted, WorkerStep, WriteStatus
  <2>5. CASE WorkerMarkCancelled(j) \/ WorkerMarkFailed(j)
    <3>1. /\ wpc' = [wpc EXCEPT ![j] = "release"]
          /\ \E s \in {"cancelled", "failed"} : status' = [status EXCEPT ![ThreadOf[j]] = s]
          /\ UNCHANGED <<req, outcome, late, agent, cpc, cjob>>
      BY <2>5 DEF WorkerMarkCancelled, WorkerMarkFailed, WorkerStep, WriteStatus, TryStatus
    <3> QED
      BY <3>1, SMTT(60)
  <2>6. CASE WorkerRelease(j)
    BY <2>6 DEF WorkerRelease, WorkerStep
  <2>7. CASE WorkerReturn(j)
    BY <2>7, SMTT(60) DEF WorkerReturn, Redeliver
  <2>8. CASE JobTimeout(j)
    BY <2>8, SMTT(60) DEF JobTimeout, WorkerStep, Raise
  <2> QED
    BY <1>2, <2>1, <2>2, <2>3, <2>4, <2>5, <2>6, <2>7, <2>8 DEF WorkerNext, Work
<1>3. ASSUME NEW j \in Jobs, AgentNext(j) PROVE QueuedAwaits' /\ RunningAwaits'
  <2>1. CASE AgentEnsureSession(j)
    BY <1>3, <2>1 DEF AgentEnsureSession, AgentStep, WriteStatus, TryStatus
  <2>2. CASE AgentEnds(j)
    BY <1>3, <2>2 DEF AgentEnds, AgentStep
  <2>3. CASE AgentFails(j)
    BY <1>3, <2>3 DEF AgentFails, AgentStep
  <2>4. CASE LateComplete(j)
    <3>1. /\ status' = [status EXCEPT ![ThreadOf[j]] = "completed"]
          /\ \A k \in Jobs \ {j} : late'[k] = late[k]
          /\ UNCHANGED <<req, wpc, outcome, agent, cpc, cjob>>
      BY <2>4 DEF LateComplete, WriteStatus, TryStatus
    <3>2. \A t \in Threads : status'[t] \in {"queued", "running"} =>
            t # ThreadOf[j] /\ status'[t] = status[t]
      BY <3>1
    <3>3. QueuedAwaits'
      BY <3>1, <3>2
    <3>4. ASSUME NEW t \in Threads, status'[t] = "running",
                 NEW i \in Jobs, ThreadOf[i] = t,
                 Pending(i) \/ late[i] > 0 \/ Orphan(i) \/ Cut(i)
          PROVE  (Pending(i) \/ late[i] > 0 \/ Orphan(i) \/ Cut(i))'
      <4>1. i # j
        BY <3>2, <3>4
      <4> QED
        BY <3>1, <3>4, <4>1
    <3>5. \A t \in Threads : Marking(t) => Marking(t)'
      BY <3>1
    <3>6. RunningAwaits'
      BY <3>2, <3>4, <3>5
    <3> QED
      BY <3>3, <3>6
  <2> QED
    BY <1>3, <2>1, <2>2, <2>3, <2>4 DEF AgentNext
<1>4. ASSUME NEW c \in Cancels, CancelNext(c) PROVE QueuedAwaits' /\ RunningAwaits'
  BY <1>4 DEF CancelNext, CancelProgress, CancelLookup, CancelSignal, CancelAbort,
              CancelMark, CancelUnmap, CancelDies, CancelStep, WriteStatus, TryStatus
<1>5. CASE UNCHANGED vars \/ ExpireQuota \/ \E t \in Threads : ExpireThreadKey(t)
  BY <1>5 DEF vars, ExpireQuota, ExpireThreadKey
<1> QED
  BY <1>1, <1>2, <1>3, <1>4, <1>5 DEF Next

\* However the writers of sessions.status of any number of submissions, cancels
\* and retries interleave, a thread that has come to rest has a final status,
\* unless a worker was cancelled in its except clause, or a timed-out job left an
\* agent behind that failed; when no request, write or process is lost.
THEOREM StatusSettles ==
    ASSUME NothingLost
    PROVE  Spec => []SettledStatus
<1>1. Init => SettleInv
  BY ConstantsAssumption
  DEF Init, SettleInv, Attempts, QueuedAwaits, RunningAwaits, AgentActive
<1>2. TypeOK /\ Phases /\ SettleInv /\ [Next]_vars => SettleInv'
  BY AttemptsStep, AwaitsStep DEF SettleInv
<1>3. TypeOK /\ SettleInv => SettledStatus
  <2> SUFFICES ASSUME TypeOK, SettleInv, NEW t \in Threads, Quiet(t),
                      status[t] \in {"queued", "running"}
               PROVE  \E j \in Jobs : /\ ThreadOf[j] = t
                                      /\ \/ outcome[j] = "cut"
                                         \/ /\ status[t] = "running"
                                            /\ outcome[j] = "timedout"
                                            /\ agent[j] = "exc"
    BY DEF SettledStatus
  <2>1. ~Marking(t)
    BY ConstantsAssumption DEF Marking, Quiet, TypeOK
  <2>2. \A j \in Jobs : ThreadOf[j] = t =>
          ~Pending(j) /\ req[j] # "inserted" /\ ~(late[j] > 0) /\ agent[j] \notin AgentActive
    BY DEF Quiet, Pending, TypeOK, TryStates
  <2>3. CASE status[t] = "queued"
    BY <2>1, <2>2, <2>3 DEF SettleInv, QueuedAwaits, Cut
  <2>4. CASE status[t] = "running"
    <3>1. PICK j \in Jobs : ThreadOf[j] = t /\ (Orphan(j) \/ Cut(j))
      <4>1. \E j \in Jobs : /\ ThreadOf[j] = t
                            /\ Pending(j) \/ late[j] > 0 \/ Orphan(j) \/ Cut(j)
        BY <2>1, <2>4, Zenon DEF SettleInv, RunningAwaits
      <4> QED
        BY <2>2, <4>1, Zenon
    <3>2. Orphan(j) => outcome[j] = "timedout" /\ agent[j] = "exc"
      BY <2>2, <3>1 DEF Orphan
    <3> QED
      BY <2>4, <3>1, <3>2 DEF Cut
  <2> QED
    BY <2>3, <2>4
<1> QED
  BY <1>1, <1>2, <1>3, QuotaInvariant, PTL DEF Spec, QuotaInv

------------------------------------------------------------------------------
(* The signal of a cancel request is there when a worker looks for it. *)

\* Job k has not come as far as deleting its thread's keys.
Undisturbing(k) ==
    \/ tries[k] = 0
    \/ tries[k] = 1 /\ wpc[k] \in TryStates \cup {"release"}

UndisturbedThread(t) == \A k \in Jobs : ThreadOf[k] = t => Undisturbing(k)

\* A signal stays until a job of the thread deletes the thread's keys, which it
\* does only when delivered.
SignalStays ==
    /\ \A j \in Jobs : wpc[j] \notin {"idle", "queued", "abandoned"} => tries[j] >= 1
    /\ \A j \in Jobs : Signalled(j) /\ UndisturbedThread(ThreadOf[j])
                          => ThreadOf[j] \in cancelKey

\* No key outlives its hour.
KeysLast == "ttl" \notin Faults

\* Once a job has deleted its thread's keys it counts as having done so for good.
LEMMA UndisturbingBefore ==
    ASSUME TypeOK, [Next]_vars, NEW k \in Jobs, Undisturbing(k)'
    PROVE  Undisturbing(k)
<1> USE DEF TypeOK, Undisturbing, TryStates, FinallyStates
<1>1. ASSUME NEW j \in Jobs, ServerNext(j) PROVE Undisturbing(k)
  BY <1>1 DEF ServerNext, Submit, SubmitIncr, SubmitExpire, SubmitReject, SubmitInsert,
              SubmitEnqueue, SubmitMap, SubmitEnqueueFails, SubmitDies, RequestStep
<1>2. ASSUME NEW j \in Jobs, WorkerNext(j) PROVE Undisturbing(k)
  <2>1. CASE ArqDeliver(j) \/ ArqGiveUp(j) \/ WorkerCrash(j) \/ CancelWatch(j)
    BY <2>1, ConstantsAssumption DEF ArqDeliver, ArqGiveUp, WorkerCrash, CancelWatch, Redeliver
  <2>2. CASE WorkerRaises(j) \/ WorkerCleanupFails(j)
    BY <2>2 DEF WorkerRaises, WorkerCleanupFails, WorkerStep, Raise
  <2>3. CASE Work(j)
    BY <2>3 DEF Work, WorkerMarkRunning, WorkerSeesCancel, WorkerSeesNoCancel, WorkerSpawn,
                WorkerWakeCancelled, WorkerWakeDone, JobTimeout, WorkerMarkCompleted,
                WorkerMarkCancelled, WorkerMarkFailed, WorkerRelease, WorkerReturn,
                WorkerStep, Raise, Redeliver
  <2> QED
    BY <1>2, <2>1, <2>2, <2>3 DEF WorkerNext
<1>3. ASSUME NEW j \in Jobs, AgentNext(j) PROVE Undisturbing(k)
  BY <1>3 DEF AgentNext, AgentEnsureSession, AgentEnds, AgentFails, LateComplete, AgentStep
<1>4. ASSUME NEW c \in Cancels, CancelNext(c) PROVE Undisturbing(k)
  BY <1>4 DEF CancelNext, CancelProgress, CancelLookup, CancelSignal, CancelAbort,
              CancelMark, CancelUnmap, CancelDies, CancelStep
<1>5. CASE UNCHANGED vars \/ ExpireQuota \/ \E t \in Threads : ExpireThreadKey(t)
  BY <1>5 DEF vars, ExpireQuota, ExpireThreadKey
<1> QED
  BY <1>1, <1>2, <1>3, <1>4, <1>5 DEF Next

\* Every step keeps the signal.
LEMMA SignalStep ==
    TypeOK /\ SignalStays /\ KeysLast /\ [Next]_vars => SignalStays'
<1> SUFFICES ASSUME TypeOK, SignalStays, KeysLast, [Next]_vars PROVE SignalStays'
  OBVIOUS
<1> USE DEF TypeOK, KeysLast
<1>1. \A j \in Jobs : UndisturbedThread(ThreadOf[j])' => UndisturbedThread(ThreadOf[j])
  BY UndisturbingBefore DEF UndisturbedThread
<1>2. (\A j \in Jobs : wpc[j] \notin {"idle", "queued", "abandoned"} => tries[j] >= 1)'
  <2> USE DEF SignalStays, TryStates, FinallyStates
  <2>1. ASSUME NEW j \in Jobs, ServerNext(j)
        PROVE  (\A i \in Jobs : wpc[i] \notin {"idle", "queued", "abandoned"} => tries[i] >= 1)'
    BY <2>1 DEF ServerNext, Submit, SubmitIncr, SubmitExpire, SubmitReject, SubmitInsert,
                SubmitEnqueue, SubmitMap, SubmitEnqueueFails, SubmitDies, RequestStep
  <2>2. ASSUME NEW j \in Jobs, WorkerNext(j)
        PROVE  (\A i \in Jobs : wpc[i] \notin {"idle", "queued", "abandoned"} => tries[i] >= 1)'
    <3>1. CASE ArqDeliver(j) \/ ArqGiveUp(j) \/ WorkerCrash(j) \/ CancelWatch(j)
      BY <3>1, ConstantsAssumption
      DEF ArqDeliver, ArqGiveUp, WorkerCrash, CancelWatch, Redeliver
    <3>2. CASE WorkerRaises(j) \/ WorkerCleanupFails(j)
      BY <3>2 DEF WorkerRaises, WorkerCleanupFails, WorkerStep, Raise
    <3>3. CASE Work(j)
      BY <3>3 DEF Work, WorkerMarkRunning, WorkerSeesCancel, WorkerSeesNoCancel, WorkerSpawn,
                  WorkerWakeCancelled, WorkerWakeDone, JobTimeout, WorkerMarkCompleted,
                  WorkerMarkCancelled, WorkerMarkFailed, WorkerRelease, WorkerReturn,
                  WorkerStep, Raise, Redeliver
    <3> QED
      BY <2>2, <3>1, <3>2, <3>3 DEF WorkerNext
  <2>3. ASSUME NEW j \in Jobs, AgentNext(j) PROVE UNCHANGED <<wpc, tries>>
    BY <2>3 DEF AgentNext, AgentEnsureSession, AgentEnds, AgentFails, LateComplete, AgentStep
  <2>4. ASSUME NEW c \in Cancels, CancelNext(c)
        PROVE  (\A i \in Jobs : wpc[i] \notin {"idle", "queued", "abandoned"} => tries[i] >= 1)'
    BY <2>4 DEF CancelNext, CancelProgress, CancelLookup, CancelSignal, CancelAbort,
                CancelMark, CancelUnmap, CancelDies, CancelStep
  <2>5. CASE UNCHANGED vars \/ ExpireQuota \/ \E t \in Threads : ExpireThreadKey(t)
    BY <2>5 DEF vars, ExpireQuota, ExpireThreadKey
  <2> QED
    BY <2>1, <2>2, <2>3, <2>4, <2>5 DEF Next
<1>3. ASSUME NEW j \in Jobs, Signalled(j)', UndisturbedThread(ThreadOf[j])'
      PROVE  ThreadOf[j] \in cancelKey'
  <2>1. UndisturbedThread(ThreadOf[j])
    BY <1>1, <1>3
  <2>2. Signalled(j) => ThreadOf[j] \in cancelKey
    BY <2>1 DEF SignalStays
  <2>3. ASSUME NEW c \in Cancels, CancelNext(c) PROVE ThreadOf[j] \in cancelKey'
    BY <2>2, <2>3, <1>3
    DEF CancelNext, CancelProgress, CancelLookup, CancelSignal, CancelAbort,
        CancelMark, CancelUnmap, CancelDies, CancelStep, Signalled
  <2>4. ASSUME NEW k \in Jobs, WorkerReturn(k) \/ WorkerCleanupFails(k), ThreadOf[k] = ThreadOf[j],
               wpc[k] = "cleanKeys"
        PROVE  FALSE
    <3>1. tries'[k] = tries[k] /\ wpc'[k] \in {"done", "queued"} /\ tries[k] >= 1
      BY <2>4 DEF WorkerReturn, WorkerCleanupFails, WorkerStep, Redeliver, SignalStays
    <3> QED
      BY <1>3, <2>4, <3>1 DEF UndisturbedThread, Undisturbing, TryStates
  <2>5. CASE UNCHANGED <<cpc, cjob, cancelKey>>
    BY <1>3, <2>2, <2>5 DEF Signalled
  <2>6. ASSUME NEW k \in Jobs, WorkerReturn(k) \/ WorkerCleanupFails(k)
        PROVE  ThreadOf[j] \in cancelKey'
    <3>1. UNCHANGED <<cpc, cjob>>
      BY <2>6 DEF WorkerReturn, WorkerCleanupFails, WorkerStep
    <3>2. Signalled(j)
      BY <1>3, <3>1 DEF Signalled
    <3>3. cancelKey \ {ThreadOf[k]} \subseteq cancelKey' /\ (wpc[k] # "cleanKeys" => UNCHANGED cancelKey)
      BY <2>6 DEF WorkerReturn, WorkerCleanupFails, WorkerStep
    <3>4. CASE ThreadOf[k] = ThreadOf[j] /\ wpc[k] = "cleanKeys"
      BY <2>4, <2>6, <3>4
    <3>5. CASE ~(ThreadOf[k] = ThreadOf[j] /\ wpc[k] = "cleanKeys")
      BY <2>2, <3>2, <3>3, <3>5
    <3> QED
      BY <3>4, <3>5
  <2>7. \/ UNCHANGED <<cpc, cjob, cancelKey>>
        \/ \E c \in Cancels : CancelNext(c)
        \/ \E k \in Jobs : WorkerReturn(k) \/ WorkerCleanupFails(k)
    <3>1. ASSUME NEW k \in Jobs, ServerNext(k) PROVE UNCHANGED <<cpc, cjob, cancelKey>>
      BY <3>1 DEF ServerNext, Submit, SubmitIncr, SubmitExpire, SubmitReject, SubmitInsert,
                  SubmitEnqueue, SubmitMap, SubmitEnqueueFails, SubmitDies, RequestStep
    <3>2. ASSUME NEW k \in Jobs, WorkerNext(k)
          PROVE  UNCHANGED <<cpc, cjob, cancelKey>> \/ WorkerReturn(k) \/ WorkerCleanupFails(k)
      BY <3>2 DEF WorkerNext, Work, ArqDeliver, ArqGiveUp, WorkerCrash, CancelWatch,
                  WorkerRaises, WorkerMarkRunning, WorkerSeesCancel, WorkerSeesNoCancel, WorkerSpawn,
                  WorkerWakeCancelled, WorkerWakeDone, JobTimeout, WorkerMarkCompleted,
                  WorkerMarkCancelled, WorkerMarkFailed, WorkerRelease, WorkerStep, Raise
    <3>3. ASSUME NEW k \in Jobs, AgentNext(k) PROVE UNCHANGED <<cpc, cjob, cancelKey>>
      BY <3>3 DEF AgentNext, AgentEnsureSession, AgentEnds, AgentFails, LateComplete,
                  AgentStep
    <3>4. CASE UNCHANGED vars \/ ExpireQuota \/ \E t \in Threads : ExpireThreadKey(t)
      BY <3>4 DEF vars, ExpireQuota, ExpireThreadKey
    <3> QED
      BY <3>1, <3>2, <3>3, <3>4 DEF Next
  <2> QED
    BY <2>3, <2>5, <2>6, <2>7
<1> QED
  BY <1>2, <1>3 DEF SignalStays

\* A worker that looks for a signal which a cancel request has stored finds it and
\* does not start the agent, for any number of jobs, cancels, retries and crashes,
\* while no key expires.
THEOREM SignalStopsWorker ==
    ASSUME KeysLast
    PROVE  Spec => SignalHeeded
<1> DEFINE Stopped == \A j \in Jobs :
              /\ Signalled(j)
              /\ wpc[j] # "spawn"
              /\ tries[j] <= 1
              /\ KeysUndisturbed(j)
              => wpc'[j] # "spawn"
<1>1. Init => SignalStays
  BY DEF Init, SignalStays, Signalled
<1>2. TypeOK /\ SignalStays /\ [Next]_vars => SignalStays'
  BY SignalStep
<1>3. TypeOK /\ SignalStays /\ [Next]_vars => [Stopped]_vars
  <2> SUFFICES ASSUME TypeOK, SignalStays, Next, NEW j \in Jobs, Signalled(j),
                      wpc[j] # "spawn", tries[j] <= 1, KeysUndisturbed(j)
               PROVE  wpc'[j] # "spawn"
    OBVIOUS
  <2> USE DEF TypeOK
  <2>1. ~WorkerSeesNoCancel(j)
    <3> SUFFICES ASSUME wpc[j] = "check", ThreadOf[j] \notin cancelKey PROVE FALSE
      BY DEF WorkerSeesNoCancel, WorkerStep
    <3>1. Undisturbing(j)
      BY DEF SignalStays, Undisturbing, TryStates
    <3>2. UndisturbedThread(ThreadOf[j])
      BY <3>1 DEF UndisturbedThread, Undisturbing, KeysUndisturbed
    <3> QED
      BY <3>2 DEF SignalStays
  <2>2. ASSUME NEW k \in Jobs, ServerNext(k) PROVE wpc'[j] # "spawn"
    BY <2>2 DEF ServerNext, Submit, SubmitIncr, SubmitExpire, SubmitReject, SubmitInsert,
                SubmitEnqueue, SubmitMap, SubmitEnqueueFails, SubmitDies, RequestStep
  <2>3. ASSUME NEW k \in Jobs, WorkerNext(k) PROVE wpc'[j] # "spawn"
    <3>1. CASE ArqDeliver(k) \/ ArqGiveUp(k) \/ WorkerCrash(k) \/ CancelWatch(k)
      BY <3>1 DEF ArqDeliver, ArqGiveUp, WorkerCrash, CancelWatch, Redeliver
    <3>2. CASE WorkerRaises(k) \/ WorkerCleanupFails(k) \/ WorkerReturn(k)
      BY <3>2 DEF WorkerRaises, WorkerCleanupFails, WorkerReturn, WorkerStep, Raise, Redeliver
    <3>3. CASE WorkerSeesNoCancel(k)
      BY <2>1, <3>3 DEF WorkerSeesNoCancel, WorkerStep
    <3>4. CASE \/ WorkerMarkRunning(k) \/ WorkerSeesCancel(k) \/ WorkerSpawn(k)
               \/ WorkerWakeCancelled(k) \/ WorkerWakeDone(k) \/ JobTimeout(k)
      BY <3>4 DEF WorkerMarkRunning, WorkerSeesCancel, WorkerSpawn, WorkerWakeCancelled,
                  WorkerWakeDone, JobTimeout, WorkerStep, Raise
    <3>5. CASE \/ WorkerMarkCompleted(k) \/ WorkerMarkCancelled(k) \/ WorkerMarkFailed(k)
               \/ WorkerRelease(k)
      BY <3>5 DEF WorkerMarkCompleted, WorkerMarkCancelled, WorkerMarkFailed, WorkerRelease,
                  WorkerStep
    <3> QED
      BY <2>3, <3>1, <3>2, <3>3, <3>4, <3>5 DEF WorkerNext, Work
  <2>4. ASSUME NEW k \in Jobs, AgentNext(k) PROVE wpc'[j] # "spawn"
    BY <2>4 DEF AgentNext, AgentEnsureSession, AgentEnds, AgentFails, LateComplete, AgentStep
  <2>5. ASSUME NEW c \in Cancels, CancelNext(c) PROVE wpc'[j] # "spawn"
    BY <2>5 DEF CancelNext, CancelProgress, CancelLookup, CancelSignal, CancelAbort,
                CancelMark, CancelUnmap, CancelDies, CancelStep
  <2>6. CASE ExpireQuota \/ \E t \in Threads : ExpireThreadKey(t)
    BY <2>6 DEF ExpireQuota, ExpireThreadKey
  <2> QED
    BY <2>2, <2>3, <2>4, <2>5, <2>6 DEF Next
<1> QED
  BY <1>1, <1>2, <1>3, QuotaInvariant, PTL
  DEF Spec, QuotaInv, SignalHeeded
=============================================================================
