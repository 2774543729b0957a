--------------------------- MODULE MCTaskLifecycle ---------------------------
(* Instances of TaskLifecycle for TLC. *)
EXTENDS TaskProperties, TLC

CONSTANTS j1, j2, t1, t2, c1

\* Each submission opens a thread of its own.
OwnThread == (j1 :> t1) @@ (j2 :> t2)

\* Two submissions for the same thread.
SameThread == (j1 :> t1) @@ (j2 :> t1)

\* One submission.
OneJob == j1 :> t1

\* For runs without cancel requests: no step reads the session rows or the keys
\* of the threads then, so states that differ only in those go on alike, and the
\* properties of the limit do not mention them.
QuotaView == <<req, quotaVars, workerVars, agentVars>>

Symmetry == Permutations({j1, j2})
=============================================================================
