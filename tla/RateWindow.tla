------------------------------ MODULE RateWindow ------------------------------
(***************************************************************************)
(* rate_limit_middleware of server.py: a sliding window in a sorted set of *)
(* Redis, trimmed, counted and added to by three calls, between which the  *)
(* other requests of all servers run.                                      *)
(***************************************************************************)
EXTENDS Integers, FiniteSets

CONSTANTS Workers,    \* requests that can be in the middleware at once
          Most,       \* max_req_per_window
          Width,      \* window_ms
          MaxTime, MaxRequests

VARIABLES
    now,       \* the clock
    entries,   \* the sorted set: number and score of each member
    inside,    \* each request: where it is and when it arrived
    arrived,   \* requests so far
    passed,    \* history: when each recorded request had arrived
    lag        \* history: the longest a request took from its arrival to its count

vars == <<now, entries, inside, arrived, passed, lag>>

Gone == [at |-> "gone", time |-> 0]

Init ==
    /\ now = Width /\ arrived = 0
    /\ entries = {} /\ passed = {} /\ lag = 0
    /\ inside = [w \in Workers |-> Gone]

Tick ==
    /\ now < MaxTime
    /\ now' = now + 1
    /\ UNCHANGED <<entries, inside, arrived, passed, lag>>

Goes(w, where) == inside' = [inside EXCEPT ![w].at = where]

\* now_ms is read once, before the first call.
Arrive(w) ==
    /\ inside[w].at = "gone" /\ arrived < MaxRequests
    /\ arrived' = arrived + 1
    /\ inside' = [inside EXCEPT ![w] = [at |-> "arrived", time |-> now]]
    /\ UNCHANGED <<now, entries, passed, lag>>

\* zremrangebyscore(key, 0, now_ms - window_ms)
Trim(w) ==
    /\ inside[w].at = "arrived"
    /\ entries' = {e \in entries : e.time > inside[w].time - Width}
    /\ Goes(w, "trimmed")
    /\ UNCHANGED <<now, arrived, passed, lag>>

\* Mutant: one request too many.
OneTooMany(count) == count > Most

Full(count) == count >= Most

Count(w) ==
    /\ inside[w].at = "trimmed"
    /\ Goes(w, IF Full(Cardinality(entries)) THEN "gone" ELSE "counted")
    /\ lag' = IF now - inside[w].time > lag THEN now - inside[w].time ELSE lag
    /\ UNCHANGED <<now, entries, arrived, passed>>

\* zadd, under a name of its own; the key's two seconds outlast the window.
Record(w) ==
    /\ inside[w].at = "counted"
    /\ LET e == [id |-> Cardinality(passed), time |-> inside[w].time] IN
       entries' = entries \cup {e} /\ passed' = passed \cup {e}
    /\ Goes(w, "gone")
    /\ UNCHANGED <<now, arrived, lag>>

\* Redis fails: the request goes on, unrecorded.
Skip(w) ==
    /\ inside[w].at # "gone"
    /\ Goes(w, "gone")
    /\ UNCHANGED <<now, entries, arrived, passed, lag>>

Next ==
    \/ Tick
    \/ \E w \in Workers : Arrive(w) \/ Trim(w) \/ Count(w) \/ Record(w) \/ Skip(w)

Spec == Init /\ [][Next]_vars

------------------------------------------------------------------------------
WindowTypeOK ==
    /\ now \in Width .. MaxTime
    /\ entries \subseteq passed
    /\ \A w \in Workers : inside[w].at \in {"gone", "arrived", "trimmed", "counted"}

\* While Redis answers, no more requests that arrived within a window are let
\* through than the limit and those that can count at once.  The window is the
\* shorter by what requests take: a later one's trim removes what an earlier
\* one has still to count.
AcceptedBound ==
    \A t \in Width .. MaxTime :
        Cardinality({e \in passed : t - (Width - lag) < e.time /\ e.time <= t})
            <= Most + Cardinality(Workers) - 1
=============================================================================
