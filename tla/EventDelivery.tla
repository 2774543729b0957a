--------------------------- MODULE EventDelivery ---------------------------
(***************************************************************************)
(* How the events of agent runs reach one page: the Redis list and channel *)
(* of a thread, the WebSocket connections of the API process               *)
(* (server.py websocket_endpoint, monitor.py ConnectionManager) and the    *)
(* page's hook (useDeepAgentSession.ts), which opens a socket for the      *)
(* thread it shows, replaces it, reconnects it, and starts, cancels and    *)
(* loads sessions through HTTP calls answered later.                       *)
(*                                                                         *)
(* A run is numbered by its submission, an event by its place in the       *)
(* thread's log, a socket by its creation.  Kind "note" stands for every   *)
(* event that does not stop the page.  A run may report several that do,   *)
(* or none, before it is over.  The session row, the job and the flushes   *)
(* are those of TaskLifecycle and EventPipeline, reduced here to what the  *)
(* page can see.                                                           *)
(***************************************************************************)
EXTENDS Naturals, Sequences, FiniteSets

FinalKinds == {"task_result", "task_cancelled", "error"}
Kinds == FinalKinds \cup {"note"}

Largest(S) == CHOOSE n \in S : \A m \in S : m <= n

CONSTANTS
    Threads,   \* thread ids, the first of which the page shows at first
    First,
    CacheCap,  \* events the Redis list keeps, 500
    MaxShown,  \* MAX_EVENTS of the hook, 120
    Reported,  \* bound: kinds of events runs report
    Budgets    \* bound: see left

ASSUME DeliveryAssumption ==
    /\ First \in Threads
    /\ {CacheCap, MaxShown} \subseteq Nat \ {0}
    /\ Reported \subseteq Kinds
    /\ Budgets \subseteq [runs : Nat \ {0}, moves : Nat, faults : Nat, events : Nat]
    /\ \E b \in Budgets : \A a \in Budgets : a.runs <= b.runs
    /\ \E b \in Budgets : \A a \in Budgets : a.moves + a.faults <= b.moves + b.faults

Runs == 1 .. Largest({b.runs : b \in Budgets})
Sockets == 1 .. (1 + Largest({b.moves + b.faults : b \in Budgets}))

VARIABLES
    log,       \* events of each thread in the order they were cached
    unsent,    \* those whose PUBLISH is still to come
    alive,     \* runs under way: queued, begun, or delivered again
    srv,       \* where websocket_endpoint is for each socket
    place,     \* manager.active_connections, 0 for none
    wire,      \* messages on the way to the page
    threadId,  \* the hook's threadId
    socketRef, \* the hook's socketRef.current
    sock,      \* thread and readyState of each socket of the page
    timer,     \* reconnectTimerRef is set
    events,    \* live events shown, oldest first
    isRunning,
    isViewingHistory,
    start,     \* the POST /api/task of each run
    cancel,    \* a POST of cancel_task is unanswered
    load,      \* sessions whose detail is asked for, with what was read
    mine,      \* history: the run the page last submitted or, loading its
               \* session, could wait for, 0 for none
    heard,     \* history: final events the page has handled as live
    missed,    \* history: runs an end of which did not come to the page while
               \* it waited, or that reported none
    left       \* history: what the bound leaves of each: runs the page may
               \* submit, moves to another thread, events reported, and
               \* faults: connections lost, requests failed, runs with no end

workVars    == <<log, unsent, alive>>
netVars     == <<srv, place, wire>>
pageVars    == <<threadId, socketRef, sock, timer, events, isRunning,
                 isViewingHistory>>
requestVars == <<start, cancel, load>>
historyVars == <<mine, heard, missed>>

vars == <<workVars, netVars, pageVars, requestVars, historyVars, left>>

Init ==
    /\ log = [t \in Threads |-> <<>>]
    /\ unsent = [t \in Threads |-> {}]
    /\ alive = {}
    /\ srv = [c \in Sockets |-> IF c = 1 THEN "asked" ELSE "none"]
    /\ place = [t \in Threads |-> 0]
    /\ wire = [c \in Sockets |-> <<>>]
    /\ threadId = First
    /\ socketRef = 1
    /\ sock = [c \in Sockets |->
                [thread |-> First,
                 state |-> IF c = 1 THEN "connecting" ELSE "none"]]
    /\ timer = FALSE
    /\ events = <<>>
    /\ isRunning = FALSE
    /\ isViewingHistory = FALSE
    /\ start = [r \in Runs |-> [thread |-> First, state |-> "none"]]
    /\ cancel = FALSE
    /\ load = {}
    /\ mine = 0
    /\ heard = {}
    /\ missed = {}
    /\ left \in Budgets

Spend(what) == left[what] > 0 /\ left' = [left EXCEPT ![what] = @ - 1]

Thread(c) == sock[c].thread
IsFinal(e) == e.kind \in FinalKinds

\* The event of thread t a message stands for.
Event(c, m) == log[Thread(c)][m.n]

\* Runs whose end is among the messages ms of socket c.
Ends(c, ms) == {Event(c, m).run : m \in {m \in ms : m.type = "monitor_event" /\ IsFinal(Event(c, m))}}

OnWire(c) == {wire[c][i] : i \in DOMAIN wire[c]}

\* Run r has reported an end, and the page has handled one.
Ended(r) == LET t == start[r].thread
            IN  \E n \in DOMAIN log[t] : log[t][n].run = r /\ IsFinal(log[t][n])
Heard(r) == \E e \in heard : log[e.thread][e.n].run = r

\* The run of thread t a page that looks now can wait for, 0 for none.
Latest(t) ==
    LET here == {r \in alive : start[r].thread = t}
    IN  IF here = {} THEN 0 ELSE CHOOSE r \in here : \A s \in here : s <= r

------------------------------------------------------------------------------
(* The worker and Redis. *)

\* cache_event: LPUSH and LTRIM.  A run goes on after a final event: the model
\* may answer again, the stream break after its answer, ARQ deliver it again.
CacheEvent(r, k) ==
    LET t == start[r].thread
    IN  /\ r \in alive
        /\ Spend("events")
        /\ log' = [log EXCEPT ![t] = Append(@, [run |-> r, kind |-> k])]
        /\ unsent' = [unsent EXCEPT ![t] = @ \cup {Len(log[t]) + 1}]
        /\ UNCHANGED <<alive, netVars, pageVars, requestVars, historyVars>>

\* publish_ws_event: to every connection subscribed at this moment, whose
\* forwarding loop sends it on unless the page has closed the socket.
PublishEvent(t, n) ==
    LET msg == [type |-> "monitor_event", n |-> n]
        reached == {c \in Sockets : srv[c] = "subscribed" /\ Thread(c) = t
                                    /\ sock[c].state = "open"}
        e == log[t][n]
    IN  /\ n \in unsent[t]
        /\ unsent' = [unsent EXCEPT ![t] = @ \ {n}]
        /\ wire' = [c \in Sockets |-> IF c \in reached THEN Append(wire[c], msg) ELSE wire[c]]
        /\ missed' = IF IsFinal(e) /\ socketRef \notin reached
                     THEN missed \cup {e.run} ELSE missed
        /\ UNCHANGED <<log, alive, srv, place, pageVars, requestVars, mine, heard, left>>

RunEnds(r) ==
    /\ r \in alive
    /\ Ended(r)
    /\ alive' = alive \ {r}
    /\ UNCHANGED <<log, unsent, netVars, pageVars, requestVars, historyVars, left>>

\* A run cancelled before its start, lost with its worker, or whose answer is
\* empty reports no end.
EndsSilently(r) ==
    /\ r \in alive
    /\ ~Ended(r)
    /\ Spend("faults")
    /\ alive' = alive \ {r}
    /\ missed' = missed \cup {r}
    /\ UNCHANGED <<log, unsent, netVars, pageVars, requestVars, mine, heard>>

------------------------------------------------------------------------------
(* websocket_endpoint, one coroutine per connection. *)

\* Mutant: a socket that never opened is not tried again.
LoseOpened(c, state) ==
    /\ sock' = [sock EXCEPT ![c].state = "closed"]
    /\ timer' = (timer \/ (c = socketRef /\ state = "open"))
    /\ wire' = [wire EXCEPT ![c] = <<>>]
    /\ missed' = IF c = socketRef THEN missed \cup Ends(c, OnWire(c)) ELSE missed

\* The socket of the page closes without the page having closed it: onclose
\* arms the reconnect timer, unless another socket has taken its place.
Lose(c, state) ==
    /\ sock' = [sock EXCEPT ![c].state = "closed"]
    /\ timer' = (timer \/ (c = socketRef /\ state # "closed"))
    /\ wire' = [wire EXCEPT ![c] = <<>>]
    /\ missed' = IF c = socketRef THEN missed \cup Ends(c, OnWire(c)) ELSE missed

PageUnchanged == UNCHANGED <<threadId, socketRef, events, isRunning, isViewingHistory>>

\* No token, decode_token raises, or the session is found to be another's.
Refuse(c) ==
    /\ srv[c] = "asked"
    /\ Spend("faults")
    /\ srv' = [srv EXCEPT ![c] = "over"]
    /\ Lose(c, sock[c].state)
    /\ PageUnchanged
    /\ UNCHANGED <<workVars, place, requestVars, mine, heard>>

\* The page may see the session, or its owner could not be looked up.
Accept(c) ==
    /\ srv[c] = "asked"
    /\ srv' = [srv EXCEPT ![c] = "accepted"]
    /\ sock' = [sock EXCEPT ![c].state = IF @ = "connecting" THEN "open" ELSE @]
    /\ UNCHANGED <<workVars, place, wire, threadId, socketRef, timer, events, isRunning,
                   isViewingHistory, requestVars, historyVars, left>>

\* What is replayed: the Redis list, or the rows of agent_events while there
\* is no list, or nothing when reading them fails.
Histories(t) ==
    LET all == [n \in 1 .. Len(log[t]) |-> n]
        kept == IF Len(all) > CacheCap THEN Len(all) - CacheCap + 1 ELSE 1
    IN  {SubSeq(all, kept, Len(all)), all, <<>>}

\* Mutant: history is sent the way live events are.
ReplayedAsLive(n) == [type |-> "monitor_event", n |-> n]

Replayed(n) == [type |-> "replay", n |-> n]

Replay(c) ==
    /\ srv[c] = "accepted"
    /\ srv' = [srv EXCEPT ![c] = "replayed"]
    /\ \E h \in Histories(Thread(c)) :
         wire' = IF sock[c].state = "open"
                 THEN [wire EXCEPT ![c] = [i \in 1 .. Len(h) |-> Replayed(h[i])]]
                 ELSE wire
    /\ UNCHANGED <<workVars, place, pageVars, requestVars, historyVars, left>>

\* manager.register: whatever had the thread's place loses it.
Register(c) ==
    /\ srv[c] = "replayed"
    /\ srv' = [srv EXCEPT ![c] = "registered"]
    /\ place' = [place EXCEPT ![Thread(c)] = c]
    /\ UNCHANGED <<workVars, wire, pageVars, requestVars, historyVars, left>>

Subscribe(c) ==
    /\ srv[c] = "registered"
    /\ srv' = [srv EXCEPT ![c] = "subscribed"]
    /\ UNCHANGED <<workVars, place, wire, pageVars, requestVars, historyVars, left>>

\* Mutant: the connection that ends is not compared with the one registered.
AnyLeaves(c) == [place EXCEPT ![Thread(c)] = 0]

\* Mutant: the finally block does not take the connection off the table.
NoneLeaves(c) == place

\* manager.disconnect
Leaves(c) == [place EXCEPT ![Thread(c)] = IF @ = c THEN 0 ELSE @]

Looping(c) == srv[c] \in {"registered", "subscribed"}

\* The receive loop meets the closed socket; the forwarding task is cancelled.
Disconnect(c) ==
    /\ Looping(c)
    /\ sock[c].state = "closed"
    /\ srv' = [srv EXCEPT ![c] = "over"]
    /\ place' = Leaves(c)
    /\ UNCHANGED <<workVars, wire, pageVars, requestVars, historyVars, left>>

\* The subscription breaks: the forwarding loop returns, and with it the
\* endpoint, which closes the socket.
SubscriptionBreaks(c) ==
    /\ Looping(c)
    /\ Spend("faults")
    /\ srv' = [srv EXCEPT ![c] = "over"]
    /\ place' = Leaves(c)
    /\ Lose(c, sock[c].state)
    /\ PageUnchanged
    /\ UNCHANGED <<workVars, requestVars, mine, heard>>

\* Shutdown: manager.disconnect_all, and every other connection ends with the
\* process; a new process serves the next ones.
Restart ==
    /\ Spend("faults")
    /\ srv' = [c \in Sockets |-> IF srv[c] = "none" THEN "none" ELSE "over"]
    /\ place' = [t \in Threads |-> 0]
    /\ wire' = [c \in Sockets |-> <<>>]
    /\ sock' = [c \in Sockets |->
                 [sock[c] EXCEPT !.state = IF srv[c] = "none" THEN @ ELSE "closed"]]
    /\ timer' = (timer \/ sock[socketRef].state # "closed")
    /\ missed' = missed \cup Ends(socketRef, OnWire(socketRef))
    /\ PageUnchanged
    /\ UNCHANGED <<workVars, requestVars, mine, heard>>

\* The network drops the connection; the server learns of it later.
Drop(c) ==
    /\ sock[c].state \in {"connecting", "open"}
    /\ Spend("faults")
    /\ Lose(c, sock[c].state)
    /\ PageUnchanged
    /\ UNCHANGED <<workVars, srv, place, requestVars, mine, heard>>

ServerStep(c) ==
    \/ Accept(c) \/ Replay(c) \/ Register(c) \/ Subscribe(c) \/ Disconnect(c)

ServerFault(c) == Refuse(c) \/ SubscriptionBreaks(c) \/ Drop(c)

------------------------------------------------------------------------------
(* The hook. *)

\* The page's effects have run for the thread it shows.  React runs them
\* before it handles what the user does next, not before it handles a message
\* or an answer.
EffectsRun == Thread(socketRef) = threadId

\* Mutant: the socket there was is not closed.
ConnectBeside(t) ==
    /\ timer' = FALSE
    /\ socketRef' = socketRef + 1
    /\ sock' = [sock EXCEPT ![socketRef + 1] = [thread |-> t, state |-> "connecting"]]
    /\ srv' = [srv EXCEPT ![socketRef + 1] = "asked"]
    /\ UNCHANGED <<wire, missed>>

\* Mutant: the timer that has fired stays set.
ConnectAgain(t) ==
    /\ UNCHANGED timer
    /\ socketRef' = socketRef + 1
    /\ sock' = [sock EXCEPT ![socketRef].state = "closed",
                            ![socketRef + 1] = [thread |-> t, state |-> "connecting"]]
    /\ srv' = [srv EXCEPT ![socketRef + 1] = "asked"]
    /\ wire' = [wire EXCEPT ![socketRef] = <<>>]
    /\ missed' = missed \cup Ends(socketRef, OnWire(socketRef))

\* connect: what the socket before it had yet to deliver is dropped.
Connect(t) ==
    /\ timer' = FALSE
    /\ socketRef' = socketRef + 1
    /\ sock' = [sock EXCEPT ![socketRef].state = "closed",
                            ![socketRef + 1] = [thread |-> t, state |-> "connecting"]]
    /\ srv' = [srv EXCEPT ![socketRef + 1] = "asked"]
    /\ wire' = [wire EXCEPT ![socketRef] = <<>>]
    /\ missed' = missed \cup Ends(socketRef, OnWire(socketRef))

\* The effect's clean-up and the effect itself, after threadId has changed.
RunEffect ==
    /\ ~EffectsRun
    /\ Connect(threadId)
    /\ UNCHANGED <<workVars, place, threadId, events, isRunning, isViewingHistory,
                   requestVars, mine, heard, left>>

ReconnectTimer ==
    /\ timer
    /\ EffectsRun
    /\ Connect(threadId)
    /\ UNCHANGED <<workVars, place, threadId, events, isRunning, isViewingHistory,
                   requestVars, mine, heard, left>>

\* Mutant: an error is shown and the page goes on waiting.
StopsUnlessError(e) == e.kind \in FinalKinds \ {"error"}

Stops(e) == IsFinal(e)

Shown(e) == IF Len(e) > MaxShown THEN SubSeq(e, Len(e) - MaxShown + 1, Len(e)) ELSE e

\* onmessage of the current socket.
Receive(c) ==
    LET m == Head(wire[c])
        e == Event(c, m)
        live == m.type = "monitor_event"
    IN  /\ c = socketRef
        /\ sock[c].state = "open"
        /\ wire[c] # <<>>
        /\ wire' = [wire EXCEPT ![c] = Tail(@)]
        /\ events' = IF live THEN Shown(Append(events, [thread |-> Thread(c), n |-> m.n]))
                     ELSE events
        /\ isRunning' = (isRunning /\ ~(live /\ Stops(e)))
        /\ heard' = IF live /\ IsFinal(e)
                    THEN heard \cup {[thread |-> Thread(c), n |-> m.n]} ELSE heard
        /\ UNCHANGED <<workVars, srv, place, threadId, socketRef, sock, timer,
                       isViewingHistory, requestVars, mine, missed, left>>

\* handleSubmit, with clearHistoryView, and submitTask up to its await.  The
\* button is there while nothing runs.
Submit(r) ==
    /\ EffectsRun
    /\ ~isRunning
    /\ Spend("runs")
    /\ start[r].state = "none"
    /\ \A s \in 1 .. r - 1 : start[s].state # "none"
    /\ start' = [start EXCEPT ![r] = [thread |-> threadId, state |-> "asked"]]
    /\ isRunning' = TRUE
    /\ events' = <<>>
    /\ isViewingHistory' = FALSE
    /\ mine' = r
    /\ UNCHANGED <<workVars, netVars, threadId, socketRef, sock, timer, cancel, load,
                   heard, missed>>

\* run_task has accepted the submission; the run may begin at once, and an
\* answer that says so changes nothing: it names the thread the page has.
Accepted(r) ==
    /\ start[r].state = "asked"
    /\ start' = [start EXCEPT ![r].state = "accepted"]
    /\ alive' = alive \cup {r}
    /\ UNCHANGED <<log, unsent, netVars, pageVars, cancel, load, historyVars, left>>

\* The request fails, before or after the server has accepted it.
StartFails(r) ==
    /\ start[r].state \in {"asked", "accepted"}
    /\ Spend("faults")
    /\ start' = [start EXCEPT ![r].state = "failed"]
    /\ isRunning' = FALSE
    /\ UNCHANGED <<workVars, netVars, threadId, socketRef, sock, timer, events,
                   isViewingHistory, cancel, load, historyVars>>

Cancel ==
    /\ EffectsRun
    /\ isRunning
    /\ ~cancel
    /\ cancel' = TRUE
    /\ UNCHANGED <<workVars, netVars, pageVars, start, load, historyVars, left>>

\* The answer stops the page only when it says "cancelled".  What makes the
\* server say so is part of TaskLifecycle.
CancelAnswered(cancelled) ==
    /\ cancel
    /\ cancel' = FALSE
    /\ isRunning' = (isRunning /\ ~cancelled)
    /\ UNCHANGED <<workVars, netVars, threadId, socketRef, sock, timer, events,
                   isViewingHistory, start, load, historyVars, left>>

\* resetSession, by way of exitHistoryView or not: a new thread id.
Reset(t) ==
    /\ EffectsRun
    /\ Spend("moves")
    /\ t # threadId
    /\ \A c \in 1 .. socketRef : Thread(c) # t
    /\ threadId' = t
    /\ events' = <<>>
    /\ isRunning' = FALSE
    /\ isViewingHistory' = FALSE
    /\ mine' = 0
    /\ UNCHANGED <<workVars, netVars, socketRef, sock, timer, requestVars, heard, missed>>

\* handleSelectSession and loadHistoricalSession: the detail is asked for,
\* read, and shown.  A session is asked for unless it is the one being viewed,
\* while others may be on their way; the bound is on those shown.
AskSession(t) ==
    /\ EffectsRun
    /\ ~(isViewingHistory /\ threadId = t)
    /\ \E c \in 1 .. socketRef : Thread(c) = t
    /\ Cardinality(load) < left.moves
    /\ load' = load \cup {[thread |-> t, read |-> FALSE, running |-> FALSE]}
    /\ UNCHANGED <<workVars, netVars, pageVars, start, cancel, historyVars, left>>

\* Whether the row says "running": run_task has set it to queued, the worker
\* or the agent to running, and its last value comes after the run's events,
\* or never, so that it may differ from what is under way either way.
ReadSession(l, running) ==
    /\ l \in load
    /\ ~l.read
    /\ load' = (load \ {l}) \cup {[l EXCEPT !.read = TRUE, !.running = running]}
    /\ UNCHANGED <<workVars, netVars, pageVars, start, cancel, historyVars, left>>

ShowSession(l) ==
    /\ l \in load
    /\ l.read
    /\ Spend("moves")
    /\ load' = load \ {l}
    /\ threadId' = l.thread
    /\ events' = <<>>
    /\ isViewingHistory' = TRUE
    /\ isRunning' = l.running
    /\ mine' = Latest(l.thread)
    /\ missed' = IF mine' # 0 /\ Heard(mine') THEN missed \cup {mine'} ELSE missed
    /\ UNCHANGED <<workVars, netVars, socketRef, sock, timer, start, cancel, heard>>

UserStep ==
    \/ \E r \in Runs : Submit(r)
    \/ Cancel
    \/ \E t \in Threads : Reset(t) \/ AskSession(t)

RequestStep ==
    \/ \E r \in Runs : Accepted(r) \/ StartFails(r)
    \/ \E cancelled \in BOOLEAN : CancelAnswered(cancelled)
    \/ \E l \in load : ShowSession(l) \/ \E running \in BOOLEAN : ReadSession(l, running)

WorkerStep ==
    \/ \E r \in Runs : RunEnds(r) \/ EndsSilently(r) \/ \E k \in Reported : CacheEvent(r, k)
    \/ \E t \in Threads : \E n \in unsent[t] : PublishEvent(t, n)

\* What the event loops of the API process and of the page do by themselves;
\* the network, the worker, the user and the HTTP calls owe nothing.
Driven ==
    \/ \E c \in Sockets : ServerStep(c) \/ Receive(c)
    \/ RunEffect
    \/ ReconnectTimer

Next ==
    \/ WorkerStep
    \/ Driven
    \/ \E c \in Sockets : ServerFault(c)
    \/ Restart
    \/ UserStep
    \/ RequestStep

Spec == Init /\ [][Next]_vars

FairSpec == Spec /\ WF_vars(Driven)

------------------------------------------------------------------------------
(* Properties. *)

TypeOK ==
    /\ \A t \in Threads :
         /\ \A i \in DOMAIN log[t] : log[t][i].run \in Runs /\ log[t][i].kind \in Kinds
         /\ unsent[t] \subseteq DOMAIN log[t]
    /\ alive \subseteq Runs
    /\ srv \in [Sockets -> {"none", "asked", "accepted", "replayed", "registered",
                            "subscribed", "over"}]
    /\ place \in [Threads -> {0} \cup Sockets]
    /\ \A c \in Sockets : \A m \in OnWire(c) :
         m.type \in {"replay", "monitor_event"} /\ m.n \in DOMAIN log[Thread(c)]
    /\ threadId \in Threads /\ socketRef \in Sockets
    /\ sock \in [Sockets -> [thread : Threads,
                             state : {"none", "connecting", "open", "closed"}]]
    /\ {timer, isRunning, isViewingHistory, cancel} \subseteq BOOLEAN
    /\ Len(events) <= MaxShown
    /\ start \in [Runs -> [thread : Threads,
                           state : {"none", "asked", "accepted", "failed"}]]
    /\ load \subseteq [thread : Threads, read : BOOLEAN, running : BOOLEAN]
    /\ mine \in {0} \cup Runs
    /\ \A e \in heard : e.thread \in Threads /\ e.n \in DOMAIN log[e.thread]
    /\ missed \subseteq Runs

\* No event is shown twice, whatever was replayed and however often the socket
\* was replaced while it was being published.
NoEventTwice ==
    \A i, j \in DOMAIN events : events[i] = events[j] => i = j

\* The page has one socket that is not closed, the current one, and a timer
\* only while that one is closed: reconnecting never ends in two sockets.
OneSocket ==
    /\ \A c \in Sockets : sock[c].state \in {"connecting", "open"} => c = socketRef
    /\ timer => sock[socketRef].state = "closed"

\* One end stops the page once: a wait is never ended by a final event that
\* the page has handled before, in an earlier wait or over an earlier socket.
EndStopsOnce ==
    [][\A c \in Sockets :
         (isRunning /\ ~isRunning' /\ wire[c] # <<>> /\ wire'[c] = Tail(wire[c]))
         => [thread |-> Thread(c), n |-> Head(wire[c]).n] \notin heard]_vars

\* A page goes on waiting for a run that is over only when the run reported no
\* end or one of its ends did not reach the page while it waited: while the
\* page has a subscribed socket, every end reported is handled and stops it.
\* A page that found "running" in the row with no run under way waits for none.
StuckOnlyIfMissed ==
    LET t == threadId
        over == /\ mine \in Runs \ alive
                /\ start[mine].state # "asked"
                /\ \A n \in unsent[t] : log[t][n].run # mine
                /\ mine \notin Ends(socketRef, OnWire(socketRef))
    IN  (isRunning /\ over) => mine \in missed

\* A connection in the table is not taken off it by the end of another: it
\* leaves by its own end, by a restart, or for one that registers.
NewerKeepsPlace ==
    [][\A t \in Threads : LET c == place[t] IN
         (c # 0 /\ place'[t] # c) => \/ srv'[c] = "over"
                                     \/ place'[t] # 0 /\ srv'[place'[t]] = "registered"]_vars

\* A connection that is over has no place in the table.
NoDeadPlace ==
    \A t \in Threads : place[t] # 0 => srv[place[t]] \in {"registered", "subscribed"}

\* The page has an open, subscribed socket for the thread it shows.
Connected ==
    /\ srv[socketRef] = "subscribed"
    /\ sock[socketRef].state = "open"
    /\ Thread(socketRef) = threadId

\* Once faults and moves are over the page has a subscribed socket for the
\* thread it shows, and keeps it: every way to lose one ends in a timer.
Reconnects == <>[]Connected

\* README: a socket that reconnects is sent what was missed.  The page shows
\* what is replayed to it.
ReplayIsShown ==
    [][\A c \in Sockets :
         (/\ c = socketRef
          /\ c > 1 /\ Thread(c - 1) = Thread(c)
          /\ wire[c] # <<>> /\ wire'[c] = Tail(wire[c])
          /\ Head(wire[c]).n \notin unsent[Thread(c)]
          /\ sock'[c].state = "open")
         => [thread |-> Thread(c), n |-> Head(wire[c]).n]
              \in {events'[i] : i \in DOMAIN events'}]_vars
=============================================================================
