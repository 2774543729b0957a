------------------------ MODULE EventDeliveryProofs ------------------------
(***************************************************************************)
(* Theorems about EventDelivery, for any threads, list length, number of   *)
(* events shown and reported, and budgets that have a largest sum and a    *)
(* largest number of runs.                                                 *)
(***************************************************************************)
EXTENDS EventDelivery, WellFoundedInduction, TLAPS

SockStates == {"none", "connecting", "open", "closed"}

ServerStates == {"none", "asked", "accepted", "replayed", "registered", "subscribed", "over"}

Most == Largest({b.moves + b.faults : b \in Budgets})

\* What will open another socket: the timer, an effect yet to run.
One(p) == IF p THEN 1 ELSE 0
Owed == One(timer) + One(~EffectsRun)

\* The page never has more sockets than moves and faults account for.
Room ==
    /\ left \in [runs : Nat, moves : Nat, faults : Nat, events : Nat]
    /\ socketRef + Owed + left.moves + left.faults <= 1 + Most

LoadTyped == load \subseteq [thread : Threads, read : BOOLEAN, running : BOOLEAN]

SocketTyped ==
    /\ socketRef \in Sockets
    /\ threadId \in Threads
    /\ timer \in BOOLEAN
    /\ sock \in [Sockets -> [thread : Threads, state : SockStates]]
    /\ LoadTyped

SocketInv == SocketTyped /\ Room /\ OneSocket

\* A connection's place is that of its thread, and the sockets made so far
\* are those that have a connection.
PlaceInv ==
    /\ srv \in [Sockets -> ServerStates]
    /\ place \in [Threads -> {0} \cup Sockets]
    /\ \A c \in Sockets : srv[c] = "none" <=> c > socketRef
    /\ \A t \in Threads : place[t] # 0 => Thread(place[t]) = t
    /\ NoDeadPlace

\* The events of a thread whose PUBLISH is over.
Sent == [t \in Threads |-> (1 .. Len(log[t])) \ unsent[t]]

LogTyped ==
    /\ log \in [Threads -> Seq([run : Runs, kind : Kinds])]
    /\ unsent \in [Threads -> SUBSET Nat]
    /\ \A t \in Threads : unsent[t] \subseteq 1 .. Len(log[t])
    /\ start \in [Runs -> [thread : Threads, state : {"none", "asked", "accepted", "failed"}]]

Messages == [type : {"replay", "monitor_event"}, n : Nat]

Live(m) == m.type = "monitor_event"

\* Messages are on their way to an open socket only; a live one is of an event
\* that was published, that no other live one is of and that is not shown.
WireFresh ==
    /\ wire \in [Sockets -> Seq(Messages)]
    /\ \A c \in Sockets : wire[c] # <<>> => sock[c].state = "open"
    /\ \A c \in Sockets : \A i \in 1 .. Len(wire[c]) : Live(wire[c][i]) =>
         /\ wire[c][i].n \in Sent[Thread(c)]
         /\ \A k \in 1 .. Len(events) : events[k] # [thread |-> Thread(c), n |-> wire[c][i].n]
         /\ \A j \in 1 .. Len(wire[c]) :
              Live(wire[c][j]) /\ wire[c][j].n = wire[c][i].n => i = j

\* What is shown was published, and is shown once.
ShownOnce ==
    /\ events \in Seq([thread : Threads, n : Nat])
    /\ \A k \in 1 .. Len(events) : events[k].n \in Sent[events[k].thread]
    /\ NoEventTwice

DeliveryInv == SocketInv /\ PlaceInv /\ LogTyped /\ WireFresh /\ ShownOnce

------------------------------------------------------------------------------
\* The largest sum of a budget is one, and no budget exceeds it.
LEMMA MostIsBound ==
    /\ Most \in Nat
    /\ \A b \in Budgets : b.moves + b.faults <= Most
    /\ Sockets = 1 .. (1 + Most)
<1> DEFINE S == {b.moves + b.faults : b \in Budgets}
<1>1. PICK b \in Budgets : \A a \in Budgets : a.moves + a.faults <= b.moves + b.faults
  BY DeliveryAssumption
<1>2. b.moves + b.faults \in S /\ \A m \in S : m <= b.moves + b.faults
  BY <1>1
<1>3. Largest(S) \in S /\ \A m \in S : m <= Largest(S)
  <2> HIDE DEF S
  <2> QED
    BY <1>2 DEF Largest
<1>4. S \subseteq Nat
  BY DeliveryAssumption
<1> QED
  BY <1>3, <1>4 DEF Most, Sockets

\* Spending takes one from one of the three.
LEMMA SpendOne ==
    ASSUME left \in [runs : Nat, moves : Nat, faults : Nat, events : Nat],
           NEW what \in {"runs", "moves", "faults", "events"}, Spend(what)
    PROVE  /\ left' \in [runs : Nat, moves : Nat, faults : Nat, events : Nat]
           /\ what \in {"runs", "events"} => left'.moves = left.moves /\ left'.faults = left.faults
           /\ what = "moves" => left'.moves = left.moves - 1 /\ left'.faults = left.faults
           /\ what = "faults" => left'.moves = left.moves /\ left'.faults = left.faults - 1
<1>1. CASE what \in {"runs", "events"}
  BY <1>1 DEF Spend
<1>2. CASE what = "moves"
  BY <1>2 DEF Spend
<1>3. CASE what = "faults"
  BY <1>3 DEF Spend
<1> QED
  BY <1>1, <1>2, <1>3

\* The invariant holds initially.
LEMMA InvInit == Init => DeliveryInv
<1> SUFFICES ASSUME Init PROVE DeliveryInv
  OBVIOUS
<1>0. First \in Threads /\ Budgets \subseteq [runs : Nat \ {0}, moves : Nat, faults : Nat, events : Nat]
  BY DeliveryAssumption
<1>1. left \in [runs : Nat, moves : Nat, faults : Nat, events : Nat] /\ left.moves + left.faults <= Most
  BY <1>0, MostIsBound DEF Init
<1>2. SocketTyped
  <2>1. LoadTyped
    BY DEF Init, LoadTyped
  <2>2. sock \in [Sockets -> [thread : Threads, state : SockStates]]
    BY <1>0 DEF Init, SockStates
  <2>3. socketRef = 1 /\ threadId = First /\ timer = FALSE
    BY DEF Init
  <2>4. 1 \in Sockets
    BY MostIsBound
  <2> QED
    BY <1>0, <2>1, <2>2, <2>3, <2>4 DEF SocketTyped
<1>3. Owed = 0
  BY <1>2 DEF Init, Owed, One, EffectsRun, Thread, SocketTyped
<1>4. Room
  BY <1>1, <1>3, MostIsBound DEF Init, Room
<1>5. OneSocket
  BY DEF Init, OneSocket
<1>6. PlaceInv
  BY MostIsBound DEF Init, PlaceInv, NoDeadPlace, ServerStates
<1>7. LogTyped
  BY <1>0 DEF Init, LogTyped
<1>8. WireFresh
  BY DEF Init, WireFresh
<1>9. ShownOnce
  BY DEF Init, ShownOnce, NoEventTwice
<1> QED
  BY <1>2, <1>4, <1>5, <1>6, <1>7, <1>8, <1>9 DEF DeliveryInv, SocketInv
------------------------------------------------------------------------------
(* The page's sockets. *)

\* What one term of Owed can be.
LEMMA OneBounds == ASSUME NEW p \in BOOLEAN PROVE One(p) \in {0, 1}
BY DEF One

\* What the sum is made of are numbers.
LEMMA OwedTyped ==
    ASSUME SocketTyped
    PROVE  /\ Owed \in Nat /\ Owed <= 2
           /\ socketRef \in Nat
BY MostIsBound DEF SocketTyped, Owed, One

\* Most steps leave the sockets alone.
LEMMA SocketsAlone ==
    ASSUME SocketInv, UNCHANGED <<threadId, socketRef, sock, timer, load>>,
           UNCHANGED left \/ \E what \in {"runs", "moves", "faults", "events"} : Spend(what)
    PROVE  SocketInv'
<1> USE DEF SocketInv
<1>1. SocketTyped' /\ OneSocket' /\ Owed' = Owed
  BY DEF SocketTyped, LoadTyped, OneSocket, Owed, One, EffectsRun, Thread
<1>2. Room'
  <2>1. left' \in [runs : Nat, moves : Nat, faults : Nat, events : Nat]
        /\ left'.moves + left'.faults <= left.moves + left.faults
    BY SpendOne DEF Room
  <2> QED
    BY <1>1, <2>1, OwedTyped, MostIsBound, SMTT(60) DEF Room
<1> QED
  BY <1>1, <1>2

\* A socket that changes its state only, to "open" from "connecting" or to
\* "closed", is no other socket.
LEMMA StateOnly ==
    ASSUME SocketTyped, NEW c \in Sockets, NEW q \in SockStates,
           sock' = [sock EXCEPT ![c].state = q], socketRef' = socketRef,
           threadId' = threadId
    PROVE  /\ sock' \in [Sockets -> [thread : Threads, state : SockStates]]
           /\ \A d \in Sockets : /\ sock'[d].thread = sock[d].thread
                                 /\ sock'[d].state = IF d = c THEN q ELSE sock[d].state
           /\ EffectsRun' <=> EffectsRun
<1>1. sock' = [sock EXCEPT ![c] = [sock[c] EXCEPT !.state = q]]
  OBVIOUS
<1>2. sock[c] \in [thread : Threads, state : SockStates]
  BY DEF SocketTyped
<1>3. [sock[c] EXCEPT !.state = q] \in [thread : Threads, state : SockStates]
  BY <1>2
<1>4. sock' \in [Sockets -> [thread : Threads, state : SockStates]]
  BY <1>1, <1>3 DEF SocketTyped
<1>5. \A d \in Sockets : /\ sock'[d].thread = sock[d].thread
                         /\ sock'[d].state = IF d = c THEN q ELSE sock[d].state
  BY <1>1, <1>2 DEF SocketTyped
<1> QED
  BY <1>4, <1>5 DEF SocketTyped, EffectsRun, Thread

\* The handshake ends.
LEMMA SocketsAccept ==
    ASSUME SocketInv, NEW c \in Sockets, Accept(c)
    PROVE  SocketInv'
<1> USE DEF SocketInv
<1> DEFINE q == IF sock[c].state = "connecting" THEN "open" ELSE sock[c].state
<1>1. sock' = [sock EXCEPT ![c].state = q]
  BY DEF Accept
<1>2. UNCHANGED <<threadId, socketRef, timer, load, left>>
  BY DEF Accept, requestVars
<1>3. q \in SockStates
  BY DEF SocketTyped, SockStates
<1> HIDE DEF q
<1>4. /\ sock' \in [Sockets -> [thread : Threads, state : SockStates]]
      /\ \A d \in Sockets : sock'[d].state = IF d = c THEN q ELSE sock[d].state
      /\ EffectsRun' <=> EffectsRun
  BY <1>1, <1>2, <1>3, StateOnly
<1>5. SocketTyped'
  BY <1>2, <1>4 DEF SocketTyped, LoadTyped
<1>6. Room'
  BY <1>2, <1>4 DEF Room, Owed, One
<1>7. OneSocket'
  BY <1>2, <1>4 DEF OneSocket, SocketTyped, q
<1> QED
  BY <1>5, <1>6, <1>7

\* A socket closes: if it was the page's, the timer is set, and a fault pays.
LEMMA SocketsLose ==
    ASSUME SocketInv, NEW c \in Sockets, Lose(c, sock[c].state), Spend("faults"),
           UNCHANGED <<threadId, socketRef, load>>
    PROVE  SocketInv'
<1> USE DEF SocketInv
<1>1. sock' = [sock EXCEPT ![c].state = "closed"]
      /\ timer' = (timer \/ (c = socketRef /\ sock[c].state # "closed"))
  BY DEF Lose
<1>2. /\ sock' \in [Sockets -> [thread : Threads, state : SockStates]]
      /\ \A d \in Sockets : sock'[d].state = IF d = c THEN "closed" ELSE sock[d].state
      /\ EffectsRun' <=> EffectsRun
  BY <1>1, StateOnly DEF SockStates
<1>3. SocketTyped'
  BY <1>1, <1>2 DEF SocketTyped, LoadTyped
<1>4. Room'
  <2>1. /\ left' \in [runs : Nat, moves : Nat, faults : Nat, events : Nat]
        /\ left'.moves = left.moves /\ left'.faults = left.faults - 1
    BY SpendOne DEF Room
  <2>2. Owed' <= Owed + 1
    BY <1>2, <1>3 DEF Owed, One, SocketTyped, LoadTyped
  <2> QED
    BY <1>3, <2>1, <2>2, OwedTyped, MostIsBound DEF Room, SocketTyped, Owed, One
<1>5. OneSocket'
  BY <1>1, <1>2 DEF OneSocket, SocketTyped
<1> QED
  BY <1>3, <1>4, <1>5

\* A restart closes every socket.
LEMMA SocketsRestart ==
    ASSUME SocketInv, PlaceInv, Restart
    PROVE  SocketInv'
<1> USE DEF SocketInv
<1>1. UNCHANGED <<threadId, socketRef, load>>
  BY DEF Restart, PageUnchanged, requestVars
<1>2. /\ sock' \in [Sockets -> [thread : Threads, state : SockStates]]
      /\ \A d \in Sockets : /\ sock'[d].thread = sock[d].thread
                            /\ sock'[d].state = IF srv[d] = "none" THEN sock[d].state
                                                ELSE "closed"
  BY DEF Restart, SocketTyped, SockStates
<1>3. timer' = (timer \/ sock[socketRef].state # "closed")
  BY DEF Restart
<1>4. EffectsRun' <=> EffectsRun
  BY <1>1, <1>2 DEF EffectsRun, Thread, SocketTyped
<1>5. SocketTyped'
  BY <1>1, <1>2, <1>3 DEF SocketTyped, LoadTyped
<1>6. Room'
  <2>1. /\ left' \in [runs : Nat, moves : Nat, faults : Nat, events : Nat]
        /\ left'.moves = left.moves /\ left'.faults = left.faults - 1
    BY SpendOne DEF Room, Restart
  <2>2. Owed' <= Owed + 1
    BY <1>1, <1>4, <1>5 DEF Owed, One, SocketTyped, LoadTyped
  <2> QED
    BY <1>1, <1>5, <2>1, <2>2, OwedTyped, MostIsBound DEF Room, SocketTyped, Owed, One
<1>7. OneSocket'
  <2>1. srv[socketRef] # "none"
    BY OwedTyped DEF PlaceInv, SocketTyped
  <2> QED
    BY <1>1, <1>2, <2>1 DEF OneSocket, SocketTyped
<1> QED
  BY <1>5, <1>6, <1>7
\* Another socket opens where one was owed.
LEMMA SocketsConnect ==
    ASSUME SocketInv, RunEffect \/ ReconnectTimer
    PROVE  /\ SocketInv'
           /\ socketRef' = socketRef + 1 /\ socketRef' \in Sockets
           /\ threadId' = threadId
           /\ \A d \in Sockets :
                sock'[d] = IF d = socketRef'
                           THEN [thread |-> threadId, state |-> "connecting"]
                           ELSE IF d = socketRef
                                THEN [thread |-> sock[d].thread, state |-> "closed"]
                                ELSE sock[d]
<1> USE DEF SocketInv
<1>1. Connect(threadId) /\ UNCHANGED <<threadId, load, left>>
  BY DEF RunEffect, ReconnectTimer, requestVars
<1>2. timer' = FALSE /\ socketRef' = socketRef + 1
  BY <1>1 DEF Connect
<1>3. Owed >= 1
  BY DEF RunEffect, ReconnectTimer, Owed, One, SocketTyped
<1>4. socketRef' \in Sockets
  BY <1>2, <1>3, OwedTyped, MostIsBound DEF Room
<1>5. sock[socketRef] \in [thread : Threads, state : SockStates]
  BY DEF SocketTyped
<1>6. sock' = [sock EXCEPT ![socketRef] = [thread |-> sock[socketRef].thread, state |-> "closed"],
                           ![socketRef + 1] = [thread |-> threadId, state |-> "connecting"]]
  <2>1. [sock[socketRef] EXCEPT !.state = "closed"]
        = [thread |-> sock[socketRef].thread, state |-> "closed"]
    BY <1>5
  <2>2. sock' = [sock EXCEPT ![socketRef].state = "closed",
                             ![socketRef + 1] = [thread |-> threadId, state |-> "connecting"]]
    BY <1>1 DEF Connect
  <2> QED
    BY <2>1, <2>2
<1>7. \A d \in Sockets :
        sock'[d] = IF d = socketRef'
                   THEN [thread |-> threadId, state |-> "connecting"]
                   ELSE IF d = socketRef
                        THEN [thread |-> sock[d].thread, state |-> "closed"]
                        ELSE sock[d]
  BY <1>2, <1>6, OwedTyped DEF SocketTyped
<1>8. SocketTyped'
  <2>1. sock' \in [Sockets -> [thread : Threads, state : SockStates]]
    BY <1>5, <1>6 DEF SocketTyped, SockStates
  <2> QED
    BY <1>1, <1>2, <1>4, <2>1 DEF SocketTyped, LoadTyped
<1>9. Room'
  <2>1. EffectsRun'
    <3>1. sock'[socketRef'] = [thread |-> threadId, state |-> "connecting"]
      BY <1>4, <1>7
    <3>2. sock'[socketRef'].thread = threadId'
      BY <1>1, <3>1
    <3> QED
      BY <3>2 DEF EffectsRun, Thread
  <2>2. Owed' = 0
    BY <1>2, <2>1 DEF Owed, One
  <2> QED
    BY <1>1, <1>2, <1>3, <2>2, OwedTyped, MostIsBound, SMTT(60) DEF Room
<1>10. OneSocket'
  <2>1. ASSUME NEW d \in Sockets, d # socketRef', sock'[d].state \in {"connecting", "open"}
        PROVE  FALSE
    <3>1. CASE d = socketRef
      <4>1. sock'[d] = [thread |-> sock[d].thread, state |-> "closed"]
        BY <1>7, <2>1, <3>1
      <4> QED
        BY <2>1, <4>1
    <3>2. CASE d # socketRef
      <4>1. sock'[d] = sock[d]
        BY <1>7, <2>1, <3>2
      <4> QED
        BY <2>1, <3>2, <4>1 DEF OneSocket
    <3> QED
      BY <3>1, <3>2
  <2> QED
    BY <1>2, <2>1 DEF OneSocket
<1> QED
  BY <1>1, <1>2, <1>4, <1>7, <1>8, <1>9, <1>10

\* Moving to another thread owes a socket and pays for it.
LEMMA SocketsMove ==
    ASSUME SocketInv,
           \/ \E t \in Threads : Reset(t)
           \/ \E l \in load : ShowSession(l)
    PROVE  SocketInv'
<1> USE DEF SocketInv
<1>1. /\ UNCHANGED <<socketRef, sock, timer>> /\ threadId' \in Threads
      /\ load' \subseteq load /\ Spend("moves")
  BY DEF ShowSession, Reset, requestVars, SocketTyped, LoadTyped
<1>2. OneSocket'
  BY <1>1 DEF OneSocket
<1>3. SocketTyped'
  BY <1>1 DEF SocketTyped, LoadTyped
<1>4. Owed' <= Owed + 1
  BY <1>1 DEF Owed, One, SocketTyped
<1> QED
  BY <1>1, <1>2, <1>3, <1>4, SpendOne, OwedTyped, MostIsBound, SMTT(60) DEF Room, Owed, One

\* A session asked for or read leaves the sockets alone.
LEMMA SocketsAsk ==
    ASSUME SocketInv,
           \/ \E t \in Threads : AskSession(t)
           \/ \E l \in load : \E q \in BOOLEAN : ReadSession(l, q)
    PROVE  SocketInv'
<1> USE DEF SocketInv
<1>1. UNCHANGED <<threadId, socketRef, sock, timer, left>>
  BY DEF AskSession, ReadSession, pageVars
<1>2. LoadTyped'
  <2>1. ASSUME NEW t \in Threads, AskSession(t) PROVE LoadTyped'
    <3>1. [thread |-> t, read |-> FALSE, running |-> FALSE]
             \in [thread : Threads, read : BOOLEAN, running : BOOLEAN]
      OBVIOUS
    <3> QED
      BY <2>1, <3>1 DEF AskSession, SocketTyped, LoadTyped
  <2>2. ASSUME NEW l \in load, NEW q \in BOOLEAN, ReadSession(l, q) PROVE LoadTyped'
    <3>1. l \in [thread : Threads, read : BOOLEAN, running : BOOLEAN]
      BY DEF SocketTyped, LoadTyped
    <3>2. [l EXCEPT !.read = TRUE, !.running = q]
             \in [thread : Threads, read : BOOLEAN, running : BOOLEAN]
      BY <3>1
    <3> QED
      BY <2>2, <3>2 DEF ReadSession, SocketTyped, LoadTyped
  <2> QED
    BY <2>1, <2>2
<1>3. SocketTyped' /\ OneSocket'
  BY <1>1, <1>2 DEF SocketTyped, OneSocket
<1>4. Owed' = Owed
  BY <1>1 DEF Owed, EffectsRun, Thread
<1> QED
  BY <1>1, <1>3, <1>4 DEF Room

------------------------------------------------------------------------------
(* The table of connections. *)

\* Every socket stays that of its thread.
ThreadsKept == \A d \in Sockets : Thread(d)' = Thread(d)

\* A step that leaves srv and the table alone.
LEMMA PlaceAlone ==
    ASSUME PlaceInv, UNCHANGED <<srv, place, socketRef>>, ThreadsKept
    PROVE  PlaceInv'
BY DEF PlaceInv, NoDeadPlace, ThreadsKept

\* A connection goes on in its endpoint without leaving the table's states.
LEMMA PlaceGoesOn ==
    ASSUME PlaceInv, NEW c \in Sockets, NEW q \in ServerStates \ {"none"},
           srv[c] # "none",
           Looping(c) => q \in {"registered", "subscribed"},
           srv' = [srv EXCEPT ![c] = q],
           UNCHANGED <<place, socketRef>>, ThreadsKept
    PROVE  PlaceInv'
BY DEF PlaceInv, NoDeadPlace, ThreadsKept, Looping

\* It registers.
LEMMA PlaceRegisters ==
    ASSUME PlaceInv, SocketTyped, NEW c \in Sockets, Register(c)
    PROVE  PlaceInv'
<1>1. Thread(c) \in Threads /\ c # 0
  BY MostIsBound DEF SocketTyped, Thread
<1>2. ThreadsKept /\ socketRef' = socketRef
  BY DEF Register, pageVars, ThreadsKept, Thread
<1>3. srv' = [srv EXCEPT ![c] = "registered"] /\ place' = [place EXCEPT ![Thread(c)] = c]
  BY DEF Register
<1> QED
  BY <1>1, <1>2, <1>3 DEF Register, PlaceInv, NoDeadPlace, ThreadsKept, ServerStates

\* It is over, and leaves the table if it had a place.
LEMMA PlaceLeaves ==
    ASSUME PlaceInv, SocketTyped, NEW c \in Sockets, srv[c] # "none",
           srv' = [srv EXCEPT ![c] = "over"],
           place' = Leaves(c) \/ (place' = place /\ ~Looping(c)),
           socketRef' = socketRef, ThreadsKept
    PROVE  PlaceInv'
<1>1. Thread(c) \in Threads /\ 0 \notin Sockets
  BY MostIsBound DEF SocketTyped, Thread
<1>2. CASE place' = place /\ ~Looping(c)
  BY <1>2 DEF PlaceInv, NoDeadPlace, ThreadsKept, Looping, ServerStates
<1>3. CASE place' = Leaves(c)
  <2>1. place' = [place EXCEPT ![Thread(c)] =
                    IF place[Thread(c)] = c THEN 0 ELSE place[Thread(c)]]
    BY <1>3 DEF Leaves
  <2>2. \A t \in Threads : place'[t] \in {0, place[t]} /\ place'[t] # c
    BY <1>1, <2>1 DEF PlaceInv
  <2>3. place' \in [Threads -> {0} \cup Sockets]
    BY <2>1 DEF PlaceInv
  <2> QED
    BY <1>1, <2>2, <2>3 DEF PlaceInv, NoDeadPlace, ThreadsKept, ServerStates
<1> QED
  BY <1>2, <1>3

\* A socket that changes its state only is still its thread's.
LEMMA LoseKeepsThreads ==
    ASSUME SocketTyped, NEW c \in Sockets, NEW q \in SockStates,
           sock' = [sock EXCEPT ![c].state = q]
    PROVE  ThreadsKept
<1>1. sock' = [sock EXCEPT ![c] = [sock[c] EXCEPT !.state = q]]
  OBVIOUS
<1> QED
  BY <1>1 DEF SocketTyped, ThreadsKept, Thread

\* All the steps of the server's end of a connection.
LEMMA PlaceServer ==
    ASSUME PlaceInv, SocketTyped, NEW c \in Sockets, ServerStep(c) \/ ServerFault(c)
    PROVE  PlaceInv'
<1>1. CASE Accept(c)
  <2>1. ThreadsKept
    <3> DEFINE q == IF sock[c].state = "connecting" THEN "open" ELSE sock[c].state
    <3>1. sock' = [sock EXCEPT ![c].state = q]
      BY <1>1 DEF Accept
    <3>2. q \in SockStates
      BY DEF SocketTyped, SockStates
    <3> HIDE DEF q
    <3> QED
      BY <3>1, <3>2, LoseKeepsThreads
  <2> QED
    BY <1>1, <2>1, PlaceGoesOn DEF Accept, ServerStates, Looping
<1>2. CASE Replay(c)
  BY <1>2, PlaceGoesOn DEF Replay, ServerStates, Looping, pageVars, ThreadsKept, Thread
<1>3. CASE Register(c)
  BY <1>3, PlaceRegisters
<1>4. CASE Subscribe(c)
  BY <1>4, PlaceGoesOn DEF Subscribe, ServerStates, Looping, pageVars, ThreadsKept, Thread
<1>5. CASE Disconnect(c)
  BY <1>5, PlaceLeaves DEF Disconnect, Looping, pageVars, ThreadsKept, Thread
<1>6. ASSUME Lose(c, sock[c].state) PROVE ThreadsKept
  BY <1>6, LoseKeepsThreads DEF Lose, SockStates
<1>7. CASE Refuse(c)
  BY <1>6, <1>7, PlaceLeaves DEF Refuse, PageUnchanged, Looping
<1>8. CASE SubscriptionBreaks(c)
  BY <1>6, <1>8, PlaceLeaves DEF SubscriptionBreaks, PageUnchanged, Looping
<1>9. CASE Drop(c)
  BY <1>6, <1>9, PlaceAlone DEF Drop, PageUnchanged
<1> QED
  BY <1>1, <1>2, <1>3, <1>4, <1>5, <1>7, <1>8, <1>9 DEF ServerStep, ServerFault

\* A restart empties the table.
LEMMA PlaceRestart ==
    ASSUME PlaceInv, Restart
    PROVE  PlaceInv'
<1>1. socketRef' = socketRef
  BY DEF Restart, PageUnchanged
<1> QED
  BY <1>1 DEF Restart, PlaceInv, NoDeadPlace, ServerStates

\* A socket that opens has no place yet.
LEMMA PlaceConnect ==
    ASSUME SocketInv, PlaceInv, RunEffect \/ ReconnectTimer
    PROVE  PlaceInv'
<1>1. /\ socketRef' = socketRef + 1 /\ socketRef' \in Sockets
      /\ \A d \in Sockets :
            sock'[d] = IF d = socketRef'
                       THEN [thread |-> threadId, state |-> "connecting"]
                       ELSE IF d = socketRef
                            THEN [thread |-> sock[d].thread, state |-> "closed"]
                            ELSE sock[d]
  BY SocketsConnect
<1>2. place' = place /\ srv' = [srv EXCEPT ![socketRef'] = "asked"]
  BY <1>1 DEF RunEffect, ReconnectTimer, Connect
<1>3. \A d \in Sockets : d # socketRef' => Thread(d)' = Thread(d)
  <2> SUFFICES ASSUME NEW d \in Sockets, d # socketRef' PROVE sock'[d].thread = sock[d].thread
    BY DEF Thread
  <2>1. CASE d = socketRef
    <3>1. sock'[d] = [thread |-> sock[d].thread, state |-> "closed"]
      BY <1>1, <2>1
    <3> QED
      BY <3>1
  <2>2. CASE d # socketRef
    BY <1>1, <2>2
  <2> QED
    BY <2>1, <2>2
<1>4. srv[socketRef'] = "none"
  BY <1>1, OwedTyped DEF PlaceInv, SocketInv
<1>5. \A t \in Threads : place[t] # socketRef'
  BY <1>1, <1>4, MostIsBound DEF PlaceInv, NoDeadPlace
<1>6. \A c \in Sockets : srv'[c] = "none" <=> c > socketRef'
  BY <1>1, <1>2, OwedTyped, MostIsBound DEF PlaceInv, SocketInv
<1>7. srv' \in [Sockets -> ServerStates]
  BY <1>2 DEF PlaceInv, ServerStates
<1> QED
  BY <1>2, <1>3, <1>5, <1>6, <1>7 DEF PlaceInv, NoDeadPlace
------------------------------------------------------------------------------
(* What is on its way and what is shown. *)

\* Published events stay published.
SentKept == \A t \in Threads : Sent[t] \subseteq Sent'[t]

\* What WireFresh says of one message of one socket's, ms, and of what is
\* published for its thread, es, and shown, shown.
Fresh(ms, i, t, es, shown) ==
    /\ ms[i].n \in es
    /\ \A k \in 1 .. Len(shown) : shown[k] # [thread |-> t, n |-> ms[i].n]
    /\ \A j \in 1 .. Len(ms) : Live(ms[j]) /\ ms[j].n = ms[i].n => i = j

\* A thread's published events.
LEMMA SentIs ==
    ASSUME NEW t \in Threads
    PROVE  Sent[t] = (1 .. Len(log[t])) \ unsent[t]
BY DEF Sent

\* WireFresh by message.
LEMMA WireFreshIs ==
    WireFresh <=> /\ wire \in [Sockets -> Seq(Messages)]
                  /\ \A c \in Sockets : wire[c] # <<>> => sock[c].state = "open"
                  /\ \A c \in Sockets : \A i \in 1 .. Len(wire[c]) :
                       Live(wire[c][i]) => Fresh(wire[c], i, Thread(c), Sent[Thread(c)], events)
BY DEF WireFresh, Fresh

\* An element of a sequence over S is in S.
LEMMA ElementOf ==
    ASSUME NEW S, NEW s \in Seq(S), NEW k \in 1 .. Len(s)
    PROVE  s[k] \in S
OBVIOUS

\* Each event shown was published.
LEMMA ShownKept ==
    ASSUME ShownOnce, SentKept, events' = events \/ events' = <<>>
    PROVE  ShownOnce'
<1>1. CASE events' = <<>>
  BY <1>1 DEF ShownOnce, NoEventTwice
<1>2. CASE events' = events
  <2>1. events \in Seq([thread : Threads, n : Nat])
        /\ \A k \in 1 .. Len(events) : events[k].n \in Sent[events[k].thread]
    BY DEF ShownOnce
  <2>2. ASSUME NEW k \in 1 .. Len(events)
        PROVE  events[k].n \in Sent'[events[k].thread]
    <3>1. events[k] \in [thread : Threads, n : Nat]
      BY <2>1, ElementOf
    <3>2. events[k].thread \in Threads
      BY <3>1
    <3> QED
      BY <2>1, <3>2 DEF SentKept
  <2>3. \A k \in 1 .. Len(events') : events'[k].n \in Sent'[events'[k].thread]
    BY <1>2, <2>2
  <2> QED
    BY <1>2, <2>3 DEF ShownOnce, NoEventTwice
<1> QED
  BY <1>1, <1>2

\* Where messages are only lost, and the events only cleared, what is left is
\* as fresh as it was.
LEMMA FreshFewer ==
    ASSUME SocketTyped, WireFresh, ShownOnce, SentKept,
           wire' \in [Sockets -> Seq(Messages)],
           \A d \in Sockets : wire'[d] = wire[d] \/ wire'[d] = <<>>,
           \A d \in Sockets : wire'[d] # <<>> =>
                sock'[d].state = "open" /\ Thread(d)' = Thread(d),
           events' = events \/ events' = <<>>
    PROVE  WireFresh' /\ ShownOnce'
<1>1. ShownOnce'
  BY ShownKept
<1>2. ASSUME NEW c \in Sockets, NEW i \in 1 .. Len(wire'[c]), Live(wire'[c][i])
      PROVE  Fresh(wire'[c], i, Thread(c)', Sent'[Thread(c)'], events')
  <2>1. wire'[c] = wire[c] /\ wire[c] # <<>>
    BY <1>2
  <2>2. Thread(c)' = Thread(c) /\ Thread(c) \in Threads
    BY <2>1 DEF SocketTyped, Thread
  <2>3. Fresh(wire[c], i, Thread(c), Sent[Thread(c)], events)
    BY <1>2, <2>1, WireFreshIs
  <2>4. Sent[Thread(c)] \subseteq Sent'[Thread(c)]
    BY <2>2 DEF SentKept
  <2>5. Fresh(wire[c], i, Thread(c), Sent'[Thread(c)], events')
    BY <2>3, <2>4 DEF Fresh
  <2> QED
    BY <2>1, <2>2, <2>5
<1>3. WireFresh'
  BY <1>2 DEF WireFresh, Fresh
<1> QED
  BY <1>1, <1>3

\* An event is cached: its number is new.
LEMMA LogCache ==
    ASSUME LogTyped, NEW r \in Runs, NEW k \in Kinds, CacheEvent(r, k)
    PROVE  LogTyped' /\ SentKept
<1> DEFINE t == start[r].thread
           e == [run |-> r, kind |-> k]
<1>1. t \in Threads /\ e \in [run : Runs, kind : Kinds]
  BY DEF LogTyped
<1>2. log' = [log EXCEPT ![t] = Append(log[t], e)]
      /\ unsent' = [unsent EXCEPT ![t] = unsent[t] \cup {Len(log[t]) + 1}]
      /\ start' = start
  BY DEF CacheEvent, requestVars
<1> HIDE DEF t, e
<1>3. log[t] \in Seq([run : Runs, kind : Kinds]) /\ unsent[t] \subseteq 1 .. Len(log[t])
  BY <1>1 DEF LogTyped
<1>4. Len(Append(log[t], e)) = Len(log[t]) + 1
      /\ Append(log[t], e) \in Seq([run : Runs, kind : Kinds])
      /\ Len(log[t]) \in Nat
  BY <1>1, <1>3
<1>5. log' \in [Threads -> Seq([run : Runs, kind : Kinds])]
  BY <1>1, <1>2, <1>4 DEF LogTyped
<1>6. \A s \in Threads : s # t => log'[s] = log[s] /\ unsent'[s] = unsent[s]
  BY <1>1, <1>2 DEF LogTyped
<1>7. log'[t] = Append(log[t], e) /\ unsent'[t] = unsent[t] \cup {Len(log[t]) + 1}
  BY <1>1, <1>2 DEF LogTyped
<1>8. ASSUME NEW s \in Threads
      PROVE  unsent'[s] \subseteq 1 .. Len(log'[s]) /\ Sent[s] \subseteq Sent'[s]
  <2>1. Sent'[s] = (1 .. Len(log'[s])) \ unsent'[s] /\ Sent[s] = (1 .. Len(log[s])) \ unsent[s]
    BY DEF Sent
  <2>2. CASE s = t
    <3>1. Len(log'[s]) = Len(log[s]) + 1 /\ unsent'[s] = unsent[s] \cup {Len(log[s]) + 1}
      BY <1>4, <1>7, <2>2
    <3> QED
      BY <1>3, <1>4, <2>1, <2>2, <3>1
  <2>3. CASE s # t
    BY <1>6, <2>1, <2>3 DEF LogTyped
  <2> QED
    BY <2>2, <2>3
<1>9. unsent' \in [Threads -> SUBSET Nat]
  BY <1>1, <1>2, <1>4 DEF LogTyped
<1>10. LogTyped'
  BY <1>2, <1>5, <1>8, <1>9 DEF LogTyped
<1> QED
  BY <1>8, <1>10 DEF SentKept

\* Appending a message that is fresh to messages that are.
LEMMA FreshAppend ==
    ASSUME NEW ms \in Seq(Messages), NEW m \in Messages, Live(m), NEW t, NEW shown,
           NEW es, NEW fs, es \subseteq fs, m.n \in fs, m.n \notin es,
           \A i \in 1 .. Len(ms) : Live(ms[i]) => Fresh(ms, i, t, es, shown),
           \A k \in 1 .. Len(shown) : shown[k] # [thread |-> t, n |-> m.n],
           NEW i \in 1 .. Len(Append(ms, m)), Live(Append(ms, m)[i])
    PROVE  Fresh(Append(ms, m), i, t, fs, shown)
<1> DEFINE all == Append(ms, m)
<1>1. /\ Len(all) = Len(ms) + 1 /\ Len(ms) \in Nat
      /\ \A j \in 1 .. Len(ms) : all[j] = ms[j]
      /\ all[Len(ms) + 1] = m
  OBVIOUS
<1>2. \A j \in 1 .. Len(ms) : Live(ms[j]) => ms[j].n # m.n
  BY DEF Fresh
<1> HIDE DEF all
<1>3. CASE i = Len(ms) + 1
  <2>1. all[i] = m
    BY <1>1, <1>3
  <2>2. \A j \in 1 .. Len(all) : Live(all[j]) /\ all[j].n = all[i].n => i = j
    <3> SUFFICES ASSUME NEW j \in 1 .. Len(all), Live(all[j]), all[j].n = m.n, j # i
                 PROVE  FALSE
      BY <2>1
    <3>1. j \in 1 .. Len(ms) /\ all[j] = ms[j]
      BY <1>1, <1>3
    <3> QED
      BY <1>2, <3>1
  <2>3. Fresh(all, i, t, fs, shown)
    BY <2>1, <2>2 DEF Fresh
  <2> QED
    BY <2>3 DEF all
<1>4. CASE i # Len(ms) + 1
  <2>1. i \in 1 .. Len(ms) /\ all[i] = ms[i]
    BY <1>1, <1>4 DEF all
  <2>2. Live(ms[i]) /\ Fresh(ms, i, t, es, shown)
    BY <2>1 DEF all
  <2>3. \A j \in 1 .. Len(all) : Live(all[j]) /\ all[j].n = all[i].n => i = j
    <3> SUFFICES ASSUME NEW j \in 1 .. Len(all), Live(all[j]), all[j].n = ms[i].n
                 PROVE  i = j
      BY <2>1
    <3>1. CASE j = Len(ms) + 1
      BY <1>1, <1>2, <2>1, <2>2, <3>1
    <3>2. CASE j # Len(ms) + 1
      <4>1. j \in 1 .. Len(ms) /\ all[j] = ms[j]
        BY <1>1, <3>2
      <4> QED
        BY <2>2, <4>1 DEF Fresh
    <3> QED
      BY <3>1, <3>2
  <2>4. Fresh(all, i, t, fs, shown)
    BY <2>1, <2>2, <2>3 DEF Fresh
  <2> QED
    BY <2>4 DEF all
<1> QED
  BY <1>3, <1>4
\* An event is published: it joins the messages of subscribed open sockets,
\* none of which had it.
LEMMA FreshPublish ==
    ASSUME SocketTyped, LogTyped, WireFresh, ShownOnce,
           NEW t \in Threads, NEW n \in unsent[t], PublishEvent(t, n)
    PROVE  LogTyped' /\ WireFresh' /\ ShownOnce'
<1> DEFINE msg == [type |-> "monitor_event", n |-> n]
           reached == {c \in Sockets : srv[c] = "subscribed" /\ Thread(c) = t
                                       /\ sock[c].state = "open"}
<1>1. /\ unsent' = [unsent EXCEPT ![t] = unsent[t] \ {n}]
      /\ wire' = [c \in Sockets |-> IF c \in reached THEN Append(wire[c], msg) ELSE wire[c]]
      /\ UNCHANGED <<log, start, events, sock>>
  BY DEF PublishEvent, pageVars, requestVars
<1>2. n \in 1 .. Len(log[t]) /\ n \in Nat
  BY DEF LogTyped
<1>3. LogTyped'
  BY <1>1 DEF LogTyped
<1>4. SentKept
  BY <1>1, <1>2 DEF SentKept, Sent, LogTyped
<1>5. n \notin Sent[t] /\ n \in Sent'[t]
  BY <1>1, <1>2 DEF Sent, LogTyped
<1>6. ShownOnce'
  BY <1>1, <1>4, ShownKept
<1>7. msg \in Messages /\ msg.n = n /\ Live(msg)
  BY <1>2 DEF Messages, Live
<1> HIDE DEF msg
<1>8. wire' \in [Sockets -> Seq(Messages)]
  <2>1. \A c \in Sockets : Append(wire[c], msg) \in Seq(Messages) /\ wire[c] \in Seq(Messages)
    BY <1>7 DEF WireFresh
  <2> QED
    BY <1>1, <2>1
<1>9. \A c \in Sockets : wire'[c] # <<>> => sock'[c].state = "open"
  BY <1>1 DEF WireFresh
<1>10. \A k \in 1 .. Len(events) : events[k] # [thread |-> t, n |-> n]
  <2> SUFFICES ASSUME NEW k \in 1 .. Len(events), events[k] = [thread |-> t, n |-> n]
               PROVE  FALSE
    OBVIOUS
  <2>1. events[k].thread = t /\ events[k].n = n
    OBVIOUS
  <2>2. events[k].n \in Sent[events[k].thread]
    BY DEF ShownOnce
  <2> QED
    BY <1>5, <2>1, <2>2
<1>11. ASSUME NEW c \in Sockets, NEW i \in 1 .. Len(wire'[c]), Live(wire'[c][i])
       PROVE  Fresh(wire'[c], i, Thread(c)', Sent'[Thread(c)'], events')
  <2>1. Thread(c) \in Threads /\ Thread(c)' = Thread(c) /\ wire[c] \in Seq(Messages)
    BY <1>1 DEF SocketTyped, Thread, WireFresh
  <2>2. \A j \in 1 .. Len(wire[c]) :
          Live(wire[c][j]) => Fresh(wire[c], j, Thread(c), Sent[Thread(c)], events)
    BY WireFreshIs
  <2>3. Sent[Thread(c)] \subseteq Sent'[Thread(c)]
    BY <1>4, <2>1 DEF SentKept
  <2>4. CASE c \notin reached
    <3>1. wire'[c] = wire[c]
      BY <1>1, <2>4
    <3>2. Fresh(wire[c], i, Thread(c), Sent[Thread(c)], events)
      BY <1>11, <2>2, <3>1
    <3>3. Fresh(wire[c], i, Thread(c), Sent'[Thread(c)], events)
      BY <2>3, <3>2 DEF Fresh
    <3> QED
      BY <1>1, <2>1, <3>1, <3>3
  <2>5. CASE c \in reached
    <3>1. Thread(c) = t /\ wire'[c] = Append(wire[c], msg)
      BY <1>1, <2>5
    <3>2. i \in 1 .. Len(Append(wire[c], msg)) /\ Live(Append(wire[c], msg)[i])
      BY <1>11, <3>1
    <3>3. Fresh(Append(wire[c], msg), i, t, Sent'[t], events)
      BY <1>5, <1>7, <1>10, <2>1, <2>2, <2>3, <3>1, <3>2, FreshAppend
    <3> QED
      BY <1>1, <2>1, <3>1, <3>3
  <2> QED
    BY <2>4, <2>5
<1>12. WireFresh'
  BY <1>8, <1>9, <1>11 DEF WireFresh, Fresh
<1> QED
  BY <1>3, <1>6, <1>12

\* The list of events shown is cut at its older end.
LEMMA ShownCut ==
    ASSUME NEW S, NEW e \in Seq(S), MaxShown \in Nat
    PROVE  /\ Shown(e) \in Seq(S)
           /\ \E d \in Nat : \A k \in 1 .. Len(Shown(e)) :
                k + d \in 1 .. Len(e) /\ Shown(e)[k] = e[k + d]
<1>0. Len(e) \in Nat
  OBVIOUS
<1>1. CASE Len(e) <= MaxShown
  <2>1. Shown(e) = e
    BY <1>1 DEF Shown
  <2>2. \A k \in 1 .. Len(e) : k + 0 \in 1 .. Len(e) /\ e[k] = e[k + 0]
    OBVIOUS
  <2> QED
    BY <2>1, <2>2
<1>2. CASE Len(e) > MaxShown
  <2> DEFINE d == Len(e) - MaxShown
             cut == SubSeq(e, d + 1, Len(e))
  <2>1. Shown(e) = cut /\ d \in Nat
    BY <1>2 DEF Shown
  <2>2. cut \in Seq(S) /\ Len(cut) = Len(e) - d
        /\ \A k \in 1 .. Len(cut) : cut[k] = e[d + 1 + k - 1]
    BY <2>1
  <2>3. \A k \in 1 .. Len(cut) : k + d \in 1 .. Len(e) /\ cut[k] = e[k + d]
    BY <2>1, <2>2
  <2> HIDE DEF d, cut
  <2> QED
    BY <2>1, <2>2, <2>3
<1>3. Len(e) <= MaxShown \/ Len(e) > MaxShown
  BY <1>0
<1> QED
  BY <1>1, <1>2, <1>3, Zenon

\* What is left after the first message is fresh among what was shown and it.
LEMMA FreshTail ==
    ASSUME NEW ms \in Seq(Messages), ms # <<>>, NEW t, NEW es, NEW shown, NEW next,
           \A i \in 1 .. Len(ms) : Live(ms[i]) => Fresh(ms, i, t, es, shown),
           \A k \in 1 .. Len(next) :
             \/ \E l \in 1 .. Len(shown) : next[k] = shown[l]
             \/ Live(ms[1]) /\ next[k] = [thread |-> t, n |-> ms[1].n],
           NEW i \in 1 .. Len(Tail(ms)), Live(Tail(ms)[i])
    PROVE  Fresh(Tail(ms), i, t, es, next)
<1> DEFINE rest == Tail(ms)
<1>1. /\ Len(rest) = Len(ms) - 1 /\ Len(ms) \in Nat /\ 1 \in 1 .. Len(ms)
      /\ \A j \in 1 .. Len(rest) : j + 1 \in 1 .. Len(ms) /\ rest[j] = ms[j + 1]
  OBVIOUS
<1>2. i \in 1 .. Len(rest) /\ Live(rest[i])
  OBVIOUS
<1> HIDE DEF rest
<1>3. Live(ms[i + 1]) /\ rest[i] = ms[i + 1] /\ i + 1 \in 1 .. Len(ms)
      /\ Fresh(ms, i + 1, t, es, shown)
  BY <1>1, <1>2
<1>4. \A k \in 1 .. Len(next) : next[k] # [thread |-> t, n |-> rest[i].n]
  <2> SUFFICES ASSUME NEW k \in 1 .. Len(next), next[k] = [thread |-> t, n |-> rest[i].n]
               PROVE  FALSE
    OBVIOUS
  <2>1. CASE \E l \in 1 .. Len(shown) : next[k] = shown[l]
    BY <1>3, <2>1 DEF Fresh
  <2>2. CASE Live(ms[1]) /\ next[k] = [thread |-> t, n |-> ms[1].n]
    <3>1. ms[1].n = rest[i].n
      <4>1. [thread |-> t, n |-> ms[1].n].n = [thread |-> t, n |-> rest[i].n].n
        BY <2>2
      <4> QED
        BY <4>1
    <3>2. i + 1 = 1
      BY <1>1, <1>3, <2>2, <3>1 DEF Fresh
    <3> QED
      BY <1>2, <3>2
  <2> QED
    BY <2>1, <2>2
<1>5. \A j \in 1 .. Len(rest) : Live(rest[j]) /\ rest[j].n = rest[i].n => i = j
  <2> SUFFICES ASSUME NEW j \in 1 .. Len(rest), Live(rest[j]), rest[j].n = rest[i].n
               PROVE  i = j
    OBVIOUS
  <2>1. j + 1 \in 1 .. Len(ms) /\ Live(ms[j + 1]) /\ ms[j + 1].n = ms[i + 1].n
    BY <1>1, <1>3
  <2>2. i + 1 = j + 1
    BY <1>3, <2>1 DEF Fresh
  <2> QED
    BY <1>2, <2>2
<1>6. Fresh(rest, i, t, es, next)
  BY <1>3, <1>4, <1>5 DEF Fresh
<1> QED
  BY <1>6 DEF rest

\* Showing one event more that is not shown yet.
LEMMA ShownMore ==
    ASSUME ShownOnce, MaxShown \in Nat, NEW t \in Threads, NEW n \in Sent[t], n \in Nat,
           \A k \in 1 .. Len(events) : events[k] # [thread |-> t, n |-> n],
           Sent' = Sent, events' = Shown(Append(events, [thread |-> t, n |-> n]))
    PROVE  /\ ShownOnce'
           /\ \A k \in 1 .. Len(events') :
                \/ \E l \in 1 .. Len(events) : events'[k] = events[l]
                \/ events'[k] = [thread |-> t, n |-> n]
<1> DEFINE S == [thread : Threads, n : Nat]
           e == [thread |-> t, n |-> n]
           all == Append(events, e)
<1>1. e \in S /\ events \in Seq(S) /\ e.n = n /\ e.thread = t
  BY DEF ShownOnce
<1> HIDE DEF e, S
<1>2. /\ all \in Seq(S) /\ Len(all) = Len(events) + 1 /\ Len(events) \in Nat
      /\ \A k \in 1 .. Len(events) : all[k] = events[k]
      /\ all[Len(events) + 1] = e
  BY <1>1
<1>3. \A k \in 1 .. Len(events) : events[k] # e
  BY DEF e
<1>4. events' = Shown(all)
  BY DEF e
<1> HIDE DEF all
<1>5. \A k, l \in 1 .. Len(all) : all[k] = all[l] => k = l
  <2>1. \A k, l \in 1 .. Len(events) : events[k] = events[l] => k = l
    BY <1>1 DEF ShownOnce, NoEventTwice
  <2> QED
    BY <1>2, <1>3, <2>1
<1>6. \A k \in 1 .. Len(all) : all[k].n \in Sent[all[k].thread]
  BY <1>1, <1>2 DEF ShownOnce
<1>0. /\ Shown(all) \in Seq(S)
      /\ \E d \in Nat : \A k \in 1 .. Len(Shown(all)) :
           k + d \in 1 .. Len(all) /\ Shown(all)[k] = all[k + d]
  BY <1>2, ShownCut, ZenonT(60)
<1>7. PICK d \in Nat : \A k \in 1 .. Len(events') :
                          k + d \in 1 .. Len(all) /\ events'[k] = all[k + d]
  BY <1>0, <1>4
<1>8. events' \in Seq(S)
  BY <1>0, <1>4
<1>9. \A k, l \in 1 .. Len(events') : events'[k] = events'[l] => k = l
  <2> SUFFICES ASSUME NEW k \in 1 .. Len(events'), NEW l \in 1 .. Len(events'),
                      events'[k] = events'[l]
               PROVE  k = l
    OBVIOUS
  <2>1. k + d = l + d
    BY <1>5, <1>7
  <2> QED
    BY <1>8, <2>1
<1>10. NoEventTwice'
  <2>1. DOMAIN events' = 1 .. Len(events')
    BY <1>8
  <2> QED
    BY <1>9, <2>1 DEF NoEventTwice
<1>11. \A k \in 1 .. Len(events') : events'[k].n \in Sent'[events'[k].thread]
  BY <1>6, <1>7
<1>12. ShownOnce'
  BY <1>8, <1>10, <1>11 DEF ShownOnce, S
<1>13. \A k \in 1 .. Len(events') :
         \/ \E l \in 1 .. Len(events) : events'[k] = events[l]
         \/ events'[k] = e
  <2> SUFFICES ASSUME NEW k \in 1 .. Len(events')
               PROVE  \/ \E l \in 1 .. Len(events) : events'[k] = events[l]
                      \/ events'[k] = e
    OBVIOUS
  <2>1. k + d \in 1 .. Len(all) /\ events'[k] = all[k + d]
    BY <1>7
  <2> QED
    BY <1>2, <2>1, SMTT(60)
<1> QED
  BY <1>12, <1>13 DEF e

\* The page takes a message: a live one was not shown before.
LEMMA FreshReceive ==
    ASSUME SocketInv, WireFresh, ShownOnce, NEW c \in Sockets, Receive(c)
    PROVE  WireFresh' /\ ShownOnce'
<1> DEFINE ms == wire[c]
           m == Head(wire[c])
           t == Thread(c)
<1>1. /\ ms \in Seq(Messages) /\ ms # <<>> /\ c = socketRef
      /\ wire' = [wire EXCEPT ![c] = Tail(ms)]
      /\ UNCHANGED <<sock, log, unsent>>
      /\ events' = IF Live(m) THEN Shown(Append(events, [thread |-> t, n |-> m.n])) ELSE events
  BY DEF Receive, WireFresh, workVars, Live
<1>2. Sent' = Sent /\ t \in Threads /\ \A d \in Sockets : Thread(d)' = Thread(d)
  BY <1>1 DEF Sent, Thread, SocketInv, SocketTyped
<1>3. Tail(ms) \in Seq(Messages) /\ m = ms[1] /\ 1 \in 1 .. Len(ms) /\ m \in Messages
  BY <1>1
<1>4. wire' \in [Sockets -> Seq(Messages)] /\ wire'[c] = Tail(ms)
      /\ \A d \in Sockets : d # c => wire'[d] = wire[d]
  BY <1>1, <1>3 DEF WireFresh
<1>5. \A i \in 1 .. Len(ms) : Live(ms[i]) => Fresh(ms, i, t, Sent[t], events)
  BY WireFreshIs
<1>6. \A d \in Sockets : wire'[d] # <<>> => d = c /\ sock'[d].state = "open"
  BY <1>1, <1>4 DEF WireFresh, SocketInv, OneSocket
<1>7. /\ ShownOnce'
      /\ \A k \in 1 .. Len(events') :
           \/ \E l \in 1 .. Len(events) : events'[k] = events[l]
           \/ Live(m) /\ events'[k] = [thread |-> t, n |-> m.n]
  <2>1. CASE Live(m)
    <3>1. /\ m.n \in Sent[t] /\ m.n \in Nat
          /\ \A k \in 1 .. Len(events) : events[k] # [thread |-> t, n |-> m.n]
      BY <1>3, <1>5, <2>1 DEF Fresh, Messages
    <3>2. events' = Shown(Append(events, [thread |-> t, n |-> m.n]))
      BY <1>1, <2>1
    <3>3. MaxShown \in Nat
      BY DeliveryAssumption
    <3> HIDE DEF t
    <3>4. /\ ShownOnce'
          /\ \A k \in 1 .. Len(events') :
               \/ \E l \in 1 .. Len(events) : events'[k] = events[l]
               \/ events'[k] = [thread |-> t, n |-> m.n]
      BY <1>2, <3>1, <3>2, <3>3, ShownMore
    <3> QED
      BY <2>1, <3>4
  <2>2. CASE ~Live(m)
    <3>1. events' = events
      BY <1>1, <2>2
    <3>2. ShownOnce'
      BY <1>2, <3>1, ShownKept DEF SentKept
    <3> QED
      BY <3>1, <3>2
  <2> QED
    BY <2>1, <2>2
<1>8. ASSUME NEW d \in Sockets, NEW i \in 1 .. Len(wire'[d]), Live(wire'[d][i])
      PROVE  Fresh(wire'[d], i, Thread(d)', Sent'[Thread(d)'], events')
  <2>1. d = c
    BY <1>6, <1>8
  <2>2. i \in 1 .. Len(Tail(ms)) /\ Live(Tail(ms)[i])
    BY <1>4, <1>8, <2>1
  <2>3. Fresh(Tail(ms), i, t, Sent[t], events')
    <3>1. \A k \in 1 .. Len(events') :
           \/ \E l \in 1 .. Len(events) : events'[k] = events[l]
           \/ Live(ms[1]) /\ events'[k] = [thread |-> t, n |-> ms[1].n]
      BY <1>3, <1>7
    <3> HIDE DEF ms, t
    <3> QED
      BY <1>1, <1>5, <2>2, <3>1, FreshTail
  <2> QED
    BY <1>2, <1>4, <2>1, <2>3
<1> QED
  BY <1>4, <1>6, <1>7, <1>8 DEF WireFresh, Fresh

\* What is replayed is not live.
LEMMA FreshReplay ==
    ASSUME SocketTyped, LogTyped, WireFresh, ShownOnce, NEW c \in Sockets, Replay(c)
    PROVE  WireFresh' /\ ShownOnce'
<1>0. UNCHANGED <<sock, log, unsent, events>>
  BY DEF Replay, workVars, pageVars
<1>1. SentKept /\ Sent' = Sent /\ \A d \in Sockets : Thread(d)' = Thread(d)
  BY <1>0 DEF SentKept, Sent, Thread
<1>2. CASE wire' = wire
  BY <1>0, <1>1, <1>2, FreshFewer DEF WireFresh
<1>3. CASE wire' # wire
  <2>1. PICK h \in Histories(Thread(c)) :
           wire' = [wire EXCEPT ![c] = [i \in 1 .. Len(h) |-> Replayed(h[i])]]
    BY <1>3 DEF Replay
  <2> DEFINE all == [n \in 1 .. Len(log[Thread(c)]) |-> n]
             ms == [i \in 1 .. Len(h) |-> Replayed(h[i])]
  <2>2. Thread(c) \in Threads /\ Len(log[Thread(c)]) \in Nat
    BY DEF SocketTyped, Thread, LogTyped
  <2>3. all \in Seq(Nat) /\ Len(all) = Len(log[Thread(c)])
    BY <2>2
  <2>4. h \in Seq(Nat)
    <3> DEFINE kept == IF Len(all) > CacheCap THEN Len(all) - CacheCap + 1 ELSE 1
    <3>1. h \in {SubSeq(all, kept, Len(all)), all, <<>>}
      BY DEF Histories
    <3>2. kept \in Nat /\ kept >= 1
      <4>1. CacheCap \in Nat
        BY DeliveryAssumption
      <4>2. Len(all) \in Nat
        BY <2>2, <2>3
      <4> HIDE DEF all
      <4> QED
        BY <4>1, <4>2
    <3> HIDE DEF all, kept
    <3>3. SubSeq(all, kept, Len(all)) \in Seq(Nat)
      <4>1. \A i \in kept .. Len(all) : all[i] \in Nat
        BY <2>3, <3>2
      <4> QED
        BY <2>2, <2>3, <3>2, <4>1
    <3>4. <<>> \in Seq(Nat)
      OBVIOUS
    <3> QED
      BY <2>3, <3>1, <3>3, <3>4
  <2>5. ms \in Seq(Messages) /\ Len(ms) = Len(h)
    <3>1. \A i \in 1 .. Len(h) : Replayed(h[i]) \in Messages
      BY <2>4 DEF Replayed, Messages
    <3>2. Len(h) \in Nat
      BY <2>4
    <3> QED
      BY <3>1, <3>2
  <2>6. \A i \in 1 .. Len(ms) : ~Live(ms[i])
    BY <2>5 DEF Replayed, Live
  <2> HIDE DEF ms
  <2>7. wire' = [wire EXCEPT ![c] = ms]
    BY <2>1 DEF ms
  <2>8. wire' \in [Sockets -> Seq(Messages)] /\ wire'[c] = ms
        /\ \A d \in Sockets : d # c => wire'[d] = wire[d]
    BY <2>5, <2>7 DEF WireFresh
  <2>9. sock[c].state = "open"
    BY <1>3 DEF Replay
  <2>10. ShownOnce'
    BY <1>0, <1>1, ShownKept
  <2>11. ASSUME NEW d \in Sockets, NEW i \in 1 .. Len(wire'[d]), Live(wire'[d][i])
         PROVE  Fresh(wire'[d], i, Thread(d)', Sent'[Thread(d)'], events')
    <3>1. d # c
      BY <2>6, <2>8, <2>11
    <3>2. Fresh(wire[d], i, Thread(d), Sent[Thread(d)], events)
      BY <2>8, <2>11, <3>1, WireFreshIs
    <3> QED
      BY <1>0, <1>1, <2>8, <3>1, <3>2
  <2>12. \A d \in Sockets : wire'[d] # <<>> => sock'[d].state = "open"
    BY <1>0, <2>8, <2>9 DEF WireFresh
  <2> QED
    BY <2>8, <2>10, <2>11, <2>12 DEF WireFresh, Fresh
<1> QED
  BY <1>2, <1>3

\* The messages of a connection that ends are lost.
LEMMA FreshEnds ==
    ASSUME SocketInv, PlaceInv, WireFresh, ShownOnce,
           \/ Restart \/ RunEffect \/ ReconnectTimer
           \/ \E c \in Sockets : ServerFault(c)
    PROVE  WireFresh' /\ ShownOnce'
<1> USE DEF SocketInv
<1>1. UNCHANGED <<log, unsent, events>>
  BY DEF Restart, RunEffect, ReconnectTimer, ServerFault, Refuse, SubscriptionBreaks,
         Drop, workVars, PageUnchanged
<1>2. SentKept
  BY <1>1 DEF SentKept, Sent
<1>3. CASE Restart
  <2>1. wire' = [c \in Sockets |-> <<>>]
    BY <1>3 DEF Restart
  <2>2. wire' \in [Sockets -> Seq(Messages)]
    BY <2>1
  <2> QED
    BY <1>1, <1>2, <2>1, <2>2, FreshFewer
<1>4. CASE RunEffect \/ ReconnectTimer
  <2>1. wire' = [wire EXCEPT ![socketRef] = <<>>]
    BY <1>4 DEF RunEffect, ReconnectTimer, Connect
  <2>2. \A d \in Sockets : wire[d] # <<>> => d = socketRef
    BY DEF WireFresh, OneSocket
  <2>3. wire' \in [Sockets -> Seq(Messages)] /\ \A d \in Sockets : wire'[d] = <<>>
    <3>1. <<>> \in Seq(Messages)
      OBVIOUS
    <3> QED
      BY <2>1, <2>2, <3>1 DEF WireFresh
  <2> QED
    BY <1>1, <1>2, <2>3, FreshFewer
<1>5. ASSUME NEW c \in Sockets, ServerFault(c) PROVE WireFresh' /\ ShownOnce'
  <2>1. Lose(c, sock[c].state)
    BY <1>5 DEF ServerFault, Refuse, SubscriptionBreaks, Drop
  <2>2. wire' = [wire EXCEPT ![c] = <<>>] /\ sock' = [sock EXCEPT ![c].state = "closed"]
    BY <2>1 DEF Lose
  <2>3. wire' \in [Sockets -> Seq(Messages)] /\ wire'[c] = <<>>
        /\ \A d \in Sockets : d # c => wire'[d] = wire[d]
    <3>1. <<>> \in Seq(Messages)
      OBVIOUS
    <3> QED
      BY <2>2, <3>1 DEF WireFresh
  <2>4. \A d \in Sockets : d # c => sock'[d] = sock[d]
    BY <2>2 DEF SocketTyped
  <2>5. \A d \in Sockets : wire'[d] # <<>> => sock'[d].state = "open" /\ Thread(d)' = Thread(d)
    BY <2>3, <2>4 DEF WireFresh, Thread
  <2> QED
    BY <1>1, <1>2, <2>3, <2>5, FreshFewer
<1> QED
  BY <1>3, <1>4, <1>5

\* The other steps leave messages alone, and events too or clear them.
LEMMA FreshOthers ==
    ASSUME SocketTyped, WireFresh, ShownOnce, SentKept,
           UNCHANGED wire, events' = events \/ events' = <<>>,
           UNCHANGED sock \/ \E c \in Sockets : Accept(c)
    PROVE  WireFresh' /\ ShownOnce'
<1>1. CASE UNCHANGED sock
  <2>1. \A d \in Sockets : wire'[d] # <<>> => sock'[d].state = "open" /\ Thread(d)' = Thread(d)
    BY <1>1 DEF WireFresh, Thread
  <2> QED
    BY <2>1, FreshFewer DEF WireFresh
<1>2. ASSUME NEW c \in Sockets, Accept(c) PROVE WireFresh' /\ ShownOnce'
  <2> DEFINE q == IF sock[c].state = "connecting" THEN "open" ELSE sock[c].state
  <2>1. sock' = [sock EXCEPT ![c].state = q] /\ socketRef' = socketRef /\ threadId' = threadId
    BY <1>2 DEF Accept
  <2>2. q \in SockStates /\ (sock[c].state = "open" => q = "open")
    BY DEF SocketTyped, SockStates
  <2> HIDE DEF q
  <2>3. \A d \in Sockets : /\ sock'[d].thread = sock[d].thread
                           /\ sock'[d].state = IF d = c THEN q ELSE sock[d].state
    BY <2>1, <2>2, StateOnly
  <2>4. \A d \in Sockets : wire'[d] # <<>> => sock'[d].state = "open" /\ Thread(d)' = Thread(d)
    BY <2>2, <2>3 DEF WireFresh, Thread
  <2> QED
    BY <2>4, FreshFewer DEF WireFresh
<1> QED
  BY <1>1, <1>2

------------------------------------------------------------------------------
\* The requests of runs stay records.
LEMMA StartTyped ==
    ASSUME LogTyped, threadId \in Threads, NEW r \in Runs,
           Submit(r) \/ Accepted(r) \/ StartFails(r)
    PROVE  LogTyped'
<1>1. UNCHANGED <<log, unsent>>
  BY DEF Submit, Accepted, StartFails, workVars
<1>2. start[r] \in [thread : Threads, state : {"none", "asked", "accepted", "failed"}]
  BY DEF LogTyped
<1>3. PICK q \in [thread : Threads, state : {"none", "asked", "accepted", "failed"}] :
         start' = [start EXCEPT ![r] = q]
  <2>1. CASE Submit(r)
    BY <2>1 DEF Submit
  <2>2. CASE Accepted(r)
    <3>1. start' = [start EXCEPT ![r] = [start[r] EXCEPT !.state = "accepted"]]
      BY <2>2 DEF Accepted
    <3> QED
      BY <1>2, <3>1
  <2>3. CASE StartFails(r)
    <3>1. start' = [start EXCEPT ![r] = [start[r] EXCEPT !.state = "failed"]]
      BY <2>3 DEF StartFails
    <3> QED
      BY <1>2, <3>1
  <2> QED
    BY <2>1, <2>2, <2>3
<1> QED
  BY <1>1, <1>3 DEF LogTyped

\* The worker's steps keep the invariant.
LEMMA WorkerKeeps == DeliveryInv /\ WorkerStep => DeliveryInv'
<1> SUFFICES ASSUME DeliveryInv, WorkerStep PROVE DeliveryInv'
  OBVIOUS
<1> USE DEF DeliveryInv
<1>1. UNCHANGED <<threadId, socketRef, sock, timer, load, srv, place, events>>
      /\ (UNCHANGED left \/ Spend("faults") \/ Spend("events"))
  BY DEF WorkerStep, RunEnds, EndsSilently, CacheEvent, PublishEvent, netVars, pageVars, requestVars
<1>2. SocketInv'
  BY <1>1, SocketsAlone
<1>3. PlaceInv'
  BY <1>1, PlaceAlone DEF ThreadsKept, Thread
<1>4. SocketTyped
  BY DEF SocketInv
<1>5. ASSUME NEW r \in Runs, RunEnds(r) \/ EndsSilently(r) PROVE DeliveryInv'
  <2>1. UNCHANGED <<log, unsent, start, wire>>
    BY <1>5 DEF RunEnds, EndsSilently, netVars, requestVars
  <2>2. LogTyped' /\ SentKept
    BY <2>1 DEF LogTyped, SentKept, Sent
  <2>3. WireFresh' /\ ShownOnce'
    BY <1>1, <1>4, <2>1, <2>2, FreshOthers
  <2> QED
    BY <1>2, <1>3, <2>2, <2>3
<1>6. ASSUME NEW r \in Runs, NEW k \in Kinds, CacheEvent(r, k) PROVE DeliveryInv'
  <2>1. UNCHANGED wire
    BY <1>6 DEF CacheEvent, netVars
  <2>2. LogTyped' /\ SentKept
    BY <1>6, LogCache
  <2>3. WireFresh' /\ ShownOnce'
    BY <1>1, <1>4, <2>1, <2>2, FreshOthers
  <2> QED
    BY <1>2, <1>3, <2>2, <2>3
<1>7. ASSUME NEW t \in Threads, NEW n \in unsent[t], PublishEvent(t, n) PROVE DeliveryInv'
  BY <1>2, <1>3, <1>4, <1>7, FreshPublish
<1>8. Reported \subseteq Kinds
  BY DeliveryAssumption
<1> QED
  BY <1>5, <1>6, <1>7, <1>8 DEF WorkerStep

\* The server's steps and faults.
LEMMA ServerKeeps ==
    ASSUME DeliveryInv, Restart \/ \E c \in Sockets : ServerStep(c) \/ ServerFault(c)
    PROVE  DeliveryInv'
<1> USE DEF DeliveryInv
<1>0. SocketTyped
  BY DEF SocketInv
<1>1. UNCHANGED <<log, unsent, start, events, threadId, socketRef, load>>
  BY DEF Restart, ServerStep, ServerFault, Accept, Replay, Register, Subscribe, Disconnect,
         Refuse, SubscriptionBreaks, Drop, workVars, pageVars, requestVars, PageUnchanged
<1>2. LogTyped' /\ SentKept
  BY <1>1 DEF LogTyped, SentKept, Sent
<1>3. CASE Restart
  BY <1>2, <1>3, SocketsRestart, PlaceRestart, FreshEnds
<1>4. ASSUME NEW c \in Sockets, ServerStep(c) \/ ServerFault(c) PROVE DeliveryInv'
  <2>1. PlaceInv'
    BY <1>0, <1>4, PlaceServer
  <2>2. CASE ServerFault(c)
    <3>1. Lose(c, sock[c].state) /\ Spend("faults")
      BY <2>2 DEF ServerFault, Refuse, SubscriptionBreaks, Drop
    <3>2. SocketInv'
      BY <1>1, <3>1, SocketsLose
    <3>3. WireFresh' /\ ShownOnce'
      BY <2>2, FreshEnds
    <3> QED
      BY <1>2, <2>1, <3>2, <3>3
  <2>3. CASE Accept(c)
    <3>1. UNCHANGED wire
      BY <2>3 DEF Accept
    <3> QED
      BY <1>0, <1>1, <1>2, <2>1, <2>3, <3>1, SocketsAccept, FreshOthers
  <2>4. CASE Replay(c)
    <3>1. UNCHANGED <<sock, timer, left>>
      BY <2>4 DEF Replay, pageVars
    <3> QED
      BY <1>0, <1>1, <1>2, <2>1, <2>4, <3>1, SocketsAlone, FreshReplay
  <2>5. CASE Register(c) \/ Subscribe(c) \/ Disconnect(c)
    <3>1. UNCHANGED <<sock, timer, left, wire>>
      BY <2>5 DEF Register, Subscribe, Disconnect, pageVars
    <3> QED
      BY <1>0, <1>1, <1>2, <2>1, <3>1, SocketsAlone, FreshOthers
  <2> QED
    BY <1>4, <2>2, <2>3, <2>4, <2>5 DEF ServerStep
<1> QED
  BY <1>3, <1>4

\* The page's sockets and timers.
LEMMA PageKeeps ==
    ASSUME DeliveryInv, RunEffect \/ ReconnectTimer \/ \E c \in Sockets : Receive(c)
    PROVE  DeliveryInv'
<1> USE DEF DeliveryInv
<1>1. UNCHANGED <<log, unsent, start>>
  BY DEF RunEffect, ReconnectTimer, Receive, workVars, requestVars
<1>2. LogTyped'
  BY <1>1 DEF LogTyped
<1>3. CASE RunEffect \/ ReconnectTimer
  BY <1>2, <1>3, SocketsConnect, PlaceConnect, FreshEnds
<1>4. ASSUME NEW c \in Sockets, Receive(c) PROVE DeliveryInv'
  <2>1. UNCHANGED <<threadId, socketRef, sock, timer, load, srv, place, left>>
    BY <1>4 DEF Receive, requestVars
  <2>2. SocketInv' /\ PlaceInv'
    BY <2>1, SocketsAlone, PlaceAlone DEF ThreadsKept, Thread
  <2>3. WireFresh' /\ ShownOnce'
    BY <1>4, FreshReceive
  <2> QED
    BY <1>2, <2>2, <2>3
<1> QED
  BY <1>3, <1>4

\* The user's steps and the answers to the page's requests.
LEMMA UserKeeps == DeliveryInv /\ (UserStep \/ RequestStep) => DeliveryInv'
<1> SUFFICES ASSUME DeliveryInv, UserStep \/ RequestStep PROVE DeliveryInv'
  OBVIOUS
<1> USE DEF DeliveryInv
<1>0. SocketTyped /\ threadId \in Threads
  BY DEF SocketInv, SocketTyped
<1>1. UNCHANGED <<log, unsent, srv, place, wire, socketRef, sock, timer>>
      /\ (events' = events \/ events' = <<>>)
  BY DEF UserStep, RequestStep, Submit, Cancel, Reset, AskSession, Accepted, StartFails,
         CancelAnswered, ReadSession, ShowSession, workVars, netVars, pageVars
<1>2. PlaceInv' /\ SentKept
  BY <1>1, PlaceAlone DEF ThreadsKept, Thread, SentKept, Sent
<1>3. WireFresh' /\ ShownOnce'
  BY <1>0, <1>1, <1>2, FreshOthers
<1>4. ASSUME NEW r \in Runs, Submit(r) \/ Accepted(r) \/ StartFails(r) PROVE DeliveryInv'
  <2>1. LogTyped'
    BY <1>0, <1>4, StartTyped
  <2>2. UNCHANGED <<threadId, load>> /\ (UNCHANGED left \/ Spend("runs") \/ Spend("faults"))
    BY <1>4 DEF Submit, Accepted, StartFails, pageVars
  <2>3. SocketInv'
    BY <1>1, <2>2, SocketsAlone
  <2> QED
    BY <1>2, <1>3, <2>1, <2>3
<1>5. CASE Cancel \/ \E cancelled \in BOOLEAN : CancelAnswered(cancelled)
  <2>1. UNCHANGED <<threadId, load, left, start>>
    BY <1>5 DEF Cancel, CancelAnswered, pageVars
  <2>2. LogTyped'
    BY <1>1, <2>1 DEF LogTyped
  <2> QED
    BY <1>1, <1>2, <1>3, <2>1, <2>2, SocketsAlone
<1>6. CASE \/ \E t \in Threads : Reset(t) \/ AskSession(t)
           \/ \E l \in load : ShowSession(l) \/ \E q \in BOOLEAN : ReadSession(l, q)
  <2>1. UNCHANGED start
    BY <1>6 DEF ReadSession, ShowSession, Reset, AskSession, requestVars
  <2>2. LogTyped'
    BY <1>1, <2>1 DEF LogTyped
  <2> QED
    BY <1>2, <1>3, <1>6, <2>2, SocketsMove, SocketsAsk
<1> QED
  BY <1>4, <1>5, <1>6 DEF UserStep, RequestStep

\* The invariant holds in every behaviour.
THEOREM DeliveryInvariant == Spec => []DeliveryInv
<1>1. DeliveryInv /\ [Next]_vars => DeliveryInv'
  <2> SUFFICES ASSUME DeliveryInv, [Next]_vars PROVE DeliveryInv'
    OBVIOUS
  <2>1. CASE UNCHANGED vars
    <3>1. UNCHANGED <<workVars, netVars, pageVars, requestVars, left>>
      BY <2>1 DEF vars
    <3>2. SocketInv'
      BY <3>1, SocketsAlone DEF pageVars, requestVars, DeliveryInv
    <3>3. PlaceInv'
      BY <3>1, PlaceAlone DEF netVars, pageVars, DeliveryInv, ThreadsKept, Thread
    <3>4. LogTyped'
      BY <3>1 DEF workVars, requestVars, DeliveryInv, LogTyped
    <3>5. SentKept
      BY <3>1 DEF workVars, SentKept, Sent
    <3>6. WireFresh' /\ ShownOnce'
      BY <3>1, <3>5, FreshOthers DEF netVars, pageVars, DeliveryInv, SocketInv
    <3> QED
      BY <3>2, <3>3, <3>4, <3>6 DEF DeliveryInv
  <2>2. CASE Next
    BY <2>2, WorkerKeeps, ServerKeeps, PageKeeps, UserKeeps DEF Next, Driven
  <2> QED
    BY <2>1, <2>2
<1> QED
  BY InvInit, <1>1, PTL DEF Spec

\* However often the socket is replaced, replayed to and lost, the page shows
\* no event of a thread twice.
THEOREM NothingTwice == Spec => []NoEventTwice
<1>1. DeliveryInv => NoEventTwice
  BY DEF DeliveryInv, ShownOnce
<1> QED
  BY <1>1, DeliveryInvariant, PTL

\* The page never has two sockets, nor a timer beside an open one.
THEOREM OneSocketOnly == Spec => []OneSocket
<1>1. DeliveryInv => OneSocket
  BY DEF DeliveryInv, SocketInv
<1> QED
  BY <1>1, DeliveryInvariant, PTL

\* No connection that is over is left in the manager's table.
THEOREM PlacesAlive == Spec => []NoDeadPlace
<1>1. DeliveryInv => NoDeadPlace
  BY DEF DeliveryInv, PlaceInv
<1> QED
  BY <1>1, DeliveryInvariant, PTL

\* The end of a connection takes no other connection off the table.
THEOREM PlacesKept == Spec => NewerKeepsPlace
<1> DEFINE Kept == \A t \in Threads : LET c == place[t] IN
                     (c # 0 /\ place'[t] # c) =>
                        \/ srv'[c] = "over"
                        \/ place'[t] # 0 /\ srv'[place'[t]] = "registered"
<1>1. DeliveryInv /\ [Next]_vars => [Kept]_vars
  <2> SUFFICES ASSUME DeliveryInv, Next, NEW t \in Threads, place[t] # 0, place'[t] # place[t]
               PROVE  \/ srv'[place[t]] = "over"
                      \/ place'[t] # 0 /\ srv'[place'[t]] = "registered"
    OBVIOUS
  <2> DEFINE d == place[t]
  <2>0. d \in Sockets /\ srv[d] # "none" /\ srv \in [Sockets -> ServerStates]
        /\ place \in [Threads -> {0} \cup Sockets] /\ 0 \notin Sockets
    BY MostIsBound DEF DeliveryInv, PlaceInv, NoDeadPlace
  <2>1. \/ Restart
        \/ \E c \in Sockets : Register(c) \/ Disconnect(c) \/ SubscriptionBreaks(c)
    BY DEF Next, WorkerStep, RunEnds, EndsSilently, CacheEvent, PublishEvent, Driven, ServerStep,
       ServerFault, Accept, Replay, Subscribe, Refuse, Drop, RunEffect, ReconnectTimer,
       Receive, UserStep, RequestStep, Submit, Cancel, Reset, AskSession, Accepted,
       StartFails, CancelAnswered, ReadSession, ShowSession, netVars
  <2>2. CASE Restart
    BY <2>0, <2>2 DEF Restart
  <2>3. ASSUME NEW c \in Sockets, Register(c)
        PROVE  place'[t] # 0 /\ srv'[place'[t]] = "registered"
    BY <2>0, <2>3 DEF Register
  <2>4. ASSUME NEW c \in Sockets, Disconnect(c) \/ SubscriptionBreaks(c)
        PROVE  srv'[d] = "over"
    <3>1. place' = [place EXCEPT ![Thread(c)] = IF place[Thread(c)] = c THEN 0
                                                ELSE place[Thread(c)]]
          /\ srv' = [srv EXCEPT ![c] = "over"]
      BY <2>4 DEF Disconnect, SubscriptionBreaks, Leaves
    <3>2. d = c
      BY <2>0, <3>1
    <3> QED
      BY <2>0, <3>1, <3>2
  <2> QED
    BY <2>1, <2>2, <2>3, <2>4
<1> QED
  BY <1>1, DeliveryInvariant, PTL DEF Spec, NewerKeepsPlace

------------------------------------------------------------------------------
(* What the page waits for: every end is to be sent, on its way to the page,  *)
(* handled by it, or missed; one that is handled stops the page.              *)

\* The n-th event of thread t is an end of run r.
FinalAt(t, n, r) == log[t][n].kind \in FinalKinds /\ log[t][n].run = r

\* The n-th event of its thread is live on its way to socket c.
LiveOn(c, n) == \E i \in 1 .. Len(wire[c]) : Live(wire[c][i]) /\ wire[c][i].n = n

\* The n-th event of thread t is on its way to the page.
OnWay(t, n) == Thread(socketRef) = t /\ LiveOn(socketRef, n)

Place(t, n) == [thread |-> t, n |-> n]

WaitTyped ==
    /\ alive \subseteq Runs
    /\ {isRunning, isViewingHistory, cancel} \subseteq BOOLEAN
    /\ mine \in {0} \cup Runs /\ missed \subseteq Runs
    /\ Len(events) <= MaxShown

\* Whatever is on its way is of an event that was cached.
Logged ==
    \A c \in Sockets : \A i \in 1 .. Len(wire[c]) : wire[c][i].n \in 1 .. Len(log[Thread(c)])

\* Runs under way were accepted, and runs report what was submitted in the
\* thread they report it in.
Begun ==
    /\ \A r \in alive : start[r].state \in {"accepted", "failed"}
    /\ \A t \in Threads : \A n \in 1 .. Len(log[t]) :
         start[log[t][n].run].state # "none" /\ start[log[t][n].run].thread = t

\* What the page has handled was sent, and is not on its way again.
HeardOnce ==
    /\ heard \subseteq [thread : Threads, n : Nat]
    /\ \A e \in heard : e.n \in Sent[e.thread]
    /\ \A c \in Sockets : \A n \in Nat : LiveOn(c, n) => Place(Thread(c), n) \notin heard

Accounted ==
    \A t \in Threads : \A n \in 1 .. Len(log[t]) : IsFinal(log[t][n]) =>
        n \in unsent[t] \/ OnWay(t, n) \/ Place(t, n) \in heard \/ log[t][n].run \in missed

\* While the page waits for a run no end of which it missed, it has handled
\* none, and the run is under way or has reported one.
Waits ==
    isRunning /\ mine # 0 /\ mine \notin missed =>
        /\ start[mine].state # "none" /\ start[mine].thread = threadId
        /\ ~Heard(mine)
        /\ mine \in alive \/ start[mine].state = "asked" \/ Ended(mine)

WaitInv == WaitTyped /\ Logged /\ Begun /\ HeardOnce /\ Accounted /\ Waits

\* Runs are numbered from one.
LEMMA RunsAre == \E k \in Nat : Runs = 1 .. k
<1> DEFINE S == {b.runs : b \in Budgets}
<1>1. PICK b \in Budgets : \A a \in Budgets : a.runs <= b.runs
  BY DeliveryAssumption
<1>2. b.runs \in S /\ \A m \in S : m <= b.runs
  BY <1>1
<1>3. Largest(S) \in S
  <2> HIDE DEF S
  <2> QED
    BY <1>2 DEF Largest
<1>4. S \subseteq Nat
  BY DeliveryAssumption
<1> QED
  BY <1>3, <1>4 DEF Runs

\* A set of some runs has a largest.
LEMMA LargestRun ==
    ASSUME NEW S, S \subseteq Runs, S # {}
    PROVE  \E r \in S : \A s \in S : s <= r
<1>1. PICK k \in Nat : Runs = 1 .. k
  BY RunsAre
<1> DEFINE T == {n \in Nat : k - n \in S}
<1>2. T \subseteq Nat /\ T # {}
  <2>1. PICK r \in S : TRUE
    OBVIOUS
  <2>2. r \in Int /\ r <= k /\ k - r \in Nat /\ k - (k - r) = r
    BY <1>1
  <2>3. k - r \in T
    BY <2>1, <2>2
  <2> QED
    BY <2>3
<1> HIDE DEF T
<1>3. \E x \in T : \A y \in T : ~(<<y, x>> \in OpToRel(<, Nat))
  BY <1>2, NatLessThanWellFounded, WFMin
<1>4. PICK x \in T : \A y \in T : ~(y < x)
  BY <1>2, <1>3 DEF OpToRel
<1>5. x \in Nat /\ k - x \in S
  BY DEF T
<1>6. ASSUME NEW s \in S PROVE s <= k - x
  <2>1. s \in Int /\ s <= k /\ k - s \in Nat /\ k - (k - s) = s
    BY <1>1
  <2>2. k - s \in T
    BY <2>1 DEF T
  <2> QED
    BY <1>4, <1>5, <2>1, <2>2
<1> QED
  BY <1>5, <1>6

\* What a session's detail says of its run.
LEMMA LatestIs ==
    ASSUME alive \subseteq Runs, NEW t, Latest(t) # 0
    PROVE  Latest(t) \in alive /\ start[Latest(t)].thread = t
<1> DEFINE here == {r \in alive : start[r].thread = t}
<1>1. here # {} /\ Latest(t) = CHOOSE r \in here : \A s \in here : s <= r
  BY DEF Latest
<1>2. here \subseteq Runs
  OBVIOUS
<1>3. \E r \in here : \A s \in here : s <= r
  <2> HIDE DEF here
  <2> QED
    BY <1>1, <1>2, LargestRun
<1>4. Latest(t) \in here
  <2> HIDE DEF here
  <2> QED
    BY <1>1, <1>3
<1> QED
  BY <1>4

\* The ends on the way to a socket, by message.
LEMMA EndsAre ==
    ASSUME WireFresh, NEW c \in Sockets, NEW r
    PROVE  r \in Ends(c, OnWire(c)) <=> \E n \in Nat : LiveOn(c, n) /\ FinalAt(Thread(c), n, r)
<1>1. wire[c] \in Seq(Messages) /\ DOMAIN wire[c] = 1 .. Len(wire[c])
  BY DEF WireFresh
<1>2. ASSUME NEW i \in 1 .. Len(wire[c]) PROVE wire[c][i].n \in Nat
  <2>1. wire[c][i] \in Messages
    BY <1>1, ElementOf
  <2> QED
    BY <2>1 DEF Messages
<1>3. r \in Ends(c, OnWire(c)) <=>
        \E i \in 1 .. Len(wire[c]) : /\ Live(wire[c][i])
                                     /\ FinalAt(Thread(c), wire[c][i].n, r)
  BY <1>1 DEF Ends, OnWire, Event, IsFinal, Live, FinalAt
<1> QED
  BY <1>2, <1>3 DEF LiveOn

\* A connection that has yet to be replayed to has nothing on its way.
Early(c) == srv[c] \in {"none", "asked", "accepted"}
NothingEarly == \A c \in Sockets : Early(c) => wire[c] = <<>>

\* Messages are lost, but no new ones are on their way.
WiresFewer ==
    /\ \A c \in Sockets : wire'[c] = <<>> \/ (wire'[c] = wire[c] /\ Thread(c)' = Thread(c))
    /\ \A c \in Sockets : Early(c)' => Early(c)

\* Requests stay those of the same threads, and runs under way accepted ones.
RunsGoOn ==
    /\ \A r \in Runs : start[r].state # "none" =>
         start'[r].state # "none" /\ start'[r].thread = start[r].thread
    /\ \A r \in alive' : start'[r].state \in {"accepted", "failed"}

\* What is on its way to a socket was on its way there.
LEMMA Fewer ==
    ASSUME WiresFewer, NEW c \in Sockets, NEW n, LiveOn(c, n)'
    PROVE  LiveOn(c, n) /\ Thread(c)' = Thread(c)
BY DEF WiresFewer, LiveOn

\* The messages stay those of cached events.
LEMMA LoggedKept ==
    ASSUME Logged, NothingEarly, WiresFewer, UNCHANGED log
    PROVE  Logged' /\ NothingEarly'
BY DEF Logged, NothingEarly, WiresFewer

\* An event of the log is a record with a run.
LEMMA EventIs ==
    ASSUME LogTyped, NEW t \in Threads, NEW n \in 1 .. Len(log[t])
    PROVE  log[t][n] \in [run : Runs, kind : Kinds] /\ log[t][n].run \in Runs
<1>1. log[t] \in Seq([run : Runs, kind : Kinds])
  BY DEF LogTyped
<1>2. log[t][n] \in [run : Runs, kind : Kinds]
  BY <1>1, ElementOf
<1> QED
  BY <1>2

\* The log stays one of submitted runs.
LEMMA BegunKept ==
    ASSUME LogTyped, Begun, RunsGoOn, UNCHANGED log
    PROVE  Begun'
BY EventIs DEF Begun, RunsGoOn

\* What was handled stays so, and is not on its way.
LEMMA HeardKept ==
    ASSUME HeardOnce, SentKept, UNCHANGED heard,
           \A c \in Sockets : \A n : LiveOn(c, n)' => LiveOn(c, n) /\ Thread(c)' = Thread(c)
    PROVE  HeardOnce'
<1>1. \A e \in heard : e.thread \in Threads /\ e.n \in Sent'[e.thread]
  BY DEF HeardOnce, SentKept
<1> QED
  BY <1>1 DEF HeardOnce, Place

\* Ends stay accounted for while those on their way stay so or are missed.
LEMMA AccountedKept ==
    ASSUME LogTyped, Accounted, UNCHANGED <<log, unsent, heard>>, missed \subseteq missed',
           \A t \in Threads : \A n \in 1 .. Len(log[t]) :
               IsFinal(log[t][n]) /\ OnWay(t, n) => OnWay(t, n)' \/ log[t][n].run \in missed'
    PROVE  Accounted'
BY DEF Accounted, IsFinal, Place

\* What run r has reported, and what of it the page has handled, are the same.
LEMMA ReportsSame ==
    ASSUME UNCHANGED <<log, heard>>, NEW r \in Runs, start'[r].thread = start[r].thread
    PROVE  (Heard(r)' <=> Heard(r)) /\ (Ended(r)' <=> Ended(r))
BY DEF Heard, Ended, IsFinal

\* Steps that no run, no request and no move has a part in: what was on its
\* way to the page still is, or is missed.
LEMMA QuietKeeps ==
    ASSUME LogTyped, WaitInv, NothingEarly, WiresFewer, WaitTyped',
           UNCHANGED <<log, unsent, alive, start, isRunning, mine, heard, threadId>>,
           missed \subseteq missed',
           \A t \in Threads : \A n \in 1 .. Len(log[t]) :
               IsFinal(log[t][n]) /\ OnWay(t, n) => OnWay(t, n)' \/ log[t][n].run \in missed'
    PROVE  WaitInv' /\ NothingEarly'
<1> USE DEF WaitInv
<1>1. RunsGoOn /\ SentKept
  BY DEF RunsGoOn, Begun, SentKept, Sent, WaitTyped
<1>2. Begun' /\ HeardOnce' /\ Accounted'
  <2>1. Begun'
    BY <1>1, BegunKept
  <2>2. HeardOnce'
    BY <1>1, HeardKept, Fewer
  <2> QED
    BY <2>1, <2>2, AccountedKept
<1>3. Logged' /\ NothingEarly'
  BY LoggedKept
<1>4. Waits'
  BY ReportsSame DEF Waits, WaitTyped
<1> QED
  BY <1>2, <1>3, <1>4

\* What the page's socket had yet to deliver is missed.
LEMMA Lost ==
    ASSUME WireFresh, SocketTyped, LogTyped,
           missed' = missed \cup Ends(socketRef, OnWire(socketRef)),
           NEW t \in Threads, NEW n \in 1 .. Len(log[t]), IsFinal(log[t][n]), OnWay(t, n)
    PROVE  log[t][n].run \in missed'
<1>1. n \in Nat /\ LiveOn(socketRef, n) /\ FinalAt(Thread(socketRef), n, log[t][n].run)
  BY DEF OnWay, FinalAt, IsFinal, LogTyped
<1> QED
  BY <1>1, EndsAre DEF SocketTyped

\* Only runs end.
LEMMA EndsAreRuns ==
    ASSUME WireFresh, SocketTyped, LogTyped, Logged, NEW c \in Sockets
    PROVE  Ends(c, OnWire(c)) \subseteq Runs
<1> SUFFICES ASSUME NEW r \in Ends(c, OnWire(c)) PROVE r \in Runs
  OBVIOUS
<1>1. PICK n \in Nat : LiveOn(c, n) /\ FinalAt(Thread(c), n, r)
  BY EndsAre
<1>2. Thread(c) \in Threads /\ n \in 1 .. Len(log[Thread(c)])
  BY <1>1 DEF LiveOn, Logged, SocketTyped, Thread
<1>3. log[Thread(c)][n] \in [run : Runs, kind : Kinds]
  BY <1>2, ElementOf DEF LogTyped
<1> QED
  BY <1>1, <1>3 DEF FinalAt

\* Connections that end, are lost or replaced.
LEMMA WaitLoses ==
    ASSUME DeliveryInv, DeliveryInv', WaitInv, NothingEarly,
           \/ Restart \/ RunEffect \/ ReconnectTimer
           \/ \E c \in Sockets : ServerFault(c)
    PROVE  WaitInv' /\ NothingEarly'
<1> USE DEF DeliveryInv, SocketInv
<1>0. UNCHANGED <<log, unsent, alive, start, cancel, isRunning, isViewingHistory, mine, heard,
                  threadId, events>>
  BY DEF Restart, RunEffect, ReconnectTimer, ServerFault, Refuse, SubscriptionBreaks, Drop,
         workVars, requestVars, PageUnchanged
<1>1. ASSUME missed' = missed \/ missed' = missed \cup Ends(socketRef, OnWire(socketRef))
      PROVE  WaitTyped' /\ missed \subseteq missed'
  <2>1. missed' \subseteq Runs
    BY <1>1, EndsAreRuns DEF WaitInv, WaitTyped, SocketTyped
  <2> QED
    BY <1>0, <1>1, <2>1 DEF WaitInv, WaitTyped
<1>2. ASSUME WiresFewer,
             missed' = missed \/ missed' = missed \cup Ends(socketRef, OnWire(socketRef)),
             \/ missed' = missed \cup Ends(socketRef, OnWire(socketRef))
             \/ \A t \in Threads : \A n \in 1 .. Len(log[t]) : OnWay(t, n) => OnWay(t, n)'
      PROVE  WaitInv' /\ NothingEarly'
  <2>1. \A t \in Threads : \A n \in 1 .. Len(log[t]) :
          IsFinal(log[t][n]) /\ OnWay(t, n) => OnWay(t, n)' \/ log[t][n].run \in missed'
    BY <1>2, Lost
  <2> QED
    BY <1>0, <1>1, <1>2, <2>1, QuietKeeps
<1>4. CASE Restart
  BY <1>2, <1>4 DEF Restart, WiresFewer, Early
<1>5. CASE RunEffect \/ ReconnectTimer
  <2>1. /\ wire' = [wire EXCEPT ![socketRef] = <<>>]
        /\ srv' = [srv EXCEPT ![socketRef + 1] = "asked"]
        /\ missed' = missed \cup Ends(socketRef, OnWire(socketRef))
        /\ socketRef' = socketRef + 1
    BY <1>5 DEF RunEffect, ReconnectTimer, Connect
  <2>2. \A c \in Sockets : wire'[c] = <<>>
    BY <2>1 DEF WireFresh, OneSocket
  <2>3. srv[socketRef + 1] = "none" /\ socketRef + 1 \in Sockets
    BY <1>5, <2>1, SocketsConnect, OwedTyped DEF PlaceInv
  <2>4. WiresFewer
    BY <2>1, <2>2, <2>3 DEF WiresFewer, Early, PlaceInv
  <2> QED
    BY <1>2, <2>1, <2>4
<1>6. ASSUME NEW c \in Sockets, ServerFault(c) PROVE WaitInv' /\ NothingEarly'
  <2>1. /\ Lose(c, sock[c].state) /\ socketRef' = socketRef
        /\ srv' = srv \/ srv' = [srv EXCEPT ![c] = "over"]
    BY <1>6 DEF ServerFault, Refuse, SubscriptionBreaks, Drop, PageUnchanged
  <2>2. /\ sock' = [sock EXCEPT ![c].state = "closed"]
        /\ wire' = [wire EXCEPT ![c] = <<>>]
        /\ missed' = IF c = socketRef THEN missed \cup Ends(c, OnWire(c)) ELSE missed
    BY <2>1 DEF Lose
  <2>3. \A d \in Sockets : d # c => sock'[d] = sock[d] /\ wire'[d] = wire[d]
    BY <2>2 DEF SocketTyped, WireFresh
  <2>4. WiresFewer
    BY <2>1, <2>2, <2>3 DEF WiresFewer, Early, PlaceInv, WireFresh, Thread
  <2>5. c # socketRef => \A t \in Threads : \A n \in 1 .. Len(log[t]) :
                           OnWay(t, n) => OnWay(t, n)'
    BY <2>1, <2>3 DEF OnWay, LiveOn, Thread, SocketTyped
  <2> QED
    BY <1>2, <2>2, <2>4, <2>5
<1> QED
  BY <1>4, <1>5, <1>6

\* The server's other steps, and the user's that ask or are not answered yet.
LEMMA WaitGoesOn ==
    ASSUME DeliveryInv, WaitInv, NothingEarly,
           \/ Cancel \/ \E t \in Threads : AskSession(t)
           \/ \E l \in load : \E q \in BOOLEAN : ReadSession(l, q)
           \/ \E c \in Sockets : Accept(c) \/ Register(c) \/ Subscribe(c) \/ Disconnect(c)
    PROVE  WaitInv' /\ NothingEarly'
<1> USE DEF DeliveryInv, SocketInv
<1>0. UNCHANGED <<log, unsent, alive, start, isRunning, isViewingHistory, mine, heard, missed,
                  wire, threadId, events, socketRef>>
  BY DEF Cancel, ReadSession, AskSession, Accept, Register, Subscribe, Disconnect, workVars,
         netVars, pageVars, requestVars, historyVars
<1>1. \A c \in Sockets : Thread(c)' = Thread(c)
  <2>1. CASE UNCHANGED sock
    BY <2>1 DEF Thread
  <2>2. ASSUME NEW c \in Sockets, Accept(c) PROVE \A d \in Sockets : Thread(d)' = Thread(d)
    <3> DEFINE q == IF sock[c].state = "connecting" THEN "open" ELSE sock[c].state
    <3>1. sock' = [sock EXCEPT ![c].state = q]
      BY <2>2 DEF Accept
    <3>2. q \in SockStates
      BY DEF SocketTyped, SockStates
    <3> HIDE DEF q
    <3> QED
      BY <3>1, <3>2, LoseKeepsThreads DEF ThreadsKept
  <2> QED
    BY <2>1, <2>2 DEF Cancel, ReadSession, AskSession, Register, Subscribe, Disconnect, pageVars
<1>2. WiresFewer
  BY <1>0, <1>1 DEF WiresFewer, Early, PlaceInv, Cancel, ReadSession, AskSession, Accept,
     Register, Subscribe, Disconnect, netVars
<1>3. \A t \in Threads : \A n \in 1 .. Len(log[t]) : OnWay(t, n) => OnWay(t, n)'
  BY <1>0, <1>1 DEF OnWay, LiveOn, SocketTyped
<1>4. WaitTyped'
  <2>1. cancel' \in BOOLEAN
    BY DEF Cancel, ReadSession, AskSession, Accept, Register, Subscribe, Disconnect,
           requestVars, WaitInv, WaitTyped
  <2> QED
    BY <1>0, <2>1 DEF WaitInv, WaitTyped
<1> QED
  BY <1>0, <1>2, <1>3, <1>4, QuietKeeps

\* What is replayed was cached.
LEMMA ReplayedLogged ==
    ASSUME LogTyped, SocketTyped, NEW c \in Sockets, NEW h \in Histories(Thread(c)),
           NEW i \in 1 .. Len(h)
    PROVE  h[i] \in 1 .. Len(log[Thread(c)])
<1> DEFINE k == Len(log[Thread(c)])
           all == [n \in 1 .. k |-> n]
           kept == IF Len(all) > CacheCap THEN Len(all) - CacheCap + 1 ELSE 1
<1>1. k \in Nat /\ CacheCap \in Nat \ {0}
  BY DeliveryAssumption DEF LogTyped, SocketTyped, Thread
<1>2. Len(all) = k /\ kept \in 1 .. (k + 1)
  BY <1>1
<1>3. h \in {SubSeq(all, kept, Len(all)), all, <<>>}
  BY DEF Histories
<1>4. CASE h = SubSeq(all, kept, Len(all))
  <2>1. Len(h) = k - kept + 1 /\ h[i] = all[kept + i - 1]
    BY <1>1, <1>2, <1>4
  <2>2. kept + i - 1 \in 1 .. k
    BY <1>1, <1>2, <2>1
  <2> HIDE DEF kept
  <2> QED
    BY <2>1, <2>2
<1>5. CASE h = all
  BY <1>1, <1>5
<1>6. CASE h = <<>>
  BY <1>6
<1> QED
  BY <1>3, <1>4, <1>5, <1>6

\* History is sent to a socket that has been sent nothing.
LEMMA WaitReplay ==
    ASSUME DeliveryInv, WaitInv, NothingEarly, NEW c \in Sockets, Replay(c)
    PROVE  WaitInv' /\ NothingEarly'
<1> USE DEF DeliveryInv, SocketInv
<1>1. /\ wire[c] = <<>> /\ srv' = [srv EXCEPT ![c] = "replayed"]
      /\ UNCHANGED <<log, unsent, alive, sock, threadId, socketRef, events, isRunning,
                     isViewingHistory, start, cancel, mine, heard, missed>>
  BY DEF Replay, NothingEarly, Early, workVars, pageVars, requestVars, historyVars
<1>2. \A d \in Sockets : Thread(d)' = Thread(d)
  BY <1>1 DEF Thread
<1>3. PICK h \in Histories(Thread(c)) :
         wire' \in {wire, [wire EXCEPT ![c] = [i \in 1 .. Len(h) |-> Replayed(h[i])]]}
  BY DEF Replay
<1> DEFINE ms == [i \in 1 .. Len(h) |-> Replayed(h[i])]
<1>4. Len(h) \in Nat
  BY DEF Histories, SocketTyped, Thread, LogTyped
<1>5. Len(ms) = Len(h) /\ \A i \in 1 .. Len(ms) : ~Live(ms[i]) /\ ms[i].n = h[i]
  BY <1>4 DEF Replayed, Live
<1>6. \A i \in 1 .. Len(ms) : ms[i].n \in 1 .. Len(log[Thread(c)])
  BY <1>5, ReplayedLogged
<1>7. wire' = wire \/ wire' = [wire EXCEPT ![c] = ms]
  BY <1>3
<1> HIDE DEF ms
<1>8. \A d \in Sockets : wire'[d] = IF d = c /\ wire' # wire THEN ms ELSE wire[d]
  BY <1>7 DEF WireFresh
<1>9. \A d \in Sockets : \A n : LiveOn(d, n)' <=> LiveOn(d, n)
  BY <1>1, <1>5, <1>8 DEF LiveOn
<1>10. RunsGoOn /\ SentKept
  BY <1>1 DEF RunsGoOn, WaitInv, WaitTyped, Begun, SentKept, Sent
<1>11. Begun' /\ HeardOnce'
  BY <1>1, <1>2, <1>9, <1>10, BegunKept, HeardKept DEF WaitInv
<1>12. Accounted'
  BY <1>1, <1>2, <1>9, AccountedKept DEF WaitInv, OnWay, SocketTyped
<1>13. Logged'
  BY <1>1, <1>2, <1>6, <1>8 DEF WaitInv, Logged
<1>14. NothingEarly'
  BY <1>1, <1>8 DEF NothingEarly, Early, PlaceInv
<1>15. WaitTyped' /\ Waits'
  BY <1>1, ReportsSame DEF WaitInv, WaitTyped, Waits
<1> QED
  BY <1>11, <1>12, <1>13, <1>14, <1>15 DEF WaitInv

\* The list that is shown stays as short as it must be.
LEMMA ShownShort ==
    ASSUME NEW S, NEW e \in Seq(S)
    PROVE  Len(Shown(e)) <= MaxShown
<1>1. MaxShown \in Nat \ {0} /\ Len(e) \in Nat
  BY DeliveryAssumption
<1>2. CASE Len(e) > MaxShown
  <2>1. Shown(e) = SubSeq(e, Len(e) - MaxShown + 1, Len(e))
    BY <1>2 DEF Shown
  <2> QED
    BY <1>1, <1>2, <2>1
<1> QED
  BY <1>1, <1>2 DEF Shown

\* The page handles a message: an end stops it, and was not handled before.
LEMMA WaitReceive ==
    ASSUME DeliveryInv, WaitInv, NothingEarly, NEW c \in Sockets, Receive(c)
    PROVE  WaitInv' /\ NothingEarly'
<1> USE DEF DeliveryInv, SocketInv
<1> DEFINE ms == wire[c]
           m == Head(wire[c])
           t == Thread(c)
           e == Event(c, m)
<1>1. /\ c = socketRef /\ ms # <<>> /\ ms \in Seq(Messages)
      /\ wire' = [wire EXCEPT ![c] = Tail(ms)]
      /\ isRunning' = (isRunning /\ ~(Live(m) /\ IsFinal(e)))
      /\ heard' = IF Live(m) /\ IsFinal(e) THEN heard \cup {Place(t, m.n)} ELSE heard
      /\ UNCHANGED <<log, unsent, alive, srv, threadId, socketRef, sock, start, cancel,
                     isViewingHistory, mine, missed>>
  BY DEF Receive, Stops, Live, Place, WireFresh, workVars, requestVars
<1>2. t \in Threads /\ \A d \in Sockets : Thread(d)' = Thread(d)
  BY <1>1 DEF Thread, SocketTyped
<1>3. /\ m = ms[1] /\ 1 \in 1 .. Len(ms) /\ m \in Messages
      /\ Len(Tail(ms)) = Len(ms) - 1 /\ Len(ms) \in Nat
      /\ \A i \in 1 .. Len(Tail(ms)) : i + 1 \in 1 .. Len(ms) /\ Tail(ms)[i] = ms[i + 1]
  BY <1>1
<1>4. wire'[c] = Tail(ms) /\ \A d \in Sockets : d # c => wire'[d] = wire[d]
  BY <1>1 DEF WireFresh
<1>5. /\ m.n \in 1 .. Len(log[t]) /\ e = log[t][m.n]
      /\ e.run \in Runs /\ (IsFinal(e) <=> FinalAt(t, m.n, e.run))
  <2>1. m.n \in 1 .. Len(log[t])
    BY <1>3 DEF WaitInv, Logged
  <2>2. log[t][m.n] \in [run : Runs, kind : Kinds]
    BY <1>2, <2>1, ElementOf DEF LogTyped
  <2> QED
    BY <2>1, <2>2 DEF Event, IsFinal, FinalAt
<1>6. Live(m) => LiveOn(c, m.n)
  BY <1>3 DEF LiveOn
<1> HIDE DEF ms, m, e, t
<1>7. ASSUME NEW d \in Sockets, NEW n, LiveOn(d, n)' PROVE LiveOn(d, n)
  <2>1. CASE d # c
    BY <1>4, <1>7, <2>1 DEF LiveOn
  <2>2. CASE d = c
    <3>1. PICK i \in 1 .. Len(Tail(ms)) : Live(Tail(ms)[i]) /\ Tail(ms)[i].n = n
      BY <1>4, <1>7, <2>2 DEF LiveOn
    <3>2. i + 1 \in 1 .. Len(ms) /\ Live(ms[i + 1]) /\ ms[i + 1].n = n
      BY <1>3, <3>1
    <3> QED
      BY <2>2, <3>2 DEF LiveOn, ms
  <2> QED
    BY <2>1, <2>2
<1>8. PICK k \in Nat : k = m.n
  BY <1>3 DEF Messages
<1>9. Live(m) => ~LiveOn(c, k)'
  <2> SUFFICES ASSUME Live(m), NEW i \in 1 .. Len(Tail(ms)),
                      Live(Tail(ms)[i]), Tail(ms)[i].n = k
               PROVE  FALSE
    BY <1>4 DEF LiveOn
  <2>1. Fresh(ms, 1, t, Sent[t], events) /\ ms[i + 1].n = ms[1].n
    BY <1>3, <1>8, WireFreshIs DEF ms, t
  <2>2. i + 1 = 1
    BY <1>3, <2>1 DEF Fresh
  <2> QED
    BY <1>3, <2>2
<1>10. \A n : LiveOn(c, n) => LiveOn(c, n)' \/ (Live(m) /\ n = m.n)
  <2> SUFFICES ASSUME NEW i \in 1 .. Len(ms), Live(ms[i]), i # 1
               PROVE  \E j \in 1 .. Len(Tail(ms)) : Tail(ms)[j] = ms[i]
    BY <1>3, <1>4 DEF LiveOn, ms
  <2>1. i - 1 \in 1 .. Len(Tail(ms)) /\ (i - 1) + 1 = i
    BY <1>3
  <2> QED
    BY <1>3, <2>1
<1>11. Live(m) => m.n \notin unsent[t]
  BY <1>3, WireFreshIs DEF Fresh, Sent, ms, t, SocketTyped, Thread
<1>12. RunsGoOn /\ SentKept
  BY <1>1 DEF RunsGoOn, WaitInv, WaitTyped, Begun, SentKept, Sent
<1>13. Begun'
  BY <1>1, <1>12, BegunKept DEF WaitInv
<1>14. HeardOnce'
  <2>1. Live(m) => m.n \in Sent[t]
    BY <1>3, WireFreshIs DEF Fresh, ms, t
  <2>2. Sent' = Sent
    BY <1>1 DEF Sent
  <2>3. \A q \in heard' : q \in [thread : Threads, n : Nat] /\ q.n \in Sent[q.thread]
    <3>1. Place(t, m.n) \in [thread : Threads, n : Nat]
          /\ Place(t, m.n).thread = t /\ Place(t, m.n).n = m.n
      BY <1>2, <1>8 DEF Place
    <3> QED
      BY <1>1, <2>1, <3>1 DEF WaitInv, HeardOnce
  <2>4. ASSUME NEW d \in Sockets, NEW n \in Nat, LiveOn(d, n)', Place(Thread(d), n) \in heard'
        PROVE  FALSE
    <3>1. LiveOn(d, n) /\ Place(Thread(d), n) \notin heard
      BY <1>7, <2>4 DEF WaitInv, HeardOnce
    <3>2. Place(Thread(d), n) = Place(t, m.n) /\ Live(m)
      BY <1>1, <2>4, <3>1
    <3>3. n = k
      BY <1>8, <3>2 DEF Place
    <3>4. d = c
      <4>1. wire[d] # <<>>
        BY <3>1 DEF LiveOn
      <4> QED
        BY <1>1, <4>1 DEF WireFresh, OneSocket
    <3> QED
      BY <1>9, <2>4, <3>2, <3>3, <3>4
  <2> QED
    BY <1>2, <2>2, <2>3, <2>4 DEF HeardOnce
<1>15. Logged'
  BY <1>1, <1>2, <1>3, <1>4 DEF WaitInv, Logged, ms, t
<1>16. NothingEarly'
  BY <1>1, <1>3, <1>4 DEF NothingEarly, Early, ms
<1>17. Accounted'
  <2> SUFFICES ASSUME NEW s \in Threads, NEW n \in 1 .. Len(log[s]), IsFinal(log[s][n]),
                      OnWay(s, n)
               PROVE  OnWay(s, n)' \/ Place(s, n) \in heard'
    BY <1>1 DEF WaitInv, Accounted, IsFinal
  <2>1. s = t /\ LiveOn(c, n)
    BY <1>1 DEF OnWay, t
  <2>2. CASE LiveOn(c, n)'
    BY <1>1, <1>2, <2>1, <2>2 DEF OnWay, t
  <2>3. CASE Live(m) /\ n = m.n
    BY <1>1, <1>5, <2>1, <2>3
  <2> QED
    BY <1>10, <2>1, <2>2, <2>3
<1>18. Waits'
  <2> SUFFICES ASSUME isRunning', mine \in Runs, mine \notin missed
               PROVE  /\ start[mine].state # "none" /\ start[mine].thread = threadId
                      /\ ~Heard(mine)'
                      /\ mine \in alive \/ start[mine].state = "asked" \/ Ended(mine)'
    BY <1>1 DEF Waits, WaitInv, WaitTyped
  <2>1. isRunning /\ ~(Live(m) /\ IsFinal(e))
    BY <1>1
  <2>2. mine # 0 /\ heard' = heard
    BY <1>1, <2>1, RunsAre
  <2> QED
    BY <1>1, <2>1, <2>2, ReportsSame DEF WaitInv, Waits
<1>19. WaitTyped'
  <2>1. Len(events') <= MaxShown
    <3>1. [thread |-> t, n |-> m.n] \in [thread : Threads, n : Nat]
      BY <1>2, <1>3 DEF Messages
    <3>2. Append(events, [thread |-> t, n |-> m.n]) \in Seq([thread : Threads, n : Nat])
      BY <3>1 DEF ShownOnce
    <3>3. events' \in {events, Shown(Append(events, [thread |-> t, n |-> m.n]))}
      BY DEF Receive, m, t
    <3> QED
      BY <3>2, <3>3, ShownShort DEF WaitInv, WaitTyped
  <2> QED
    BY <1>1, <2>1 DEF WaitInv, WaitTyped
<1> QED
  BY <1>13, <1>14, <1>15, <1>16, <1>17, <1>18, <1>19 DEF WaitInv

\* A step that leaves the log and what is on its way.
LEMMA WiresAlone ==
    ASSUME WaitInv, NothingEarly, UNCHANGED <<log, sock, wire, srv>>
    PROVE  /\ Logged' /\ NothingEarly'
           /\ \A c \in Sockets : \A n : LiveOn(c, n)' <=> LiveOn(c, n)
           /\ \A c \in Sockets : Thread(c)' = Thread(c)
BY DEF WaitInv, Logged, NothingEarly, Early, LiveOn, Thread

\* A run reports: what it reports is to be sent.
LEMMA WaitCache ==
    ASSUME DeliveryInv, DeliveryInv', WaitInv, NothingEarly,
           NEW r \in Runs, NEW k \in Kinds, CacheEvent(r, k)
    PROVE  WaitInv' /\ NothingEarly'
<1> USE DEF DeliveryInv, SocketInv
<1> DEFINE e == [run |-> r, kind |-> k]
<1>0. PICK t \in Threads, l \in Nat : t = start[r].thread /\ l = Len(log[t]) + 1
  BY DEF LogTyped
<1>1. /\ r \in alive /\ log' = [log EXCEPT ![t] = Append(log[t], e)]
      /\ unsent' = [unsent EXCEPT ![t] = unsent[t] \cup {l}]
      /\ UNCHANGED <<alive, srv, place, wire, threadId, socketRef, sock, events, isRunning,
                     isViewingHistory, start, cancel, mine, heard, missed>>
  BY <1>0 DEF CacheEvent, netVars, pageVars, requestVars, historyVars
<1>2. e.run = r
  OBVIOUS
<1>3. /\ Len(log'[t]) = l /\ log'[t][l] = e
      /\ 1 .. l = (1 .. Len(log[t])) \cup {l}
      /\ \A n \in 1 .. Len(log[t]) : log'[t][n] = log[t][n]
  BY <1>0, <1>1 DEF LogTyped
<1>4. \A s \in Threads : s # t => log'[s] = log[s] /\ unsent'[s] = unsent[s]
  BY <1>1 DEF LogTyped
<1>5. unsent'[t] = unsent[t] \cup {l}
  BY <1>1 DEF LogTyped
<1> HIDE DEF e
<1>6. /\ \A d \in Sockets : Thread(d)' = Thread(d) /\ Thread(d) \in Threads
      /\ \A d \in Sockets : \A n : LiveOn(d, n)' <=> LiveOn(d, n)
  BY <1>1 DEF Thread, LiveOn, SocketTyped
<1>7. \A s \in Threads : \A n \in 1 .. Len(log[s]) :
         n \in 1 .. Len(log'[s]) /\ log'[s][n] = log[s][n]
  BY <1>3, <1>4
<1>8. \A s \in Threads : \A n \in 1 .. Len(log'[s]) :
         n \in 1 .. Len(log[s]) \/ (s = t /\ n = l)
  BY <1>3, <1>4
<1>9. Begun'
  <2>1. ASSUME NEW s \in Threads, NEW n \in 1 .. Len(log'[s])
        PROVE  start[log'[s][n].run].state # "none" /\ start[log'[s][n].run].thread = s
    <3>1. CASE n \in 1 .. Len(log[s])
      BY <1>7, <3>1 DEF WaitInv, Begun
    <3>2. CASE s = t /\ n = l
      BY <1>0, <1>1, <1>2, <1>3, <3>2 DEF WaitInv, Begun
    <3> QED
      BY <1>8, <3>1, <3>2
  <2> QED
    BY <1>1, <2>1 DEF WaitInv, Begun
<1>10. HeardOnce'
  <2>1. SentKept
    BY LogCache
  <2> QED
    BY <1>1, <1>6, <2>1, HeardKept DEF WaitInv
<1>11. Accounted'
  <2> SUFFICES ASSUME NEW s \in Threads, NEW n \in 1 .. Len(log'[s]), IsFinal(log'[s][n])
               PROVE  \/ n \in unsent'[s] \/ OnWay(s, n)'
                      \/ Place(s, n) \in heard \/ log'[s][n].run \in missed
    BY <1>1 DEF Accounted, IsFinal, Place
  <2>1. CASE s = t /\ n = l
    BY <1>5, <2>1
  <2>2. CASE n \in 1 .. Len(log[s])
    <3>1. n \in unsent[s] \/ OnWay(s, n) \/ Place(s, n) \in heard \/ log[s][n].run \in missed
      BY <1>7, <2>2 DEF WaitInv, Accounted
    <3>2. OnWay(s, n) => OnWay(s, n)'
      BY <1>1, <1>6 DEF OnWay, SocketTyped
    <3>3. n \in unsent[s] => n \in unsent'[s]
      BY <1>4, <1>5
    <3> QED
      BY <1>7, <2>2, <3>1, <3>2, <3>3
  <2> QED
    BY <1>8, <2>1, <2>2
<1>12. Logged'
  <2>1. ASSUME NEW d \in Sockets, NEW i \in 1 .. Len(wire[d])
        PROVE  wire[d][i].n \in 1 .. Len(log'[Thread(d)])
    BY <1>6, <1>7 DEF WaitInv, Logged
  <2> QED
    BY <1>1, <1>6, <2>1 DEF Logged
<1>13. Waits'
  <2>1. \A q \in Runs : Heard(q)' => Heard(q)
    <3> SUFFICES ASSUME NEW q \in Runs, NEW h \in heard, log'[h.thread][h.n].run = q
                 PROVE  log[h.thread][h.n].run = q
      BY <1>1 DEF Heard
    <3>1. h.thread \in Threads /\ h.n \in 1 .. Len(log[h.thread])
      BY DEF WaitInv, HeardOnce, Sent
    <3> QED
      BY <1>7, <3>1
  <2>2. \A q \in Runs : Ended(q) => Ended(q)'
    <3> SUFFICES ASSUME NEW q \in Runs, Ended(q) PROVE Ended(q)'
      OBVIOUS
    <3>1. PICK s \in Threads : s = start[q].thread
      BY DEF LogTyped
    <3>2. DOMAIN log[s] = 1 .. Len(log[s]) /\ DOMAIN log'[s] = 1 .. Len(log'[s])
      BY DEF LogTyped
    <3>3. PICK n \in 1 .. Len(log[s]) : log[s][n].run = q /\ IsFinal(log[s][n])
      BY <3>1, <3>2 DEF Ended
    <3> QED
      BY <1>1, <1>7, <3>1, <3>2, <3>3 DEF Ended, IsFinal
  <2> QED
    BY <1>1, <2>1, <2>2 DEF WaitInv, Waits, WaitTyped
<1>14. NothingEarly' /\ WaitTyped'
  BY <1>1 DEF NothingEarly, Early, WaitInv, WaitTyped
<1> QED
  BY <1>9, <1>10, <1>11, <1>12, <1>13, <1>14 DEF WaitInv

\* What is published reaches the page, or is missed.
LEMMA WaitPublish ==
    ASSUME DeliveryInv, DeliveryInv', WaitInv, NothingEarly,
           NEW t \in Threads, NEW n \in unsent[t], PublishEvent(t, n)
    PROVE  WaitInv' /\ NothingEarly'
<1> USE DEF DeliveryInv, SocketInv
<1> DEFINE msg == [type |-> "monitor_event", n |-> n]
           reached == {c \in Sockets : srv[c] = "subscribed" /\ Thread(c) = t
                                       /\ sock[c].state = "open"}
           e == log[t][n]
<1>1. /\ unsent' = [unsent EXCEPT ![t] = unsent[t] \ {n}]
      /\ wire' = [c \in Sockets |-> IF c \in reached THEN Append(wire[c], msg) ELSE wire[c]]
      /\ missed' = IF IsFinal(e) /\ socketRef \notin reached
                   THEN missed \cup {e.run} ELSE missed
      /\ UNCHANGED <<log, alive, srv, threadId, socketRef, sock, events, isRunning, start,
                     isViewingHistory, cancel, mine, heard>>
  BY DEF PublishEvent, pageVars, requestVars
<1>2. n \in Nat /\ n \in 1 .. Len(log[t]) /\ e \in [run : Runs, kind : Kinds]
  BY ElementOf DEF LogTyped
<1>3. e.run \in Runs /\ (IsFinal(e) <=> FinalAt(t, n, e.run))
  BY <1>2 DEF IsFinal, FinalAt
<1>4. Live(msg) /\ msg.n = n
  BY DEF Live
<1> HIDE DEF e, msg
<1>5. \A d \in Sockets : Thread(d)' = Thread(d) /\ Thread(d) \in Threads
  BY <1>1 DEF Thread, SocketTyped
<1>6. \A c \in Sockets : wire[c] \in Seq(Messages)
  BY DEF WireFresh
<1>7. ASSUME NEW c \in Sockets
      PROVE  \A m : LiveOn(c, m)' <=> LiveOn(c, m) \/ (c \in reached /\ m = n)
  <2>1. CASE c \notin reached
    BY <1>1, <2>1 DEF LiveOn
  <2>2. CASE c \in reached
    <3> DEFINE all == Append(wire[c], msg)
    <3>1. /\ Len(all) = Len(wire[c]) + 1 /\ Len(wire[c]) \in Nat
          /\ \A j \in 1 .. Len(wire[c]) : all[j] = wire[c][j]
          /\ all[Len(wire[c]) + 1] = msg
      BY <1>6
    <3>2. wire'[c] = all
      BY <1>1, <2>2
    <3> HIDE DEF all, reached
    <3>3. ASSUME NEW m, LiveOn(c, m)' PROVE LiveOn(c, m) \/ m = n
      <4>1. PICK i \in 1 .. Len(all) : Live(all[i]) /\ all[i].n = m
        BY <3>2, <3>3 DEF LiveOn
      <4> QED
        BY <1>4, <3>1, <4>1 DEF LiveOn
    <3>4. ASSUME NEW m, LiveOn(c, m) \/ m = n PROVE LiveOn(c, m)'
      <4>1. \E i \in 1 .. Len(all) : Live(all[i]) /\ all[i].n = m
        BY <1>4, <3>1, <3>4 DEF LiveOn
      <4> QED
        BY <3>2, <4>1 DEF LiveOn
    <3> QED
      BY <2>2, <3>3, <3>4
  <2> QED
    BY <2>1, <2>2
<1>8. /\ unsent'[t] = unsent[t] \ {n}
      /\ \A s \in Threads : s # t => unsent'[s] = unsent[s]
  BY <1>1 DEF LogTyped
<1>9. RunsGoOn /\ Begun'
  <2>1. RunsGoOn
    BY <1>1 DEF RunsGoOn, WaitInv, WaitTyped, Begun
  <2> QED
    BY <1>1, <2>1, BegunKept DEF WaitInv
<1>10. n \notin Sent[t] /\ SentKept
  BY <1>1, <1>2 DEF SentKept, Sent, LogTyped
<1>11. HeardOnce'
  <2>1. \A h \in heard : h.thread \in Threads /\ h.n \in Sent'[h.thread]
    BY <1>10 DEF WaitInv, HeardOnce, SentKept
  <2>2. ASSUME NEW c \in Sockets, NEW q \in Nat, LiveOn(c, q)', Place(Thread(c), q) \in heard
        PROVE  FALSE
    <3>1. c \in reached /\ q = n
      BY <1>7, <2>2 DEF WaitInv, HeardOnce
    <3>2. Place(t, n) \in heard /\ Place(t, n).thread = t /\ Place(t, n).n = n
      BY <2>2, <3>1 DEF Place
    <3> QED
      BY <1>10, <3>2 DEF WaitInv, HeardOnce
  <2> QED
    BY <1>1, <1>5, <2>1, <2>2 DEF WaitInv, HeardOnce, Place
<1>12. Logged'
  <2>1. ASSUME NEW c \in Sockets, NEW i \in 1 .. Len(wire'[c])
        PROVE  wire'[c][i].n \in 1 .. Len(log[Thread(c)])
    <3>1. CASE c \notin reached
      BY <1>1, <2>1, <3>1 DEF WaitInv, Logged
    <3>2. CASE c \in reached
      <4>1. wire'[c] = Append(wire[c], msg) /\ Thread(c) = t
        BY <1>1, <3>2
      <4>2. wire'[c][i] = msg \/ (i \in 1 .. Len(wire[c]) /\ wire'[c][i] = wire[c][i])
        BY <1>6, <2>1, <4>1
      <4> QED
        BY <1>2, <1>4, <4>1, <4>2 DEF WaitInv, Logged
    <3> QED
      BY <3>1, <3>2
  <2> QED
    BY <1>1, <1>5, <2>1 DEF Logged
<1>13. NothingEarly'
  BY <1>1 DEF NothingEarly, Early
<1>14. WaitTyped' /\ missed \subseteq missed'
  BY <1>1, <1>3 DEF WaitInv, WaitTyped
<1>15. Accounted'
  <2> SUFFICES ASSUME NEW s \in Threads, NEW m \in 1 .. Len(log[s]), IsFinal(log[s][m])
               PROVE  \/ m \in unsent'[s] \/ OnWay(s, m)'
                      \/ Place(s, m) \in heard \/ log[s][m].run \in missed'
    BY <1>1 DEF Accounted, IsFinal, Place
  <2>1. \/ m \in unsent[s] \/ OnWay(s, m)
        \/ Place(s, m) \in heard \/ log[s][m].run \in missed
    BY DEF WaitInv, Accounted
  <2>2. socketRef \in Sockets
    BY DEF SocketTyped
  <2>3. OnWay(s, m) => OnWay(s, m)'
    BY <1>1, <1>5, <1>7, <2>2 DEF OnWay
  <2>4. CASE s = t /\ m = n
    <3>1. CASE socketRef \in reached
      BY <1>1, <1>5, <1>7, <2>2, <2>4, <3>1 DEF OnWay
    <3>2. CASE socketRef \notin reached
      BY <1>1, <2>4, <3>2 DEF e
    <3> QED
      BY <3>1, <3>2
  <2>5. CASE ~(s = t /\ m = n)
    BY <1>8, <1>14, <2>1, <2>3, <2>5
  <2> QED
    BY <2>4, <2>5
<1>16. Waits'
  BY <1>1, <1>14, ReportsSame DEF WaitInv, Waits, WaitTyped
<1> QED
  BY <1>9, <1>11, <1>12, <1>13, <1>14, <1>15, <1>16 DEF WaitInv

\* The other steps of the user and of the answers, and a run that ends, leave
\* the log and what is on its way.
LEMMA WaitUser ==
    ASSUME DeliveryInv, WaitInv, NothingEarly,
           UNCHANGED <<log, unsent, wire, sock, srv, socketRef, heard>>,
           missed \subseteq missed', RunsGoOn, WaitTyped', Waits'
    PROVE  WaitInv' /\ NothingEarly'
<1> USE DEF DeliveryInv, SocketInv, WaitInv
<1>1. /\ Logged' /\ NothingEarly'
      /\ \A c \in Sockets : \A n : LiveOn(c, n)' <=> LiveOn(c, n)
      /\ \A c \in Sockets : Thread(c)' = Thread(c)
  BY WiresAlone
<1>2. Begun'
  BY BegunKept
<1>3. HeardOnce'
  <2>1. SentKept
    BY DEF SentKept, Sent
  <2> QED
    BY <1>1, <2>1, HeardKept
<1>4. Accounted'
  BY <1>1, AccountedKept DEF OnWay, SocketTyped
<1> QED
  BY <1>1, <1>2, <1>3, <1>4

\* A run that ends has reported an end, or is missed.
LEMMA WaitEnds ==
    ASSUME DeliveryInv, WaitInv, NothingEarly, NEW r \in Runs, RunEnds(r) \/ EndsSilently(r)
    PROVE  WaitInv' /\ NothingEarly'
<1>1. /\ alive' = alive \ {r} /\ r \in alive
      /\ missed' \in {missed, missed \cup {r}} /\ (Ended(r) \/ r \in missed')
      /\ UNCHANGED <<log, unsent, wire, sock, srv, socketRef, heard, threadId, events,
                     isRunning, isViewingHistory, start, cancel, mine>>
  BY DEF RunEnds, EndsSilently, netVars, pageVars, requestVars, historyVars
<1>2. RunsGoOn
  BY <1>1 DEF RunsGoOn, WaitInv, Begun
<1>3. WaitTyped'
  BY <1>1 DEF WaitInv, WaitTyped
<1>4. Waits'
  BY <1>1, ReportsSame DEF WaitInv, Waits, WaitTyped
<1> QED
  BY <1>1, <1>2, <1>3, <1>4, WaitUser

\* A run is submitted: none of its ends was handled.
LEMMA WaitSubmit ==
    ASSUME DeliveryInv, WaitInv, NothingEarly, NEW r \in Runs, Submit(r)
    PROVE  WaitInv' /\ NothingEarly'
<1>1. /\ start[r].state = "none" /\ start' = [start EXCEPT ![r] = [thread |-> threadId,
                                                                   state |-> "asked"]]
      /\ isRunning' = TRUE /\ isViewingHistory' = FALSE /\ events' = <<>> /\ mine' = r
      /\ UNCHANGED <<log, unsent, alive, wire, sock, srv, socketRef, heard, threadId,
                     cancel, missed>>
  BY DEF Submit, workVars, netVars
<1>2. start'[r] = [thread |-> threadId, state |-> "asked"]
      /\ \A s \in Runs : s # r => start'[s] = start[s]
  BY <1>1 DEF DeliveryInv, LogTyped
<1>3. RunsGoOn
  BY <1>1, <1>2 DEF RunsGoOn, WaitInv, WaitTyped, Begun
<1>4. WaitTyped'
  <2>1. Len(events') <= MaxShown
    BY <1>1, DeliveryAssumption
  <2> QED
    BY <1>1, <2>1 DEF WaitInv, WaitTyped
<1>5. ~Heard(r)
  <2> SUFFICES ASSUME NEW h \in heard, log[h.thread][h.n].run = r PROVE FALSE
    BY DEF Heard
  <2>1. h.thread \in Threads /\ h.n \in 1 .. Len(log[h.thread])
    BY DEF WaitInv, HeardOnce, Sent
  <2> QED
    BY <1>1, <2>1 DEF WaitInv, Begun
<1>6. Waits'
  BY <1>1, <1>2, <1>5 DEF Waits, Heard
<1> QED
  BY <1>1, <1>3, <1>4, <1>6, WaitUser

\* A submission is accepted, or its request fails.
LEMMA WaitAnswers ==
    ASSUME DeliveryInv, WaitInv, NothingEarly, NEW r \in Runs, Accepted(r) \/ StartFails(r)
    PROVE  WaitInv' /\ NothingEarly'
<1>1. PICK q \in {"accepted", "failed"} : start' = [start EXCEPT ![r].state = q]
  BY DEF Accepted, StartFails
<1>2. /\ \A s \in Runs : start'[s].thread = start[s].thread
      /\ \A s \in Runs : start'[s].state = IF s = r THEN q ELSE start[s].state
  <2>1. start' = [start EXCEPT ![r] = [start[r] EXCEPT !.state = q]]
    BY <1>1
  <2> QED
    BY <2>1 DEF DeliveryInv, LogTyped
<1>3. UNCHANGED <<log, unsent, wire, sock, srv, socketRef, heard, threadId, events,
                  isViewingHistory, mine, missed, cancel>>
  BY DEF Accepted, StartFails, workVars, netVars, pageVars, historyVars
<1>4. \/ alive' = alive \cup {r} /\ isRunning' = isRunning
      \/ alive' = alive /\ isRunning' = FALSE
  BY DEF Accepted, StartFails, workVars, pageVars
<1>5. RunsGoOn
  BY <1>2, <1>4 DEF RunsGoOn, WaitInv, WaitTyped, Begun
<1>6. WaitTyped'
  BY <1>3, <1>4 DEF WaitInv, WaitTyped
<1>7. Waits'
  BY <1>2, <1>3, <1>4, ReportsSame DEF WaitInv, Waits, WaitTyped
<1> QED
  BY <1>3, <1>5, <1>6, <1>7, WaitUser

\* A cancel request is answered.
LEMMA WaitCancel ==
    ASSUME DeliveryInv, WaitInv, NothingEarly, NEW q \in BOOLEAN, CancelAnswered(q)
    PROVE  WaitInv' /\ NothingEarly'
<1>1. /\ cancel' = FALSE /\ isRunning' = (isRunning /\ ~q)
      /\ UNCHANGED <<log, unsent, alive, wire, sock, srv, socketRef, heard, threadId, events,
                     isViewingHistory, start, mine, missed>>
  BY DEF CancelAnswered, workVars, netVars, historyVars
<1>2. RunsGoOn
  BY <1>1 DEF RunsGoOn, WaitInv, WaitTyped, Begun
<1>3. WaitTyped'
  BY <1>1 DEF WaitInv, WaitTyped
<1>4. Waits'
  BY <1>1, ReportsSame DEF WaitInv, Waits, WaitTyped
<1> QED
  BY <1>1, <1>2, <1>3, <1>4, WaitUser

\* The page begins a new thread, or shows a session it has asked for.
LEMMA WaitMove ==
    ASSUME DeliveryInv, WaitInv, NothingEarly,
           (\E l \in load : ShowSession(l)) \/ \E t \in Threads : Reset(t)
    PROVE  WaitInv' /\ NothingEarly'
<1>1. /\ events' = <<>>
      /\ UNCHANGED <<log, unsent, alive, wire, sock, srv, socketRef, heard, start, cancel>>
  BY DEF ShowSession, Reset, workVars, netVars, requestVars
<1>2. RunsGoOn
  BY <1>1 DEF RunsGoOn, WaitInv, WaitTyped, Begun
<1>3. Len(events') <= MaxShown
  BY <1>1, DeliveryAssumption
<1>4. CASE \E t \in Threads : Reset(t)
  <2>1. isRunning' = FALSE /\ isViewingHistory' = FALSE /\ mine' = 0 /\ missed' = missed
    BY <1>4 DEF Reset
  <2>2. WaitTyped'
    BY <1>1, <1>3, <2>1 DEF WaitInv, WaitTyped
  <2>3. Waits'
    BY <2>1 DEF Waits
  <2> QED
    BY <1>1, <1>2, <2>1, <2>2, <2>3, WaitUser
<1>5. ASSUME NEW l \in load, ShowSession(l) PROVE WaitInv' /\ NothingEarly'
  <2> DEFINE r == Latest(l.thread)
  <2>0. l.running \in BOOLEAN
    BY DEF DeliveryInv, SocketInv, SocketTyped, LoadTyped
  <2>1. /\ threadId' = l.thread /\ isRunning' = l.running /\ isViewingHistory' = TRUE
        /\ mine' = r
        /\ missed' = IF r # 0 /\ Heard(r) THEN missed \cup {r} ELSE missed
    BY <1>5 DEF ShowSession, Heard
  <2>2. r # 0 => r \in alive /\ r \in Runs /\ start[r].thread = l.thread
    BY LatestIs DEF WaitInv, WaitTyped
  <2> HIDE DEF r
  <2>3. WaitTyped' /\ missed \subseteq missed'
    BY <1>1, <1>3, <2>0, <2>1, <2>2 DEF WaitInv, WaitTyped
  <2>4. Waits'
    <3> SUFFICES ASSUME r # 0, r \notin missed'
                 PROVE  /\ start[r].state # "none" /\ start[r].thread = threadId'
                        /\ ~Heard(r) /\ r \in alive
      BY <1>1, <2>1, <2>2, ReportsSame DEF Waits
    <3> QED
      BY <2>1, <2>2 DEF WaitInv, Begun
  <2> QED
    BY <1>1, <1>2, <2>3, <2>4, WaitUser
<1> QED
  BY <1>4, <1>5

\* Nothing is waited for at first.
LEMMA WaitBegin == Init => WaitInv /\ NothingEarly
<1> SUFFICES ASSUME Init PROVE WaitInv /\ NothingEarly
  OBVIOUS
<1>1. WaitTyped
  <2>1. Len(events) <= MaxShown
    BY DeliveryAssumption DEF Init
  <2> QED
    BY <2>1 DEF Init, WaitTyped
<1>2. Logged /\ Begun /\ HeardOnce /\ Accounted /\ NothingEarly /\ Waits
  BY DEF Init, Logged, Begun, HeardOnce, Accounted, NothingEarly, Waits, LiveOn
<1> QED
  BY <1>1, <1>2 DEF WaitInv

\* Whatever is submitted, cancelled, loaded, lost and replaced.
LEMMA WaitStep ==
    ASSUME DeliveryInv, DeliveryInv', WaitInv, NothingEarly, [Next]_vars
    PROVE  WaitInv' /\ NothingEarly'
<1>1. CASE UNCHANGED vars
  <2>1. UNCHANGED <<log, unsent, alive, wire, sock, srv, socketRef, heard, threadId, events,
                    isRunning, isViewingHistory, start, cancel, mine, missed>>
    BY <1>1 DEF vars, workVars, netVars, pageVars, requestVars, historyVars
  <2>2. RunsGoOn
    BY <2>1 DEF RunsGoOn, WaitInv, WaitTyped, Begun
  <2>3. WaitTyped' /\ Waits'
    BY <2>1, ReportsSame DEF WaitInv, WaitTyped, Waits
  <2> QED
    BY <2>1, <2>2, <2>3, WaitUser
<1>2. CASE WorkerStep
  <2>1. Reported \subseteq Kinds
    BY DeliveryAssumption
  <2> QED
    BY <1>2, <2>1, WaitEnds, WaitCache, WaitPublish DEF WorkerStep, DeliveryInv, LogTyped
<1>3. CASE Driven
  BY <1>3, WaitLoses, WaitGoesOn, WaitReplay, WaitReceive DEF Driven, ServerStep
<1>4. CASE Restart \/ \E c \in Sockets : ServerFault(c)
  BY <1>4, WaitLoses
<1>5. CASE UserStep \/ RequestStep
  BY <1>5, WaitSubmit, WaitAnswers, WaitCancel, WaitMove, WaitGoesOn DEF UserStep, RequestStep
<1> QED
  BY <1>1, <1>2, <1>3, <1>4, <1>5 DEF Next

\* Every end a run has reported is to be sent, on its way to the page, handled
\* by it or missed, and a page that waits has handled none of its run's.
THEOREM WaitInvariant == Spec => [](DeliveryInv /\ WaitInv /\ NothingEarly)
<1>1. DeliveryInv /\ WaitInv /\ NothingEarly /\ [Next]_vars /\ DeliveryInv'
      => WaitInv' /\ NothingEarly'
  BY WaitStep
<1> QED
  BY <1>1, WaitBegin, DeliveryInvariant, PTL DEF Spec

\* Every variable of the delivery stays of its type.
THEOREM TypesKept == Spec => []TypeOK
<1>1. DeliveryInv /\ WaitInv => TypeOK
  <2> SUFFICES ASSUME DeliveryInv, WaitInv PROVE TypeOK
    OBVIOUS
  <2> USE DEF DeliveryInv, SocketInv, WaitInv
  <2>1. \A t \in Threads :
           /\ \A i \in DOMAIN log[t] : log[t][i].run \in Runs /\ log[t][i].kind \in Kinds
           /\ unsent[t] \subseteq DOMAIN log[t]
    <3> SUFFICES ASSUME NEW t \in Threads
                 PROVE  /\ \A i \in DOMAIN log[t] :
                             log[t][i].run \in Runs /\ log[t][i].kind \in Kinds
                        /\ unsent[t] \subseteq DOMAIN log[t]
      OBVIOUS
    <3>1. /\ log[t] \in Seq([run : Runs, kind : Kinds])
          /\ unsent[t] \subseteq 1 .. Len(log[t])
      BY DEF LogTyped
    <3>2. DOMAIN log[t] = 1 .. Len(log[t])
      BY <3>1
    <3>3. \A i \in 1 .. Len(log[t]) : log[t][i] \in [run : Runs, kind : Kinds]
      BY <3>1, ElementOf
    <3> QED
      BY <3>1, <3>2, <3>3
  <2>2. ASSUME NEW c \in Sockets, NEW m \in OnWire(c)
        PROVE  m.type \in {"replay", "monitor_event"} /\ m.n \in DOMAIN log[Thread(c)]
    <3>1. wire[c] \in Seq(Messages) /\ Thread(c) \in Threads
      BY DEF WireFresh, SocketTyped, Thread
    <3>2. PICK i \in 1 .. Len(wire[c]) : m = wire[c][i]
      BY <2>2, <3>1 DEF OnWire
    <3>3. m \in Messages /\ m.n \in 1 .. Len(log[Thread(c)])
      BY <3>1, <3>2, ElementOf DEF Logged
    <3>4. DOMAIN log[Thread(c)] = 1 .. Len(log[Thread(c)])
      BY <3>1 DEF LogTyped
    <3> QED
      BY <3>3, <3>4 DEF Messages
  <2>3. load \subseteq [thread : Threads, read : BOOLEAN, running : BOOLEAN]
        /\ \A e \in heard : e.thread \in Threads /\ e.n \in DOMAIN log[e.thread]
    <3>1. \A t \in Threads : DOMAIN log[t] = 1 .. Len(log[t])
      BY DEF LogTyped
    <3> QED
      BY <3>1 DEF SocketTyped, LoadTyped, HeardOnce, Sent
  <2>4. /\ srv \in [Sockets -> ServerStates] /\ place \in [Threads -> {0} \cup Sockets]
        /\ sock \in [Sockets -> [thread : Threads, state : SockStates]]
        /\ threadId \in Threads /\ socketRef \in Sockets
        /\ {timer, isRunning, isViewingHistory, cancel} \subseteq BOOLEAN
    BY DEF PlaceInv, SocketTyped, WaitTyped
  <2>5. /\ start \in [Runs -> [thread : Threads, state : {"none", "asked", "accepted", "failed"}]]
        /\ alive \subseteq Runs /\ mine \in {0} \cup Runs /\ Len(events) <= MaxShown
        /\ missed \subseteq Runs
    BY DEF LogTyped, WaitTyped
  <2> QED
    BY <2>1, <2>2, <2>3, <2>4, <2>5 DEF TypeOK, ServerStates, SockStates
<1> QED
  BY <1>1, WaitInvariant, PTL

\* However sockets are replaced, histories replayed and runs submitted, an end
\* that the page has handled never stops a later wait.
THEOREM StoppedOnce == Spec => EndStopsOnce
<1> DEFINE Once == \A c \in Sockets :
                     (isRunning /\ ~isRunning' /\ wire[c] # <<>> /\ wire'[c] = Tail(wire[c]))
                     => Place(Thread(c), Head(wire[c]).n) \notin heard
<1>1. DeliveryInv /\ WaitInv /\ [Next]_vars => [Once]_vars
  <2> SUFFICES ASSUME DeliveryInv, WaitInv, Next, isRunning, ~isRunning',
                      NEW c \in Sockets, wire[c] # <<>>, wire'[c] = Tail(wire[c])
               PROVE  Place(Thread(c), Head(wire[c]).n) \notin heard
    OBVIOUS
  <2>1. wire[c] \in Seq(Messages) /\ Len(wire[c]) \in Nat \ {0}
    BY DEF DeliveryInv, WireFresh
  <2>2. wire'[c] # wire[c]
    <3>1. Len(Tail(wire[c])) = Len(wire[c]) - 1 /\ Len(wire[c]) \in Int
      BY <2>1
    <3>2. Len(Tail(wire[c])) # Len(wire[c])
      BY <3>1
    <3> QED
      BY <3>2
  <2>3. PICK d \in Sockets : Receive(d)
    BY <2>2 DEF Next, WorkerStep, RunEnds, EndsSilently, CacheEvent, PublishEvent, Driven,
       ServerStep, ServerFault, Accept, Replay, Register, Subscribe, Disconnect, Refuse,
       SubscriptionBreaks, Drop, Restart, RunEffect, ReconnectTimer, UserStep, RequestStep,
       Submit, Cancel, Reset, AskSession, Accepted, StartFails, CancelAnswered, ReadSession,
       ShowSession, netVars, pageVars, PageUnchanged
  <2>4. d = c
    BY <2>2, <2>3 DEF Receive, DeliveryInv, WireFresh
  <2>5. Live(Head(wire[c])) /\ Head(wire[c]) = wire[c][1] /\ 1 \in 1 .. Len(wire[c])
    <3>1. isRunning' = (isRunning /\ ~(Live(Head(wire[c])) /\ Stops(Event(c, Head(wire[c])))))
      BY <2>3, <2>4 DEF Receive, Live
    <3>2. Live(Head(wire[c]))
      BY <3>1
    <3>3. Head(wire[c]) = wire[c][1] /\ 1 \in 1 .. Len(wire[c])
      BY <2>1
    <3> QED
      BY <3>2, <3>3
  <2>6. wire[c][1] \in Messages
    BY <2>1, <2>5, ElementOf
  <2>7. LiveOn(c, Head(wire[c]).n) /\ Head(wire[c]).n \in Nat
    BY <2>5, <2>6 DEF LiveOn, Messages
  <2> QED
    BY <2>7 DEF WaitInv, HeardOnce
<1> QED
  BY <1>1, WaitInvariant, PTL DEF Spec, EndStopsOnce, Place

\* A page waits for a run that is over only while an end of it is to be sent or
\* on its way, or when one did not reach the page while it waited.
THEOREM StuckForAReason == Spec => []StuckOnlyIfMissed
<1>1. DeliveryInv /\ WaitInv => StuckOnlyIfMissed
  <2> SUFFICES ASSUME DeliveryInv, WaitInv, isRunning, mine \in Runs \ alive,
                      start[mine].state # "asked",
                      \A n \in unsent[threadId] : log[threadId][n].run # mine,
                      mine \notin Ends(socketRef, OnWire(socketRef)), mine \notin missed
               PROVE  FALSE
    BY DEF StuckOnlyIfMissed
  <2>1. mine # 0 /\ threadId \in Threads
    BY RunsAre DEF DeliveryInv, SocketInv, SocketTyped
  <2>2. start[mine].thread = threadId /\ ~Heard(mine) /\ Ended(mine)
    BY <2>1 DEF WaitInv, Waits
  <2>3. DOMAIN log[threadId] = 1 .. Len(log[threadId])
    BY <2>1 DEF DeliveryInv, LogTyped
  <2>4. PICK n \in 1 .. Len(log[threadId]) :
           log[threadId][n].run = mine /\ IsFinal(log[threadId][n])
    BY <2>2, <2>3 DEF Ended
  <2>5. Place(threadId, n) \notin heard
    BY <2>2, <2>4 DEF Heard, Place
  <2>6. OnWay(threadId, n)
    BY <2>1, <2>4, <2>5 DEF WaitInv, Accounted
  <2>7. n \in Nat /\ LiveOn(socketRef, n) /\ FinalAt(Thread(socketRef), n, mine)
    BY <2>1, <2>4, <2>6 DEF OnWay, FinalAt, IsFinal, DeliveryInv, LogTyped
  <2> QED
    BY <2>7, EndsAre DEF DeliveryInv, SocketInv, SocketTyped
<1> QED
  BY <1>1, WaitInvariant, PTL
=============================================================================
