--------------------------- MODULE SessionsProofs ---------------------------
(***************************************************************************)
(* Theorems about Sessions, for any users, numbers of sessions and of runs.*)
(***************************************************************************)
EXTENDS Sessions, FiniteSetTheorems, TLAPS

Owners == Users \cup {Default}

Numbers == 1 .. Len(owner)

\* The thread has one session at most, a numbered one, and what hangs on it
\* goes with it.
Rows ==
    /\ owner \in Seq(Owners)
    /\ session \subseteq Numbers
    /\ \A s, t \in session : s = t
    /\ messages \subseteq session
    /\ link \subseteq [of : session, by : Owners, asked : Nat, live : BOOLEAN]

\* Who may share a session that is still there owns it.
Shares ==
    /\ share \in [at : {"none", "found", "allowed"}, by : Owners, of : Nat]
    /\ share.at # "none" => share.of \in Numbers
    /\ share.at = "allowed" /\ share.of \in session => owner[share.of] = share.by
    /\ LinkIsOwners

\* A view that no deletion has crossed is of the session there is.
Views ==
    /\ view \in [at : {"none", "found", "reading", "shown"}, of : Nat, dead : BOOLEAN,
                 crossed : BOOLEAN, shown : SUBSET Nat]
    /\ view.at # "none" => ~view.dead
    /\ view.at \in {"found", "reading"} /\ ~view.crossed => view.of \in session
    /\ LinkShowsItsSession

Drawings == [at : {"none", "begun", "read", "asking", "storing"}, rows : SUBSET Nat,
             user : Owners \cup {"nobody"}, late : BOOLEAN]

\* A consolidation that no deletion has crossed is of the session there is,
\* for its user; what was drawn is of the user it is stored for.
Draws ==
    /\ draw \in Drawings
    /\ draw.rows \subseteq Numbers
    /\ draw.at \in {"read", "asking", "storing"} /\ ~draw.late => draw.rows \subseteq session
    /\ draw.at \in {"asking", "storing"} /\ ~draw.late =>
         \A s \in draw.rows : owner[s] = draw.user
    /\ \A m \in summary : m.of \in Numbers /\ (m.late \/ m.of \in session)
    /\ \A m \in facts : m.of \in Numbers /\ (m.late \/ owner[m.of] = m.user)

\* What a run recalls was said in sessions that have a number.
Recalls ==
    /\ run = [at |-> run.at, by |-> run.by, recalled |-> run.recalled]
    /\ run.by \in Owners
    /\ \A m \in run.recalled : m.of \in Numbers
    /\ ContextIsOwn

SessionsInv == Rows /\ Shares /\ Views /\ Draws /\ Recalls

------------------------------------------------------------------------------
\* Nothing is there at first.
LEMMA InvInit == Init => SessionsInv
<1> SUFFICES ASSUME Init PROVE SessionsInv
  OBVIOUS
<1> USE DEF Init, Owners
<1>1. Rows
  BY DEF Rows
<1>2. Shares
  BY DEF Shares, NoShare, LinkIsOwners
<1>3. Views
  BY DEF Views, NoView, LinkShowsItsSession
<1>4. Draws
  BY DEF Draws, NoDraw, Drawings
<1>5. Recalls
  <2>1. run = [at |-> "none", by |-> Default, recalled |-> {}]
    BY DEF NoRun
  <2> QED
    BY <2>1 DEF Recalls, ContextIsOwn
<1> QED
  BY <1>1, <1>2, <1>3, <1>4, <1>5 DEF SessionsInv
------------------------------------------------------------------------------
(* What becomes of the row of sessions, and of what does not depend on it. *)

Kept == UNCHANGED <<session, owner>>

Grows ==
    /\ session = {} /\ session' = {Len(owner) + 1}
    /\ \E u \in Owners : owner' = Append(owner, u)

\* An upsert leaves the row alone or makes one with a new number.
LEMMA UpsertMoves ==
    ASSUME NEW u \in Owners, Upsert(u)
    PROVE  (Kept /\ UNCHANGED summary) \/ (Grows /\ summary' = {})
BY DEF Upsert, Kept, Grows

\* A session's user is never changed.
LEMMA OwnerKept ==
    ASSUME Rows, Kept \/ Grows
    PROVE  /\ owner' \in Seq(Owners)
           /\ Numbers \subseteq Numbers'
           /\ \A s \in Numbers : owner'[s] = owner[s]
           /\ Grows => session' \subseteq Numbers' /\ \A s \in session' : s \notin Numbers
<1>1. owner \in Seq(Owners) /\ Len(owner) \in Nat
  BY DEF Rows
<1>2. CASE Kept
  <2>1. ~Grows
    BY <1>2 DEF Kept, Grows
  <2> QED
    BY <1>1, <1>2, <2>1 DEF Kept, Numbers
<1>3. CASE Grows
  <2>1. PICK u \in Owners : owner' = Append(owner, u)
    BY <1>3 DEF Grows
  <2>2. /\ owner' \in Seq(Owners) /\ Len(owner') = Len(owner) + 1
        /\ \A s \in 1 .. Len(owner) : owner'[s] = owner[s]
    BY <1>1, <2>1
  <2>3. session' = {Len(owner) + 1}
    BY <1>3 DEF Grows
  <2> QED
    BY <1>1, <2>2, <2>3 DEF Numbers
<1> QED
  BY <1>2, <1>3

\* Messages and links stay those of the session.
LEMMA RowsKept ==
    ASSUME Rows, Kept \/ Grows, UNCHANGED <<messages, link>>
    PROVE  Rows'
<1>1. CASE Kept
  BY <1>1 DEF Rows, Kept, Numbers
<1>2. CASE Grows
  <2>1. messages' = {} /\ link' = {}
    BY <1>2 DEF Rows, Grows
  <2>2. owner' \in Seq(Owners) /\ session' \subseteq Numbers'
    BY <1>2, OwnerKept
  <2>3. session' = {Len(owner) + 1}
    BY <1>2 DEF Grows
  <2> QED
    BY <2>1, <2>2, <2>3 DEF Rows
<1> QED
  BY <1>1, <1>2

\* A request to share is for the session it found, and for no later one.
LEMMA SharesKept ==
    ASSUME Rows, Shares, Kept \/ Grows, UNCHANGED <<share, link>>
    PROVE  Shares'
<1>1. CASE Kept
  BY <1>1 DEF Shares, Kept, Numbers, LinkIsOwners
<1>2. CASE Grows
  <2>1. link' = {}
    BY <1>2 DEF Rows, Grows
  <2>2. share.at # "none" => share.of \in Numbers' /\ share.of \notin session'
    BY <1>2, OwnerKept DEF Shares
  <2> QED
    BY <2>1, <2>2 DEF Shares, LinkIsOwners
<1> QED
  BY <1>1, <1>2

\* A view in progress where there is no session was crossed by its deletion.
LEMMA ViewsKept ==
    ASSUME Views, Kept \/ Grows, UNCHANGED view
    PROVE  Views'
BY DEF Views, Kept, Grows, LinkShowsItsSession

\* A consolidation where there is no session has nothing, or was crossed.
LEMMA DrawsKept ==
    ASSUME Rows, Draws, Kept \/ Grows, UNCHANGED <<draw, facts>>,
           summary' = {} \/ (Kept /\ summary' = summary)
    PROVE  Draws'
<1>1. CASE Kept
  BY <1>1 DEF Draws, Kept, Numbers
<1>2. CASE Grows
  <2>1. Numbers \subseteq Numbers' /\ \A s \in Numbers : owner'[s] = owner[s]
    BY <1>2, OwnerKept
  <2>2. summary' = {}
    BY <1>2 DEF Grows, Kept
  <2>3. draw.at \in {"read", "asking", "storing"} /\ ~draw.late => draw.rows = {}
    BY <1>2 DEF Draws, Grows
  <2>4. \A m \in facts : m.of \in Numbers' /\ (m.late \/ owner'[m.of] = m.user)
    BY <2>1 DEF Draws
  <2>5. draw.rows \subseteq Numbers'
    BY <2>1 DEF Draws
  <2> QED
    BY <2>2, <2>3, <2>4, <2>5 DEF Draws
<1> QED
  BY <1>1, <1>2

\* A run keeps what it recalled, or recalls nothing.
LEMMA RecallsKept ==
    ASSUME Rows, Recalls, Kept \/ Grows,
           run' = [at |-> run'.at, by |-> run'.by, recalled |-> run'.recalled],
           run'.by \in Owners,
           run'.recalled = {} \/ (run'.recalled = run.recalled /\ run'.by = run.by)
    PROVE  Recalls'
<1>1. Numbers \subseteq Numbers' /\ \A s \in Numbers : owner'[s] = owner[s]
  BY OwnerKept
<1> QED
  BY <1>1 DEF Recalls, ContextIsOwn

\* A run's record after its next step.
LEMMA RunNext ==
    ASSUME Recalls, NEW a, run' = [run EXCEPT !.at = a]
    PROVE  /\ run' = [at |-> run'.at, by |-> run'.by, recalled |-> run'.recalled]
           /\ run'.by = run.by /\ run'.recalled = run.recalled
<1>1. run = [at |-> run.at, by |-> run.by, recalled |-> run.recalled]
  BY DEF Recalls
<1>2. run' = [at |-> a, by |-> run.by, recalled |-> run.recalled]
  BY <1>1
<1> QED
  BY <1>2

------------------------------------------------------------------------------
\* A submission and the worker's upsert.
LEMMA RunStarts ==
    ASSUME SessionsInv, EnsureSession \/ \E u \in Users : RunTask(u)
    PROVE  SessionsInv'
<1> USE DEF SessionsInv
<1>1. (Kept /\ UNCHANGED summary) \/ (Grows /\ summary' = {})
  BY UpsertMoves DEF EnsureSession, RunTask, Owners
<1>2. UNCHANGED <<messages, link, facts, draw, share, view>>
  BY DEF EnsureSession, RunTask
<1>3. Recalls'
  <2>1. CASE EnsureSession
    <3>1. run' = [run EXCEPT !.at = "running"]
      BY <2>1 DEF EnsureSession
    <3>2. run.by \in Owners
      BY DEF Recalls
    <3> QED
      BY <1>1, <3>1, <3>2, RunNext, RecallsKept
  <2>2. ASSUME NEW u \in Users, RunTask(u) PROVE Recalls'
    <3>1. run' = [at |-> "queued", by |-> u, recalled |-> {}]
      BY <2>2 DEF RunTask, NoRun
    <3> QED
      BY <1>1, <3>1, RecallsKept DEF Owners
  <2> QED
    BY <2>1, <2>2
<1> QED
  BY <1>1, <1>2, <1>3, RowsKept, SharesKept, ViewsKept, DrawsKept

\* What is recalled is of facts and summaries of the run's user.
LEMMA RecallSteps ==
    ASSUME SessionsInv, Recall
    PROVE  SessionsInv'
<1> USE DEF SessionsInv
<1>1. Kept /\ UNCHANGED <<summary, messages, link, facts, draw, share, view>>
  BY DEF Recall, Kept
<1>2. \A m \in Recalled(run.by) : m.of \in Numbers /\ (m.late \/ owner[m.of] = run.by)
  <2> SUFFICES ASSUME NEW m \in Recalled(run.by)
               PROVE  m.of \in Numbers /\ (m.late \/ owner[m.of] = run.by)
    OBVIOUS
  <2>1. CASE m \in {f \in facts : f.user = run.by}
    BY <2>1 DEF Draws
  <2>2. CASE m \notin {f \in facts : f.user = run.by}
    <3>1. PICK x \in summary : /\ m = [user |-> run.by, of |-> x.of, late |-> x.late]
                               /\ \E s \in session : owner[s] = run.by
      BY <2>2 DEF Recalled
    <3>2. m.of = x.of /\ (m.late <=> x.late)
      BY <3>1
    <3>3. x.of \in Numbers /\ (x.late \/ x.of \in session)
      BY DEF Draws
    <3>4. x.of \in session => owner[x.of] = run.by
      BY <3>1 DEF Rows
    <3> QED
      BY <3>2, <3>3, <3>4
  <2> QED
    BY <2>1, <2>2
<1>3. Recalls'
  <2>1. run = [at |-> run.at, by |-> run.by, recalled |-> run.recalled]
    BY DEF Recalls
  <2>2. run' = [run EXCEPT !.at = "recalled", !.recalled = Recalled(run.by)]
    BY DEF Recall
  <2> DEFINE R == Recalled(run.by)
  <2>3. R = Recalled(run.by)
    OBVIOUS
  <2> HIDE DEF R
  <2>4. run' = [at |-> "recalled", by |-> run.by, recalled |-> R]
    BY <2>1, <2>2, <2>3
  <2>5. run'.by = run.by /\ run'.recalled = R
        /\ run' = [at |-> run'.at, by |-> run'.by, recalled |-> run'.recalled]
    BY <2>4
  <2> QED
    BY <1>1, <1>2, <2>3, <2>5 DEF Recalls, ContextIsOwn, Kept, Numbers
<1> QED
  BY <1>1, <1>3, RowsKept, SharesKept, ViewsKept, DrawsKept

\* Messages are of the session there is.
LEMMA PersistSteps ==
    ASSUME SessionsInv, PersistMessage
    PROVE  SessionsInv'
<1> USE DEF SessionsInv
<1>1. Kept /\ UNCHANGED <<summary, link, facts, draw, share, view, run>>
  BY DEF PersistMessage, Kept
<1>2. Rows'
  BY <1>1 DEF PersistMessage, Rows, Kept, Numbers
<1>3. Recalls'
  BY <1>1 DEF Recalls, ContextIsOwn, Kept, Numbers
<1> QED
  BY <1>1, <1>2, <1>3, SharesKept, ViewsKept, DrawsKept
------------------------------------------------------------------------------
(* The consolidation. *)

\* What a consolidation has drawn is of its session's user.
LEMMA DrawnIs ==
    ASSUME Draws, draw.at \in {"asking", "storing"}
    PROVE  \A m \in Drawn : /\ m.of \in Numbers
                            /\ m.late \/ (m.of \in session /\ owner[m.of] = m.user)
<1> SUFFICES ASSUME NEW s \in draw.rows
             PROVE  s \in Numbers /\ (draw.late \/ (s \in session /\ owner[s] = draw.user))
  BY DEF Drawn
<1> QED
  BY DEF Draws

\* Its steps: what is stored is what was drawn of the session it read.
LEMMA DrawSteps ==
    ASSUME SessionsInv,
           \/ RunEnds \/ ReadMessages \/ ReadUser \/ Summarise \/ NothingDrawn \/ StoreMemory
           \/ \E m \in facts : DeleteMemory(m)
    PROVE  SessionsInv'
<1> USE DEF SessionsInv
<1>1. Kept /\ UNCHANGED <<messages, link, share, view>>
  BY DEF RunEnds, ReadMessages, ReadUser, Summarise, NothingDrawn, StoreMemory,
         DeleteMemory, Kept
<1>2. Rows' /\ Shares' /\ Views' /\ Numbers' = Numbers
  BY <1>1, RowsKept, SharesKept, ViewsKept DEF Numbers, Kept
<1>3. Recalls'
  <2>1. CASE RunEnds
    <3>1. run' = [at |-> "none", by |-> Default, recalled |-> {}]
      BY <2>1 DEF RunEnds, NoRun
    <3> QED
      BY <1>1, <3>1, RecallsKept DEF Owners
  <2>2. CASE UNCHANGED run
    BY <1>1, <2>2 DEF Recalls, ContextIsOwn, Kept, Numbers
  <2> QED
    BY <2>1, <2>2 DEF ReadMessages, ReadUser, Summarise, NothingDrawn, StoreMemory,
                      DeleteMemory
<1>4. draw \in Drawings /\ session \subseteq Nat /\ messages \subseteq session
  BY DEF Draws, Rows, Numbers
<1>5. NoDraw \in Drawings /\ NoDraw.at = "none" /\ NoDraw.rows = {} /\ NoDraw.late = FALSE
  BY DEF NoDraw, Drawings, Owners
<1>6. CASE RunEnds
  <2>1. draw' = [at |-> "begun", rows |-> {}, user |-> Default, late |-> FALSE]
    BY <1>6 DEF RunEnds, NoDraw
  <2>2. draw' \in Drawings
    BY <2>1 DEF Drawings, Owners
  <2> QED
    BY <1>1, <1>2, <1>3, <1>6, <2>1, <2>2 DEF RunEnds, Draws, Kept
<1>7. CASE ReadMessages
  <2>1. draw' = NoDraw \/ draw' = [draw EXCEPT !.at = "read", !.rows = messages]
    BY <1>7 DEF ReadMessages
  <2>2. CASE draw' = NoDraw
    BY <1>1, <1>2, <1>3, <1>5, <1>7, <2>2 DEF ReadMessages, Draws, Kept
  <2>3. CASE draw' = [draw EXCEPT !.at = "read", !.rows = messages]
    <3>1. draw' = [at |-> "read", rows |-> messages, user |-> draw.user, late |-> draw.late]
      BY <1>4, <2>3 DEF Drawings
    <3>2. draw' \in Drawings
      BY <1>4, <3>1 DEF Drawings
    <3>3. messages \subseteq Numbers
      BY DEF Rows
    <3> QED
      BY <1>1, <1>2, <1>3, <1>4, <1>7, <3>1, <3>2, <3>3 DEF ReadMessages, Draws, Kept
  <2> QED
    BY <2>1, <2>2, <2>3
<1>8. CASE ReadUser
  <2>1. UserOfSession \in Owners \cup {"nobody"}
        /\ \A s \in session : UserOfSession = owner[s]
    <3>1. CASE session = {}
      BY <3>1 DEF UserOfSession
    <3>2. CASE session # {}
      <4>1. PICK s \in session : s = CHOOSE t \in session : TRUE
        BY <3>2
      <4>2. UserOfSession = owner[s]
        BY <3>2, <4>1 DEF UserOfSession
      <4>3. owner[s] \in Owners /\ \A t \in session : t = s
        BY DEF Rows, Numbers
      <4> QED
        BY <4>2, <4>3
    <3> QED
      BY <3>1, <3>2
  <2> DEFINE u == UserOfSession
  <2>2. u \in Owners \cup {"nobody"} /\ \A s \in session : u = owner[s]
    BY <2>1
  <2>3. draw' = [draw EXCEPT !.at = "asking", !.user = u] /\ draw.at = "read"
    BY <1>8 DEF ReadUser
  <2> HIDE DEF u
  <2>4. draw' = [at |-> "asking", rows |-> draw.rows, user |-> u, late |-> draw.late]
    BY <1>4, <2>3 DEF Drawings
  <2>5. draw' \in Drawings
    BY <1>4, <2>2, <2>4 DEF Drawings
  <2> QED
    BY <1>1, <1>2, <1>3, <1>8, <2>2, <2>3, <2>4, <2>5 DEF ReadUser, Draws, Kept
<1>9. CASE Summarise
  <2>1. draw' = [draw EXCEPT !.at = "storing"] /\ draw.at = "asking"
    BY <1>9 DEF Summarise
  <2>2. draw' = [at |-> "storing", rows |-> draw.rows, user |-> draw.user, late |-> draw.late]
    BY <1>4, <2>1 DEF Drawings
  <2>3. draw' \in Drawings
    BY <1>4, <2>2 DEF Drawings
  <2>4. \A m \in summary' : m.of \in Numbers /\ (m.late \/ m.of \in session)
    BY <1>9, <2>1, DrawnIs DEF Summarise
  <2> QED
    BY <1>1, <1>2, <1>3, <1>9, <2>1, <2>2, <2>3, <2>4 DEF Summarise, Draws, Kept
<1>10. CASE NothingDrawn
  BY <1>1, <1>2, <1>3, <1>5, <1>10 DEF NothingDrawn, Draws, Kept
<1>11. CASE StoreMemory
  <2>1. draw' = NoDraw /\ facts' = facts \cup Drawn /\ draw.at = "storing"
        /\ summary' = summary
    BY <1>11 DEF StoreMemory
  <2>2. \A m \in facts' : m.of \in Numbers /\ (m.late \/ owner[m.of] = m.user)
    BY <2>1, DrawnIs DEF Draws
  <2> QED
    BY <1>1, <1>2, <1>3, <1>5, <2>1, <2>2 DEF Draws, Kept
<1>12. ASSUME NEW m \in facts, DeleteMemory(m) PROVE SessionsInv'
  BY <1>1, <1>2, <1>3, <1>12 DEF DeleteMemory, Draws, Kept
<1> QED
  BY <1>6, <1>7, <1>8, <1>9, <1>10, <1>11, <1>12

------------------------------------------------------------------------------
(* The handlers. *)

\* A deletion takes messages, links and summary along and marks what goes on.
LEMMA DeleteSteps ==
    ASSUME SessionsInv, DeleteSession
    PROVE  SessionsInv'
<1> USE DEF SessionsInv
<1>1. session' = {} /\ summary' = {} /\ messages' = {} /\ link' = {}
      /\ UNCHANGED <<owner, run, runs, facts, share, revoke>>
  BY DEF DeleteSession, Cascade
<1>2. Numbers' = Numbers
  BY <1>1 DEF Numbers
<1>3. Rows'
  BY <1>1 DEF Rows
<1>4. Shares'
  BY <1>1, <1>2 DEF Shares, LinkIsOwners
<1>5. Views'
  <2>1. view' = [view EXCEPT !.crossed = view.at # "none"]
    BY DEF DeleteSession
  <2>2. view' = [at |-> view.at, of |-> view.of, dead |-> view.dead,
                 crossed |-> view.at # "none", shown |-> view.shown]
    BY <2>1 DEF Views
  <2>3. view' \in [at : {"none", "found", "reading", "shown"}, of : Nat, dead : BOOLEAN,
                   crossed : BOOLEAN, shown : SUBSET Nat]
    BY <2>2 DEF Views
  <2> QED
    BY <2>2, <2>3 DEF Views, LinkShowsItsSession
<1>6. Draws'
  <2>1. draw' = [draw EXCEPT !.late = draw.at # "none"]
    BY DEF DeleteSession
  <2>2. draw' = [at |-> draw.at, rows |-> draw.rows, user |-> draw.user,
                 late |-> draw.at # "none"]
    BY <2>1 DEF Draws, Drawings
  <2>3. draw' \in Drawings
    BY <2>2 DEF Draws, Drawings
  <2>4. draw'.at # "none" => draw'.late
    BY <2>2
  <2> QED
    BY <1>1, <1>2, <2>2, <2>3, <2>4 DEF Draws
<1>7. Recalls'
  BY <1>1, <1>2 DEF Recalls, ContextIsOwn
<1> QED
  BY <1>3, <1>4, <1>5, <1>6, <1>7

\* Creating, ending and revoking links.
LEMMA ShareSteps ==
    ASSUME SessionsInv,
           \/ CheckOwner \/ InsertShare \/ ExpireLink \/ RevokeLink
           \/ \E u \in Users : AskShare(u) \/ AskRevoke(u)
    PROVE  SessionsInv'
<1> USE DEF SessionsInv
<1> DEFINE Links == [of : session, by : Owners, asked : Nat, live : BOOLEAN]
<1>1. Kept /\ UNCHANGED <<summary, messages, facts, draw, view, run>>
  BY DEF CheckOwner, InsertShare, ExpireLink, RevokeLink, AskShare, AskRevoke, Kept
<1>2. Views' /\ Draws' /\ Numbers' = Numbers
  BY <1>1, ViewsKept, DrawsKept DEF Numbers, Kept
<1>3. Recalls'
  BY <1>1 DEF Recalls, ContextIsOwn, Kept, Numbers
<1>4. link \subseteq Links
  BY DEF Rows
<1>5. \A l \in link : /\ Dead(l) \in Links
                      /\ Dead(l).of = l.of /\ Dead(l).by = l.by /\ Dead(l).asked = l.asked
  BY <1>4 DEF Dead
<1>6. CASE CheckOwner
  <2>1. link' = link /\ LinkIsOwners'
    BY <1>1, <1>6 DEF CheckOwner, Shares, LinkIsOwners, Kept
  <2>2. (share' = [share EXCEPT !.at = "allowed"] /\ IsOwners) \/ share' = NoShare
    BY <1>6 DEF CheckOwner
  <2>3. CASE share' = NoShare
    <3>1. share' = [at |-> "none", by |-> Default, of |-> 0]
      BY <2>3 DEF NoShare
    <3>2. Shares'
      BY <2>1, <3>1 DEF Shares, Owners
    <3> QED
      BY <1>1, <1>2, <1>3, <2>1, <3>2, RowsKept
  <2>4. CASE share' = [share EXCEPT !.at = "allowed"] /\ IsOwners
    <3>1. share' = [at |-> "allowed", by |-> share.by, of |-> share.of]
      BY <2>4 DEF Shares
    <3>2. share.by \in Owners /\ share.of \in Nat /\ share.of \in Numbers
      BY <1>6 DEF Shares, CheckOwner
    <3>3. share.of \in session => owner[share.of] = share.by
      BY <2>4 DEF IsOwners
    <3>4. share' \in [at : {"none", "found", "allowed"}, by : Owners, of : Nat]
      BY <3>1, <3>2
    <3>5. share'.at = "allowed" /\ share'.of = share.of /\ share'.by = share.by
      BY <3>1
    <3>6. Shares'
      BY <1>1, <1>2, <2>1, <3>2, <3>3, <3>4, <3>5 DEF Shares, Kept
    <3> QED
      BY <1>1, <1>2, <1>3, <2>1, <3>6, RowsKept
  <2> QED
    BY <2>2, <2>3, <2>4
<1>7. CASE InsertShare
  <2>1. share' = NoShare /\ share.at = "allowed" /\ share.by \in Owners /\ share.of \in Nat
        /\ link' = {[of |-> s, by |-> share.by, asked |-> share.of, live |-> TRUE] :
                      s \in session}
    BY <1>7 DEF InsertShare, Shares
  <2>2. Rows'
    <3>1. session' = session
      BY <1>1 DEF Kept
    <3>2. link' \subseteq [of : session', by : Owners, asked : Nat, live : BOOLEAN]
      <4> SUFFICES ASSUME NEW l \in link' PROVE l \in Links
        BY <3>1
      <4>1. PICK s \in session :
               l = [of |-> s, by |-> share.by, asked |-> share.of, live |-> TRUE]
        BY <2>1
      <4> QED
        BY <2>1, <4>1
    <3> QED
      BY <1>1, <3>2 DEF Rows, Kept, Numbers
  <2>3. LinkIsOwners'
    <3> SUFFICES ASSUME NEW s \in session
                 PROVE  owner[s] = share.by \/ share.of # s
      BY <1>1, <2>1 DEF LinkIsOwners, Kept
    <3> QED
      BY <2>1 DEF Shares
  <2> QED
    BY <1>1, <1>2, <1>3, <2>1, <2>2, <2>3 DEF Shares, NoShare, Owners
<1>8. CASE ExpireLink
  <2>1. link' = {Dead(l) : l \in link} /\ share' = share
    BY <1>8 DEF ExpireLink
  <2>2. Rows'
    BY <1>1, <1>5, <2>1 DEF Rows, Kept, Numbers
  <2>3. LinkIsOwners'
    BY <1>1, <1>5, <2>1 DEF Shares, LinkIsOwners, Kept
  <2> QED
    BY <1>1, <1>2, <1>3, <2>1, <2>2, <2>3 DEF Shares, Kept
<1>9. CASE RevokeLink
  <2>1. link' = {IF l \in revoke THEN Dead(l) ELSE l : l \in link} /\ share' = share
    BY <1>9 DEF RevokeLink
  <2>2. \A l \in link' : \E k \in link : /\ l \in Links
                                         /\ l.of = k.of /\ l.by = k.by /\ l.asked = k.asked
    BY <1>4, <1>5, <2>1
  <2>3. Rows'
    BY <1>1, <2>2 DEF Rows, Kept, Numbers
  <2>4. LinkIsOwners'
    BY <1>1, <2>2 DEF Shares, LinkIsOwners, Kept
  <2> QED
    BY <1>1, <1>2, <1>3, <2>1, <2>3, <2>4 DEF Shares, Kept
<1>10. ASSUME NEW u \in Users, AskShare(u) PROVE SessionsInv'
  <2>1. PICK s \in session : share' = [at |-> "found", by |-> u, of |-> s]
    BY <1>10 DEF AskShare
  <2>2. link' = link
    BY <1>10 DEF AskShare
  <2>3. s \in Numbers /\ s \in Nat
    BY DEF Rows, Numbers
  <2> QED
    BY <1>1, <1>2, <1>3, <2>1, <2>2, <2>3, RowsKept DEF Shares, LinkIsOwners, Kept, Owners
<1>11. ASSUME NEW u \in Users, AskRevoke(u) PROVE SessionsInv'
  BY <1>1, <1>2, <1>3, <1>11, RowsKept, SharesKept DEF AskRevoke
<1> QED
  BY <1>6, <1>7, <1>8, <1>9, <1>10, <1>11

\* Showing a shared session.
LEMMA ViewSteps ==
    ASSUME SessionsInv, AskView \/ FindSession \/ ShowMessages \/ ViewEnds
    PROVE  SessionsInv'
<1> USE DEF SessionsInv
<1> DEFINE Showings == [at : {"none", "found", "reading", "shown"}, of : Nat, dead : BOOLEAN,
                        crossed : BOOLEAN, shown : SUBSET Nat]
<1>1. Kept /\ UNCHANGED <<summary, messages, link, facts, draw, share, run>>
  BY DEF AskView, FindSession, ShowMessages, ViewEnds, Kept
<1>2. Rows' /\ Shares' /\ Draws'
  BY <1>1, RowsKept, SharesKept, DrawsKept
<1>3. Recalls'
  BY <1>1 DEF Recalls, ContextIsOwn, Kept, Numbers
<1>4. view \in Showings /\ session \subseteq Nat /\ messages \subseteq session
  BY DEF Views, Rows, Numbers
<1>5. view' = NoView => Views'
  BY DEF NoView, Views, LinkShowsItsSession
<1>6. CASE AskView
  <2>1. PICK l \in link :
           view' = NoView \/ (/\ IsLive(l)
                              /\ view' = [NoView EXCEPT !.at = "found", !.of = l.of,
                                                        !.dead = ~l.live])
    BY <1>6 DEF AskView
  <2>2. l.of \in session /\ l.of \in Nat
    BY <1>4 DEF Rows
  <2>3. CASE view' # NoView
    <3>1. view' = [at |-> "found", of |-> l.of, dead |-> FALSE, crossed |-> FALSE, shown |-> {}]
      BY <2>1, <2>3 DEF NoView, IsLive
    <3>2. view' \in Showings
      BY <2>2, <3>1
    <3>3. view'.at = "found" /\ ~view'.dead /\ view'.of \in session'
      BY <1>1, <2>2, <3>1 DEF Kept
    <3>4. Views'
      BY <3>2, <3>3 DEF Views, LinkShowsItsSession
    <3> QED
      BY <1>2, <1>3, <3>4
  <2> QED
    BY <1>2, <1>3, <1>5, <2>3
<1>7. CASE FindSession
  <2>1. CASE view' # NoView
    <3>1. view' = [view EXCEPT !.at = "reading"] /\ view.at = "found"
      BY <1>7, <2>1 DEF FindSession
    <3>2. view' = [at |-> "reading", of |-> view.of, dead |-> view.dead,
                   crossed |-> view.crossed, shown |-> view.shown]
      BY <1>4, <3>1
    <3>3. view' \in Showings
      BY <1>4, <3>2
    <3>4. /\ view'.at = "reading" /\ view'.dead = view.dead
          /\ view'.crossed = view.crossed /\ view'.of = view.of
      BY <3>2
    <3>5. Views'
      BY <1>1, <3>1, <3>3, <3>4 DEF Views, LinkShowsItsSession, Kept
    <3> QED
      BY <1>2, <1>3, <3>5
  <2> QED
    BY <1>2, <1>3, <1>5, <2>1
<1>8. CASE ShowMessages
  <2>1. view' = [view EXCEPT !.at = "shown", !.shown = messages] /\ view.at = "reading"
    BY <1>8 DEF ShowMessages
  <2>2. view' = [at |-> "shown", of |-> view.of, dead |-> view.dead,
                 crossed |-> view.crossed, shown |-> messages]
    BY <1>4, <2>1
  <2>3. ~view.crossed => messages \subseteq {view.of}
    BY <1>4, <2>1 DEF Views, Rows
  <2> QED
    BY <1>1, <1>2, <1>3, <1>4, <2>1, <2>2, <2>3 DEF Views, LinkShowsItsSession, Kept
<1>9. CASE ViewEnds
  BY <1>2, <1>3, <1>5, <1>9 DEF ViewEnds
<1> QED
  BY <1>6, <1>7, <1>8, <1>9

\* The invariant holds in every behaviour.
THEOREM SessionsInvariant == Spec => []SessionsInv
<1>1. SessionsInv /\ [Next]_vars => SessionsInv'
  <2> SUFFICES ASSUME SessionsInv, [Next]_vars PROVE SessionsInv'
    OBVIOUS
  <2>1. CASE UNCHANGED vars
    <3>1. Kept /\ UNCHANGED <<summary, messages, link, run, facts, draw, share, view>>
      BY <2>1 DEF vars, Kept
    <3>2. Recalls'
      BY <3>1 DEF SessionsInv, Recalls, ContextIsOwn, Kept, Numbers
    <3> QED
      BY <3>1, <3>2, RowsKept, SharesKept, ViewsKept, DrawsKept DEF SessionsInv
  <2>2. CASE Next
    BY <2>2, RunStarts, RecallSteps, PersistSteps, DrawSteps, DeleteSteps, ShareSteps,
       ViewSteps DEF Next, RunStep, Handlers
  <2> QED
    BY <2>1, <2>2
<1> QED
  BY InvInit, <1>1, PTL DEF Spec

\* There is one link at most, to the session there is.
OneLink == (\A k, l \in link : k = l) /\ \A l \in link : l.of \in session

\* A session that goes takes its link along.
LEMMA LinkStays == SessionsInv /\ OneLink /\ [Next]_vars => OneLink'
<1> SUFFICES ASSUME SessionsInv, OneLink, [Next]_vars PROVE OneLink'
  OBVIOUS
<1> USE DEF OneLink
<1>1. CASE UNCHANGED <<link, session>>
  BY <1>1
<1>2. ASSUME NEW u \in Owners, Upsert(u), UNCHANGED link PROVE OneLink'
  <2>1. UNCHANGED session \/ session = {}
    BY <1>2 DEF Upsert
  <2> QED
    BY <1>2, <2>1
<1>3. CASE DeleteSession
  BY <1>3 DEF DeleteSession, Cascade
<1>4. CASE InsertShare
  <2>1. /\ link' = {[of |-> s, by |-> share.by, asked |-> share.of, live |-> TRUE] : s \in session}
        /\ session' = session /\ \A s, t \in session : s = t
    BY <1>4 DEF InsertShare, SessionsInv, Rows
  <2>2. \A l \in link' : \E s \in session :
          l = [of |-> s, by |-> share.by, asked |-> share.of, live |-> TRUE]
    BY <2>1
  <2>3. ASSUME NEW k \in link', NEW l \in link' PROVE k = l
    <3>1. PICK s \in session : k = [of |-> s, by |-> share.by, asked |-> share.of, live |-> TRUE]
      BY <2>2
    <3>2. PICK t \in session : l = [of |-> t, by |-> share.by, asked |-> share.of, live |-> TRUE]
      BY <2>2
    <3> QED
      BY <2>1, <3>1, <3>2
  <2>4. \A l \in link' : l.of \in session'
    BY <2>1, <2>2
  <2> QED
    BY <2>3, <2>4
<1>5. CASE ExpireLink
  <2>1. link' = {Dead(l) : l \in link} /\ session' = session
    BY <1>5 DEF ExpireLink
  <2>2. \A l \in link : Dead(l).of = l.of
    BY DEF Dead, SessionsInv, Rows
  <2> QED
    BY <2>1, <2>2
<1>6. CASE RevokeLink
  <2>1. link' = {IF l \in revoke THEN Dead(l) ELSE l : l \in link} /\ session' = session
    BY <1>6 DEF RevokeLink
  <2>2. \A l \in link : Dead(l).of = l.of
    BY DEF Dead, SessionsInv, Rows
  <2>3. \A m \in link' : \E l \in link : m = (IF l \in revoke THEN Dead(l) ELSE l) /\ m.of = l.of
    BY <2>1, <2>2
  <2> QED
    BY <2>1, <2>3
<1>7. CASE \E u \in Users : RunTask(u)
  BY <1>2, <1>7 DEF RunTask, Owners
<1>8. CASE EnsureSession
  BY <1>2, <1>8 DEF EnsureSession, Owners
<1> QED
  BY <1>1, <1>3, <1>4, <1>5, <1>6, <1>7, <1>8
  DEF Next, RunStep, Handlers, vars, Recall, PersistMessage, RunEnds, ReadMessages, ReadUser,
      Summarise, NothingDrawn, StoreMemory, CheckOwner, AskView, FindSession, ShowMessages,
      ViewEnds, AskShare, AskRevoke, DeleteMemory

\* Where a run is in its work.
RunStates == run.at \in {"none", "queued", "running", "recalled"}

\* Every step keeps it there.
LEMMA RunMoves == SessionsInv /\ RunStates /\ [Next]_vars => RunStates'
<1> SUFFICES ASSUME SessionsInv, RunStates, [Next]_vars PROVE RunStates'
  OBVIOUS
<1>1. CASE UNCHANGED run
  BY <1>1 DEF RunStates
<1>2. CASE EnsureSession \/ Recall
  <2>1. "at" \in DOMAIN run
    BY DEF SessionsInv, Recalls
  <2> QED
    BY <1>2, <2>1 DEF EnsureSession, Recall, RunStates
<1>3. CASE RunEnds
  BY <1>3 DEF RunEnds, NoRun, RunStates
<1>4. ASSUME NEW u \in Users, RunTask(u) PROVE RunStates'
  <2>1. run' = [NoRun EXCEPT !.at = "queued", !.by = u]
    BY <1>4 DEF RunTask
  <2> QED
    BY <2>1 DEF NoRun, RunStates
<1> QED
  BY <1>1, <1>2, <1>3, <1>4
  DEF Next, RunStep, Handlers, vars, PersistMessage, ReadMessages, ReadUser, Summarise,
      NothingDrawn, StoreMemory, DeleteSession, InsertShare, ExpireLink, RevokeLink, CheckOwner,
      AskView, FindSession, ShowMessages, ViewEnds, AskShare, AskRevoke, DeleteMemory

\* A set without two elements.
LEMMA AtMostOne ==
    ASSUME NEW S, \A x, y \in S : x = y
    PROVE  Cardinality(S) <= 1
<1>1. CASE S = {}
  BY <1>1, FS_EmptySet
<1>2. CASE S # {}
  <2>1. PICK x \in S : S = {x}
    BY <1>2
  <2> QED
    BY <2>1, FS_Singleton
<1> QED
  BY <1>1, <1>2

\* The variables keep their types: a thread has one session at most, and the
\* session one link, which is never one to nothing.
THEOREM TypesKept == Spec => []SessionsTypeOK
<1>1. Init => OneLink /\ RunStates
  BY DEF Init, OneLink, NoRun, RunStates
<1>2. SessionsInv /\ OneLink /\ RunStates => SessionsTypeOK
  <2> SUFFICES ASSUME SessionsInv, OneLink, RunStates PROVE SessionsTypeOK
    OBVIOUS
  <2> USE DEF SessionsInv
  <2>1. /\ session \subseteq DOMAIN owner /\ messages \subseteq session
        /\ \A s \in DOMAIN owner : owner[s] \in Users \cup {Default}
    BY DEF Rows, Owners, Numbers
  <2>2. Cardinality(session) <= 1 /\ Cardinality(link) <= 1
    BY AtMostOne DEF Rows, OneLink
  <2>3. draw.at \in {"none", "begun", "read", "asking", "storing"}
    BY DEF Draws, Drawings
  <2> QED
    BY <2>1, <2>2, <2>3 DEF SessionsTypeOK, OneLink, RunStates
<1> QED
  BY <1>1, <1>2, LinkStays, RunMoves, SessionsInvariant, PTL DEF Spec

\* Deletions and re-creations of a thread's session, in whatever order with the
\* three statements that make a link, give nobody another's session to share.
THEOREM LinksOwned == Spec => []LinkIsOwners
<1>1. SessionsInv => LinkIsOwners
  BY DEF SessionsInv, Shares
<1> QED
  BY <1>1, SessionsInvariant, PTL

\* And a view that a deletion does not cross shows its link's session alone.
THEOREM LinksFaithful == Spec => []LinkShowsItsSession
<1>1. SessionsInv => LinkShowsItsSession
  BY DEF SessionsInv, Views
<1> QED
  BY <1>1, SessionsInvariant, PTL

\* What a run recalls, facts and summaries, came from its own user's sessions,
\* but for those deleted while they were consolidated.
THEOREM ContextOwned == Spec => []ContextIsOwn
<1>1. SessionsInv => ContextIsOwn
  BY DEF SessionsInv, Recalls
<1> QED
  BY <1>1, SessionsInvariant, PTL
=============================================================================
