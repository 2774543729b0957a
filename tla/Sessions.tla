------------------------------- MODULE Sessions -------------------------------
(***************************************************************************)
(* A thread's session, what hangs on it and what outlives it: its row and  *)
(* its messages, a link that shares it, and the memory drawn from it after *)
(* a run.  The handlers of server.py, the worker's run_deep_agent and the  *)
(* consolidation that it leaves behind meet only in PostgreSQL's rows, one *)
(* statement at a time, and find a session by its thread id: after a       *)
(* deletion the same id is another session.                                *)
(***************************************************************************)
EXTENDS Naturals, FiniteSets, Sequences

CONSTANTS Users, MaxSessions, MaxRuns

VARIABLES
    session,   \* sessions: {} or {the number of the row the thread has}
    owner,     \* history: sessions.user_id of each row there was
    summary,   \* sessions.summary: {} or {what it was drawn from}
    messages,  \* messages: the session each is of
    link,      \* session_shares: {} or {its row}
    run,       \* the thread's run, and what it recalled when it began
    runs,      \* runs accepted
    facts,     \* long_term_memories: user and what each was drawn from
    draw,      \* the consolidation under way
    share,     \* the handlers that create, show and revoke links
    view,
    revoke

vars == <<session, owner, summary, messages, link, run, runs, facts, draw,
          share, view, revoke>>

\* The row that _ensure_session inserts names no user; the column has a default.
Default == "default"

NoRun == [at |-> "none", by |-> Default, recalled |-> {}]
NoDraw == [at |-> "none", rows |-> {}, user |-> Default, late |-> FALSE]
NoShare == [at |-> "none", by |-> Default, of |-> 0]
NoView == [at |-> "none", of |-> 0, dead |-> FALSE, crossed |-> FALSE, shown |-> {}]

Init ==
    /\ session = {} /\ owner = <<>> /\ summary = {} /\ messages = {}
    /\ link = {} /\ facts = {}
    /\ run = NoRun /\ runs = 0 /\ draw = NoDraw
    /\ share = NoShare /\ view = NoView /\ revoke = {}

\* INSERT ... ON CONFLICT DO UPDATE: a row that is there keeps its user.
Upsert(u) ==
    IF session # {} THEN UNCHANGED <<session, owner, summary>>
    ELSE /\ Len(owner) < MaxSessions
         /\ owner' = Append(owner, u)
         /\ session' = {Len(owner) + 1}
         /\ summary' = {}

------------------------------------------------------------------------------
(* A run, from run_task to the task that consolidates it. *)

RunTask(u) ==
    /\ run.at = "none" /\ runs < MaxRuns
    /\ Upsert(u)
    /\ runs' = runs + 1
    /\ run' = [NoRun EXCEPT !.at = "queued", !.by = u]
    /\ UNCHANGED <<messages, link, facts, draw, share, view, revoke>>

\* The worker makes the row again if it was deleted.
EnsureSession ==
    /\ run.at = "queued"
    /\ Upsert(Default)
    /\ run' = [run EXCEPT !.at = "running"]
    /\ UNCHANGED <<messages, link, runs, facts, draw, share, view, revoke>>

\* build_context: the facts and summaries of the run's user.
Recalled(u) ==
    {m \in facts : m.user = u} \cup
    {[user |-> u, of |-> m.of, late |-> m.late] :
        m \in {x \in summary : \E s \in session : owner[s] = u}}

Recall ==
    /\ run.at = "running"
    /\ run' = [run EXCEPT !.at = "recalled", !.recalled = Recalled(run.by)]
    /\ UNCHANGED <<session, owner, summary, messages, link, runs, facts, draw,
                   share, view, revoke>>

\* A message of the run, stored by a task of its own that may outlast it: the
\* foreign key refuses it when there is no session.
PersistMessage ==
    /\ run.at \in {"running", "recalled"} \/ draw.at # "none"
    /\ messages' = messages \cup session
    /\ UNCHANGED <<session, owner, summary, link, run, runs, facts, draw,
                   share, view, revoke>>

\* However the run ends, consolidation starts as a task of its own.
RunEnds ==
    /\ run.at = "recalled"
    /\ draw.at = "none"
    /\ run' = NoRun
    /\ draw' = [NoDraw EXCEPT !.at = "begun"]
    /\ UNCHANGED <<session, owner, summary, messages, link, runs, facts,
                   share, view, revoke>>

------------------------------------------------------------------------------
(* consolidate_session. *)

\* Its messages; with none it is over.
ReadMessages ==
    /\ draw.at = "begun"
    /\ draw' = IF messages = {} THEN NoDraw
               ELSE [draw EXCEPT !.at = "read", !.rows = messages]
    /\ UNCHANGED <<session, owner, summary, messages, link, run, runs, facts,
                   share, view, revoke>>

\* Mutant: the facts are the run's user's.
UserOfRun == run.by

\* The user whose the facts will be: the session's, or nobody's.
UserOfSession ==
    IF session = {} THEN "nobody" ELSE owner[CHOOSE s \in session : TRUE]

ReadUser ==
    /\ draw.at = "read"
    /\ draw' = [draw EXCEPT !.at = "asking", !.user = UserOfSession]
    /\ UNCHANGED <<session, owner, summary, messages, link, run, runs, facts,
                   share, view, revoke>>

Drawn == {[user |-> draw.user, of |-> s, late |-> draw.late] : s \in draw.rows}

\* The model has answered: UPDATE sessions, of whatever session there is now.
Summarise ==
    /\ draw.at = "asking"
    /\ draw' = [draw EXCEPT !.at = "storing"]
    /\ summary' = IF session = {} THEN {} ELSE Drawn
    /\ UNCHANGED <<session, owner, messages, link, run, runs, facts,
                   share, view, revoke>>

\* The model answered nothing, or without facts, or a statement failed.
NothingDrawn ==
    /\ draw.at \in {"asking", "storing"}
    /\ draw' = NoDraw
    /\ UNCHANGED <<session, owner, summary, messages, link, run, runs, facts,
                   share, view, revoke>>

StoreMemory ==
    /\ draw.at = "storing"
    /\ facts' = facts \cup Drawn
    /\ draw' = NoDraw
    /\ UNCHANGED <<session, owner, summary, messages, link, run, runs,
                   share, view, revoke>>

\* DELETE /api/memories.
DeleteMemory(m) ==
    /\ facts' = facts \ {m}
    /\ UNCHANGED <<session, owner, summary, messages, link, run, runs, draw,
                   share, view, revoke>>

------------------------------------------------------------------------------
(* The handlers of sessions and links. *)

\* Mutant: links outlive their session.
MessagesOnly == messages' = {} /\ UNCHANGED link

\* ON DELETE CASCADE, from messages and from session_shares.
Cascade == messages' = {} /\ link' = {}

\* Whoever sees the session may delete it; a run or consolidation goes on.
DeleteSession ==
    /\ session # {}
    /\ session' = {} /\ summary' = {}
    /\ Cascade
    /\ draw' = [draw EXCEPT !.late = draw.at # "none"]
    /\ view' = [view EXCEPT !.crossed = view.at # "none"]
    /\ UNCHANGED <<owner, run, runs, facts, share, revoke>>

\* create_share_link asks for the session, then for its user, and inserts.
AskShare(u) ==
    /\ share.at = "none" /\ link = {}
    /\ \E s \in session :
          share' = [at |-> "found", by |-> u, of |-> s]
    /\ UNCHANGED <<session, owner, summary, messages, link, run, runs, facts,
                   draw, view, revoke>>

\* Mutant: whoever finds the session may share it.
OrAnybody == TRUE

\* A session that has no row any more has no owner to object.
IsOwners == \A s \in session : owner[s] = share.by

CheckOwner ==
    /\ share.at = "found"
    /\ share' = IF IsOwners THEN [share EXCEPT !.at = "allowed"] ELSE NoShare
    /\ UNCHANGED <<session, owner, summary, messages, link, run, runs, facts,
                   draw, view, revoke>>

\* The foreign key refuses a link to nothing.
InsertShare ==
    /\ share.at = "allowed"
    /\ link' = {[of |-> s, by |-> share.by, asked |-> share.of, live |-> TRUE] :
                   s \in session}
    /\ share' = NoShare
    /\ UNCHANGED <<session, owner, summary, messages, run, runs, facts, draw,
                   view, revoke>>

\* A link expires.
Dead(l) == [l EXCEPT !.live = FALSE]

ExpireLink ==
    /\ \E l \in link : l.live
    /\ link' = {Dead(l) : l \in link}
    /\ UNCHANGED <<session, owner, summary, messages, run, runs, facts, draw,
                   share, view, revoke>>

\* revoke_share_link: the creator's check, then the UPDATE by token.
AskRevoke(u) ==
    /\ revoke = {}
    /\ revoke' = {l \in link : l.by = u}
    /\ revoke' # {}
    /\ UNCHANGED <<session, owner, summary, messages, link, run, runs, facts,
                   draw, share, view>>

RevokeLink ==
    /\ revoke # {}
    /\ link' = {IF l \in revoke THEN Dead(l) ELSE l : l \in link}
    /\ revoke' = {}
    /\ UNCHANGED <<session, owner, summary, messages, run, runs, facts, draw,
                   share, view>>

\* get_shared_session: the link, which must be active and not expired.
IsLive(l) == l.live

AskView ==
    /\ view.at = "none"
    /\ \E l \in link :
          view' = IF IsLive(l)
                  THEN [NoView EXCEPT !.at = "found", !.of = l.of, !.dead = ~l.live]
                  ELSE NoView
    /\ UNCHANGED <<session, owner, summary, messages, link, run, runs, facts,
                   draw, share, revoke>>

\* Then the session, or 404.
FindSession ==
    /\ view.at = "found"
    /\ view' = IF session = {} THEN NoView ELSE [view EXCEPT !.at = "reading"]
    /\ UNCHANGED <<session, owner, summary, messages, link, run, runs, facts,
                   draw, share, revoke>>

\* Then its messages; counting the view and answering change nothing here.
ShowMessages ==
    /\ view.at = "reading"
    /\ view' = [view EXCEPT !.at = "shown", !.shown = messages]
    /\ UNCHANGED <<session, owner, summary, messages, link, run, runs, facts,
                   draw, share, revoke>>

ViewEnds ==
    /\ view.at = "shown"
    /\ view' = NoView
    /\ UNCHANGED <<session, owner, summary, messages, link, run, runs, facts,
                   draw, share, revoke>>

------------------------------------------------------------------------------
RunStep ==
    \/ EnsureSession \/ Recall \/ PersistMessage \/ RunEnds
    \/ ReadMessages \/ ReadUser \/ Summarise \/ NothingDrawn \/ StoreMemory

Handlers ==
    \/ DeleteSession \/ CheckOwner \/ InsertShare \/ ExpireLink \/ RevokeLink
    \/ AskView \/ FindSession \/ ShowMessages \/ ViewEnds
    \/ \E u \in Users : RunTask(u) \/ AskShare(u) \/ AskRevoke(u)
    \/ \E m \in facts : DeleteMemory(m)

Next == RunStep \/ Handlers

Spec == Init /\ [][Next]_vars

------------------------------------------------------------------------------
(* Properties. *)

SessionsTypeOK ==
    /\ session \subseteq DOMAIN owner /\ Cardinality(session) <= 1
    /\ \A s \in DOMAIN owner : owner[s] \in Users \cup {Default}
    /\ messages \subseteq session
    /\ \A l \in link : l.of \in session
    /\ Cardinality(link) <= 1
    /\ run.at \in {"none", "queued", "running", "recalled"}
    /\ draw.at \in {"none", "begun", "read", "asking", "storing"}

\* A shared view shows messages of the session its link was made for, and
\* none when the link was dead before the view began, also where the thread
\* was deleted and begun anew.  Only a deletion in the middle of the view
\* lets it read the next session's.
LinkShowsItsSession ==
    view.at = "shown" =>
        ~view.dead /\ (view.crossed \/ view.shown \subseteq {view.of})

\* A user without the permission to share shares sessions of their own, unless
\* the session went, and another came, between the check and the insertion.
LinkIsOwners ==
    \A l \in link : owner[l.of] = l.by \/ l.asked # l.of

\* What an agent is told of earlier sessions was said in sessions of its user,
\* unless one was deleted while it was being consolidated.
ContextIsOwn ==
    \A m \in run.recalled : m.late \/ owner[m.of] = run.by
=============================================================================
