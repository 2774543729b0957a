----------------------------- MODULE MCServices -----------------------------
(***************************************************************************)
(* The services around a run.  They share no state in these models, so     *)
(* that a behaviour is one of any of them, chosen by part; the others stay *)
(* where they began.                                                       *)
(***************************************************************************)
EXTENDS Integers, Sequences, FiniteSets

CONSTANTS
    u1, u2, g1, g2, Users, MaxFaults, MaxRuns,      \* of several parts
    Custom, MaxChanges,                             \* Accounts
    Groups, Askers, NoGroup, MaxMade,               \* KnowledgeBase
    MaxSessions,                                    \* Sessions
    Tasks, MaxObjects, MaxUses,                     \* Singletons
    Workers, Most, Width, MaxTime, MaxRequests,     \* RateWindow
    Docs, Queries, TopK, K, Input, Output,          \* Retrieval
    Names                                           \* SessionFiles

\* A task is not the shutdown; requests come, of a finite number at once;
\* a knowledge base has a finite number of parents.
ASSUME ServicesAssumption ==
    /\ "closer" \notin Tasks
    /\ IsFiniteSet(Workers) /\ Workers # {}
    /\ Most \in Nat /\ Width \in Nat /\ MaxTime \in Int /\ Width <= MaxTime
    /\ IsFiniteSet(Docs) /\ {TopK, Input, Output} \subseteq Nat /\ K \in Nat \ {0}

VARIABLES
    part,
    roles, grants, cache, role, token, request, causes, budget,
    colls, children, parents, home, index, op, ask, cut, faults,
    session, owner, summary, messages, link, run, runs, facts, draw,
    share, view, revoke,
    kind, slot, cm, object, task, holder, closer, uses,
    now, entries, inside, arrived, passed, lag,
    left, searched, dense, bm25, ranked, texts, score, answer, at,
    uploads, output, linked, agent, listed, todo, spare,
    here, saving, adrift, removal, known, foreign, late, stream, subs, broken

\* Two removals of a name; one and a change of session; two runs; two changes of
\* session; one of each; and, last, faults of both subscriptions of a stream.
Streaming == [runs |-> 0, moves |-> 0, removals |-> 0, faults |-> 2]
FileBudgets ==
    {[runs |-> 0, moves |-> 0, removals |-> 2, faults |-> 1],
     [runs |-> 0, moves |-> 1, removals |-> 1, faults |-> 1],
     [runs |-> 2, moves |-> 0, removals |-> 1, faults |-> 1],
     [runs |-> 0, moves |-> 2, removals |-> 1, faults |-> 1],
     [runs |-> 1, moves |-> 1, removals |-> 1, faults |-> 0],
     Streaming}

A == INSTANCE AccountsProofs
B == INSTANCE KnowledgeBaseProofs
S == INSTANCE SessionsProofs
O == INSTANCE Singletons
W == INSTANCE RateWindow
R == INSTANCE Retrieval
F == INSTANCE SessionFilesProofs WITH
        run <- agent, Budgets <- FileBudgets

accounts == <<roles, grants, cache, role, token, request, causes, budget>>
bases == <<colls, children, parents, home, index, op, ask, cut, faults>>
sessions == <<session, owner, summary, messages, link, run, runs, facts, draw,
              share, view, revoke>>
objects == <<kind, slot, cm, object, task, holder, closer, uses>>
window == <<now, entries, inside, arrived, passed, lag>>
retrieval == <<left, searched, dense, bm25, ranked, texts, score, answer, at>>

files == <<uploads, output, linked, agent, listed, todo, spare,
           here, saving, adrift, removal, known, foreign, late, stream, subs, broken>>

vars == <<part, accounts, bases, sessions, objects, window, retrieval, files>>

AccountsStep(Step) ==
    /\ part = "accounts" /\ Step
    /\ UNCHANGED <<part, bases, sessions, objects, window, retrieval, files>>

\* The files of a session and its stream are two parts: they share bounds only.
FilesStep(name, Step) ==
    /\ part = name /\ Step
    /\ UNCHANGED <<part, accounts, bases, sessions, objects, window, retrieval>>

MCInit ==
    /\ A!Init /\ B!Init /\ S!Init /\ O!Init /\ W!Init /\ R!Init /\ F!Init
    /\ part \in {"accounts", "bases", "sessions", "objects", "window", "retrieval",
                "files", "stream"}
    /\ part # "accounts" => \A u \in DOMAIN role : u = CHOOSE v \in Users : TRUE
    /\ part # "objects" => kind = "pool"
    /\ part # "files" => spare = Streaming

MCNext ==
    \/ AccountsStep(A!Next)
    \/ FilesStep("files", F!FileStep)
    \/ FilesStep("stream", F!StreamStep \/ F!StreamFault)
    \/ /\ part = "bases" /\ B!Next
       /\ UNCHANGED <<part, accounts, sessions, objects, window, retrieval, files>>
    \/ /\ part = "sessions" /\ S!Next
       /\ UNCHANGED <<part, accounts, bases, objects, window, retrieval, files>>
    \/ /\ part = "objects" /\ O!Next
       /\ UNCHANGED <<part, accounts, bases, sessions, window, retrieval, files>>
    \/ /\ part = "window" /\ W!Next
       /\ UNCHANGED <<part, accounts, bases, sessions, objects, retrieval, files>>
    \/ /\ part = "retrieval" /\ R!Next
       /\ UNCHANGED <<part, accounts, bases, sessions, objects, window, files>>

MCFairness ==
    /\ WF_vars(AccountsStep(\E u \in Users : A!RequestStep(u)))
    /\ \A r \in A!Roles : WF_vars(AccountsStep(A!Expire(r)))
    /\ WF_vars(FilesStep("stream", F!StreamStep))

MCSpec == MCInit /\ [][MCNext]_vars /\ MCFairness

------------------------------------------------------------------------------
\* Types of all parts.
ServicesTypeOK ==
    /\ A!AccountsTypeOK /\ B!KbTypeOK /\ S!SessionsTypeOK
    /\ O!SingletonTypeOK /\ W!WindowTypeOK /\ R!RetrievalTypeOK /\ F!FilesTypeOK

\* A cached permission set is out of date only for a known reason.
StaleEntryIsExplained == A!StaleEntryIsExplained

\* Nobody takes the last administrator's role away from themselves.
LastAdminNotByOneself == A!LastAdminNotByOneself

\* Once changes and failures are over the cache comes to agree with the rows
\* for good: who holds old permissions stores them once at most.
Heal == <>[](part = "accounts" => A!EntriesAgree)

\* A question is answered from what the asker's group may read.
AnswerIsOwn == B!AnswerIsOwn

\* A question is answered from the knowledge base opened for it alone.
AnswerFromOne == B!AnswerFromOne

\* The parents' collection of a knowledge base is its own.
PartnerIsOwn == B!PartnerIsOwn

\* The children a search finds have their parents beside them.
ChildHasParent == B!ChildHasParent

\* A link shows the session it was made for, while it is live.
LinkShowsItsSession == S!LinkShowsItsSession

\* A link is made by the session's user.
LinkIsOwners == S!LinkIsOwners

\* An agent is told what was said in its own user's sessions.
ContextIsOwn == S!ContextIsOwn

\* A process has one of each object.
AtMostOneLive == O!AtMostOneLive

\* An object is handed out when it is ready.
ReadyUnless == O!ReadyUnless

\* A window lets the limit and the requests that count at once through.
AcceptedBound == W!AcceptedBound

\* Only the reranker leaves out what both searches ranked higher.
LeftOutForBetter == R!LeftOutForBetter

\* The agent works in a directory that has every upload it was told of.
RunHasItsUploads == F!RunHasItsUploads

\* What the page has as uploaded is stored, but for the reasons named there.
UnstoredIsExplained == F!UnstoredIsExplained

\* Once faults are over the SSE stream is subscribed to one channel at least:
\* it does not stay open, with heartbeats, hearing nothing.
StreamHears == <>[](part = "stream" => subs # {})
=============================================================================
