--------------------------- MODULE KnowledgeBase ---------------------------
(***************************************************************************)
(* The knowledge bases of self_rag/engine.py, used by two processes over   *)
(* one Chroma directory: the server's handlers create, delete and fill     *)
(* them, an agent's tool in a worker asks them.                            *)
(*                                                                         *)
(* A knowledge base is two collections, found by name: its children, which *)
(* are searched, and their parents, whose text is what an answer is made   *)
(* from.  Both processes write or read one collection at a time, so that   *)
(* the steps of a handler interleave with those of a question.             *)
(***************************************************************************)
EXTENDS Naturals, FiniteSets

CONSTANTS Groups,      \* groups a knowledge base is made for
          Askers,      \* groups whose users ask, fill and delete
          NoGroup,     \* in the metadata of a knowledge base created without one
          MaxMade,     \* collections created
          MaxFaults    \* failures of Chroma or of a process

\* The two collections of a knowledge base.  One name is modelled.
Children == "kb"
Parents == "kb_parents"      \* _parent_collection_name

None == [id |-> 0, group |-> NoGroup, by |-> 0]

VARIABLES
    colls,     \* Chroma's collections by name: id, group and the call that made it
    children,  \* rows of children: collection, id of their parent
    parents,   \* rows of parents: collection, id
    home,      \* history: by id of a collection or block, whose it is and where
    index,     \* the worker's BM25 index: {} or {the blocks it was built from}
    op,        \* the handler at work on Chroma, which holds the server's loop
    ask,       \* the question under way in the worker
    cut,       \* history: collections a failed handler left incomplete
    faults     \* failures left

vars == <<colls, children, parents, home, index, op, ask, cut, faults>>

NoOp == [at |-> "idle", group |-> NoGroup, coll |-> 0, partner |-> 0, block |-> 0]
NoAsk == [at |-> "idle", group |-> NoGroup, since |-> 0,
          coll |-> 0, near |-> {}, match |-> {}, texts |-> {}, mixed |-> FALSE]

made == Cardinality(DOMAIN home)

Init ==
    /\ colls = <<>> /\ home = <<>>
    /\ children = {} /\ parents = {}
    /\ index = {}
    /\ op = NoOp /\ ask = NoAsk
    /\ cut = {} /\ faults = MaxFaults

With(f, x, v) == [y \in DOMAIN f \cup {x} |-> IF y = x THEN v ELSE f[y]]
Without(f, x) == [y \in DOMAIN f \ {x} |-> f[y]]

\* get_kb, _get_parent_collection: the collection a name stands for now.
Coll(c) == IF c \in DOMAIN colls THEN colls[c] ELSE None

\* Mutant: nobody is checked.
Anybody(c, g) == TRUE

\* check_kb_access goes by the metadata: what has no group is everybody's,
\* and so is what does not exist.
MayAccess(c, g) == c.group \in {NoGroup, g}

\* Managers and administrators are not checked (NoGroup here).
MayChange(c, g) == g = NoGroup \/ MayAccess(c, g)

------------------------------------------------------------------------------
(* The server: create_kb, delete_kb, ingest_files. *)

\* A collection under a new id, for the knowledge base with children by.
Create(c, by, g) ==
    /\ made < MaxMade
    /\ colls' = With(colls, c, [id |-> made + 1, group |-> g, by |-> by])
    /\ home' = With(home, made + 1, [group |-> g, coll |-> by])

\* A deleted collection takes its rows along.
Drop(c) ==
    /\ colls' = Without(colls, c)
    /\ children' = {r \in children : r.coll # Coll(c).id}
    /\ parents' = {r \in parents : r.coll # Coll(c).id}

\* create_kb: the children, unless the name is taken.
CreateChildren(g) ==
    /\ op.at = "idle"
    /\ Children \notin DOMAIN colls
    /\ Create(Children, made + 1, g)
    /\ cut' = cut \ {Children}
    /\ op' = [NoOp EXCEPT !.at = "creating", !.group = g,
                          !.coll = made + 1]
    /\ UNCHANGED <<children, parents, index, ask, faults>>

\* Then the parents.  Chroma refuses a name that exists: the handler ends
\* with a knowledge base that has children only.
CreateParents ==
    /\ op.at = "creating"
    /\ op' = NoOp
    /\ IF Parents \in DOMAIN colls THEN UNCHANGED <<colls, home, cut>>
       ELSE Create(Parents, op.coll, op.group) /\ cut' = cut \ {Parents}
    /\ UNCHANGED <<children, parents, index, ask, faults>>

\* delete_kb: the children, then the parents; what keeps those from being
\* deleted is swallowed.  The index it clears is this process's, which asks
\* no questions and has none.
DeleteChildren(g) ==
    /\ op.at = "idle"
    /\ Children \in DOMAIN colls
    /\ MayChange(Coll(Children), g)
    /\ Drop(Children)
    /\ cut' = cut \ {Children}
    /\ op' = [NoOp EXCEPT !.at = "deleting"]
    /\ UNCHANGED <<home, index, ask, faults>>

\* Mutant: the parents stay.
KeepPartner == UNCHANGED <<colls, children, parents>>

DropPartner ==
    IF Parents \in DOMAIN colls THEN Drop(Parents)
    ELSE UNCHANGED <<colls, children, parents>>

DeleteParents ==
    /\ op.at = "deleting"
    /\ DropPartner
    /\ cut' = cut \ {Parents}
    /\ op' = NoOp
    /\ UNCHANGED <<home, index, ask, faults>>

\* ingest_files checks, saves a file and looks both collections up, without
\* letting anybody in between; without the parents' it adds nothing.
IngestStarts(g) ==
    /\ op.at = "idle"
    /\ {Children, Parents} \subseteq DOMAIN colls
    /\ MayChange(Coll(Children), g)
    /\ op' = [NoOp EXCEPT !.at = "adding", !.coll = Coll(Children).id,
                          !.partner = Coll(Parents).id]
    /\ UNCHANGED <<colls, children, parents, home, index, ask, cut, faults>>

\* One block of the file: its children first.
AddChildren ==
    /\ op.at = "adding" /\ made < MaxMade
    /\ children' = children \cup {[coll |-> op.coll, parent |-> made + 1]}
    /\ home' = With(home, made + 1, home[op.coll])
    /\ op' = [op EXCEPT !.at = "added", !.block = made + 1]
    /\ UNCHANGED <<colls, parents, index, ask, cut, faults>>

\* Mutant: the parent is stored under another id.
IdOfNext == op.block + 1

\* Then the parent, under the id its children carry.
IdOfBlock == op.block

AddParent ==
    /\ op.at = "added"
    /\ parents' = parents \cup {[coll |-> op.partner, id |-> IdOfBlock]}
    /\ op' = [op EXCEPT !.at = "adding", !.block = 0]
    /\ UNCHANGED <<colls, children, home, index, ask, cut, faults>>

IngestEnds ==
    /\ op.at = "adding"
    /\ op' = NoOp
    /\ UNCHANGED <<colls, children, parents, home, index, ask, cut, faults>>

\* Chroma raises, or the server dies, between two steps of a handler.
ServerFails ==
    /\ op.at # "idle" /\ faults > 0
    /\ faults' = faults - 1
    /\ cut' = cut \cup CASE op.at = "adding" -> {}
                         [] op.at = "added" -> {Children}
                         [] OTHER -> {Parents}
    /\ op' = NoOp
    /\ UNCHANGED <<colls, children, parents, home, index, ask>>

------------------------------------------------------------------------------
(* The worker: query_knowledge_base. *)

\* The tool compares the agent's group, 1 standing in for none.
AskStarts(g) ==
    /\ ask.at = "idle"
    /\ MayAccess(Coll(Children), g)
    /\ ask' = [NoAsk EXCEPT !.at = "checked", !.group = g,
                            !.since = made]
    /\ UNCHANGED <<colls, children, parents, home, index, op, cut, faults>>

\* query runs in a thread of its own: it gets the collection by name.
Open ==
    /\ ask.at = "checked"
    /\ ask' = IF Coll(Children) = None THEN NoAsk
              ELSE [ask EXCEPT !.at = "open", !.coll = Coll(Children).id]
    /\ UNCHANGED <<colls, children, parents, home, index, op, cut, faults>>

BlocksIn(id) == {r.parent : r \in {s \in children : s.coll = id}}

\* The collection opened is still there: a deleted one fails the question.
Stands == \E c \in DOMAIN colls : colls[c].id = ask.coll

\* The blocks of the nearest children.  (TOP_K is more than an instance has.)
SearchDense ==
    /\ ask.at = "open"
    /\ ask' = IF Stands THEN [ask EXCEPT !.at = "near", !.near = BlocksIn(ask.coll)]
              ELSE NoAsk
    /\ UNCHANGED <<colls, children, parents, home, index, op, cut, faults>>

\* The blocks of the matches in the BM25 index, which is built when there is
\* none, from all children of what the name stands for by then, and kept until
\* the worker ends.
SearchBm25 ==
    LET built == IF index # {} THEN UNION index
                 ELSE BlocksIn(Coll(Children).id)
    IN
    /\ ask.at = "near"
    /\ index' = {built}
    /\ ask' = [ask EXCEPT !.at = "matched", !.match = built]
    /\ UNCHANGED <<colls, children, parents, home, op, cut, faults>>

\* The first query once more, for its texts, after that for a hypothetical
\* answer: blocks added meanwhile are found too.
SearchAgain ==
    /\ ask.at = "matched"
    /\ ask' = IF Stands THEN [ask EXCEPT !.at = "ranked", !.near = BlocksIn(ask.coll)]
              ELSE NoAsk
    /\ UNCHANGED <<colls, children, parents, home, index, op, cut, faults>>

\* The texts: those parents that the parents' collection of the name has, or,
\* when it has none of them, the children the dense search found.
Fill ==
    LET found == {r.id : r \in {s \in parents : /\ s.coll = Coll(Parents).id
                                                /\ s.id \in ask.near \cup ask.match}}
    IN
    /\ ask.at = "ranked"
    /\ ask' = [ask EXCEPT !.at = "answered",
                          !.texts = IF found # {} THEN found ELSE ask.near,
                          !.mixed = Parents \in cut]
    /\ UNCHANGED <<colls, children, parents, home, index, op, cut, faults>>

AskEnds ==
    /\ ask.at = "answered"
    /\ ask' = NoAsk
    /\ UNCHANGED <<colls, children, parents, home, index, op, cut, faults>>

\* A worker that starts again has no index.
WorkerRestarts ==
    /\ faults > 0
    /\ faults' = faults - 1
    /\ ask' = NoAsk /\ index' = {}
    /\ UNCHANGED <<colls, children, parents, home, op, cut>>

------------------------------------------------------------------------------
ServerStep ==
    \/ CreateParents \/ DeleteParents \/ AddChildren \/ AddParent
    \/ IngestEnds \/ ServerFails
    \/ \E g \in Groups : CreateChildren(g)
    \/ \E g \in Askers \cup {NoGroup} : DeleteChildren(g) \/ IngestStarts(g)

WorkerStep ==
    \/ Open \/ SearchDense \/ SearchBm25 \/ SearchAgain \/ Fill \/ AskEnds
    \/ WorkerRestarts
    \/ \E g \in Askers : AskStarts(g)

Next == ServerStep \/ WorkerStep

Spec == Init /\ [][Next]_vars

------------------------------------------------------------------------------
(* Properties. *)

KbTypeOK ==
    /\ DOMAIN colls \subseteq {"kb", "kb_parents"}
    /\ \A c \in DOMAIN colls : {colls[c].id, colls[c].by} \subseteq DOMAIN home
    /\ {r.parent : r \in children} \cup {r.id : r \in parents} \subseteq DOMAIN home
    /\ Cardinality(index) <= 1
    /\ op.at \in {"idle", "creating", "deleting", "adding", "added"}
    /\ ask.at \in {"idle", "checked", "open", "near", "matched", "ranked", "answered"}

\* A text given to an agent belongs to its group, or to a knowledge base made
\* under the name after the agent was let in.  An index of a
\* knowledge base that is gone brings no text back, unless its deletion was
\* cut short and left its parents to the next one of the name.
AnswerIsOwn ==
    \A i \in ask.texts :
        \/ home[i].group \in {NoGroup, ask.group}
        \/ home[i].coll > ask.since
        \/ ask.mixed

\* An answer is made from the one knowledge base that was opened for it, however
\* old the index is and whatever is deleted and made again under the name
\* meanwhile, unless a handler was cut short.
AnswerFromOne ==
    \A i \in ask.texts : home[i].coll = ask.coll \/ ask.mixed

\* The parents' collection a knowledge base finds was made together with it,
\* unless a handler was cut short.
PartnerIsOwn ==
    LET c == Coll(Children) IN
    c # None => \/ Coll(Parents).by = c.id
                \/ op.at = "creating" /\ op.coll = c.id
                \/ Parents \in cut

\* Each child's parent is stored, but for the block being added, after an
\* ingestion that failed between the two, or where the parents are not its own.
ChildHasParent ==
    \A r \in children :
        \/ \E p \in parents : p.id = r.parent
        \/ op.at = "added" /\ op.block = r.parent
        \/ cut # {}
=============================================================================
