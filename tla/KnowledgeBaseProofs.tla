------------------------- MODULE KnowledgeBaseProofs -------------------------
(***************************************************************************)
(* Theorems about KnowledgeBase, for any groups, numbers of collections    *)
(* and failures.                                                           *)
(***************************************************************************)
EXTENDS KnowledgeBase, FiniteSetTheorems, TLAPS

\* Ids are given out in order, and remembered.
Homes == made \in Nat /\ DOMAIN home = 1 .. made

\* The two collections, and whose the parents are: the children's, unless a
\* handler is about to make or to delete them, or was cut short.
Collections ==
    /\ DOMAIN colls \subseteq {Children, Parents}
    /\ \A c \in DOMAIN colls : {colls[c].id, colls[c].by} \subseteq DOMAIN home
    /\ Children \in DOMAIN colls =>
         LET C == colls[Children] IN
         /\ C.by = C.id
         /\ home[C.id] = [group |-> C.group, coll |-> C.id]
         /\ Parents \in DOMAIN colls => colls[Parents].id # C.id
         /\ Parents \notin DOMAIN colls => op.at = "creating" \/ Parents \in cut
    /\ Parents \in DOMAIN colls /\ Parents \notin cut =>
         \/ op.at = "deleting"
         \/ /\ Children \in DOMAIN colls /\ op.at # "creating"
            /\ colls[Parents].by = colls[Children].id

\* Rows are in the collection there is, and a block's are of the same home.
Rows ==
    /\ \A r \in children :
         /\ Children \in DOMAIN colls /\ r.coll = colls[Children].id
         /\ r.parent \in DOMAIN home /\ home[r.parent] = home[r.coll]
    /\ \A r \in parents :
         /\ Parents \in DOMAIN colls /\ r.coll = colls[Parents].id
         /\ r.id \in DOMAIN home
         /\ Parents \notin cut => home[r.id] = home[colls[Parents].by]
    /\ ChildHasParent

\* The handler at work has the collections the names stand for.
Handler ==
    /\ op = [at |-> op.at, group |-> op.group,
             coll |-> op.coll, partner |-> op.partner, block |-> op.block]
    /\ op.at \in {"idle", "creating", "deleting", "adding", "added"}
    /\ op.at = "creating" => /\ Children \in DOMAIN colls /\ children = {}
                             /\ op.coll = colls[Children].id
    /\ op.at = "deleting" => Children \notin DOMAIN colls
    /\ op.at \in {"adding", "added"} =>
         /\ {Children, Parents} \subseteq DOMAIN colls
         /\ op.coll = colls[Children].id /\ op.partner = colls[Parents].id
    /\ op.at = "added" => op.block \in DOMAIN home /\ home[op.block] = home[op.coll]

\* What is at home i may be shown to who asks.
Mine(i) == home[i].group \in {NoGroup, ask.group} \/ home[i].coll > ask.since

\* Who was let in may see what the names stand for now, or the parents are
\* about to go before the question gets to them.
MaySee ==
    /\ Children \in DOMAIN colls => Mine(colls[Children].id)
    /\ Parents \in DOMAIN colls /\ Parents \notin cut =>
         Mine(colls[Parents].by) \/ (op.at = "deleting" /\ ask.at = "checked")

\* A question has its collection.
Searching == {"open", "near", "matched", "ranked"}

Question ==
    /\ ask = [at |-> ask.at, group |-> ask.group, since |-> ask.since,
              coll |-> ask.coll, near |-> ask.near, match |-> ask.match,
              texts |-> ask.texts, mixed |-> ask.mixed]
    /\ ask.at \in {"idle", "checked", "open", "near", "matched", "ranked", "answered"}
    /\ ask.since \in Nat /\ ask.since <= made
    /\ ask.at # "idle" => MaySee
    /\ ask.at \in Searching => ask.coll \in DOMAIN home /\ Mine(ask.coll)
    /\ ask.near \subseteq DOMAIN home /\ \A i \in ask.near : Mine(i)
    /\ ask.texts \subseteq DOMAIN home /\ AnswerIsOwn

KbInv == Homes /\ Collections /\ Rows /\ Handler /\ Question

------------------------------------------------------------------------------
\* There is nothing at first.
LEMMA InvInit == Init => KbInv
<1> SUFFICES ASSUME Init PROVE KbInv
  OBVIOUS
<1> USE DEF Init
<1>1. Homes
  <2>1. DOMAIN home = {}
    OBVIOUS
  <2>2. made = 0
    BY <2>1, FS_EmptySet DEF made
  <2> QED
    BY <2>1, <2>2 DEF Homes
<1>2. DOMAIN colls = {}
  OBVIOUS
<1>3. Collections
  BY <1>2 DEF Collections
<1>4. Rows
  BY <1>2 DEF Rows, ChildHasParent
<1>5. Handler
  BY DEF Handler, NoOp
<1>7. Question
  BY <1>1 DEF Question, NoAsk, AnswerIsOwn, Homes, Searching
<1> QED
  BY <1>1, <1>3, <1>4, <1>5, <1>7 DEF KbInv

\* What becomes of the homes in any step.
Grows ==
    /\ made' \in Nat /\ made <= made'
    /\ DOMAIN home' = 1 .. made'
    /\ \A i \in DOMAIN home : i \in DOMAIN home' /\ home'[i] = home[i]

LEMMA GrowsByOne ==
    ASSUME Homes, NEW v, home' = With(home, made + 1, v)
    PROVE  Grows /\ made' = made + 1 /\ home'[made + 1] = v /\ made + 1 \in DOMAIN home'
<1> DEFINE more == [y \in DOMAIN home \cup {made + 1} |->
                       IF y = made + 1 THEN v ELSE home[y]]
<1>0. home' = more
  BY DEF With
<1>4. /\ DOMAIN more = DOMAIN home \cup {made + 1} /\ more[made + 1] = v
      /\ \A y \in DOMAIN home : y # made + 1 => more[y] = home[y]
  OBVIOUS
<1> HIDE DEF more
<1>5. made \in Nat /\ DOMAIN home = 1 .. made
  BY DEF Homes
<1>6. DOMAIN home \cup {made + 1} = 1 .. (made + 1)
  BY <1>5
<1>1. DOMAIN home' = 1 .. (made + 1) /\ made \in Nat /\ DOMAIN home = 1 .. made
  BY <1>0, <1>4, <1>5, <1>6
<1>2. made' = made + 1
  <2>1. Cardinality(1 .. (made + 1)) = made + 1
    BY <1>1, FS_Interval
  <2> QED
    BY <1>1, <2>1 DEF made
<1>3. \A i \in DOMAIN home : i \in DOMAIN home' /\ home'[i] = home[i]
  BY <1>0, <1>1, <1>4
<1> QED
  BY <1>0, <1>1, <1>2, <1>3, <1>4 DEF Grows

LEMMA GrowsNot == ASSUME Homes, UNCHANGED home PROVE Grows
BY DEF Homes, Grows, made

LEMMA HomesKept == Grows => Homes'
BY DEF Grows, Homes, made

\* A question goes on that may see what there is now.
LEMMA QuestionKept ==
    ASSUME KbInv, Grows, ask' = ask, ask.at # "idle" => MaySee'
    PROVE  Question'
<1>1. \A i \in DOMAIN home : i \in DOMAIN home' /\ (Mine(i) => Mine(i)')
  BY DEF Grows, Mine
<1>2. AnswerIsOwn'
  BY <1>1 DEF KbInv, Question, AnswerIsOwn, Mine, Grows
<1>3. ask.since \in Nat /\ ask.since <= made'
  BY DEF KbInv, Question, Grows, Homes
<1> QED
  BY <1>1, <1>2, <1>3 DEF KbInv, Question

\* A question that is over, or refused.
LEMMA NoQuestion == ASSUME Homes', ask' = NoAsk PROVE Question'
BY DEF Homes, NoAsk, Question, AnswerIsOwn, Searching

\* No handler is at work.
LEMMA NoHandler == ASSUME op' = NoOp PROVE Handler' /\ op'.at = "idle"
<1>1. op' = [at |-> "idle", group |-> NoGroup,
             coll |-> 0, partner |-> 0, block |-> 0]
  BY DEF NoOp
<1> QED
  BY <1>1 DEF Handler

\* A step of the worker changes the question and the index alone.
LEMMA AskOnly ==
    ASSUME KbInv, UNCHANGED <<colls, children, parents, home, op, cut>>,
           Question'
    PROVE  KbInv'
<1>1. Homes' /\ Collections' /\ Rows' /\ Handler'
  BY DEF KbInv, Homes, made, Collections, Rows, ChildHasParent, Handler
<1> QED
  BY <1>1 DEF KbInv

------------------------------------------------------------------------------
(* The server. *)

LEMMA CreateChildrenStep ==
    ASSUME KbInv, NEW g, CreateChildren(g)
    PROVE  KbInv'
<1> DEFINE n == made + 1
           C == [id |-> n, group |-> g, by |-> n]
<1>1. /\ op.at = "idle" /\ Children \notin DOMAIN colls
      /\ colls' = With(colls, Children, C)
      /\ home' = With(home, n, [group |-> g, coll |-> n])
      /\ cut' = cut \ {Children}
      /\ op' = [NoOp EXCEPT !.at = "creating", !.group = g, !.coll = n]
      /\ UNCHANGED <<children, parents, ask>>
  BY DEF CreateChildren, Create
<1>2. /\ Grows /\ made' = n /\ home'[n] = [group |-> g, coll |-> n]
      /\ n \in DOMAIN home' /\ made \in Nat
  BY <1>1, GrowsByOne DEF KbInv, Homes
<1>3. /\ DOMAIN colls' = DOMAIN colls \cup {Children} /\ colls'[Children] = C
      /\ \A c \in DOMAIN colls : colls'[c] = colls[c]
  BY <1>1 DEF With
<1>4. children = {} /\ (Parents \in DOMAIN colls => Parents \in cut)
  BY <1>1 DEF KbInv, Rows, Collections
<1>5. Collections'
  <2>1. \A c \in DOMAIN colls' : {colls'[c].id, colls'[c].by} \subseteq DOMAIN home'
    BY <1>1, <1>2, <1>3 DEF KbInv, Collections, Grows
  <2>2. Parents \in DOMAIN colls' => colls'[Parents].id # n /\ Parents \in cut'
    <3>1. n \notin DOMAIN home /\ Parents # Children
      BY <1>2 DEF KbInv, Homes, Parents, Children
    <3> QED
      BY <1>1, <1>3, <1>4, <3>1 DEF KbInv, Collections
  <2>3. op'.at = "creating"
    BY <1>1 DEF NoOp
  <2> QED
    BY <1>1, <1>2, <1>3, <2>1, <2>2, <2>3 DEF KbInv, Collections
<1>6. Rows'
  <2>1. Parents # Children
    BY DEF Parents, Children
  <2>2. \A r \in parents : /\ Parents \in DOMAIN colls' /\ r.coll = colls'[Parents].id
                           /\ r.id \in DOMAIN home' /\ Parents \in cut'
    BY <1>1, <1>2, <1>3, <1>4, <2>1 DEF KbInv, Rows, Grows
  <2> QED
    BY <1>1, <1>4, <2>2 DEF Rows, ChildHasParent
<1>7. Handler'
  <2>1. op' = [at |-> "creating", group |-> g,
               coll |-> n, partner |-> 0, block |-> 0]
    BY <1>1 DEF NoOp
  <2>2. /\ op'.at = "creating" /\ op'.coll = n
        /\ op' = [at |-> op'.at, group |-> op'.group,
                  coll |-> op'.coll, partner |-> op'.partner, block |-> op'.block]
    BY <2>1
  <2>3. Children \in DOMAIN colls' /\ colls'[Children].id = n /\ children' = {}
    BY <1>1, <1>3, <1>4
  <2> HIDE DEF n
  <2> QED
    BY <2>2, <2>3 DEF Handler
<1>9. Question'
  <2>1. Mine(colls[Children].id)'
    <3>1. ask.since \in Nat /\ ask.since <= made
      BY DEF KbInv, Question
    <3> QED
      BY <1>1, <1>2, <1>3, <3>1 DEF Mine
  <2>2. Parents \in DOMAIN colls' => Parents \in cut'
    BY <1>1, <1>3, <1>4 DEF Parents, Children
  <2> QED
    BY <1>1, <1>2, <1>3, <2>1, <2>2, QuestionKept DEF MaySee
<1> QED
  BY <1>2, <1>5, <1>6, <1>7, <1>9, HomesKept DEF KbInv

LEMMA CreateParentsStep ==
    ASSUME KbInv, CreateParents
    PROVE  KbInv'
<1>1. /\ op.at = "creating" /\ op' = NoOp
      /\ UNCHANGED <<children, parents, ask>>
      /\ IF Parents \in DOMAIN colls THEN UNCHANGED <<colls, home, cut>>
         ELSE /\ colls' = With(colls, Parents,
                               [id |-> made + 1, group |-> op.group, by |-> op.coll])
              /\ home' = With(home, made + 1, [group |-> op.group, coll |-> op.coll])
              /\ cut' = cut \ {Parents}
  BY DEF CreateParents, Create
<1>2. /\ Children \in DOMAIN colls /\ children = {} /\ op.coll = colls[Children].id
      /\ Handler' /\ op'.at = "idle"
  BY <1>1, NoHandler DEF KbInv, Handler
<1>3. CASE Parents \in DOMAIN colls
  <2>1. /\ UNCHANGED <<colls, home, cut, children, parents, ask>>
        /\ Parents \in cut
    BY <1>1, <1>3 DEF KbInv, Collections
  <2>2. Grows /\ Homes'
    BY <2>1, GrowsNot, HomesKept DEF KbInv
  <2>3. Collections' /\ Rows'
    BY <1>2, <1>3, <2>1, <2>2
       DEF KbInv, Collections, Rows, ChildHasParent
  <2>4. Question'
    BY <1>3, <2>1, <2>2, QuestionKept DEF KbInv, Question, MaySee, Mine
  <2> QED
    BY <1>2, <2>2, <2>3, <2>4 DEF KbInv
<1>4. CASE Parents \notin DOMAIN colls
  <2>1. /\ colls' = With(colls, Parents,
                         [id |-> made + 1, group |-> op.group, by |-> op.coll])
        /\ home' = With(home, made + 1, [group |-> op.group, coll |-> op.coll])
        /\ cut' = cut \ {Parents}
    BY <1>1, <1>4
  <2>2. Grows /\ made' = made + 1 /\ made + 1 \in DOMAIN home' /\ Homes'
    BY <2>1, GrowsByOne, HomesKept DEF KbInv
  <2>3. /\ DOMAIN colls' = DOMAIN colls \cup {Parents}
        /\ colls'[Parents].id = made + 1 /\ colls'[Parents].by = op.coll
        /\ colls'[Children] = colls[Children]
    BY <1>2, <2>1 DEF With, Children, Parents
  <2>4. /\ op.coll \in DOMAIN home /\ colls[Children].by = op.coll
        /\ home'[op.coll] = home[op.coll] /\ op.coll \in DOMAIN home'
        /\ op.coll # made + 1 /\ DOMAIN colls' = {Children, Parents}
    BY <1>2, <2>2, <2>3 DEF KbInv, Collections, Homes, Grows
  <2>5. Collections'
    BY <1>2, <2>1, <2>2, <2>3, <2>4 DEF KbInv, Collections
  <2>6. parents = {}
    BY <1>4 DEF KbInv, Rows
  <2>7. Rows'
    BY <1>1, <1>2, <2>6 DEF Rows, ChildHasParent
  <2>9. ask.at # "idle" => MaySee'
    <3> HAVE ask.at # "idle"
    <3>1. Mine(op.coll) /\ ask' = ask
      BY <1>1, <1>2 DEF KbInv, Question, MaySee
    <3>2. Mine(colls[Parents].by)' /\ Mine(colls[Children].id)'
      BY <1>2, <2>3, <2>4, <3>1 DEF Mine
    <3> QED
      BY <3>2 DEF MaySee
  <2> QED
    BY <1>1, <1>2, <2>2, <2>5, <2>7, <2>9, QuestionKept DEF KbInv
<1> QED
  BY <1>3, <1>4

LEMMA DeleteChildrenStep ==
    ASSUME KbInv, NEW g, DeleteChildren(g)
    PROVE  KbInv'
<1>1. /\ op.at = "idle" /\ Children \in DOMAIN colls
      /\ colls' = Without(colls, Children)
      /\ children' = {r \in children : r.coll # colls[Children].id}
      /\ parents' = {r \in parents : r.coll # colls[Children].id}
      /\ cut' = cut \ {Children}
      /\ op' = [NoOp EXCEPT !.at = "deleting"]
      /\ UNCHANGED <<home, ask>>
  BY DEF DeleteChildren, Drop, Coll
<1>2. /\ DOMAIN colls' = DOMAIN colls \ {Children}
      /\ Parents \in DOMAIN colls => /\ Parents \in DOMAIN colls'
                                     /\ colls'[Parents] = colls[Parents]
      /\ Parents # Children
  BY <1>1 DEF Without, Parents, Children
<1>3. children' = {} /\ parents' = parents
  BY <1>1 DEF KbInv, Rows, Collections
<1>4. Grows /\ Homes'
  BY <1>1, GrowsNot, HomesKept DEF KbInv
<1>5. op' = [at |-> "deleting", group |-> NoGroup,
             coll |-> 0, partner |-> 0, block |-> 0]
  BY <1>1 DEF NoOp
<1>6. Handler' /\ op'.at = "deleting"
  BY <1>2, <1>5 DEF Handler
<1>7. Collections'
  BY <1>1, <1>2, <1>6 DEF KbInv, Collections
<1>8. Rows'
  BY <1>1, <1>2, <1>3 DEF KbInv, Rows, ChildHasParent
<1>10. Question'
  BY <1>1, <1>2, <1>4, QuestionKept DEF KbInv, Question, MaySee, Mine
<1> QED
  BY <1>4, <1>6, <1>7, <1>8, <1>10 DEF KbInv

LEMMA DeleteParentsStep ==
    ASSUME KbInv, DeleteParents
    PROVE  KbInv'
<1>1. /\ op.at = "deleting" /\ op' = NoOp /\ cut' = cut \ {Parents}
      /\ UNCHANGED <<home, ask>>
      /\ Children \notin DOMAIN colls /\ children = {}
  BY DEF DeleteParents, KbInv, Handler, Rows
<1>2. DOMAIN colls' = {} /\ children' = {} /\ parents' = {}
  <2>1. CASE Parents \in DOMAIN colls
    <3>1. /\ colls' = Without(colls, Parents)
          /\ children' = {r \in children : r.coll # colls[Parents].id}
          /\ parents' = {r \in parents : r.coll # colls[Parents].id}
      BY <2>1 DEF DeleteParents, DropPartner, Drop, Coll
    <3>2. DOMAIN colls' = DOMAIN colls \ {Parents}
      BY <3>1 DEF Without
    <3> QED
      BY <1>1, <3>1, <3>2 DEF KbInv, Collections, Rows
  <2>2. CASE Parents \notin DOMAIN colls
    <3>1. UNCHANGED <<colls, children, parents>>
      BY <2>2 DEF DeleteParents, DropPartner
    <3> QED
      BY <1>1, <2>2, <3>1 DEF KbInv, Collections, Rows
  <2> QED
    BY <2>1, <2>2
<1>3. Grows /\ Homes' /\ Handler'
  BY <1>1, GrowsNot, HomesKept, NoHandler DEF KbInv
<1>4. Collections' /\ Rows'
  BY <1>2 DEF Collections, Rows, ChildHasParent
<1>6. Question'
  BY <1>1, <1>2, <1>3, QuestionKept DEF MaySee
<1> QED
  BY <1>3, <1>4, <1>6 DEF KbInv

LEMMA IngestStartsStep ==
    ASSUME KbInv, NEW g, IngestStarts(g)
    PROVE  KbInv'
<1> DEFINE c == colls[Children].id
           p == colls[Parents].id
<1>1. /\ op.at = "idle" /\ {Children, Parents} \subseteq DOMAIN colls
      /\ op' = [NoOp EXCEPT !.at = "adding", !.coll = c, !.partner = p]
      /\ UNCHANGED <<colls, children, parents, home, index, ask, cut>>
  BY DEF IngestStarts, Coll
<1> HIDE DEF c, p
<1>2. Grows /\ Homes'
  BY <1>1, GrowsNot, HomesKept DEF KbInv
<1>3. op' = [at |-> "adding", group |-> NoGroup, coll |-> c, partner |-> p, block |-> 0]
  BY <1>1 DEF NoOp
<1>4. /\ op'.at = "adding" /\ op'.coll = c /\ op'.partner = p
      /\ op' = [at |-> op'.at, group |-> op'.group,
                coll |-> op'.coll, partner |-> op'.partner, block |-> op'.block]
  BY <1>3
<1>5. Handler'
  BY <1>1, <1>4 DEF Handler, c, p
<1>6. Collections' /\ Rows'
  BY <1>1, <1>4 DEF KbInv, Collections, Rows, ChildHasParent
<1>7. Question'
  BY <1>1, <1>2, QuestionKept DEF KbInv, Question, MaySee, Mine
<1> QED
  BY <1>2, <1>5, <1>6, <1>7 DEF KbInv

\* An ingestion leaves the names, and who may see what they stand for.
LEMMA IngestKeeps ==
    ASSUME KbInv, Grows, UNCHANGED <<colls, ask, cut>>,
           op.at \notin {"idle", "creating", "deleting"}, op'.at # "creating"
    PROVE  Homes' /\ Collections' /\ Question'
<1>1. /\ {Children, Parents} \subseteq DOMAIN colls
      /\ colls[Parents].by = colls[Children].id \/ Parents \in cut
  BY DEF KbInv, Handler, Collections
<1>2. Collections'
  BY <1>1 DEF KbInv, Collections, Grows
<1>4. \A c \in DOMAIN colls : {colls[c].id, colls[c].by} \subseteq DOMAIN home
  BY DEF KbInv, Collections
<1>5. Question'
  BY <1>1, <1>4, QuestionKept DEF KbInv, Question, MaySee, Mine, Grows
<1> QED
  BY <1>2, <1>5, HomesKept

LEMMA AddChildrenStep ==
    ASSUME KbInv, AddChildren
    PROVE  KbInv'
<1> DEFINE n == made + 1
           new == [coll |-> op.coll, parent |-> n]
<1>1. /\ op.at = "adding"
      /\ children' = children \cup {new}
      /\ home' = With(home, n, home[op.coll])
      /\ op' = [op EXCEPT !.at = "added", !.block = n]
      /\ UNCHANGED <<colls, parents, ask, cut>>
  BY DEF AddChildren
<1>2. Grows /\ home'[n] = home[op.coll] /\ n \in DOMAIN home'
  BY <1>1, GrowsByOne DEF KbInv
<1>3. /\ {Children, Parents} \subseteq DOMAIN colls
      /\ op.coll = colls[Children].id /\ op.partner = colls[Parents].id
      /\ op.coll \in DOMAIN home
  BY <1>1 DEF KbInv, Handler, Collections
<1>4. home'[op.coll] = home[op.coll]
  BY <1>2, <1>3 DEF Grows
<1>5. op' = [at |-> "added", group |-> op.group,
             coll |-> op.coll, partner |-> op.partner, block |-> n]
  BY <1>1 DEF KbInv, Handler
<1>6. /\ op'.at = "added" /\ op'.block = n /\ op'.coll = op.coll
      /\ op'.group = op.group /\ op'.partner = op.partner
      /\ op' = [at |-> op'.at, group |-> op'.group,
                coll |-> op'.coll, partner |-> op'.partner, block |-> op'.block]
  BY <1>5
<1> HIDE DEF n
<1>8. Handler'
  BY <1>1, <1>2, <1>3, <1>4, <1>6 DEF Handler
<1>9. Rows'
  <2>1. \A r \in children' :
          /\ Children \in DOMAIN colls' /\ r.coll = colls'[Children].id
          /\ r.parent \in DOMAIN home' /\ home'[r.parent] = home'[r.coll]
    <3> TAKE r \in children'
    <3>1. CASE r = new
      BY <1>1, <1>2, <1>3, <1>4, <3>1
    <3>2. CASE r \in children
      <4>1. /\ r.coll = colls[Children].id /\ r.parent \in DOMAIN home
            /\ home[r.parent] = home[r.coll]
        BY <3>2 DEF KbInv, Rows
      <4> QED
        BY <1>1, <1>2, <1>3, <4>1 DEF Grows
    <3> QED
      BY <1>1, <3>1, <3>2
  <2>2. \A r \in parents' :
          /\ Parents \in DOMAIN colls' /\ r.coll = colls'[Parents].id
          /\ r.id \in DOMAIN home'
          /\ Parents \notin cut' => home'[r.id] = home'[colls'[Parents].by]
    <3>1. colls[Parents].by \in DOMAIN home
      BY <1>3 DEF KbInv, Collections
    <3> QED
      BY <1>1, <1>2, <3>1 DEF KbInv, Rows, Grows
  <2>3. ChildHasParent'
    BY <1>1, <1>6 DEF KbInv, Rows, ChildHasParent
  <2> QED
    BY <2>1, <2>2, <2>3 DEF Rows
<1> QED
  BY <1>1, <1>2, <1>6, <1>8, <1>9, IngestKeeps DEF KbInv

LEMMA AddParentStep ==
    ASSUME KbInv, AddParent
    PROVE  KbInv'
<1> DEFINE new == [coll |-> op.partner, id |-> op.block]
<1>1. /\ op.at = "added"
      /\ parents' = parents \cup {new}
      /\ op' = [op EXCEPT !.at = "adding", !.block = 0]
      /\ UNCHANGED <<colls, children, home, ask, cut>>
  BY DEF AddParent, IdOfBlock
<1>2. Grows /\ made' = made
  BY <1>1, GrowsNot DEF KbInv, made
<1>3. /\ {Children, Parents} \subseteq DOMAIN colls
      /\ op.coll = colls[Children].id /\ op.partner = colls[Parents].id
      /\ op.block \in DOMAIN home /\ home[op.block] = home[op.coll]
  BY <1>1 DEF KbInv, Handler
<1>4. op' = [at |-> "adding", group |-> op.group,
             coll |-> op.coll, partner |-> op.partner, block |-> 0]
  BY <1>1 DEF KbInv, Handler
<1>5. Handler' /\ op'.at = "adding"
  BY <1>1, <1>3, <1>4 DEF KbInv, Handler
<1>6. Parents \notin cut => colls[Parents].by = op.coll
  BY <1>1, <1>3 DEF KbInv, Collections
<1>7. Rows'
  <2>1. \A r \in parents' :
          /\ r.coll = colls[Parents].id /\ r.id \in DOMAIN home
          /\ Parents \notin cut => home[r.id] = home[colls[Parents].by]
    <3> TAKE r \in parents'
    <3>1. CASE r = new
      BY <1>3, <1>6, <3>1
    <3>2. CASE r \in parents
      BY <3>2 DEF KbInv, Rows
    <3> QED
      BY <1>1, <3>1, <3>2
  <2>2. ChildHasParent'
    <3>1. new \in parents' /\ new.id = op.block
      BY <1>1
    <3>2. \A r \in children : \/ \E p \in parents : p.id = r.parent
                              \/ op.block = r.parent
                              \/ cut # {}
      BY DEF KbInv, Rows, ChildHasParent
    <3> QED
      BY <1>1, <3>1, <3>2 DEF ChildHasParent
  <2> QED
    BY <1>1, <1>3, <2>1, <2>2 DEF KbInv, Rows
<1> QED
  BY <1>1, <1>2, <1>5, <1>7, IngestKeeps DEF KbInv

LEMMA IngestEndsStep ==
    ASSUME KbInv, IngestEnds
    PROVE  KbInv'
<1>1. /\ op.at = "adding" /\ op' = NoOp
      /\ UNCHANGED <<colls, children, parents, home, ask, cut>>
  BY DEF IngestEnds
<1>2. Grows /\ Handler' /\ op'.at = "idle"
  BY <1>1, GrowsNot, NoHandler DEF KbInv
<1>3. Rows'
  BY <1>1 DEF KbInv, Rows, ChildHasParent
<1> QED
  BY <1>1, <1>2, <1>3, IngestKeeps DEF KbInv

\* What fails leaves what is incomplete in cut.
LEMMA ServerFailsStep ==
    ASSUME KbInv, ServerFails
    PROVE  KbInv'
<1>1. /\ op' = NoOp /\ op.at # "idle"
      /\ cut' = cut \cup CASE op.at = "adding" -> {}
                           [] op.at = "added" -> {Children}
                           [] OTHER -> {Parents}
      /\ UNCHANGED <<colls, children, parents, home, ask>>
  BY DEF ServerFails
<1>2. Grows /\ Homes' /\ Handler' /\ op'.at = "idle"
  BY <1>1, GrowsNot, HomesKept, NoHandler DEF KbInv
<1>3. /\ cut \subseteq cut'
      /\ op.at \in {"creating", "deleting"} => Parents \in cut'
      /\ op.at = "added" => cut' # {}
  BY <1>1
<1>4. Collections'
  BY <1>1, <1>2, <1>3 DEF KbInv, Collections, Handler
<1>5. Rows'
  <2>1. ChildHasParent'
    BY <1>1, <1>3 DEF KbInv, Rows, ChildHasParent
  <2> QED
    BY <1>1, <1>3, <2>1 DEF KbInv, Rows
<1>7. Question'
  BY <1>1, <1>2, <1>3, QuestionKept DEF KbInv, Question, MaySee, Mine
<1> QED
  BY <1>2, <1>4, <1>5, <1>7 DEF KbInv

------------------------------------------------------------------------------
(* The worker. *)

LEMMA AskStartsStep ==
    ASSUME KbInv, NEW g, AskStarts(g)
    PROVE  KbInv'
<1>1. /\ Children \in DOMAIN colls => colls[Children].group \in {NoGroup, g}
      /\ ask' = [NoAsk EXCEPT !.at = "checked", !.group = g, !.since = made]
      /\ UNCHANGED <<colls, children, parents, home, op, cut>>
  BY DEF AskStarts, MayAccess, Coll
<1>2. ask' = [at |-> "checked", group |-> g, since |-> made, coll |-> 0,
              near |-> {}, match |-> {}, texts |-> {}, mixed |-> FALSE]
  BY <1>1 DEF NoAsk
<1>3. /\ ask'.at = "checked" /\ ask'.group = g /\ ask'.since = made
      /\ ask'.near = {} /\ ask'.texts = {}
      /\ ask' = [at |-> ask'.at, group |-> ask'.group, since |-> ask'.since,
                 coll |-> ask'.coll, near |-> ask'.near, match |-> ask'.match,
                 texts |-> ask'.texts, mixed |-> ask'.mixed]
  BY <1>2
<1>4. Children \in DOMAIN colls => Mine(colls[Children].id)'
  BY <1>1, <1>3 DEF KbInv, Collections, Mine
<1>5. MaySee'
  BY <1>1, <1>3, <1>4 DEF KbInv, Collections, MaySee, Mine
<1>6. made' = made /\ made \in Nat
  BY <1>1 DEF KbInv, Homes, made
<1>7. Question'
  BY <1>3, <1>5, <1>6 DEF Question, AnswerIsOwn, Searching
<1> QED
  BY <1>1, <1>7, AskOnly

\* The steps of a question under way: it asks for the same group as before.
LEMMA GoesOn ==
    ASSUME KbInv, ask.at # "idle", UNCHANGED <<colls, home, op, cut>>,
           ask'.group = ask.group, ask'.since = ask.since,
           op.at # "deleting" \/ ask.at # "checked"
    PROVE  MaySee' /\ \A i : Mine(i) => Mine(i)'
<1>1. \A i : Mine(i) => Mine(i)'
  BY DEF Mine
<1> QED
  BY <1>1 DEF KbInv, Question, MaySee, Mine

LEMMA OpenStep ==
    ASSUME KbInv, Open
    PROVE  KbInv'
<1>1. /\ ask.at = "checked"
      /\ UNCHANGED <<colls, children, parents, home, op, cut>>
      /\ ask' = IF Coll(Children) = None THEN NoAsk
                ELSE [ask EXCEPT !.at = "open", !.coll = Coll(Children).id]
  BY DEF Open
<1>2. CASE ask' = NoAsk
  <2>1. Homes'
    BY <1>1 DEF KbInv, Homes, made
  <2> QED
    BY <1>1, <1>2, <2>1, NoQuestion, AskOnly
<1>3. CASE ask' # NoAsk
  <2> DEFINE c == colls[Children].id
  <2>1. Children \in DOMAIN colls /\ ask' = [ask EXCEPT !.at = "open", !.coll = c]
    BY <1>1, <1>3 DEF Coll
  <2>2. ask' = [at |-> "open", group |-> ask.group, since |-> ask.since,
                coll |-> c, near |-> ask.near, match |-> ask.match,
                texts |-> ask.texts, mixed |-> ask.mixed]
    BY <2>1 DEF KbInv, Question
  <2>3. /\ ask'.at = "open" /\ ask'.group = ask.group /\ ask'.since = ask.since
        /\ ask'.coll = c /\ ask'.near = ask.near /\ ask'.texts = ask.texts
        /\ ask'.mixed = ask.mixed
        /\ ask' = [at |-> ask'.at, group |-> ask'.group, since |-> ask'.since,
                   coll |-> ask'.coll, near |-> ask'.near, match |-> ask'.match,
                   texts |-> ask'.texts, mixed |-> ask'.mixed]
    BY <2>2
  <2>4. MaySee' /\ \A i : Mine(i) => Mine(i)'
    BY <1>1, <2>1, <2>3, GoesOn DEF KbInv, Handler
  <2>5. c \in DOMAIN home /\ Mine(c)
    BY <1>1, <2>1 DEF KbInv, Question, MaySee, Collections
  <2>6. AnswerIsOwn'
    BY <1>1, <2>3 DEF KbInv, Question, AnswerIsOwn
  <2>7. made' = made
    BY <1>1 DEF made
  <2> HIDE DEF c
  <2>8. Question'
    BY <1>1, <2>3, <2>4, <2>5, <2>6, <2>7 DEF KbInv, Question, Searching
  <2> QED
    BY <1>1, <2>8, AskOnly
<1> QED
  BY <1>2, <1>3

LEMMA SearchStep ==
    ASSUME KbInv, SearchDense \/ SearchBm25 \/ SearchAgain
    PROVE  KbInv'
<1>1. PICK goes, near, match :
        /\ ask.at \in Searching /\ goes \in Searching
        /\ UNCHANGED <<colls, children, parents, home, op, cut>>
        /\ near = ask.near \/ near = BlocksIn(ask.coll)
        /\ \/ ask' = [at |-> goes, group |-> ask.group, since |-> ask.since,
                      coll |-> ask.coll, near |-> near, match |-> match,
                      texts |-> ask.texts, mixed |-> ask.mixed]
           \/ ask' = NoAsk
  <2>1. ask = [at |-> ask.at, group |-> ask.group, since |-> ask.since,
               coll |-> ask.coll, near |-> ask.near, match |-> ask.match,
               texts |-> ask.texts, mixed |-> ask.mixed]
    BY DEF KbInv, Question
  <2>2. CASE SearchDense
    BY <2>1, <2>2 DEF SearchDense, Searching
  <2>3. CASE SearchBm25
    <3>1. PICK match : ask' = [ask EXCEPT !.at = "matched", !.match = match]
      BY <2>3 DEF SearchBm25
    <3> QED
      BY <2>1, <2>3, <3>1 DEF SearchBm25, Searching
  <2>4. CASE SearchAgain
    BY <2>1, <2>4 DEF SearchAgain, Searching
  <2> QED
    BY <2>2, <2>3, <2>4
<1>2. CASE ask' = NoAsk
  <2>1. Homes'
    BY <1>1 DEF KbInv, Homes, made
  <2> QED
    BY <1>1, <1>2, <2>1, NoQuestion, AskOnly
<1>3. CASE ask' # NoAsk
  <2>2. /\ ask'.at = goes /\ ask'.group = ask.group /\ ask'.since = ask.since
        /\ ask'.coll = ask.coll /\ ask'.near = near /\ ask'.texts = ask.texts
        /\ ask'.mixed = ask.mixed
        /\ ask' = [at |-> ask'.at, group |-> ask'.group, since |-> ask'.since,
                   coll |-> ask'.coll, near |-> ask'.near, match |-> ask'.match,
                   texts |-> ask'.texts, mixed |-> ask'.mixed]
    BY <1>1, <1>3
  <2>3. MaySee' /\ \A i : Mine(i) => Mine(i)'
    BY <1>1, <2>2, GoesOn DEF Searching
  <2>4. near \subseteq DOMAIN home /\ \A i \in near : Mine(i)
    <3>1. Mine(ask.coll)
      BY <1>1 DEF KbInv, Question
    <3>2. \A r \in children : r.coll = ask.coll =>
            r.parent \in DOMAIN home /\ Mine(r.parent)
      BY <3>1 DEF KbInv, Rows, Mine
    <3> QED
      BY <1>1, <3>2 DEF BlocksIn, KbInv, Question
  <2>5. AnswerIsOwn'
    BY <1>1, <2>2 DEF KbInv, Question, AnswerIsOwn
  <2>6. made' = made
    BY <1>1 DEF made
  <2>7. Question'
    BY <1>1, <2>2, <2>3, <2>4, <2>5, <2>6 DEF KbInv, Question, Searching
  <2> QED
    BY <1>1, <2>7, AskOnly
<1> QED
  BY <1>2, <1>3

LEMMA FillStep ==
    ASSUME KbInv, Fill
    PROVE  KbInv'
<1> DEFINE of == {s \in parents : /\ s.coll = Coll(Parents).id
                                  /\ s.id \in ask.near \cup ask.match}
           found == {r.id : r \in of}
           texts == IF found # {} THEN found ELSE ask.near
           torn == Parents \in cut
<1>1. /\ ask.at = "ranked"
      /\ UNCHANGED <<colls, children, parents, home, op, cut>>
      /\ ask' = [ask EXCEPT !.at = "answered", !.texts = texts, !.mixed = torn]
  BY DEF Fill
<1>2. \A i \in found : i \in DOMAIN home /\ (Mine(i) \/ torn)
  <2>1. Parents \in DOMAIN colls /\ Parents \notin cut => Mine(colls[Parents].by)
    BY <1>1 DEF KbInv, Question, MaySee
  <2>2. \A r \in parents : r.id \in DOMAIN home /\ (Mine(r.id) \/ torn)
    BY <2>1 DEF KbInv, Rows, Mine
  <2> QED
    BY <2>2
<1>3. texts \subseteq DOMAIN home /\ \A i \in texts : Mine(i) \/ torn
  BY <1>2 DEF KbInv, Question
<1> HIDE DEF texts, torn, found
<1>4. ask' = [at |-> "answered", group |-> ask.group, since |-> ask.since,
              coll |-> ask.coll, near |-> ask.near, match |-> ask.match,
              texts |-> texts, mixed |-> torn]
  BY <1>1 DEF KbInv, Question
<1>5. /\ ask'.at = "answered" /\ ask'.group = ask.group /\ ask'.since = ask.since
      /\ ask'.near = ask.near /\ ask'.texts = texts /\ ask'.mixed = torn
      /\ ask' = [at |-> ask'.at, group |-> ask'.group, since |-> ask'.since,
                 coll |-> ask'.coll, near |-> ask'.near, match |-> ask'.match,
                 texts |-> ask'.texts, mixed |-> ask'.mixed]
  BY <1>4
<1>6. MaySee' /\ \A i : Mine(i) => Mine(i)'
  BY <1>1, <1>5, GoesOn
<1>7. AnswerIsOwn'
  BY <1>1, <1>3, <1>5 DEF AnswerIsOwn, Mine
<1>8. made' = made
  BY <1>1 DEF made
<1>9. Question'
  BY <1>1, <1>3, <1>5, <1>6, <1>7, <1>8 DEF KbInv, Question, Searching
<1> QED
  BY <1>1, <1>9, AskOnly

\* The answer is given, or the worker starts again.
LEMMA OverStep ==
    ASSUME KbInv, AskEnds \/ WorkerRestarts
    PROVE  KbInv'
<1>1. /\ UNCHANGED <<colls, children, parents, home, op, cut>>
      /\ ask' = NoAsk
  BY DEF AskEnds, WorkerRestarts
<1>2. Homes'
  BY <1>1 DEF KbInv, Homes, made
<1> QED
  BY <1>1, <1>2, NoQuestion, AskOnly

------------------------------------------------------------------------------
LEMMA InvStep ==
    ASSUME KbInv, [Next]_vars
    PROVE  KbInv'
<1>1. CASE ServerStep
  BY <1>1, CreateChildrenStep, CreateParentsStep, DeleteChildrenStep,
     DeleteParentsStep, IngestStartsStep, AddChildrenStep,
     AddParentStep, IngestEndsStep, ServerFailsStep DEF ServerStep
<1>2. CASE WorkerStep
  BY <1>2, AskStartsStep, OpenStep, SearchStep, FillStep, OverStep DEF WorkerStep
<1>3. CASE UNCHANGED vars
  BY <1>3 DEF vars, KbInv, Homes, made, Collections, Rows, ChildHasParent,
     Handler, Question, MaySee, Mine, AnswerIsOwn
<1> QED
  BY <1>1, <1>2, <1>3 DEF Next

\* The invariant the others follow from: ids and homes, whose the collections
\* and their rows are, what the handler holds, what the question may see.
THEOREM KnowledgeBaseInvariant == Spec => []KbInv
BY InvInit, InvStep, PTL DEF Spec

\* The worker has one index at most.
OneIndex == index = {} \/ \E blocks : index = {blocks}

\* A question makes one where there is none, a restart loses it.
LEMMA IndexStays == OneIndex /\ [Next]_vars => OneIndex'
<1> SUFFICES ASSUME OneIndex, [Next]_vars PROVE OneIndex'
  OBVIOUS
<1>1. CASE UNCHANGED index
  BY <1>1 DEF OneIndex
<1>2. CASE SearchBm25
  BY <1>2 DEF SearchBm25, OneIndex
<1>3. CASE WorkerRestarts
  BY <1>3 DEF WorkerRestarts, OneIndex
<1> QED
  BY <1>1, <1>2, <1>3
  DEF Next, vars, ServerStep, WorkerStep, CreateChildren, CreateParents, DeleteChildren,
      DeleteParents, IngestStarts, AddChildren, AddParent, IngestEnds,
      ServerFails, AskStarts, Open, SearchDense, SearchAgain, Fill, AskEnds

\* The variables keep their types: rows are of ids given out, and there is one
\* index at most.
THEOREM TypesKept == Spec => []KbTypeOK
<1>1. Init => OneIndex
  BY DEF Init, OneIndex
<1>2. KbInv /\ OneIndex => KbTypeOK
  <2> SUFFICES ASSUME KbInv, OneIndex PROVE KbTypeOK
    OBVIOUS
  <2>1. /\ DOMAIN colls \subseteq {"kb", "kb_parents"}
        /\ \A c \in DOMAIN colls : {colls[c].id, colls[c].by} \subseteq DOMAIN home
    BY DEF KbInv, Collections, Children, Parents
  <2>2. {r.parent : r \in children} \cup {r.id : r \in parents} \subseteq DOMAIN home
    BY DEF KbInv, Rows
  <2>3. Cardinality(index) <= 1
    <3>1. Cardinality(index) = 0 \/ Cardinality(index) = 1
      BY FS_EmptySet, FS_Singleton, Zenon DEF OneIndex
    <3> QED
      BY <3>1
  <2> QED
    BY <2>1, <2>2, <2>3 DEF KbTypeOK, KbInv, Handler, Question
<1> QED
  BY <1>1, <1>2, IndexStays, KnowledgeBaseInvariant, PTL DEF Spec

\* An agent is given its own group's texts, whatever is created, deleted,
\* filled or cut short between the steps of its question.
THEOREM AnswersOwn == Spec => []AnswerIsOwn
<1>1. KbInv => AnswerIsOwn
  BY DEF KbInv, Question
<1> QED
  BY <1>1, KnowledgeBaseInvariant, PTL

------------------------------------------------------------------------------
(* An answer is made from one knowledge base. *)

\* Knowledge bases of the name follow each other: what it stands for is of the
\* newest, and ids of rows that are left in the index are of older ones.
Newest ==
    /\ \A i \in DOMAIN home : home[i].coll \in DOMAIN home
    /\ Children \in DOMAIN colls =>
         \A i \in DOMAIN home : home[i].coll <= colls[Children].id
    /\ Parents \in DOMAIN colls => home[colls[Parents].id].coll # colls[Parents].id
    /\ Parents \in DOMAIN colls /\ Parents \notin cut =>
         /\ home[colls[Parents].by].coll = colls[Parents].by
         /\ \A i \in DOMAIN home : home[i].coll <= colls[Parents].by

\* What was found for the question is of the knowledge base opened, or older.
Asked ==
    /\ \A blocks \in index : blocks \subseteq DOMAIN home
    /\ ask.at # "answered" => ask.texts = {}
    /\ ask.at \in Searching =>
         ask.coll \in DOMAIN home /\ home[ask.coll].coll = ask.coll
    /\ ask.at = "matched" => ask.match \subseteq DOMAIN home
    /\ ask.at = "ranked" =>
         /\ \A i \in ask.near : home[i].coll = ask.coll
         /\ \A i \in ask.match : i \in DOMAIN home /\ home[i].coll <= ask.coll
    /\ AnswerFromOne

OneInv == Newest /\ Asked

LEMMA OneInit == Init => OneInv
<1> SUFFICES ASSUME Init PROVE OneInv
  OBVIOUS
<1>1. DOMAIN home = {} /\ DOMAIN colls = {} /\ index = {}
  BY DEF Init
<1>2. ask.at = "idle" /\ ask.texts = {}
  BY DEF Init, NoAsk
<1> QED
  BY <1>1, <1>2 DEF OneInv, Newest, Asked, AnswerFromOne, Searching

\* The homes of what the question has in hand stay.
LEMMA AskedKept == ASSUME KbInv, Asked, Grows, UNCHANGED <<ask, index>> PROVE Asked'
<1>1. \A i \in DOMAIN home : i \in DOMAIN home' /\ home'[i] = home[i]
  BY DEF Grows
<1>2. ask.near \subseteq DOMAIN home /\ ask.texts \subseteq DOMAIN home
  BY DEF KbInv, Question
<1> QED
  BY <1>1, <1>2 DEF Asked, AnswerFromOne

\* Where nothing is made, the newest stays so.
LEMMA NewestKept ==
    ASSUME KbInv, Newest, UNCHANGED home,
           \A c \in DOMAIN colls' : c \in DOMAIN colls /\ colls'[c] = colls[c],
           Parents \in DOMAIN colls' /\ Parents \in cut => Parents \in cut'
    PROVE  Newest'
BY DEF Newest

LEMMA OneStepServer ==
    ASSUME KbInv, OneInv, ServerStep
    PROVE  OneInv'
<1>1. UNCHANGED <<ask, index>>
  BY DEF ServerStep, CreateChildren, CreateParents, DeleteChildren, DeleteParents,
         IngestStarts, AddChildren, AddParent, IngestEnds, ServerFails
<1>2. SUFFICES Grows /\ Newest'
  BY <1>1, AskedKept DEF OneInv
<1>3. /\ Homes /\ Newest /\ made \in Nat /\ DOMAIN home = 1 .. made
      /\ \A c \in DOMAIN colls : {colls[c].id, colls[c].by} \subseteq DOMAIN home
  BY DEF KbInv, Homes, Collections, OneInv
<1>4. ASSUME NEW g, CreateChildren(g) PROVE Grows /\ Newest'
  <2> DEFINE n == made + 1
             C == [id |-> n, group |-> g, by |-> n]
  <2>1. /\ colls' = With(colls, Children, C) /\ Children \notin DOMAIN colls
        /\ home' = With(home, n, [group |-> g, coll |-> n])
        /\ cut' = cut \ {Children}
    BY <1>4 DEF CreateChildren, Create
  <2>2. /\ Grows /\ home'[n] = [group |-> g, coll |-> n] /\ made' = n
    BY <1>3, <2>1, GrowsByOne
  <2>3. /\ DOMAIN colls' = DOMAIN colls \cup {Children} /\ colls'[Children].id = n
        /\ \A c \in DOMAIN colls : colls'[c] = colls[c]
        /\ Children # Parents
    BY <2>1 DEF With, Children, Parents
  <2>4. \A i \in DOMAIN home' : home'[i].coll \in DOMAIN home' /\ home'[i].coll <= n
    <3> TAKE i \in DOMAIN home'
    <3>1. CASE i = n
      BY <1>3, <2>2, <3>1
    <3>2. CASE i # n
      <4>1. i \in DOMAIN home /\ home'[i] = home[i]
        BY <1>3, <2>2, <3>2 DEF Grows
      <4>2. home[i].coll \in DOMAIN home
        BY <4>1 DEF OneInv, Newest
      <4> QED
        BY <1>3, <2>2, <4>1, <4>2 DEF Grows
    <3> QED
      BY <3>1, <3>2
  <2>5. Parents \in DOMAIN colls' => Parents \in cut'
    BY <1>4, <2>1, <2>3 DEF KbInv, Collections, CreateChildren
  <2>6. Parents \in DOMAIN colls' => home'[colls'[Parents].id].coll # colls'[Parents].id
    BY <1>3, <2>2, <2>3 DEF Newest, Grows
  <2> QED
    BY <2>2, <2>3, <2>4, <2>5, <2>6 DEF Newest
<1>5. ASSUME CreateParents PROVE Grows /\ Newest'
  <2>1. /\ op.at = "creating" /\ Children \in DOMAIN colls
        /\ op.coll = colls[Children].id /\ Children # Parents
    BY <1>5 DEF CreateParents, KbInv, Handler, Children, Parents
  <2>2. CASE Parents \in DOMAIN colls
    <3>1. UNCHANGED <<colls, home, cut>>
      BY <1>5, <2>2 DEF CreateParents
    <3> QED
      BY <1>3, <3>1, GrowsNot, NewestKept
  <2>3. CASE Parents \notin DOMAIN colls
    <3> DEFINE n == made + 1
               P == [id |-> n, group |-> op.group, by |-> op.coll]
    <3>1. /\ colls' = With(colls, Parents, P)
          /\ home' = With(home, n, [group |-> op.group, coll |-> op.coll])
      BY <1>5, <2>3 DEF CreateParents, Create
    <3>2. /\ Grows /\ home'[n].coll = op.coll /\ made' = n /\ n \notin DOMAIN home
      BY <1>3, <3>1, GrowsByOne
    <3>3. /\ DOMAIN colls' = DOMAIN colls \cup {Parents}
          /\ colls'[Parents].id = n /\ colls'[Parents].by = op.coll
          /\ colls'[Children] = colls[Children]
      BY <2>1, <3>1 DEF With
    <3>4. op.coll \in DOMAIN home /\ home[op.coll].coll = op.coll /\ home'[op.coll] = home[op.coll]
      BY <1>3, <2>1, <3>2 DEF KbInv, Collections, Grows
    <3>5. \A i \in DOMAIN home' : i = n \/ (i \in DOMAIN home /\ home'[i] = home[i])
      BY <1>3, <3>2 DEF Grows
    <3>6. \A i \in DOMAIN home' : home'[i].coll \in DOMAIN home' /\ home'[i].coll <= op.coll
      BY <1>3, <2>1, <3>2, <3>4, <3>5 DEF Newest, Grows
    <3>7. n # op.coll
      BY <3>2, <3>4
    <3> HIDE DEF n
    <3> QED
      BY <2>1, <3>2, <3>3, <3>4, <3>6, <3>7 DEF Newest
  <2> QED
    BY <2>2, <2>3
<1>6. ASSUME AddChildren PROVE Grows /\ Newest'
  <2> DEFINE n == made + 1
  <2>1. /\ UNCHANGED <<colls, cut>> /\ home' = With(home, n, home[op.coll])
        /\ op.coll = colls[Children].id /\ Children \in DOMAIN colls
    BY <1>6 DEF AddChildren, KbInv, Handler
  <2>2. Grows /\ home'[n] = home[op.coll] /\ made' = n /\ op.coll \in DOMAIN home
    BY <1>3, <2>1, GrowsByOne
  <2>3. \A i \in DOMAIN home' : \E j \in DOMAIN home : home'[i] = home[j]
    <3> TAKE i \in DOMAIN home'
    <3>1. CASE i = n
      BY <2>2, <3>1
    <3>2. CASE i # n
      BY <1>3, <2>2, <3>2 DEF Grows
    <3> QED
      BY <3>1, <3>2
  <2> QED
    BY <1>3, <2>1, <2>2, <2>3 DEF Newest, Grows
<1>7. ASSUME NEW g, DeleteChildren(g) PROVE Grows /\ Newest'
  <2>1. UNCHANGED home /\ colls' = Without(colls, Children) /\ cut' = cut \ {Children}
    BY <1>7 DEF DeleteChildren, Drop
  <2> QED
    BY <1>3, <2>1, GrowsNot, NewestKept DEF Without, Children, Parents
<1>8. ASSUME DeleteParents PROVE Grows /\ Newest'
  <2>1. UNCHANGED home
    BY <1>8 DEF DeleteParents
  <2>2. /\ Parents \notin DOMAIN colls'
        /\ \A c \in DOMAIN colls' : c \in DOMAIN colls /\ colls'[c] = colls[c]
    BY <1>8 DEF DeleteParents, DropPartner, Drop, Without
  <2> QED
    BY <1>3, <2>1, <2>2, GrowsNot, NewestKept
<1>9. ASSUME (\E g \in Askers \cup {NoGroup} : IngestStarts(g)) \/ AddParent
               \/ IngestEnds \/ ServerFails
      PROVE  Grows /\ Newest'
  <2>1. UNCHANGED <<colls, home>> /\ cut \subseteq cut'
    BY <1>9 DEF IngestStarts, AddParent, IngestEnds, ServerFails
  <2> QED
    BY <1>3, <2>1, GrowsNot, NewestKept
<1> QED
  BY <1>4, <1>5, <1>6, <1>7, <1>8, <1>9 DEF ServerStep

LEMMA OneStepWorker ==
    ASSUME KbInv, OneInv, WorkerStep
    PROVE  OneInv'
<1>1. UNCHANGED <<colls, home, cut, parents, children>>
  BY DEF WorkerStep, AskStarts, Open, SearchDense, SearchBm25, SearchAgain, Fill, AskEnds,
         WorkerRestarts
<1>2. Newest'
  BY <1>1, NewestKept DEF OneInv
<1>3. ASSUME ask' = NoAsk, \A blocks \in index' : blocks \subseteq DOMAIN home
      PROVE  Asked'
  BY <1>1, <1>3 DEF Asked, AnswerFromOne, Searching, NoAsk
<1>4. ASSUME NEW g, AskStarts(g) PROVE Asked'
  <2>1. ask'.at = "checked" /\ ask'.texts = {} /\ UNCHANGED index
    BY <1>4 DEF AskStarts, NoAsk
  <2> QED
    BY <1>1, <2>1 DEF OneInv, Asked, AnswerFromOne, Searching
<1>5. ASSUME Open, ask' # NoAsk PROVE Asked'
  <2> DEFINE c == colls[Children].id
  <2>1. /\ ask.at = "checked" /\ UNCHANGED index
        /\ Children \in DOMAIN colls /\ ask' = [ask EXCEPT !.at = "open", !.coll = c]
    BY <1>5 DEF Open, Coll
  <2>2. ask'.at = "open" /\ ask'.coll = c /\ ask'.texts = ask.texts
    BY <2>1 DEF KbInv, Question
  <2>3. c \in DOMAIN home /\ home[c].coll = c
    BY <2>1 DEF KbInv, Collections
  <2> HIDE DEF c
  <2> QED
    BY <1>1, <2>1, <2>2, <2>3 DEF OneInv, Asked, AnswerFromOne
<1>6. ASSUME SearchDense, ask' # NoAsk PROVE Asked'
  <2> DEFINE near == BlocksIn(ask.coll)
  <2>1. /\ ask.at = "open" /\ UNCHANGED index
        /\ ask' = [ask EXCEPT !.at = "near", !.near = near]
    BY <1>6 DEF SearchDense
  <2>2. ask'.at = "near" /\ ask'.coll = ask.coll /\ ask'.texts = ask.texts
    BY <2>1 DEF KbInv, Question
  <2> QED
    BY <1>1, <2>1, <2>2 DEF OneInv, Asked, AnswerFromOne, Searching
<1>7. ASSUME SearchBm25 PROVE Asked'
  <2> DEFINE own == BlocksIn(Coll(Children).id)
  <2>1. PICK built :
          /\ ask.at = "near" /\ index' = {built}
          /\ built = IF index # {} THEN UNION index ELSE own
          /\ ask' = [ask EXCEPT !.at = "matched", !.match = built]
    BY <1>7 DEF SearchBm25
  <2>2. /\ ask'.at = "matched" /\ ask'.coll = ask.coll
        /\ ask'.match = built /\ ask'.texts = ask.texts
    BY <2>1 DEF KbInv, Question
  <2>3. own \subseteq DOMAIN home
    BY DEF BlocksIn, KbInv, Rows
  <2>4. built \subseteq DOMAIN home
    BY <2>1, <2>3 DEF OneInv, Asked
  <2> HIDE DEF own
  <2> QED
    BY <1>1, <2>1, <2>2, <2>4 DEF OneInv, Asked, AnswerFromOne, Searching
<1>8. ASSUME SearchAgain, ask' # NoAsk PROVE Asked'
  <2> DEFINE near == BlocksIn(ask.coll)
  <2>1. /\ ask.at = "matched" /\ UNCHANGED index
        /\ \E c \in DOMAIN colls : colls[c].id = ask.coll
        /\ ask' = [ask EXCEPT !.at = "ranked", !.near = near]
    BY <1>8 DEF SearchAgain, Stands
  <2>2. /\ ask'.at = "ranked" /\ ask'.coll = ask.coll /\ ask'.near = near
        /\ ask'.match = ask.match /\ ask'.texts = ask.texts
    BY <2>1 DEF KbInv, Question
  <2>3. ask.coll \in DOMAIN home /\ home[ask.coll].coll = ask.coll
    BY <2>1 DEF OneInv, Asked, Searching
  <2>4. Children \in DOMAIN colls /\ colls[Children].id = ask.coll
    BY <2>1, <2>3 DEF OneInv, Newest, KbInv, Collections
  <2>5. \A i \in near : home[i].coll = ask.coll
    BY <2>3 DEF BlocksIn, KbInv, Rows
  <2>6. \A i \in ask.match : i \in DOMAIN home /\ home[i].coll <= ask.coll
    BY <2>1, <2>4 DEF OneInv, Newest, Asked
  <2> HIDE DEF near
  <2> QED
    BY <1>1, <2>1, <2>2, <2>3, <2>5, <2>6 DEF OneInv, Asked, AnswerFromOne
<1>9. ASSUME Fill PROVE Asked'
  <2> DEFINE found == {r.id : r \in {s \in parents : /\ s.coll = Coll(Parents).id
                                                     /\ s.id \in ask.near \cup ask.match}}
             texts == IF found # {} THEN found ELSE ask.near
             torn == Parents \in cut
  <2>1. /\ ask.at = "ranked" /\ UNCHANGED index
        /\ ask' = [ask EXCEPT !.at = "answered", !.texts = texts, !.mixed = torn]
    BY <1>9 DEF Fill
  <2>2. /\ ask.coll \in DOMAIN home /\ home[ask.coll].coll = ask.coll
        /\ \A i \in ask.near : home[i].coll = ask.coll
        /\ \A i \in ask.match : i \in DOMAIN home /\ home[i].coll <= ask.coll
    BY <2>1 DEF OneInv, Asked, Searching
  <2>3. /\ DOMAIN home \subseteq Nat /\ ask.near \subseteq DOMAIN home
        /\ \A i \in DOMAIN home : home[i].coll \in DOMAIN home
    BY DEF KbInv, Homes, Question, OneInv, Newest
  <2>4. ASSUME NEW r \in parents, r.id \in ask.near \cup ask.match, Parents \notin cut
        PROVE  home[r.id].coll = ask.coll
    <3> DEFINE by == colls[Parents].by
    <3>1. Parents \in DOMAIN colls /\ home[r.id] = home[by] /\ r.id \in DOMAIN home
      BY <2>4 DEF KbInv, Rows
    <3>2. home[by].coll = by /\ ask.coll <= by
      BY <2>2, <2>4, <3>1 DEF OneInv, Newest
    <3>3. home[r.id].coll = by /\ home[r.id].coll <= ask.coll
      BY <2>2, <2>3, <2>4, <3>1, <3>2
    <3> QED
      BY <2>2, <2>3, <3>1, <3>2, <3>3
  <2>5. \A i \in texts : home[i].coll = ask.coll \/ torn
    BY <2>2, <2>4
  <2> HIDE DEF texts, torn
  <2>6. ask'.at = "answered" /\ ask'.coll = ask.coll /\ ask'.texts = texts /\ ask'.mixed = torn
    BY <2>1 DEF KbInv, Question
  <2> QED
    BY <1>1, <2>1, <2>5, <2>6 DEF OneInv, Asked, AnswerFromOne, Searching
<1>10. ASSUME Open \/ SearchDense \/ SearchAgain \/ AskEnds \/ WorkerRestarts, ask' = NoAsk
       PROVE  Asked'
  <2>1. \A blocks \in index : blocks \subseteq DOMAIN home
    BY DEF OneInv, Asked
  <2>2. UNCHANGED index \/ index' = {}
    BY <1>10 DEF Open, SearchDense, SearchAgain, AskEnds, WorkerRestarts
  <2> QED
    BY <1>3, <1>10, <2>1, <2>2
<1> QED
  BY <1>2, <1>4, <1>5, <1>6, <1>7, <1>8, <1>9, <1>10
  DEF OneInv, WorkerStep, AskEnds, WorkerRestarts

\* An answer is made from the knowledge base that was opened for it, whatever
\* index the worker kept and whatever takes the name meanwhile.
THEOREM AnswersFromOne == Spec => []AnswerFromOne
<1>1. KbInv /\ OneInv /\ [Next]_vars => OneInv'
  <2> SUFFICES ASSUME KbInv, OneInv, [Next]_vars PROVE OneInv'
    OBVIOUS
  <2>1. CASE UNCHANGED vars
    BY <2>1 DEF vars, OneInv, Newest, Asked, AnswerFromOne
  <2> QED
    BY <2>1, OneStepServer, OneStepWorker DEF Next
<1>2. OneInv => AnswerFromOne
  BY DEF OneInv, Asked
<1> QED
  BY <1>1, <1>2, OneInit, KnowledgeBaseInvariant, PTL DEF Spec

------------------------------------------------------------------------------
\* The two collections of a name were made together, unless a handler fails.
THEOREM PartnersOwn == Spec => []PartnerIsOwn
<1>1. KbInv => PartnerIsOwn
  <2> SUFFICES ASSUME KbInv, Coll(Children) # None, Parents \notin cut,
                      op.at # "creating" \/ op.coll # Coll(Children).id
               PROVE  Coll(Parents).by = Coll(Children).id
    BY DEF PartnerIsOwn
  <2>1. Children \in DOMAIN colls /\ Coll(Children) = colls[Children]
    BY DEF Coll
  <2>2. op.at \notin {"creating", "deleting"}
    BY <2>1 DEF KbInv, Handler
  <2>3. Parents \in DOMAIN colls /\ colls[Parents].by = colls[Children].id
    BY <2>1, <2>2 DEF KbInv, Collections
  <2> QED
    BY <2>1, <2>3 DEF Coll
<1> QED
  BY <1>1, KnowledgeBaseInvariant, PTL

\* A child found has its parent stored, unless an ingestion is under way or
\* was cut short.
THEOREM ChildrenHaveParents == Spec => []ChildHasParent
<1>1. KbInv => ChildHasParent
  BY DEF KbInv, Rows
<1> QED
  BY <1>1, KnowledgeBaseInvariant, PTL
=============================================================================
