--------------------------- MODULE ServicesProofs ---------------------------
(***************************************************************************)
(* A behaviour of MCServices is one of each of its parts, so that what is  *)
(* proved of a part holds of it, for all values of the constants.          *)
(***************************************************************************)
EXTENDS MCServices, FiniteSetTheorems, WellFoundedInduction, TLAPS

LEMMA PartsBegin ==
    MCInit => A!Init /\ B!Init /\ S!Init /\ F!Init /\ O!Init /\ W!Init /\ R!Init
BY DEF MCInit

\* A step of another part leaves a part as it is.
LEMMA PartsStep ==
    [MCNext]_vars => /\ [A!Next]_(A!vars) /\ [B!Next]_(B!vars)
                     /\ [S!Next]_(S!vars) /\ [F!Next]_(F!vars)
                     /\ [O!Next]_(O!vars) /\ [W!Next]_(W!vars) /\ [R!Next]_(R!vars)
BY DEF MCNext, AccountsStep, FilesStep, vars, accounts, bases, sessions, files, objects, window,
       retrieval, R!vars, A!vars, B!vars, S!vars, F!vars,
       F!Next, F!diskVars, F!runVars, F!pageVars, F!streamVars,
       O!vars, W!vars

LEMMA PartsRun ==
    MCSpec => A!Spec /\ B!Spec /\ S!Spec /\ F!Spec /\ O!Spec /\ W!Spec /\ R!Spec
BY PartsBegin, PartsStep, PTL
DEF MCSpec, A!Spec, B!Spec, S!Spec, F!Spec, O!Spec, W!Spec, R!Spec

\* A cached set of permissions differs from the rows for a known reason only,
\* for any users, roles, changes and faults.
THEOREM StaleExplained == MCSpec => []StaleEntryIsExplained
BY PartsRun, A!StaleExplained, PTL DEF StaleEntryIsExplained

\* No administrator takes the last administrator's role by changing their own.
THEOREM LastAdminKept == MCSpec => LastAdminNotByOneself
BY PartsRun, A!LastAdminKept, PTL DEF LastAdminNotByOneself

\* Deletions and re-creations of a thread's session give nobody another's
\* session to share, but for one that took the checked one's place.
THEOREM LinksOwned == MCSpec => []LinkIsOwners
BY PartsRun, S!LinksOwned, PTL DEF LinkIsOwners

\* A shared view that no deletion crosses shows its link's session alone.
THEOREM LinksFaithful == MCSpec => []LinkShowsItsSession
BY PartsRun, S!LinksFaithful, PTL DEF LinkShowsItsSession

\* What a run recalls was said in its own user's sessions, but for those
\* deleted while they were consolidated.
THEOREM ContextOwned == MCSpec => []ContextIsOwn
BY PartsRun, S!ContextOwned, PTL DEF ContextIsOwn

\* A run works with the uploads it was told of, whatever is removed meanwhile.
THEOREM StagedUploads == MCSpec => []RunHasItsUploads
BY PartsRun, F!StagedUploads, PTL DEF RunHasItsUploads

\* What the page takes for uploaded here is stored, or is missing for a known
\* reason, wherever the page was and whichever side of a request failed.
THEOREM UnstoredExplained == MCSpec => []UnstoredIsExplained
BY PartsRun, F!UnstoredExplained, PTL DEF UnstoredIsExplained

\* An agent is answered from what its group may read, or from a knowledge base
\* made under the name since it asked, or left incomplete by a failure.
THEOREM AnswersOwn == MCSpec => []AnswerIsOwn
BY PartsRun, B!AnswersOwn, PTL DEF AnswerIsOwn

\* An answer is made from the knowledge base opened for it, for any names,
\* groups and interleavings of question and handlers.
THEOREM AnswersFromOne == MCSpec => []AnswerFromOne
BY PartsRun, B!AnswersFromOne, PTL DEF AnswerFromOne

\* Creations and deletions in any order give a knowledge base its own parents,
\* unless one of them fails.
THEOREM PartnersOwn == MCSpec => []PartnerIsOwn
BY PartsRun, B!PartnersOwn, PTL DEF PartnerIsOwn

\* No child lacks its parent but the one being added, unless an addition fails.
THEOREM ChildrenHaveParents == MCSpec => []ChildHasParent
BY PartsRun, B!ChildrenHaveParents, PTL DEF ChildHasParent

------------------------------------------------------------------------------
(* The objects a process makes once: who holds the lock, and what there is  *)
(* while nobody does.                                                       *)

ObjectStates == {"new", "ready", "loading", "failed", "leaked", "closed"}
TaskStates == {"away", "waiting", "using", "opening", "preparing"}

\* At shutdown the object is closed without the lock.
Unlocked == kind \in O!ClosedUnlocked

\* Nothing is closed beside the task that has the lock.
Calm == Unlocked => closer = "none"

\* What the lock is for: the rest is loaded for nobody.
Owned == O!Live \ O!Orphans

\* Task t is making the object.
Making(t) == task[t].at \in {"opening", "preparing"}

\* The variable only ever has the newest object.
ObjectsTyped ==
    /\ kind \in O!Kinds
    /\ object \in Seq(ObjectStates)
    /\ slot \subseteq DOMAIN object \cap {O!Newest}
    /\ cm \subseteq IF Unlocked THEN DOMAIN object \cap {O!Newest} ELSE {}
    /\ task \in [Tasks -> [at : TaskStates, got : SUBSET Nat]]
    /\ closer \in {"none", "closing", "closed"}

\* The lock is held by whoever makes the object or, where it takes the lock, by
\* the shutdown that closes it.
LockHeld ==
    /\ \A t \in Tasks : Making(t) <=> holder = {t}
    /\ holder = {} \/ holder = {"closer"} \/ \E t \in Tasks : holder = {t}
    /\ holder = {"closer"} => closer = "closing"
    /\ closer = "closing" => Unlocked \/ (holder = {"closer"} /\ Owned = {})
    /\ \A t \in Tasks : task[t].at = "preparing" => Unlocked

\* What the task that makes the object sees of the variable, whatever the
\* others do meanwhile.
Made ==
    \A t \in Tasks : Making(t) =>
        /\ O!Newest \in DOMAIN object
        /\ Calm => /\ object[O!Newest] = "new"
                   /\ slot = IF task[t].at = "opening" THEN {} ELSE {O!Newest}

\* An object that is not closed is in the variable, or about to be.
LiveKnown ==
    Calm => \A o \in Owned : o \in slot \/ (o = O!Newest /\ \E t \in Tasks : Making(t))

\* What a task has been given, or would be given now, before the shutdown.
GivenOpen ==
    closer = "none" =>
        /\ \A o \in slot : object[o] = "ready" \/ (Unlocked /\ object[o] = "new")
        /\ \A t \in Tasks : \A o \in task[t].got :
             /\ o \in DOMAIN object
             /\ object[o] = "ready" \/ (Unlocked /\ object[o] \in {"new", "leaked"})
             /\ o = O!Newest => \A s \in Tasks : task[s].at # "opening"

\* Only a task that uses the object has it.
EmptyHanded == \A t \in Tasks : task[t].at # "using" => task[t].got = {}

ObjectsInv ==
    ObjectsTyped /\ LockHeld /\ Made /\ LiveKnown /\ GivenOpen /\ EmptyHanded

\* It holds before any task asks.
LEMMA ObjectsBegin == O!Init => ObjectsInv
BY DEF O!Init, O!Away, ObjectsInv, ObjectsTyped, ObjectStates, TaskStates, LockHeld, Made,
       Making, LiveKnown, Owned, O!Live, O!Orphans, GivenOpen, EmptyHanded, O!Kinds, O!Newest,
       Unlocked

\* At most one task makes the object, and nobody else has the lock then.
LEMMA OneMakes ==
    ASSUME LockHeld, NEW t \in Tasks, Making(t)
    PROVE  holder = {t} /\ \A s \in Tasks : s # t => ~Making(s)
BY DEF LockHeld

\* The lock is let go of by the task that has it.
LEMMA LetGo ==
    ASSUME LockHeld, NEW t \in Tasks, Making(t), holder' = {}, UNCHANGED <<kind, closer>>,
           ~Making(t)', \A s \in Tasks : s # t => task'[s] = task[s]
    PROVE  LockHeld'
<1>1. holder = {t} /\ \A s \in Tasks : s # t => ~Making(s)
  BY OneMakes
<1>2. {t} # {"closer"}
  BY ServicesAssumption
<1>3. \A s \in Tasks : ~Making(s)'
  BY <1>1 DEF Making
<1>4. closer = "closing" => Unlocked
  BY <1>1, <1>2 DEF LockHeld
<1> QED
  BY <1>3, <1>4 DEF LockHeld, Making, Unlocked

\* A step of a task that makes nothing, before and after, and takes nothing.
LEMMA OthersGoOn ==
    ASSUME ObjectsInv, NEW t \in Tasks, UNCHANGED <<kind, slot, cm, object, holder, closer>>,
           ~Making(t), NEW w \in {"away", "waiting", "using"},
           NEW g \in {{}, slot}, w # "using" => g = {},
           task' = [task EXCEPT ![t] = [at |-> w, got |-> g]]
    PROVE  ObjectsInv'
<1> USE DEF ObjectsInv
<1>0. g \in SUBSET Nat
  BY DEF ObjectsTyped
<1>1. /\ task'[t] = [at |-> w, got |-> g]
      /\ \A s \in Tasks : s # t => task'[s] = task[s]
      /\ ~Making(t)' /\ \A s \in Tasks : Making(s)' <=> Making(s)
  BY DEF ObjectsTyped, Making
<1>2. ObjectsTyped'
  BY <1>0 DEF ObjectsTyped, TaskStates, O!Newest, Unlocked
<1>3. LockHeld'
  BY <1>1 DEF LockHeld, Unlocked, Owned, O!Live, O!Orphans
<1>4. Made'
  BY <1>1 DEF Made, Calm, Unlocked, O!Newest
<1>5. LiveKnown'
  BY <1>1 DEF LiveKnown, Calm, Unlocked, Owned, O!Live, O!Orphans, O!Newest
<1>6. GivenOpen'
  <2> SUFFICES ASSUME closer = "none" PROVE GivenOpen'
    BY DEF GivenOpen
  <2>1. \A s \in Tasks : task'[s].at = "opening" <=> task[s].at = "opening"
    BY <1>1 DEF Making
  <2>2. \A o \in g : /\ o \in slot /\ o \in DOMAIN object
                     /\ object[o] = "ready" \/ (Unlocked /\ object[o] = "new")
    BY DEF GivenOpen, ObjectsTyped
  <2>3. g # {} => \A s \in Tasks : task[s].at # "opening"
    BY DEF Made, Making, Calm
  <2> QED
    BY <1>1, <2>1, <2>2, <2>3 DEF GivenOpen, Unlocked, O!Newest
<1>7. EmptyHanded'
  BY <1>1 DEF EmptyHanded
<1> QED
  BY <1>2, <1>3, <1>4, <1>5, <1>6, <1>7

\* A getter that finds the object, or waits for the lock.
LEMMA GetKeeps == ASSUME ObjectsInv, NEW t \in Tasks, O!Get(t) PROVE ObjectsInv'
<1>1. ~Making(t) /\ task[t] = [at |-> "away", got |-> {}]
  BY DEF O!Get, Making, ObjectsInv, EmptyHanded, ObjectsTyped
<1>2. UNCHANGED <<kind, slot, cm, object, holder, closer>>
  BY DEF O!Get
<1>3. \/ task' = [task EXCEPT ![t] = [at |-> "using", got |-> slot]]
      \/ task' = [task EXCEPT ![t] = [at |-> "waiting", got |-> {}]]
  BY <1>1 DEF O!Get, O!Given, O!Goes
<1> QED
  BY <1>1, <1>2, <1>3, OthersGoOn

\* A new object, by the task that found none.
LEMMA LockedMakes ==
    ASSUME ObjectsInv, NEW t \in Tasks, O!Locked(t), slot = {}
    PROVE  ObjectsInv'
<1> USE DEF ObjectsInv
<1> DEFINE n == Len(object) + 1
<1>1. /\ task[t] = [at |-> "waiting", got |-> {}] /\ holder = {}
      /\ closer' = closer /\ kind' = kind
      /\ \A s \in Tasks : ~Making(s)
  BY DEF O!Locked, EmptyHanded, ObjectsTyped, LockHeld
<1>2. Calm => Owned = {}
  BY <1>1 DEF LiveKnown
<1>3. /\ n \in Nat /\ n # Len(object) /\ DOMAIN object = 1 .. Len(object)
      /\ \A o \in DOMAIN object : o # n
  BY DEF ObjectsTyped
<1>4. CASE kind \in O!Awaited
  <2>1. /\ object' = Append(object, "new") /\ holder' = {t} /\ slot' = {}
        /\ task' = [task EXCEPT ![t] = [at |-> "opening", got |-> {}]]
        /\ cm' = IF Unlocked THEN {n} ELSE {}
    BY <1>1, <1>4 DEF O!Locked, O!Found, O!Goes, O!Newest, Unlocked
  <2>2. /\ object' \in Seq(ObjectStates) /\ Len(object') = n
        /\ DOMAIN object' = DOMAIN object \cup {n}
        /\ object'[n] = "new" /\ \A o \in DOMAIN object : object'[o] = object[o]
    BY <2>1 DEF ObjectsTyped, ObjectStates
  <2>3. /\ task'[t] = [at |-> "opening", got |-> {}]
        /\ \A s \in Tasks : s # t => task'[s] = task[s]
        /\ Making(t)' /\ \A s \in Tasks : s # t => ~Making(s)'
    <3>1. /\ task'[t] = [at |-> "opening", got |-> {}]
          /\ \A s \in Tasks : s # t => task'[s] = task[s]
      BY <2>1 DEF ObjectsTyped
    <3> QED
      BY <1>1, <3>1 DEF Making
  <2> HIDE DEF n
  <2>4. ObjectsTyped'
    BY <1>1, <1>3, <2>1, <2>2 DEF ObjectsTyped, TaskStates, O!Newest, Unlocked
  <2>5. LockHeld'
    <3>1. {t} # {"closer"} /\ \A s \in Tasks : {t} = {s} => s = t
      BY ServicesAssumption
    <3>2. \A s \in Tasks : task'[s].at = "preparing" => FALSE
      BY <2>3 DEF Making
    <3>3. closer = "closing" => Unlocked
      BY <1>1 DEF LockHeld
    <3> QED
      BY <1>1, <2>1, <2>3, <3>1, <3>2, <3>3 DEF LockHeld, Unlocked
  <2>6. Made'
    <3>1. n \in DOMAIN object' /\ object'[n] = "new" /\ slot' = {}
      BY <2>1, <2>2
    <3>2. \A s \in Tasks : Making(s)' => task'[s].at = "opening"
      BY <2>3
    <3> QED
      BY <2>2, <3>1, <3>2 DEF Made, O!Newest
  <2>7. LiveKnown'
    BY <1>1, <1>2, <1>3, <2>2, <2>3 DEF LiveKnown, Owned, O!Live, O!Orphans, Calm, Unlocked, O!Newest
  <2>8. GivenOpen'
    <3>1. slot' = {} /\ closer' = closer /\ Unlocked' = Unlocked /\ O!Newest' = n
      BY <1>1, <2>1, <2>2 DEF Unlocked, O!Newest
    <3>2. \A s \in Tasks : task'[s].got \subseteq task[s].got
      BY <2>3
    <3>3. n \notin DOMAIN object
      BY <1>3
    <3> QED
      BY <2>2, <3>1, <3>2, <3>3 DEF GivenOpen
  <2>9. EmptyHanded'
    BY <2>3 DEF EmptyHanded
  <2> QED
    BY <2>4, <2>5, <2>6, <2>7, <2>8, <2>9
<1>5. CASE kind \notin O!Awaited
  <2>1. /\ object' = Append(object, "ready") /\ holder' = {} /\ slot' = {n} /\ cm' = cm
        /\ task' = [task EXCEPT ![t] = [at |-> "using", got |-> {n}]]
    BY <1>1, <1>5 DEF O!Locked, O!Found, O!Given, O!Newest
  <2>2. /\ object' \in Seq(ObjectStates) /\ Len(object') = n
        /\ DOMAIN object' = DOMAIN object \cup {n}
        /\ object'[n] = "ready" /\ \A o \in DOMAIN object : object'[o] = object[o]
    BY <2>1 DEF ObjectsTyped, ObjectStates
  <2>3. /\ task'[t] = [at |-> "using", got |-> {n}]
        /\ \A s \in Tasks : s # t => task'[s] = task[s]
        /\ \A s \in Tasks : ~Making(s)'
    BY <1>1, <2>1 DEF ObjectsTyped, Making
  <2>4. cm = {}
    BY <1>5 DEF ObjectsTyped, O!Awaited, O!Kinds, Unlocked, O!ClosedUnlocked
  <2> HIDE DEF n
  <2>5. ObjectsTyped'
    <3>1. slot' \subseteq DOMAIN object' \cap {O!Newest'} /\ cm' = {}
      BY <2>1, <2>2, <2>4 DEF O!Newest
    <3>2. task' \in [Tasks -> [at : TaskStates, got : SUBSET Nat]]
      <4>1. [at |-> "using", got |-> {n}] \in [at : TaskStates, got : SUBSET Nat]
        BY <1>3 DEF TaskStates
      <4> QED
        BY <2>1, <4>1 DEF ObjectsTyped
    <3> QED
      BY <1>1, <2>2, <3>1, <3>2 DEF ObjectsTyped, Unlocked
  <2>6. LockHeld'
    <3>3. closer = "closing" => Unlocked
      BY <1>1 DEF LockHeld
    <3> QED
      BY <1>1, <2>1, <2>3, <3>3 DEF LockHeld, Making, Unlocked
  <2>7. Made'
    BY <2>3 DEF Made
  <2>8. LiveKnown'
    BY <1>1, <1>2, <1>3, <2>1, <2>2 DEF LiveKnown, Owned, O!Live, O!Orphans, Calm, Unlocked
  <2>9. GivenOpen'
    <3>1. \A s \in Tasks : task'[s].at # "opening"
      BY <2>3 DEF Making
    <3>2. closer = "none" => \A s \in Tasks : s # t => \A o \in task'[s].got :
             /\ o \in DOMAIN object'
             /\ object'[o] = "ready" \/ (Unlocked /\ object'[o] \in {"new", "leaked"})
      BY <2>2, <2>3 DEF GivenOpen
    <3>3. task'[t].got = {n} /\ n \in DOMAIN object' /\ object'[n] = "ready"
      BY <2>2, <2>3
    <3> QED
      BY <1>1, <2>1, <3>1, <3>2, <3>3 DEF GivenOpen, Unlocked
  <2>10. EmptyHanded'
    BY <2>3 DEF EmptyHanded
  <2> QED
    BY <2>5, <2>6, <2>7, <2>8, <2>9, <2>10
<1> QED
  BY <1>4, <1>5

\* A task gets the lock, and looks again.
LEMMA LockedKeeps == ASSUME ObjectsInv, NEW t \in Tasks, O!Locked(t) PROVE ObjectsInv'
<1>1. CASE slot = {}
  BY <1>1, LockedMakes
<1>2. CASE slot # {}
  <2>1. /\ ~Making(t) /\ UNCHANGED <<kind, slot, cm, object, holder, closer>>
        /\ task' = [task EXCEPT ![t] = [at |-> "using", got |-> slot]]
    BY <1>2 DEF O!Locked, O!Found, O!Given, Making
  <2> QED
    BY <2>1, OthersGoOn
<1> QED
  BY <1>1, <1>2

\* A task lets the object go, or never had it.
LEMMA DoneKeeps == ASSUME ObjectsInv, NEW t \in Tasks, O!Done(t) PROVE ObjectsInv'
<1>1. /\ ~Making(t) /\ UNCHANGED <<kind, slot, cm, object, holder, closer>>
      /\ task' = [task EXCEPT ![t] = [at |-> "away", got |-> {}]]
  BY DEF O!Done, O!Away, Making
<1> QED
  BY <1>1, OthersGoOn

\* The checkpointer is opened, and assigned before it is set up.
LEMMA OpenedKeeps == ASSUME ObjectsInv, NEW t \in Tasks, O!Opened(t) PROVE ObjectsInv'
<1> USE DEF ObjectsInv
<1>1. /\ Unlocked /\ Making(t) /\ task[t] = [at |-> "opening", got |-> {}]
      /\ slot' = {O!Newest} /\ UNCHANGED <<kind, cm, object, holder, closer>>
      /\ task' = [task EXCEPT ![t] = [at |-> "preparing", got |-> {}]]
  <2>1. /\ kind = "checkpointer" /\ task[t].at = "opening" /\ slot' = {O!Newest}
        /\ task' = [task EXCEPT ![t].at = "preparing"]
        /\ UNCHANGED <<kind, cm, object, holder, closer>>
    BY DEF O!Opened, O!Goes, O!AssignedFirst
  <2>2. task[t] = [at |-> "opening", got |-> {}]
    BY <2>1 DEF EmptyHanded, ObjectsTyped
  <2>3. task' = [task EXCEPT ![t] = [at |-> "preparing", got |-> {}]]
    <3>1. task' = [task EXCEPT ![t] = [task[t] EXCEPT !.at = "preparing"]]
      BY <2>1
    <3>2. [task[t] EXCEPT !.at = "preparing"] = [at |-> "preparing", got |-> {}]
      BY <2>2
    <3> QED
      BY <3>1, <3>2
  <2> QED
    BY <2>1, <2>2, <2>3 DEF Making, Unlocked, O!ClosedUnlocked
<1>2. holder = {t} /\ \A s \in Tasks : s # t => ~Making(s)
  BY <1>1, OneMakes
<1>3. /\ task'[t] = [at |-> "preparing", got |-> {}]
      /\ \A s \in Tasks : s # t => task'[s] = task[s]
  BY <1>1 DEF ObjectsTyped
<1>4. Making(t)' /\ \A s \in Tasks : s # t => ~Making(s)'
  BY <1>2, <1>3 DEF Making
<1>5. O!Newest \in DOMAIN object /\ (closer = "none" => object[O!Newest] = "new")
  BY <1>1 DEF Made, Calm
<1>6. ObjectsTyped'
  BY <1>1, <1>5 DEF ObjectsTyped, TaskStates, O!Newest, Unlocked
<1>7. LockHeld'
  BY <1>1, <1>2, <1>4 DEF LockHeld, Unlocked
<1>8. Made'
  BY <1>1, <1>3, <1>4, <1>5 DEF Made, Calm, Unlocked, O!Newest
<1>9. LiveKnown'
  BY <1>1, <1>2, <1>4 DEF LiveKnown, Calm, Unlocked, Owned, O!Live, O!Orphans, O!Newest, Made
<1>10. GivenOpen'
  <2> SUFFICES ASSUME closer = "none" PROVE GivenOpen'
    BY <1>1 DEF GivenOpen
  <2>1. \A s \in Tasks : task'[s].at # "opening"
    BY <1>3, <1>4 DEF Making
  <2>2. \A s \in Tasks : task'[s].got \subseteq task[s].got
    BY <1>1, <1>3
  <2> QED
    BY <1>1, <1>5, <2>1, <2>2 DEF GivenOpen, Unlocked, O!Newest
<1>11. EmptyHanded'
  BY <1>3 DEF EmptyHanded
<1> QED
  BY <1>6, <1>7, <1>8, <1>9, <1>10, <1>11

\* The object is ready: the lock is released and the task goes on with it.
LEMMA ReadyKeeps == ASSUME ObjectsInv, NEW t \in Tasks, O!Ready(t) PROVE ObjectsInv'
<1> USE DEF ObjectsInv
<1> DEFINE n == Len(object)
           o == IF Unlocked THEN slot ELSE {n}
           q == IF object[n] = "new" THEN "ready" ELSE object[n]
<1>1. /\ Making(t) /\ task[t].at = IF Unlocked THEN "preparing" ELSE "opening"
      /\ object' = [object EXCEPT ![n] = q] /\ slot' = o
      /\ task' = [task EXCEPT ![t] = [at |-> "using", got |-> o]]
      /\ holder' = {} /\ UNCHANGED <<kind, cm, closer>>
  BY DEF O!Ready, O!Given, O!Newest, Making, Unlocked, O!AssignedFirst, O!ClosedUnlocked
<1>2. holder = {t} /\ \A s \in Tasks : s # t => ~Making(s)
  BY <1>1, OneMakes
<1>3. /\ n \in DOMAIN object /\ o \subseteq {n} /\ o \subseteq Nat /\ n \in Nat
      /\ Calm => object[n] = "new" /\ o = {n}
  BY <1>1 DEF Made, ObjectsTyped, O!Newest
<1>4. /\ object' \in Seq(ObjectStates) /\ Len(object') = n /\ DOMAIN object' = DOMAIN object
      /\ object'[n] = q /\ \A m \in DOMAIN object : m # n => object'[m] = object[m]
  BY <1>1, <1>3 DEF ObjectsTyped, ObjectStates
<1>5. /\ task'[t] = [at |-> "using", got |-> o]
      /\ \A s \in Tasks : s # t => task'[s] = task[s]
  BY <1>1 DEF ObjectsTyped
<1>6. \A s \in Tasks : ~Making(s)'
  BY <1>2, <1>5 DEF Making
<1>7. Calm => q = "ready"
  BY <1>3
<1> HIDE DEF o, q, n
<1>8. ObjectsTyped'
  BY <1>1, <1>3, <1>4 DEF ObjectsTyped, TaskStates, O!Newest, Unlocked, n
<1>9. LockHeld'
  BY <1>1, <1>5, <1>6, LetGo
<1>10. Made'
  BY <1>6 DEF Made
<1>11. LiveKnown'
  BY <1>1, <1>2, <1>3, <1>4 DEF LiveKnown, Calm, Unlocked, Owned, O!Live, O!Orphans, O!Newest, n, Made
<1>12. GivenOpen'
  <2> SUFFICES ASSUME closer = "none" PROVE GivenOpen'
    BY <1>1 DEF GivenOpen
  <2>1. \A s \in Tasks : task'[s].at # "opening"
    BY <1>6 DEF Making
  <2>2. o = {n} /\ object'[n] = "ready"
    BY <1>3, <1>4, <1>7 DEF Calm
  <2>3. \A s \in Tasks : s # t => \A m \in task'[s].got :
             /\ m \in DOMAIN object
             /\ object'[m] = "ready" \/ (Unlocked /\ object'[m] \in {"new", "leaked"})
    BY <1>3, <1>4, <1>5, <2>2 DEF GivenOpen
  <2>4. task'[t].got = {n} /\ n \in DOMAIN object
    BY <1>3, <1>5, <2>2
  <2> QED
    BY <1>1, <1>4, <2>1, <2>2, <2>3, <2>4 DEF GivenOpen, Unlocked
<1>13. EmptyHanded'
  BY <1>5 DEF EmptyHanded
<1> QED
  BY <1>8, <1>9, <1>10, <1>11, <1>12, <1>13

\* Making it fails: the variables are reset.
LEMMA FailedKeeps == ASSUME ObjectsInv, NEW t \in Tasks, O!Failed(t) PROVE ObjectsInv'
<1> USE DEF ObjectsInv
<1> DEFINE n == Len(object)
           q == IF task[t].at = "opening" THEN "failed" ELSE "leaked"
<1>1. /\ Making(t) /\ slot' = {} /\ cm' = {} /\ holder' = {} /\ UNCHANGED <<kind, closer>>
      /\ object' = [object EXCEPT ![n] = q]
      /\ task' = [task EXCEPT ![t] = [at |-> "away", got |-> {}]]
  BY DEF O!Failed, O!Newest, O!Away, Making
<1>2. /\ task'[t] = [at |-> "away", got |-> {}]
      /\ \A s \in Tasks : s # t => task'[s] = task[s]
  BY <1>1 DEF ObjectsTyped
<1>3. \A s \in Tasks : ~Making(s)'
  BY <1>1, <1>2, OneMakes DEF Making
<1>4. n \in DOMAIN object /\ n \in Nat
  BY <1>1 DEF Made, ObjectsTyped, O!Newest
<1>5. /\ object' \in Seq(ObjectStates) /\ Len(object') = n /\ DOMAIN object' = DOMAIN object
      /\ object'[n] = q /\ \A m \in DOMAIN object : m # n => object'[m] = object[m]
  BY <1>1, <1>4 DEF ObjectsTyped, ObjectStates
<1> HIDE DEF n
<1>6. ObjectsTyped'
  BY <1>1, <1>5 DEF ObjectsTyped, TaskStates
<1>7. LockHeld'
  BY <1>1, <1>2, <1>3, LetGo
<1>8. Made'
  BY <1>3 DEF Made
<1>9. LiveKnown'
  <2>1. Calm => Owned \subseteq {n}
    BY <1>1 DEF LiveKnown, Made, ObjectsTyped, O!Newest, n
  <2> QED
    BY <1>1, <1>5, <2>1 DEF LiveKnown, Calm, Unlocked, Owned, O!Live, O!Orphans
<1>10. GivenOpen'
  <2> SUFFICES ASSUME closer = "none" PROVE GivenOpen'
    BY <1>1 DEF GivenOpen
  <2>1. \A s \in Tasks : task'[s].at # "opening"
    BY <1>3 DEF Making
  <2>2. ASSUME NEW s \in Tasks, NEW m \in task'[s].got
        PROVE  /\ m \in DOMAIN object
               /\ object'[m] = "ready" \/ (Unlocked /\ object'[m] \in {"new", "leaked"})
    <3>1. m \in task[s].got
      BY <1>2, <2>2
    <3>2. CASE m = n /\ task[t].at # "opening"
      BY <1>1, <1>4, <1>5, <3>2 DEF LockHeld, Making
    <3>3. CASE m # n \/ task[t].at = "opening"
      BY <1>5, <3>1, <3>3 DEF GivenOpen, O!Newest, n
    <3> QED
      BY <3>2, <3>3
  <2> QED
    BY <1>1, <1>5, <2>1, <2>2 DEF GivenOpen, Unlocked
<1>11. EmptyHanded'
  BY <1>2 DEF EmptyHanded
<1> QED
  BY <1>6, <1>7, <1>8, <1>9, <1>10, <1>11

\* The task is cancelled while it makes it: what was assigned stays.
LEMMA CancelledKeeps == ASSUME ObjectsInv, NEW t \in Tasks, O!Cancelled(t) PROVE ObjectsInv'
<1> USE DEF ObjectsInv
<1> DEFINE n == Len(object)
<1>0. PICK q \in {object[n], "failed", "loading"} :
         /\ object' = [object EXCEPT ![n] = q]
         /\ q # object[n] => task[t].at = "opening" /\ q \in {"failed", "loading"}
         /\ task[t].at = "opening" => q \in {"failed", "loading"}
  BY DEF O!Cancelled, O!Newest
<1>1. /\ Making(t) /\ holder' = {} /\ UNCHANGED <<kind, closer, slot, cm>>
      /\ object' = [object EXCEPT ![n] = q]
      /\ task' = [task EXCEPT ![t] = [at |-> "away", got |-> {}]]
  BY <1>0 DEF O!Cancelled, O!Away, Making
<1>2. /\ task'[t] = [at |-> "away", got |-> {}]
      /\ \A s \in Tasks : s # t => task'[s] = task[s]
  BY <1>1 DEF ObjectsTyped
<1>3. \A s \in Tasks : ~Making(s)'
  BY <1>1, <1>2, OneMakes DEF Making
<1>4. n \in DOMAIN object /\ n \in Nat
  BY <1>1 DEF Made, ObjectsTyped, O!Newest
<1>5. /\ object' \in Seq(ObjectStates) /\ Len(object') = n /\ DOMAIN object' = DOMAIN object
      /\ object'[n] = q /\ \A m \in DOMAIN object : m # n => object'[m] = object[m]
  BY <1>0, <1>1, <1>4 DEF ObjectsTyped, ObjectStates
<1> HIDE DEF n
<1>6. ObjectsTyped'
  BY <1>1, <1>5 DEF ObjectsTyped, TaskStates, O!Newest, Unlocked
<1>7. LockHeld'
  BY <1>1, <1>2, <1>3, LetGo
<1>8. Made'
  BY <1>3 DEF Made
<1>9. LiveKnown'
  <2>1. Calm => Owned \subseteq {n}
    BY <1>1 DEF LiveKnown, Made, ObjectsTyped, O!Newest, n
  <2>2. Calm => slot = IF task[t].at = "opening" THEN {} ELSE {n}
    BY <1>1 DEF Made, O!Newest, n
  <2> QED
    BY <1>0, <1>1, <1>5, <2>1, <2>2 DEF LiveKnown, Calm, Unlocked, Owned, O!Live, O!Orphans
<1>10. GivenOpen'
  <2> SUFFICES ASSUME closer = "none" PROVE GivenOpen'
    BY <1>1 DEF GivenOpen
  <2>1. \A s \in Tasks : task'[s].at # "opening"
    BY <1>3 DEF Making
  <2>2. ASSUME NEW s \in Tasks, NEW m \in task'[s].got
        PROVE  /\ m \in DOMAIN object
               /\ object'[m] = "ready" \/ (Unlocked /\ object'[m] \in {"new", "leaked"})
    <3>1. m \in task[s].got
      BY <1>2, <2>2
    <3>2. /\ m \in DOMAIN object
          /\ object[m] = "ready" \/ (Unlocked /\ object[m] \in {"new", "leaked"})
          /\ m = n => task[t].at # "opening"
      BY <3>1 DEF GivenOpen, O!Newest, n
    <3> QED
      BY <1>0, <1>5, <3>2
  <2>3. \A m \in slot : object'[m] = "ready" \/ (Unlocked /\ object'[m] = "new")
    <3>1. task[t].at = "opening" => slot = {}
      BY <1>1 DEF Made, Calm
    <3> QED
      BY <1>0, <1>5, <3>1 DEF GivenOpen, ObjectsTyped
  <2> QED
    BY <1>1, <1>5, <2>1, <2>2, <2>3 DEF GivenOpen, Unlocked
<1>11. EmptyHanded'
  BY <1>2 DEF EmptyHanded
<1> QED
  BY <1>6, <1>7, <1>8, <1>9, <1>10, <1>11

\* A thread ends whose model nobody waits for.
LEMMA LoadedKeeps ==
    ASSUME ObjectsInv, NEW o \in DOMAIN object, O!LoadedForNobody(o) PROVE ObjectsInv'
<1> USE DEF ObjectsInv
<1>1. /\ object[o] = "loading" /\ object' = [object EXCEPT ![o] = "failed"]
      /\ UNCHANGED <<kind, slot, cm, task, holder, closer>>
  BY DEF O!LoadedForNobody
<1>2. /\ object' \in Seq(ObjectStates) /\ Len(object') = Len(object)
      /\ DOMAIN object' = DOMAIN object
      /\ \A m \in DOMAIN object : object'[m] = object[m] \/ (object[m] = "loading" /\ object'[m] = "failed")
  BY <1>1 DEF ObjectsTyped, ObjectStates
<1>3. Owned' = Owned
  BY <1>2 DEF Owned, O!Live, O!Orphans
<1>4. ObjectsTyped' /\ LockHeld' /\ EmptyHanded'
  BY <1>1, <1>2, <1>3 DEF ObjectsTyped, LockHeld, EmptyHanded, Making, O!Newest, Unlocked
<1>5. Made' /\ LiveKnown' /\ GivenOpen'
  BY <1>1, <1>2, <1>3 DEF Made, LiveKnown, GivenOpen, Making, Calm, Unlocked, O!Newest
<1> QED
  BY <1>4, <1>5

\* The shutdown closes what is in the variable.
LEMMA CloseKeeps == ASSUME ObjectsInv, O!Close PROVE ObjectsInv'
<1> USE DEF ObjectsInv
<1>1. /\ closer' = "closing" /\ UNCHANGED <<kind, slot, cm, task>>
      /\ object' = [o \in DOMAIN object |-> IF o \in slot THEN "closed" ELSE object[o]]
      /\ \/ Unlocked /\ UNCHANGED holder
         \/ ~Unlocked /\ holder = {} /\ holder' = {"closer"}
  BY DEF O!Close, Unlocked
<1>2. /\ object' \in Seq(ObjectStates) /\ Len(object') = Len(object)
      /\ DOMAIN object' = DOMAIN object
      /\ \A o \in DOMAIN object : object'[o] \in {object[o], "closed"}
  BY <1>1 DEF ObjectsTyped, ObjectStates
<1>3. Unlocked' = Unlocked /\ (Calm' => ~Unlocked /\ Calm)
  BY <1>1 DEF Calm, Unlocked
<1>4. ObjectsTyped'
  BY <1>1, <1>2, <1>3 DEF ObjectsTyped, O!Newest
<1>5. LockHeld'
  <2>1. \A s \in Tasks : {s} # {"closer"}
    BY ServicesAssumption
  <2>2. \A s \in Tasks : Making(s)' <=> Making(s)
    BY <1>1 DEF Making
  <2>3. CASE Unlocked /\ UNCHANGED holder
    BY <1>1, <1>3, <2>2, <2>3 DEF LockHeld
  <2>4. CASE ~Unlocked /\ holder = {} /\ holder' = {"closer"}
    <3>1. (\A s \in Tasks : ~Making(s)) /\ Calm
      BY <2>4 DEF LockHeld, Calm
    <3>2. Owned' = {}
      BY <1>1, <3>1 DEF LiveKnown, Owned, O!Live, O!Orphans
    <3> QED
      BY <1>1, <1>3, <2>1, <2>2, <2>4, <3>1, <3>2 DEF LockHeld
  <2> QED
    BY <1>1, <2>3, <2>4
<1>6. Made'
  <2>1. ~Unlocked => \A s \in Tasks : ~Making(s)
    BY <1>1 DEF LockHeld
  <2> QED
    BY <1>1, <1>2, <1>3, <2>1 DEF Made, Making, O!Newest
<1>7. LiveKnown'
  <2>1. Calm' => Owned' \subseteq Owned
    BY <1>2 DEF Owned, O!Live, O!Orphans
  <2> QED
    BY <1>1, <1>2, <1>3, <2>1 DEF LiveKnown, Making, O!Newest
<1>8. GivenOpen' /\ EmptyHanded'
  BY <1>1 DEF GivenOpen, EmptyHanded
<1> QED
  BY <1>4, <1>5, <1>6, <1>7, <1>8

\* The close has returned: the variable is cleared.
LEMMA ClearedKeeps == ASSUME ObjectsInv, O!Cleared PROVE ObjectsInv'
<1> USE DEF ObjectsInv
<1>1. /\ closer = "closing" /\ closer' = "closed" /\ slot' = {} /\ cm' = {}
      /\ holder' = holder \ {"closer"} /\ UNCHANGED <<kind, object, task>>
  BY DEF O!Cleared
<1>2. Unlocked' = Unlocked /\ (Calm' => ~Unlocked)
  BY <1>1 DEF Calm, Unlocked
<1>3. \A s \in Tasks : {s} # {"closer"} /\ "closer" \notin {s}
  BY ServicesAssumption
<1>4. \/ holder = {"closer"} /\ holder' = {}
      \/ Unlocked /\ holder' = holder /\ holder # {"closer"}
  BY <1>1, <1>3 DEF LockHeld
<1>5. ~Unlocked => \A s \in Tasks : ~Making(s)
  BY <1>2, <1>3, <1>4 DEF LockHeld
<1>6. ObjectsTyped'
  BY <1>1, <1>2 DEF ObjectsTyped, O!Newest
<1>7. LockHeld'
  <2>1. \A s \in Tasks : Making(s)' <=> Making(s)
    BY <1>1 DEF Making
  <2> QED
    BY <1>1, <1>2, <1>3, <1>4, <2>1 DEF LockHeld
<1>8. Made'
  BY <1>1, <1>2, <1>5 DEF Made, Making, O!Newest
<1>9. LiveKnown'
  <2>1. ~Unlocked => Owned = {}
    BY <1>1 DEF LockHeld
  <2> QED
    BY <1>1, <1>2, <2>1 DEF LiveKnown, Owned, O!Live, O!Orphans
<1>10. GivenOpen' /\ EmptyHanded'
  BY <1>1 DEF GivenOpen, EmptyHanded
<1> QED
  BY <1>6, <1>7, <1>8, <1>9, <1>10

\* Every step keeps the invariant.
LEMMA ObjectsStep == ObjectsInv /\ [O!Next]_(O!vars) => ObjectsInv'
<1> SUFFICES ASSUME ObjectsInv, [O!Next]_(O!vars) PROVE ObjectsInv'
  OBVIOUS
<1>1. CASE UNCHANGED O!vars
  BY <1>1
  DEF O!vars, ObjectsInv, ObjectsTyped, LockHeld, Made, Making, LiveKnown, GivenOpen,
      EmptyHanded, Calm, Unlocked, Owned, O!Live, O!Orphans, O!Newest
<1> QED
  BY <1>1, GetKeeps, LockedKeeps, OpenedKeeps, ReadyKeeps, FailedKeeps, CancelledKeeps,
     LoadedKeeps, DoneKeeps, CloseKeeps, ClearedKeeps
  DEF O!Next

\* The tasks, the lock, the variable and the objects agree at every moment.
THEOREM ObjectsInvariant == MCSpec => []ObjectsInv
BY PartsRun, ObjectsBegin, ObjectsStep, PTL DEF O!Spec

\* However many tasks ask at once, fail or are cancelled, a process has one pool,
\* client, checkpointer or model at a time, but for a model whose task was cancelled
\* while its thread loads it, and a checkpointer made while the other is closed.
THEOREM OneOfEach == MCSpec => []AtMostOneLive
<1>1. ObjectsInv => AtMostOneLive
  <2> SUFFICES ASSUME ObjectsInv, Calm PROVE Cardinality(Owned) <= 1
    BY DEF AtMostOneLive, O!AtMostOneLive, Owned, Calm, Unlocked, O!Cardinality, Cardinality
  <2>1. Owned \subseteq {O!Newest}
    BY DEF ObjectsInv, LiveKnown, Made, ObjectsTyped
  <2>2. IsFiniteSet({O!Newest}) /\ Cardinality({O!Newest}) = 1
    BY FS_Singleton
  <2> QED
    BY <2>1, <2>2, FS_Subset
<1> QED
  BY <1>1, ObjectsInvariant, PTL

\* What a task is given is ready, but for a checkpointer before its set-up.
THEOREM GivenReady == MCSpec => []ReadyUnless
<1>1. ObjectsInv => ReadyUnless
  BY DEF ObjectsInv, GivenOpen, ReadyUnless, O!ReadyUnless, Unlocked, O!ClosedUnlocked,
         ObjectsTyped
<1> QED
  BY <1>1, ObjectsInvariant, PTL

------------------------------------------------------------------------------
(* The window: what was let through with what is about to be, in any window. *)

\* The window before t, shortened by what a request takes.
Recent(t, x) == t - (Width - lag) < x /\ x <= t

Through(t) == {e \in passed : Recent(t, e.time)}

\* The requests that have counted and are yet to be recorded.
Letting(t) == {w \in Workers : inside[w].at = "counted" /\ Recent(t, inside[w].time)}

WindowTyped ==
    /\ now \in Width .. MaxTime /\ lag \in Nat
    /\ IsFiniteSet(passed) /\ \A e \in passed : e.time \in Int
    /\ entries \subseteq passed
    /\ inside \in [Workers -> [at : {"gone", "arrived", "trimmed", "counted"}, time : Int]]

\* Nothing recent is ever trimmed.
Kept == \A e \in passed : e.time > now - Width => e \in entries

Past == \A w \in Workers : inside[w].time <= now

\* Each of the requests that were let through beyond the limit counted before
\* another one was recorded.
WindowBound ==
    \A t \in Int :
        Cardinality(Through(t)) + Cardinality(Letting(t)) <= Most + Cardinality(Workers) - 1

WindowInv == WindowTyped /\ Kept /\ Past /\ WindowBound

\* What is counted is finite.
LEMMA Counted ==
    ASSUME WindowTyped, NEW t
    PROVE  /\ IsFiniteSet(Through(t)) /\ Cardinality(Through(t)) \in Nat
           /\ IsFiniteSet(Letting(t)) /\ Cardinality(Letting(t)) \in Nat
           /\ Cardinality(Letting(t)) <= Cardinality(Workers)
           /\ Cardinality(Workers) \in Nat
BY ServicesAssumption, FS_Subset, FS_CardinalityType DEF WindowTyped, Through, Letting

\* A limit of one request, or one that counts, is room enough to begin.
LEMMA WindowBegin == W!Init => WindowInv
<1> SUFFICES ASSUME W!Init PROVE WindowInv
  OBVIOUS
<1>1. WindowTyped /\ Kept /\ Past
  BY ServicesAssumption, FS_EmptySet DEF W!Init, W!Gone, WindowTyped, Kept, Past
<1>2. Cardinality(Workers) \in Nat /\ Cardinality(Workers) # 0
  BY ServicesAssumption, FS_CardinalityType, FS_EmptySet
<1>3. \A t \in Int : Through(t) = {} /\ Letting(t) = {}
  BY DEF W!Init, W!Gone, Through, Letting
<1>4. Cardinality(Workers) >= 1 /\ Cardinality({}) = 0
  BY <1>2, FS_EmptySet
<1>5. 0 <= Most + Cardinality(Workers) - 1
  BY <1>2, <1>4, ServicesAssumption
<1>6. WindowBound
  BY <1>3, <1>4, <1>5 DEF WindowBound
<1> QED
  BY <1>1, <1>6 DEF WindowInv

\* A step that adds to neither of the two sets.
LEMMA NoMore ==
    ASSUME WindowTyped, WindowBound,
           \A t \in Int : Through(t)' \subseteq Through(t) /\ Letting(t)' \subseteq Letting(t)
    PROVE  WindowBound'
<1> SUFFICES ASSUME NEW t \in Int
             PROVE  Cardinality(Through(t)') + Cardinality(Letting(t)')
                        <= Most + Cardinality(Workers) - 1
  BY DEF WindowBound, Through, Letting, Recent
<1>1. /\ Cardinality(Through(t)') \in Nat /\ Cardinality(Through(t)') <= Cardinality(Through(t))
      /\ Cardinality(Letting(t)') \in Nat /\ Cardinality(Letting(t)') <= Cardinality(Letting(t))
  BY Counted, FS_Subset, FS_CardinalityType
<1> QED
  BY <1>1, Counted, ServicesAssumption DEF WindowBound

\* The clock, and a request that comes, is trimmed for or is given up.
LEMMA LittleHappens ==
    ASSUME WindowInv, W!Tick \/ \E w \in Workers : W!Arrive(w) \/ W!Trim(w) \/ W!Skip(w)
    PROVE  WindowInv'
<1> USE DEF WindowInv
<1>1. WindowTyped' /\ passed' = passed /\ lag' = lag /\ now <= now'
  BY ServicesAssumption DEF WindowTyped, W!Tick, W!Arrive, W!Trim, W!Skip, W!Goes
<1>2. Kept'
  <2>1. CASE entries' = entries
    BY <1>1, <2>1, ServicesAssumption DEF Kept, WindowTyped
  <2>2. CASE \E w \in Workers : W!Trim(w)
    BY <1>1, <2>2, ServicesAssumption DEF Kept, Past, W!Trim, WindowTyped
  <2> QED
    BY <2>1, <2>2 DEF W!Tick, W!Arrive, W!Skip
<1>3. Past'
  BY <1>1 DEF Past, WindowTyped, W!Tick, W!Arrive, W!Trim, W!Skip, W!Goes
<1>4. ASSUME NEW t \in Int
      PROVE  Through(t)' \subseteq Through(t) /\ Letting(t)' \subseteq Letting(t)
  <2>1. \A w \in Workers : inside'[w].at = "counted" => inside'[w] = inside[w]
    BY DEF WindowTyped, W!Tick, W!Arrive, W!Trim, W!Skip, W!Goes
  <2> QED
    BY <1>1, <2>1 DEF Through, Letting, Recent
<1>5. WindowBound'
  BY <1>4, NoMore
<1> QED
  BY <1>1, <1>2, <1>3, <1>5

\* A request that counts finds all of the window before it that is recorded.
LEMMA CountKeeps == ASSUME WindowInv, NEW w \in Workers, W!Count(w) PROVE WindowInv'
<1> USE DEF WindowInv
<1> DEFINE x == inside[w].time
           where == IF W!Full(W!Cardinality(entries)) THEN "gone" ELSE "counted"
<1>1. /\ inside' = [inside EXCEPT ![w].at = where]
      /\ lag' = IF now - x > lag THEN now - x ELSE lag
      /\ UNCHANGED <<now, entries, arrived, passed>> /\ x \in Int
  BY DEF W!Count, W!Goes, WindowTyped
<1>2. /\ \A v \in Workers : inside'[v].time = inside[v].time
      /\ \A v \in Workers : v # w => inside'[v].at = inside[v].at
      /\ inside'[w].at = where /\ where \in {"gone", "counted"}
  BY <1>1 DEF WindowTyped
<1>3. lag' \in Nat /\ lag <= lag' /\ now <= x + lag'
  BY <1>1 DEF WindowTyped, Past
<1>4. WindowTyped'
  BY <1>1, <1>2, <1>3 DEF WindowTyped
<1>5. Kept' /\ Past'
  BY <1>1, <1>2 DEF Kept, Past
<1> HIDE DEF x
<1>6. ASSUME NEW t \in Int
      PROVE  Through(t)' \subseteq Through(t)
  BY <1>1, <1>3, ServicesAssumption DEF Through, Recent, WindowTyped
<1>7. ASSUME NEW t \in Int, ~(where = "counted" /\ Recent(t, x)')
      PROVE  Letting(t)' \subseteq Letting(t)
  BY <1>1, <1>2, <1>3, <1>7, ServicesAssumption DEF Letting, Recent, WindowTyped, x
<1>8. ASSUME NEW t \in Int, where = "counted", Recent(t, x)'
      PROVE  Cardinality(Through(t)') + Cardinality(Letting(t)')
                 <= Most + Cardinality(Workers) - 1
  <2>1. ~W!Full(W!Cardinality(entries)) /\ W!Cardinality(entries) = Cardinality(entries)
    BY <1>8 DEF W!Cardinality, Cardinality
  <2>2. IsFiniteSet(entries) /\ Cardinality(entries) \in Nat /\ Cardinality(entries) < Most
    BY <2>1, FS_Subset, FS_CardinalityType, ServicesAssumption DEF W!Full, WindowTyped
  <2>3. Through(t)' \subseteq entries
    <3> SUFFICES ASSUME NEW e \in passed, t - (Width - lag') < e.time PROVE e \in entries
      BY <1>1 DEF Through, Recent
    <3>1. x <= t
      BY <1>8, <1>1 DEF Recent, x
    <3>2. e.time > now - Width
      BY <1>1, <1>3, <3>1, ServicesAssumption DEF WindowTyped
    <3> QED
      BY <3>2 DEF Kept
  <2>4. Cardinality(Through(t)') \in Nat /\ Cardinality(Through(t)') <= Cardinality(entries)
    BY <2>2, <2>3, FS_Subset, FS_CardinalityType
  <2>5. Letting(t)' \subseteq Workers
    BY DEF Letting
  <2>6. /\ Cardinality(Letting(t)') \in Nat /\ Cardinality(Workers) \in Nat
        /\ Cardinality(Letting(t)') <= Cardinality(Workers)
    BY <2>5, ServicesAssumption, FS_Subset, FS_CardinalityType
  <2> QED
    BY <2>2, <2>4, <2>6, ServicesAssumption
<1>9. WindowBound'
  <2> SUFFICES ASSUME NEW t \in Int
               PROVE  Cardinality(Through(t)') + Cardinality(Letting(t)')
                          <= Most + Cardinality(Workers) - 1
    BY DEF WindowBound, Through, Letting, Recent
  <2>1. CASE ~(where = "counted" /\ Recent(t, x)')
    <3>1. /\ Cardinality(Through(t)') \in Nat
          /\ Cardinality(Through(t)') <= Cardinality(Through(t))
          /\ Cardinality(Letting(t)') \in Nat
          /\ Cardinality(Letting(t)') <= Cardinality(Letting(t))
      BY <1>6, <1>7, <2>1, Counted, FS_Subset, FS_CardinalityType
    <3> QED
      BY <3>1, Counted, ServicesAssumption DEF WindowBound
  <2> QED
    BY <1>8, <2>1
<1> QED
  BY <1>4, <1>5, <1>9

\* A request that is recorded has counted before.
LEMMA RecordKeeps == ASSUME WindowInv, NEW w \in Workers, W!Record(w) PROVE WindowInv'
<1> USE DEF WindowInv
<1> DEFINE e == [id |-> W!Cardinality(passed), time |-> inside[w].time]
<1>1. /\ entries' = entries \cup {e} /\ passed' = passed \cup {e}
      /\ inside[w].at = "counted" /\ inside' = [inside EXCEPT ![w].at = "gone"]
      /\ UNCHANGED <<now, lag>>
  BY DEF W!Record, W!Goes
<1>2. e.time = inside[w].time /\ e.time \in Int
  BY DEF WindowTyped
<1> HIDE DEF e
<1>3. /\ \A v \in Workers : inside'[v].time = inside[v].time
      /\ \A v \in Workers : v # w => inside'[v].at = inside[v].at
      /\ inside'[w].at = "gone"
  BY <1>1 DEF WindowTyped
<1>4. WindowTyped'
  <2>1. IsFiniteSet(passed')
    BY <1>1, FS_AddElement DEF WindowTyped
  <2> QED
    BY <1>1, <1>2, <2>1 DEF WindowTyped
<1>5. Kept' /\ Past'
  BY <1>1, <1>3 DEF Kept, Past
<1>6. ASSUME NEW t \in Int
      PROVE  Cardinality(Through(t)') + Cardinality(Letting(t)')
                 <= Most + Cardinality(Workers) - 1
  <2>1. Cardinality(Through(t)) + Cardinality(Letting(t)) <= Most + Cardinality(Workers) - 1
    BY DEF WindowBound
  <2>2. CASE Recent(t, e.time)
    <3>1. Through(t)' = Through(t) \cup {e} /\ Letting(t)' = Letting(t) \ {w} /\ w \in Letting(t)
      BY <1>1, <1>2, <1>3, <2>2 DEF Through, Letting, Recent
    <3>2. /\ Cardinality(Through(t)') \in Nat
          /\ Cardinality(Through(t)') <= Cardinality(Through(t)) + 1
      <4>1. /\ Cardinality(Through(t) \cup {e}) \in Nat
            /\ Cardinality(Through(t) \cup {e}) <= Cardinality(Through(t)) + 1
        <5>1. IsFiniteSet(Through(t)) /\ Cardinality(Through(t)) \in Nat
          BY Counted
        <5>2. Cardinality(Through(t) \cup {e}) =
                IF e \in Through(t) THEN Cardinality(Through(t)) ELSE Cardinality(Through(t)) + 1
          BY <5>1, FS_AddElement, Zenon
        <5> QED
          BY <5>1, <5>2
      <4> QED
        BY <3>1, <4>1
    <3>3. Cardinality(Letting(t)') = Cardinality(Letting(t)) - 1
      BY <3>1, Counted, FS_RemoveElement
    <3> QED
      BY <2>1, <3>2, <3>3, Counted, ServicesAssumption
  <2>3. CASE ~Recent(t, e.time)
    <3>1. Through(t)' = Through(t) /\ Letting(t)' = Letting(t)
      BY <1>1, <1>2, <1>3, <2>3 DEF Through, Letting, Recent
    <3> QED
      BY <2>1, <3>1
  <2> QED
    BY <2>2, <2>3
<1>7. WindowBound'
  BY <1>6 DEF WindowBound, Through, Letting, Recent
<1> QED
  BY <1>4, <1>5, <1>7

\* Every step keeps the invariant.
LEMMA WindowStep == WindowInv /\ [W!Next]_(W!vars) => WindowInv'
<1> SUFFICES ASSUME WindowInv, [W!Next]_(W!vars) PROVE WindowInv'
  OBVIOUS
<1>1. CASE UNCHANGED W!vars
  <2>1. WindowTyped' /\ Kept' /\ Past'
    BY <1>1 DEF W!vars, WindowInv, WindowTyped, Kept, Past
  <2>2. \A t \in Int : Through(t)' = Through(t) /\ Letting(t)' = Letting(t)
    BY <1>1 DEF W!vars, Through, Letting, Recent
  <2> QED
    BY <2>1, <2>2, NoMore DEF WindowInv
<1> QED
  BY <1>1, LittleHappens, CountKeeps, RecordKeeps DEF W!Next

\* What was let through and what is about to be are bounded together at every
\* moment: a request that counts sees all that is recorded of its window.
THEOREM WindowInvariant == MCSpec => []WindowInv
BY PartsRun, WindowBegin, WindowStep, PTL DEF W!Spec

\* Whenever the clock moves and whoever waits, all that arrived within a window
\* are no more than the limit and the others that could count at once.
THEOREM WindowBounded == MCSpec => []AcceptedBound
<1>1. WindowInv => AcceptedBound
  <2> SUFFICES ASSUME WindowInv, NEW t \in Width .. MaxTime
               PROVE  Cardinality({e \in passed : t - (Width - lag) < e.time /\ e.time <= t})
                          <= Most + Cardinality(Workers) - 1
    BY DEF AcceptedBound, W!AcceptedBound, W!Cardinality, Cardinality
  <2>1. t \in Int
    BY ServicesAssumption
  <2>2. Cardinality(Through(t)) + Cardinality(Letting(t)) <= Most + Cardinality(Workers) - 1
    BY <2>1 DEF WindowInv, WindowBound
  <2> QED
    BY <2>2, Counted, ServicesAssumption DEF WindowInv, Through, Recent
<1> QED
  BY <1>1, WindowInvariant, PTL

------------------------------------------------------------------------------
(* The parents an answer is made from: what the fusion puts first, both      *)
(* searches do not contradict.                                               *)

Ranks(ranks) == \A d \in DOMAIN ranks : d \in Docs /\ ranks[d] \in Nat

\* The candidates are what was found, highest sum first.
Ranked ==
    at # "searching" =>
        /\ ranked \in Seq(Docs) /\ R!ToSet(ranked) = R!Found
        /\ \A i, j \in DOMAIN ranked : i < j => R!BestFirst(ranked[i], ranked[j])

Answered ==
    /\ at \in {"searching", "fused", "fetched", "answered", "fallback"}
    /\ at \in {"searching", "fused"} => texts = <<>>
    /\ at \notin {"answered", "fallback"} => answer = <<>>
    /\ texts \in Seq(R!ToSet(R!Candidates))
    /\ R!ToSet(answer) \subseteq R!ToSet(texts)
    /\ LeftOutForBetter

RetrievalInv == Ranks(dense) /\ Ranks(bm25) /\ Ranked /\ Answered

\* A set of positions has a first one.
LEMMA FirstPosition ==
    ASSUME NEW T, T \subseteq Nat, T # {}
    PROVE  \E i \in T : \A j \in T : i <= j
<1>1. \E i \in T : \A j \in T : ~(<<j, i>> \in OpToRel(<, Nat))
  BY NatLessThanWellFounded, WFMin
<1>2. PICK i \in T : \A j \in T : ~(j < i)
  BY <1>1 DEF OpToRel
<1> QED
  BY <1>2

\* Merging gives every parent a rank.
LEMMA MergedRanks ==
    ASSUME NEW ranks, Ranks(ranks), NEW n \in Nat, NEW list \in [1 .. n -> Docs]
    PROVE  Ranks(R!Merged(ranks, list))
<1> SUFFICES ASSUME NEW d \in DOMAIN R!Merged(ranks, list)
             PROVE  d \in Docs /\ R!Merged(ranks, list)[d] \in Nat
  BY DEF Ranks
<1>1. CASE d \in DOMAIN ranks
  BY <1>1 DEF Ranks, R!Merged
<1>2. CASE d \notin DOMAIN ranks
  <2> DEFINE T == {i \in 1 .. n : list[i] = d}
             IsFirst(i) == list[i] = d /\ \A j \in 1 .. i - 1 : list[j] # d
  <2>1. d \in R!ToSet(list)
    BY <1>2 DEF R!Merged
  <2>2. T # {} /\ T \subseteq Nat
    BY <2>1 DEF R!ToSet
  <2>3. PICK i \in T : \A j \in T : i <= j
    BY <2>2, FirstPosition
  <2>4. i \in DOMAIN list /\ IsFirst(i)
    BY <2>3
  <2> HIDE DEF IsFirst
  <2>5. (CHOOSE k \in DOMAIN list : IsFirst(k)) \in 1 .. n
    BY <2>4
  <2>6. R!Merged(ranks, list)[d] = (CHOOSE k \in DOMAIN list : IsFirst(k)) - 1
    BY <1>2, <2>1 DEF R!Merged, IsFirst
  <2> QED
    BY <2>1, <2>5, <2>6 DEF R!ToSet
<1> QED
  BY <1>1, <1>2


\* A larger share, and no smaller one, make a larger sum.
LEMMA SharesAdd ==
    ASSUME NEW n1 \in Nat, NEW n2 \in Nat, NEW m1 \in Nat, NEW m2 \in Nat,
           NEW d1 \in Nat \ {0}, NEW d2 \in Nat \ {0}, NEW e1 \in Nat \ {0}, NEW e2 \in Nat \ {0},
           n1 * e1 >= m1 * d1, n2 * e2 >= m2 * d2,
           n1 * e1 > m1 * d1 \/ n2 * e2 > m2 * d2
    PROVE  (n1 * d2 + n2 * d1) * (e1 * e2) > (m1 * e2 + m2 * e1) * (d1 * d2)
<1> DEFINE more1 == n1 * e1  less1 == m1 * d1  more2 == n2 * e2  less2 == m2 * d2
           with1 == d2 * e2  with2 == d1 * e1
<1>1. (n1 * d2 + n2 * d1) * (e1 * e2) = more1 * with1 + more2 * with2
  OBVIOUS
<1>2. (m1 * e2 + m2 * e1) * (d1 * d2) = less1 * with1 + less2 * with2
  OBVIOUS
<1>3. /\ more1 \in Nat /\ less1 \in Nat /\ more2 \in Nat /\ less2 \in Nat
      /\ with1 \in Nat \ {0} /\ with2 \in Nat \ {0}
  OBVIOUS
<1>4. more1 >= less1 /\ more2 >= less2 /\ (more1 > less1 \/ more2 > less2)
  OBVIOUS
<1> HIDE DEF more1, less1, more2, less2, with1, with2
<1>5. more1 * with1 >= less1 * with1 /\ more2 * with2 >= less2 * with2
  BY <1>3, <1>4
<1>6. more1 * with1 > less1 * with1 \/ more2 * with2 > less2 * with2
  BY <1>3, <1>4
<1>7. /\ more1 * with1 \in Nat /\ less1 * with1 \in Nat
      /\ more2 * with2 \in Nat /\ less2 * with2 \in Nat
  BY <1>3
<1> QED
  BY <1>1, <1>2, <1>5, <1>6, <1>7

\* A parent's share is a fraction.
LEMMA ShareTyped ==
    ASSUME NEW ranks, Ranks(ranks), NEW d
    PROVE  R!Share(ranks, d).over \in Nat /\ R!Share(ranks, d).under \in Nat \ {0}
BY ServicesAssumption DEF R!Share, Ranks

\* A search adds no less to what it ranks no lower, and more to what it ranks
\* higher.
LEMMA ShareOrder ==
    ASSUME NEW ranks, Ranks(ranks), NEW a, NEW b,
           a \in DOMAIN ranks => b \in DOMAIN ranks /\ ranks[b] <= ranks[a]
    PROVE  LET x == R!Share(ranks, b)
               y == R!Share(ranks, a)
           IN  /\ x.over * y.under >= y.over * x.under
               /\ b \in DOMAIN ranks /\ (a \in DOMAIN ranks => ranks[b] < ranks[a])
                    => x.over * y.under > y.over * x.under
<1>1. CASE a \in DOMAIN ranks
  BY <1>1, ServicesAssumption DEF R!Share, Ranks
<1>2. CASE a \notin DOMAIN ranks
  BY <1>2, ServicesAssumption DEF R!Share, Ranks
<1> QED
  BY <1>1, <1>2

\* What both searches ranked no lower, and one higher, has the larger sum.
LEMMA DominatesMore ==
    ASSUME Ranks(dense), Ranks(bm25), NEW a, NEW b, R!Dominates(b, a)
    PROVE  ~R!BestFirst(a, b)
<1> DEFINE b1 == R!Share(dense, b)  b2 == R!Share(bm25, b)
           a1 == R!Share(dense, a)  a2 == R!Share(bm25, a)
<1>1. /\ b1.over \in Nat /\ b1.under \in Nat \ {0} /\ b2.over \in Nat /\ b2.under \in Nat \ {0}
      /\ a1.over \in Nat /\ a1.under \in Nat \ {0} /\ a2.over \in Nat /\ a2.under \in Nat \ {0}
  BY ShareTyped
<1>2. /\ b1.over * a1.under >= a1.over * b1.under
      /\ b2.over * a2.under >= a2.over * b2.under
      /\ \/ b1.over * a1.under > a1.over * b1.under
         \/ b2.over * a2.under > a2.over * b2.under
  <2>1. /\ a \in DOMAIN dense => b \in DOMAIN dense /\ dense[b] <= dense[a]
        /\ a \in DOMAIN bm25 => b \in DOMAIN bm25 /\ bm25[b] <= bm25[a]
        /\ \/ b \in DOMAIN dense /\ (a \in DOMAIN dense => dense[b] < dense[a])
           \/ b \in DOMAIN bm25 /\ (a \in DOMAIN bm25 => bm25[b] < bm25[a])
    BY DEF R!Dominates
  <2> QED
    BY <2>1, ShareOrder
<1>3. R!BestFirst(a, b) <=>
        (a1.over * a2.under + a2.over * a1.under) * (b1.under * b2.under)
          >= (b1.over * b2.under + b2.over * b1.under) * (a1.under * a2.under)
  BY DEF R!BestFirst, R!AtLeast, R!Fused, R!Plus
<1> HIDE DEF b1, b2, a1, a2
<1>4. (b1.over * b2.under + b2.over * b1.under) * (a1.under * a2.under)
        > (a1.over * a2.under + a2.over * a1.under) * (b1.under * b2.under)
  BY <1>1, <1>2, SharesAdd
<1> QED
  BY <1>1, <1>3, <1>4

\* A sequence of a set's elements, each once, has them all.
LEMMA Enumerates ==
    ASSUME NEW T, IsFiniteSet(T), NEW s \in R!SetToSeqs(T)
    PROVE  s \in Seq(T) /\ R!ToSet(s) = T
<1> DEFINE n == Cardinality(T)
<1>1. n \in Nat /\ IsFiniteSet(1 .. n) /\ Cardinality(1 .. n) = n
  BY FS_CardinalityType, FS_Interval
<1>2. s \in [1 .. n -> T] /\ \A i, j \in 1 .. n : i # j => s[i] # s[j]
  BY DEF R!SetToSeqs, R!Cardinality, Cardinality
<1>3. s \in Injection(1 .. n, T)
  BY <1>2 DEF Injection, IsInjective
<1>4. s \in Surjection(1 .. n, T)
  BY <1>1, <1>3, FS_Injection
<1>5. R!ToSet(s) = T
  BY <1>2, <1>4 DEF Surjection, R!ToSet
<1> QED
  BY <1>1, <1>2, <1>5

\* The first of a sequence.
LEMMA FirstOf ==
    ASSUME NEW T, NEW s \in Seq(T), NEW n \in Nat
    PROVE  \E m \in 0 .. Len(s) :
               /\ R!ToSet(R!First(s, n)) = {s[i] : i \in 1 .. m}
               /\ R!ToSet(s) = {s[i] : i \in 1 .. Len(s)}
<1> DEFINE m == IF n < Len(s) THEN n ELSE Len(s)
<1>1. /\ m \in 0 .. Len(s) /\ DOMAIN s = 1 .. Len(s)
      /\ R!First(s, n) = [i \in 1 .. m |-> s[i]]
  BY DEF R!First
<1> HIDE DEF m
<1> QED
  BY <1>1 DEF R!ToSet

\* It is some of it.
LEMMA FirstAreThere ==
    ASSUME NEW T, NEW s \in Seq(T), NEW n \in Nat
    PROVE  R!ToSet(R!First(s, n)) \subseteq R!ToSet(s)
BY FirstOf

\* What it leaves out comes later.
LEMMA OthersLater ==
    ASSUME NEW T, NEW s \in Seq(T), NEW n \in Nat,
           NEW a \in R!ToSet(R!First(s, n)), NEW b \in R!ToSet(s) \ R!ToSet(R!First(s, n))
    PROVE  \E i, j \in DOMAIN s : i < j /\ s[i] = a /\ s[j] = b
<1>1. PICK m \in 0 .. Len(s) : /\ R!ToSet(R!First(s, n)) = {s[i] : i \in 1 .. m}
                               /\ R!ToSet(s) = {s[i] : i \in 1 .. Len(s)}
  BY FirstOf
<1>2. PICK i \in 1 .. m, j \in 1 .. Len(s) : s[i] = a /\ s[j] = b
  BY <1>1
<1>3. j \notin 1 .. m
  BY <1>1, <1>2
<1> QED
  BY <1>1, <1>2, <1>3

\* Nothing is found before the first search.
LEMMA RetrievalBegin == R!Init => RetrievalInv
BY DEF R!Init, RetrievalInv, Ranks, Ranked, Answered, LeftOutForBetter, R!LeftOutForBetter,
       R!ToSet

\* What was found is finite.
LEMMA FoundFinite ==
    ASSUME Ranks(dense), Ranks(bm25)
    PROVE  IsFiniteSet(R!Found) /\ R!Found \subseteq Docs
<1>1. R!Found \subseteq Docs
  BY DEF Ranks, R!Found
<1> QED
  BY <1>1, ServicesAssumption, FS_Subset

\* A search ranks what it finds.
LEMMA SearchKeeps ==
    ASSUME RetrievalInv, R!SearchDense \/ R!SearchBm25 \/ R!HydeRetrieve
    PROVE  RetrievalInv'
<1> USE DEF RetrievalInv
<1>1. at = "searching" /\ UNCHANGED <<at, ranked, texts, score, answer>>
  BY DEF R!SearchDense, R!SearchBm25, R!HydeRetrieve
<1>2. \A ranks : Ranks(ranks) =>
        \A n \in 0 .. TopK : \A list \in [1 .. n -> Docs] : Ranks(R!Merged(ranks, list))
  BY MergedRanks, ServicesAssumption
<1>3. Ranks(dense')
  BY <1>2 DEF R!SearchDense, R!SearchBm25, R!HydeRetrieve
<1>4. Ranks(bm25')
  BY <1>2 DEF R!SearchDense, R!SearchBm25, R!HydeRetrieve
<1>5. Ranked' /\ Answered'
  BY <1>1 DEF Ranked, Answered, LeftOutForBetter, R!LeftOutForBetter, R!ToSet
<1> QED
  BY <1>3, <1>4, <1>5 DEF Ranks

\* The fusion orders all that was found.
LEMMA FuseKeeps == ASSUME RetrievalInv, R!Fuse PROVE RetrievalInv'
<1> USE DEF RetrievalInv
<1>1. /\ at = "searching" /\ at' = "fused" /\ UNCHANGED <<dense, bm25, texts, score, answer>>
      /\ ranked' \in R!SetToSeqs(R!Found)
      /\ \A i, j \in DOMAIN ranked' : i < j => R!BestFirst(ranked'[i], ranked'[j])
  BY DEF R!Fuse
<1>2. ranked' \in Seq(R!Found) /\ R!ToSet(ranked') = R!Found
  BY <1>1, FoundFinite, Enumerates
<1>3. R!Found' = R!Found /\ ranked' \in Seq(Docs)
  BY <1>1, <1>2, FoundFinite DEF R!Found
<1>4. \A a, b : R!BestFirst(a, b)' <=> R!BestFirst(a, b)
  BY <1>1 DEF R!BestFirst, R!AtLeast, R!Fused, R!Plus, R!Share
<1>5. R!ToSet(ranked)' = R!ToSet(ranked')
  BY DEF R!ToSet
<1>6. Ranked'
  BY <1>1, <1>2, <1>3, <1>4, <1>5 DEF Ranked
<1>7. answer = <<>> /\ texts = <<>> /\ R!ToSet(answer)' = {}
  BY <1>1 DEF Answered, R!ToSet
<1>8. Answered'
  BY <1>1, <1>7 DEF Answered, LeftOutForBetter, R!LeftOutForBetter
<1> QED
  BY <1>1, <1>6, <1>8 DEF Ranks

\* Between a candidate that is kept and one that comes later, both searches
\* have not chosen the later one.
LEMMA FirstAreBest ==
    ASSUME RetrievalInv, at # "searching", NEW n \in Nat,
           NEW a \in R!ToSet(R!First(ranked, n)),
           NEW b \in R!Found \ R!ToSet(R!First(ranked, n))
    PROVE  ~R!Dominates(b, a)
<1> USE DEF RetrievalInv
<1>1. ranked \in Seq(Docs) /\ R!ToSet(ranked) = R!Found
  BY DEF Ranked
<1>2. PICK i, j \in DOMAIN ranked : i < j /\ ranked[i] = a /\ ranked[j] = b
  BY <1>1, OthersLater
<1>3. R!BestFirst(a, b)
  BY <1>2 DEF Ranked
<1> QED
  BY <1>3, DominatesMore

\* The candidates were found.
LEMMA CandidatesFound ==
    ASSUME RetrievalInv, at # "searching"
    PROVE  /\ R!ToSet(R!Candidates) \subseteq R!ToSet(ranked)
           /\ IsFiniteSet(R!ToSet(R!Candidates))
<1>1. R!ToSet(R!Candidates) \subseteq R!ToSet(ranked) /\ R!ToSet(ranked) = R!Found
  BY FirstAreThere, ServicesAssumption DEF RetrievalInv, Ranked, R!Candidates
<1> QED
  BY <1>1, FoundFinite, FS_Subset DEF RetrievalInv

\* What is fetched belongs to the candidates, each once.
LEMMA ReturnedAreCandidates ==
    ASSUME RetrievalInv, at # "searching", NEW s \in R!Returned(R!Candidates)
    PROVE  s \in Seq(R!ToSet(R!Candidates))
<1>1. PICK stored \in SUBSET R!ToSet(R!Candidates) : s \in R!SetToSeqs(stored)
  BY DEF R!Returned
<1>2. s \in Seq(stored)
  BY <1>1, CandidatesFound, FS_Subset, Enumerates
<1> QED
  BY <1>1, <1>2

\* The texts in a sequence of candidates are theirs.
LEMMA InSequence ==
    ASSUME NEW T, NEW s \in Seq(T) PROVE R!ToSet(s) \subseteq T
BY DEF R!ToSet

\* A step that chooses no more than texts leaves what the searches found.
LEMMA FoundStays ==
    ASSUME RetrievalInv, at # "searching", at' # "searching",
           UNCHANGED <<dense, bm25, ranked>>
    PROVE  /\ Ranks(dense)' /\ Ranks(bm25)' /\ Ranked' /\ R!Found' = R!Found
           /\ R!Candidates' = R!Candidates
           /\ R!ToSet(R!Candidates)' = R!ToSet(R!Candidates)
           /\ \A a, b : R!Dominates(b, a)' <=> R!Dominates(b, a)
<1> USE DEF RetrievalInv
<1>1. Ranks(dense)' /\ Ranks(bm25)' /\ R!Found' = R!Found
  BY DEF Ranks, R!Found
<1>2. Ranked'
  BY DEF Ranked, R!Found, R!ToSet, R!BestFirst, R!AtLeast, R!Fused, R!Plus, R!Share
<1>3. R!Candidates' = R!Candidates
  BY DEF R!Candidates, R!First
<1>4. R!ToSet(R!Candidates)' = R!ToSet(R!Candidates)
  BY <1>3 DEF R!ToSet
<1>5. \A a, b : R!Dominates(b, a)' <=> R!Dominates(b, a)
  BY DEF R!Dominates
<1> QED
  BY <1>1, <1>2, <1>3, <1>4, <1>5

\* The texts of the candidates are fetched.
LEMMA FetchKeeps == ASSUME RetrievalInv, R!Fetch PROVE RetrievalInv'
<1> USE DEF RetrievalInv
<1>1. /\ at = "fused" /\ at' = "fetched" /\ texts' \in R!Returned(R!Candidates)
      /\ UNCHANGED <<dense, bm25, ranked, score, answer>>
  BY DEF R!Fetch
<1>2. texts' \in Seq(R!ToSet(R!Candidates))
  BY <1>1, ReturnedAreCandidates
<1>3. /\ Ranks(dense)' /\ Ranks(bm25)' /\ Ranked'
      /\ R!ToSet(R!Candidates)' = R!ToSet(R!Candidates)
  BY <1>1, FoundStays
<1>4. answer = <<>> /\ R!ToSet(answer)' = {}
  BY <1>1 DEF Answered, R!ToSet
<1>5. Answered'
  BY <1>1, <1>2, <1>3, <1>4 DEF Answered, LeftOutForBetter, R!LeftOutForBetter
<1> QED
  BY <1>3, <1>5

\* An answer from texts of candidates leaves out only candidates for worse.
LEMMA AnswerKeeps ==
    ASSUME RetrievalInv, at \in {"fused", "fetched"}, at' \in {"answered", "fallback"},
           UNCHANGED <<dense, bm25, ranked>>, texts' \in Seq(R!ToSet(R!Candidates)),
           R!ToSet(answer') \subseteq R!ToSet(texts'),
           \A a \in R!ToSet(answer'), b \in R!ToSet(texts') \ R!ToSet(answer') :
               \/ at' = "fallback"
               \/ {a, b} \subseteq DOMAIN score' /\ score'[a] >= score'[b]
    PROVE  RetrievalInv'
<1> USE DEF RetrievalInv
<1> DEFINE C == R!ToSet(R!Candidates)
<1>1. at # "searching" /\ at' # "searching"
  OBVIOUS
<1>2. /\ Ranks(dense)' /\ Ranks(bm25)' /\ Ranked' /\ R!Found' = R!Found
      /\ R!ToSet(R!Candidates)' = C
      /\ \A a, b : R!Dominates(b, a)' <=> R!Dominates(b, a)
  BY <1>1, FoundStays
<1>3. R!ToSet(texts') \subseteq C
  BY InSequence
<1>4. R!ToSet(answer)' = R!ToSet(answer') /\ R!ToSet(texts)' = R!ToSet(texts')
  BY DEF R!ToSet
<1>5. ASSUME NEW a \in R!ToSet(answer'), NEW b \in R!Found \ R!ToSet(answer'),
             R!Dominates(b, a)
      PROVE  /\ {a, b} \subseteq C
             /\ \/ b \notin R!ToSet(texts')
                \/ {a, b} \subseteq DOMAIN score' /\ score'[a] >= score'[b]
                \/ at' = "fallback"
  <2>1. a \in C
    BY <1>3, <1>5
  <2>2. b \in C
    BY <1>1, <1>5, <2>1, FirstAreBest, ServicesAssumption DEF R!Candidates
  <2> QED
    BY <1>5, <2>1, <2>2
<1> HIDE DEF C
<1>6. LeftOutForBetter'
  BY <1>2, <1>4, <1>5 DEF LeftOutForBetter, R!LeftOutForBetter
<1>7. Answered'
  BY <1>2, <1>4, <1>6 DEF Answered, C
<1> QED
  BY <1>2, <1>7

\* Nothing was reranked: the answer is made from what was stored, or from the
\* first of it.
LEMMA PlainKeeps ==
    ASSUME RetrievalInv, R!RerankFails \/ R!NotReranked
    PROVE  RetrievalInv'
<1>1. CASE R!NotReranked
  <2>1. /\ at = "fused" /\ at' = "answered" /\ texts' \in R!Returned(R!Candidates)
        /\ answer' = texts' /\ UNCHANGED <<dense, bm25, ranked>>
    BY <1>1 DEF R!NotReranked
  <2>2. texts' \in Seq(R!ToSet(R!Candidates))
    BY <2>1, ReturnedAreCandidates
  <2> QED
    BY <2>1, <2>2, AnswerKeeps
<1>2. CASE R!RerankFails
  <2>1. /\ at = "fetched" /\ at' = "fallback" /\ texts' = texts
        /\ answer' = R!First(texts, Output) /\ UNCHANGED <<dense, bm25, ranked>>
    BY <1>2 DEF R!RerankFails
  <2>2. texts \in Seq(R!ToSet(R!Candidates))
    BY DEF RetrievalInv, Answered
  <2>3. R!ToSet(answer') \subseteq R!ToSet(texts')
    BY <2>1, <2>2, FirstAreThere, ServicesAssumption
  <2> QED
    BY <2>1, <2>2, <2>3, AnswerKeeps
<1> QED
  BY <1>1, <1>2

\* The answer is made from the texts the reranker scores highest.
LEMMA RerankKeeps == ASSUME RetrievalInv, R!Rerank PROVE RetrievalInv'
<1> DEFINE T == R!ToSet(texts)
<1>1. /\ at = "fetched" /\ at' = "answered" /\ texts' = texts
      /\ UNCHANGED <<dense, bm25, ranked>> /\ score' \in [T -> 1 .. 2]
  BY DEF R!Rerank
<1>2. PICK s \in R!SetToSeqs(T) :
        /\ \A i, j \in DOMAIN s : i < j => score'[s[i]] >= score'[s[j]]
        /\ answer' = R!First(s, Output)
  BY DEF R!Rerank
<1>3. texts \in Seq(R!ToSet(R!Candidates)) /\ T \subseteq R!ToSet(R!Candidates)
  BY InSequence DEF RetrievalInv, Answered
<1>4. IsFiniteSet(T)
  BY <1>1, <1>3, CandidatesFound, FS_Subset
<1>5. s \in Seq(T) /\ R!ToSet(s) = T
  BY <1>4, Enumerates
<1>6. R!ToSet(answer') \subseteq T
  BY <1>2, <1>5, FirstAreThere, ServicesAssumption
<1>7. ASSUME NEW a \in R!ToSet(answer'), NEW b \in T \ R!ToSet(answer')
      PROVE  {a, b} \subseteq DOMAIN score' /\ score'[a] >= score'[b]
  <2>1. PICK i, j \in DOMAIN s : i < j /\ s[i] = a /\ s[j] = b
    BY <1>2, <1>5, <1>7, OthersLater, ServicesAssumption
  <2> QED
    BY <1>1, <1>2, <1>6, <1>7, <2>1
<1> QED
  BY <1>1, <1>3, <1>6, <1>7, AnswerKeeps

\* Every step keeps the invariant.
LEMMA RetrievalStep == RetrievalInv /\ [R!Next]_(R!vars) => RetrievalInv'
<1> SUFFICES ASSUME RetrievalInv, [R!Next]_(R!vars) PROVE RetrievalInv'
  OBVIOUS
<1>1. CASE UNCHANGED R!vars
  <2> USE <1>1 DEF R!vars, RetrievalInv
  <2>1. Ranks(dense)' /\ Ranks(bm25)'
    BY DEF Ranks
  <2>2. Ranked'
    BY DEF Ranked, R!Found, R!ToSet, R!BestFirst, R!AtLeast, R!Fused, R!Plus, R!Share
  <2>3. /\ R!ToSet(R!Candidates)' = R!ToSet(R!Candidates) /\ R!Found' = R!Found
        /\ R!ToSet(texts)' = R!ToSet(texts) /\ R!ToSet(answer)' = R!ToSet(answer)
        /\ \A a, b : R!Dominates(b, a)' <=> R!Dominates(b, a)
    BY DEF R!ToSet, R!Found, R!Dominates, R!Candidates, R!First
  <2>4. LeftOutForBetter'
    BY <2>3 DEF Answered, LeftOutForBetter, R!LeftOutForBetter
  <2>5. Answered'
    BY <2>3, <2>4 DEF Answered
  <2> QED
    BY <2>1, <2>2, <2>5
<1> QED
  BY <1>1, SearchKeeps, FuseKeeps, FetchKeeps, PlainKeeps, RerankKeeps DEF R!Next

\* An answer is made from texts of the candidates the fusion puts first, as they
\* come from storage, for any parents found in any order by any number of queries.
THEOREM RetrievalInvariant == MCSpec => []RetrievalInv
BY PartsRun, RetrievalBegin, RetrievalStep, PTL DEF R!Spec

\* What both searches ranked higher is left out only among candidates: because it
\* is not stored, by the reranker's scores, or when the reranker fails.
THEOREM BestAnswer == MCSpec => []LeftOutForBetter
<1>1. RetrievalInv => LeftOutForBetter
  BY DEF RetrievalInv, Answered
<1> QED
  BY <1>1, RetrievalInvariant, PTL

------------------------------------------------------------------------------
\* Every part keeps the types of its variables, the numbers of rows, links,
\* indexes and holders of a lock among them.
THEOREM TypesKept == MCSpec => []ServicesTypeOK
<1>1. ObjectsInv => O!SingletonTypeOK
  <2> SUFFICES ASSUME ObjectsInv PROVE O!SingletonTypeOK
    OBVIOUS
  <2> USE DEF ObjectsInv
  <2>1. /\ slot \cup cm \subseteq DOMAIN object
        /\ \A o \in DOMAIN object : object[o] \in ObjectStates
        /\ closer \in {"none", "closing", "closed"}
    BY DEF ObjectsTyped
  <2>2. holder \subseteq Tasks \cup {"closer"} /\ (holder = {} \/ \E x : holder = {x})
    BY DEF LockHeld
  <2>3. Cardinality(holder) = 0 \/ Cardinality(holder) = 1
    BY <2>2, FS_EmptySet, FS_Singleton, Zenon
  <2> QED
    BY <2>1, <2>2, <2>3 DEF O!SingletonTypeOK, ObjectStates, O!Cardinality, Cardinality
<1>2. WindowInv => W!WindowTypeOK
  BY DEF WindowInv, WindowTyped, W!WindowTypeOK
<1>3. RetrievalInv => R!RetrievalTypeOK
  <2> SUFFICES ASSUME RetrievalInv PROVE R!RetrievalTypeOK
    OBVIOUS
  <2>1. R!ToSet(texts) \subseteq R!ToSet(R!Candidates)
    BY InSequence DEF RetrievalInv, Answered
  <2>2. R!ToSet(texts) \subseteq R!ToSet(ranked)
    <3>1. CASE at = "searching"
      BY <3>1 DEF RetrievalInv, Answered, R!ToSet
    <3> QED
      BY <2>1, <3>1, CandidatesFound
  <2> QED
    BY <2>2 DEF RetrievalInv, Ranks, Answered, R!RetrievalTypeOK
<1> QED
  BY <1>1, <1>2, <1>3, PartsRun, A!TypesKept, B!TypesKept, S!TypesKept, F!FilesTypeCorrect,
     ObjectsInvariant, WindowInvariant, RetrievalInvariant, PTL DEF ServicesTypeOK
=============================================================================
