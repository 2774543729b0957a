--------------------------- MODULE AccountsProofs ---------------------------
(***************************************************************************)
(* Theorems about Accounts, for any users, custom roles, changes and       *)
(* faults.                                                                 *)
(***************************************************************************)
EXTENDS Accounts, TLAPS

States == {"idle", "missed", "fetched", "allowed", "inserting", "creating", "clearing"}

Requests == [at : States, of : Roles, perms : SUBSET Perms,
             todo : SUBSET Perms, keys : SUBSET Roles]

Causes == {"raced", "created", "aborted", "swallowed", "restart"}

\* The types of the variables, in groups that change together.
RowsTyped ==
    /\ roles \subseteq Roles /\ BuiltIn \subseteq roles
    /\ grants \in [Roles -> SUBSET Perms]

CacheTyped ==
    /\ cache \in [Roles -> SUBSET SUBSET Perms]
    /\ causes \in [Roles -> SUBSET Causes]

UsersTyped ==
    /\ Accounts \subseteq Users
    /\ role \in [Accounts -> roles]
    /\ token \in [Accounts -> roles]

Typed == RowsTyped /\ CacheTyped /\ UsersTyped /\ request \in [Users -> Requests]

\* A request is somebody's who has an account, and has entries to clear only
\* where its handler will: that of the role whose rows it replaces.
Handled ==
    \A u \in Users :
        /\ request[u].at # "idle" => u \in Accounts
        /\ request[u].keys # {} => request[u].at \in {"inserting", "clearing"}
        /\ request[u].at = "inserting" => request[u].of \in request[u].keys

AccountsInv == Typed /\ Handled /\ StaleEntryIsExplained

------------------------------------------------------------------------------
\* The seeded permissions are permissions, and the built-in roles are roles.
LEMMA SeedTyped ==
    /\ Seed \in [Roles -> SUBSET Perms]
    /\ BuiltIn \subseteq Roles
    /\ Idle \in Requests
BY DEF Seed, Perms, Roles, BuiltIn, Idle, Requests, States

\* The invariant holds initially: nothing is cached and nobody asks.
LEMMA InvInit == Init => AccountsInv
<1> SUFFICES ASSUME Init PROVE AccountsInv
  OBVIOUS
<1>1. PICK u \in Users : role = [v \in {u} |-> "admin"]
  BY DEF Init
<1>2. Typed
  BY <1>1, SeedTyped
     DEF Init, Typed, RowsTyped, CacheTyped, UsersTyped, Accounts, BuiltIn
<1>3. Handled
  BY DEF Init, Handled, Idle
<1>4. StaleEntryIsExplained
  BY DEF Init, StaleEntryIsExplained
<1> QED
  BY <1>2, <1>3, <1>4 DEF AccountsInv

\* Roles and tokens stay well typed where no row of roles or users goes.
LEMMA UsersKept ==
    ASSUME UsersTyped, roles \subseteq roles', UNCHANGED <<role, token>>
    PROVE  UsersTyped'
<1>1. Accounts' = Accounts
  BY DEF Accounts
<1> QED
  BY <1>1 DEF UsersTyped

\* Registering, logging in and the check of a permission keep the types.
LEMMA CheckTyped ==
    ASSUME Typed, NEW u \in Users,
           Register(u) \/ Login(u) \/ Ask(u) \/ Fetch(u) \/ Refill(u)
    PROVE  Typed'
<1> USE SeedTyped DEF Typed, RowsTyped, CacheTyped
<1>1. CASE Register(u)
  <2>1. Accounts' = Accounts \cup {u}
    BY <1>1 DEF Register, Accounts
  <2>2. "user" \in roles
    BY DEF BuiltIn
  <2>3. UsersTyped'
    BY <1>1, <2>1, <2>2 DEF Register, UsersTyped
  <2> QED
    BY <1>1, <2>3 DEF Register
<1>2. CASE Login(u)
  <2>1. Accounts' = Accounts
    BY <1>2 DEF Login, Accounts
  <2>2. UsersTyped'
    BY <1>2, <2>1 DEF Login, UsersTyped
  <2> QED
    BY <1>2, <2>2 DEF Login
<1>3. CASE Ask(u)
  <2>1. UsersTyped'
    BY <1>3, UsersKept DEF Ask
  <2>2. token[u] \in Roles
    BY <1>3 DEF Ask, UsersTyped
  <2>3. UNION cache[token[u]] \in SUBSET Perms
    BY <2>2
  <2>4. request' \in [Users -> Requests]
    BY <1>3, <2>2, <2>3 DEF Ask, Idle, Requests, States
  <2> QED
    BY <1>3, <2>1, <2>4 DEF Ask
<1>4. CASE Fetch(u)
  <2>1. UsersTyped'
    BY <1>4, UsersKept DEF Fetch
  <2>0. request[u] \in Requests /\ grants[request[u].of] \in SUBSET Perms
    BY DEF Requests
  <2>2. [request[u] EXCEPT !.at = "fetched", !.perms = grants[request[u].of]] \in Requests
    BY <2>0 DEF Requests, States
  <2>3. request' = [request EXCEPT ![u] =
                      [request[u] EXCEPT !.at = "fetched", !.perms = grants[request[u].of]]]
    BY <1>4 DEF Fetch
  <2> QED
    BY <1>4, <2>1, <2>2, <2>3 DEF Fetch
<1>5. CASE Refill(u)
  <2>1. UsersTyped'
    BY <1>5, UsersKept DEF Refill
  <2>2. request[u].of \in Roles /\ request[u].perms \in SUBSET Perms
    BY DEF Requests
  <2>3. cache' \in [Roles -> SUBSET SUBSET Perms]
    BY <1>5, <2>2 DEF Refill, Entry
  <2>4. causes' \in [Roles -> SUBSET Causes]
    <3>1. PICK c \in SUBSET Causes : causes' = [causes EXCEPT ![request[u].of] = c]
      BY <1>5 DEF Refill, Causes
    <3> QED
      BY <3>1
  <2>5. [request[u] EXCEPT !.at = "allowed"] \in Requests
    BY DEF Requests, States
  <2>6. request' = [request EXCEPT ![u] = [request[u] EXCEPT !.at = "allowed"]]
    BY <1>5 DEF Refill
  <2> QED
    BY <1>5, <2>1, <2>3, <2>4, <2>5, <2>6 DEF Refill
<1> QED
  BY <1>1, <1>2, <1>3, <1>4, <1>5

\* So do the handlers.
LEMMA ChangeTyped ==
    ASSUME Typed, NEW u \in Users,
           \/ \E v \in Users, r \in Roles : UpdateUserRole(u, v, r)
           \/ \E r \in Roles, wanted \in SUBSET Perms :
                 UpdateRolePermissions(u, r, wanted) \/ CreateRole(u, r, wanted)
    PROVE  Typed'
<1> USE SeedTyped DEF Typed, RowsTyped, CacheTyped, Manages
<1>1. ASSUME NEW v \in Users, NEW r \in Roles, UpdateUserRole(u, v, r) PROVE Typed'
  <2>1. Accounts' = Accounts
    BY <1>1 DEF UpdateUserRole, Accounts, UsersTyped
  <2>2. UsersTyped'
    BY <1>1, <2>1 DEF UpdateUserRole, UsersTyped
  <2> QED
    BY <1>1, <2>2 DEF UpdateUserRole, Idle, Requests, States
<1>2. ASSUME NEW r \in Roles, NEW wanted \in SUBSET Perms, UpdateRolePermissions(u, r, wanted)
      PROVE  Typed'
  <2>1. UsersTyped'
    BY <1>2, UsersKept DEF UpdateRolePermissions
  <2> QED
    BY <1>2, <2>1 DEF UpdateRolePermissions, Replaced, Idle, Requests, States
<1>3. ASSUME NEW r \in Roles, NEW wanted \in SUBSET Perms, CreateRole(u, r, wanted)
      PROVE  Typed'
  <2>1. UsersTyped'
    BY <1>3, UsersKept DEF CreateRole
  <2> QED
    BY <1>3, <2>1, ZenonT(60) DEF CreateRole, Idle, Requests, States
<1> QED
  BY <1>1, <1>2, <1>3

\* A cause is one of those named here.
LEMMA BlameTyped ==
    ASSUME causes \in [Roles -> SUBSET Causes], NEW rs, NEW why \in Causes, Blame(rs, why)
    PROVE  causes' \in [Roles -> SUBSET Causes]
BY DEF Blame

\* And what follows a handler's first statement, or cuts it short.
LEMMA RestTyped ==
    ASSUME Typed, NEW u \in Users,
           \/ Inserted(u) \/ Answer(u) \/ Fail(u)
           \/ \E p \in Perms : Insert(u, p)
           \/ \E r \in Roles : Clear(u, r)
    PROVE  Typed'
<1> USE SeedTyped DEF Typed, RowsTyped, CacheTyped
<1>0. UsersTyped'
  BY UsersKept DEF Inserted, Answer, Fail, Insert, Clear
<1>1. CASE Inserted(u)
  BY <1>0, <1>1 DEF Inserted, Requests, States
<1>2. CASE Answer(u)
  BY <1>0, <1>2 DEF Answer
<1>3. CASE Fail(u)
  <2>1. causes' \in [Roles -> SUBSET Causes]
    <3> DEFINE why == IF request[u].at = "clearing" THEN "swallowed" ELSE "aborted"
    <3>1. why \in Causes
      BY DEF Causes
    <3>2. Blame(Clears(u), why)
      BY <1>3 DEF Fail
    <3> HIDE DEF why
    <3> QED
      BY <3>1, <3>2, BlameTyped
  <2> QED
    BY <1>0, <1>3, <2>1 DEF Fail
<1>5. ASSUME NEW p \in Perms, Insert(u, p) PROVE Typed'
  <2>1. request[u].of \in Roles
    BY DEF Requests
  <2>2. grants' \in [Roles -> SUBSET Perms]
    BY <1>5, <2>1 DEF Insert
  <2>3. request' \in [Users -> Requests]
    <3>1. [request[u] EXCEPT !.todo = request[u].todo \ {p}] \in Requests
      BY DEF Requests
    <3>2. \/ request' = [request EXCEPT ![u] = Idle]
          \/ request' = [request EXCEPT ![u] =
                            [request[u] EXCEPT !.todo = request[u].todo \ {p}]]
      <4> DEFINE clash == request[u].at = "inserting" /\ p \in grants[request[u].of]
      <4>1. CASE clash
        BY <1>5, <4>1 DEF Insert
      <4>2. CASE ~clash
        BY <1>5, <4>2 DEF Insert
      <4> QED
        BY <4>1, <4>2
    <3> QED
      BY <3>1, <3>2
  <2>4. causes' \in [Roles -> SUBSET Causes]
    <3>1. \/ Blame({request[u].of}, "aborted")
          \/ Blame({request[u].of}, "created")
          \/ UNCHANGED causes
      BY <1>5 DEF Insert
    <3>2. "aborted" \in Causes /\ "created" \in Causes
      BY DEF Causes
    <3>3. CASE Blame({request[u].of}, "aborted")
      BY <3>2, <3>3, BlameTyped
    <3>4. CASE Blame({request[u].of}, "created")
      BY <3>2, <3>4, BlameTyped
    <3> QED
      BY <3>1, <3>3, <3>4
  <2> QED
    BY <1>0, <1>5, <2>2, <2>3, <2>4 DEF Insert
<1>6. ASSUME NEW r \in Roles, Clear(u, r) PROVE Typed'
  BY <1>0, <1>6, SMTT(60) DEF Clear, Entry, Requests
<1> QED
  BY <1>1, <1>2, <1>3, <1>5, <1>6

\* An entry expires, or the process starts again.
LEMMA EnvironmentTyped ==
    ASSUME Typed, Restart \/ \E r \in Roles : Expire(r)
    PROVE  Typed'
<1> USE SeedTyped DEF Typed, RowsTyped, CacheTyped
<1>0. UsersTyped'
  BY UsersKept DEF Restart, Expire
<1>1. CASE Restart
  <2>1. grants' \in [Roles -> SUBSET Perms]
    BY <1>1 DEF Restart, Seeded
  <2>2. causes' \in [Roles -> SUBSET Causes]
    BY <1>1 DEF Restart, Causes
  <2>3. request' \in [Users -> Requests]
    BY <1>1 DEF Restart
  <2> QED
    BY <1>0, <1>1, <2>1, <2>2, <2>3 DEF Restart
<1>2. ASSUME NEW r \in Roles, Expire(r) PROVE Typed'
  BY <1>0, <1>2 DEF Expire, Entry
<1> QED
  BY <1>1, <1>2
------------------------------------------------------------------------------
\* What Handled says of one request.
Proper(q, accounts) ==
    /\ q.at # "idle" => accounts
    /\ q.keys # {} => q.at \in {"inserting", "clearing"}
    /\ q.at = "inserting" => q.of \in q.keys

\* Handled stays when one request becomes another that is proper.
LEMMA HandledOne ==
    ASSUME Handled, request \in [Users -> Requests], NEW u \in Users, NEW q,
           request' = [request EXCEPT ![u] = q],
           Accounts \subseteq Accounts', Proper(q, u \in Accounts')
    PROVE  Handled'
<1> SUFFICES ASSUME NEW w \in Users PROVE Proper(request'[w], w \in Accounts')
  BY DEF Handled, Proper
<1>1. CASE w = u
  BY <1>1
<1>2. CASE w # u
  BY <1>2 DEF Handled, Proper
<1> QED
  BY <1>1, <1>2

\* Each step of a user leaves every request in the hands of its handler.
LEMMA HandledKept ==
    ASSUME Typed, Handled, NEW u \in Users,
           \/ Register(u) \/ Login(u) \/ Ask(u) \/ RequestStep(u) \/ Fail(u)
           \/ \E v \in Users, r \in Roles : UpdateUserRole(u, v, r)
           \/ \E r \in Roles, wanted \in SUBSET Perms :
                 UpdateRolePermissions(u, r, wanted) \/ CreateRole(u, r, wanted)
    PROVE  Handled'
<1> USE DEF Typed, UsersTyped
<1>0. Proper(Idle, u \in Accounts')
  BY DEF Proper, Idle
<1>1. CASE Register(u)
  <2>1. Accounts \subseteq Accounts'
    BY <1>1 DEF Register, Accounts
  <2> QED
    BY <1>1, <2>1 DEF Register, Handled
<1>2. CASE Login(u)
  BY <1>2 DEF Login, Handled, Accounts
<1>3. CASE Ask(u)
  <2> DEFINE q == IF token[u] = "admin" THEN [Idle EXCEPT !.at = "allowed", !.perms = Perms]
                  ELSE IF cache[token[u]] = {}
                       THEN [Idle EXCEPT !.at = "missed", !.of = token[u]]
                       ELSE [Idle EXCEPT !.at = "allowed", !.perms = UNION cache[token[u]]]
  <2>1. request' = [request EXCEPT ![u] = q] /\ Accounts' = Accounts
    BY <1>3 DEF Ask, Accounts
  <2>2. Proper(q, u \in Accounts')
    BY <1>3, <2>1 DEF Ask, Proper, Idle
  <2> HIDE DEF q
  <2> QED
    BY <2>1, <2>2, HandledOne
<1>4. CASE Fetch(u)
  <2> DEFINE q == [request[u] EXCEPT !.at = "fetched", !.perms = grants[request[u].of]]
  <2>1. request' = [request EXCEPT ![u] = q] /\ Accounts' = Accounts
    BY <1>4 DEF Fetch, Accounts
  <2>2. Proper(q, u \in Accounts')
    BY <1>4, <2>1 DEF Fetch, Proper, Handled, Requests
  <2> HIDE DEF q
  <2> QED
    BY <2>1, <2>2, HandledOne
<1>5. CASE Refill(u)
  <2> DEFINE q == [request[u] EXCEPT !.at = "allowed"]
  <2>1. request' = [request EXCEPT ![u] = q] /\ Accounts' = Accounts
    BY <1>5 DEF Refill, Accounts
  <2>2. Proper(q, u \in Accounts')
    BY <1>5, <2>1 DEF Refill, Proper, Handled, Requests
  <2> HIDE DEF q
  <2> QED
    BY <2>1, <2>2, HandledOne
<1>6. CASE Inserted(u)
  <2> DEFINE q == IF request[u].at = "creating" THEN Idle
                  ELSE [request[u] EXCEPT !.at = "clearing"]
  <2>1. request' = [request EXCEPT ![u] = q] /\ Accounts' = Accounts
    BY <1>6 DEF Inserted, Accounts
  <2>2. Proper(q, u \in Accounts')
    BY <1>6, <2>1, <1>0 DEF Inserted, Proper, Handled, Requests
  <2> HIDE DEF q
  <2> QED
    BY <2>1, <2>2, HandledOne
<1>7. CASE Answer(u) \/ Fail(u)
  <2>1. request' = [request EXCEPT ![u] = Idle] /\ Accounts' = Accounts
    BY <1>7 DEF Answer, Fail, Accounts
  <2> QED
    BY <2>1, <1>0, HandledOne
<1>8. ASSUME NEW p \in Perms, Insert(u, p) PROVE Handled'
  <2> DEFINE q == IF request[u].at = "inserting" /\ p \in grants[request[u].of] THEN Idle
                  ELSE [request[u] EXCEPT !.todo = request[u].todo \ {p}]
  <2>1. request' = [request EXCEPT ![u] = q] /\ Accounts' = Accounts
    BY <1>8 DEF Insert, Accounts
  <2>2. Proper(q, u \in Accounts')
    BY <1>8, <2>1, <1>0 DEF Insert, Proper, Handled, Requests
  <2> HIDE DEF q
  <2> QED
    BY <2>1, <2>2, HandledOne
<1>9. ASSUME NEW r \in Roles, Clear(u, r) PROVE Handled'
  <2> DEFINE q == [request[u] EXCEPT !.keys = request[u].keys \ {r}]
  <2>1. request' = [request EXCEPT ![u] = q] /\ Accounts' = Accounts
    BY <1>9 DEF Clear, Accounts
  <2>2. Proper(q, u \in Accounts')
    BY <1>9, <2>1 DEF Clear, Proper, Handled, Requests
  <2> HIDE DEF q
  <2> QED
    BY <2>1, <2>2, HandledOne
<1>10. ASSUME NEW v \in Users, NEW r \in Roles, UpdateUserRole(u, v, r) PROVE Handled'
  <2> DEFINE q == [Idle EXCEPT !.at = "clearing", !.keys = {x \in Roles : cache[x] # {}}]
  <2>1. request' = [request EXCEPT ![u] = q] /\ Accounts' = Accounts
    BY <1>10 DEF UpdateUserRole, Accounts
  <2>2. Proper(q, u \in Accounts')
    BY <1>10, <2>1 DEF UpdateUserRole, Manages, Proper, Handled, Idle
  <2> HIDE DEF q
  <2> QED
    BY <2>1, <2>2, HandledOne
<1>11. ASSUME NEW r \in Roles, NEW wanted \in SUBSET Perms,
              UpdateRolePermissions(u, r, wanted)
       PROVE  Handled'
  <2>1. request' = [request EXCEPT ![u] = Replaced(r, wanted)] /\ Accounts' = Accounts
    BY <1>11 DEF UpdateRolePermissions, Accounts
  <2>2. Proper(Replaced(r, wanted), u \in Accounts')
    BY <1>11, <2>1 DEF UpdateRolePermissions, Replaced, Manages, Proper, Handled, Idle
  <2> QED
    BY <2>1, <2>2, HandledOne
<1>12. ASSUME NEW r \in Roles, NEW wanted \in SUBSET Perms, CreateRole(u, r, wanted)
       PROVE  Handled'
  <2> DEFINE q == [Idle EXCEPT !.at = "creating", !.of = r, !.todo = wanted]
  <2>1. request' = [request EXCEPT ![u] = q] /\ Accounts' = Accounts
    BY <1>12 DEF CreateRole, Accounts
  <2>2. Proper(q, u \in Accounts')
    BY <1>12, <2>1 DEF CreateRole, Manages, Proper, Handled, Idle
  <2> HIDE DEF q
  <2> QED
    BY <2>1, <2>2, HandledOne
<1> QED
  BY <1>1, <1>2, <1>3, <1>4, <1>5, <1>6, <1>7, <1>8, <1>9, <1>10, <1>11, <1>12
     DEF RequestStep

------------------------------------------------------------------------------
\* An entry is current, about to be cleared, or out of date for a reason.
Explained(r) ==
    cache[r] \in {{}, {grants[r]}} \/ Changing(r) # {} \/ causes[r] # {}

\* A role nothing happens to keeps its explanation.
LEMMA ExplainedKept ==
    ASSUME NEW r \in Roles, Explained(r),
           cache'[r] = cache[r], grants'[r] = grants[r], causes'[r] = causes[r],
           \A w \in Users : w \in Changing(r) => w \in Changing(r)'
    PROVE  Explained(r)'
<1>1. Changing(r) # {} => Changing(r)' # {}
  BY DEF Changing
<1> QED
  BY <1>1 DEF Explained

\* Requests other than u's clear what they cleared.
LEMMA OthersClear ==
    ASSUME request \in [Users -> Requests], NEW u \in Users, NEW q,
           request' = [request EXCEPT ![u] = q],
           NEW r \in Roles, NEW w \in Users, w # u
    PROVE  w \in Changing(r) => w \in Changing(r)'
BY DEF Changing, Clears

\* A request that had nothing to clear takes no explanation away, whatever
\* becomes of it.
LEMMA NothingToClear ==
    ASSUME request \in [Users -> Requests], NEW u \in Users, NEW q,
           request' = [request EXCEPT ![u] = q], request[u].keys = {},
           NEW r \in Roles, NEW w \in Users
    PROVE  w \in Changing(r) => w \in Changing(r)'
<1>1. CASE w = u
  BY <1>1 DEF Changing, Clears
<1>2. CASE w # u
  BY <1>2, OthersClear
<1> QED
  BY <1>1, <1>2
\* Steps that touch neither an entry nor a row.
LEMMA ExplainedByRequests ==
    ASSUME Typed, Handled, StaleEntryIsExplained, NEW u \in Users,
           \/ Register(u) \/ Login(u) \/ Ask(u) \/ Fetch(u) \/ Inserted(u) \/ Answer(u)
           \/ \E v \in Users, r \in Roles : UpdateUserRole(u, v, r)
           \/ \E r \in Roles, wanted \in SUBSET Perms : CreateRole(u, r, wanted)
    PROVE  StaleEntryIsExplained'
<1> USE DEF Typed
<1> SUFFICES ASSUME NEW x \in Roles PROVE Explained(x)'
  BY DEF StaleEntryIsExplained, Explained
<1>1. Explained(x)
  BY DEF StaleEntryIsExplained, Explained
<1>2. UNCHANGED <<cache, grants, causes>>
  BY DEF Register, Login, Ask, Fetch, Inserted, Answer, UpdateUserRole, CreateRole
<1>3. \A w \in Users : w \in Changing(x) => w \in Changing(x)'
  <2>1. CASE Register(u) \/ Login(u)
    BY <2>1 DEF Register, Login, Changing, Clears
  <2>2. CASE Ask(u)
    <3>1. request[u].keys = {}
      BY <2>2 DEF Ask, Handled
    <3>2. PICK q : request' = [request EXCEPT ![u] = q]
      BY <2>2 DEF Ask
    <3> QED
      BY <3>1, <3>2, NothingToClear
  <2>3. CASE Fetch(u)
    <3>1. request[u].keys = {}
      BY <2>3 DEF Fetch, Handled
    <3>2. PICK q : request' = [request EXCEPT ![u] = q]
      BY <2>3 DEF Fetch
    <3> QED
      BY <3>1, <3>2, NothingToClear
  <2>4. CASE Inserted(u) /\ request[u].at = "creating"
    <3>1. request[u].keys = {}
      BY <2>4 DEF Handled
    <3>2. request' = [request EXCEPT ![u] = Idle]
      BY <2>4 DEF Inserted
    <3> QED
      BY <3>1, <3>2, NothingToClear
  <2>5. CASE Inserted(u) /\ request[u].at # "creating"
    <3>1. request' = [request EXCEPT ![u] = [request[u] EXCEPT !.at = "clearing"]]
      BY <2>5 DEF Inserted
    <3>2. request[u] \in Requests
      OBVIOUS
    <3> QED
      BY <3>1, <3>2 DEF Changing, Clears, Requests
  <2>6. CASE Answer(u)
    <3>1. request[u].keys = {}
      BY <2>6 DEF Answer, Handled
    <3>2. request' = [request EXCEPT ![u] = Idle]
      BY <2>6 DEF Answer
    <3> QED
      BY <3>1, <3>2, NothingToClear
  <2>7. ASSUME NEW v \in Users, NEW r \in Roles, UpdateUserRole(u, v, r)
        PROVE  \A w \in Users : w \in Changing(x) => w \in Changing(x)'
    <3>1. request[u].keys = {}
      BY <2>7 DEF UpdateUserRole, Manages, Handled
    <3>2. PICK q : request' = [request EXCEPT ![u] = q]
      BY <2>7 DEF UpdateUserRole
    <3> QED
      BY <3>1, <3>2, NothingToClear
  <2>8. ASSUME NEW r \in Roles, NEW wanted \in SUBSET Perms, CreateRole(u, r, wanted)
        PROVE  \A w \in Users : w \in Changing(x) => w \in Changing(x)'
    <3>1. request[u].keys = {}
      BY <2>8 DEF CreateRole, Manages, Handled
    <3>2. PICK q : request' = [request EXCEPT ![u] = q]
      BY <2>8 DEF CreateRole
    <3> QED
      BY <3>1, <3>2, NothingToClear
  <2> QED
    BY <2>1, <2>2, <2>3, <2>4, <2>5, <2>6, <2>7, <2>8
<1> QED
  BY <1>1, <1>2, <1>3, ExplainedKept

\* A reader stores the rows as they are, or is the reason.
LEMMA ExplainedByRefill ==
    ASSUME Typed, Handled, StaleEntryIsExplained, NEW u \in Users, Refill(u)
    PROVE  StaleEntryIsExplained'
<1> USE DEF Typed
<1> SUFFICES ASSUME NEW x \in Roles PROVE Explained(x)'
  BY DEF StaleEntryIsExplained, Explained
<1> DEFINE r == request[u].of
<1>0. r \in Roles /\ cache \in [Roles -> SUBSET SUBSET Perms]
      /\ causes \in [Roles -> SUBSET Causes]
  BY DEF Requests, CacheTyped
<1>1. CASE x = r
  <2>1. cache'[r] = {request[u].perms} /\ grants' = grants
    BY <1>0 DEF Refill, Entry
  <2>2. CASE request[u].perms = grants[r]
    BY <1>1, <2>1, <2>2 DEF Explained
  <2>3. CASE request[u].perms # grants[r]
    <3>1. causes'[r] = {"raced"}
      BY <1>0, <2>3 DEF Refill
    <3> QED
      BY <1>1, <3>1 DEF Explained
  <2> QED
    BY <2>2, <2>3
<1>2. CASE x # r
  <2>1. Explained(x)
    BY DEF StaleEntryIsExplained, Explained
  <2>2. cache'[x] = cache[x] /\ grants'[x] = grants[x] /\ causes'[x] = causes[x]
    BY <1>0, <1>2 DEF Refill, Entry
  <2>3. request[u].keys = {}
    BY DEF Refill, Handled
  <2>4. PICK q : request' = [request EXCEPT ![u] = q]
    BY DEF Refill
  <2>5. \A w \in Users : w \in Changing(x) => w \in Changing(x)'
    BY <2>3, <2>4, NothingToClear
  <2> QED
    BY <2>1, <2>2, <2>5, ExplainedKept
<1> QED
  BY <1>1, <1>2

\* Who deletes a role's rows has its entry to clear.
LEMMA ExplainedByReplacing ==
    ASSUME Typed, Handled, StaleEntryIsExplained, NEW u \in Users,
           NEW r \in Roles, NEW wanted \in SUBSET Perms,
           UpdateRolePermissions(u, r, wanted)
    PROVE  StaleEntryIsExplained'
<1> USE DEF Typed
<1> SUFFICES ASSUME NEW x \in Roles PROVE Explained(x)'
  BY DEF StaleEntryIsExplained, Explained
<1>0. request' = [request EXCEPT ![u] = Replaced(r, wanted)]
  BY DEF UpdateRolePermissions
<1>1. CASE x = r
  <2>1. request'[u] = Replaced(r, wanted)
    BY <1>0
  <2>2. Replaced(r, wanted).of = r /\ Replaced(r, wanted).keys = {r}
    BY DEF Replaced, Idle
  <2>3. u \in Changing(r)'
    BY <2>1, <2>2 DEF Changing, Clears
  <2> QED
    BY <1>1, <2>3 DEF Explained
<1>2. CASE x # r
  <2>1. Explained(x)
    BY DEF StaleEntryIsExplained, Explained
  <2>2. cache'[x] = cache[x] /\ grants'[x] = grants[x] /\ causes'[x] = causes[x]
    BY <1>2 DEF UpdateRolePermissions, RowsTyped
  <2>3. request[u].keys = {}
    BY DEF UpdateRolePermissions, Manages, Handled
  <2>4. \A w \in Users : w \in Changing(x) => w \in Changing(x)'
    BY <1>0, <2>3, NothingToClear
  <2> QED
    BY <2>1, <2>2, <2>4, ExplainedKept
<1> QED
  BY <1>1, <1>2

\* What Blame says of one role.
LEMMA Blamed ==
    ASSUME NEW rs, NEW why, Blame(rs, why), NEW x \in Roles,
           cache' = cache
    PROVE  /\ x \in rs => cache'[x] = {} \/ causes'[x] # {}
           /\ x \notin rs => causes'[x] = causes[x]
BY DEF Blame

\* An INSERT is a step towards the clearing of the entry, or is the reason.
LEMMA ExplainedByInsert ==
    ASSUME Typed, Handled, StaleEntryIsExplained, NEW u \in Users,
           NEW p \in Perms, Insert(u, p)
    PROVE  StaleEntryIsExplained'
<1> USE DEF Typed
<1> SUFFICES ASSUME NEW x \in Roles PROVE Explained(x)'
  BY DEF StaleEntryIsExplained, Explained
<1> DEFINE r == request[u].of
           clash == request[u].at = "inserting" /\ p \in grants[r]
<1>0. r \in Roles /\ request[u] \in Requests
  BY DEF Requests
<1>1. cache' = cache
  BY DEF Insert
<1>2. PICK q : request' = [request EXCEPT ![u] = q]
  BY DEF Insert
<1>3. \/ Blame({r}, "aborted") \/ Blame({r}, "created")
      \/ /\ request[u].at = "inserting" /\ ~clash
         /\ UNCHANGED causes
  BY DEF Insert
<1>4. CASE x = r
  <2>1. CASE Blame({r}, "aborted") \/ Blame({r}, "created")
    BY <1>1, <1>4, <2>1, Blamed DEF Explained
  <2>2. CASE request[u].at = "inserting" /\ ~clash
    <3>1. x \in request[u].keys
      BY <1>4, <2>2 DEF Handled
    <3>2. request' = [request EXCEPT ![u] =
                        [request[u] EXCEPT !.todo = request[u].todo \ {p}]]
      BY <2>2 DEF Insert
    <3>3. request'[u].of = x /\ request'[u].keys = request[u].keys
      BY <1>0, <1>4, <3>2 DEF Requests
    <3>4. u \in Changing(x)'
      BY <3>1, <3>3 DEF Changing, Clears
    <3> QED
      BY <3>4 DEF Explained
  <2> QED
    BY <1>3, <2>1, <2>2
<1>5. CASE x # r
  <2>1. Explained(x)
    BY DEF StaleEntryIsExplained, Explained
  <2>2. grants'[x] = grants[x]
    BY <1>0, <1>5 DEF Insert, RowsTyped
  <2>3. causes'[x] = causes[x]
    BY <1>1, <1>3, <1>5, Blamed
  <2>4. u \notin Changing(x)
    BY <1>5 DEF Changing, Clears
  <2>5. \A w \in Users : w \in Changing(x) => w \in Changing(x)'
    BY <1>2, <2>4, OthersClear
  <2> QED
    BY <1>1, <2>1, <2>2, <2>3, <2>5, ExplainedKept
<1> QED
  BY <1>4, <1>5

\* An entry that is cleared or expires is gone.
LEMMA ExplainedByClearing ==
    ASSUME Typed, Handled, StaleEntryIsExplained, NEW r \in Roles,
           Expire(r) \/ \E u \in Users : Clear(u, r)
    PROVE  StaleEntryIsExplained'
<1> USE DEF Typed
<1> SUFFICES ASSUME NEW x \in Roles PROVE Explained(x)'
  BY DEF StaleEntryIsExplained, Explained
<1>1. cache' = [cache EXCEPT ![r] = {}] /\ causes' = [causes EXCEPT ![r] = {}]
      /\ grants' = grants
  BY DEF Expire, Clear, Entry
<1>2. CASE x = r
  BY <1>1, <1>2 DEF Explained, CacheTyped
<1>3. CASE x # r
  <2>1. Explained(x)
    BY DEF StaleEntryIsExplained, Explained
  <2>2. cache'[x] = cache[x] /\ grants'[x] = grants[x] /\ causes'[x] = causes[x]
    BY <1>1, <1>3 DEF CacheTyped
  <2>3. \A w \in Users : w \in Changing(x) => w \in Changing(x)'
    <3>1. CASE Expire(r)
      BY <3>1 DEF Expire, Changing, Clears
    <3>2. ASSUME NEW u \in Users, Clear(u, r)
          PROVE  \A w \in Users : w \in Changing(x) => w \in Changing(x)'
      <4>1. request' = [request EXCEPT ![u] =
                          [request[u] EXCEPT !.keys = request[u].keys \ {r}]]
        BY <3>2 DEF Clear
      <4>2. request'[u].of = request[u].of
            /\ request'[u].keys = request[u].keys \ {r}
        BY <4>1 DEF Requests
      <4>3. u \in Changing(x) => u \in Changing(x)'
        BY <1>3, <4>2 DEF Changing, Clears
      <4> QED
        BY <4>1, <4>3, OthersClear
    <3> QED
      BY <3>1, <3>2
  <2> QED
    BY <2>1, <2>2, <2>3, ExplainedKept
<1> QED
  BY <1>2, <1>3

\* A handler that is cut short is the reason, and so is a restart.
LEMMA ExplainedByFaults ==
    ASSUME Typed, Handled, StaleEntryIsExplained,
           Restart \/ \E u \in Users : Fail(u)
    PROVE  StaleEntryIsExplained'
<1> USE DEF Typed
<1> SUFFICES ASSUME NEW x \in Roles PROVE Explained(x)'
  BY DEF StaleEntryIsExplained, Explained
<1>0. Explained(x)
  BY DEF StaleEntryIsExplained, Explained
<1>1. CASE Restart
  <2>1. cache' = cache /\ grants' = Seeded
    BY <1>1 DEF Restart
  <2>2. cache[x] # {} /\ (Changing(x) # {} \/ Seeded[x] # grants[x])
        => causes'[x] # {}
    BY <1>1 DEF Restart
  <2>3. causes[x] # {} => causes'[x] # {}
    BY <1>1 DEF Restart
  <2> QED
    BY <1>0, <2>1, <2>2, <2>3 DEF Explained
<1>2. ASSUME NEW u \in Users, Fail(u) PROVE Explained(x)'
  <2>1. cache' = cache /\ grants' = grants /\ request' = [request EXCEPT ![u] = Idle]
    BY <1>2 DEF Fail
  <2>2. PICK why : Blame(Clears(u), why)
    BY <1>2 DEF Fail
  <2>3. CASE x \in Clears(u)
    BY <2>1, <2>2, <2>3, Blamed DEF Explained
  <2>4. CASE x \notin Clears(u)
    <3>1. causes'[x] = causes[x]
      BY <2>1, <2>2, <2>4, Blamed
    <3>2. u \notin Changing(x)
      BY <2>4 DEF Changing
    <3>3. \A w \in Users : w \in Changing(x) => w \in Changing(x)'
      BY <2>1, <3>2, OthersClear
    <3> QED
      BY <1>0, <2>1, <3>1, <3>3, ExplainedKept
  <2> QED
    BY <2>3, <2>4
<1> QED
  BY <1>1, <1>2
------------------------------------------------------------------------------
\* Every step keeps the invariant.
LEMMA InvStep == AccountsInv /\ [Next]_vars => AccountsInv'
<1> SUFFICES ASSUME AccountsInv, [Next]_vars PROVE AccountsInv'
  OBVIOUS
<1> USE DEF AccountsInv
<1>1. ASSUME NEW u \in Users,
             \/ Register(u) \/ Login(u) \/ Ask(u) \/ RequestStep(u) \/ Fail(u)
             \/ \E v \in Users, r \in Roles : UpdateUserRole(u, v, r)
             \/ \E r \in Roles, wanted \in SUBSET Perms :
                   UpdateRolePermissions(u, r, wanted) \/ CreateRole(u, r, wanted)
      PROVE  AccountsInv'
  <2>1. Typed'
    BY <1>1, CheckTyped, ChangeTyped, RestTyped DEF RequestStep
  <2>2. Handled'
    BY <1>1, HandledKept
  <2>3. StaleEntryIsExplained'
    BY <1>1, ExplainedByRequests, ExplainedByRefill, ExplainedByReplacing,
       ExplainedByInsert, ExplainedByClearing, ExplainedByFaults
       DEF RequestStep
  <2> QED
    BY <2>1, <2>2, <2>3
<1>2. ASSUME NEW r \in Roles, Expire(r) PROVE AccountsInv'
  <2>1. Typed'
    BY <1>2, EnvironmentTyped
  <2>2. Handled'
    BY <1>2 DEF Expire, Handled, Accounts
  <2>3. StaleEntryIsExplained'
    BY <1>2, ExplainedByClearing
  <2> QED
    BY <2>1, <2>2, <2>3
<1>3. CASE Restart
  <2>1. Typed'
    BY <1>3, EnvironmentTyped
  <2>2. Handled'
    BY <1>3 DEF Restart, Handled, Accounts, Idle
  <2>3. StaleEntryIsExplained'
    BY <1>3, ExplainedByFaults
  <2> QED
    BY <2>1, <2>2, <2>3
<1>4. CASE UNCHANGED vars
  <2>1. Typed'
    BY <1>4 DEF vars, Typed, RowsTyped, CacheTyped, UsersTyped, Accounts
  <2>2. Handled'
    BY <1>4 DEF vars, Handled, Accounts
  <2>3. StaleEntryIsExplained'
    BY <1>4 DEF vars, StaleEntryIsExplained, Changing, Clears
  <2> QED
    BY <2>1, <2>2, <2>3
<1> QED
  BY <1>1, <1>2, <1>3, <1>4 DEF Next

\* The invariant holds in every behaviour.
THEOREM AccountsInvariant == Spec => []AccountsInv
BY InvInit, InvStep, PTL DEF Spec

\* An entry is one set of permissions.
OneEntry == \A r \in Roles : cache[r] = {} \/ \E s \in SUBSET Perms : cache[r] = {s}

\* Entries are stored whole and deleted whole.
LEMMA EntriesStay == AccountsInv /\ OneEntry /\ [Next]_vars => OneEntry'
<1> SUFFICES ASSUME AccountsInv, OneEntry, [Next]_vars PROVE OneEntry'
  OBVIOUS
<1> USE DEF OneEntry, AccountsInv, Typed, CacheTyped
<1>1. CASE UNCHANGED cache
  BY <1>1
<1>2. ASSUME NEW u \in Users, Refill(u) PROVE OneEntry'
  <2>1. request[u].of \in Roles /\ request[u].perms \in SUBSET Perms
    BY DEF Requests
  <2>2. cache' = [cache EXCEPT ![request[u].of] = {request[u].perms}]
    BY <1>2 DEF Refill, Entry
  <2> QED
    BY <2>1, <2>2
<1>3. ASSUME NEW r \in Roles, cache' = [cache EXCEPT ![r] = {}] PROVE OneEntry'
  BY <1>3
<1>4. ASSUME NEW u \in Users, NEW r \in Roles, Clear(u, r) PROVE OneEntry'
  BY <1>3, <1>4 DEF Clear, Entry
<1>5. ASSUME NEW r \in Roles, Expire(r) PROVE OneEntry'
  BY <1>3, <1>5 DEF Expire, Entry
<1>6. ASSUME NEW u \in Users, RequestStep(u) PROVE OneEntry'
  BY <1>1, <1>2, <1>4, <1>6 DEF RequestStep, Fetch, Inserted, Answer, Insert
<1>7. ASSUME NEW u \in Users, Register(u) \/ Login(u) \/ Ask(u) \/ Fail(u) PROVE OneEntry'
  BY <1>1, <1>7 DEF Register, Login, Ask, Fail
<1>8. ASSUME NEW u \in Users, NEW r \in Roles,
             \/ \E v \in Users : UpdateUserRole(u, v, r)
             \/ \E wanted \in SUBSET Perms : UpdateRolePermissions(u, r, wanted)
                                             \/ CreateRole(u, r, wanted)
      PROVE  OneEntry'
  BY <1>1, <1>8 DEF UpdateUserRole, UpdateRolePermissions, CreateRole
<1>9. CASE Restart \/ UNCHANGED vars
  BY <1>1, <1>9 DEF Restart, vars
<1> QED
  BY <1>5, <1>6, <1>7, <1>8, <1>9 DEF Next

\* The variables keep their types, a cached entry among them: it is one set of
\* permissions, however many readers store what they have read.
THEOREM TypesKept == Spec => []AccountsTypeOK
<1>1. Init => OneEntry
  BY DEF Init, OneEntry
<1>2. AccountsInv /\ OneEntry => AccountsTypeOK
  <2> SUFFICES ASSUME AccountsInv, OneEntry PROVE AccountsTypeOK
    OBVIOUS
  <2> USE DEF AccountsInv, Typed
  <2>1. /\ roles \subseteq Roles /\ BuiltIn \subseteq roles /\ grants \in [Roles -> SUBSET Perms]
        /\ Accounts \subseteq Users /\ DOMAIN token = Accounts
        /\ \A u \in Accounts : {role[u], token[u]} \subseteq roles
    BY DEF RowsTyped, UsersTyped
  <2>2. \A u \in Users :
          /\ request[u].at \in States /\ request[u].keys \subseteq Roles
          /\ request[u].todo \cup request[u].perms \subseteq Perms
    BY DEF Requests
  <2> QED
    BY <2>1, <2>2 DEF AccountsTypeOK, OneEntry, States
<1> QED
  BY <1>1, <1>2, EntriesStay, AccountsInvariant, PTL DEF Spec

\* A cached permission set differs from the rows only while its deletion is
\* due or for one of the five reasons named in the code's places: for any
\* number of administrators, readers, roles and failures.
THEOREM StaleExplained == Spec => []StaleEntryIsExplained
<1>1. AccountsInv => StaleEntryIsExplained
  BY DEF AccountsInv
<1> QED
  BY <1>1, AccountsInvariant, PTL

\* update_user_role is the only handler that takes a role from somebody, and
\* refuses the one who asks: the last administrator is another's to demote.
THEOREM LastAdminKept == Spec => LastAdminNotByOneself
<1> DEFINE Demoted == (\E u \in Accounts : role[u] = "admin")
                        /\ ~(\E u \in DOMAIN role' : role'[u] = "admin")
           ByOther == \E u \in Accounts : /\ role[u] # "admin"
                                          /\ "manage" \in request[u].perms
                                          /\ request'[u] # request[u]
<1>1. AccountsInv /\ [Next]_vars => [Demoted => ByOther]_vars
  <2> SUFFICES ASSUME AccountsInv, Next, Demoted PROVE ByOther
    BY DEF vars
  <2> USE DEF AccountsInv, Typed, UsersTyped
  <2>1. PICK a \in Accounts : role[a] = "admin"
    OBVIOUS
  <2>2. ~(a \in DOMAIN role' /\ role'[a] = "admin")
    OBVIOUS
  <2>3. PICK u \in Users, v \in Users, r \in Roles : UpdateUserRole(u, v, r)
    <3>1. role' # role
      BY <2>1, <2>2 DEF Accounts
    <3>2. ASSUME NEW u \in Users PROVE ~Register(u)
      BY <2>1, <2>2, <3>2 DEF Register, Accounts
    <3> QED
      BY <3>1, <3>2, ZenonT(60) DEF Next, Login, Ask, RequestStep, Fetch, Refill, Inserted, Answer,
         Insert, Clear, Fail, UpdateRolePermissions, CreateRole, Expire, Restart
  <2>4. role' = [role EXCEPT ![v] = r] /\ u # v /\ request[u].at = "allowed"
        /\ "manage" \in request[u].perms
    BY <2>3 DEF UpdateUserRole, Manages, NotOneself
  <2>5. u \in Accounts
    BY <2>4 DEF Handled
  <2>6. role[u] # "admin"
    <3>1. SUFFICES ASSUME role[u] = "admin" PROVE FALSE
      OBVIOUS
    <3>2. u \in DOMAIN role' /\ role'[u] = "admin"
      BY <2>4, <2>5, <3>1 DEF Accounts
    <3> QED
      BY <3>2
  <2>7. request'[u].at = "clearing"
    BY <2>3 DEF UpdateUserRole, Idle
  <2> QED
    BY <2>4, <2>5, <2>6, <2>7
<1> QED
  BY <1>1, AccountsInvariant, PTL DEF Spec, LastAdminNotByOneself
=============================================================================
