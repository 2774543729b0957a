------------------------------ MODULE Accounts ------------------------------
(***************************************************************************)
(* Users, roles and permissions: the handlers of server.py that log in,    *)
(* change a user's role and a role's permissions, the permission check of  *)
(* auth/permissions.py with its Redis cache, and the rows init_schema      *)
(* seeds at every start.                                                   *)
(*                                                                         *)
(* A request is a user's: its check (Ask, Fetch, Refill) leaves it with    *)
(* the permissions of the role its token names, its handler then changes   *)
(* rows one statement at a time, outside a transaction, and clears cache   *)
(* entries last.                                                           *)
(***************************************************************************)
EXTENDS Naturals, FiniteSets

CONSTANTS Users,        \* usernames
          Custom,       \* names of roles that are not built in
          MaxChanges,   \* administrators' changes
          MaxFaults     \* failed statements and restarts

\* "manage" stands for user:update and role:manage, "use" for the others.
Perms == {"manage", "use"}

BuiltIn == {"admin", "user"}

Roles == BuiltIn \cup Custom

\* The permissions init_schema gives the built-in roles.
Seed == [r \in Roles |-> CASE r = "admin" -> Perms
                            [] r = "user" -> {"use"}
                            [] OTHER -> {}]

VARIABLES
    roles,     \* rows of roles
    grants,    \* rows of role_permissions, by role
    cache,     \* rbac:perms:{role}: {} or {the permissions stored there}
    role,      \* users.role of those who have an account
    token,     \* the role in a user's current token
    request,   \* each user's request
    causes,    \* history: why a role's cache entry may be out of date
    budget     \* changes and faults left

vars == <<roles, grants, cache, role, token, request, causes, budget>>

Idle == [at |-> "idle", of |-> "admin", perms |-> {}, todo |-> {}, keys |-> {}]

Accounts == DOMAIN role

Init ==
    /\ roles = BuiltIn
    /\ grants = Seed
    /\ cache = [r \in Roles |-> {}]
    /\ \E u \in Users : role = [v \in {u} |-> "admin"]
    /\ token = role
    /\ request = [u \in Users |-> Idle]
    /\ causes = [r \in Roles |-> {}]
    /\ budget = [changes |-> MaxChanges, faults |-> MaxFaults]

\* The requests that change r's permissions and have its entry to clear.
Clears(u) == {request[u].of} \cap request[u].keys

Changing(r) == {u \in Users : r \in Clears(u)}

Blame(rs, why) ==
    causes' = [r \in Roles |-> IF r \in rs /\ cache[r] # {}
                               THEN causes[r] \cup {why} ELSE causes[r]]

Entry(r, value) == cache' = [cache EXCEPT ![r] = value]

------------------------------------------------------------------------------
(* Accounts and tokens. *)

\* Registration, and the first login through LDAP or SSO: the UNIQUE
\* constraint on users.username decides between two that checked at once.
Register(u) ==
    /\ u \notin Accounts
    /\ role' = [v \in Accounts \cup {u} |-> IF v = u THEN "user" ELSE role[v]]
    /\ token' = [v \in Accounts \cup {u} |-> IF v = u THEN "user" ELSE token[v]]
    /\ UNCHANGED <<roles, grants, cache, request, causes, budget>>

\* A login puts the role of the row in the token, where it stays.
Login(u) ==
    /\ u \in Accounts
    /\ token' = [token EXCEPT ![u] = role[u]]
    /\ UNCHANGED <<roles, grants, cache, role, request, causes, budget>>

------------------------------------------------------------------------------
(* require_permission and get_user_permissions. *)

\* A request arrives: administrators have every permission unasked, the
\* others what the cache holds, if it holds anything.
Ask(u) ==
    /\ u \in Accounts
    /\ request[u].at = "idle"
    /\ LET r == token[u] IN
       request' = [request EXCEPT ![u] =
           IF r = "admin" THEN [Idle EXCEPT !.at = "allowed", !.perms = Perms]
           ELSE IF cache[r] = {} THEN [Idle EXCEPT !.at = "missed", !.of = r]
           ELSE [Idle EXCEPT !.at = "allowed", !.perms = UNION cache[r]]]
    /\ UNCHANGED <<roles, grants, cache, role, token, causes, budget>>

\* The rows are read; the connection is returned before the cache is filled.
Fetch(u) ==
    /\ request[u].at = "missed"
    /\ request' = [request EXCEPT ![u].at = "fetched",
                                  ![u].perms = grants[request[u].of]]
    /\ UNCHANGED <<roles, grants, cache, role, token, causes, budget>>

Refill(u) ==
    /\ request[u].at = "fetched"
    /\ LET r == request[u].of
           stale == request[u].perms # grants[r] IN
       /\ Entry(r, {request[u].perms})
       /\ causes' = [causes EXCEPT ![r] = IF stale THEN {"raced"} ELSE {}]
    /\ request' = [request EXCEPT ![u].at = "allowed"]
    /\ UNCHANGED <<roles, grants, role, token, budget>>

\* Mutant: entries are stored without a time to live.
NeverExpires(r) == FALSE

\* Five minutes after it was stored an entry is gone.
Expires(r) == cache[r] # {}

Expire(r) ==
    /\ Expires(r)
    /\ Entry(r, {})
    /\ causes' = [causes EXCEPT ![r] = {}]
    /\ UNCHANGED <<roles, grants, role, token, request, budget>>

------------------------------------------------------------------------------
(* The administrators' handlers. *)

Manages(u) ==
    /\ request[u].at = "allowed"
    /\ "manage" \in request[u].perms
    /\ budget.changes > 0
    /\ budget' = [budget EXCEPT !.changes = @ - 1]

\* Mutant: an administrator may change their own role.
AlsoOneself(u, v) == TRUE

NotOneself(u, v) == u # v

\* update_user_role: the row, then every cache key, of whatever role.
UpdateUserRole(u, v, r) ==
    /\ Manages(u)
    /\ r \in roles
    /\ v \in Accounts
    /\ NotOneself(u, v)
    /\ role' = [role EXCEPT ![v] = r]
    /\ request' = [request EXCEPT ![u] =
           [Idle EXCEPT !.at = "clearing",
                        !.keys = {x \in Roles : cache[x] # {}}]]
    /\ UNCHANGED <<roles, grants, cache, token, causes>>

\* Mutant: the cache keeps the role's entry.
ReplacedOnly(r, wanted) ==
    [Idle EXCEPT !.at = "inserting", !.of = r, !.todo = wanted]

\* update_role_permissions: the DELETE; an INSERT for each permission follows,
\* and the entry of the role is cleared.
Replaced(r, wanted) ==
    [Idle EXCEPT !.at = "inserting", !.of = r, !.todo = wanted, !.keys = {r}]

UpdateRolePermissions(u, r, wanted) ==
    /\ Manages(u)
    /\ r \in roles
    /\ grants' = [grants EXCEPT ![r] = {}]
    /\ request' = [request EXCEPT ![u] = Replaced(r, wanted)]
    /\ UNCHANGED <<roles, cache, role, token, causes>>

\* create_role: the row of the role; its permissions follow, the cache does
\* not.  A second request that found no such role fails on the key.
CreateRole(u, r, wanted) ==
    /\ Manages(u)
    /\ r \notin roles
    /\ roles' = roles \cup {r}
    /\ request' = [request EXCEPT ![u] =
           [Idle EXCEPT !.at = "creating", !.of = r, !.todo = wanted]]
    /\ UNCHANGED <<grants, cache, role, token, causes>>

\* One INSERT.  update_role_permissions fails on a pair that is there already
\* (another request put it there), create_role does nothing then.
Insert(u, p) ==
    /\ request[u].at \in {"inserting", "creating"}
    /\ p \in request[u].todo
    /\ LET r == request[u].of
           clash == request[u].at = "inserting" /\ p \in grants[r]
       IN /\ grants' = [grants EXCEPT ![r] = @ \cup {p}]
          /\ request' = [request EXCEPT ![u] =
                 IF clash THEN Idle
                 ELSE [@ EXCEPT !.todo = request[u].todo \ {p}]]
          /\ IF clash THEN Blame({r}, "aborted")
             ELSE IF request[u].at = "creating" THEN Blame({r}, "created")
             ELSE UNCHANGED causes
    /\ UNCHANGED <<roles, cache, role, token, budget>>

Inserted(u) ==
    /\ request[u].at \in {"inserting", "creating"}
    /\ request[u].todo = {}
    /\ request' = [request EXCEPT ![u] =
           IF @.at = "creating" THEN Idle ELSE [@ EXCEPT !.at = "clearing"]]
    /\ UNCHANGED <<roles, grants, cache, role, token, causes, budget>>

\* invalidate_permission_cache deletes one key, found by name or by SCAN.
Clear(u, r) ==
    /\ request[u].at = "clearing"
    /\ r \in request[u].keys
    /\ Entry(r, {})
    /\ causes' = [causes EXCEPT ![r] = {}]
    /\ request' = [request EXCEPT ![u].keys = @ \ {r}]
    /\ UNCHANGED <<roles, grants, role, token, budget>>

\* The response is sent, or the request was one that changes nothing here.
Answer(u) ==
    /\ \/ request[u].at = "clearing" /\ request[u].keys = {}
       \/ request[u].at = "allowed"
    /\ request' = [request EXCEPT ![u] = Idle]
    /\ UNCHANGED <<roles, grants, cache, role, token, causes, budget>>

------------------------------------------------------------------------------
(* Failures. *)

Fault == budget.faults > 0 /\ budget' = [budget EXCEPT !.faults = @ - 1]

\* A statement fails: the handler ends there, with what it did so far.  An
\* error while it clears the cache is swallowed.
Fail(u) ==
    /\ request[u].at \notin {"idle", "allowed"}
    /\ Fault
    /\ Blame(Clears(u),
             IF request[u].at = "clearing" THEN "swallowed" ELSE "aborted")
    /\ request' = [request EXCEPT ![u] = Idle]
    /\ UNCHANGED <<roles, grants, cache, role, token>>

\* A restart ends every request; init_schema inserts its rows again, those
\* an administrator took away included, and clears nothing.
Seeded == [r \in Roles |-> grants[r] \cup Seed[r]]

Restart ==
    /\ Fault
    /\ grants' = Seeded
    /\ request' = [u \in Users |-> Idle]
    /\ causes' = [r \in Roles |->
           IF cache[r] # {} /\ (Changing(r) # {} \/ Seeded[r] # grants[r])
           THEN causes[r] \cup {"restart"} ELSE causes[r]]
    /\ UNCHANGED <<roles, cache, role, token>>

------------------------------------------------------------------------------
RequestStep(u) ==
    \/ Fetch(u) \/ Refill(u) \/ Inserted(u) \/ Answer(u)
    \/ \E p \in Perms : Insert(u, p)
    \/ \E r \in Roles : Clear(u, r)

Next ==
    \/ \E u \in Users :
          \/ Register(u) \/ Login(u) \/ Ask(u) \/ RequestStep(u) \/ Fail(u)
          \/ \E v \in Users, r \in Roles : UpdateUserRole(u, v, r)
          \/ \E r \in Roles, wanted \in SUBSET Perms :
                UpdateRolePermissions(u, r, wanted) \/ CreateRole(u, r, wanted)
    \/ \E r \in Roles : Expire(r)
    \/ Restart

Spec == Init /\ [][Next]_vars

------------------------------------------------------------------------------
(* Properties. *)

AccountsTypeOK ==
    /\ roles \subseteq Roles /\ BuiltIn \subseteq roles
    /\ grants \in [Roles -> SUBSET Perms]
    /\ \A r \in Roles : cache[r] = {} \/ \E s \in SUBSET Perms : cache[r] = {s}
    /\ Accounts \subseteq Users /\ DOMAIN token = Accounts
    /\ \A u \in Accounts : {role[u], token[u]} \subseteq roles
    /\ \A u \in Users :
          /\ request[u].at \in {"idle", "missed", "fetched", "allowed",
                                "inserting", "creating", "clearing"}
          /\ request[u].keys \subseteq Roles
          /\ request[u].todo \cup request[u].perms \subseteq Perms

\* An entry differs from the rows only while the request that changed them is
\* about to clear it, or because a reader stored what it had read before the
\* change, the change was cut short or could not clear, the role was new, or
\* a restart brought its rows back.  No other order leaves one.
StaleEntryIsExplained ==
    \A r \in Roles :
        cache[r] \notin {{}, {grants[r]}} => Changing(r) # {} \/ causes[r] # {}

\* When changes and faults are over an entry that differs from the rows does
\* not stay: nobody holds old rows for long, and every entry expires.
EntriesAgree == \A r \in Roles : cache[r] \in {{}, {grants[r]}}

\* update_user_role refuses one's own role: only somebody who is no longer an
\* administrator, or whose role was given "manage", takes the last one away.
LastAdminNotByOneself ==
    [][(\E u \in Accounts : role[u] = "admin")
         /\ ~(\E u \in DOMAIN role' : role'[u] = "admin")
       => \E u \in Accounts : /\ role[u] # "admin"
                              /\ "manage" \in request[u].perms
                              /\ request'[u] # request[u]]_vars
=============================================================================
