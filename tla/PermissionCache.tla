--------------------------- MODULE PermissionCache ---------------------------
(***************************************************************************)
(* The groups of a user, the rights they give, and the memoised methods    *)
(* get_groups and get_permissions of flaskbb/user/models.py that every     *)
(* permission check goes through.                                          *)
(*                                                                         *)
(* Each worker process has a cache of its own (CACHE_TYPE is SimpleCache)  *)
(* and runs one or more requests at a time.  A method looks its key up,    *)
(* computes on a miss and stores the result for Timeout ticks; other       *)
(* requests run between those steps.  The key is repr(user), which is the  *)
(* user name, so an entry outlives the account it was made for.            *)
(***************************************************************************)
EXTENDS Integers, FiniteSets

CONSTANTS
    Names,        \* user names; repr(guest) for the guests
    Guests,       \* those that stand for a Guest object at some address
    Groups,
    Banned,       \* the group with the column banned
    Member,       \* the group new users are put in
    GuestGroup,   \* the group with the column guest
    Editable,     \* the groups an administrator edits (a bound)
    Rights,       \* the columns of a group
    BannedRight,  \* the column banned
    Requests,     \* slots a request may run in
    Workers,      \* worker processes
    Deployments,  \* ways to spread the slots over the processes
    Timeout,      \* CACHE_DEFAULT_TIMEOUT, in ticks
    MaxRequest,   \* the longest a request takes, in ticks
    MaxTime,      \* bound on the clock
    None          \* no account, nobody

ASSUME GroupAssumption == {Banned, Member, GuestGroup} \subseteq Groups
ASSUME NameAssumption == Names # {} /\ Guests \subseteq Names
ASSUME EditableAssumption == Editable \subseteq Groups
ASSUME RightAssumption == BannedRight \in Rights
ASSUME NoneAssumption == None \notin Groups \cup Workers
ASSUME RequestAssumption == IsFiniteSet(Requests)
ASSUME DeploymentAssumption == Deployments \subseteq [Requests -> Workers]
ASSUME TimeAssumption ==
    Timeout \in Nat \ {0} /\ MaxRequest \in Nat /\ MaxTime \in Nat

Times == 0..MaxTime

VARIABLES
    primary,    \* users.primary_group_id; None if there is no such user
    secondary,  \* table groups_users
    rights,     \* the columns of table groups
    groups,     \* cache entries of get_groups in each worker
    perms,      \* cache entries of get_permissions in each worker
    req,        \* the requests
    workerOf,   \* the worker each slot belongs to
    now,        \* the clock
    lastHeld,   \* history: when a name was last known to have a right
    lastBy      \* history: the worker that last changed a name's rights

tables == <<primary, secondary, rights>>
vars == <<primary, secondary, rights, groups, perms, req, workerOf, now, lastHeld, lastBy>>

Jobs == {"read", "ban", "unban", "edit"}

Entry == [rights: SUBSET Rights, until: 0..(MaxTime + Timeout)]
Absent == [rights |-> {}, until |-> 0]

\* "name" is the user the request is about and "as" the name it gives him; "seen"
\* are the rights of the groups it has loaded so far or found in the cache; "group"
\* is the primary group it loaded, if it is going to replace it.
Request == [pc: {"idle", "permissions", "groups", "query", "storeGroups",
                 "storePermissions", "setGroup", "dropPermissions", "dropGroups", "commit"},
            job: Jobs, name: Names, as: Names, began: Times,
            group: Groups, seen: SUBSET Rights]

TypeOK ==
    /\ primary \in [Names -> Groups \cup {None}]
    /\ secondary \in [Names -> SUBSET Groups]
    /\ rights \in [Groups -> SUBSET Rights]
    /\ groups \in [Workers -> [Names -> Entry]]
    /\ perms \in [Workers -> [Names -> Entry]]
    /\ req \in [Requests -> Request]
    /\ workerOf \in Deployments
    /\ now \in Times
    /\ lastHeld \in [Names -> [Rights -> Times \cup {-1}]]
    /\ lastBy \in [Names -> Workers \cup {None}]

Accounts == Names \ Guests

\* Any group that has a column grants it.  P, S and R are the three tables.
Granted(S, R) == UNION {R[g] : g \in S}
OwnRights(n, P, R) == IF P[n] = None THEN {} ELSE R[P[n]]
RightsOf(n, P, S, R) == OwnRights(n, P, R) \cup Granted(S[n], R)

ValidForever(e) == e.until > 0
\* SimpleCache: an entry is there until its time has come.
Valid(e) == now < e.until

EntryOfTwiceTheTime(s) == [rights |-> s, until |-> now + 2 * Timeout]
EntryOf(s) == [rights |-> s, until |-> now + Timeout]

\* The tables are P, S and R now, at time t.
Remember(t, P, S, R) ==
    lastHeld' = [n \in Names |-> [x \in Rights |->
                    IF x \in RightsOf(n, P, S, R) THEN t ELSE lastHeld[n][x]]]

-----------------------------------------------------------------------------
Idle == LET n == CHOOSE n \in Names : TRUE IN
        [pc |-> "idle", job |-> "read", name |-> n, as |-> n, began |-> 0,
         group |-> Member, seen |-> {}]

Init ==
    /\ primary \in [Names -> {Member, GuestGroup, None}]
    /\ \A n \in Names : n \in Guests <=> primary[n] = GuestGroup
    /\ secondary = [n \in Names |-> {}]
    /\ rights = [g \in Groups |-> IF g = Banned THEN {BannedRight} ELSE {}]
    /\ groups = [w \in Workers |-> [n \in Names |-> Absent]]
    /\ perms = [w \in Workers |-> [n \in Names |-> Absent]]
    /\ req = [r \in Requests |-> Idle]
    /\ workerOf \in Deployments
    /\ now = 0
    /\ lastHeld = [n \in Names |-> [x \in Rights |->
                    IF x \in OwnRights(n, primary, rights) THEN 0 ELSE -1]]
    /\ lastBy = [n \in Names |-> None]

\* A request loads the row of the user it is about, with the primary group.
\* Editing may change the user name as well.
Start(r, job, n, m) ==
    /\ req[r].pc = "idle" /\ primary[n] # None
    /\ job # "read" => n \notin Guests
    /\ IF job = "edit" THEN m \in Accounts ELSE m = n
    /\ req' = [req EXCEPT ![r] =
                [pc |-> IF job = "edit" THEN "dropPermissions" ELSE "permissions",
                 job |-> job, name |-> n, as |-> m, began |-> now,
                 group |-> IF job \in {"ban", "unban"} THEN primary[n] ELSE Member,
                 seen |-> IF job = "edit" THEN {} ELSE OwnRights(n, primary, rights)]]
    /\ UNCHANGED <<tables, groups, perms, workerOf, now, lastHeld, lastBy>>

\* The permissions are known: a page is done with them, ban and unban may find
\* nothing to do.
Answered(q, seen) ==
    IF \/ q.job = "ban" /\ BannedRight \notin seen
       \/ q.job = "unban" /\ BannedRight \in seen
    THEN [q EXCEPT !.pc = "setGroup", !.seen = {}] ELSE Idle

\* get_permissions looks for its own entry, then for that of get_groups.
LookUpPermissions(r) ==
    LET e == perms[workerOf[r]][req[r].name] IN
    /\ req[r].pc = "permissions"
    /\ req' = [req EXCEPT ![r] =
                IF Valid(e) THEN Answered(@, e.rights)
                ELSE [@ EXCEPT !.pc = "groups"]]
    /\ UNCHANGED <<tables, groups, perms, workerOf, now, lastHeld, lastBy>>

LookUpGroups(r) ==
    LET e == groups[workerOf[r]][req[r].name] IN
    /\ req[r].pc = "groups"
    /\ req' = [req EXCEPT ![r] =
                IF Valid(e) THEN [@ EXCEPT !.pc = "storePermissions", !.seen = e.rights]
                ELSE [@ EXCEPT !.pc = "query"]]
    /\ UNCHANGED <<tables, groups, perms, workerOf, now, lastHeld, lastBy>>

\* The secondary groups are queried now, the primary group came with the user.
QueryGroups(r) ==
    /\ req[r].pc = "query"
    /\ req' = [req EXCEPT ![r].pc = "storeGroups",
                          ![r].seen = @ \cup Granted(secondary[req[r].name], rights)]
    /\ UNCHANGED <<tables, groups, perms, workerOf, now, lastHeld, lastBy>>

StoreGroups(r) ==
    /\ req[r].pc = "storeGroups"
    /\ groups' = [groups EXCEPT ![workerOf[r]][req[r].name] = EntryOf(req[r].seen)]
    /\ req' = [req EXCEPT ![r].pc = "storePermissions"]
    /\ UNCHANGED <<tables, perms, workerOf, now, lastHeld, lastBy>>

StorePermissions(r) ==
    /\ req[r].pc = "storePermissions"
    /\ perms' = [perms EXCEPT ![workerOf[r]][req[r].name] = EntryOf(req[r].seen)]
    /\ req' = [req EXCEPT ![r] = Answered(@, @.seen)]
    /\ UNCHANGED <<tables, groups, workerOf, now, lastHeld, lastBy>>

\* User.ban and User.unban: commit the new primary group, then drop the entries.
\* If the row is gone the commit fails; if it was loaded with that group the session
\* has nothing to write.
SetPrimaryGroup(r, g) ==
    LET n == req[r].name IN
    /\ IF primary[n] = None
       THEN /\ req' = [req EXCEPT ![r] = Idle]
            /\ UNCHANGED <<primary, lastBy>>
       ELSE /\ primary' = [primary EXCEPT ![n] = IF req[r].group = g THEN @ ELSE g]
            /\ req' = [req EXCEPT ![r].pc = "dropPermissions"]
            /\ lastBy' = [lastBy EXCEPT ![n] = None]
    /\ Remember(now, primary', secondary, rights)
    /\ UNCHANGED <<secondary, rights, groups, perms, workerOf, now>>

Ban(r) ==
    /\ req[r].pc = "setGroup" /\ req[r].job = "ban"
    /\ SetPrimaryGroup(r, Banned)

Unban(r) ==
    /\ req[r].pc = "setGroup" /\ req[r].job = "unban"
    /\ SetPrimaryGroup(r, Member)

DroppedNothing(cache, w, n) == cache
Dropped(cache, w, n) == [cache EXCEPT ![w][n] = Absent]

\* User.invalidate_cache, first step and second step.
DropPermissions(r) ==
    /\ req[r].pc = "dropPermissions"
    /\ perms' = Dropped(perms, workerOf[r], req[r].as)
    /\ req' = [req EXCEPT ![r].pc = "dropGroups"]
    /\ UNCHANGED <<tables, groups, workerOf, now, lastHeld, lastBy>>

DropGroups(r) ==
    LET n == req[r].as IN
    /\ req[r].pc = "dropGroups"
    /\ groups' = Dropped(groups, workerOf[r], n)
    /\ req' = [req EXCEPT ![r] =
                IF req[r].job = "edit" THEN [@ EXCEPT !.pc = "commit"] ELSE Idle]
    /\ lastBy' = IF req[r].job = "edit" THEN lastBy
                 ELSE [lastBy EXCEPT ![n] = workerOf[r]]
    /\ UNCHANGED <<tables, perms, workerOf, now, lastHeld>>

\* User.save(groups) of the view EditUser commits after invalidate_cache.  The
\* commit fails if the row is gone or the new name is taken.
EditUser(r) ==
    LET n == req[r].name
        m == req[r].as
    IN  /\ req[r].pc = "commit"
        /\ req' = [req EXCEPT ![r] = Idle]
        /\ IF primary[n] = None \/ (m # n /\ primary[m] # None)
           THEN UNCHANGED <<primary, secondary, lastBy>>
           ELSE \E g \in Groups, more \in SUBSET Groups :
                /\ primary' = [primary EXCEPT ![n] = None, ![m] = g]
                /\ secondary' = [secondary EXCEPT ![n] = {}, ![m] = more \ {g}]
                /\ lastBy' = [lastBy EXCEPT ![n] = None, ![m] = workerOf[r]]
        /\ Remember(now, primary', secondary', rights)
        /\ UNCHANGED <<rights, groups, perms, workerOf, now>>

\* The view EditGroup.  Users' entries stay; Guest.invalidate_cache is called for
\* the guest group, with a key no Guest object has, and never for get_groups.
EditGroup(w, g, columns) ==
    /\ rights[g] # columns
    /\ rights' = [rights EXCEPT ![g] = columns]
    /\ lastBy' = [n \in Names |-> IF n \in Guests
                                  THEN IF g = GuestGroup THEN w ELSE lastBy[n]
                                  ELSE None]
    /\ Remember(now, primary, secondary, rights')
    /\ UNCHANGED <<primary, secondary, groups, perms, req, workerOf, now>>

\* Registration, and the view AddUser.
Register(n) ==
    /\ primary[n] = None
    /\ primary' = [primary EXCEPT ![n] = Member]
    /\ lastBy' = [lastBy EXCEPT ![n] = None]
    /\ Remember(now, primary', secondary, rights)
    /\ UNCHANGED <<secondary, rights, groups, perms, req, workerOf, now>>

\* User.delete leaves the cache alone.
DeleteUser(n) ==
    /\ n \in Accounts /\ primary[n] # None
    /\ primary' = [primary EXCEPT ![n] = None]
    /\ secondary' = [secondary EXCEPT ![n] = {}]
    /\ lastBy' = [lastBy EXCEPT ![n] = None]
    /\ Remember(now, primary', secondary', rights)
    /\ UNCHANGED <<rights, groups, perms, req, workerOf, now>>

\* Time passes; no request takes longer than MaxRequest.
Tick ==
    /\ now < MaxTime
    /\ \A r \in Requests : req[r].pc # "idle" => now - req[r].began < MaxRequest
    /\ now' = now + 1
    /\ Remember(now + 1, primary, secondary, rights)
    /\ UNCHANGED <<tables, groups, perms, req, workerOf, lastBy>>

Step(r) ==
    \/ \E job \in Jobs, n, m \in Names : Start(r, job, n, m)
    \/ LookUpPermissions(r)
    \/ LookUpGroups(r)
    \/ QueryGroups(r)
    \/ StoreGroups(r)
    \/ StorePermissions(r)
    \/ Ban(r)
    \/ Unban(r)
    \/ DropPermissions(r)
    \/ DropGroups(r)
    \/ EditUser(r)

Next ==
    \/ \E r \in Requests : Step(r)
    \/ \E r \in Requests, g \in Editable, columns \in SUBSET Rights :
            EditGroup(workerOf[r], g, columns)
    \/ \E n \in Accounts : Register(n)
    \/ \E n \in Accounts : DeleteUser(n)
    \/ Tick

Spec == Init /\ [][Next]_vars

-----------------------------------------------------------------------------
(* Properties.                                                             *)

\* Two nested entries, each made by a request that may have started with an older
\* user row.
Window == 2 * (Timeout + MaxRequest - 1)

HeldWithin(n, x, ticks) == lastHeld[n][x] >= 0 /\ now - lastHeld[n][x] <= ticks

\* A right that was withdrawn, through whatever worker and whether or not its cache
\* was told, is answered no longer than two timeouts and two requests later.
NoLateGrant ==
    \A w \in Workers, n \in Names :
        Valid(perms[w][n]) => \A x \in perms[w][n].rights : HeldWithin(n, x, Window)

\* A worker that runs one request at a time answers with the current rights of a
\* user it was the last to change: neither a promoted nor a banned user has to
\* wait for a timeout there.  (ban and unban invalidate after the commit, save
\* before it.)
Sequential(w) == Cardinality({r \in Requests : workerOf[r] = w}) = 1

OwnChangesSeen ==
    \A w \in Workers, n \in Accounts : Sequential(w) /\ lastBy[n] = w =>
        \A e \in {groups[w][n], perms[w][n]} : Valid(e) => e.rights = RightsOf(n, primary, secondary, rights)

\* The same of guests and the guest group.
GuestChangesSeen ==
    \A w \in Workers, n \in Guests : Sequential(w) /\ lastBy[n] = w /\ Valid(perms[w][n])
        => perms[w][n].rights = RightsOf(n, primary, secondary, rights)
=============================================================================
