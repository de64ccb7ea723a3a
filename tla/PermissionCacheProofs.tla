------------------------ MODULE PermissionCacheProofs ------------------------
(***************************************************************************)
(* Theorems of PermissionCache: its types, the bound on the age of an      *)
(* answer, and that a worker answers with the changes it made, for any     *)
(* number of workers, requests, users and groups and any timeout.          *)
(*                                                                         *)
(* The bound adds up along the way of an answer: a request is at most      *)
(* MaxRequest ticks old when it stores the groups, they are found during   *)
(* the Timeout ticks after that, the request that found them is at most    *)
(* MaxRequest ticks old when it stores the permissions, and those are      *)
(* found during another Timeout ticks.  The invariant has a part for each  *)
(* of the places where an answer waits.                                    *)
(***************************************************************************)
EXTENDS PermissionCache, FiniteSetTheorems, TLAPS

\* n had each of the rights s at the time t or later.
HeldSince(n, s, t) == \A x \in s : lastHeld[n][x] >= 0 /\ lastHeld[n][x] >= t

\* What a name has now is on record as such.
RecordUpToDate ==
    \A n \in Names :
        /\ \A x \in RightsOf(n, primary, secondary, rights) : lastHeld[n][x] = now
        /\ \A x \in Rights : lastHeld[n][x] <= now

ShortRequest(q) == q.pc # "idle" => q.began <= now /\ now - q.began <= MaxRequest

BackedRequest(q) ==
    /\ q.pc \in {"permissions", "groups", "query", "storeGroups"} =>
        HeldSince(q.name, q.seen, q.began)
    /\ q.pc = "storePermissions" =>
        HeldSince(q.name, q.seen, q.began - Timeout - MaxRequest + 1)

BackedGroups(n, e) == HeldSince(n, e.rights, e.until - Timeout - MaxRequest)

BackedPerms(n, e) == HeldSince(n, e.rights, e.until - 2 * Timeout - 2 * MaxRequest + 1)

RequestsShort == \A r \in Requests : ShortRequest(req[r])
RequestsBacked == \A r \in Requests : BackedRequest(req[r])
GroupsBacked == \A w \in Workers, n \in Names : BackedGroups(n, groups[w][n])
PermsBacked == \A w \in Workers, n \in Names : BackedPerms(n, perms[w][n])

IInv == /\ TypeOK
        /\ RecordUpToDate
        /\ RequestsShort
        /\ RequestsBacked
        /\ GroupsBacked
        /\ PermsBacked

-----------------------------------------------------------------------------
(* Lemmas.                                                                 *)

LEMMA Numbers ==
    /\ Timeout \in Int /\ MaxRequest \in Int /\ MaxTime \in Int
    /\ Timeout > 0 /\ MaxRequest >= 0 /\ MaxTime >= 0
    /\ Times \subseteq Int /\ \A t \in Times : 0 <= t /\ t <= MaxTime
    /\ \A t \in Times \cup {-1} : t \in Int
BY TimeAssumption DEF Times

\* Groups give nothing but rights.
LEMMA RightsAreRights ==
    ASSUME NEW n \in Names,
           NEW P \in [Names -> Groups \cup {None}],
           NEW S \in [Names -> SUBSET Groups],
           NEW R \in [Groups -> SUBSET Rights]
    PROVE  /\ OwnRights(n, P, R) \in SUBSET Rights
           /\ Granted(S[n], R) \in SUBSET Rights
           /\ RightsOf(n, P, S, R) \in SUBSET Rights
<1>1. OwnRights(n, P, R) \in SUBSET Rights
    BY DEF OwnRights
<1>2. Granted(S[n], R) \in SUBSET Rights
    BY DEF Granted
<1> QED BY <1>1, <1>2 DEF RightsOf

\* Writing the record never takes anything out of it.
LEMMA RecordGrows ==
    ASSUME TypeOK, RecordUpToDate, NEW t \in Times, now <= t,
           NEW P \in [Names -> Groups \cup {None}],
           NEW S \in [Names -> SUBSET Groups],
           NEW R \in [Groups -> SUBSET Rights],
           Remember(t, P, S, R)
    PROVE  /\ lastHeld' \in [Names -> [Rights -> Times \cup {-1}]]
           /\ \A n \in Names, x \in Rights :
                lastHeld[n][x] <= lastHeld'[n][x] /\ lastHeld'[n][x] <= t
           /\ \A n \in Names : \A x \in RightsOf(n, P, S, R) : lastHeld'[n][x] = t
<1>1. now \in Int /\ t \in Int
    BY Numbers DEF TypeOK
<1>2. \A n \in Names, x \in Rights :
        lastHeld'[n][x] = IF x \in RightsOf(n, P, S, R) THEN t ELSE lastHeld[n][x]
    BY DEF Remember
<1>3. \A n \in Names, x \in Rights :
        lastHeld[n][x] \in Times \cup {-1} /\ lastHeld[n][x] <= now
    BY DEF TypeOK, RecordUpToDate
<1>4. lastHeld' \in [Names -> [Rights -> Times \cup {-1}]]
    BY <1>3 DEF Remember
<1>5. \A n \in Names, x \in Rights :
        lastHeld[n][x] <= lastHeld'[n][x] /\ lastHeld'[n][x] <= t
    <2> SUFFICES ASSUME NEW n \in Names, NEW x \in Rights
                 PROVE lastHeld[n][x] <= lastHeld'[n][x] /\ lastHeld'[n][x] <= t
        OBVIOUS
    <2>1. lastHeld[n][x] \in Int /\ lastHeld[n][x] <= now
        BY <1>3, Numbers
    <2> QED BY <2>1, <1>1, <1>2
<1>6. \A n \in Names : RightsOf(n, P, S, R) \subseteq Rights
    BY RightsAreRights
<1> QED BY <1>2, <1>4, <1>5, <1>6

\* What was held before stays held since.
LEMMA HeldSinceKept ==
    ASSUME NEW n \in Names, NEW s \in SUBSET Rights, NEW t \in Int,
           lastHeld \in [Names -> [Rights -> Times \cup {-1}]],
           lastHeld' \in [Names -> [Rights -> Times \cup {-1}]],
           \A x \in Rights : lastHeld[n][x] <= lastHeld'[n][x],
           HeldSince(n, s, t)
    PROVE  \A x \in s : lastHeld'[n][x] >= 0 /\ lastHeld'[n][x] >= t
<1> SUFFICES ASSUME NEW x \in s
             PROVE  lastHeld'[n][x] >= 0 /\ lastHeld'[n][x] >= t
    OBVIOUS
<1>1. /\ lastHeld[n][x] \in Int /\ lastHeld'[n][x] \in Int
      /\ lastHeld[n][x] <= lastHeld'[n][x]
    BY Numbers
<1> QED BY <1>1 DEF HeldSince

\* Being held since some time means being held since any earlier one.
LEMMA HeldSinceEarlier ==
    ASSUME TypeOK, NEW n \in Names, NEW s \in SUBSET Rights,
           NEW t \in Int, NEW u \in Int, u <= t, HeldSince(n, s, t)
    PROVE  HeldSince(n, s, u)
<1> SUFFICES ASSUME NEW x \in s
             PROVE  lastHeld[n][x] >= 0 /\ lastHeld[n][x] >= u
    BY DEF HeldSince
<1>1. lastHeld[n][x] \in Times \cup {-1}
    BY DEF TypeOK
<1>2. lastHeld[n][x] \in Int
    BY <1>1, Numbers
<1> QED BY <1>2 DEF HeldSince

\* The times in the cache and in the requests are numbers.
LEMMA Fields ==
    ASSUME TypeOK
    PROVE  /\ now \in Int
           /\ \A w \in Workers, n \in Names :
                /\ groups[w][n] \in Entry /\ perms[w][n] \in Entry
                /\ groups[w][n].until \in Int /\ perms[w][n].until \in Int
                /\ groups[w][n].rights \in SUBSET Rights
                /\ perms[w][n].rights \in SUBSET Rights
           /\ \A r \in Requests :
                /\ req[r] \in Request /\ req[r].began \in Int
                /\ req[r].name \in Names /\ req[r].as \in Names
                /\ req[r].seen \in SUBSET Rights
                /\ workerOf[r] \in Workers
<1>1. now \in Int
    BY Numbers DEF TypeOK
<1>2. ASSUME NEW w \in Workers, NEW n \in Names
      PROVE  groups[w][n] \in Entry /\ perms[w][n] \in Entry
    BY DEF TypeOK
<1>3. \A e \in Entry : e.until \in Int /\ e.rights \in SUBSET Rights
    BY Numbers DEF Entry
<1>4. ASSUME NEW r \in Requests
      PROVE  req[r] \in Request /\ workerOf[r] \in Workers
    BY DeploymentAssumption DEF TypeOK
<1>5. \A q \in Request : /\ q.began \in Int /\ q.name \in Names /\ q.as \in Names
                         /\ q.seen \in SUBSET Rights
    BY Numbers DEF Request
<1> QED BY <1>1, <1>2, <1>3, <1>4, <1>5

-----------------------------------------------------------------------------
(* Types.                                                                  *)

LEMMA TablesTyped ==
    TypeOK => /\ primary \in [Names -> Groups \cup {None}]
              /\ secondary \in [Names -> SUBSET Groups]
              /\ rights \in [Groups -> SUBSET Rights]
BY DEF TypeOK

\* What is stored is an entry.
LEMMA EntriesTyped ==
    ASSUME TypeOK, NEW s \in SUBSET Rights
    PROVE  EntryOf(s) \in Entry /\ EntryOf(s).until = now + Timeout /\ EntryOf(s).rights = s
<1>1. now \in 0..MaxTime /\ now + Timeout \in 0..(MaxTime + Timeout)
    BY Numbers DEF TypeOK, Times
<1> QED BY <1>1 DEF EntryOf, Entry

LEMMA AbsentTyped == Absent \in Entry /\ Absent.rights = {}
BY Numbers DEF Absent, Entry

LEMMA DroppedTyped ==
    ASSUME NEW cache \in [Workers -> [Names -> Entry]], NEW w \in Workers, NEW n \in Names
    PROVE  /\ Dropped(cache, w, n) \in [Workers -> [Names -> Entry]]
           /\ \A v \in Workers, m \in Names :
                Dropped(cache, w, n)[v][m] \in {cache[v][m], Absent}
BY AbsentTyped DEF Dropped

\* A request that ends, and one that goes on after the permissions are known.
LEMMA IdleTyped ==
    ASSUME NEW n \in Names
    PROVE  Idle \in Request /\ Idle.pc = "idle"
<1>1. 0 \in Times
    BY Numbers DEF Times
<1> DEFINE m == CHOOSE k \in Names : TRUE
<1>2. m \in Names
    OBVIOUS
<1>3. Idle = [pc |-> "idle", job |-> "read", name |-> m, as |-> m, began |-> 0,
              group |-> Member, seen |-> {}]
    BY DEF Idle
<1> HIDE DEF m
<1>4. Member \in Groups
    BY GroupAssumption
<1> QED BY <1>1, <1>2, <1>3, <1>4 DEF Request, Jobs

LEMMA AnsweredTyped ==
    ASSUME NEW q \in Request, NEW s \in SUBSET Rights
    PROVE  /\ Answered(q, s) \in Request
           /\ Answered(q, s).pc \in {"idle", "setGroup"}
           /\ Answered(q, s).pc # "idle" => Answered(q, s).began = q.began
<1>1. q.name \in Names
    BY DEF Request
<1>2. Idle \in Request /\ Idle.pc = "idle"
    BY <1>1, IdleTyped
<1>3. LET more == [q EXCEPT !.pc = "setGroup", !.seen = {}] IN
      more \in Request /\ more.pc = "setGroup" /\ more.began = q.began
    BY DEF Request
<1> QED BY <1>2, <1>3 DEF Answered

-----------------------------------------------------------------------------
(* Steps that leave the tables and the clock alone.                        *)

\* Such a step keeps the invariant if what it puts into the request and into the
\* caches is backed.
LEMMA QuietStep ==
    ASSUME IInv, UNCHANGED <<tables, workerOf, now, lastHeld>>,
           lastBy' \in [Names -> Workers \cup {None}],
           NEW r \in Requests, NEW q \in Request, req' = [req EXCEPT ![r] = q],
           ShortRequest(q), BackedRequest(q),
           groups' \in [Workers -> [Names -> Entry]],
           perms' \in [Workers -> [Names -> Entry]],
           \A w \in Workers, n \in Names :
                BackedGroups(n, groups'[w][n]) /\ BackedPerms(n, perms'[w][n])
    PROVE  IInv'
<1>1. req' \in [Requests -> Request]
    BY DEF IInv, TypeOK
<1>2. \A k \in Requests : req'[k] = IF k = r THEN q ELSE req[k]
    BY DEF IInv, TypeOK
<1>3. TypeOK'
    BY <1>1 DEF IInv, TypeOK, tables
<1>4. RecordUpToDate'
    BY DEF IInv, RecordUpToDate, RightsOf, OwnRights, Granted, tables
<1>5. RequestsShort'
    BY <1>2 DEF IInv, RequestsShort, ShortRequest
<1>6. RequestsBacked'
    BY <1>2 DEF IInv, RequestsBacked, BackedRequest, HeldSince
<1>7. GroupsBacked' /\ PermsBacked'
    BY DEF GroupsBacked, PermsBacked, BackedGroups, BackedPerms, HeldSince
<1> QED BY <1>3, <1>4, <1>5, <1>6, <1>7 DEF IInv

\* Nothing is granted by an entry that is not there.
LEMMA AbsentBacked == \A n : BackedGroups(n, Absent) /\ BackedPerms(n, Absent)
BY AbsentTyped DEF BackedGroups, BackedPerms, HeldSince

\* A request that has ended, or has only writing to do.
LEMMA DoneBacked ==
    ASSUME NEW q, q.pc \notin {"permissions", "groups", "query", "storeGroups",
                               "storePermissions"}
    PROVE  BackedRequest(q)
BY DEF BackedRequest

LEMMA StartPreserves ==
    ASSUME IInv, NEW r \in Requests, NEW job \in Jobs, NEW n \in Names, NEW m \in Names,
           Start(r, job, n, m)
    PROVE  IInv'
<1> DEFINE own == OwnRights(n, primary, rights)
           old == IF job \in {"ban", "unban"} THEN primary[n] ELSE Member
           q   == [pc |-> IF job = "edit" THEN "dropPermissions" ELSE "permissions",
                   job |-> job, name |-> n, as |-> m, began |-> now,
                   group |-> old, seen |-> IF job = "edit" THEN {} ELSE own]
<1>1. /\ UNCHANGED <<tables, groups, perms, workerOf, now, lastHeld, lastBy>>
      /\ req' = [req EXCEPT ![r] = q]
    BY DEF Start
<1>2. own \in SUBSET Rights
    BY RightsAreRights, TablesTyped DEF IInv
<1>3. now \in Times
    BY DEF IInv, TypeOK
<1>4. q \in Request
    <2>1. old \in Groups
        BY GroupAssumption DEF Start, IInv, TypeOK
    <2> HIDE DEF own, old
    <2> QED BY <1>2, <1>3, <2>1 DEF Request
<1>5. ShortRequest(q)
    BY <1>3, Numbers DEF ShortRequest
<1>6. HeldSince(n, own, now)
    <2>1. \A x \in own : lastHeld[n][x] = now
        BY DEF IInv, RecordUpToDate, RightsOf
    <2> QED BY <2>1, <1>3, Numbers DEF HeldSince
<1>7. BackedRequest(q)
    <2> HIDE DEF own
    <2> QED BY <1>6 DEF BackedRequest, HeldSince
<1> HIDE DEF q
<1> QED BY <1>1, <1>4, <1>5, <1>7, QuietStep DEF IInv, TypeOK, GroupsBacked, PermsBacked

\* The request goes on from one step to the next with rights that are backed.
LEMMA RequestGoesOn ==
    ASSUME IInv, UNCHANGED <<tables, workerOf, now, lastHeld, lastBy, groups, perms>>,
           NEW r \in Requests, NEW q \in Request, req' = [req EXCEPT ![r] = q],
           q.pc # "idle" => req[r].pc # "idle" /\ q.began = req[r].began,
           BackedRequest(q)
    PROVE  IInv'
<1>1. ShortRequest(q)
    BY DEF IInv, RequestsShort, ShortRequest
<1> QED BY <1>1, QuietStep DEF IInv, TypeOK, GroupsBacked, PermsBacked

LEMMA LookUpPermissionsPreserves ==
    ASSUME IInv, NEW r \in Requests, LookUpPermissions(r)
    PROVE  IInv'
<1> DEFINE e == perms[workerOf[r]][req[r].name]
<1>1. /\ req[r] \in Request /\ e.rights \in SUBSET Rights
      /\ req[r].pc = "permissions"
    BY Fields DEF IInv, LookUpPermissions
<1>2. CASE Valid(e)
    <2> DEFINE q == Answered(req[r], e.rights)
    <2>1. req' = [req EXCEPT ![r] = q]
        BY <1>2 DEF LookUpPermissions
    <2>2. /\ q \in Request /\ q.pc \in {"idle", "setGroup"}
          /\ q.pc # "idle" => q.began = req[r].began
        BY <1>1, AnsweredTyped
    <2> HIDE DEF q
    <2>3. BackedRequest(q)
        BY <2>2, DoneBacked
    <2> QED BY <1>1, <2>1, <2>2, <2>3, RequestGoesOn DEF LookUpPermissions
<1>3. CASE ~Valid(e)
    <2> DEFINE q == [req[r] EXCEPT !.pc = "groups"]
    <2>1. req' = [req EXCEPT ![r] = q]
        BY <1>3 DEF LookUpPermissions
    <2>2. /\ q \in Request /\ q.pc = "groups" /\ q.began = req[r].began
          /\ q.name = req[r].name /\ q.seen = req[r].seen
        BY <1>1 DEF Request
    <2> HIDE DEF q
    <2>3. BackedRequest(q)
        BY <1>1, <2>2 DEF IInv, RequestsBacked, BackedRequest
    <2> QED BY <1>1, <2>1, <2>2, <2>3, RequestGoesOn DEF LookUpPermissions
<1> QED BY <1>2, <1>3

LEMMA LookUpGroupsPreserves ==
    ASSUME IInv, NEW r \in Requests, LookUpGroups(r)
    PROVE  IInv'
<1> DEFINE n == req[r].name
           e == groups[workerOf[r]][n]
<1>1. /\ req[r] \in Request /\ e.rights \in SUBSET Rights /\ e.until \in Int
      /\ req[r].pc = "groups" /\ n \in Names /\ now \in Int /\ req[r].began \in Int
    BY Fields DEF IInv, LookUpGroups
<1>2. CASE Valid(e)
    <2> DEFINE q == [req[r] EXCEPT !.pc = "storePermissions", !.seen = e.rights]
    <2>1. req' = [req EXCEPT ![r] = q]
        BY <1>2 DEF LookUpGroups
    <2>2. /\ q \in Request /\ q.pc = "storePermissions" /\ q.began = req[r].began
          /\ q.name = n /\ q.seen = e.rights
        BY <1>1 DEF Request
    <2>3. HeldSince(n, e.rights, e.until - Timeout - MaxRequest)
        BY <1>1, Fields DEF IInv, GroupsBacked, BackedGroups
    <2>4. req[r].began <= now
        BY <1>1 DEF IInv, RequestsShort, ShortRequest
    <2>5. now < e.until
        BY <1>2 DEF Valid
    <2> HIDE DEF q, e, n
    <2>6. req[r].began - Timeout - MaxRequest + 1 <= e.until - Timeout - MaxRequest
        BY <1>1, <2>4, <2>5, Numbers
    <2>7. HeldSince(n, e.rights, req[r].began - Timeout - MaxRequest + 1)
        BY <1>1, <2>3, <2>6, Numbers, HeldSinceEarlier DEF IInv
    <2>8. BackedRequest(q)
        BY <2>2, <2>7 DEF BackedRequest
    <2> QED BY <1>1, <2>1, <2>2, <2>8, RequestGoesOn DEF LookUpGroups
<1>3. CASE ~Valid(e)
    <2> DEFINE q == [req[r] EXCEPT !.pc = "query"]
    <2>1. req' = [req EXCEPT ![r] = q]
        BY <1>3 DEF LookUpGroups
    <2>2. /\ q \in Request /\ q.pc = "query" /\ q.began = req[r].began
          /\ q.name = req[r].name /\ q.seen = req[r].seen
        BY <1>1 DEF Request
    <2> HIDE DEF q
    <2>3. BackedRequest(q)
        BY <1>1, <2>2 DEF IInv, RequestsBacked, BackedRequest
    <2> QED BY <1>1, <2>1, <2>2, <2>3, RequestGoesOn DEF LookUpGroups
<1> QED BY <1>2, <1>3

LEMMA QueryGroupsPreserves ==
    ASSUME IInv, NEW r \in Requests, QueryGroups(r)
    PROVE  IInv'
<1> DEFINE n    == req[r].name
           more == Granted(secondary[n], rights)
           q    == [req[r] EXCEPT !.pc = "storeGroups", !.seen = @ \cup more]
<1>1. /\ req[r] \in Request /\ req[r].pc = "query" /\ n \in Names /\ now \in Int
      /\ req[r].began \in Int /\ req[r].seen \in SUBSET Rights
    BY Fields DEF IInv, QueryGroups
<1>2. more \in SUBSET Rights
    BY <1>1, RightsAreRights, TablesTyped DEF IInv
<1>3. req' = [req EXCEPT ![r] = q]
    BY DEF QueryGroups, IInv, TypeOK
<1>4. /\ q \in Request /\ q.pc = "storeGroups" /\ q.began = req[r].began
      /\ q.name = n /\ q.seen = req[r].seen \cup more
    <2> HIDE DEF more
    <2> QED BY <1>1, <1>2 DEF Request
<1>5. \A x \in more : lastHeld[n][x] = now
    BY <1>1 DEF IInv, RecordUpToDate, RightsOf
<1>6. HeldSince(n, req[r].seen, req[r].began)
    BY <1>1 DEF IInv, RequestsBacked, BackedRequest
<1>7. req[r].began <= now /\ now >= 0
    BY <1>1, Numbers DEF IInv, TypeOK, RequestsShort, ShortRequest
<1> HIDE DEF q, more, n
<1>8. HeldSince(n, req[r].seen \cup more, req[r].began)
    BY <1>1, <1>5, <1>6, <1>7 DEF HeldSince
<1>9. BackedRequest(q)
    BY <1>4, <1>8 DEF BackedRequest
<1> QED BY <1>1, <1>3, <1>4, <1>9, RequestGoesOn DEF QueryGroups

\* The groups are stored at most MaxRequest ticks after the request began.
LEMMA StoreGroupsPreserves ==
    ASSUME IInv, NEW r \in Requests, StoreGroups(r)
    PROVE  IInv'
<1> DEFINE n == req[r].name
           w == workerOf[r]
           e == EntryOf(req[r].seen)
           q == [req[r] EXCEPT !.pc = "storePermissions"]
<1>1. /\ req[r] \in Request /\ req[r].pc = "storeGroups" /\ n \in Names /\ w \in Workers
      /\ now \in Int /\ req[r].began \in Int /\ req[r].seen \in SUBSET Rights
    BY Fields DEF IInv, StoreGroups
<1>2. req' = [req EXCEPT ![r] = q] /\ groups' = [groups EXCEPT ![w][n] = e]
    BY DEF StoreGroups
<1>3. /\ q \in Request /\ q.pc = "storePermissions" /\ q.began = req[r].began
      /\ q.name = n /\ q.seen = req[r].seen
    BY <1>1 DEF Request
<1>4. e \in Entry /\ e.until = now + Timeout /\ e.rights = req[r].seen
    BY <1>1, EntriesTyped DEF IInv
<1>5. HeldSince(n, req[r].seen, req[r].began)
    BY <1>1 DEF IInv, RequestsBacked, BackedRequest
<1>6. now - req[r].began <= MaxRequest
    BY <1>1 DEF IInv, RequestsShort, ShortRequest
<1> HIDE DEF q, e, n, w
<1>7. BackedGroups(n, e)
    <2>1. e.until - Timeout - MaxRequest <= req[r].began
        BY <1>1, <1>4, <1>6, Numbers
    <2>2. e.until - Timeout - MaxRequest \in Int
        BY <1>1, <1>4, Numbers
    <2>3. HeldSince(n, req[r].seen, e.until - Timeout - MaxRequest)
        BY <1>1, <1>5, <2>1, <2>2, HeldSinceEarlier DEF IInv
    <2> QED BY <1>4, <2>3 DEF BackedGroups
<1>8. BackedRequest(q)
    <2>1. req[r].began - Timeout - MaxRequest + 1 <= req[r].began
        BY <1>1, Numbers
    <2>2. req[r].began - Timeout - MaxRequest + 1 \in Int
        BY <1>1, Numbers
    <2>3. HeldSince(n, req[r].seen, req[r].began - Timeout - MaxRequest + 1)
        BY <1>1, <1>5, <2>1, <2>2, HeldSinceEarlier DEF IInv
    <2> QED BY <1>3, <2>3 DEF BackedRequest
<1>9. ShortRequest(q)
    BY <1>1, <1>3 DEF IInv, RequestsShort, ShortRequest
<1>10. groups' \in [Workers -> [Names -> Entry]]
    BY <1>2, <1>4 DEF IInv, TypeOK
<1>11. \A v \in Workers, m \in Names : BackedGroups(m, groups'[v][m])
    <2>1. \A v \in Workers, m \in Names :
            groups'[v][m] = IF v = w /\ m = n THEN e ELSE groups[v][m]
        BY <1>1, <1>2 DEF IInv, TypeOK
    <2> QED BY <1>7, <2>1 DEF IInv, GroupsBacked
<1>12. UNCHANGED <<tables, perms, workerOf, now, lastHeld, lastBy>>
    BY DEF StoreGroups
<1> QED BY <1>2, <1>3, <1>8, <1>9, <1>10, <1>11, <1>12, QuietStep
        DEF IInv, TypeOK, PermsBacked

\* The permissions are stored at most MaxRequest ticks after a request began that
\* may have found groups stored before.
LEMMA StorePermissionsPreserves ==
    ASSUME IInv, NEW r \in Requests, StorePermissions(r)
    PROVE  IInv'
<1> DEFINE n == req[r].name
           w == workerOf[r]
           e == EntryOf(req[r].seen)
           q == Answered(req[r], req[r].seen)
<1>1. /\ req[r] \in Request /\ req[r].pc = "storePermissions" /\ n \in Names
      /\ w \in Workers /\ now \in Int /\ req[r].began \in Int
      /\ req[r].seen \in SUBSET Rights
    BY Fields DEF IInv, StorePermissions
<1>2. req' = [req EXCEPT ![r] = q] /\ perms' = [perms EXCEPT ![w][n] = e]
    BY DEF StorePermissions, IInv, TypeOK
<1>3. /\ q \in Request /\ q.pc \in {"idle", "setGroup"}
      /\ q.pc # "idle" => q.began = req[r].began
    BY <1>1, AnsweredTyped
<1>4. e \in Entry /\ e.until = now + Timeout /\ e.rights = req[r].seen
    BY <1>1, EntriesTyped DEF IInv
<1>5. HeldSince(n, req[r].seen, req[r].began - Timeout - MaxRequest + 1)
    BY <1>1 DEF IInv, RequestsBacked, BackedRequest
<1>6. now - req[r].began <= MaxRequest
    BY <1>1 DEF IInv, RequestsShort, ShortRequest
<1> HIDE DEF q, e, n, w
<1>7. BackedPerms(n, e)
    <2> DEFINE old == req[r].began - Timeout - MaxRequest + 1
               new == e.until - 2 * Timeout - 2 * MaxRequest + 1
    <2>1. new <= old /\ new \in Int /\ old \in Int
        BY <1>1, <1>4, <1>6, Numbers
    <2>2. HeldSince(n, req[r].seen, old)
        BY <1>5
    <2> HIDE DEF old, new
    <2>3. HeldSince(n, req[r].seen, new)
        BY <1>1, <2>1, <2>2, HeldSinceEarlier DEF IInv
    <2> QED BY <1>4, <2>3 DEF BackedPerms, new
<1>8. BackedRequest(q)
    BY <1>3, DoneBacked
<1>9. ShortRequest(q)
    BY <1>1, <1>3 DEF IInv, RequestsShort, ShortRequest
<1>10. perms' \in [Workers -> [Names -> Entry]]
    BY <1>2, <1>4 DEF IInv, TypeOK
<1>11. \A v \in Workers, m \in Names : BackedPerms(m, perms'[v][m])
    <2>1. \A v \in Workers, m \in Names :
            perms'[v][m] = IF v = w /\ m = n THEN e ELSE perms[v][m]
        BY <1>1, <1>2 DEF IInv, TypeOK
    <2> QED BY <1>7, <2>1 DEF IInv, PermsBacked
<1>12. UNCHANGED <<tables, groups, workerOf, now, lastHeld, lastBy>>
    BY DEF StorePermissions
<1> QED BY <1>2, <1>3, <1>8, <1>9, <1>10, <1>11, <1>12, QuietStep
        DEF IInv, TypeOK, GroupsBacked

LEMMA DropPermissionsPreserves ==
    ASSUME IInv, NEW r \in Requests, DropPermissions(r)
    PROVE  IInv'
<1> DEFINE q == [req[r] EXCEPT !.pc = "dropGroups"]
<1>1. /\ req[r] \in Request /\ req[r].as \in Names /\ workerOf[r] \in Workers
      /\ req[r].pc = "dropPermissions"
    BY Fields DEF IInv, DropPermissions
<1>2. /\ req' = [req EXCEPT ![r] = q]
      /\ perms' = Dropped(perms, workerOf[r], req[r].as)
      /\ UNCHANGED <<tables, groups, workerOf, now, lastHeld, lastBy>>
    BY DEF DropPermissions
<1>3. q \in Request /\ q.pc = "dropGroups" /\ q.began = req[r].began
    BY <1>1 DEF Request
<1> HIDE DEF q
<1>4. ShortRequest(q) /\ BackedRequest(q)
    BY <1>1, <1>3, DoneBacked DEF IInv, RequestsShort, ShortRequest
<1>5. /\ perms' \in [Workers -> [Names -> Entry]]
      /\ \A w \in Workers, n \in Names : perms'[w][n] \in {perms[w][n], Absent}
    BY <1>1, <1>2, DroppedTyped DEF IInv, TypeOK
<1>6. \A w \in Workers, n \in Names : BackedPerms(n, perms'[w][n])
    BY <1>5, AbsentBacked DEF IInv, PermsBacked
<1> QED BY <1>2, <1>3, <1>4, <1>5, <1>6, QuietStep DEF IInv, TypeOK, GroupsBacked

LEMMA DropGroupsPreserves ==
    ASSUME IInv, NEW r \in Requests, DropGroups(r)
    PROVE  IInv'
<1> DEFINE q == IF req[r].job = "edit" THEN [req[r] EXCEPT !.pc = "commit"] ELSE Idle
<1>1. /\ req[r] \in Request /\ req[r].as \in Names /\ workerOf[r] \in Workers
      /\ req[r].pc = "dropGroups"
    BY Fields DEF IInv, DropGroups
<1>2. /\ req' = [req EXCEPT ![r] = q]
      /\ groups' = Dropped(groups, workerOf[r], req[r].as)
      /\ UNCHANGED <<tables, perms, workerOf, now, lastHeld>>
    BY DEF DropGroups, IInv, TypeOK
<1>3. q \in Request /\ q.pc \in {"commit", "idle"} /\ (q.pc # "idle" => q.began = req[r].began)
    <2>1. Idle \in Request /\ Idle.pc = "idle"
        BY <1>1, IdleTyped
    <2> QED BY <1>1, <2>1 DEF Request
<1> HIDE DEF q
<1>4. ShortRequest(q) /\ BackedRequest(q)
    BY <1>1, <1>3, DoneBacked DEF IInv, RequestsShort, ShortRequest
<1>5. /\ groups' \in [Workers -> [Names -> Entry]]
      /\ \A w \in Workers, n \in Names : groups'[w][n] \in {groups[w][n], Absent}
    BY <1>1, <1>2, DroppedTyped DEF IInv, TypeOK
<1>6. \A w \in Workers, n \in Names : BackedGroups(n, groups'[w][n])
    BY <1>5, AbsentBacked DEF IInv, GroupsBacked
<1>7. lastBy' \in [Names -> Workers \cup {None}]
    BY <1>1 DEF DropGroups, IInv, TypeOK
<1> QED BY <1>2, <1>3, <1>4, <1>5, <1>6, <1>7, QuietStep DEF IInv, TypeOK, PermsBacked

-----------------------------------------------------------------------------
(* Steps that write the tables or move the clock.                          *)

\* They leave the caches alone and end requests or let them be; the record they
\* write only grows.
LEMMA WriteStep ==
    ASSUME IInv, NEW t \in Times, now <= t, now' = t,
           primary' \in [Names -> Groups \cup {None}],
           secondary' \in [Names -> SUBSET Groups],
           rights' \in [Groups -> SUBSET Rights],
           lastBy' \in [Names -> Workers \cup {None}],
           Remember(t, primary', secondary', rights'),
           UNCHANGED <<groups, perms, workerOf>>,
           req' \in [Requests -> Request],
           \A r \in Requests :
                /\ ShortRequest(req[r]) => ShortRequest(req[r])'
                /\ req'[r] # req[r] => req'[r].pc \in {"idle", "dropPermissions"}
    PROVE  IInv'
<1>1. /\ lastHeld' \in [Names -> [Rights -> Times \cup {-1}]]
      /\ \A n \in Names, x \in Rights :
            lastHeld[n][x] <= lastHeld'[n][x] /\ lastHeld'[n][x] <= t
      /\ \A n \in Names : \A x \in RightsOf(n, primary', secondary', rights') :
            lastHeld'[n][x] = t
    BY RecordGrows DEF IInv
<1>2. TypeOK'
    BY <1>1 DEF IInv, TypeOK
<1>3. RecordUpToDate'
    BY <1>1 DEF RecordUpToDate, RightsOf, OwnRights, Granted
<1>4. \A n \in Names, s \in SUBSET Rights, u \in Int :
            HeldSince(n, s, u) => HeldSince(n, s, u)'
    BY <1>1, HeldSinceKept DEF HeldSince, IInv, TypeOK
<1>5. RequestsShort'
    BY DEF IInv, RequestsShort
<1>6. RequestsBacked'
    <2> SUFFICES ASSUME NEW r \in Requests PROVE BackedRequest(req[r])'
        BY DEF RequestsBacked
    <2>1. CASE req'[r] = req[r]
        <3>1. /\ req[r].name \in Names /\ req[r].seen \in SUBSET Rights
              /\ req[r].began \in Int
              /\ req[r].began - Timeout - MaxRequest + 1 \in Int
            BY Fields, Numbers DEF IInv
        <3>2. BackedRequest(req[r])
            BY DEF IInv, RequestsBacked
        <3>3. /\ HeldSince(req[r].name, req[r].seen, req[r].began)
                    => HeldSince(req[r].name, req[r].seen, req[r].began)'
              /\ HeldSince(req[r].name, req[r].seen, req[r].began - Timeout - MaxRequest + 1)
                    => HeldSince(req[r].name, req[r].seen,
                                 req[r].began - Timeout - MaxRequest + 1)'
            BY <2>1, <3>1, <1>4 DEF HeldSince
        <3> QED BY <2>1, <3>2, <3>3 DEF BackedRequest
    <2>2. CASE req'[r] # req[r]
        <3>1. req'[r].pc \in {"idle", "dropPermissions"}
            BY <2>2
        <3> QED BY <3>1 DEF BackedRequest
    <2> QED BY <2>1, <2>2
<1>7. GroupsBacked'
    <2> SUFFICES ASSUME NEW w \in Workers, NEW n \in Names
                 PROVE  BackedGroups(n, groups[w][n])'
        BY DEF GroupsBacked
    <2>1. /\ groups[w][n].rights \in SUBSET Rights
          /\ groups[w][n].until - Timeout - MaxRequest \in Int
        BY Fields, Numbers DEF IInv
    <2>2. HeldSince(n, groups[w][n].rights, groups[w][n].until - Timeout - MaxRequest)
        BY DEF IInv, GroupsBacked, BackedGroups
    <2> QED BY <2>1, <2>2, <1>4 DEF BackedGroups, HeldSince
<1>8. PermsBacked'
    <2> SUFFICES ASSUME NEW w \in Workers, NEW n \in Names
                 PROVE  BackedPerms(n, perms[w][n])'
        BY DEF PermsBacked
    <2> DEFINE u == perms[w][n].until - 2 * Timeout - 2 * MaxRequest + 1
    <2>1. perms[w][n].rights \in SUBSET Rights /\ u \in Int
        BY Fields, Numbers DEF IInv
    <2>2. HeldSince(n, perms[w][n].rights, u)
        BY DEF IInv, PermsBacked, BackedPerms
    <2> QED BY <2>1, <2>2, <1>4 DEF BackedPerms, HeldSince
<1> QED BY <1>2, <1>3, <1>5, <1>6, <1>7, <1>8 DEF IInv

\* A step that takes no time and ends a request, or gives it an entry to drop.
LEMMA TimelessWrite ==
    ASSUME IInv, UNCHANGED <<groups, perms, workerOf, now>>,
           primary' \in [Names -> Groups \cup {None}],
           secondary' \in [Names -> SUBSET Groups],
           rights' \in [Groups -> SUBSET Rights],
           lastBy' \in [Names -> Workers \cup {None}],
           Remember(now, primary', secondary', rights'),
           \/ req' = req
           \/ \E r \in Requests, q \in Request :
                /\ req' = [req EXCEPT ![r] = q]
                /\ \/ q.pc = "idle"
                   \/ /\ q.pc = "dropPermissions" /\ q.began = req[r].began
                      /\ req[r].pc # "idle"
    PROVE  IInv'
<1>1. now \in Times /\ now <= now
    BY Numbers DEF IInv, TypeOK
<1>2. /\ req' \in [Requests -> Request]
      /\ \A r \in Requests :
            \/ req'[r] = req[r]
            \/ req'[r].pc = "idle"
            \/ /\ req'[r].pc = "dropPermissions" /\ req'[r].began = req[r].began
               /\ req[r].pc # "idle"
    <2>1. CASE req' = req
        BY <2>1 DEF IInv, TypeOK
    <2>2. ASSUME NEW r \in Requests, NEW q \in Request, req' = [req EXCEPT ![r] = q],
                 \/ q.pc = "idle"
                 \/ /\ q.pc = "dropPermissions" /\ q.began = req[r].began
                    /\ req[r].pc # "idle"
          PROVE  <1>2!:
        <3>1. \A k \in Requests : req'[k] = IF k = r THEN q ELSE req[k]
            BY <2>2 DEF IInv, TypeOK
        <3> QED BY <2>2, <3>1 DEF IInv, TypeOK
    <2> QED BY <2>1, <2>2
<1>3. \A r \in Requests :
        /\ ShortRequest(req[r]) => ShortRequest(req[r])'
        /\ req'[r] # req[r] => req'[r].pc \in {"idle", "dropPermissions"}
    BY <1>2 DEF ShortRequest
<1> QED BY <1>1, <1>2, <1>3, WriteStep

LEMMA SetPrimaryGroupPreserves ==
    ASSUME IInv, NEW r \in Requests, req[r].pc = "setGroup", NEW g \in Groups,
           SetPrimaryGroup(r, g)
    PROVE  IInv'
<1> DEFINE n == req[r].name
           q == [req[r] EXCEPT !.pc = "dropPermissions"]
<1>1. req[r] \in Request /\ n \in Names
    BY Fields DEF IInv
<1>2. q \in Request /\ q.pc = "dropPermissions" /\ q.began = req[r].began
    BY <1>1 DEF Request
<1>3. Idle \in Request /\ Idle.pc = "idle"
    BY <1>1, IdleTyped
<1>4. /\ primary' \in [Names -> Groups \cup {None}] /\ secondary' = secondary
      /\ rights' = rights /\ lastBy' \in [Names -> Workers \cup {None}]
      /\ req' = [req EXCEPT ![r] = Idle] \/ req' = [req EXCEPT ![r] = q]
    <2>1. CASE primary[n] = None
        BY <2>1 DEF SetPrimaryGroup, IInv, TypeOK
    <2>2. CASE primary[n] # None
        <3> DEFINE new == IF req[r].group = g THEN primary[n] ELSE g
        <3>1. primary' = [primary EXCEPT ![n] = new]
            BY <2>2 DEF SetPrimaryGroup
        <3>2. new \in Groups \cup {None}
            BY <1>1 DEF IInv, TypeOK
        <3>3. req' = [req EXCEPT ![r] = q] /\ lastBy' = [lastBy EXCEPT ![n] = None]
            BY <2>2 DEF SetPrimaryGroup, IInv, TypeOK
        <3>4. secondary' = secondary /\ rights' = rights
            BY DEF SetPrimaryGroup
        <3> HIDE DEF new, q
        <3> QED BY <1>1, <3>1, <3>2, <3>3, <3>4 DEF IInv, TypeOK
    <2> QED BY <2>1, <2>2
<1>5. /\ UNCHANGED <<groups, perms, workerOf, now>>
      /\ Remember(now, primary', secondary', rights')
    BY <1>4 DEF SetPrimaryGroup
<1> HIDE DEF q
<1> QED BY <1>2, <1>3, <1>4, <1>5, TimelessWrite DEF IInv, TypeOK

LEMMA EditUserPreserves ==
    ASSUME IInv, NEW r \in Requests, EditUser(r)
    PROVE  IInv'
<1>1. /\ req[r].name \in Names /\ req[r].as \in Names /\ workerOf[r] \in Workers
    BY Fields DEF IInv
<1>2. Idle \in Request /\ Idle.pc = "idle" /\ req' = [req EXCEPT ![r] = Idle]
    BY <1>1, IdleTyped DEF EditUser
<1>3. /\ primary' \in [Names -> Groups \cup {None}]
      /\ secondary' \in [Names -> SUBSET Groups]
      /\ lastBy' \in [Names -> Workers \cup {None}]
    <2> DEFINE n == req[r].name
               m == req[r].as
    <2>1. CASE UNCHANGED <<primary, secondary, lastBy>>
        BY <2>1 DEF IInv, TypeOK
    <2>2. ASSUME NEW g \in Groups, NEW more \in SUBSET Groups,
                 primary' = [primary EXCEPT ![n] = None, ![m] = g],
                 secondary' = [secondary EXCEPT ![n] = {}, ![m] = more \ {g}],
                 lastBy' = [lastBy EXCEPT ![n] = None, ![m] = workerOf[r]]
          PROVE  <1>3!:
        <3> HIDE DEF n, m
        <3>1. primary' \in [Names -> Groups \cup {None}]
            BY <2>2 DEF IInv, TypeOK
        <3>2. secondary' \in [Names -> SUBSET Groups]
            BY <2>2 DEF IInv, TypeOK
        <3>3. lastBy' \in [Names -> Workers \cup {None}]
            BY <1>1, <2>2 DEF IInv, TypeOK
        <3> QED BY <3>1, <3>2, <3>3
    <2> QED BY <2>1, <2>2 DEF EditUser
<1>4. /\ UNCHANGED <<groups, perms, workerOf, now, rights>>
      /\ Remember(now, primary', secondary', rights')
    BY DEF EditUser
<1> QED BY <1>2, <1>3, <1>4, TimelessWrite DEF IInv, TypeOK

LEMMA EditGroupPreserves ==
    ASSUME IInv, NEW w \in Workers, NEW g \in Groups, NEW columns \in SUBSET Rights,
           EditGroup(w, g, columns)
    PROVE  IInv'
<1>1. /\ rights' \in [Groups -> SUBSET Rights]
      /\ lastBy' \in [Names -> Workers \cup {None}]
    BY DEF EditGroup, IInv, TypeOK
<1>2. /\ UNCHANGED <<groups, perms, workerOf, now, primary, secondary, req>>
      /\ Remember(now, primary', secondary', rights')
    BY DEF EditGroup
<1> QED BY <1>1, <1>2, TimelessWrite DEF IInv, TypeOK

LEMMA RegisterPreserves ==
    ASSUME IInv, NEW n \in Names, Register(n)
    PROVE  IInv'
<1>1. /\ primary' \in [Names -> Groups \cup {None}]
      /\ lastBy' \in [Names -> Workers \cup {None}]
    BY GroupAssumption DEF Register, IInv, TypeOK
<1>2. /\ UNCHANGED <<groups, perms, workerOf, now, secondary, rights, req>>
      /\ Remember(now, primary', secondary', rights')
    BY DEF Register
<1> QED BY <1>1, <1>2, TimelessWrite DEF IInv, TypeOK

LEMMA DeleteUserPreserves ==
    ASSUME IInv, NEW n \in Names, DeleteUser(n)
    PROVE  IInv'
<1>1. /\ primary' \in [Names -> Groups \cup {None}]
      /\ secondary' \in [Names -> SUBSET Groups]
      /\ lastBy' \in [Names -> Workers \cup {None}]
    BY DEF DeleteUser, IInv, TypeOK
<1>2. /\ UNCHANGED <<groups, perms, workerOf, now, rights, req>>
      /\ Remember(now, primary', secondary', rights')
    BY DEF DeleteUser
<1> QED BY <1>1, <1>2, TimelessWrite DEF IInv, TypeOK

LEMMA TickPreserves ==
    ASSUME IInv, Tick
    PROVE  IInv'
<1>1. now \in Int /\ now + 1 \in Times /\ now <= now + 1
    BY Numbers DEF Tick, IInv, TypeOK, Times
<1>2. /\ UNCHANGED <<groups, perms, workerOf, primary, secondary, rights, req, lastBy>>
      /\ Remember(now + 1, primary', secondary', rights')
      /\ now' = now + 1
    BY DEF Tick, tables
<1>3. ASSUME NEW r \in Requests, ShortRequest(req[r])
      PROVE  ShortRequest(req[r])'
    <2>1. req[r].began \in Int
        BY Fields DEF IInv
    <2>2. req[r].pc # "idle" => now - req[r].began < MaxRequest
        BY DEF Tick
    <2> QED BY <1>1, <1>2, <1>3, <2>1, <2>2, Numbers DEF ShortRequest
<1> QED BY <1>1, <1>2, <1>3, WriteStep DEF IInv, TypeOK

-----------------------------------------------------------------------------
(* Theorems.                                                               *)

LEMMA InitEstablishes == Init => IInv
<1> SUFFICES ASSUME Init PROVE IInv
    OBVIOUS
<1>1. primary \in [Names -> Groups \cup {None}]
    BY GroupAssumption DEF Init
<1>2. secondary \in [Names -> SUBSET Groups] /\ \A n \in Names : secondary[n] = {}
    BY DEF Init
<1>3. rights \in [Groups -> SUBSET Rights]
    BY RightAssumption DEF Init
<1>4. 0 \in Times /\ now = 0
    BY Numbers DEF Init, Times
<1>5. \A n \in Names : RightsOf(n, primary, secondary, rights) = OwnRights(n, primary, rights)
    BY <1>2 DEF RightsOf, Granted
<1>6. /\ lastHeld \in [Names -> [Rights -> Times \cup {-1}]]
      /\ \A n \in Names, x \in Rights : lastHeld[n][x] <= 0
      /\ \A n \in Names : \A x \in Rights :
            x \in OwnRights(n, primary, rights) => lastHeld[n][x] = 0
    BY <1>4 DEF Init
<1>7. \A n \in Names : OwnRights(n, primary, rights) \subseteq Rights
    BY <1>1, <1>2, <1>3, RightsAreRights
<1>8. RecordUpToDate
    BY <1>4, <1>5, <1>6, <1>7 DEF RecordUpToDate
<1>9. \A w \in Workers, n \in Names : groups[w][n] = Absent /\ perms[w][n] = Absent
    BY DEF Init
<1>10. GroupsBacked /\ PermsBacked
    BY <1>9, AbsentBacked DEF GroupsBacked, PermsBacked
<1>11. \A r \in Requests : req[r] = Idle
    BY DEF Init
<1>12. Idle.pc = "idle"
    BY DEF Idle
<1>13. RequestsShort /\ RequestsBacked
    BY <1>11, <1>12, DoneBacked DEF RequestsShort, RequestsBacked, ShortRequest
<1>14. groups \in [Workers -> [Names -> Entry]] /\ perms \in [Workers -> [Names -> Entry]]
    BY AbsentTyped DEF Init
<1>15. req \in [Requests -> Request]
    BY IdleTyped, NameAssumption DEF Init
<1>16. TypeOK
    BY <1>1, <1>2, <1>3, <1>4, <1>6, <1>14, <1>15 DEF Init, TypeOK
<1> QED BY <1>8, <1>10, <1>13, <1>16 DEF IInv

LEMMA NextPreserves == IInv /\ [Next]_vars => IInv'
<1> SUFFICES ASSUME IInv, [Next]_vars PROVE IInv'
    OBVIOUS
<1>1. ASSUME NEW r \in Requests, Step(r) PROVE IInv'
    <2>1. ASSUME NEW job \in Jobs, NEW n \in Names, NEW m \in Names, Start(r, job, n, m)
          PROVE  IInv'
        BY <2>1, StartPreserves
    <2>2. CASE LookUpPermissions(r)
        BY <2>2, LookUpPermissionsPreserves
    <2>3. CASE LookUpGroups(r)
        BY <2>3, LookUpGroupsPreserves
    <2>4. CASE QueryGroups(r)
        BY <2>4, QueryGroupsPreserves
    <2>5. CASE StoreGroups(r)
        BY <2>5, StoreGroupsPreserves
    <2>6. CASE StorePermissions(r)
        BY <2>6, StorePermissionsPreserves
    <2>7. CASE Ban(r)
        BY <2>7, SetPrimaryGroupPreserves, GroupAssumption DEF Ban
    <2>8. CASE Unban(r)
        BY <2>8, SetPrimaryGroupPreserves, GroupAssumption DEF Unban
    <2>9. CASE DropPermissions(r)
        BY <2>9, DropPermissionsPreserves
    <2>10. CASE DropGroups(r)
        BY <2>10, DropGroupsPreserves
    <2>11. CASE EditUser(r)
        BY <2>11, EditUserPreserves
    <2> QED BY <1>1, <2>1, <2>2, <2>3, <2>4, <2>5, <2>6, <2>7, <2>8, <2>9, <2>10, <2>11
            DEF Step
<1>2. ASSUME NEW r \in Requests, NEW g \in Editable, NEW columns \in SUBSET Rights,
             EditGroup(workerOf[r], g, columns)
      PROVE  IInv'
    <2>1. workerOf[r] \in Workers /\ g \in Groups
        BY Fields, EditableAssumption DEF IInv
    <2> QED BY <1>2, <2>1, EditGroupPreserves
<1>3. ASSUME NEW n \in Accounts, Register(n) \/ DeleteUser(n) PROVE IInv'
    BY <1>3, RegisterPreserves, DeleteUserPreserves DEF Accounts
<1>4. CASE Tick
    BY <1>4, TickPreserves
<1>5. CASE UNCHANGED vars
    <2>1. UNCHANGED <<primary, secondary, rights, groups, perms, req, workerOf, now,
                      lastHeld, lastBy>>
        BY <1>5 DEF vars
    <2>2. TypeOK' /\ RecordUpToDate'
        BY <2>1 DEF IInv, TypeOK, RecordUpToDate, RightsOf, OwnRights, Granted
    <2>3. RequestsShort' /\ RequestsBacked'
        BY <2>1 DEF IInv, RequestsShort, RequestsBacked, ShortRequest, BackedRequest, HeldSince
    <2>4. GroupsBacked' /\ PermsBacked'
        BY <2>1 DEF IInv, GroupsBacked, PermsBacked, BackedGroups, BackedPerms, HeldSince
    <2> QED BY <2>2, <2>3, <2>4 DEF IInv
<1> QED BY <1>1, <1>2, <1>3, <1>4, <1>5 DEF Next

\* Every answer that waits in a request or in a cache is backed by what the user
\* was allowed not too long ago, in every reachable state.
THEOREM Invariance == Spec => []IInv
<1>1. Init => IInv
    BY InitEstablishes
<1>2. IInv /\ [Next]_vars => IInv'
    BY NextPreserves
<1> QED BY <1>1, <1>2, PTL DEF Spec

\* Tables, caches and requests hold what their types say.
THEOREM TypeCorrect == Spec => []TypeOK
<1>1. IInv => TypeOK
    BY DEF IInv
<1> QED BY <1>1, Invariance, PTL

\* No worker grants a right that was withdrawn longer ago than two timeouts and two
\* requests, whoever withdrew it (get_permissions, get_groups).
THEOREM WithdrawnInTime == Spec => []NoLateGrant
<1>1. IInv => NoLateGrant
    <2> SUFFICES ASSUME IInv, NEW w \in Workers, NEW n \in Names, Valid(perms[w][n]),
                        NEW x \in perms[w][n].rights
                 PROVE  HeldWithin(n, x, Window)
        BY DEF NoLateGrant
    <2>1. now \in Int /\ perms[w][n].until \in Int /\ x \in Rights
        BY Fields DEF IInv
    <2>2. lastHeld[n][x] \in Times \cup {-1}
        BY <2>1 DEF IInv, TypeOK
    <2>3. lastHeld[n][x] \in Int
        BY <2>2, Numbers
    <2>4. /\ lastHeld[n][x] >= 0
          /\ lastHeld[n][x] >= perms[w][n].until - 2 * Timeout - 2 * MaxRequest + 1
        BY DEF IInv, PermsBacked, BackedPerms, HeldSince
    <2>5. now < perms[w][n].until
        BY DEF Valid
    <2> QED BY <2>1, <2>3, <2>4, <2>5, Numbers DEF HeldWithin, Window
<1> QED BY <1>1, Invariance, PTL

-----------------------------------------------------------------------------
(* What a worker that runs one request at a time knows of its own changes. *)

EntryRight(n, e) == Valid(e) => e.rights = RightsOf(n, primary, secondary, rights)

EntriesRight(w, n) == EntryRight(n, groups[w][n]) /\ EntryRight(n, perms[w][n])

Mine(w, n) == n \in Accounts /\ lastBy[n] = w

\* What request q of worker w has loaded so far of a user w was the last to change.
SeenRight(w, q) ==
    Mine(w, q.name) =>
        /\ q.pc \in {"permissions", "groups", "query"} =>
            q.seen = OwnRights(q.name, primary, rights)
        /\ q.pc \in {"storeGroups", "storePermissions"} =>
            q.seen = RightsOf(q.name, primary, secondary, rights)

\* What it has dropped nobody has stored again.
DroppedSoFar(w, q) ==
    /\ q.pc \in {"dropGroups", "commit"} => perms[w][q.as] = Absent
    /\ q.pc = "commit" => groups[w][q.as] = Absent

Alone(r) == Sequential(workerOf[r])

OwnEntries ==
    \A w \in Workers, n \in Accounts : Sequential(w) /\ Mine(w, n) => EntriesRight(w, n)
OwnRequests ==
    \A r \in Requests :
        Alone(r) => SeenRight(workerOf[r], req[r]) /\ DroppedSoFar(workerOf[r], req[r])

OwnInv == OwnEntries /\ OwnRequests

\* A worker that runs one request at a time runs no other.
LEMMA OnlyRequest ==
    ASSUME NEW r \in Requests, NEW k \in Requests, Alone(r), workerOf[k] = workerOf[r]
    PROVE  k = r
<1> DEFINE S == {i \in Requests : workerOf[i] = workerOf[r]}
<1>1. IsFiniteSet(S)
    BY RequestAssumption, FS_Subset
<1>2. Cardinality(S) = 1
    BY DEF Alone, Sequential
<1>3. PICK x : S = {x}
    BY <1>1, <1>2, FS_Singleton
<1>4. r \in S /\ k \in S
    OBVIOUS
<1> QED BY <1>3, <1>4

\* An entry that is not there is no wrong one.
LEMMA AbsentRight ==
    ASSUME TypeOK
    PROVE  \A n : EntryRight(n, Absent)
<1>1. now >= 0 /\ now \in Int /\ Absent.until = 0
    BY Numbers DEF TypeOK, Absent
<1> QED BY <1>1 DEF EntryRight, Valid

LEMMA AloneStays ==
    ASSUME workerOf' = workerOf
    PROVE  /\ \A w \in Workers : Sequential(w)' <=> Sequential(w)
           /\ \A r \in Requests : Alone(r)' <=> Alone(r)
<1>1. ASSUME NEW w PROVE Sequential(w)' <=> Sequential(w)
    <2>1. {i \in Requests : workerOf'[i] = w} = {i \in Requests : workerOf[i] = w}
        OBVIOUS
    <2> QED BY <2>1 DEF Sequential
<1> QED BY <1>1 DEF Alone

\* A step of a request that leaves the tables and the clock alone concerns its own
\* worker only.
LEMMA OwnQuietStep ==
    ASSUME TypeOK, OwnInv, UNCHANGED <<tables, workerOf, now>>,
           NEW r \in Requests, \A k \in Requests : k # r => req'[k] = req[k],
           \A n \in Accounts : lastBy'[n] = lastBy[n] \/ lastBy'[n] = workerOf[r],
           \A w \in Workers : w # workerOf[r] => UNCHANGED <<groups[w], perms[w]>>,
           Alone(r) =>
                /\ \A n \in Accounts : Mine(workerOf[r], n)' => EntriesRight(workerOf[r], n)'
                /\ SeenRight(workerOf[r], req[r])'
                /\ DroppedSoFar(workerOf[r], req[r])'
    PROVE  OwnInv'
<1>1. \A k \in Requests : k # r => req'[k] = req[k]
    OBVIOUS
<1>2. /\ \A w \in Workers : Sequential(w)' <=> Sequential(w)
      /\ \A k \in Requests : Alone(k)' <=> Alone(k)
    BY AloneStays
<1>3. \A n : /\ RightsOf(n, primary, secondary, rights)' = RightsOf(n, primary, secondary, rights)
             /\ OwnRights(n, primary, rights)' = OwnRights(n, primary, rights)
    BY DEF tables, RightsOf, OwnRights, Granted
<1>4. ASSUME NEW w \in Workers, NEW n \in Accounts, Sequential(w)', Mine(w, n)'
      PROVE  EntriesRight(w, n)'
    <2>1. CASE w = workerOf[r]
        BY <1>2, <1>4, <2>1 DEF Alone
    <2>2. CASE w # workerOf[r]
        <3>1. Sequential(w) /\ Mine(w, n)
            BY <1>2, <1>4, <2>2 DEF Mine
        <3>2. EntriesRight(w, n)
            BY <3>1 DEF OwnInv, OwnEntries
        <3> QED BY <2>2, <3>2, <1>3 DEF EntriesRight, EntryRight, Valid
    <2> QED BY <2>1, <2>2
<1>5. ASSUME NEW k \in Requests, Alone(k)'
      PROVE  SeenRight(workerOf[k], req[k])' /\ DroppedSoFar(workerOf[k], req[k])'
    <2>1. CASE k = r
        BY <1>2, <1>5, <2>1
    <2>2. CASE k # r
        <3>1. workerOf[r] # workerOf[k] /\ workerOf[k] \in Workers /\ Alone(k)
            BY <1>2, <1>5, <2>2, OnlyRequest, Fields
        <3>2. SeenRight(workerOf[k], req[k]) /\ DroppedSoFar(workerOf[k], req[k])
            BY <3>1 DEF OwnInv, OwnRequests
        <3>3. /\ req'[k] = req[k] /\ workerOf'[k] = workerOf[k]
              /\ UNCHANGED <<groups[workerOf[k]], perms[workerOf[k]]>>
            BY <1>1, <2>2, <3>1
        <3>4. Mine(workerOf[k], req[k].name)' => Mine(workerOf[k], req[k].name)
            BY <3>1, <3>3 DEF Mine
        <3>5. SeenRight(workerOf[k], req[k])'
            BY <3>2, <3>3, <3>4, <1>3 DEF SeenRight
        <3>6. DroppedSoFar(workerOf[k], req[k])'
            BY <3>2, <3>3 DEF DroppedSoFar
        <3> QED BY <3>5, <3>6
    <2> QED BY <2>1, <2>2
<1> QED BY <1>4, <1>5 DEF OwnInv, OwnEntries, OwnRequests

\* A step that only takes a request on leaves it with what it may have seen.
LEMMA OwnGoesOn ==
    ASSUME TypeOK, OwnInv, UNCHANGED <<tables, groups, perms, workerOf, now, lastBy>>,
           NEW r \in Requests, NEW q, req' = [req EXCEPT ![r] = q],
           Alone(r) => SeenRight(workerOf[r], q) /\ DroppedSoFar(workerOf[r], q)
    PROVE  OwnInv'
<1>1. req'[r] = q /\ \A k \in Requests : k # r => req'[k] = req[k]
    BY DEF TypeOK
<1>2. ASSUME Alone(r)
      PROVE  /\ \A n \in Accounts : Mine(workerOf[r], n)' => EntriesRight(workerOf[r], n)'
             /\ SeenRight(workerOf[r], req[r])'
             /\ DroppedSoFar(workerOf[r], req[r])'
    <2>1. \A n \in Accounts : Mine(workerOf[r], n) => EntriesRight(workerOf[r], n)
        BY <1>2, Fields DEF OwnInv, OwnEntries, Alone
    <2>2. \A n \in Accounts : Mine(workerOf[r], n)' => EntriesRight(workerOf[r], n)'
        BY <2>1 DEF Mine, EntriesRight, EntryRight, Valid, tables, RightsOf, OwnRights, Granted
    <2>3. SeenRight(workerOf[r], req[r])'
        BY <1>1, <1>2 DEF SeenRight, Mine, tables, RightsOf, OwnRights, Granted
    <2>4. DroppedSoFar(workerOf[r], req[r])'
        BY <1>1, <1>2 DEF DroppedSoFar
    <2> QED BY <2>2, <2>3, <2>4
<1> QED BY <1>1, <1>2, OwnQuietStep

LEMMA StartKeepsOwn ==
    ASSUME IInv, OwnInv, NEW r \in Requests, NEW job \in Jobs, NEW n \in Names, NEW m \in Names,
           Start(r, job, n, m)
    PROVE  OwnInv'
<1> DEFINE own == OwnRights(n, primary, rights)
           q == [pc |-> IF job = "edit" THEN "dropPermissions" ELSE "permissions",
                 job |-> job, name |-> n, as |-> m, began |-> now,
                 group |-> IF job \in {"ban", "unban"} THEN primary[n] ELSE Member,
                 seen |-> IF job = "edit" THEN {} ELSE own]
<1>1. /\ UNCHANGED <<tables, groups, perms, workerOf, now, lastBy>>
      /\ req' = [req EXCEPT ![r] = q]
    BY DEF Start
<1>2. /\ q.name = n /\ q.pc \in {"permissions", "dropPermissions"}
      /\ q.pc = "permissions" => q.seen = own
    OBVIOUS
<1> HIDE DEF q
<1>3. SeenRight(workerOf[r], q) /\ DroppedSoFar(workerOf[r], q)
    BY <1>2 DEF SeenRight, DroppedSoFar
<1> QED BY <1>1, <1>3, OwnGoesOn DEF IInv

LEMMA AnsweredOwn ==
    ASSUME TypeOK, NEW r \in Requests, NEW s \in SUBSET Rights, NEW w
    PROVE  SeenRight(w, Answered(req[r], s)) /\ DroppedSoFar(w, Answered(req[r], s))
<1>1. Answered(req[r], s).pc \in {"idle", "setGroup"}
    BY Fields, AnsweredTyped
<1> QED BY <1>1 DEF SeenRight, DroppedSoFar

LEMMA LookUpPermissionsKeepsOwn ==
    ASSUME IInv, OwnInv, NEW r \in Requests, LookUpPermissions(r)
    PROVE  OwnInv'
<1> DEFINE e == perms[workerOf[r]][req[r].name]
           q == IF Valid(e) THEN Answered(req[r], e.rights) ELSE [req[r] EXCEPT !.pc = "groups"]
<1>1. /\ UNCHANGED <<tables, groups, perms, workerOf, now, lastBy>>
      /\ req' = [req EXCEPT ![r] = q]
      /\ req[r] \in Request /\ e.rights \in SUBSET Rights /\ req[r].pc = "permissions"
    BY Fields DEF LookUpPermissions, IInv
<1>2. ASSUME Alone(r)
      PROVE  SeenRight(workerOf[r], q) /\ DroppedSoFar(workerOf[r], q)
    <2>1. CASE Valid(e)
        <3> HIDE DEF e
        <3> QED BY <1>1, <2>1, AnsweredOwn DEF IInv
    <2>2. CASE ~Valid(e)
        <3>1. /\ q.pc = "groups" /\ q.name = req[r].name /\ q.seen = req[r].seen
            BY <1>1, <2>2 DEF Request
        <3>2. SeenRight(workerOf[r], req[r])
            BY <1>2 DEF OwnInv, OwnRequests
        <3> HIDE DEF q
        <3> QED BY <1>1, <3>1, <3>2 DEF SeenRight, DroppedSoFar
    <2> QED BY <2>1, <2>2
<1> HIDE DEF q
<1> QED BY <1>1, <1>2, OwnGoesOn DEF IInv

LEMMA LookUpGroupsKeepsOwn ==
    ASSUME IInv, OwnInv, NEW r \in Requests, LookUpGroups(r)
    PROVE  OwnInv'
<1> DEFINE w == workerOf[r]
           n == req[r].name
           e == groups[w][n]
           q == IF Valid(e) THEN [req[r] EXCEPT !.pc = "storePermissions", !.seen = e.rights]
                ELSE [req[r] EXCEPT !.pc = "query"]
<1>1. /\ UNCHANGED <<tables, groups, perms, workerOf, now, lastBy>>
      /\ req' = [req EXCEPT ![r] = q]
      /\ req[r] \in Request /\ req[r].pc = "groups" /\ w \in Workers
    BY Fields DEF LookUpGroups, IInv
<1>2. ASSUME Alone(r)
      PROVE  SeenRight(w, q) /\ DroppedSoFar(w, q)
    <2>1. CASE Valid(e)
        <3>1. q.pc = "storePermissions" /\ q.name = n /\ q.seen = e.rights
            BY <1>1, <2>1 DEF Request
        <3>2. ASSUME Mine(w, n)
              PROVE  e.rights = RightsOf(n, primary, secondary, rights)
            <4>1. n \in Accounts
                BY <3>2 DEF Mine
            <4> QED BY <1>1, <1>2, <2>1, <3>2, <4>1
                    DEF OwnInv, OwnEntries, Alone, EntriesRight, EntryRight
        <3> HIDE DEF q, e, n
        <3> QED BY <3>1, <3>2 DEF SeenRight, DroppedSoFar
    <2>2. CASE ~Valid(e)
        <3>1. /\ q.pc = "query" /\ q.name = n /\ q.seen = req[r].seen
            BY <1>1, <2>2 DEF Request
        <3>2. SeenRight(w, req[r])
            BY <1>2 DEF OwnInv, OwnRequests
        <3> HIDE DEF q
        <3> QED BY <1>1, <3>1, <3>2 DEF SeenRight, DroppedSoFar
    <2> QED BY <2>1, <2>2
<1> HIDE DEF q
<1> QED BY <1>1, <1>2, OwnGoesOn DEF IInv

LEMMA QueryGroupsKeepsOwn ==
    ASSUME IInv, OwnInv, NEW r \in Requests, QueryGroups(r)
    PROVE  OwnInv'
<1> DEFINE w == workerOf[r]
           n == req[r].name
           more == Granted(secondary[n], rights)
           q == [req[r] EXCEPT !.pc = "storeGroups", !.seen = @ \cup more]
<1>1. /\ UNCHANGED <<tables, groups, perms, workerOf, now, lastBy>>
      /\ req' = [req EXCEPT ![r] = q]
      /\ req[r] \in Request /\ req[r].pc = "query"
    BY Fields DEF QueryGroups, IInv, TypeOK
<1>2. /\ q.pc = "storeGroups" /\ q.name = n /\ q.seen = req[r].seen \cup more
    <2> HIDE DEF more
    <2> QED BY <1>1 DEF Request
<1>3. ASSUME Alone(r)
      PROVE  SeenRight(w, q) /\ DroppedSoFar(w, q)
    <2>1. SeenRight(w, req[r])
        BY <1>3 DEF OwnInv, OwnRequests
    <2>2. Mine(w, n) => req[r].seen = OwnRights(n, primary, rights)
        BY <1>1, <2>1 DEF SeenRight
    <2>3. Mine(w, n) => q.seen = RightsOf(n, primary, secondary, rights)
        BY <1>2, <2>2 DEF RightsOf
    <2> HIDE DEF q
    <2> QED BY <1>2, <2>3 DEF SeenRight, DroppedSoFar
<1> HIDE DEF q
<1> QED BY <1>1, <1>3, OwnGoesOn DEF IInv

\* A step that changes the entries of one name in the cache of one worker.
OnlyEntry(w, n) ==
    /\ groups' \in [Workers -> [Names -> Entry]]
    /\ perms' \in [Workers -> [Names -> Entry]]
    /\ \A v \in Workers, k \in Names :
        v # w \/ k # n => groups'[v][k] = groups[v][k] /\ perms'[v][k] = perms[v][k]

OnlyChanger(w, n) ==
    /\ \A k \in Names \ {n} : lastBy'[k] = lastBy[k]
    /\ lastBy'[n] \in {lastBy[n], w}

OnlyMoves(r) == \A k \in Requests : k # r => req'[k] = req[k]

LeavesOwn(r, w, n) ==
    /\ Mine(w, n)' => EntriesRight(w, n)'
    /\ SeenRight(w, req[r])'
    /\ DroppedSoFar(w, req[r])'

LEMMA OwnEntryStep ==
    ASSUME TypeOK, OwnInv, UNCHANGED <<tables, workerOf, now>>,
           NEW r \in Requests, OnlyMoves(r),
           NEW w \in Workers, w = workerOf[r],
           NEW n \in Names, OnlyEntry(w, n), OnlyChanger(w, n),
           Alone(r) => LeavesOwn(r, w, n)
    PROVE  OwnInv'
<1>1. \A k \in Accounts : k \in Names
    BY DEF Accounts
<1>2. \A k \in Accounts : lastBy'[k] = lastBy[k] \/ lastBy'[k] = workerOf[r]
    BY <1>1 DEF OnlyChanger
<1>3. ASSUME NEW v \in Workers, v # workerOf[r]
      PROVE  UNCHANGED <<groups[v], perms[v]>>
    <2>1. \A k \in Names : groups'[v][k] = groups[v][k] /\ perms'[v][k] = perms[v][k]
        BY <1>3 DEF OnlyEntry
    <2>2. /\ groups[v] \in [Names -> Entry] /\ perms[v] \in [Names -> Entry]
          /\ groups'[v] \in [Names -> Entry] /\ perms'[v] \in [Names -> Entry]
        BY DEF TypeOK, OnlyEntry
    <2> QED BY <2>1, <2>2
<1>4. ASSUME Alone(r), NEW k \in Accounts, Mine(workerOf[r], k)'
      PROVE  EntriesRight(workerOf[r], k)'
    <2>1. CASE k = n
        BY <1>4, <2>1 DEF LeavesOwn
    <2>2. CASE k # n
        <3>1. Mine(workerOf[r], k)
            BY <1>1, <1>4, <2>2 DEF Mine, OnlyChanger
        <3>2. EntriesRight(workerOf[r], k)
            BY <1>4, <3>1, Fields DEF OwnInv, OwnEntries, Alone
        <3>3. /\ groups'[workerOf[r]][k] = groups[workerOf[r]][k]
              /\ perms'[workerOf[r]][k] = perms[workerOf[r]][k]
            BY <1>1, <2>2, Fields DEF OnlyEntry
        <3> QED BY <3>2, <3>3
                DEF EntriesRight, EntryRight, Valid, tables, RightsOf, OwnRights, Granted
    <2> QED BY <2>1, <2>2
<1>5. Alone(r) => SeenRight(workerOf[r], req[r])' /\ DroppedSoFar(workerOf[r], req[r])'
    BY DEF LeavesOwn, SeenRight, DroppedSoFar
<1> QED BY <1>2, <1>3, <1>4, <1>5, OwnQuietStep DEF OnlyMoves

LEMMA StoreGroupsKeepsOwn ==
    ASSUME IInv, IInv', OwnInv, NEW r \in Requests, StoreGroups(r)
    PROVE  OwnInv'
<1>0. workerOf[r] \in Workers /\ req[r].name \in Names
    BY Fields DEF IInv
<1> PICK w \in Workers : w = workerOf[r]
    BY <1>0
<1> PICK n \in Names : n = req[r].name
    BY <1>0
<1> DEFINE e == EntryOf(req[r].seen)
           q == [req[r] EXCEPT !.pc = "storePermissions"]
<1>1. /\ UNCHANGED <<tables, perms, workerOf, now, lastBy>>
      /\ req' = [req EXCEPT ![r] = q] /\ groups' = [groups EXCEPT ![w][n] = e]
      /\ req[r] \in Request /\ req[r].pc = "storeGroups" /\ w \in Workers /\ n \in Names
    BY Fields DEF StoreGroups, IInv
<1>2. q.pc = "storePermissions" /\ q.name = n /\ q.seen = req[r].seen
    BY <1>1 DEF Request
<1>3. e.rights = req[r].seen
    BY DEF EntryOf
<1>4. /\ groups' \in [Workers -> [Names -> Entry]] /\ perms' \in [Workers -> [Names -> Entry]]
      /\ req' \in [Requests -> Request] /\ req \in [Requests -> Request]
      /\ groups \in [Workers -> [Names -> Entry]]
    BY DEF IInv, TypeOK
<1> HIDE DEF q, e
<1>5. /\ \A v \in Workers, k \in Names :
            v # w \/ k # n => groups'[v][k] = groups[v][k] /\ perms'[v][k] = perms[v][k]
      /\ groups'[w][n] = e /\ req'[r] = q
    BY <1>1, <1>4
<1>6. ASSUME Alone(r)
      PROVE  LeavesOwn(r, w, n)
    <2>1. SeenRight(w, req[r])
        BY <1>6 DEF OwnInv, OwnRequests
    <2>2. Mine(w, n) => req[r].seen = RightsOf(n, primary, secondary, rights)
        BY <1>1, <2>1 DEF SeenRight
    <2>3. Mine(w, n) => EntryRight(n, perms[w][n])
        BY <1>1, <1>6 DEF OwnInv, OwnEntries, Alone, EntriesRight, Mine
    <2>4. Mine(w, n)' => EntriesRight(w, n)'
        BY <1>1, <1>3, <1>5, <2>2, <2>3
           DEF EntriesRight, EntryRight, Mine, Valid, tables, RightsOf, OwnRights, Granted
    <2>5. SeenRight(w, req[r])'
        BY <1>1, <1>2, <1>5, <2>2 DEF SeenRight, Mine, tables, RightsOf, OwnRights, Granted
    <2>6. DroppedSoFar(w, req[r])'
        BY <1>2, <1>5 DEF DroppedSoFar
    <2> QED BY <2>4, <2>5, <2>6 DEF LeavesOwn
<1>7. OnlyMoves(r) /\ OnlyEntry(w, n) /\ OnlyChanger(w, n)
    BY <1>1, <1>4, <1>5 DEF OnlyMoves, OnlyEntry, OnlyChanger
<1> QED BY <1>1, <1>6, <1>7, OwnEntryStep DEF IInv

LEMMA StorePermissionsKeepsOwn ==
    ASSUME IInv, IInv', OwnInv, NEW r \in Requests, StorePermissions(r)
    PROVE  OwnInv'
<1>0. workerOf[r] \in Workers /\ req[r].name \in Names
    BY Fields DEF IInv
<1> PICK w \in Workers : w = workerOf[r]
    BY <1>0
<1> PICK n \in Names : n = req[r].name
    BY <1>0
<1> DEFINE e == EntryOf(req[r].seen)
           q == Answered(req[r], req[r].seen)
<1>1. /\ UNCHANGED <<tables, groups, workerOf, now, lastBy>>
      /\ req' = [req EXCEPT ![r] = q] /\ perms' = [perms EXCEPT ![w][n] = e]
      /\ req[r] \in Request /\ req[r].pc = "storePermissions" /\ w \in Workers /\ n \in Names
      /\ req[r].seen \in SUBSET Rights
    BY Fields DEF StorePermissions, IInv, TypeOK
<1>2. q.pc \in {"idle", "setGroup"}
    BY <1>1, AnsweredTyped
<1>3. e.rights = req[r].seen
    BY DEF EntryOf
<1>4. /\ groups' \in [Workers -> [Names -> Entry]] /\ perms' \in [Workers -> [Names -> Entry]]
      /\ req' \in [Requests -> Request] /\ req \in [Requests -> Request]
      /\ perms \in [Workers -> [Names -> Entry]]
    BY DEF IInv, TypeOK
<1> HIDE DEF q, e
<1>5. /\ \A v \in Workers, k \in Names :
            v # w \/ k # n => groups'[v][k] = groups[v][k] /\ perms'[v][k] = perms[v][k]
      /\ perms'[w][n] = e /\ req'[r] = q
    BY <1>1, <1>4
<1>6. ASSUME Alone(r)
      PROVE  LeavesOwn(r, w, n)
    <2>1. SeenRight(w, req[r])
        BY <1>6 DEF OwnInv, OwnRequests
    <2>2. Mine(w, n) => req[r].seen = RightsOf(n, primary, secondary, rights)
        BY <1>1, <2>1 DEF SeenRight
    <2>3. Mine(w, n) => EntryRight(n, groups[w][n])
        BY <1>1, <1>6 DEF OwnInv, OwnEntries, Alone, EntriesRight, Mine
    <2>4. Mine(w, n)' => EntriesRight(w, n)'
        BY <1>1, <1>3, <1>5, <2>2, <2>3
           DEF EntriesRight, EntryRight, Mine, Valid, tables, RightsOf, OwnRights, Granted
    <2>5. SeenRight(w, req[r])' /\ DroppedSoFar(w, req[r])'
        BY <1>2, <1>5 DEF SeenRight, DroppedSoFar
    <2> QED BY <2>4, <2>5 DEF LeavesOwn
<1>7. OnlyMoves(r) /\ OnlyEntry(w, n) /\ OnlyChanger(w, n)
    BY <1>1, <1>4, <1>5 DEF OnlyMoves, OnlyEntry, OnlyChanger
<1> QED BY <1>1, <1>6, <1>7, OwnEntryStep DEF IInv

LEMMA DroppedValues ==
    ASSUME NEW cache \in [Workers -> [Names -> Entry]], NEW w \in Workers, NEW n \in Names
    PROVE  /\ Dropped(cache, w, n)[w][n] = Absent
           /\ \A v \in Workers, k \in Names :
                v # w \/ k # n => Dropped(cache, w, n)[v][k] = cache[v][k]
BY DEF Dropped

LEMMA DropPermissionsKeepsOwn ==
    ASSUME IInv, IInv', OwnInv, NEW r \in Requests, DropPermissions(r)
    PROVE  OwnInv'
<1>0. workerOf[r] \in Workers /\ req[r].as \in Names
    BY Fields DEF IInv
<1> PICK w \in Workers : w = workerOf[r]
    BY <1>0
<1> PICK n \in Names : n = req[r].as
    BY <1>0
<1> DEFINE q == [req[r] EXCEPT !.pc = "dropGroups"]
<1>1. /\ UNCHANGED <<tables, groups, workerOf, now, lastBy>>
      /\ req' = [req EXCEPT ![r] = q] /\ perms' = Dropped(perms, w, n)
      /\ req[r] \in Request /\ w \in Workers /\ n \in Names
    BY Fields DEF DropPermissions, IInv
<1>2. q.pc = "dropGroups" /\ q.as = n
    BY <1>1 DEF Request
<1>3. /\ groups' \in [Workers -> [Names -> Entry]] /\ perms' \in [Workers -> [Names -> Entry]]
      /\ req \in [Requests -> Request] /\ perms \in [Workers -> [Names -> Entry]]
    BY DEF IInv, TypeOK
<1> HIDE DEF q
<1>4. /\ \A v \in Workers, k \in Names :
            v # w \/ k # n => groups'[v][k] = groups[v][k] /\ perms'[v][k] = perms[v][k]
      /\ perms'[w][n] = Absent /\ req'[r] = q
    <2>1. /\ Dropped(perms, w, n)[w][n] = Absent
          /\ \A v \in Workers, k \in Names :
                v # w \/ k # n => Dropped(perms, w, n)[v][k] = perms[v][k]
        BY <1>3, DroppedValues
    <2> QED BY <1>1, <1>3, <2>1
<1>5. ASSUME Alone(r)
      PROVE  LeavesOwn(r, w, n)
    <2>1. Mine(w, n) => EntryRight(n, groups[w][n])
        BY <1>1, <1>5 DEF OwnInv, OwnEntries, Alone, EntriesRight, Mine
    <2>2. EntryRight(n, Absent)
        BY AbsentRight DEF IInv
    <2>3. Mine(w, n)' => EntriesRight(w, n)'
        BY <1>1, <1>4, <2>1, <2>2
           DEF EntriesRight, EntryRight, Mine, Valid, tables, RightsOf, OwnRights, Granted
    <2>4. SeenRight(w, req[r])' /\ DroppedSoFar(w, req[r])'
        BY <1>1, <1>2, <1>4 DEF SeenRight, DroppedSoFar
    <2> QED BY <2>3, <2>4 DEF LeavesOwn
<1>6. OnlyMoves(r) /\ OnlyEntry(w, n) /\ OnlyChanger(w, n)
    BY <1>1, <1>3, <1>4 DEF OnlyMoves, OnlyEntry, OnlyChanger
<1> QED BY <1>1, <1>5, <1>6, OwnEntryStep DEF IInv

\* ban and unban are done: nothing of the name is left in the cache of the worker.
LEMMA DropGroupsKeepsOwn ==
    ASSUME IInv, IInv', OwnInv, NEW r \in Requests, DropGroups(r)
    PROVE  OwnInv'
<1>0. workerOf[r] \in Workers /\ req[r].as \in Names
    BY Fields DEF IInv
<1> PICK w \in Workers : w = workerOf[r]
    BY <1>0
<1> PICK n \in Names : n = req[r].as
    BY <1>0
<1> DEFINE q == IF req[r].job = "edit" THEN [req[r] EXCEPT !.pc = "commit"] ELSE Idle
<1>1. /\ UNCHANGED <<tables, perms, workerOf, now>>
      /\ req' = [req EXCEPT ![r] = q] /\ groups' = Dropped(groups, w, n)
      /\ req[r] \in Request /\ w \in Workers /\ n \in Names /\ req[r].pc = "dropGroups"
    BY Fields DEF DropGroups, IInv, TypeOK
<1>2. q.pc \in {"commit", "idle"} /\ (q.pc = "commit" => q.as = n)
    BY <1>1 DEF Request, Idle
<1>3. /\ groups' \in [Workers -> [Names -> Entry]] /\ perms' \in [Workers -> [Names -> Entry]]
      /\ req \in [Requests -> Request] /\ groups \in [Workers -> [Names -> Entry]]
      /\ lastBy \in [Names -> Workers \cup {None}]
    BY DEF IInv, TypeOK
<1>4. lastBy' = lastBy \/ lastBy' = [lastBy EXCEPT ![n] = w]
    BY DEF DropGroups
<1>5. /\ \A k \in Names \ {n} : lastBy'[k] = lastBy[k]
      /\ lastBy'[n] \in {lastBy[n], w}
    BY <1>1, <1>3, <1>4
<1> HIDE DEF q
<1>6. /\ \A v \in Workers, k \in Names :
            v # w \/ k # n => groups'[v][k] = groups[v][k] /\ perms'[v][k] = perms[v][k]
      /\ groups'[w][n] = Absent /\ req'[r] = q
    <2>1. /\ Dropped(groups, w, n)[w][n] = Absent
          /\ \A v \in Workers, k \in Names :
                v # w \/ k # n => Dropped(groups, w, n)[v][k] = groups[v][k]
        BY <1>3, DroppedValues
    <2> QED BY <1>1, <1>3, <2>1
<1>7. ASSUME Alone(r)
      PROVE  LeavesOwn(r, w, n)
    <2>1. perms[w][n] = Absent
        BY <1>1, <1>7 DEF OwnInv, OwnRequests, DroppedSoFar
    <2>2. EntryRight(n, Absent)
        BY AbsentRight DEF IInv
    <2>3. EntriesRight(w, n)'
        BY <1>1, <1>6, <2>1, <2>2
           DEF EntriesRight, EntryRight, Valid, tables, RightsOf, OwnRights, Granted
    <2>4. SeenRight(w, req[r])' /\ DroppedSoFar(w, req[r])'
        BY <1>1, <1>2, <1>6, <2>1 DEF SeenRight, DroppedSoFar
    <2> QED BY <2>3, <2>4 DEF LeavesOwn
<1>8. OnlyMoves(r) /\ OnlyEntry(w, n) /\ OnlyChanger(w, n)
    BY <1>1, <1>3, <1>5, <1>6 DEF OnlyMoves, OnlyEntry, OnlyChanger
<1> QED BY <1>1, <1>7, <1>8, OwnEntryStep DEF IInv

SameRights(n) ==
    /\ OwnRights(n, primary, rights)' = OwnRights(n, primary, rights)
    /\ RightsOf(n, primary, secondary, rights)' = RightsOf(n, primary, secondary, rights)

\* The worker that changed n has nothing left of it, and nothing under way.
NothingLeft(w, n) ==
    Sequential(w) =>
        /\ groups[w][n] = Absent /\ perms[w][n] = Absent
        /\ \A r \in Requests : workerOf[r] = w => req'[r].pc = "idle"

\* A step that writes the tables, or lets time pass.
LEMMA OwnWriteStep ==
    ASSUME TypeOK, TypeOK', OwnInv, UNCHANGED <<groups, perms, workerOf>>, now <= now',
           \A r \in Requests : req'[r] = req[r] \/ req'[r].pc \in {"idle", "dropPermissions"},
           \A w \in Workers, n \in Accounts :
                lastBy'[n] = w => NothingLeft(w, n) \/ (lastBy[n] = w /\ SameRights(n))
    PROVE  OwnInv'
<1>1. now \in Int /\ now' \in Int /\ now' >= 0
    BY Numbers DEF TypeOK
<1>2. /\ \A w \in Workers : Sequential(w)' <=> Sequential(w)
      /\ \A r \in Requests : Alone(r)' <=> Alone(r)
    BY AloneStays
<1>3. ASSUME NEW w \in Workers, NEW n \in Accounts, Sequential(w)', Mine(w, n)'
      PROVE  EntriesRight(w, n)'
    <2>1. Sequential(w) /\ lastBy'[n] = w
        BY <1>2, <1>3 DEF Mine
    <2>2. CASE NothingLeft(w, n)
        <3>1. groups'[w][n].until = 0 /\ perms'[w][n].until = 0
            BY <2>1, <2>2 DEF NothingLeft, Absent
        <3> QED BY <1>1, <3>1 DEF EntriesRight, EntryRight, Valid
    <2>3. CASE lastBy[n] = w /\ SameRights(n)
        <3>1. EntriesRight(w, n)
            BY <2>1, <2>3 DEF OwnInv, OwnEntries, Mine
        <3>2. groups[w][n].until \in Int /\ perms[w][n].until \in Int
            BY Fields DEF Accounts
        <3>3. /\ Valid(groups[w][n])' => Valid(groups[w][n])
              /\ Valid(perms[w][n])' => Valid(perms[w][n])
            BY <1>1, <3>2 DEF Valid
        <3> QED BY <2>3, <3>1, <3>3 DEF EntriesRight, EntryRight, SameRights
    <2> QED BY <2>1, <2>2, <2>3
<1>4. ASSUME NEW r \in Requests, Alone(r)'
      PROVE  SeenRight(workerOf[r], req[r])' /\ DroppedSoFar(workerOf[r], req[r])'
    <2>1. CASE req'[r].pc \in {"idle", "dropPermissions"}
        BY <2>1 DEF SeenRight, DroppedSoFar
    <2>2. CASE req'[r] = req[r] /\ req[r].pc # "idle"
        <3>1. SeenRight(workerOf[r], req[r]) /\ DroppedSoFar(workerOf[r], req[r])
            BY <1>2, <1>4 DEF OwnInv, OwnRequests
        <3>2. ASSUME Mine(workerOf[r], req[r].name)'
              PROVE  Mine(workerOf[r], req[r].name) /\ SameRights(req[r].name)
            <4>1. req[r].name \in Accounts /\ lastBy'[req[r].name] = workerOf[r]
                BY <2>2, <3>2 DEF Mine
            <4>2. ~ NothingLeft(workerOf[r], req[r].name)
                BY <1>2, <1>4, <2>2 DEF NothingLeft, Alone
            <4> QED BY <4>1, <4>2, Fields DEF Mine
        <3>3. SeenRight(workerOf[r], req[r])'
            BY <2>2, <3>1, <3>2 DEF SeenRight, SameRights
        <3>4. DroppedSoFar(workerOf[r], req[r])'
            BY <2>2, <3>1 DEF DroppedSoFar
        <3> QED BY <3>3, <3>4
    <2> QED BY <2>1, <2>2
<1> QED BY <1>3, <1>4 DEF OwnInv, OwnEntries, OwnRequests

\* The rights of a name whose rows stay are the same.
LEMMA RowsGiveRights ==
    ASSUME NEW n, primary'[n] = primary[n], secondary'[n] = secondary[n], rights' = rights
    PROVE  SameRights(n)
BY DEF SameRights, RightsOf, OwnRights, Granted

LEMMA SetPrimaryGroupKeepsOwn ==
    ASSUME IInv, IInv', OwnInv, NEW r \in Requests, NEW g \in Groups, SetPrimaryGroup(r, g)
    PROVE  OwnInv'
<1>1. /\ UNCHANGED <<secondary, rights, groups, perms, workerOf, now>>
      /\ req[r] \in Request /\ req[r].name \in Names /\ now \in Int
    BY Fields DEF SetPrimaryGroup, IInv
<1>2. /\ req \in [Requests -> Request] /\ primary \in [Names -> Groups \cup {None}]
      /\ lastBy \in [Names -> Workers \cup {None}]
    BY DEF IInv, TypeOK
<1>3. /\ \A k \in Names \ {req[r].name} :
            lastBy'[k] = lastBy[k] /\ primary'[k] = primary[k]
      /\ \/ lastBy' = lastBy /\ primary' = primary
         \/ lastBy'[req[r].name] = None
    BY <1>1, <1>2 DEF SetPrimaryGroup
<1>4. \A k \in Requests : req'[k] = req[k] \/ req'[k].pc \in {"idle", "dropPermissions"}
    <2>1. Idle.pc = "idle" /\ [req[r] EXCEPT !.pc = "dropPermissions"].pc = "dropPermissions"
        BY <1>1 DEF Idle, Request
    <2>2. \/ req' = [req EXCEPT ![r] = Idle]
          \/ req' = [req EXCEPT ![r] = [req[r] EXCEPT !.pc = "dropPermissions"]]
        BY <1>2 DEF SetPrimaryGroup
    <2> QED BY <1>2, <2>1, <2>2
<1>5. ASSUME NEW w \in Workers, NEW k \in Accounts, lastBy'[k] = w
      PROVE  lastBy[k] = w /\ SameRights(k)
    <2>1. k \in Names /\ w # None
        BY NoneAssumption DEF Accounts
    <2>2. lastBy'[k] = lastBy[k] /\ primary'[k] = primary[k]
        BY <1>3, <1>5, <2>1
    <2> QED BY <1>1, <1>5, <2>2, RowsGiveRights
<1> QED BY <1>1, <1>4, <1>5, OwnWriteStep DEF IInv

\* The new rows are committed when the worker has dropped what it knew of the name.
LEMMA EditUserKeepsOwn ==
    ASSUME IInv, IInv', OwnInv, NEW r \in Requests, EditUser(r)
    PROVE  OwnInv'
<1>0. req[r].name \in Names /\ req[r].as \in Names /\ workerOf[r] \in Workers /\ now \in Int
    BY Fields DEF IInv
<1> PICK n \in Names : n = req[r].name
    BY <1>0
<1> PICK m \in Names : m = req[r].as
    BY <1>0
<1>1. /\ UNCHANGED <<rights, groups, perms, workerOf, now>>
      /\ req' = [req EXCEPT ![r] = Idle] /\ req[r].pc = "commit"
    BY DEF EditUser
<1>2. /\ req \in [Requests -> Request] /\ primary \in [Names -> Groups \cup {None}]
      /\ lastBy \in [Names -> Workers \cup {None}] /\ secondary \in [Names -> SUBSET Groups]
    BY DEF IInv, TypeOK
<1>3. /\ req'[r].pc = "idle"
      /\ \A k \in Requests : req'[k] = req[k] \/ req'[k].pc \in {"idle", "dropPermissions"}
    BY <1>1, <1>2 DEF Idle
<1>4. \/ UNCHANGED <<primary, secondary, lastBy>>
      \/ /\ lastBy' = [lastBy EXCEPT ![n] = None, ![m] = workerOf[r]]
         /\ \A k \in Names \ {n, m} :
                primary'[k] = primary[k] /\ secondary'[k] = secondary[k]
    <2>1. ASSUME NEW g \in Groups, NEW more \in SUBSET Groups,
                 primary' = [primary EXCEPT ![n] = None, ![m] = g],
                 secondary' = [secondary EXCEPT ![n] = {}, ![m] = more \ {g}]
          PROVE  \A k \in Names \ {n, m} :
                    primary'[k] = primary[k] /\ secondary'[k] = secondary[k]
        BY <1>2, <2>1
    <2> QED BY <2>1 DEF EditUser
<1>5. NothingLeft(workerOf[r], m)
    <2> SUFFICES ASSUME Alone(r)
                 PROVE  /\ groups[workerOf[r]][m] = Absent /\ perms[workerOf[r]][m] = Absent
                        /\ \A k \in Requests : workerOf[k] = workerOf[r] => req'[k].pc = "idle"
        BY DEF NothingLeft, Alone
    <2>1. groups[workerOf[r]][m] = Absent /\ perms[workerOf[r]][m] = Absent
        BY <1>1 DEF OwnInv, OwnRequests, DroppedSoFar
    <2>2. \A k \in Requests : workerOf[k] = workerOf[r] => req'[k].pc = "idle"
        BY <1>3, OnlyRequest
    <2> QED BY <2>1, <2>2
<1>6. ASSUME NEW w \in Workers, NEW k \in Accounts, lastBy'[k] = w
      PROVE  NothingLeft(w, k) \/ (lastBy[k] = w /\ SameRights(k))
    <2>1. k \in Names /\ w # None
        BY NoneAssumption DEF Accounts
    <2>2. CASE UNCHANGED <<primary, secondary, lastBy>>
        BY <1>1, <1>6, <2>2, RowsGiveRights
    <2>3. CASE /\ lastBy' = [lastBy EXCEPT ![n] = None, ![m] = workerOf[r]]
               /\ \A i \in Names \ {n, m} :
                    primary'[i] = primary[i] /\ secondary'[i] = secondary[i]
        <3>1. CASE k = m
            <4>1. w = workerOf[r]
                BY <1>2, <1>6, <2>3, <3>1
            <4> QED BY <1>5, <3>1, <4>1
        <3>2. CASE k # m
            <4>1. k # n /\ lastBy[k] = w
                BY <1>2, <1>6, <2>1, <2>3, <3>2
            <4>2. primary'[k] = primary[k] /\ secondary'[k] = secondary[k]
                BY <2>1, <2>3, <3>2, <4>1
            <4> QED BY <1>1, <4>1, <4>2, RowsGiveRights
        <3> QED BY <3>1, <3>2
    <2> QED BY <1>4, <2>2, <2>3
<1> QED BY <1>0, <1>1, <1>3, <1>6, OwnWriteStep DEF IInv

\* Whoever edits a group changes no account in a way its worker knows of.
LEMMA EditGroupKeepsOwn ==
    ASSUME IInv, IInv', OwnInv, NEW w \in Workers, NEW g \in Groups,
           NEW columns \in SUBSET Rights, EditGroup(w, g, columns)
    PROVE  OwnInv'
<1>1. UNCHANGED <<groups, perms, workerOf, now, req>> /\ now \in Int
    BY Fields DEF EditGroup, IInv
<1>2. \A n \in Accounts : lastBy'[n] = None
    BY DEF EditGroup, Accounts
<1>3. \A v \in Workers : v # None
    BY NoneAssumption
<1> QED BY <1>1, <1>2, <1>3, OwnWriteStep DEF IInv

\* Registration and deletion are nobody's own change.
LEMMA RowChangeKeepsOwn ==
    ASSUME IInv, IInv', OwnInv, NEW n \in Accounts, Register(n) \/ DeleteUser(n)
    PROVE  OwnInv'
<1>1. UNCHANGED <<groups, perms, workerOf, now, req, rights>> /\ now \in Int
    BY Fields DEF Register, DeleteUser, IInv
<1>2. lastBy' = [lastBy EXCEPT ![n] = None]
    BY DEF Register, DeleteUser
<1>3. /\ \A k \in Names \ {n} : primary'[k] = primary[k] /\ secondary'[k] = secondary[k]
      /\ n \in Names
    BY DEF Register, DeleteUser, IInv, TypeOK, Accounts
<1>4. ASSUME NEW w \in Workers, NEW k \in Accounts, lastBy'[k] = w
      PROVE  lastBy[k] = w /\ SameRights(k)
    <2>1. k \in Names /\ w # None
        BY NoneAssumption DEF Accounts
    <2>2. k # n /\ lastBy[k] = w
        BY <1>2, <1>3, <1>4, <2>1 DEF IInv, TypeOK
    <2> QED BY <1>1, <1>3, <2>1, <2>2, RowsGiveRights
<1> QED BY <1>1, <1>4, OwnWriteStep DEF IInv

LEMMA TickKeepsOwn ==
    ASSUME IInv, IInv', OwnInv, Tick
    PROVE  OwnInv'
<1>1. /\ UNCHANGED <<groups, perms, workerOf, primary, secondary, rights, req, lastBy>>
      /\ now <= now'
    BY Fields DEF Tick, tables, IInv
<1>2. \A n \in Accounts : SameRights(n)
    BY <1>1, RowsGiveRights
<1> QED BY <1>1, <1>2, OwnWriteStep DEF IInv

LEMMA NextKeepsOwn == IInv /\ IInv' /\ OwnInv /\ [Next]_vars => OwnInv'
<1> SUFFICES ASSUME IInv, IInv', OwnInv, [Next]_vars PROVE OwnInv'
    OBVIOUS
<1>1. ASSUME NEW r \in Requests, Step(r) PROVE OwnInv'
    <2>1. ASSUME NEW job \in Jobs, NEW n \in Names, NEW m \in Names, Start(r, job, n, m)
          PROVE  OwnInv'
        BY <2>1, StartKeepsOwn
    <2>2. CASE LookUpPermissions(r)
        BY <2>2, LookUpPermissionsKeepsOwn
    <2>3. CASE LookUpGroups(r)
        BY <2>3, LookUpGroupsKeepsOwn
    <2>4. CASE QueryGroups(r)
        BY <2>4, QueryGroupsKeepsOwn
    <2>5. CASE StoreGroups(r)
        BY <2>5, StoreGroupsKeepsOwn
    <2>6. CASE StorePermissions(r)
        BY <2>6, StorePermissionsKeepsOwn
    <2>7. CASE Ban(r)
        BY <2>7, SetPrimaryGroupKeepsOwn, GroupAssumption DEF Ban
    <2>8. CASE Unban(r)
        BY <2>8, SetPrimaryGroupKeepsOwn, GroupAssumption DEF Unban
    <2>9. CASE DropPermissions(r)
        BY <2>9, DropPermissionsKeepsOwn
    <2>10. CASE DropGroups(r)
        BY <2>10, DropGroupsKeepsOwn
    <2>11. CASE EditUser(r)
        BY <2>11, EditUserKeepsOwn
    <2> QED BY <1>1, <2>1, <2>2, <2>3, <2>4, <2>5, <2>6, <2>7, <2>8, <2>9, <2>10, <2>11
            DEF Step
<1>2. ASSUME NEW r \in Requests, NEW g \in Editable, NEW columns \in SUBSET Rights,
             EditGroup(workerOf[r], g, columns)
      PROVE  OwnInv'
    <2>1. workerOf[r] \in Workers /\ g \in Groups
        BY Fields, EditableAssumption DEF IInv
    <2> QED BY <1>2, <2>1, EditGroupKeepsOwn
<1>3. ASSUME NEW n \in Accounts, Register(n) \/ DeleteUser(n) PROVE OwnInv'
    BY <1>3, RowChangeKeepsOwn
<1>4. CASE Tick
    BY <1>4, TickKeepsOwn
<1>5. CASE UNCHANGED vars
    <2>1. /\ UNCHANGED <<primary, secondary, rights, groups, perms, req, workerOf, now, lastBy>>
          /\ now \in Int
        BY <1>5, Fields DEF vars, IInv
    <2>2. \A n \in Accounts : SameRights(n)
        BY <2>1, RowsGiveRights
    <2> QED BY <2>1, <2>2, OwnWriteStep DEF IInv
<1> QED BY <1>1, <1>2, <1>3, <1>4, <1>5 DEF Next

\* A worker that runs one request at a time answers with the current rights of an
\* account it was the last to change (User.ban, User.unban and User.save, with
\* User.invalidate_cache after or before the commit).
THEOREM OwnChangesAnswered == Spec => []OwnChangesSeen
<1>1. Init => OwnInv
    <2> SUFFICES ASSUME Init PROVE OwnInv
        OBVIOUS
    <2>1. \A w \in Workers, n \in Accounts : lastBy[n] = None /\ w # None
        BY NoneAssumption DEF Init, Accounts
    <2>2. \A r \in Requests : req[r].pc = "idle"
        BY DEF Init, Idle
    <2> QED BY <2>1, <2>2
            DEF OwnInv, OwnEntries, OwnRequests, Mine, SeenRight, DroppedSoFar
<1>2. IInv /\ IInv' /\ OwnInv /\ [Next]_vars => OwnInv'
    BY NextKeepsOwn
<1>3. OwnInv => OwnChangesSeen
    BY DEF OwnInv, OwnEntries, OwnChangesSeen, EntriesRight, EntryRight, Mine
<1> QED BY <1>1, <1>2, <1>3, Invariance, PTL DEF Spec
=============================================================================
