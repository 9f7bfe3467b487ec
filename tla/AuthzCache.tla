----------------------------- MODULE AuthzCache -----------------------------
(***************************************************************************)
(* One permission, the roles that carry it, the users that hold the roles, *)
(* and the cache that answers for them:                                    *)
(* libs/platform/src/auth/authz.service.ts (resolve, invalidate) and       *)
(* libs/modules/authz/src/application/authz-admin.service.ts, with the     *)
(* offboarding hook, which removes assignments too.                        *)
(*                                                                         *)
(* resolve() misses the cache, reads the database and fills the cache; an  *)
(* administrative call commits its transaction and then, user by user,     *)
(* rewrites employees.roles and drops the cached permissions.  A call may  *)
(* die between any two of these moments.  Valkey is external.              *)
(***************************************************************************)
EXTENDS Naturals, FiniteSets

CONSTANTS
    Principals,   \* users
    Roles,
    Admins,       \* administrative calls in flight at the same time
    Readers,      \* calls of resolve() in flight at the same time
    Ttl,          \* CACHE_TTL_SECONDS, in ticks
    MaxFill       \* bound: ticks between the read of resolve() and its fill

ASSUME AuthzAssumption == Ttl \in Nat \ {0} /\ MaxFill \in Nat

VARIABLES
    carriers,   \* the roles that exist and carry the permission
    assigned,   \* user_role_assignments that have not expired
    claims,     \* employees.roles
    cached,     \* what the cache says of each user
    cachedAge,  \* ticks since it was stored
    admin,      \* the memory of each administrative call
    reader,     \* the memory of each resolve()
    lapsed,     \* history: ticks since the user last held the permission
    disturbed   \* history: calls overlapped, died, or time ended a grant

authzVars == <<carriers, assigned, claims, cached, cachedAge, admin, reader, lapsed, disturbed>>

IdleAdmin  == [at |-> "idle"]
IdleReader == [at |-> "idle"]

RolesOf(u) == {r \in Roles : <<u, r>> \in assigned}

\* The query of resolve().
Granted(u) == RolesOf(u) \cap carriers # {}

HoldersOfRole(r) == {u \in Principals : <<u, r>> \in assigned}

StaleBound == Ttl + MaxFill + 1

AdminType ==
    {IdleAdmin}
    \cup [at : {"planned"}, todo : SUBSET Principals, want : SUBSET Roles, had : SUBSET Roles]
    \cup [at : {"listing"}, role : Roles]
    \cup [at : {"deleting"}, role : Roles, todo : SUBSET Principals]
    \cup [at : {"syncing", "dropping"}, todo : SUBSET Principals]
    \cup [at : {"writing"}, todo : SUBSET Principals, user : Principals, keys : SUBSET Roles]
    \cup [at : {"invalidating"}, todo : SUBSET Principals, user : Principals]

AuthzTypeOK ==
    /\ carriers \in SUBSET Roles
    /\ assigned \in SUBSET (Principals \X Roles)
    /\ claims \in [Principals -> SUBSET Roles]
    /\ cached \in [Principals -> {"none", "granted", "denied"}]
    /\ cachedAge \in [Principals -> 0 .. Ttl]
    /\ admin \in [Admins -> AdminType]
    /\ reader \in [Readers -> {IdleReader} \cup
                      [at : {"read"}, user : Principals, says : {"granted", "denied"}, age : 0 .. MaxFill]]
    /\ lapsed \in [Principals -> 0 .. StaleBound]
    /\ disturbed \in BOOLEAN

AuthzInit ==
    /\ carriers \in SUBSET Roles
    /\ assigned = {}
    /\ claims = [u \in Principals |-> {}]
    /\ cached = [u \in Principals |-> "none"]
    /\ cachedAge = [u \in Principals |-> 0]
    /\ admin = [a \in Admins |-> IdleAdmin]
    /\ reader = [c \in Readers |-> IdleReader]
    /\ lapsed = [u \in Principals |-> StaleBound]
    /\ disturbed = FALSE

-----------------------------------------------------------------------------
(* resolve()                                                               *)

\* The miss and the read of the database are one moment: what happens to the
\* cache between them changes nothing that resolve() looks at.
ReadGrants(c, u) ==
    /\ reader[c] = IdleReader /\ cached[u] = "none"
    /\ reader' = [reader EXCEPT ![c] =
          [at |-> "read", user |-> u, age |-> 0, says |-> IF Granted(u) THEN "granted" ELSE "denied"]]
    /\ UNCHANGED <<carriers, assigned, claims, cached, cachedAge, admin, lapsed, disturbed>>

Fill(c) ==
    /\ reader[c].at = "read"
    /\ cached' = [cached EXCEPT ![reader[c].user] = reader[c].says]
    /\ cachedAge' = [cachedAge EXCEPT ![reader[c].user] = 0]
    /\ reader' = [reader EXCEPT ![c] = IdleReader]
    /\ UNCHANGED <<carriers, assigned, claims, admin, lapsed, disturbed>>

\* The read or the fill throws, and the caller is denied.
ResolveFails(c) ==
    /\ reader[c] # IdleReader
    /\ reader' = [reader EXCEPT ![c] = IdleReader]
    /\ UNCHANGED <<carriers, assigned, claims, cached, cachedAge, admin, lapsed, disturbed>>

-----------------------------------------------------------------------------
(* The transactions of the administrative calls.                           *)

\* Bookkeeping of the history variables for a transaction that makes the
\* tables what they are in the next state.
Overlaps(a) ==
    \/ \E b \in Admins \ {a} : admin[b] # IdleAdmin
    \/ \E c \in Readers : reader[c].at = "read"

Noted(a) ==
    /\ disturbed' = (disturbed \/ Overlaps(a))
    /\ lapsed' = [u \in Principals |-> IF Granted(u)' \/ Granted(u) THEN 0 ELSE lapsed[u]]

Begin(a, memory) ==
    /\ admin[a] = IdleAdmin
    /\ admin' = [admin EXCEPT ![a] = memory]

AssignRole(a, u, r) ==
    /\ <<u, r>> \notin assigned
    /\ assigned' = assigned \cup {<<u, r>>}
    /\ Begin(a, [at |-> "syncing", todo |-> {u}])
    /\ UNCHANGED <<carriers, claims, cached, cachedAge, reader>>
    /\ Noted(a)

RevokeAssignment(a, u, r) ==
    /\ <<u, r>> \in assigned
    /\ assigned' = assigned \ {<<u, r>>}
    /\ Begin(a, [at |-> "syncing", todo |-> {u}])
    /\ UNCHANGED <<carriers, claims, cached, cachedAge, reader>>
    /\ Noted(a)

\* syncUserRolesByKeys: the assignments are read before the transaction ...
PlanSync(a, u, want) ==
    /\ Begin(a, [at |-> "planned", todo |-> {u}, want |-> want, had |-> RolesOf(u)])
    /\ disturbed' = (disturbed \/ Overlaps(a))
    /\ UNCHANGED <<carriers, assigned, claims, cached, cachedAge, reader, lapsed>>

\* ... which grants what was missing and revokes what was too much.
SyncUserRoles(a) ==
    LET m == admin[a] IN
    /\ m.at = "planned"
    /\ assigned' = (assigned \cup (m.todo \X (m.want \ m.had))) \ (m.todo \X (m.had \ m.want))
    /\ admin' = [admin EXCEPT ![a] = [at |-> "syncing", todo |-> m.todo]]
    /\ UNCHANGED <<carriers, claims, cached, cachedAge, reader>>
    /\ Noted(a)

\* setRolePermissions; the holders are listed after the commit.
SetRolePermissions(a, r) ==
    /\ carriers' = IF r \in carriers THEN carriers \ {r} ELSE carriers \cup {r}
    /\ Begin(a, [at |-> "listing", role |-> r])
    /\ UNCHANGED <<assigned, claims, cached, cachedAge, reader>>
    /\ Noted(a)

\* Fault: editing a role relies on the time to live of the cache.
InvalidateRoleHolders_None(a) == {}

InvalidateRoleHolders(a) == HoldersOfRole(admin[a].role)

ListHolders(a) ==
    /\ admin[a].at = "listing"
    /\ admin' = [admin EXCEPT ![a] = [at |-> "dropping", todo |-> InvalidateRoleHolders(a)]]
    /\ UNCHANGED <<carriers, assigned, claims, cached, cachedAge, reader, lapsed, disturbed>>

\* deleteRole: the holders are read before the delete cascades ...
ReadHolders(a, r) ==
    /\ Begin(a, [at |-> "deleting", role |-> r, todo |-> HoldersOfRole(r)])
    /\ disturbed' = (disturbed \/ Overlaps(a))
    /\ UNCHANGED <<carriers, assigned, claims, cached, cachedAge, reader, lapsed>>

\* ... to the assignments.  (The name of a role may be used again.)
DeleteRole(a) ==
    LET m == admin[a] IN
    /\ m.at = "deleting"
    /\ carriers' = carriers \ {m.role}
    /\ assigned' = assigned \ (Principals \X {m.role})
    /\ admin' = [admin EXCEPT ![a] = [at |-> "syncing", todo |-> m.todo]]
    /\ UNCHANGED <<claims, cached, cachedAge, reader>>
    /\ Noted(a)

\* onApprove of an offboarding removes every assignment and clears the
\* claims; afterApprove drops the cached permissions.
OffboardPrincipal(a, u) ==
    /\ RolesOf(u) # {}
    /\ assigned' = assigned \ ({u} \X Roles)
    /\ claims' = [claims EXCEPT ![u] = {}]
    /\ Begin(a, [at |-> "dropping", todo |-> {u}])
    /\ UNCHANGED <<carriers, cached, cachedAge, reader>>
    /\ Noted(a)

-----------------------------------------------------------------------------
(* After the commit, one user at a time.                                   *)

\* syncEmployeeRoleClaims reads the assignments ...
ReadClaims(a, u) ==
    /\ admin[a].at = "syncing" /\ u \in admin[a].todo
    /\ admin' = [admin EXCEPT ![a] =
          [at |-> "writing", todo |-> admin[a].todo \ {u}, user |-> u, keys |-> RolesOf(u)]]
    /\ UNCHANGED <<carriers, assigned, claims, cached, cachedAge, reader, lapsed, disturbed>>

\* ... and writes employees.roles.
WriteClaims(a) ==
    LET m == admin[a] IN
    /\ m.at = "writing"
    /\ claims' = [claims EXCEPT ![m.user] = m.keys]
    /\ admin' = [admin EXCEPT ![a] = [at |-> "invalidating", todo |-> m.todo, user |-> m.user]]
    /\ UNCHANGED <<carriers, assigned, cached, cachedAge, reader, lapsed, disturbed>>

Drop(u) == cached' = [cached EXCEPT ![u] = "none"]

InvalidateAfterSync(a) ==
    LET m == admin[a] IN
    /\ m.at = "invalidating"
    /\ Drop(m.user)
    /\ admin' = [admin EXCEPT ![a] = [at |-> "syncing", todo |-> m.todo]]
    /\ UNCHANGED <<carriers, assigned, claims, cachedAge, reader, lapsed, disturbed>>

InvalidateHolder(a, u) ==
    /\ admin[a].at = "dropping" /\ u \in admin[a].todo
    /\ Drop(u)
    /\ admin' = [admin EXCEPT ![a].todo = @ \ {u}]
    /\ UNCHANGED <<carriers, assigned, claims, cachedAge, reader, lapsed, disturbed>>

AdminReturns(a) ==
    /\ admin[a].at \in {"syncing", "dropping"} /\ admin[a].todo = {}
    /\ admin' = [admin EXCEPT ![a] = IdleAdmin]
    /\ UNCHANGED <<carriers, assigned, claims, cached, cachedAge, reader, lapsed, disturbed>>

\* The call throws or its pod dies; what it has committed stays.
AdminDies(a) ==
    /\ admin[a] # IdleAdmin
    /\ admin' = [admin EXCEPT ![a] = IdleAdmin]
    /\ disturbed' = TRUE
    /\ UNCHANGED <<carriers, assigned, claims, cached, cachedAge, reader, lapsed>>

-----------------------------------------------------------------------------
(* Time                                                                    *)

\* expires_at of an assignment passes; nothing is invalidated.
AssignmentExpires(u, r) ==
    /\ <<u, r>> \in assigned
    /\ assigned' = assigned \ {<<u, r>>}
    /\ lapsed' = [lapsed EXCEPT ![u] = IF Granted(u) THEN 0 ELSE @]
    /\ disturbed' = TRUE
    /\ UNCHANGED <<carriers, claims, cached, cachedAge, admin, reader>>

\* Fault: an entry outlives its time to live.
Outlived_Never(u) == FALSE

Outlived(u) == cachedAge[u] >= Ttl

AuthzTick ==
    /\ \A c \in Readers : reader[c].at = "read" => reader[c].age < MaxFill
    /\ reader' = [c \in Readers |->
          IF reader[c].at = "read" THEN [reader[c] EXCEPT !.age = @ + 1] ELSE reader[c]]
    /\ cached' = [u \in Principals |-> IF Outlived(u) THEN "none" ELSE cached[u]]
    /\ cachedAge' = [u \in Principals |->
          IF cached'[u] = "none" THEN 0 ELSE IF cachedAge[u] < Ttl THEN cachedAge[u] + 1 ELSE Ttl]
    /\ lapsed' = [u \in Principals |->
          IF Granted(u) THEN 0 ELSE IF lapsed[u] < StaleBound THEN lapsed[u] + 1 ELSE StaleBound]
    /\ UNCHANGED <<carriers, assigned, claims, admin, disturbed>>

AdminStep(a) ==
    \/ SyncUserRoles(a) \/ ListHolders(a) \/ DeleteRole(a)
    \/ WriteClaims(a) \/ InvalidateAfterSync(a) \/ AdminReturns(a) \/ AdminDies(a)
    \/ \E r \in Roles : SetRolePermissions(a, r) \/ ReadHolders(a, r)
    \/ \E u \in Principals :
          \/ ReadClaims(a, u) \/ InvalidateHolder(a, u) \/ OffboardPrincipal(a, u)
          \/ \E r \in Roles : AssignRole(a, u, r) \/ RevokeAssignment(a, u, r)
          \/ \E want \in SUBSET Roles : PlanSync(a, u, want)

AuthzNext ==
    \/ \E a \in Admins : AdminStep(a)
    \/ \E c \in Readers : \/ Fill(c) \/ ResolveFails(c)
                          \/ \E u \in Principals : ReadGrants(c, u)
    \/ \E u \in Principals, r \in Roles : AssignmentExpires(u, r)
    \/ AuthzTick

AuthzSpec == AuthzInit /\ [][AuthzNext]_authzVars

-----------------------------------------------------------------------------
(* Properties                                                              *)

\* However reads, revocations and dead calls interleave, the cache grants
\* nothing that the user lost more than the time to live (and the length of
\* one fill) ago: the bound "the permission cache is also TTL-bounded" gives.
StaleAtMostTtl ==
    \A u \in Principals : cached[u] = "granted" => lapsed[u] <= Ttl + MaxFill

\* As long as no two calls overlapped, none died and no grant ran out, the
\* cache and employees.roles agree with the tables whenever no administrative
\* call is under way: every way to change what a user may do also corrects
\* what was derived from it.
QuietMeansFresh ==
    disturbed \/ (\E a \in Admins : admin[a] # IdleAdmin)
    \/ \A u \in Principals :
          /\ cached[u] # "none" => cached[u] = (IF Granted(u) THEN "granted" ELSE "denied")
          /\ claims[u] = RolesOf(u)
=============================================================================
