-------------------------- MODULE AuthzCacheProofs --------------------------
(***************************************************************************)
(* Proofs about AuthzCache, for every set of users, roles, calls, time to  *)
(* live and length of a fill: the types, StaleAtMostTtl and                *)
(* QuietMeansFresh.                                                        *)
(*                                                                         *)
(* The first argument is about time: what a reader has read is no older    *)
(* than the reader, and what is cached no older than its age and one fill. *)
(* The second is about what an administrative call still owes: as long as  *)
(* calls do not overlap, only the users on the list of the one call under  *)
(* way can have a stale answer.                                            *)
(***************************************************************************)
EXTENDS AuthzCache, TLAPS

USE AuthzAssumption

-----------------------------------------------------------------------------
(* Types                                                                   *)

\* What each moment of an administrative call remembers.
LEMMA AdminFields ==
    ASSUME AuthzTypeOK, NEW a \in Admins
    PROVE  /\ admin[a] = IdleAdmin <=> admin[a].at = "idle"
           /\ admin[a].at \in {"idle", "planned", "listing", "deleting", "syncing", "dropping",
                               "writing", "invalidating"}
           /\ admin[a].at \in {"listing", "deleting"} => admin[a].role \in Roles
           /\ admin[a].at \notin {"idle", "listing"} => admin[a].todo \in SUBSET Principals
           /\ admin[a].at = "planned" => admin[a].want \in SUBSET Roles /\ admin[a].had \in SUBSET Roles
           /\ admin[a].at \in {"writing", "invalidating"} => admin[a].user \in Principals
           /\ admin[a].at = "writing" => admin[a].keys \in SUBSET Roles
  <1>1. admin[a] \in AdminType  BY DEF AuthzTypeOK
  <1>2. CASE admin[a] = IdleAdmin  BY <1>2 DEF IdleAdmin
  <1>3. CASE admin[a] \in [at : {"planned"}, todo : SUBSET Principals, want : SUBSET Roles, had : SUBSET Roles]
    BY <1>3 DEF IdleAdmin
  <1>4. CASE admin[a] \in [at : {"listing"}, role : Roles]  BY <1>4 DEF IdleAdmin
  <1>5. CASE admin[a] \in [at : {"deleting"}, role : Roles, todo : SUBSET Principals]
    BY <1>5 DEF IdleAdmin
  <1>6. CASE admin[a] \in [at : {"syncing", "dropping"}, todo : SUBSET Principals]
    BY <1>6 DEF IdleAdmin
  <1>7. CASE admin[a] \in [at : {"writing"}, todo : SUBSET Principals, user : Principals, keys : SUBSET Roles]
    BY <1>7 DEF IdleAdmin
  <1>8. CASE admin[a] \in [at : {"invalidating"}, todo : SUBSET Principals, user : Principals]
    BY <1>8 DEF IdleAdmin
  <1>  QED  BY <1>1, <1>2, <1>3, <1>4, <1>5, <1>6, <1>7, <1>8 DEF AdminType

ReaderType == [at : {"read"}, user : Principals, says : {"granted", "denied"}, age : 0 .. MaxFill]

\* What a resolve() that has read the database remembers.
LEMMA ReaderFields ==
    ASSUME AuthzTypeOK, NEW c \in Readers
    PROVE  /\ reader[c] = IdleReader <=> reader[c].at # "read"
           /\ reader[c].at = "read" =>
                 /\ reader[c] \in ReaderType /\ reader[c].user \in Principals
                 /\ reader[c].says \in {"granted", "denied"} /\ reader[c].age \in 0 .. MaxFill
  <1>1. reader[c] \in {IdleReader} \cup ReaderType  BY DEF AuthzTypeOK, ReaderType
  <1>2. CASE reader[c] = IdleReader  BY <1>2 DEF IdleReader
  <1>3. CASE reader[c] \in ReaderType  BY <1>3 DEF IdleReader, ReaderType
  <1>  QED  BY <1>1, <1>2, <1>3

\* Every step of an administrative call is one of: a transaction (a), the
\* work after it (b), or its end (c).  A name for each group of actions.
Transaction(a) ==
    \/ SyncUserRoles(a) \/ DeleteRole(a)
    \/ \E r \in Roles : SetRolePermissions(a, r) \/ ReadHolders(a, r)
    \/ \E u \in Principals :
          \/ OffboardPrincipal(a, u)
          \/ \E r \in Roles : AssignRole(a, u, r) \/ RevokeAssignment(a, u, r)
          \/ \E want \in SUBSET Roles : PlanSync(a, u, want)

Work(a) ==
    \/ ListHolders(a) \/ WriteClaims(a) \/ InvalidateAfterSync(a) \/ AdminReturns(a)
    \/ \E u \in Principals : ReadClaims(a, u) \/ InvalidateHolder(a, u)

Moved(a) == \E m \in AdminType : admin' = [admin EXCEPT ![a] = m]

\* The memory of the call and the tables after a transaction.
LEMMA TransactionType ==
    ASSUME AuthzTypeOK, NEW a \in Admins, Transaction(a)
    PROVE  /\ Moved(a) /\ carriers' \in SUBSET Roles /\ assigned' \in SUBSET (Principals \X Roles)
           /\ claims' \in [Principals -> SUBSET Roles]
           /\ UNCHANGED <<cached, cachedAge, reader>>
           /\ \/ Noted(a)
              \/ disturbed' = (disturbed \/ Overlaps(a)) /\ UNCHANGED <<carriers, assigned, lapsed>>
  <1>1. /\ carriers \in SUBSET Roles /\ assigned \in SUBSET (Principals \X Roles)
        /\ claims \in [Principals -> SUBSET Roles]
    BY DEF AuthzTypeOK
  <1>  USE DEF Moved
  <1>2. ASSUME SyncUserRoles(a)
        PROVE  /\ Moved(a) /\ assigned' \in SUBSET (Principals \X Roles) /\ Noted(a)
               /\ UNCHANGED <<carriers, claims, cached, cachedAge, reader>>
    <2>1. /\ admin[a].todo \in SUBSET Principals /\ admin[a].want \in SUBSET Roles
          /\ admin[a].had \in SUBSET Roles
      BY <1>2, AdminFields DEF SyncUserRoles
    <2>2. [at |-> "syncing", todo |-> admin[a].todo] \in AdminType  BY <2>1 DEF AdminType
    <2>  QED  BY <1>1, <1>2, <2>1, <2>2 DEF SyncUserRoles
  <1>3. ASSUME DeleteRole(a)
        PROVE  /\ Moved(a) /\ assigned' \in SUBSET (Principals \X Roles) /\ carriers' \in SUBSET Roles
               /\ Noted(a) /\ UNCHANGED <<claims, cached, cachedAge, reader>>
    <2>1. admin[a].todo \in SUBSET Principals  BY <1>3, AdminFields DEF DeleteRole
    <2>2. [at |-> "syncing", todo |-> admin[a].todo] \in AdminType  BY <2>1 DEF AdminType
    <2>  QED  BY <1>1, <1>3, <2>2 DEF DeleteRole
  <1>4. ASSUME NEW r \in Roles, SetRolePermissions(a, r)
        PROVE  /\ Moved(a) /\ carriers' \in SUBSET Roles
               /\ Noted(a) /\ UNCHANGED <<assigned, claims, cached, cachedAge, reader>>
    <2>1. [at |-> "listing", role |-> r] \in AdminType  BY DEF AdminType
    <2>  QED  BY <1>1, <1>4, <2>1 DEF SetRolePermissions, Begin
  <1>5. ASSUME NEW r \in Roles, ReadHolders(a, r)
        PROVE  /\ Moved(a) /\ disturbed' = (disturbed \/ Overlaps(a))
               /\ UNCHANGED <<carriers, assigned, claims, cached, cachedAge, reader, lapsed>>
    <2>1. [at |-> "deleting", role |-> r, todo |-> HoldersOfRole(r)] \in AdminType
      BY DEF AdminType, HoldersOfRole
    <2>  QED  BY <1>1, <1>5, <2>1 DEF ReadHolders, Begin
  <1>6. ASSUME NEW u \in Principals, OffboardPrincipal(a, u)
        PROVE  /\ Moved(a) /\ assigned' \in SUBSET (Principals \X Roles)
               /\ claims' \in [Principals -> SUBSET Roles]
               /\ Noted(a) /\ UNCHANGED <<carriers, cached, cachedAge, reader>>
    <2>1. [at |-> "dropping", todo |-> {u}] \in AdminType  BY DEF AdminType
    <2>  QED  BY <1>1, <1>6, <2>1 DEF OffboardPrincipal, Begin
  <1>7. ASSUME NEW u \in Principals, NEW r \in Roles, AssignRole(a, u, r) \/ RevokeAssignment(a, u, r)
        PROVE  /\ Moved(a) /\ assigned' \in SUBSET (Principals \X Roles)
               /\ Noted(a) /\ UNCHANGED <<carriers, claims, cached, cachedAge, reader>>
    <2>1. [at |-> "syncing", todo |-> {u}] \in AdminType  BY DEF AdminType
    <2>2. assigned' = assigned \cup {<<u, r>>} \/ assigned' = assigned \ {<<u, r>>}
      BY <1>7 DEF AssignRole, RevokeAssignment
    <2>3. assigned' \in SUBSET (Principals \X Roles)  BY <1>1, <2>2
    <2>  QED  BY <1>7, <2>1, <2>3 DEF AssignRole, RevokeAssignment, Begin
  <1>8. ASSUME NEW u \in Principals, NEW want \in SUBSET Roles, PlanSync(a, u, want)
        PROVE  /\ Moved(a) /\ disturbed' = (disturbed \/ Overlaps(a))
               /\ UNCHANGED <<carriers, assigned, claims, cached, cachedAge, reader, lapsed>>
    <2>1. [at |-> "planned", todo |-> {u}, want |-> want, had |-> RolesOf(u)] \in AdminType
      BY DEF AdminType, RolesOf
    <2>  QED  BY <1>1, <1>8, <2>1 DEF PlanSync, Begin
  <1>  QED  BY <1>1, <1>2, <1>3, <1>4, <1>5, <1>6, <1>7, <1>8 DEF Transaction

\* The same of the work after it.
LEMMA WorkType ==
    ASSUME AuthzTypeOK, NEW a \in Admins, Work(a)
    PROVE  /\ Moved(a) /\ claims' \in [Principals -> SUBSET Roles]
           /\ \A u \in Principals : cached'[u] \in {cached[u], "none"}
           /\ cached' \in [Principals -> {"none", "granted", "denied"}]
           /\ UNCHANGED <<carriers, assigned, cachedAge, reader, lapsed, disturbed>>
  <1>1. /\ claims \in [Principals -> SUBSET Roles]
        /\ cached \in [Principals -> {"none", "granted", "denied"}]
    BY DEF AuthzTypeOK
  <1>  USE DEF Moved
  <1>2. ASSUME ListHolders(a)
        PROVE  /\ Moved(a)
               /\ UNCHANGED <<carriers, assigned, claims, cached, cachedAge, reader, lapsed, disturbed>>
    <2>1. [at |-> "dropping", todo |-> InvalidateRoleHolders(a)] \in AdminType
      BY DEF AdminType, InvalidateRoleHolders, HoldersOfRole
    <2>  QED  BY <1>2, <2>1 DEF ListHolders
  <1>3. ASSUME WriteClaims(a)
        PROVE  /\ Moved(a) /\ claims' \in [Principals -> SUBSET Roles]
               /\ UNCHANGED <<carriers, assigned, cached, cachedAge, reader, lapsed, disturbed>>
    <2>1. admin[a].todo \in SUBSET Principals /\ admin[a].user \in Principals /\ admin[a].keys \in SUBSET Roles
      BY <1>3, AdminFields DEF WriteClaims
    <2>2. [at |-> "invalidating", todo |-> admin[a].todo, user |-> admin[a].user] \in AdminType
      BY <2>1 DEF AdminType
    <2>  QED  BY <1>1, <1>3, <2>1, <2>2 DEF WriteClaims
  <1>4. ASSUME InvalidateAfterSync(a)
        PROVE  /\ Moved(a) /\ \A u \in Principals : cached'[u] \in {cached[u], "none"}
               /\ cached' \in [Principals -> {"none", "granted", "denied"}]
               /\ UNCHANGED <<carriers, assigned, claims, cachedAge, reader, lapsed, disturbed>>
    <2>1. admin[a].todo \in SUBSET Principals /\ admin[a].user \in Principals
      BY <1>4, AdminFields DEF InvalidateAfterSync
    <2>2. [at |-> "syncing", todo |-> admin[a].todo] \in AdminType  BY <2>1 DEF AdminType
    <2>  QED  BY <1>1, <1>4, <2>1, <2>2 DEF InvalidateAfterSync, Drop
  <1>5. ASSUME AdminReturns(a)
        PROVE  /\ Moved(a)
               /\ UNCHANGED <<carriers, assigned, claims, cached, cachedAge, reader, lapsed, disturbed>>
    BY <1>5 DEF AdminReturns, AdminType
  <1>6. ASSUME NEW u \in Principals, ReadClaims(a, u)
        PROVE  /\ Moved(a)
               /\ UNCHANGED <<carriers, assigned, claims, cached, cachedAge, reader, lapsed, disturbed>>
    <2>1. admin[a].todo \in SUBSET Principals  BY <1>6, AdminFields DEF ReadClaims
    <2>2. [at |-> "writing", todo |-> admin[a].todo \ {u}, user |-> u, keys |-> RolesOf(u)] \in AdminType
      BY <2>1 DEF AdminType, RolesOf
    <2>  QED  BY <1>6, <2>2 DEF ReadClaims
  <1>7. ASSUME NEW u \in Principals, InvalidateHolder(a, u)
        PROVE  /\ Moved(a) /\ \A w \in Principals : cached'[w] \in {cached[w], "none"}
               /\ cached' \in [Principals -> {"none", "granted", "denied"}]
               /\ UNCHANGED <<carriers, assigned, claims, cachedAge, reader, lapsed, disturbed>>
    <2>1. admin[a] \in AdminType /\ admin[a].at = "dropping"
      BY <1>7 DEF InvalidateHolder, AuthzTypeOK
    <2>2. admin[a] \in [at : {"syncing", "dropping"}, todo : SUBSET Principals]
      BY <2>1 DEF AdminType, IdleAdmin
    <2>3. [admin[a] EXCEPT !.todo = @ \ {u}] \in AdminType  BY <2>2 DEF AdminType
    <2>  QED  BY <1>1, <1>7, <2>3 DEF InvalidateHolder, Drop
  <1>  QED  BY <1>1, <1>2, <1>3, <1>4, <1>5, <1>6, <1>7 DEF Work

-----------------------------------------------------------------------------
(* How old an answer can be                                                *)

\* Who holds the permission has it now ...
HeldNow == \A u \in Principals : Granted(u) => lapsed[u] = 0

\* ... what a reader has seen is no older than the reader ...
ReadRecently ==
    \A c \in Readers : reader[c].at = "read" /\ reader[c].says = "granted" =>
        lapsed[reader[c].user] <= reader[c].age

\* ... and what is cached no older than its age and the fill before it.
CachedRecently ==
    \A u \in Principals : cached[u] = "granted" => lapsed[u] <= cachedAge[u] + MaxFill

StaleInv == AuthzTypeOK /\ HeldNow /\ ReadRecently /\ CachedRecently

\* The history of a transaction never makes a loss look older.
LEMMA NotedFacts ==
    ASSUME AuthzTypeOK, NEW a \in Admins, Noted(a)
    PROVE  /\ lapsed' \in [Principals -> 0 .. StaleBound] /\ disturbed' \in BOOLEAN
           /\ \A u \in Principals : /\ lapsed'[u] <= lapsed[u]
                                    /\ Granted(u)' => lapsed'[u] = 0
  <1>1. StaleBound \in Nat /\ 0 \in 0 .. StaleBound  BY DEF StaleBound
  <1>2. \A u \in Principals : lapsed[u] \in 0 .. StaleBound  BY DEF AuthzTypeOK
  <1>3. \A u \in Principals : lapsed'[u] = IF Granted(u)' \/ Granted(u) THEN 0 ELSE lapsed[u]
    BY DEF Noted
  <1>4. \A u \in Principals : lapsed'[u] \in 0 .. StaleBound /\ lapsed'[u] <= lapsed[u]
    BY <1>1, <1>2, <1>3
  <1>5. lapsed' \in [Principals -> 0 .. StaleBound]
    <2>1. lapsed' = [u \in Principals |-> lapsed'[u]]  BY DEF Noted
    <2>  QED  BY <1>4, <2>1
  <1>  QED  BY <1>3, <1>4, <1>5 DEF Noted

\* A step that leaves readers and ages alone, and never makes a loss look
\* older or an answer more generous, keeps the bound.
LEMMA StaleStep ==
    ASSUME StaleInv, AuthzTypeOK', UNCHANGED <<cachedAge, reader>>,
           \A u \in Principals : /\ lapsed'[u] <= lapsed[u]
                                 /\ Granted(u)' => lapsed'[u] = 0
                                 /\ cached'[u] \in {cached[u], "none"}
    PROVE  StaleInv'
  <1>1. \A u \in Principals : lapsed[u] \in Nat /\ lapsed'[u] \in Nat /\ cachedAge[u] \in Nat
    BY DEF StaleInv, AuthzTypeOK, StaleBound
  <1>2. HeldNow'  BY DEF HeldNow
  <1>3. ReadRecently'
    <2>  SUFFICES ASSUME NEW c \in Readers, reader[c].at = "read", reader[c].says = "granted"
                  PROVE  lapsed'[reader[c].user] <= reader[c].age
      BY DEF ReadRecently
    <2>1. reader[c].user \in Principals /\ reader[c].age \in Nat  BY ReaderFields DEF StaleInv
    <2>2. lapsed[reader[c].user] <= reader[c].age  BY DEF StaleInv, ReadRecently
    <2>  QED  BY <1>1, <2>1, <2>2
  <1>4. CachedRecently'
    <2>  SUFFICES ASSUME NEW u \in Principals, cached'[u] = "granted"
                  PROVE  lapsed'[u] <= cachedAge[u] + MaxFill
      BY DEF CachedRecently
    <2>1. lapsed[u] <= cachedAge[u] + MaxFill  BY DEF StaleInv, CachedRecently
    <2>  QED  BY <1>1, <2>1
  <1>  QED  BY <1>2, <1>3, <1>4 DEF StaleInv

\* Administrative calls.
LEMMA AdminStale ==
    ASSUME StaleInv, NEW a \in Admins, AdminStep(a)
    PROVE  StaleInv'
  <1>0. AuthzTypeOK  BY DEF StaleInv
  <1>1. \A u \in Principals : lapsed[u] <= lapsed[u]  BY <1>0 DEF AuthzTypeOK, StaleBound
  <1>2. CASE Transaction(a)
    <2>1. /\ Moved(a) /\ carriers' \in SUBSET Roles /\ assigned' \in SUBSET (Principals \X Roles)
          /\ claims' \in [Principals -> SUBSET Roles]
          /\ UNCHANGED <<cached, cachedAge, reader>>
          /\ Noted(a) \/ (disturbed' = (disturbed \/ Overlaps(a)) /\ UNCHANGED <<carriers, assigned, lapsed>>)
      BY <1>0, <1>2, TransactionType
    <2>2. admin' \in [Admins -> AdminType]  BY <1>0, <2>1 DEF Moved, AuthzTypeOK
    <2>3. /\ lapsed' \in [Principals -> 0 .. StaleBound] /\ disturbed' \in BOOLEAN
          /\ \A u \in Principals : lapsed'[u] <= lapsed[u] /\ (Granted(u)' => lapsed'[u] = 0)
      <3>1. CASE Noted(a)  BY <1>0, <3>1, NotedFacts
      <3>2. CASE disturbed' = (disturbed \/ Overlaps(a)) /\ UNCHANGED <<carriers, assigned, lapsed>>
        BY <1>0, <1>1, <3>2 DEF AuthzTypeOK, StaleInv, HeldNow, Granted, RolesOf
      <3>  QED  BY <2>1, <3>1, <3>2
    <2>4. AuthzTypeOK'  BY <1>0, <2>1, <2>2, <2>3 DEF AuthzTypeOK
    <2>  QED  BY <2>1, <2>3, <2>4, StaleStep
  <1>3. CASE Work(a)
    <2>1. /\ Moved(a) /\ claims' \in [Principals -> SUBSET Roles]
          /\ \A u \in Principals : cached'[u] \in {cached[u], "none"}
          /\ cached' \in [Principals -> {"none", "granted", "denied"}]
          /\ UNCHANGED <<carriers, assigned, cachedAge, reader, lapsed, disturbed>>
      BY <1>0, <1>3, WorkType
    <2>2. admin' \in [Admins -> AdminType]  BY <1>0, <2>1 DEF Moved, AuthzTypeOK
    <2>3. AuthzTypeOK'  BY <1>0, <2>1, <2>2 DEF AuthzTypeOK
    <2>4. \A u \in Principals : lapsed'[u] <= lapsed[u] /\ (Granted(u)' => lapsed'[u] = 0)
      BY <1>1, <2>1 DEF StaleInv, HeldNow, Granted, RolesOf
    <2>  QED  BY <2>1, <2>3, <2>4, StaleStep
  <1>4. CASE AdminDies(a)
    <2>1. /\ admin' = [admin EXCEPT ![a] = IdleAdmin] /\ disturbed' = TRUE
          /\ UNCHANGED <<carriers, assigned, claims, cached, cachedAge, reader, lapsed>>
      BY <1>4 DEF AdminDies
    <2>2. admin' \in [Admins -> AdminType]  BY <1>0, <2>1 DEF AuthzTypeOK, AdminType
    <2>3. AuthzTypeOK'  BY <1>0, <2>1, <2>2 DEF AuthzTypeOK
    <2>4. \A u \in Principals : lapsed'[u] <= lapsed[u] /\ (Granted(u)' => lapsed'[u] = 0)
      BY <1>1, <2>1 DEF StaleInv, HeldNow, Granted, RolesOf
    <2>  QED  BY <2>1, <2>3, <2>4, StaleStep
  <1>  QED  BY <1>2, <1>3, <1>4 DEF AdminStep, Transaction, Work

\* resolve(): what it reads is true when it reads it, and it fills in time.
LEMMA ResolveStale ==
    ASSUME StaleInv, NEW c \in Readers,
           Fill(c) \/ ResolveFails(c) \/ \E u \in Principals : ReadGrants(c, u)
    PROVE  StaleInv'
  <1>0. AuthzTypeOK  BY DEF StaleInv
  <1>1. UNCHANGED <<carriers, assigned, claims, admin, lapsed, disturbed>>
    BY DEF Fill, ResolveFails, ReadGrants
  <1>2. HeldNow'  BY <1>1 DEF StaleInv, HeldNow, Granted, RolesOf
  <1>3. \A u \in Principals : lapsed[u] \in Nat /\ cachedAge[u] \in Nat
    BY <1>0 DEF AuthzTypeOK, StaleBound
  <1>4. ASSUME Fill(c) PROVE StaleInv'
    <2>1. /\ reader[c].user \in Principals /\ reader[c].says \in {"granted", "denied"}
          /\ reader[c].age \in 0 .. MaxFill /\ reader[c].at = "read"
      BY <1>0, <1>4, ReaderFields DEF Fill
    <2>2. PICK u \in Principals : u = reader[c].user  BY <2>1
    <2>3. /\ cached' = [cached EXCEPT ![u] = reader[c].says] /\ cachedAge' = [cachedAge EXCEPT ![u] = 0]
          /\ reader' = [reader EXCEPT ![c] = IdleReader]
      BY <1>4, <2>2 DEF Fill
    <2>4. AuthzTypeOK'
      <3>1. 0 \in 0 .. Ttl  OBVIOUS
      <3>2. cachedAge' \in [Principals -> 0 .. Ttl]  BY <1>0, <2>3, <3>1 DEF AuthzTypeOK
      <3>3. reader' \in [Readers -> {IdleReader} \cup ReaderType]
        BY <1>0, <2>3 DEF AuthzTypeOK, ReaderType
      <3>4. cached' \in [Principals -> {"none", "granted", "denied"}]
        BY <1>0, <2>1, <2>3 DEF AuthzTypeOK
      <3>  QED  BY <1>0, <1>1, <3>2, <3>3, <3>4 DEF AuthzTypeOK, ReaderType
    <2>5. ReadRecently'
      <3>1. \A d \in Readers : reader'[d].at = "read" => reader'[d] = reader[d]
        BY <1>0, <2>3 DEF AuthzTypeOK, IdleReader
      <3>  QED  BY <1>1, <3>1 DEF StaleInv, ReadRecently
    <2>6. CachedRecently'
      <3>  SUFFICES ASSUME NEW w \in Principals, cached'[w] = "granted"
                    PROVE  lapsed'[w] <= cachedAge'[w] + MaxFill
        BY DEF CachedRecently
      <3>1. CASE w # u
        <4>1. cached'[w] = cached[w] /\ cachedAge'[w] = cachedAge[w]
          BY <1>0, <2>3, <3>1 DEF AuthzTypeOK
        <4>  QED  BY <1>1, <4>1 DEF StaleInv, CachedRecently
      <3>2. CASE w = u
        <4>1. cachedAge'[w] = 0 /\ reader[c].says = "granted"
          BY <1>0, <2>1, <2>3, <3>2 DEF AuthzTypeOK
        <4>2. lapsed[w] <= reader[c].age  BY <2>1, <2>2, <3>2, <4>1 DEF StaleInv, ReadRecently
        <4>  QED  BY <1>1, <1>3, <2>1, <4>1, <4>2
      <3>  QED  BY <3>1, <3>2
    <2>  QED  BY <1>2, <2>4, <2>5, <2>6 DEF StaleInv
  <1>5. ASSUME ~Fill(c) PROVE StaleInv'
    <2>1. UNCHANGED <<cached, cachedAge>>  BY <1>5 DEF ResolveFails, ReadGrants
    <2>2. CachedRecently'  BY <1>1, <2>1 DEF StaleInv, CachedRecently
    <2>3. PICK m \in {IdleReader} \cup ReaderType :
            /\ reader' = [reader EXCEPT ![c] = m]
            /\ m # IdleReader => m.age = 0 /\ (m.says = "granted" => Granted(m.user))
      <3>1. CASE ResolveFails(c)  BY <3>1 DEF ResolveFails
      <3>2. ASSUME NEW u \in Principals, ReadGrants(c, u)
            PROVE  \E m \in {IdleReader} \cup ReaderType :
                     /\ reader' = [reader EXCEPT ![c] = m]
                     /\ m # IdleReader => m.age = 0 /\ (m.says = "granted" => Granted(m.user))
        <4>  DEFINE m == [at |-> "read", user |-> u, age |-> 0,
                          says |-> IF Granted(u) THEN "granted" ELSE "denied"]
        <4>1. 0 \in 0 .. MaxFill  OBVIOUS
        <4>2. m \in ReaderType  BY <4>1 DEF ReaderType
        <4>3. reader' = [reader EXCEPT ![c] = m]  BY <3>2 DEF ReadGrants
        <4>4. m.age = 0 /\ (m.says = "granted" => Granted(m.user))  OBVIOUS
        <4>  QED  BY <4>2, <4>3, <4>4
      <3>  QED  BY <1>5, <3>1, <3>2
    <2>4. AuthzTypeOK'
      <3>1. reader' \in [Readers -> {IdleReader} \cup ReaderType]
        BY <1>0, <2>3 DEF AuthzTypeOK, ReaderType
      <3>  QED  BY <1>0, <1>1, <2>1, <3>1 DEF AuthzTypeOK, ReaderType
    <2>5. ReadRecently'
      <3>  SUFFICES ASSUME NEW d \in Readers, reader'[d].at = "read", reader'[d].says = "granted"
                    PROVE  lapsed'[reader'[d].user] <= reader'[d].age
        BY DEF ReadRecently
      <3>1. CASE d # c
        <4>1. reader'[d] = reader[d]  BY <1>0, <2>3, <3>1 DEF AuthzTypeOK
        <4>  QED  BY <1>1, <4>1 DEF StaleInv, ReadRecently
      <3>2. CASE d = c
        <4>1. reader'[d] = m /\ m # IdleReader
          BY <1>0, <2>3, <3>2 DEF AuthzTypeOK, IdleReader
        <4>2. m.user \in Principals  BY <4>1 DEF ReaderType
        <4>3. lapsed[m.user] = 0  BY <2>3, <4>1, <4>2 DEF StaleInv, HeldNow
        <4>  QED  BY <1>1, <2>3, <4>1, <4>3
      <3>  QED  BY <3>1, <3>2
    <2>  QED  BY <1>2, <2>2, <2>4, <2>5 DEF StaleInv
  <1>  QED  BY <1>4, <1>5

\* An assignment runs out: who held the permission until now lost it now.
LEMMA ExpiresStale ==
    ASSUME StaleInv, NEW u \in Principals, NEW r \in Roles, AssignmentExpires(u, r)
    PROVE  StaleInv'
  <1>0. AuthzTypeOK  BY DEF StaleInv
  <1>1. /\ assigned' = assigned \ {<<u, r>>} /\ disturbed' = TRUE
        /\ lapsed' = [lapsed EXCEPT ![u] = IF Granted(u) THEN 0 ELSE @]
        /\ UNCHANGED <<carriers, claims, cached, cachedAge, admin, reader>>
    BY DEF AssignmentExpires
  <1>2. \A w \in Principals : Granted(w)' => Granted(w)  BY <1>1 DEF Granted, RolesOf
  <1>3. StaleBound \in Nat /\ 0 \in 0 .. StaleBound  BY DEF StaleBound
  <1>4. lapsed \in [Principals -> 0 .. StaleBound]  BY <1>0 DEF AuthzTypeOK
  <1>5. lapsed' \in [Principals -> 0 .. StaleBound]  BY <1>1, <1>3, <1>4
  <1>6. \A w \in Principals : lapsed'[w] = IF w = u /\ Granted(u) THEN 0 ELSE lapsed[w]
    BY <1>1, <1>4
  <1>7. \A w \in Principals : lapsed'[w] <= lapsed[w]  BY <1>3, <1>4, <1>6
  <1>8. \A w \in Principals : Granted(w)' => lapsed'[w] = 0
    BY <1>2, <1>6 DEF StaleInv, HeldNow
  <1>9. AuthzTypeOK'
    <2>1. assigned' \in SUBSET (Principals \X Roles)  BY <1>0, <1>1 DEF AuthzTypeOK
    <2>  QED  BY <1>0, <1>1, <1>5, <2>1 DEF AuthzTypeOK
  <1>  QED  BY <1>1, <1>7, <1>8, <1>9, StaleStep

\* A tick: everything grows older together, and what is too old goes.
LEMMA TickStale ==
    ASSUME StaleInv, AuthzTick
    PROVE  StaleInv'
  <1>0. AuthzTypeOK  BY DEF StaleInv
  <1>1. StaleBound \in Nat /\ Ttl \in Nat /\ MaxFill \in Nat  BY DEF StaleBound
  <1>2. \A u \in Principals : lapsed[u] \in 0 .. StaleBound /\ cachedAge[u] \in 0 .. Ttl
                              /\ cached[u] \in {"none", "granted", "denied"}
    BY <1>0 DEF AuthzTypeOK
  <1>3. \A u \in Principals :
          /\ cached'[u] = IF cachedAge[u] >= Ttl THEN "none" ELSE cached[u]
          /\ cachedAge'[u] = IF cached'[u] = "none" THEN 0 ELSE IF cachedAge[u] < Ttl THEN cachedAge[u] + 1 ELSE Ttl
          /\ lapsed'[u] = IF Granted(u) THEN 0 ELSE IF lapsed[u] < StaleBound THEN lapsed[u] + 1 ELSE StaleBound
    BY DEF AuthzTick, Outlived
  <1>4. \A u \in Principals :
          /\ lapsed'[u] \in 0 .. StaleBound /\ lapsed'[u] <= lapsed[u] + 1
          /\ cachedAge'[u] \in 0 .. Ttl /\ cached'[u] \in {"none", "granted", "denied"}
    BY <1>1, <1>2, <1>3
  <1>5. ASSUME NEW c \in Readers
        PROVE  /\ reader'[c] \in {IdleReader} \cup ReaderType
               /\ reader'[c].at = "read" => /\ reader[c].at = "read" /\ reader'[c].says = reader[c].says
                                            /\ reader'[c].user = reader[c].user
                                            /\ reader'[c].age = reader[c].age + 1
    <2>1. CASE reader[c].at = "read"
      <3>1. reader[c] \in ReaderType /\ reader[c].age \in 0 .. MaxFill /\ reader[c].age < MaxFill
        BY <1>0, <2>1, ReaderFields DEF AuthzTick
      <3>2. reader'[c] = [reader[c] EXCEPT !.age = @ + 1]  BY <2>1 DEF AuthzTick
      <3>3. reader[c].age + 1 \in 0 .. MaxFill  BY <1>1, <3>1
      <3>  QED  BY <2>1, <3>1, <3>2, <3>3 DEF ReaderType
    <2>2. CASE reader[c].at # "read"
      <3>1. reader'[c] = reader[c] /\ reader[c] = IdleReader
        BY <1>0, <2>2, ReaderFields DEF AuthzTick
      <3>  QED  BY <3>1 DEF IdleReader
    <2>  QED  BY <2>1, <2>2
  <1>6. AuthzTypeOK'
    <2>1. reader' \in [Readers -> {IdleReader} \cup ReaderType]
      <3>1. reader' = [c \in Readers |-> reader'[c]]  BY DEF AuthzTick
      <3>  QED  BY <1>5, <3>1
    <2>2. /\ lapsed' \in [Principals -> 0 .. StaleBound] /\ cachedAge' \in [Principals -> 0 .. Ttl]
          /\ cached' \in [Principals -> {"none", "granted", "denied"}]
      <3>1. /\ lapsed' = [u \in Principals |-> lapsed'[u]] /\ cached' = [u \in Principals |-> cached'[u]]
            /\ cachedAge' = [u \in Principals |-> cachedAge'[u]]
        BY DEF AuthzTick
      <3>  QED  BY <1>4, <3>1
    <2>  QED  BY <1>0, <2>1, <2>2 DEF AuthzTypeOK, AuthzTick, ReaderType
  <1>7. HeldNow'
    <2>1. \A u \in Principals : Granted(u)' <=> Granted(u)  BY DEF AuthzTick, Granted, RolesOf
    <2>  QED  BY <1>3, <2>1 DEF HeldNow
  <1>8. ReadRecently'
    <2>  SUFFICES ASSUME NEW c \in Readers, reader'[c].at = "read", reader'[c].says = "granted"
                  PROVE  lapsed'[reader'[c].user] <= reader'[c].age
      BY DEF ReadRecently
    <2>1. PICK u \in Principals : u = reader[c].user  BY <1>0, <1>5, ReaderFields
    <2>2. lapsed[u] <= reader[c].age /\ reader[c].age \in 0 .. MaxFill
      BY <1>0, <1>5, <2>1, ReaderFields DEF StaleInv, ReadRecently
    <2>3. reader'[c].user = u /\ reader'[c].age = reader[c].age + 1  BY <1>5, <2>1
    <2>  QED  BY <1>1, <1>2, <1>4, <2>2, <2>3
  <1>9. CachedRecently'
    <2>  SUFFICES ASSUME NEW u \in Principals, cached'[u] = "granted"
                  PROVE  lapsed'[u] <= cachedAge'[u] + MaxFill
      BY DEF CachedRecently
    <2>1. cached[u] = "granted" /\ cachedAge[u] < Ttl /\ cachedAge'[u] = cachedAge[u] + 1
      BY <1>1, <1>2, <1>3
    <2>2. lapsed[u] <= cachedAge[u] + MaxFill  BY <2>1 DEF StaleInv, CachedRecently
    <2>  QED  BY <1>1, <1>2, <1>4, <2>1, <2>2
  <1>  QED  BY <1>6, <1>7, <1>8, <1>9 DEF StaleInv

\* Nobody holds anything, nothing is cached.
LEMMA InitStale == AuthzInit => StaleInv
  <1>  SUFFICES ASSUME AuthzInit PROVE StaleInv  OBVIOUS
  <1>1. StaleBound \in Nat /\ StaleBound \in 0 .. StaleBound /\ 0 \in 0 .. Ttl  BY DEF StaleBound
  <1>2. AuthzTypeOK
    <2>1. lapsed \in [Principals -> 0 .. StaleBound] /\ cachedAge \in [Principals -> 0 .. Ttl]
      BY <1>1 DEF AuthzInit
    <2>2. admin \in [Admins -> AdminType] /\ reader \in [Readers -> {IdleReader} \cup ReaderType]
      BY DEF AuthzInit, AdminType
    <2>3. /\ carriers \in SUBSET Roles /\ assigned \in SUBSET (Principals \X Roles)
          /\ claims \in [Principals -> SUBSET Roles] /\ disturbed \in BOOLEAN
          /\ cached \in [Principals -> {"none", "granted", "denied"}]
      BY DEF AuthzInit
    <2>  QED  BY <2>1, <2>2, <2>3 DEF AuthzTypeOK, ReaderType
  <1>3. HeldNow /\ ReadRecently /\ CachedRecently
    BY DEF AuthzInit, HeldNow, ReadRecently, CachedRecently, Granted, RolesOf, IdleReader
  <1>  QED  BY <1>2, <1>3 DEF StaleInv

\* Every step preserves the bound.
LEMMA NextStale == StaleInv /\ [AuthzNext]_authzVars => StaleInv'
  <1>  SUFFICES ASSUME StaleInv, [AuthzNext]_authzVars PROVE StaleInv'  OBVIOUS
  <1>1. CASE UNCHANGED authzVars
    BY <1>1 DEF authzVars, StaleInv, AuthzTypeOK, HeldNow, ReadRecently, CachedRecently, Granted, RolesOf
  <1>2. CASE AuthzNext
    BY <1>2, AdminStale, ResolveStale, ExpiresStale, TickStale DEF AuthzNext
  <1>  QED  BY <1>1, <1>2

\* The cache keeps the bound.
THEOREM StaleInvariance == AuthzSpec => []StaleInv
  BY InitStale, NextStale, PTL DEF AuthzSpec

\* Every variable of the cache and of the calls around it keeps its type.
THEOREM AuthzTypeCorrect == AuthzSpec => []AuthzTypeOK
  <1>1. StaleInv => AuthzTypeOK  BY DEF StaleInv
  <1>  QED  BY <1>1, StaleInvariance, PTL

\* Whatever calls interleave or die, no answer of the cache grants what was
\* lost longer ago than its time to live and the length of one fill.
THEOREM StalenessIsBounded == AuthzSpec => []StaleAtMostTtl
  <1>1. StaleInv => StaleAtMostTtl
    <2>  SUFFICES ASSUME StaleInv, NEW u \in Principals, cached[u] = "granted"
                  PROVE  lapsed[u] <= Ttl + MaxFill
      BY DEF StaleAtMostTtl
    <2>1. lapsed[u] <= cachedAge[u] + MaxFill  BY DEF StaleInv, CachedRecently
    <2>2. cachedAge[u] \in 0 .. Ttl /\ lapsed[u] \in 0 .. StaleBound /\ StaleBound \in Nat
      BY DEF StaleInv, AuthzTypeOK, StaleBound
    <2>  QED  BY <2>1, <2>2
  <1>  QED  BY <1>1, StaleInvariance, PTL

-----------------------------------------------------------------------------
(* What a call still owes                                                  *)

Verdict(u) == IF Granted(u) THEN "granted" ELSE "denied"

\* The users whose cached answer the call will still drop ...
CacheDue(a) ==
    IF admin[a].at = "listing" THEN HoldersOfRole(admin[a].role)
    ELSE IF admin[a].at \in {"syncing", "dropping"} THEN admin[a].todo
    ELSE IF admin[a].at \in {"writing", "invalidating"} THEN admin[a].todo \cup {admin[a].user}
    ELSE {}

\* ... and those whose employees.roles it will still write.
ClaimsDue(a) ==
    IF admin[a].at \in {"syncing", "invalidating"} THEN admin[a].todo
    ELSE IF admin[a].at = "writing" THEN admin[a].todo \cup {admin[a].user}
    ELSE {}

\* What a call has read before it writes is still so.
MemoryTrue(a) ==
    /\ admin[a].at = "writing" => admin[a].keys = RolesOf(admin[a].user)
    /\ admin[a].at = "deleting" => admin[a].todo = HoldersOfRole(admin[a].role)

OneAdmin == \A a, b \in Admins : admin[a] # IdleAdmin /\ admin[b] # IdleAdmin => a = b

ReadersTrue == \A c \in Readers : reader[c].at = "read" => reader[c].says = Verdict(reader[c].user)

CacheTrue ==
    \A u \in Principals : cached[u] \in {"none", Verdict(u)} \/ \E a \in Admins : u \in CacheDue(a)

ClaimsTrue ==
    \A u \in Principals : claims[u] = RolesOf(u) \/ \E a \in Admins : u \in ClaimsDue(a)

FreshInv ==
    disturbed \/ (OneAdmin /\ ReadersTrue /\ CacheTrue /\ ClaimsTrue /\ \A a \in Admins : MemoryTrue(a))

\* An idle call owes nothing.
LEMMA IdleOwesNothing ==
    ASSUME NEW a \in Admins, admin[a] = IdleAdmin
    PROVE  CacheDue(a) = {} /\ ClaimsDue(a) = {} /\ MemoryTrue(a)
  BY DEF IdleAdmin, CacheDue, ClaimsDue, MemoryTrue

\* A call that is alone, before its transaction, changes the tables: the
\* users who are not on its list afterwards have what they had.
LEMMA TransactionFresh ==
    ASSUME AuthzTypeOK, FreshInv, NEW a \in Admins, ~disturbed, ~Overlaps(a), Moved(a),
           UNCHANGED <<cached, reader>>, CacheDue(a) = {}, ClaimsDue(a) = {}, MemoryTrue(a)',
           \A u \in Principals : u \in CacheDue(a)' \/ (Granted(u)' <=> Granted(u)),
           \A u \in Principals :
              u \in ClaimsDue(a)' \/ claims'[u] = RolesOf(u)'
              \/ (claims'[u] = claims[u] /\ RolesOf(u)' = RolesOf(u))
    PROVE  FreshInv'
  <1>1. /\ \A b \in Admins \ {a} : admin[b] = IdleAdmin
        /\ \A c \in Readers : reader[c].at # "read"
    BY DEF Overlaps
  <1>2. \A b \in Admins \ {a} : admin'[b] = IdleAdmin  BY <1>1 DEF Moved, AuthzTypeOK
  <1>3. \A b \in Admins : CacheDue(b) = {} /\ ClaimsDue(b) = {}  BY <1>1, IdleOwesNothing
  <1>4. \A b \in Admins : MemoryTrue(b)'
    BY <1>2 DEF MemoryTrue, IdleAdmin
  <1>5. OneAdmin' /\ ReadersTrue'  BY <1>1, <1>2 DEF OneAdmin, ReadersTrue
  <1>6. CacheTrue'
    <2>1. \A u \in Principals : cached[u] \in {"none", Verdict(u)}
      BY <1>3 DEF FreshInv, CacheTrue
    <2>2. ASSUME NEW u \in Principals, ~(u \in CacheDue(a)') PROVE cached'[u] \in {"none", Verdict(u)'}
      BY <2>1, <2>2 DEF Verdict
    <2>  QED  BY <2>2 DEF CacheTrue
  <1>7. ClaimsTrue'
    <2>1. \A u \in Principals : claims[u] = RolesOf(u)  BY <1>3 DEF FreshInv, ClaimsTrue
    <2>  QED  BY <2>1 DEF ClaimsTrue
  <1>  QED  BY <1>4, <1>5, <1>6, <1>7 DEF FreshInv

\* A call works off its list: who leaves it is right.
LEMMA WorkFresh ==
    ASSUME AuthzTypeOK, FreshInv, NEW a \in Admins, admin[a] # IdleAdmin, Moved(a),
           UNCHANGED <<carriers, assigned, reader, disturbed>>,
           \A u \in Principals : u \in CacheDue(a)' \/ cached'[u] = "none"
                                 \/ (u \notin CacheDue(a) /\ cached'[u] = cached[u]),
           \A u \in Principals : u \in ClaimsDue(a)' \/ claims'[u] = RolesOf(u)
                                 \/ (u \notin ClaimsDue(a) /\ claims'[u] = claims[u]),
           ~disturbed => MemoryTrue(a)'
    PROVE  FreshInv'
  <1>  SUFFICES ASSUME ~disturbed PROVE FreshInv'  BY DEF FreshInv
  <1>1. OneAdmin /\ ReadersTrue /\ CacheTrue /\ ClaimsTrue  BY DEF FreshInv
  <1>2. \A b \in Admins \ {a} : admin[b] = IdleAdmin  BY <1>1 DEF OneAdmin
  <1>3. \A b \in Admins \ {a} : admin'[b] = IdleAdmin  BY <1>2 DEF Moved, AuthzTypeOK
  <1>4. \A b \in Admins \ {a} : CacheDue(b) = {} /\ ClaimsDue(b) = {}  BY <1>2, IdleOwesNothing
  <1>5. \A b \in Admins : MemoryTrue(b)'  BY <1>3 DEF MemoryTrue, IdleAdmin
  <1>6. OneAdmin'  BY <1>3 DEF OneAdmin
  <1>7. ReadersTrue'  BY <1>1 DEF ReadersTrue, Verdict, Granted, RolesOf
  <1>8. \A u \in Principals : /\ u \in CacheDue(a) \/ cached[u] \in {"none", Verdict(u)}
                              /\ u \in ClaimsDue(a) \/ claims[u] = RolesOf(u)
    BY <1>1, <1>4 DEF CacheTrue, ClaimsTrue
  <1>9. \A u \in Principals : Verdict(u)' = Verdict(u) /\ RolesOf(u)' = RolesOf(u)
    BY DEF Verdict, Granted, RolesOf
  <1>10. CacheTrue'  BY <1>8, <1>9 DEF CacheTrue
  <1>11. ClaimsTrue'  BY <1>8, <1>9 DEF ClaimsTrue
  <1>  QED  BY <1>5, <1>6, <1>7, <1>10, <1>11 DEF FreshInv

\* The transactions, one by one.
LEMMA TransactionsFresh ==
    ASSUME AuthzTypeOK, FreshInv, NEW a \in Admins, Transaction(a)
    PROVE  FreshInv'
  <1>1. disturbed' = (disturbed \/ Overlaps(a)) /\ Moved(a) /\ UNCHANGED <<cached, reader>>
    BY TransactionType DEF Noted
  <1>  SUFFICES ASSUME ~disturbed, ~Overlaps(a) PROVE FreshInv'  BY <1>1 DEF FreshInv
  <1>2. admin[a].at \in {"idle", "planned", "deleting"}
    <2>1. CASE SyncUserRoles(a)  BY <2>1 DEF SyncUserRoles
    <2>2. CASE DeleteRole(a)  BY <2>2 DEF DeleteRole
    <2>3. CASE admin[a] = IdleAdmin  BY <2>3 DEF IdleAdmin
    <2>4. ASSUME NEW r \in Roles, SetRolePermissions(a, r) \/ ReadHolders(a, r) PROVE admin[a] = IdleAdmin
      BY <2>4 DEF SetRolePermissions, ReadHolders, Begin
    <2>5. ASSUME NEW u \in Principals, OffboardPrincipal(a, u) PROVE admin[a] = IdleAdmin
      BY <2>5 DEF OffboardPrincipal, Begin
    <2>6. ASSUME NEW u \in Principals, NEW r \in Roles, AssignRole(a, u, r) \/ RevokeAssignment(a, u, r)
          PROVE  admin[a] = IdleAdmin
      BY <2>6 DEF AssignRole, RevokeAssignment, Begin
    <2>7. ASSUME NEW u \in Principals, NEW want \in SUBSET Roles, PlanSync(a, u, want)
          PROVE  admin[a] = IdleAdmin
      BY <2>7 DEF PlanSync, Begin
    <2>  QED  BY <2>1, <2>2, <2>3, <2>4, <2>5, <2>6, <2>7 DEF Transaction
  <1>3. CacheDue(a) = {} /\ ClaimsDue(a) = {}  BY <1>2 DEF CacheDue, ClaimsDue
  <1>4. DOMAIN admin = Admins  BY DEF AuthzTypeOK
  <1>5. ASSUME SyncUserRoles(a) PROVE FreshInv'
    <2>1. /\ assigned' = (assigned \cup (admin[a].todo \X (admin[a].want \ admin[a].had)))
                            \ (admin[a].todo \X (admin[a].had \ admin[a].want))
          /\ admin'[a] = [at |-> "syncing", todo |-> admin[a].todo]
          /\ UNCHANGED <<carriers, claims>>
      BY <1>4, <1>5 DEF SyncUserRoles
    <2>2. CacheDue(a)' = admin[a].todo /\ ClaimsDue(a)' = admin[a].todo /\ MemoryTrue(a)'
      BY <2>1 DEF CacheDue, ClaimsDue, MemoryTrue
    <2>3. \A u \in Principals \ admin[a].todo : RolesOf(u)' = RolesOf(u)  BY <2>1 DEF RolesOf
    <2>4. \A u \in Principals \ admin[a].todo : Granted(u)' <=> Granted(u)  BY <2>1, <2>3 DEF Granted
    <2>  QED  BY <1>1, <1>3, <2>1, <2>2, <2>3, <2>4, TransactionFresh
  <1>6. ASSUME DeleteRole(a) PROVE FreshInv'
    <2>1. /\ assigned' = assigned \ (Principals \X {admin[a].role})
          /\ carriers' = carriers \ {admin[a].role} /\ claims' = claims
          /\ admin'[a] = [at |-> "syncing", todo |-> admin[a].todo] /\ admin[a].at = "deleting"
      BY <1>4, <1>6 DEF DeleteRole
    <2>2. CacheDue(a)' = admin[a].todo /\ ClaimsDue(a)' = admin[a].todo /\ MemoryTrue(a)'
      BY <2>1 DEF CacheDue, ClaimsDue, MemoryTrue
    <2>3. admin[a].todo = HoldersOfRole(admin[a].role)  BY <2>1 DEF FreshInv, MemoryTrue
    <2>4. \A u \in Principals \ admin[a].todo : admin[a].role \notin RolesOf(u)
      BY <2>3 DEF HoldersOfRole, RolesOf
    <2>5. \A u \in Principals \ admin[a].todo : RolesOf(u)' = RolesOf(u)
      BY <2>1, <2>4 DEF RolesOf
    <2>6. \A u \in Principals \ admin[a].todo : Granted(u)' <=> Granted(u)
      BY <2>1, <2>4, <2>5 DEF Granted
    <2>  QED  BY <1>1, <1>3, <2>1, <2>2, <2>5, <2>6, TransactionFresh
  <1>7. ASSUME NEW r \in Roles, SetRolePermissions(a, r) PROVE FreshInv'
    <2>1. /\ carriers' = (IF r \in carriers THEN carriers \ {r} ELSE carriers \cup {r})
          /\ admin'[a] = [at |-> "listing", role |-> r] /\ UNCHANGED <<assigned, claims>>
      BY <1>4, <1>7 DEF SetRolePermissions, Begin
    <2>2. CacheDue(a)' = HoldersOfRole(r) /\ ClaimsDue(a)' = {} /\ MemoryTrue(a)'
      BY <2>1 DEF CacheDue, ClaimsDue, MemoryTrue, HoldersOfRole
    <2>3. \A u \in Principals : RolesOf(u)' = RolesOf(u)  BY <2>1 DEF RolesOf
    <2>4. \A u \in Principals \ HoldersOfRole(r) : r \notin RolesOf(u)  BY DEF HoldersOfRole, RolesOf
    <2>5. \A u \in Principals \ HoldersOfRole(r) : Granted(u)' <=> Granted(u)
      BY <2>1, <2>3, <2>4 DEF Granted
    <2>  QED  BY <1>1, <1>3, <2>1, <2>2, <2>3, <2>5, TransactionFresh
  <1>8. ASSUME NEW r \in Roles, ReadHolders(a, r) PROVE FreshInv'
    <2>1. /\ admin'[a] = [at |-> "deleting", role |-> r, todo |-> HoldersOfRole(r)]
          /\ UNCHANGED <<carriers, assigned, claims>>
      BY <1>4, <1>8 DEF ReadHolders, Begin
    <2>2. MemoryTrue(a)'  BY <2>1 DEF MemoryTrue, HoldersOfRole
    <2>3. \A u \in Principals : RolesOf(u)' = RolesOf(u) /\ (Granted(u)' <=> Granted(u))
      BY <2>1 DEF RolesOf, Granted
    <2>  QED  BY <1>1, <1>3, <2>1, <2>2, <2>3, TransactionFresh
  <1>9. ASSUME NEW u \in Principals, OffboardPrincipal(a, u) PROVE FreshInv'
    <2>1. /\ assigned' = assigned \ ({u} \X Roles) /\ claims' = [claims EXCEPT ![u] = {}]
          /\ admin'[a] = [at |-> "dropping", todo |-> {u}] /\ UNCHANGED carriers
      BY <1>4, <1>9 DEF OffboardPrincipal, Begin
    <2>2. CacheDue(a)' = {u} /\ ClaimsDue(a)' = {} /\ MemoryTrue(a)'
      BY <2>1 DEF CacheDue, ClaimsDue, MemoryTrue
    <2>3. RolesOf(u)' = {} /\ \A w \in Principals \ {u} : RolesOf(w)' = RolesOf(w)
      BY <2>1 DEF RolesOf
    <2>4. \A w \in Principals \ {u} : Granted(w)' <=> Granted(w)  BY <2>1, <2>3 DEF Granted
    <2>5. claims'[u] = {} /\ \A w \in Principals \ {u} : claims'[w] = claims[w]
      BY <2>1 DEF AuthzTypeOK
    <2>  QED  BY <1>1, <1>3, <2>2, <2>3, <2>4, <2>5, TransactionFresh
  <1>10. ASSUME NEW u \in Principals, NEW r \in Roles, AssignRole(a, u, r) \/ RevokeAssignment(a, u, r)
         PROVE  FreshInv'
    <2>1. /\ assigned' = assigned \cup {<<u, r>>} \/ assigned' = assigned \ {<<u, r>>}
          /\ admin'[a] = [at |-> "syncing", todo |-> {u}] /\ UNCHANGED <<carriers, claims>>
      BY <1>4, <1>10 DEF AssignRole, RevokeAssignment, Begin
    <2>2. CacheDue(a)' = {u} /\ ClaimsDue(a)' = {u} /\ MemoryTrue(a)'
      BY <2>1 DEF CacheDue, ClaimsDue, MemoryTrue
    <2>3. \A w \in Principals \ {u} : RolesOf(w)' = RolesOf(w)  BY <2>1 DEF RolesOf
    <2>4. \A w \in Principals \ {u} : Granted(w)' <=> Granted(w)  BY <2>1, <2>3 DEF Granted
    <2>  QED  BY <1>1, <1>3, <2>1, <2>2, <2>3, <2>4, TransactionFresh
  <1>11. ASSUME NEW u \in Principals, NEW want \in SUBSET Roles, PlanSync(a, u, want) PROVE FreshInv'
    <2>1. /\ admin'[a] = [at |-> "planned", todo |-> {u}, want |-> want, had |-> RolesOf(u)]
          /\ UNCHANGED <<carriers, assigned, claims>>
      BY <1>4, <1>11 DEF PlanSync, Begin
    <2>2. MemoryTrue(a)'  BY <2>1 DEF MemoryTrue
    <2>3. \A w \in Principals : RolesOf(w)' = RolesOf(w) /\ (Granted(w)' <=> Granted(w))
      BY <2>1 DEF RolesOf, Granted
    <2>  QED  BY <1>1, <1>3, <2>1, <2>2, <2>3, TransactionFresh
  <1>  QED  BY <1>5, <1>6, <1>7, <1>8, <1>9, <1>10, <1>11 DEF Transaction

\* The work after a transaction, one user at a time.
LEMMA WorksFresh ==
    ASSUME AuthzTypeOK, FreshInv, NEW a \in Admins, Work(a)
    PROVE  FreshInv'
  <1>1. Moved(a) /\ UNCHANGED <<carriers, assigned, reader, disturbed>>  BY WorkType
  <1>2. admin[a] # IdleAdmin
    BY DEF Work, ListHolders, WriteClaims, InvalidateAfterSync, AdminReturns, ReadClaims,
           InvalidateHolder, IdleAdmin
  <1>3. DOMAIN admin = Admins /\ DOMAIN cached = Principals /\ DOMAIN claims = Principals
    BY DEF AuthzTypeOK
  <1>4. ASSUME ListHolders(a) PROVE FreshInv'
    <2>1. /\ admin'[a] = [at |-> "dropping", todo |-> HoldersOfRole(admin[a].role)]
          /\ admin[a].at = "listing" /\ UNCHANGED <<cached, claims>>
      BY <1>3, <1>4 DEF ListHolders, InvalidateRoleHolders
    <2>2. CacheDue(a)' = CacheDue(a) /\ ClaimsDue(a) = {} /\ MemoryTrue(a)'
      BY <2>1 DEF CacheDue, ClaimsDue, MemoryTrue
    <2>  QED  BY <1>1, <1>2, <2>1, <2>2, WorkFresh
  <1>5. ASSUME WriteClaims(a) PROVE FreshInv'
    <2>1. /\ admin'[a] = [at |-> "invalidating", todo |-> admin[a].todo, user |-> admin[a].user]
          /\ admin[a].at = "writing" /\ UNCHANGED cached
          /\ claims' = [claims EXCEPT ![admin[a].user] = admin[a].keys]
      BY <1>3, <1>5 DEF WriteClaims
    <2>2. /\ CacheDue(a)' = CacheDue(a) /\ ClaimsDue(a) = admin[a].todo \cup {admin[a].user}
          /\ ClaimsDue(a)' = admin[a].todo /\ MemoryTrue(a)'
      BY <2>1 DEF CacheDue, ClaimsDue, MemoryTrue
    <2>3. \A u \in Principals : claims'[u] = IF u = admin[a].user THEN admin[a].keys ELSE claims[u]
      BY <1>3, <2>1
    <2>4. ~disturbed => admin[a].keys = RolesOf(admin[a].user)  BY <2>1 DEF FreshInv, MemoryTrue
    <2>5. CASE disturbed  BY <1>1, <2>5 DEF FreshInv
    <2>6. CASE ~disturbed  BY <1>1, <1>2, <2>1, <2>2, <2>3, <2>4, <2>6, WorkFresh
    <2>  QED  BY <2>5, <2>6
  <1>6. ASSUME InvalidateAfterSync(a) PROVE FreshInv'
    <2>1. /\ admin'[a] = [at |-> "syncing", todo |-> admin[a].todo]
          /\ admin[a].at = "invalidating" /\ UNCHANGED claims
          /\ cached' = [cached EXCEPT ![admin[a].user] = "none"]
      BY <1>3, <1>6 DEF InvalidateAfterSync, Drop
    <2>2. /\ CacheDue(a)' = admin[a].todo /\ CacheDue(a) = admin[a].todo \cup {admin[a].user}
          /\ ClaimsDue(a)' = ClaimsDue(a) /\ MemoryTrue(a)'
      BY <2>1 DEF CacheDue, ClaimsDue, MemoryTrue
    <2>3. \A u \in Principals : cached'[u] = IF u = admin[a].user THEN "none" ELSE cached[u]
      BY <1>3, <2>1
    <2>  QED  BY <1>1, <1>2, <2>1, <2>2, <2>3, WorkFresh
  <1>7. ASSUME AdminReturns(a) PROVE FreshInv'
    <2>1. /\ admin'[a] = IdleAdmin /\ admin[a].at \in {"syncing", "dropping"} /\ admin[a].todo = {}
          /\ UNCHANGED <<cached, claims>>
      BY <1>3, <1>7 DEF AdminReturns
    <2>2. CacheDue(a) = {} /\ ClaimsDue(a) = {} /\ MemoryTrue(a)'
      BY <2>1 DEF CacheDue, ClaimsDue, MemoryTrue, IdleAdmin
    <2>  QED  BY <1>1, <1>2, <2>1, <2>2, WorkFresh
  <1>8. ASSUME NEW u \in Principals, ReadClaims(a, u) PROVE FreshInv'
    <2>1. /\ admin'[a] = [at |-> "writing", todo |-> admin[a].todo \ {u}, user |-> u, keys |-> RolesOf(u)]
          /\ admin[a].at = "syncing" /\ u \in admin[a].todo /\ UNCHANGED <<cached, claims>>
      BY <1>3, <1>8 DEF ReadClaims
    <2>2. /\ CacheDue(a)' = CacheDue(a) /\ ClaimsDue(a)' = ClaimsDue(a)
      BY <2>1 DEF CacheDue, ClaimsDue
    <2>3. MemoryTrue(a)'  BY <1>1, <2>1 DEF MemoryTrue, RolesOf
    <2>  QED  BY <1>1, <1>2, <2>1, <2>2, <2>3, WorkFresh
  <1>9. ASSUME NEW u \in Principals, InvalidateHolder(a, u) PROVE FreshInv'
    <2>1. admin[a] \in AdminType /\ admin[a].at = "dropping"
      BY <1>9 DEF InvalidateHolder, AuthzTypeOK
    <2>2. admin[a] \in [at : {"syncing", "dropping"}, todo : SUBSET Principals]
      BY <2>1 DEF AdminType, IdleAdmin
    <2>3. admin'[a].at = "dropping" /\ admin'[a].todo = admin[a].todo \ {u}
      BY <1>3, <1>9, <2>1, <2>2 DEF InvalidateHolder
    <2>4. \A w \in Principals : cached'[w] = IF w = u THEN "none" ELSE cached[w]
      BY <1>3, <1>9 DEF InvalidateHolder, Drop
    <2>5. /\ CacheDue(a) = admin[a].todo /\ CacheDue(a)' = admin[a].todo \ {u}
          /\ ClaimsDue(a) = {} /\ MemoryTrue(a)' /\ UNCHANGED claims
      BY <1>9, <2>1, <2>3 DEF CacheDue, ClaimsDue, MemoryTrue, InvalidateHolder
    <2>  QED  BY <1>1, <1>2, <2>4, <2>5, WorkFresh
  <1>  QED  BY <1>4, <1>5, <1>6, <1>7, <1>8, <1>9 DEF Work

\* Steps of the readers and of time that leave the tables and the calls alone.
LEMMA ReadersFresh ==
    ASSUME AuthzTypeOK, FreshInv, UNCHANGED <<carriers, assigned, claims, admin, disturbed>>,
           \A c \in Readers : reader'[c].at = "read" =>
              \/ reader'[c].says = Verdict(reader'[c].user)
              \/ /\ reader[c].at = "read" /\ reader'[c].says = reader[c].says
                 /\ reader'[c].user = reader[c].user,
           \A u \in Principals : \/ cached'[u] \in {"none", cached[u]}
                                 \/ ~disturbed => cached'[u] = Verdict(u)
    PROVE  FreshInv'
  <1>  SUFFICES ASSUME ~disturbed PROVE FreshInv'  BY DEF FreshInv
  <1>1. OneAdmin /\ ReadersTrue /\ CacheTrue /\ ClaimsTrue /\ \A a \in Admins : MemoryTrue(a)
    BY DEF FreshInv
  <1>2. \A u \in Principals : Verdict(u)' = Verdict(u) /\ RolesOf(u)' = RolesOf(u)
    BY DEF Verdict, Granted, RolesOf
  <1>3. \A a \in Admins : CacheDue(a)' = CacheDue(a) /\ ClaimsDue(a)' = ClaimsDue(a)
    BY DEF CacheDue, ClaimsDue, HoldersOfRole
  <1>4. OneAdmin' /\ \A a \in Admins : MemoryTrue(a)'
    BY <1>1 DEF OneAdmin, MemoryTrue, RolesOf, HoldersOfRole
  <1>5. ReadersTrue'
    <2>1. \A c \in Readers : reader'[c].at = "read" => reader'[c].says = Verdict(reader'[c].user)
      BY <1>1 DEF ReadersTrue
    <2>  QED  BY <2>1 DEF ReadersTrue, Verdict, Granted, RolesOf
  <1>6. CacheTrue'  BY <1>1, <1>2, <1>3 DEF CacheTrue
  <1>7. ClaimsTrue'  BY <1>1, <1>2, <1>3 DEF ClaimsTrue
  <1>  QED  BY <1>4, <1>5, <1>6, <1>7 DEF FreshInv

\* resolve() and the tick.
LEMMA ResolvesFresh ==
    ASSUME AuthzTypeOK, FreshInv,
           \/ AuthzTick \/ UNCHANGED authzVars
           \/ \E c \in Readers : \/ Fill(c) \/ ResolveFails(c)
                                 \/ \E u \in Principals : ReadGrants(c, u)
    PROVE  FreshInv'
  <1>1. UNCHANGED <<carriers, assigned, claims, admin, disturbed>>
    BY DEF AuthzTick, authzVars, Fill, ResolveFails, ReadGrants
  <1>2. DOMAIN reader = Readers /\ DOMAIN cached = Principals  BY DEF AuthzTypeOK
  <1>3. CASE AuthzTick
    <2>1. ASSUME NEW c \in Readers, reader'[c].at = "read"
          PROVE  /\ reader[c].at = "read" /\ reader'[c].says = reader[c].says
                 /\ reader'[c].user = reader[c].user
      <3>1. CASE reader[c].at = "read"
        <4>1. reader[c] \in ReaderType  BY <3>1, ReaderFields
        <4>2. reader'[c] = [reader[c] EXCEPT !.age = @ + 1]  BY <1>3, <3>1 DEF AuthzTick
        <4>  QED  BY <3>1, <4>1, <4>2 DEF ReaderType
      <3>2. CASE reader[c].at # "read"  BY <1>3, <2>1, <3>2 DEF AuthzTick
      <3>  QED  BY <3>1, <3>2
    <2>2. \A u \in Principals : cached'[u] \in {"none", cached[u]}  BY <1>3 DEF AuthzTick
    <2>  QED  BY <1>1, <2>1, <2>2, ReadersFresh
  <1>4. ASSUME NEW c \in Readers, Fill(c) PROVE FreshInv'
    <2>1. reader[c].user \in Principals /\ reader[c].at = "read"  BY <1>4, ReaderFields DEF Fill
    <2>2. \A u \in Principals : cached'[u] = IF u = reader[c].user THEN reader[c].says ELSE cached[u]
      BY <1>2, <1>4 DEF Fill
    <2>3. ~disturbed => reader[c].says = Verdict(reader[c].user)
      BY <2>1 DEF FreshInv, ReadersTrue
    <2>4. \A d \in Readers : reader'[d].at = "read" => reader'[d] = reader[d]
      BY <1>2, <1>4 DEF Fill, IdleReader
    <2>  QED  BY <1>1, <2>2, <2>3, <2>4, ReadersFresh
  <1>5. ASSUME NEW c \in Readers, ResolveFails(c) PROVE FreshInv'
    <2>1. \A d \in Readers : reader'[d].at = "read" => reader'[d] = reader[d]
      BY <1>2, <1>5 DEF ResolveFails, IdleReader
    <2>  QED  BY <1>1, <1>5, <2>1, ReadersFresh DEF ResolveFails
  <1>6. ASSUME NEW c \in Readers, NEW u \in Principals, ReadGrants(c, u) PROVE FreshInv'
    <2>1. /\ reader'[c].user = u /\ reader'[c].says = Verdict(u)
          /\ \A d \in Readers \ {c} : reader'[d] = reader[d]
      BY <1>2, <1>6 DEF ReadGrants, Verdict
    <2>  QED  BY <1>1, <1>6, <2>1, ReadersFresh DEF ReadGrants
  <1>7. CASE UNCHANGED authzVars  BY <1>1, <1>7, ReadersFresh DEF authzVars
  <1>  QED  BY <1>3, <1>4, <1>5, <1>6, <1>7

\* As long as administrative calls do not overlap with others, none dies and
\* no assignment runs out, every answer of the cache and every employees.roles
\* is right once no call is under way: each of the eight ways to change what
\* a user may do also drops and rewrites what was derived from it.
THEOREM QuietCacheIsFresh == AuthzSpec => []QuietMeansFresh
  <1>  DEFINE Inv == StaleInv /\ FreshInv
  <1>1. AuthzInit => Inv
    <2>  SUFFICES ASSUME AuthzInit PROVE FreshInv  BY InitStale
    <2>1. OneAdmin /\ ReadersTrue  BY DEF AuthzInit, OneAdmin, ReadersTrue, IdleReader
    <2>2. CacheTrue /\ ClaimsTrue  BY DEF AuthzInit, CacheTrue, ClaimsTrue, RolesOf
    <2>3. \A a \in Admins : MemoryTrue(a)  BY DEF AuthzInit, MemoryTrue, IdleAdmin
    <2>  QED  BY <2>1, <2>2, <2>3 DEF FreshInv
  <1>2. Inv /\ [AuthzNext]_authzVars => Inv'
    <2>  SUFFICES ASSUME StaleInv, FreshInv, [AuthzNext]_authzVars PROVE FreshInv'
      BY NextStale
    <2>0. AuthzTypeOK  BY DEF StaleInv
    <2>1. ASSUME NEW a \in Admins, AdminStep(a) PROVE FreshInv'
      <3>1. CASE AdminDies(a)  BY <3>1 DEF AdminDies, FreshInv
      <3>  QED  BY <2>0, <2>1, <3>1, TransactionsFresh, WorksFresh DEF AdminStep, Transaction, Work
    <2>2. ASSUME NEW u \in Principals, NEW r \in Roles, AssignmentExpires(u, r) PROVE FreshInv'
      BY <2>2 DEF AssignmentExpires, FreshInv
    <2>  QED  BY <2>0, <2>1, <2>2, ResolvesFresh DEF AuthzNext
  <1>3. Inv => QuietMeansFresh
    <2>  SUFFICES ASSUME FreshInv, ~disturbed, \A a \in Admins : admin[a] = IdleAdmin,
                         NEW u \in Principals
                  PROVE  /\ cached[u] # "none" => cached[u] = Verdict(u)
                         /\ claims[u] = RolesOf(u)
      BY DEF QuietMeansFresh, Verdict
    <2>1. \A a \in Admins : CacheDue(a) = {} /\ ClaimsDue(a) = {}  BY IdleOwesNothing
    <2>  QED  BY <2>1 DEF FreshInv, CacheTrue, ClaimsTrue
  <1>  QED  BY <1>1, <1>2, <1>3, PTL DEF AuthzSpec

=============================================================================
