---------------------------- MODULE Idempotency ----------------------------
(***************************************************************************)
(* One Idempotency-Key of one caller, and the copies of a request that     *)
(* carry it: libs/platform/src/http/idempotency.interceptor.ts.            *)
(*                                                                         *)
(* intercept() asks the cache for a stored answer, then for the lock, then *)
(* runs the handler; the commands that store the answer and release the    *)
(* lock are sent in this order and not awaited.  The moments in between    *)
(* interleave with the other copies.  The cache (Valkey, through           *)
(* CacheService) is external: it answers, fails a command, or is down.     *)
(***************************************************************************)
EXTENDS Naturals, FiniteSets

CONSTANTS
    Copies,       \* the HTTP requests that carry the key
    Fingerprints, \* method, path and body
    Fingerprint,  \* [Copies -> Fingerprints]
    NoAnswer,
    NoCopy,
    Faults        \* whether pods die, commands fail and the cache goes down

ASSUME IdempotencyAssumption ==
    /\ Fingerprint \in [Copies -> Fingerprints]
    /\ NoAnswer \notin Fingerprints /\ NoCopy \notin Copies
    /\ Faults \in BOOLEAN

VARIABLES
    answer,   \* idem:<caller>:<key>, the fingerprint it was stored with
    lock,     \* idem:<caller>:<key>:lock, with the copy that took it
    cacheUp,  \* cache.isAvailable
    copy,     \* where each copy is
    executed, \* history: how often a handler with this fingerprint succeeded
    degraded, \* history: a copy ran without the cache, or its answer was lost
    overtaken \* history: copies that looked before an answer was stored and
              \* took the lock after

idempotencyVars == <<answer, lock, cacheUp, copy, executed, degraded, overtaken>>

Moments  == {"unsent", "looked", "running", "uncached", "storing", "releasing", "dead"}
Outcomes == {"done", "replayed", "refused", "in_flight"}

IdempotencyTypeOK ==
    /\ answer \in Fingerprints \cup {NoAnswer}
    /\ lock \in Copies \cup {NoCopy}
    /\ cacheUp \in BOOLEAN
    /\ copy \in [Copies -> Moments \cup Outcomes]
    /\ executed \in [Fingerprints -> Nat]
    /\ degraded \in BOOLEAN /\ overtaken \in SUBSET Copies

IdempotencyInit ==
    /\ answer = NoAnswer
    /\ lock = NoCopy
    /\ cacheUp = TRUE
    /\ copy = [c \in Copies |-> "unsent"]
    /\ executed = [f \in Fingerprints |-> 0]
    /\ degraded = FALSE /\ overtaken = {}

Moves(c, from, to) == copy[c] = from /\ copy' = [copy EXCEPT ![c] = to]

\* cache.getJson: nothing is stored yet.
LookUp(c) ==
    /\ cacheUp /\ answer = NoAnswer
    /\ Moves(c, "unsent", "looked")
    /\ UNCHANGED <<answer, lock, cacheUp, executed, degraded, overtaken>>

\* Fault: the stored answer is given whatever was asked.
ReplayAnswer_Unchecked(c) == "replayed"

\* replay(): the stored answer, or a refusal if the question changed.
ReplayAnswer(c) == IF answer = Fingerprint[c] THEN "replayed" ELSE "refused"

Replay(c) ==
    /\ cacheUp /\ answer # NoAnswer
    /\ Moves(c, "unsent", ReplayAnswer(c))
    /\ UNCHANGED <<answer, lock, cacheUp, executed, degraded, overtaken>>

\* The cache is down: the handler runs without the guarantee.
Bypass(c) ==
    /\ ~cacheUp
    /\ Moves(c, "unsent", "uncached")
    /\ degraded' = TRUE
    /\ UNCHANGED <<answer, lock, cacheUp, executed, overtaken>>

\* Fault: the lock is taken whoever holds it.
LockFree_Ignored == TRUE

LockFree == lock = NoCopy

\* cache.acquireLock.  The stored answer is not looked up again.
AcquireLock(c) ==
    /\ LockFree
    /\ Moves(c, "looked", "running")
    /\ lock' = c
    /\ overtaken' = IF answer = NoAnswer THEN overtaken ELSE overtaken \cup {c}
    /\ UNCHANGED <<answer, cacheUp, executed, degraded>>

RefuseInFlight(c) ==
    /\ ~LockFree
    /\ Moves(c, "looked", "in_flight")
    /\ UNCHANGED <<answer, lock, cacheUp, executed, degraded, overtaken>>

\* next.handle(): the handler commits its work ...
HandlerSucceeds(c) ==
    /\ copy[c] \in {"running", "uncached"}
    /\ copy' = [copy EXCEPT ![c] = IF @ = "running" THEN "storing" ELSE "done"]
    /\ executed' = [executed EXCEPT ![Fingerprint[c]] = @ + 1]
    /\ UNCHANGED <<answer, lock, cacheUp, degraded, overtaken>>

\* ... or throws and leaves nothing behind.
HandlerFails(c) ==
    /\ copy[c] \in {"running", "uncached"}
    /\ copy' = [copy EXCEPT ![c] = IF @ = "running" THEN "releasing" ELSE "done"]
    /\ UNCHANGED <<answer, lock, cacheUp, executed, degraded, overtaken>>

\* cache.setJson, not awaited.
Store(c) ==
    /\ Moves(c, "storing", "releasing")
    /\ answer' = Fingerprint[c]
    /\ UNCHANGED <<lock, cacheUp, executed, degraded, overtaken>>

StoreFails(c) ==
    /\ Faults
    /\ Moves(c, "storing", "releasing")
    /\ degraded' = TRUE
    /\ UNCHANGED <<answer, lock, cacheUp, executed, overtaken>>

\* cache.releaseLock, not awaited.
Release(c) ==
    /\ Moves(c, "releasing", "done")
    /\ lock' = NoCopy
    /\ UNCHANGED <<answer, cacheUp, executed, degraded, overtaken>>

\* The pod dies with the lock held; what the handler had committed stays.
PodDies(c) ==
    /\ Faults
    /\ copy[c] \in {"looked", "running", "storing", "releasing", "uncached"}
    /\ copy' = [copy EXCEPT ![c] = "dead"]
    /\ degraded' = (degraded \/ copy[c] = "storing")
    /\ UNCHANGED <<answer, lock, cacheUp, executed, overtaken>>

\* Fault: the lock is taken without a time to live.
LockExpires_Never == FALSE

\* IN_FLIGHT_TTL_MS is longer than any request the API serves, so only the
\* lock of a dead pod lapses.
LockExpires ==
    /\ lock # NoCopy /\ copy[lock] = "dead"
    /\ lock' = NoCopy
    /\ UNCHANGED <<answer, cacheUp, copy, executed, degraded, overtaken>>

CacheTurns ==
    /\ Faults
    /\ cacheUp' = ~cacheUp
    /\ UNCHANGED <<answer, lock, copy, executed, degraded, overtaken>>

CopyStep(c) ==
    \/ LookUp(c) \/ Replay(c) \/ Bypass(c) \/ AcquireLock(c) \/ RefuseInFlight(c)
    \/ HandlerSucceeds(c) \/ HandlerFails(c) \/ Store(c) \/ StoreFails(c) \/ Release(c)

IdempotencyNext ==
    \/ \E c \in Copies : CopyStep(c) \/ PodDies(c)
    \/ LockExpires
    \/ CacheTurns

IdempotencySpec == IdempotencyInit /\ [][IdempotencyNext]_idempotencyVars

\* A pod that lives goes on with its request, and a time to live ends.
IdempotencyFairness ==
    /\ \A c \in Copies : WF_idempotencyVars(copy[c] # "unsent" /\ CopyStep(c))
    /\ WF_idempotencyVars(LockExpires)

-----------------------------------------------------------------------------
(* Properties                                                              *)

\* A caller is told that its work was done, by a replay, only if a handler
\* has done exactly this work: the same key with another body is refused.
ReplayMeansDone ==
    \A c \in Copies : copy[c] = "replayed" => executed[Fingerprint[c]] > 0

\* "Short enough that a pod killed mid-request does not lock the key out":
\* whoever holds the lock, it becomes free.
KeyIsFreed == lock # NoCopy ~> lock = NoCopy

\* "a client timed out and retried while the first request is still going -
\* does not execute the mutation twice": as long as the cache works, the work
\* of a key is done again only by a copy that looked for the answer before it
\* was stored and asked for the lock after it was released.
RepeatedOnlyByOvertaken ==
    degraded \/ \A f \in Fingerprints : executed[f] <= 1 + Cardinality(overtaken)
=============================================================================
