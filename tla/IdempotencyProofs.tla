------------------------- MODULE IdempotencyProofs -------------------------
(***************************************************************************)
(* Proofs about Idempotency, for every set of copies and of request        *)
(* bodies: its type invariant, ReplayMeansDone and                         *)
(* RepeatedOnlyByOvertaken.                                                *)
(*                                                                         *)
(* The bound of RepeatedOnlyByOvertaken counts executions against copies.  *)
(* It is inductive once it is known that the lock serializes the copies    *)
(* (HolderHasLock), that nothing was executed before the first answer      *)
(* (FirstRunsAlone), and that an overtaken copy is counted before it runs  *)
(* (OvertakenCounted).                                                     *)
(***************************************************************************)
EXTENDS Idempotency, FiniteSetTheorems, TLAPS

-----------------------------------------------------------------------------
(* The inductive invariant                                                 *)

\* A copy between acquireLock and releaseLock holds the lock.
HolderHasLock ==
    \A c \in Copies : copy[c] \in {"running", "storing", "releasing"} => lock = c

\* A handler runs without the lock only if the cache was down.
UncachedIsDegraded == \A c \in Copies : copy[c] = "uncached" => degraded

\* An answer that is stored, or about to be, belongs to work that was done.
AnswerEarned ==
    /\ answer # NoAnswer => executed[answer] > 0
    /\ \A c \in Copies : copy[c] = "storing" => executed[Fingerprint[c]] > 0

\* An overtaken copy has taken the lock, and there are finitely many.
OvertakenRan ==
    /\ IsFiniteSet(overtaken)
    /\ \A c \in overtaken : copy[c] \notin {"unsent", "looked"}

\* Nothing is executed before the work whose answer is stored first.
FirstRunsAlone ==
    degraded \/
      /\ answer = NoAnswer /\ (\A c \in Copies : copy[c] # "storing")
            => \A f \in Fingerprints : executed[f] = 0
      /\ \A c \in Copies \ overtaken : copy[c] = "running" => answer = NoAnswer

\* An overtaken copy that is to run leaves room for what it will execute.
OvertakenCounted ==
    degraded \/
      \A c \in overtaken : copy[c] = "running" =>
          \A f \in Fingerprints : executed[f] <= Cardinality(overtaken)

KeyInv ==
    /\ IdempotencyTypeOK
    /\ HolderHasLock
    /\ UncachedIsDegraded
    /\ AnswerEarned
    /\ ReplayMeansDone
    /\ OvertakenRan
    /\ FirstRunsAlone
    /\ OvertakenCounted
    /\ RepeatedOnlyByOvertaken

-----------------------------------------------------------------------------
(* It holds initially, and each action preserves it.                       *)

\* Before the first copy arrives nothing is stored, locked or executed.
LEMMA InitKeyInv == IdempotencyInit => KeyInv
  <1>  SUFFICES ASSUME IdempotencyInit PROVE KeyInv  OBVIOUS
  <1>  USE IdempotencyAssumption DEF IdempotencyInit
  <1>1. IsFiniteSet(overtaken) /\ Cardinality(overtaken) = 0  BY FS_EmptySet
  <1>2. IdempotencyTypeOK  BY DEF IdempotencyTypeOK, Moments, Outcomes
  <1>3. HolderHasLock /\ UncachedIsDegraded /\ AnswerEarned /\ ReplayMeansDone
    BY DEF HolderHasLock, UncachedIsDegraded, AnswerEarned, ReplayMeansDone
  <1>4. OvertakenRan /\ FirstRunsAlone  BY <1>1 DEF OvertakenRan, FirstRunsAlone
  <1>5. OvertakenCounted /\ RepeatedOnlyByOvertaken
    BY <1>1 DEF OvertakenCounted, RepeatedOnlyByOvertaken
  <1>  QED  BY <1>2, <1>3, <1>4, <1>5 DEF KeyInv

\* The number of overtaken copies is a natural number.
LEMMA OvertakenNat ==
    ASSUME KeyInv
    PROVE  Cardinality(overtaken) \in Nat
  BY FS_CardinalityType DEF KeyInv, OvertakenRan

\* A copy that moves to a moment in which it neither executes nor stores,
\* and that leaves the lock alone or releases it, disturbs nothing.  Every
\* step but four is of this form.
Passive(c, to) ==
    /\ copy' = [copy EXCEPT ![c] = to]
    /\ copy[c] \in Moments /\ to \in Moments \cup Outcomes
    /\ to \notin {"unsent", "running", "storing"}
    /\ to = "releasing" => copy[c] \in {"running", "storing"}
    /\ to = "looked" => copy[c] = "unsent"
    /\ to = "replayed" => answer = Fingerprint[c]
    /\ to = "uncached" => degraded'
    /\ degraded' \in BOOLEAN /\ (degraded => degraded')
    /\ copy[c] = "storing" => degraded'
    /\ UNCHANGED <<answer, cacheUp, executed, overtaken>>
    /\ lock' = lock \/ (lock' = NoCopy /\ lock = c /\ to = "done")

\* A passive step preserves the invariant.
LEMMA PassiveInv ==
    ASSUME KeyInv, NEW c \in Copies, NEW to, Passive(c, to)
    PROVE  KeyInv'
  <1>  USE IdempotencyAssumption DEF KeyInv, Passive
  <1>1. IdempotencyTypeOK'  BY DEF IdempotencyTypeOK
  <1>2. HolderHasLock'
    BY DEF IdempotencyTypeOK, HolderHasLock, Moments, Outcomes
  <1>3. UncachedIsDegraded'  BY DEF IdempotencyTypeOK, UncachedIsDegraded
  <1>4. AnswerEarned' /\ ReplayMeansDone'
    BY DEF IdempotencyTypeOK, AnswerEarned, ReplayMeansDone
  <1>5. OvertakenRan'  BY DEF IdempotencyTypeOK, OvertakenRan
  <1>6. FirstRunsAlone'  BY DEF IdempotencyTypeOK, FirstRunsAlone
  <1>7. OvertakenCounted' /\ RepeatedOnlyByOvertaken'
    BY DEF IdempotencyTypeOK, OvertakenCounted, RepeatedOnlyByOvertaken
  <1>  QED  BY <1>1, <1>2, <1>3, <1>4, <1>5, <1>6, <1>7

\* The lock is free, so that no copy is between acquiring and releasing it.
\* A copy that finds an answer already stored is counted as overtaken.
LEMMA AcquireLockInv ==
    ASSUME KeyInv, NEW c \in Copies, AcquireLock(c)
    PROVE  KeyInv'
  <1>  USE IdempotencyAssumption DEF KeyInv, AcquireLock, LockFree, Moves
  <1>1. \A d \in Copies : copy[d] \notin {"running", "storing", "releasing"}
    BY DEF HolderHasLock
  <1>2. c \notin overtaken  BY DEF OvertakenRan
  <1>3. IsFiniteSet(overtaken \cup {c}) /\ Cardinality(overtaken \cup {c}) = Cardinality(overtaken) + 1
    BY <1>2, FS_AddElement DEF OvertakenRan
  <1>4. Cardinality(overtaken) \in Nat  BY OvertakenNat
  <1>5. IdempotencyTypeOK'  BY DEF IdempotencyTypeOK, Moments
  <1>6. HolderHasLock'  BY <1>1 DEF IdempotencyTypeOK, HolderHasLock
  <1>7. UncachedIsDegraded' /\ AnswerEarned' /\ ReplayMeansDone'
    BY DEF IdempotencyTypeOK, UncachedIsDegraded, AnswerEarned, ReplayMeansDone
  <1>8. OvertakenRan'  BY <1>3 DEF IdempotencyTypeOK, OvertakenRan
  <1>9. FirstRunsAlone'  BY <1>1 DEF IdempotencyTypeOK, FirstRunsAlone
  <1>10. OvertakenCounted' /\ RepeatedOnlyByOvertaken'
    <2>1. CASE answer = NoAnswer
      BY <1>2, <2>1 DEF IdempotencyTypeOK, OvertakenCounted, RepeatedOnlyByOvertaken
    <2>2. CASE answer # NoAnswer
      <3>1. Cardinality(overtaken') = Cardinality(overtaken) + 1  BY <1>3, <2>2
      <3>2. degraded' \/ \A f \in Fingerprints : executed'[f] <= Cardinality(overtaken')
        BY <1>4, <3>1 DEF IdempotencyTypeOK, RepeatedOnlyByOvertaken
      <3>3. \A f \in Fingerprints : executed'[f] \in Nat  BY DEF IdempotencyTypeOK
      <3>4. Cardinality(overtaken') \in Nat  BY <1>4, <3>1
      <3>5. ASSUME NEW f \in Fingerprints, executed'[f] <= Cardinality(overtaken')
            PROVE  executed'[f] <= 1 + Cardinality(overtaken')
        BY <3>3, <3>4, <3>5
      <3>6. OvertakenCounted'  BY <3>2 DEF OvertakenCounted
      <3>7. RepeatedOnlyByOvertaken'  BY <3>2, <3>5 DEF RepeatedOnlyByOvertaken
      <3>  QED  BY <3>6, <3>7
    <2>  QED  BY <2>1, <2>2
  <1>  QED  BY <1>5, <1>6, <1>7, <1>8, <1>9, <1>10

\* The handler of a copy that has the lock commits: it was the first, or it
\* is counted.  One without the lock ran while the cache was down.
LEMMA HandlerSucceedsInv ==
    ASSUME KeyInv, NEW c \in Copies, HandlerSucceeds(c)
    PROVE  KeyInv'
  <1>  USE IdempotencyAssumption DEF KeyInv, HandlerSucceeds
  <1>1. Fingerprint[c] \in Fingerprints  OBVIOUS
  <1>2. \A f \in Fingerprints : executed'[f] \in Nat /\ executed[f] \in Nat /\ executed'[f] >= executed[f]
                                  /\ executed'[f] <= executed[f] + 1
    BY <1>1 DEF IdempotencyTypeOK
  <1>3. executed'[Fingerprint[c]] > 0  BY <1>1 DEF IdempotencyTypeOK
  <1>4. Cardinality(overtaken) \in Nat  BY OvertakenNat
  <1>5. IdempotencyTypeOK'  BY <1>1 DEF IdempotencyTypeOK, Moments, Outcomes
  <1>6. HolderHasLock' /\ UncachedIsDegraded'
    BY DEF IdempotencyTypeOK, HolderHasLock, UncachedIsDegraded
  <1>7. AnswerEarned'  BY <1>2, <1>3 DEF IdempotencyTypeOK, AnswerEarned
  <1>8. ReplayMeansDone'  BY <1>2 DEF IdempotencyTypeOK, ReplayMeansDone
  <1>9. OvertakenRan'  BY DEF IdempotencyTypeOK, OvertakenRan
  <1>10. CASE degraded
    BY <1>5, <1>6, <1>7, <1>8, <1>9, <1>10
    DEF FirstRunsAlone, OvertakenCounted, RepeatedOnlyByOvertaken
  <1>11. CASE ~degraded
    <2>1. copy[c] = "running" /\ lock = c  BY <1>11 DEF UncachedIsDegraded, HolderHasLock
    <2>2. copy'[c] = "storing" /\ \A d \in Copies \ {c} : copy'[d] \notin {"running", "storing"}
      BY <2>1 DEF IdempotencyTypeOK, HolderHasLock
    <2>3. FirstRunsAlone' /\ OvertakenCounted'
      BY <2>2 DEF IdempotencyTypeOK, FirstRunsAlone, OvertakenCounted
    <2>4. \A f \in Fingerprints : executed[f] <= Cardinality(overtaken)
      <3>1. CASE c \in overtaken  BY <1>11, <2>1, <3>1 DEF OvertakenCounted
      <3>2. CASE c \notin overtaken
        <4>1. \A d \in Copies : copy[d] # "storing"  BY <2>1 DEF HolderHasLock
        <4>  QED  BY <1>4, <1>11, <2>1, <3>2, <4>1 DEF FirstRunsAlone
      <3>  QED  BY <3>1, <3>2
    <2>5. RepeatedOnlyByOvertaken'  BY <1>2, <1>4, <2>4 DEF RepeatedOnlyByOvertaken
    <2>  QED  BY <1>5, <1>6, <1>7, <1>8, <1>9, <2>3, <2>5
  <1>  QED  BY <1>10, <1>11

\* The answer is stored by the copy that has the lock.
LEMMA StoreInv ==
    ASSUME KeyInv, NEW c \in Copies, Store(c)
    PROVE  KeyInv'
  <1>  USE IdempotencyAssumption DEF KeyInv, Store, Moves
  <1>1. lock = c  BY DEF HolderHasLock
  <1>2. \A d \in Copies : copy[d] # "running"  BY <1>1 DEF HolderHasLock
  <1>3. IdempotencyTypeOK'  BY DEF IdempotencyTypeOK, Moments
  <1>4. HolderHasLock' /\ UncachedIsDegraded'
    BY DEF IdempotencyTypeOK, HolderHasLock, UncachedIsDegraded
  <1>5. AnswerEarned' /\ ReplayMeansDone'
    BY DEF IdempotencyTypeOK, AnswerEarned, ReplayMeansDone
  <1>6. OvertakenRan'  BY DEF IdempotencyTypeOK, OvertakenRan
  <1>7. FirstRunsAlone'  BY <1>2 DEF IdempotencyTypeOK, FirstRunsAlone
  <1>8. OvertakenCounted' /\ RepeatedOnlyByOvertaken'
    BY DEF IdempotencyTypeOK, OvertakenCounted, RepeatedOnlyByOvertaken
  <1>  QED  BY <1>3, <1>4, <1>5, <1>6, <1>7, <1>8

\* The lock of a dead pod lapses.
LEMMA LockExpiresInv ==
    ASSUME KeyInv, LockExpires
    PROVE  KeyInv'
  <1>  USE IdempotencyAssumption DEF KeyInv, LockExpires
  <1>1. HolderHasLock'  BY DEF HolderHasLock
  <1>  QED
    BY <1>1 DEF IdempotencyTypeOK, UncachedIsDegraded, AnswerEarned, ReplayMeansDone, OvertakenRan,
                FirstRunsAlone, OvertakenCounted, RepeatedOnlyByOvertaken

\* A copy that looks, is refused, replays or bypasses, and the ends of a copy.
LEMMA QuietStepsArePassive ==
    ASSUME KeyInv, NEW c \in Copies,
           \/ LookUp(c) \/ Replay(c) \/ Bypass(c) \/ RefuseInFlight(c) \/ HandlerFails(c)
           \/ StoreFails(c) \/ Release(c) \/ PodDies(c)
    PROVE  \E to : Passive(c, to)
  <1>  USE DEF Passive, Moments, Outcomes, Moves, KeyInv, IdempotencyTypeOK
  <1>1. CASE LookUp(c)
    <2>1. Passive(c, "looked")  BY <1>1 DEF LookUp
    <2>  QED  BY <2>1
  <1>2. CASE Replay(c)
    <2>1. Passive(c, ReplayAnswer(c))  BY <1>2 DEF Replay, ReplayAnswer
    <2>  QED  BY <2>1
  <1>3. CASE Bypass(c)
    <2>1. Passive(c, "uncached")  BY <1>3 DEF Bypass
    <2>  QED  BY <2>1
  <1>4. CASE RefuseInFlight(c)
    <2>1. Passive(c, "in_flight")  BY <1>4 DEF RefuseInFlight
    <2>  QED  BY <2>1
  <1>5. CASE HandlerFails(c)
    <2>1. Passive(c, IF copy[c] = "running" THEN "releasing" ELSE "done")  BY <1>5 DEF HandlerFails
    <2>  QED  BY <2>1
  <1>6. CASE StoreFails(c)
    <2>1. Passive(c, "releasing")  BY <1>6 DEF StoreFails
    <2>  QED  BY <2>1
  <1>7. CASE Release(c)
    <2>1. lock = c  BY <1>7 DEF Release, HolderHasLock
    <2>2. Passive(c, "done")  BY <1>7, <2>1 DEF Release
    <2>  QED  BY <2>2
  <1>8. CASE PodDies(c)
    <2>1. Passive(c, "dead")  BY <1>8 DEF PodDies
    <2>  QED  BY <2>1
  <1>  QED  BY <1>1, <1>2, <1>3, <1>4, <1>5, <1>6, <1>7, <1>8

\* Every step preserves the invariant.
LEMMA NextKeyInv == KeyInv /\ [IdempotencyNext]_idempotencyVars => KeyInv'
  <1>  SUFFICES ASSUME KeyInv, [IdempotencyNext]_idempotencyVars PROVE KeyInv'  OBVIOUS
  <1>1. ASSUME NEW c \in Copies, CopyStep(c) \/ PodDies(c) PROVE KeyInv'
    <2>1. CASE AcquireLock(c)  BY <2>1, AcquireLockInv
    <2>2. CASE HandlerSucceeds(c)  BY <2>2, HandlerSucceedsInv
    <2>3. CASE Store(c)  BY <2>3, StoreInv
    <2>4. CASE \/ LookUp(c) \/ Replay(c) \/ Bypass(c) \/ RefuseInFlight(c) \/ HandlerFails(c)
               \/ StoreFails(c) \/ Release(c) \/ PodDies(c)
      BY <2>4, QuietStepsArePassive, PassiveInv
    <2>  QED  BY <1>1, <2>1, <2>2, <2>3, <2>4 DEF CopyStep
  <1>2. CASE LockExpires  BY <1>2, LockExpiresInv
  <1>3. CASE CacheTurns
    BY <1>3 DEF CacheTurns, KeyInv, IdempotencyTypeOK, HolderHasLock, UncachedIsDegraded, AnswerEarned,
                ReplayMeansDone, OvertakenRan, FirstRunsAlone, OvertakenCounted,
                RepeatedOnlyByOvertaken
  <1>4. CASE UNCHANGED idempotencyVars
    BY <1>4 DEF idempotencyVars, KeyInv, IdempotencyTypeOK, HolderHasLock, UncachedIsDegraded,
                AnswerEarned, ReplayMeansDone, OvertakenRan, FirstRunsAlone, OvertakenCounted,
                RepeatedOnlyByOvertaken
  <1>  QED  BY <1>1, <1>2, <1>3, <1>4 DEF IdempotencyNext

-----------------------------------------------------------------------------
(* The theorems                                                            *)

\* The inductive invariant is an invariant of the key.
THEOREM KeyInvariance == IdempotencySpec => []KeyInv
  BY InitKeyInv, NextKeyInv, PTL DEF IdempotencySpec

\* A caller is told by a replay that its work was done only if it was.
THEOREM ReplaysAreTrue == IdempotencySpec => []ReplayMeansDone
  <1>1. KeyInv => ReplayMeansDone  BY DEF KeyInv
  <1>  QED  BY <1>1, KeyInvariance, PTL

\* With a cache that works, the work of a key is repeated at most once for
\* every copy that looked before the answer was stored and asked for the lock
\* after its release.
THEOREM RepetitionsBounded == IdempotencySpec => []RepeatedOnlyByOvertaken
  <1>1. KeyInv => RepeatedOnlyByOvertaken  BY DEF KeyInv
  <1>  QED  BY <1>1, KeyInvariance, PTL
=============================================================================
