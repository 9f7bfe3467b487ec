-------------------------- MODULE RelayPassProofs --------------------------
(***************************************************************************)
(* Proofs about RelayPass, for every set of callers and promises: its type *)
(* invariant, OnePassAtATime and AwaitsLaterPass.                          *)
(*                                                                         *)
(* OnePassAtATime is not inductive: a queued promise could start its pass  *)
(* next to the one in flight if that one were fulfilled while the field    *)
(* still held it.  FieldsLive says that it never is, and QueueBehind that  *)
(* the queued promise waits for exactly that one.                          *)
(***************************************************************************)
EXTENDS RelayPass, TLAPS

-----------------------------------------------------------------------------
(* The inductive invariant                                                 *)

\* The promise in flight is not fulfilled (the finally block replaces it
\* first); the queued one has not started.  A rejected one may stay.
FieldsLive ==
    /\ inFlight # Null => state[inFlight] \in {"waiting", "running", "rejected"}
    /\ queued # Null => state[queued] \in {"waiting", "rejected"}

\* A pass is queued behind the one in flight and behind nothing else.
QueueBehind ==
    queued # Null =>
        /\ inFlight # Null /\ queued # inFlight
        /\ state[queued] = "waiting" => after[queued] = inFlight

\* A promise made by then() knows the promise it waits for.
WaitsForOne == \A p \in Promises : state[p] = "waiting" => after[p] \in Promises

\* A promise that a caller awaits keeps its name, and once it has a pass
\* the caller is served.
AwaitedIsServed ==
    \A c \in Callers : awaits[c] # Null =>
        /\ state[awaits[c]] # "free"
        /\ state[awaits[c]] \in {"running", "fulfilled"} => served[c]

PassInv ==
    /\ TypeOK
    /\ FieldsLive
    /\ QueueBehind
    /\ WaitsForOne
    /\ OnePassAtATime
    /\ AwaitedIsServed

-----------------------------------------------------------------------------
(* It holds initially, and each action preserves it.                       *)

\* Before the first call no promise exists.
LEMMA InitPassInv == Init => PassInv
  BY PromisesAssumption
  DEF Init, PassInv, TypeOK, States, FieldsLive, QueueBehind, WaitsForOne, OnePassAtATime,
      AwaitedIsServed

\* relay() with no pass in flight.
LEMMA StartPassInv ==
    ASSUME PassInv, NEW c \in Callers, NEW p \in Promises, StartPass(c, p)
    PROVE  PassInv'
  <1>  USE PromisesAssumption DEF PassInv, StartPass
  <1>1. queued = Null  BY DEF QueueBehind
  <1>2. \A q \in Promises : state[q] \notin {"running", "waiting"}  BY <1>1 DEF OnePassAtATime
  <1>3. TypeOK'  BY DEF TypeOK, States, Served
  <1>4. FieldsLive' /\ QueueBehind'  BY <1>1 DEF TypeOK, FieldsLive, QueueBehind
  <1>5. WaitsForOne'  BY DEF TypeOK, WaitsForOne
  <1>6. OnePassAtATime'  BY <1>2 DEF TypeOK, OnePassAtATime
  <1>7. AwaitedIsServed'  BY DEF TypeOK, AwaitedIsServed, Served, Waiting
  <1>  QED  BY <1>3, <1>4, <1>5, <1>6, <1>7

\* relay() with a pass in flight and none queued.
LEMMA QueuePassInv ==
    ASSUME PassInv, NEW c \in Callers, NEW p \in Promises, QueuePass(c, p)
    PROVE  PassInv'
  <1>  USE PromisesAssumption DEF PassInv, QueuePass
  <1>1. p # inFlight  BY DEF FieldsLive
  <1>2. TypeOK'  BY DEF TypeOK, States
  <1>3. FieldsLive' /\ QueueBehind'  BY <1>1 DEF TypeOK, FieldsLive, QueueBehind
  <1>4. WaitsForOne'  BY DEF TypeOK, WaitsForOne
  <1>5. OnePassAtATime'  BY DEF TypeOK, OnePassAtATime
  <1>6. AwaitedIsServed'  BY DEF TypeOK, AwaitedIsServed
  <1>  QED  BY <1>2, <1>3, <1>4, <1>5, <1>6

\* relay() with a pass in flight and one queued.
LEMMA JoinQueuedInv ==
    ASSUME PassInv, NEW c \in Callers, JoinQueued(c)
    PROVE  PassInv'
  <1>  USE PromisesAssumption DEF PassInv, JoinQueued, Shared
  <1>1. TypeOK'  BY DEF TypeOK
  <1>2. FieldsLive' /\ QueueBehind'  BY DEF FieldsLive, QueueBehind
  <1>3. WaitsForOne' /\ OnePassAtATime'  BY DEF WaitsForOne, OnePassAtATime
  <1>4. AwaitedIsServed'  BY DEF TypeOK, AwaitedIsServed, FieldsLive
  <1>  QED  BY <1>1, <1>2, <1>3, <1>4

\* A pass ends, and the queued promise moves up.
LEMMA EndPassInv ==
    ASSUME PassInv, NEW p \in Promises, NEW how \in Settled, EndPass(p, how)
    PROVE  PassInv'
  <1>  USE PromisesAssumption DEF PassInv, EndPass, HandOff
  <1>1. p = inFlight /\ p # queued  BY DEF OnePassAtATime, FieldsLive
  <1>2. how \in {"fulfilled", "rejected"}  BY DEF Settled
  <1>3. TypeOK'  BY <1>2 DEF TypeOK, States
  <1>4. FieldsLive' /\ QueueBehind'  BY <1>1 DEF TypeOK, FieldsLive, QueueBehind
  <1>5. WaitsForOne'  BY <1>2 DEF TypeOK, WaitsForOne
  <1>6. OnePassAtATime'  BY <1>1, <1>2 DEF TypeOK, OnePassAtATime
  <1>7. AwaitedIsServed'  BY <1>2 DEF TypeOK, AwaitedIsServed
  <1>  QED  BY <1>3, <1>4, <1>5, <1>6, <1>7

\* The callback of then(): the promise whose predecessor is fulfilled is the
\* one in flight, for the queued one waits for a promise that is not.
LEMMA ContinueQueuedInv ==
    ASSUME PassInv, NEW p \in Promises, ContinueQueued(p)
    PROVE  PassInv'
  <1>  USE PromisesAssumption DEF PassInv, ContinueQueued
  <1>1. p = inFlight
    <2>1. CASE p = queued
      <3>1. after[p] = inFlight /\ inFlight # Null  BY <2>1 DEF QueueBehind
      <3>  QED  BY <3>1 DEF FieldsLive
    <2>  QED  BY <2>1 DEF OnePassAtATime
  <1>2. TypeOK'  BY DEF TypeOK, States, Served
  <1>3. FieldsLive' /\ QueueBehind'  BY <1>1 DEF TypeOK, FieldsLive, QueueBehind
  <1>4. WaitsForOne'  BY DEF TypeOK, WaitsForOne
  <1>5. OnePassAtATime'
    <2>1. \A q \in Promises : state[q] = "running" => q = p  BY <1>1 DEF OnePassAtATime
    <2>  QED  BY <1>1, <2>1 DEF TypeOK, OnePassAtATime
  <1>6. AwaitedIsServed'  BY DEF TypeOK, AwaitedIsServed, Served, Waiting
  <1>  QED  BY <1>2, <1>3, <1>4, <1>5, <1>6

\* then() of a rejected promise.
LEMMA RejectQueuedInv ==
    ASSUME PassInv, NEW p \in Promises, RejectQueued(p)
    PROVE  PassInv'
  <1>  USE PromisesAssumption DEF PassInv, RejectQueued
  <1>1. TypeOK'  BY DEF TypeOK, States
  <1>2. FieldsLive' /\ QueueBehind'  BY DEF TypeOK, FieldsLive, QueueBehind
  <1>3. WaitsForOne' /\ OnePassAtATime'  BY DEF TypeOK, WaitsForOne, OnePassAtATime
  <1>4. AwaitedIsServed'  BY DEF TypeOK, AwaitedIsServed
  <1>  QED  BY <1>1, <1>2, <1>3, <1>4

\* The await of a caller ends.
LEMMA ReturnInv ==
    ASSUME PassInv, NEW c \in Callers, Return(c)
    PROVE  PassInv'
  BY PromisesAssumption
  DEF PassInv, Return, TypeOK, FieldsLive, QueueBehind, WaitsForOne, OnePassAtATime, AwaitedIsServed

\* A name that nothing refers to becomes free.
LEMMA CollectInv ==
    ASSUME PassInv, NEW p \in Promises, Collect(p)
    PROVE  PassInv'
  <1>  USE PromisesAssumption DEF PassInv, Collect
  <1>1. TypeOK'  BY DEF TypeOK, States
  <1>2. FieldsLive' /\ QueueBehind'  BY DEF TypeOK, FieldsLive, QueueBehind
  <1>3. WaitsForOne' /\ OnePassAtATime'  BY DEF TypeOK, WaitsForOne, OnePassAtATime
  <1>4. AwaitedIsServed'  BY DEF TypeOK, AwaitedIsServed
  <1>  QED  BY <1>1, <1>2, <1>3, <1>4

\* Every step preserves the invariant.
LEMMA NextPassInv == PassInv /\ [Next]_vars => PassInv'
  <1>  SUFFICES ASSUME PassInv, [Next]_vars PROVE PassInv'  OBVIOUS
  <1>1. ASSUME NEW c \in Callers, Call(c) PROVE PassInv'
    BY <1>1, StartPassInv, QueuePassInv, JoinQueuedInv DEF Call
  <1>2. ASSUME NEW c \in Callers, Return(c) PROVE PassInv'  BY <1>2, ReturnInv
  <1>3. ASSUME NEW p \in Promises, NEW how \in Settled, EndPass(p, how) PROVE PassInv'
    BY <1>3, EndPassInv
  <1>4. ASSUME NEW p \in Promises, ContinueQueued(p) \/ RejectQueued(p) \/ Collect(p)
        PROVE  PassInv'
    BY <1>4, ContinueQueuedInv, RejectQueuedInv, CollectInv
  <1>5. CASE UNCHANGED vars
    BY <1>5 DEF vars, PassInv, TypeOK, FieldsLive, QueueBehind, WaitsForOne, OnePassAtATime,
                AwaitedIsServed
  <1>  QED  BY <1>1, <1>2, <1>3, <1>4, <1>5 DEF Next

-----------------------------------------------------------------------------
(* The theorems                                                            *)

\* The inductive invariant is an invariant of the promise fields.
THEOREM PassInvariance == Spec => []PassInv
  BY InitPassInv, NextPassInv, PTL DEF Spec

\* However many calls race with the end of a pass, a process runs one pass at
\* a time and keeps at most one behind it.
THEOREM PassesAlone == Spec => []OnePassAtATime
  <1>1. PassInv => OnePassAtATime  BY DEF PassInv
  <1>  QED  BY <1>1, PassInvariance, PTL

\* What relay() gives a caller is not fulfilled before a pass has started at
\* or after the call.
THEOREM CallersGetALaterPass == Spec => []AwaitsLaterPass
  <1>1. PassInv => AwaitsLaterPass  BY DEF PassInv, AwaitedIsServed, AwaitsLaterPass
  <1>  QED  BY <1>1, PassInvariance, PTL
=============================================================================
