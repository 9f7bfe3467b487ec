------------------------- MODULE OutboxRelayProofs -------------------------
(***************************************************************************)
(* Proofs about OutboxRelay, for every set of rows, relays and tokens and  *)
(* every bound: its type invariant, its safety properties, that it         *)
(* implements OutboxContract, and that a batch is covered by its leases.   *)
(*                                                                         *)
(* SettledOnce, DeliveriesPaid and SnapshotCurrent are not inductive.      *)
(* What makes them so is that lease tokens tell relays apart               *)
(* (TokensApart), that only a pending row carries one (TerminalReleased),  *)
(* and that a row a relay still holds and has not begun to deliver has one *)
(* attempt paid in advance (PaidAhead).  LeaseCoversWork needs arithmetic: *)
(* what is left of a row's lease and what was spent on the current row     *)
(* make up the leases of the rows the relay still holds (LeaseInv).        *)
(***************************************************************************)
EXTENDS OutboxRelay, FiniteSetTheorems, WellFoundedInduction, TLAPS

-----------------------------------------------------------------------------
(* The inductive invariant                                                 *)

\* A relay between two passes remembers nothing; a relay in a pass has a
\* token and rows that were once claimed, each with its attempt counted.
PassShape ==
    \A p \in Relays :
        /\ pc[p] = "idle" => hand[p] = {} /\ tok[p] = NoToken
        /\ pc[p] # "idle" => hand[p] # {} /\ tok[p] \in Tokens
        /\ \A r \in hand[p] : att[p][r] >= 1 /\ status[r] # "absent"

\* No two relays have the same token.
TokensApart ==
    \A p, q \in Relays : p # q /\ tok[p] # NoToken => tok[p] # tok[q]

\* A row that is not pending carries no token.
TerminalReleased ==
    \A r \in Rows : status[r] # "pending" => token[r] = NoToken

\* Relay p has not begun to deliver row r under this claim.
Undelivered(p, r) == pc[p] = "renew" \/ r # Current(p)

\* The delivery a relay still owes a row it holds is paid for.
PaidAhead ==
    \A p \in Relays : \A r \in hand[p] :
        HoldsLease(p, r) /\ Undelivered(p, r) =>
            deliveries[r] + 1 <= attempts[r] + refunds[r]

\* A relay that is to record a success saw one.
SuccessSeen ==
    \A p \in Relays : pc[p] = "finish" /\ outcome[p] = "ok" => accepted[Current(p)]

\* A relay that holds the lease and is to record a deferral has one left.
DeferralLeft ==
    \A p \in Relays :
        pc[p] = "finish" /\ outcome[p] = "defer" /\ HoldsLease(p, Current(p)) =>
            refunds[Current(p)] < MaxDefers

IInv ==
    /\ TypeOK
    /\ PassShape
    /\ TokensApart
    /\ TerminalReleased
    /\ SnapshotCurrent
    /\ SettledOnce
    /\ DeliveriesPaid
    /\ PaidAhead
    /\ SuccessSeen
    /\ DeferralLeft

-----------------------------------------------------------------------------
(* Lemmas about the operators                                              *)

LessThan == {ss \in Nat \X Nat : ss[1] < ss[2]}

\* The order of the naturals is well founded.
LEMMA LessThanWellFounded == IsWellFoundedOn(LessThan, Nat)
  BY NatLessThanWellFounded DEF OpToRel, LessThan

\* LessThan is that order.
LEMMA LessThanContains == \A x, y \in Nat : x < y => <<x, y>> \in LessThan
  BY DEF LessThan

\* A non-empty set of row numbers has a least one: the row whose turn it is
\* exists.
LEMMA LeastExists ==
    ASSUME NEW S \in SUBSET Nat, S # {}
    PROVE  Least(S) \in S
  <1>1. PICK x \in S : \A y \in S : <<y, x>> \notin LessThan
    BY LessThanWellFounded, WFMin
  <1>2. ASSUME NEW y \in S PROVE x <= y
    <2>1. ~(y < x)  BY <1>1, LessThanContains
    <2>  QED  BY <2>1
  <1>  QED  BY <1>2 DEF Least

\* A relay in a pass has a current row, and it is one of its batch.
LEMMA CurrentInHand ==
    ASSUME TypeOK, PassShape, NEW p \in Relays, pc[p] # "idle"
    PROVE  Current(p) \in hand[p] /\ Current(p) \in Rows
  <1>1. hand[p] # {} /\ hand[p] \in SUBSET Rows  BY DEF TypeOK, PassShape
  <1>2. hand[p] \in SUBSET Nat  BY <1>1, RowsAssumption
  <1>  QED  BY <1>1, <1>2, LeastExists DEF Current

\* A batch is held for a natural number of ticks.
LEMMA HoldForType ==
    ASSUME NEW batch \in SUBSET Rows
    PROVE  HoldFor(batch) \in Nat
  <1>1. IsFiniteSet(batch)  BY RowsAssumption, FS_Subset
  <1>2. Cardinality(batch) \in Nat  BY <1>1, FS_CardinalityType
  <1>3. Lease \in Nat  BY TimeAssumption
  <1>  QED  BY <1>2, <1>3 DEF HoldFor

\* The delay that fail() writes is a natural number of ticks.
LEMMA FailDelayType ==
    ASSUME TypeOK, PassShape, NEW p \in Relays, pc[p] # "idle", NEW hint \in Nat
    PROVE  FailDelay(p, hint) \in Nat
  <1>  DEFINE n == att[p][Current(p)]
  <1>1. n \in Nat /\ n >= 1  BY CurrentInHand, AttemptsAssumption DEF TypeOK, PassShape
  <1>2. 2 ^ (n - 1) \in Int  BY <1>1
  <1>3. Backoff(n) \in Int  BY <1>2, TimeAssumption DEF Backoff, Smaller
  <1>  QED  BY <1>3 DEF FailDelay, Larger

-----------------------------------------------------------------------------
(* The invariant holds initially                                           *)

\* Before the first row is enqueued nothing is held, delivered or remembered.
LEMMA InitIInv == Init => IInv
  <1>  SUFFICES ASSUME Init PROVE IInv  OBVIOUS
  <1>1. TypeOK  BY AttemptsAssumption, TimeAssumption DEF Init, TypeOK, Outcomes, Terminal
  <1>2. PassShape  BY DEF Init, PassShape
  <1>3. TokensApart  BY DEF Init, TokensApart
  <1>4. TerminalReleased  BY DEF Init, TerminalReleased
  <1>5. SnapshotCurrent  BY DEF Init, SnapshotCurrent
  <1>6. SettledOnce  BY DEF Init, SettledOnce
  <1>7. DeliveriesPaid  BY DEF Init, DeliveriesPaid
  <1>8. PaidAhead  BY DEF Init, PaidAhead
  <1>9. SuccessSeen  BY DEF Init, SuccessSeen
  <1>10. DeferralLeft  BY DEF Init, DeferralLeft
  <1>  QED  BY <1>1, <1>2, <1>3, <1>4, <1>5, <1>6, <1>7, <1>8, <1>9, <1>10 DEF IInv

-----------------------------------------------------------------------------
(* Steps that end a relay's work on a row                                  *)

\* What relays remember only becomes less: a batch loses rows, a token is
\* forgotten, and no relay comes closer to recording a success or a deferral.
MemoryShrinks ==
    /\ \A q \in Relays : tok'[q] \in {tok[q], NoToken}
    /\ \A q \in Relays : \A r \in hand'[q] :
          /\ r \in hand[q]
          /\ tok'[q] = tok[q]
          /\ att'[q][r] = att[q][r]
          /\ Undelivered(q, r)' => Undelivered(q, r)
    /\ \A q \in Relays : pc'[q] = "finish" /\ outcome'[q] \in {"ok", "defer"} =>
          /\ pc[q] = "finish"
          /\ outcome'[q] = outcome[q]
          /\ hand'[q] = hand[q]

\* The type of what the relays remember.
MemoryType ==
    /\ pc \in [Relays -> {"idle", "renew", "deliver", "finish"}]
    /\ hand \in [Relays -> SUBSET Rows]
    /\ tok \in [Relays -> Tokens \cup {NoToken}]
    /\ att \in [Relays -> [Rows -> 0 .. MaxAttempts]]
    /\ outcome \in [Relays -> Outcomes \cup {"none"}]
    /\ spent \in [Relays -> Nat]
    /\ wedged \in SUBSET Relays

\* A relay in a pass has rows and a token, an idle one has neither.
MemoryShape ==
    \A p \in Relays :
        /\ pc[p] = "idle" => hand[p] = {} /\ tok[p] = NoToken
        /\ pc[p] # "idle" => hand[p] # {} /\ tok[p] \in Tokens

\* A relay is done with its current row, or has turned its success into an
\* error and will finish the row again.
AfterRow(p) ==
    \/ NextRow(p)
    \/ /\ outcome[p] = "ok"
       /\ outcome' = [outcome EXCEPT ![p] = "error"]
       /\ UNCHANGED <<pc, hand, tok, att, spent, wedged>>

\* handle() never gives a relay more than it had.
LEMMA AfterRowShrinks ==
    ASSUME TypeOK, PassShape, NEW p \in Relays, pc[p] # "idle", AfterRow(p)
    PROVE  MemoryType' /\ MemoryShape' /\ MemoryShrinks
  <1>1. CASE NextRow(p)
    <2>  DEFINE rest == hand[p] \ {Current(p)}
    <2>1. /\ hand' = [hand EXCEPT ![p] = rest]
          /\ pc' = [pc EXCEPT ![p] = IF rest = {} THEN "idle" ELSE "renew"]
          /\ tok' = [tok EXCEPT ![p] = IF rest = {} THEN NoToken ELSE tok[p]]
          /\ att' = [att EXCEPT ![p] = IF rest = {} THEN [r \in Rows |-> 0] ELSE att[p]]
          /\ outcome' = [outcome EXCEPT ![p] = "none"]
          /\ spent' = [spent EXCEPT ![p] = 0] /\ wedged' = wedged
      BY <1>1 DEF NextRow, TypeOK
    <2>2. MemoryType'  BY <2>1, AttemptsAssumption DEF TypeOK, MemoryType, Outcomes
    <2>3. MemoryShape'  BY <2>1 DEF TypeOK, PassShape, MemoryShape
    <2>4. ASSUME NEW q \in Relays, NEW r \in hand'[q]
          PROVE  /\ r \in hand[q]
                 /\ tok'[q] = tok[q]
                 /\ att'[q][r] = att[q][r]
                 /\ Undelivered(q, r)' => Undelivered(q, r)
      <3>1. CASE q = p  BY <3>1, <2>1 DEF TypeOK, Undelivered
      <3>2. CASE q # p
        <4>1. hand'[q] = hand[q] /\ pc'[q] = pc[q] /\ tok'[q] = tok[q] /\ att'[q] = att[q]
          BY <3>2, <2>1 DEF TypeOK
        <4>  QED  BY <4>1 DEF Undelivered, Current
      <3>  QED  BY <3>1, <3>2
    <2>5. \A q \in Relays : tok'[q] \in {tok[q], NoToken}  BY <2>1 DEF TypeOK
    <2>6. ASSUME NEW q \in Relays, pc'[q] = "finish", outcome'[q] \in {"ok", "defer"}
          PROVE  pc[q] = "finish" /\ outcome'[q] = outcome[q] /\ hand'[q] = hand[q]
      BY <2>1, <2>6 DEF TypeOK
    <2>  QED  BY <2>2, <2>3, <2>4, <2>5, <2>6 DEF MemoryShrinks
  <1>2. CASE /\ outcome[p] = "ok"
             /\ outcome' = [outcome EXCEPT ![p] = "error"]
             /\ UNCHANGED <<pc, hand, tok, att, spent, wedged>>
    <2>1. MemoryType'  BY <1>2 DEF TypeOK, MemoryType, Outcomes
    <2>2. MemoryShape'  BY <1>2 DEF TypeOK, PassShape, MemoryShape
    <2>3. MemoryShrinks  BY <1>2 DEF TypeOK, MemoryShrinks, Undelivered, Current
    <2>  QED  BY <2>1, <2>2, <2>3
  <1>  QED  BY <1>1, <1>2 DEF AfterRow

\* Ending the work on a row without writing to the table keeps the invariant.
LEMMA ShrinkInv ==
    ASSUME IInv, MemoryType', MemoryShape', MemoryShrinks, UNCHANGED <<table, history>>
    PROVE  IInv'
  <1>  USE DEF IInv, table, history
  <1>1. TypeOK'  BY DEF TypeOK, MemoryType
  <1>2. PassShape'  BY DEF PassShape, MemoryShape, MemoryShrinks
  <1>3. TokensApart'  BY DEF TokensApart, MemoryShrinks
  <1>4. TerminalReleased'  BY DEF TerminalReleased
  <1>5. SnapshotCurrent'  BY DEF SnapshotCurrent, MemoryShrinks, HoldsLease
  <1>6. SettledOnce'  BY DEF SettledOnce
  <1>7. DeliveriesPaid'  BY DEF DeliveriesPaid
  <1>8. PaidAhead'  BY DEF PaidAhead, MemoryShrinks, HoldsLease
  <1>9. SuccessSeen'  BY DEF SuccessSeen, MemoryShrinks, Current
  <1>10. DeferralLeft'
    <2>  SUFFICES ASSUME NEW q \in Relays, pc'[q] = "finish", outcome'[q] = "defer",
                         HoldsLease(q, Current(q))'
                  PROVE  refunds'[Current(q)'] < MaxDefers
      BY DEF DeferralLeft
    <2>1. pc[q] = "finish" /\ outcome[q] = "defer" /\ hand'[q] = hand[q]  BY DEF MemoryShrinks
    <2>2. Current(q)' = Current(q)  BY <2>1 DEF Current
    <2>3. tok'[q] = tok[q]  BY <2>1, <1>2 DEF MemoryShape, MemoryShrinks, TypeOK
    <2>  QED  BY <2>1, <2>2, <2>3 DEF DeferralLeft, HoldsLease
  <1>  QED  BY <1>1, <1>2, <1>3, <1>4, <1>5, <1>6, <1>7, <1>8, <1>9, <1>10

-----------------------------------------------------------------------------
(* The other steps that write nothing, or little                           *)

\* A process that dies forgets its batch.
LEMMA CrashInv == ASSUME IInv, NEW p \in Relays, Crash(p) PROVE IInv'
  <1>1. TypeOK  BY DEF IInv
  <1>2. MemoryType'  BY <1>1, AttemptsAssumption DEF Crash, TypeOK, MemoryType
  <1>3. MemoryShape'  BY <1>1 DEF IInv, Crash, TypeOK, PassShape, MemoryShape
  <1>4. MemoryShrinks
    <2>1. ASSUME NEW q \in Relays, NEW r \in hand'[q]
          PROVE  /\ r \in hand[q]
                 /\ tok'[q] = tok[q]
                 /\ att'[q][r] = att[q][r]
                 /\ Undelivered(q, r)' => Undelivered(q, r)
      <3>1. q # p /\ hand'[q] = hand[q] /\ pc'[q] = pc[q] /\ tok'[q] = tok[q] /\ att'[q] = att[q]
        BY <1>1 DEF Crash, TypeOK
      <3>  QED  BY <3>1 DEF Undelivered, Current
    <2>2. \A q \in Relays : tok'[q] \in {tok[q], NoToken}  BY <1>1 DEF Crash, TypeOK
    <2>3. ASSUME NEW q \in Relays, pc'[q] = "finish", outcome'[q] \in {"ok", "defer"}
          PROVE  pc[q] = "finish" /\ outcome'[q] = outcome[q] /\ hand'[q] = hand[q]
      BY <1>1, <2>3 DEF Crash, TypeOK
    <2>  QED  BY <2>1, <2>2, <2>3 DEF MemoryShrinks
  <1>  QED  BY <1>2, <1>3, <1>4, ShrinkInv DEF Crash

\* A process that is wedged had no batch, and writes nothing.
LEMMA ClaimThrowsInv == ASSUME IInv, NEW p \in Relays, ClaimThrows(p) PROVE IInv'
  <1>  USE DEF IInv, ClaimThrows
  <1>1. MemoryType'  BY DEF TypeOK, MemoryType
  <1>2. MemoryShape'  BY DEF TypeOK, PassShape, MemoryShape
  <1>3. MemoryShrinks  BY DEF TypeOK, MemoryShrinks, Undelivered, Current
  <1>  QED  BY <1>1, <1>2, <1>3, ShrinkInv

\* A new row has had no attempt and carries no token.
LEMMA EnqueueInv == ASSUME IInv, NEW r \in Rows, Enqueue(r) PROVE IInv'
  <1>  USE DEF IInv, Enqueue, memory, history
  <1>1. TypeOK'  BY DEF TypeOK
  <1>2. PassShape'  BY DEF TypeOK, PassShape
  <1>3. TokensApart'  BY DEF TokensApart
  <1>4. TerminalReleased'  BY DEF TypeOK, TerminalReleased
  <1>5. SnapshotCurrent'  BY DEF TypeOK, SnapshotCurrent, HoldsLease
  <1>6. SettledOnce'  BY DEF TypeOK, SettledOnce
  <1>7. DeliveriesPaid'  BY DEF DeliveriesPaid
  <1>8. PaidAhead'  BY DEF PaidAhead, HoldsLease, Undelivered, Current
  <1>9. SuccessSeen'  BY DEF SuccessSeen, Current
  <1>10. DeferralLeft'  BY DEF DeferralLeft, HoldsLease, Current
  <1>  QED  BY <1>1, <1>2, <1>3, <1>4, <1>5, <1>6, <1>7, <1>8, <1>9, <1>10

\* A delivery starts: the attempt that was paid in advance is used.
LEMMA RenewLeaseInv == ASSUME IInv, NEW p \in Relays, RenewLease(p) PROVE IInv'
  <1>  DEFINE r == Current(p)
  <1>  USE DEF IInv, RenewLease
  <1>0. r \in hand[p] /\ r \in Rows  BY CurrentInHand
  <1>1. TypeOK'  BY <1>0, TimeAssumption DEF TypeOK
  <1>2. PassShape'  BY DEF TypeOK, PassShape
  <1>3. TokensApart'  BY DEF TokensApart
  <1>4. TerminalReleased'  BY DEF TerminalReleased
  <1>5. SnapshotCurrent'  BY DEF SnapshotCurrent, HoldsLease
  <1>6. SettledOnce'  BY DEF SettledOnce
  <1>7. DeliveriesPaid'
    <2>1. deliveries[r] + 1 <= attempts[r] + refunds[r]
      BY <1>0 DEF PaidAhead, Undelivered
    <2>  QED  BY <1>0, <2>1 DEF TypeOK, DeliveriesPaid
  <1>8. PaidAhead'
    <2>  SUFFICES ASSUME NEW q \in Relays, NEW s \in hand[q], token[s] = tok[q],
                         Undelivered(q, s)'
                  PROVE  deliveries'[s] + 1 <= attempts[s] + refunds[s]
      BY DEF PaidAhead, HoldsLease
    <2>1. s \in Rows  BY DEF TypeOK
    <2>2. CASE q = p
      <3>1. s # r  BY <2>2 DEF TypeOK, Undelivered, Current
      <3>  QED  BY <2>1, <2>2, <3>1 DEF TypeOK, PaidAhead, Undelivered, HoldsLease
    <2>3. CASE q # p
      <3>1. tok[p] # tok[q]  BY <2>3, TokenAssumption DEF TokensApart, PassShape
      <3>2. s # r  BY <3>1 DEF HoldsLease
      <3>3. Undelivered(q, s)  BY <2>3 DEF TypeOK, Undelivered, Current
      <3>  QED  BY <2>1, <3>2, <3>3 DEF TypeOK, PaidAhead, HoldsLease
    <2>  QED  BY <2>2, <2>3
  <1>9. SuccessSeen'  BY DEF TypeOK, SuccessSeen, Current
  <1>10. DeferralLeft'  BY DEF TypeOK, DeferralLeft, HoldsLease, Current
  <1>  QED  BY <1>1, <1>2, <1>3, <1>4, <1>5, <1>6, <1>7, <1>8, <1>9, <1>10

\* deliver() ends, and the relay remembers how.
LEMMA DeliverReturnsInv ==
    ASSUME IInv, NEW p \in Relays, NEW o \in Outcomes, DeliverReturns(p, o) PROVE IInv'
  <1>  USE DEF IInv, DeliverReturns, table
  <1>0. Current(p) \in hand[p] /\ Current(p) \in Rows  BY CurrentInHand
  <1>1. TypeOK'  BY <1>0 DEF TypeOK
  <1>2. PassShape'  BY DEF TypeOK, PassShape
  <1>3. TokensApart'  BY DEF TokensApart
  <1>4. TerminalReleased'  BY DEF TerminalReleased
  <1>5. SnapshotCurrent'  BY DEF SnapshotCurrent, HoldsLease
  <1>6. SettledOnce'  BY DEF SettledOnce
  <1>7. DeliveriesPaid'  BY DEF DeliveriesPaid
  <1>8. PaidAhead'  BY DEF TypeOK, PaidAhead, HoldsLease, Undelivered, Current
  <1>9. SuccessSeen'
    <2>  SUFFICES ASSUME NEW q \in Relays, pc'[q] = "finish", outcome'[q] = "ok"
                  PROVE  accepted'[Current(q)]
      BY DEF SuccessSeen, Current
    <2>1. CASE q = p  BY <2>1, <1>0 DEF TypeOK
    <2>2. CASE q # p
      <3>1. pc[q] = "finish" /\ outcome[q] = "ok"  BY <2>2 DEF TypeOK
      <3>2. Current(q) \in Rows /\ accepted[Current(q)]  BY <3>1, CurrentInHand DEF SuccessSeen
      <3>  QED  BY <3>2, <1>0 DEF TypeOK
    <2>  QED  BY <2>1, <2>2
  <1>10. DeferralLeft'
    <2>1. \A q \in Relays : q # p => pc'[q] = pc[q] /\ outcome'[q] = outcome[q]  BY DEF TypeOK
    <2>  QED  BY <2>1, <1>0 DEF TypeOK, DeferralLeft, HoldsLease, Current
  <1>  QED  BY <1>1, <1>2, <1>3, <1>4, <1>5, <1>6, <1>7, <1>8, <1>9, <1>10

\* Time only lets leases lapse and rows become due.
LEMMA TickInv == ASSUME IInv, Tick PROVE IInv'
  <1>  USE DEF IInv, Tick, history
  <1>1. TypeOK'  BY DEF TypeOK, Larger
  <1>2. PassShape'  BY DEF PassShape
  <1>3. TokensApart'  BY DEF TokensApart
  <1>4. TerminalReleased'  BY DEF TerminalReleased
  <1>5. SnapshotCurrent'  BY DEF SnapshotCurrent, HoldsLease
  <1>6. SettledOnce'  BY DEF SettledOnce
  <1>7. DeliveriesPaid'  BY DEF DeliveriesPaid
  <1>8. PaidAhead'  BY DEF PaidAhead, HoldsLease, Undelivered, Current
  <1>9. SuccessSeen'  BY DEF SuccessSeen, Current
  <1>10. DeferralLeft'  BY DEF DeferralLeft, HoldsLease, Current
  <1>  QED  BY <1>1, <1>2, <1>3, <1>4, <1>5, <1>6, <1>7, <1>8, <1>9, <1>10

-----------------------------------------------------------------------------
(* A claim                                                                 *)

\* A claim that dead-letters pending rows without a live lease and takes
\* pending rows with an attempt left keeps the invariant, whichever rows the
\* hooks of a subclass choose.
LEMMA StampLeasesInv ==
    ASSUME IInv, NEW p \in Relays, pc[p] = "idle",
           NEW batch \in SUBSET Rows, NEW gone \in SUBSET Rows,
           NEW t \in Tokens, t \notin TokenInUse,
           \A r \in batch : status[r] = "pending" /\ attempts[r] < MaxAttempts,
           \A r \in gone : status[r] = "pending",
           batch \cap gone = {},
           StampLeases(p, batch, t, gone)
    PROVE  IInv'
  <1>  USE DEF IInv
  <1>1. /\ status' = [r \in Rows |-> IF r \in gone THEN "failed" ELSE status[r]]
        /\ attempts' = [r \in Rows |-> IF r \in batch THEN attempts[r] + 1 ELSE attempts[r]]
        /\ token' = [r \in Rows |-> IF r \in gone THEN NoToken
                                    ELSE IF r \in batch THEN t ELSE token[r]]
        /\ hold' = [r \in Rows |-> IF r \in gone THEN 0
                                   ELSE IF r \in batch THEN HoldFor(batch) ELSE hold[r]]
        /\ hand' = [hand EXCEPT ![p] = batch]
        /\ pc' = [pc EXCEPT ![p] = IF batch = {} THEN "idle" ELSE "renew"]
        /\ tok' = [tok EXCEPT ![p] = IF batch = {} THEN NoToken ELSE t]
        /\ att' = [att EXCEPT ![p] = [r \in Rows |-> IF r \in batch THEN attempts[r] + 1 ELSE 0]]
        /\ UNCHANGED <<dueIn, outcome, spent, wedged, deliveries, refunds, accepted, settled>>
    BY DEF StampLeases, SpendAttempt, StampToken, StampHold, history
  <1>2. (\A r \in Rows : token[r] # t) /\ (\A q \in Relays : tok[q] # t)  BY DEF TokenInUse
  <1>3. \A q \in Relays : q # p => /\ hand'[q] = hand[q] /\ pc'[q] = pc[q]
                                   /\ tok'[q] = tok[q] /\ att'[q] = att[q]
    BY <1>1 DEF TypeOK
  <1>4. hand'[p] = batch /\ (batch # {} => tok'[p] = t)  BY <1>1 DEF TypeOK
  <1>5. \A q \in Relays, r \in Rows :
            q # p /\ tok[q] # NoToken /\ token'[r] = tok[q] =>
                token[r] = tok[q] /\ r \notin gone /\ r \notin batch
    BY <1>1, <1>2
  <1>6. TypeOK'
    <2>1. hold' \in [Rows -> Nat]  BY <1>1, HoldForType DEF TypeOK
    <2>2. att' \in [Relays -> [Rows -> 0 .. MaxAttempts]]  BY <1>1, AttemptsAssumption DEF TypeOK
    <2>  QED  BY <1>1, <2>1, <2>2 DEF TypeOK, Terminal
  <1>7. PassShape'
    <2>  SUFFICES ASSUME NEW q \in Relays
                  PROVE  /\ pc'[q] = "idle" => hand'[q] = {} /\ tok'[q] = NoToken
                         /\ pc'[q] # "idle" => hand'[q] # {} /\ tok'[q] \in Tokens
                         /\ \A r \in hand'[q] : att'[q][r] >= 1 /\ status'[r] # "absent"
      BY DEF PassShape
    <2>1. CASE q = p
      BY <2>1, <1>1, <1>4 DEF TypeOK
    <2>2. CASE q # p  BY <2>2, <1>1, <1>3 DEF PassShape, TypeOK
    <2>  QED  BY <2>1, <2>2
  <1>8. TokensApart'  BY <1>1, <1>2 DEF TokensApart, TypeOK
  <1>9. TerminalReleased'  BY <1>1 DEF TerminalReleased
  <1>10. SnapshotCurrent'
    <2>  SUFFICES ASSUME NEW q \in Relays, NEW r \in hand'[q], token'[r] = tok'[q]
                  PROVE  attempts'[r] = att'[q][r] /\ status'[r] = "pending"
      BY DEF SnapshotCurrent, HoldsLease
    <2>1. CASE q = p  BY <2>1, <1>1, <1>4 DEF TypeOK
    <2>2. CASE q # p
      <3>1. r \in Rows /\ r \in hand[q] /\ tok[q] # NoToken /\ token'[r] = tok[q]
        BY <2>2, <1>3, TokenAssumption DEF TypeOK, PassShape
      <3>2. token[r] = tok[q] /\ r \notin gone /\ r \notin batch  BY <2>2, <3>1, <1>5
      <3>3. attempts'[r] = attempts[r] /\ status'[r] = status[r]  BY <3>1, <3>2, <1>1
      <3>  QED  BY <2>2, <3>1, <3>2, <3>3, <1>3 DEF SnapshotCurrent, HoldsLease
    <2>  QED  BY <2>1, <2>2
  <1>11. SettledOnce'  BY <1>1 DEF SettledOnce
  <1>12. DeliveriesPaid'  BY <1>1 DEF DeliveriesPaid, TypeOK
  <1>13. PaidAhead'
    <2>  SUFFICES ASSUME NEW q \in Relays, NEW r \in hand'[q], token'[r] = tok'[q],
                         Undelivered(q, r)'
                  PROVE  deliveries'[r] + 1 <= attempts'[r] + refunds'[r]
      BY DEF PaidAhead, HoldsLease
    <2>1. CASE q = p  BY <2>1, <1>1, <1>4 DEF TypeOK, DeliveriesPaid
    <2>2. CASE q # p
      <3>1. r \in Rows /\ r \in hand[q] /\ tok[q] # NoToken /\ token'[r] = tok[q]
        BY <2>2, <1>3, TokenAssumption DEF TypeOK, PassShape
      <3>2. token[r] = tok[q] /\ r \notin gone /\ r \notin batch  BY <2>2, <3>1, <1>5
      <3>3. Undelivered(q, r)  BY <2>2, <1>3 DEF Undelivered, Current
      <3>  QED  BY <3>1, <3>2, <3>3, <1>1 DEF PaidAhead, HoldsLease
    <2>  QED  BY <2>1, <2>2
  <1>14. SuccessSeen'  BY <1>1, <1>3 DEF SuccessSeen, Current, TypeOK
  <1>15. DeferralLeft'
    <2>  SUFFICES ASSUME NEW q \in Relays, pc'[q] = "finish", outcome[q] = "defer",
                         token'[Current(q)'] = tok'[q]
                  PROVE  refunds[Current(q)'] < MaxDefers
      BY <1>1 DEF DeferralLeft, HoldsLease
    <2>1. q # p  BY <1>1 DEF TypeOK
    <2>2. Current(q)' = Current(q) /\ pc[q] = "finish" /\ tok'[q] = tok[q]
      BY <2>1, <1>3 DEF Current
    <2>3. Current(q) \in Rows /\ tok[q] # NoToken
      BY <2>2, CurrentInHand, TokenAssumption DEF PassShape
    <2>  QED  BY <2>1, <2>2, <2>3, <1>5 DEF DeferralLeft, HoldsLease
  <1>  QED  BY <1>6, <1>7, <1>8, <1>9, <1>10, <1>11, <1>12, <1>13, <1>14, <1>15

\* The claim of the base class.
LEMMA ClaimInv == ASSUME IInv, NEW p \in Relays, Claim(p) PROVE IInv'
  <1>1. PICK skipped \in SUBSET MaybeLocked, t \in Tokens \ TokenInUse :
            StampLeases(p, FirstOf((Due \cap Rows) \ (skipped \cup {})), t, Abandoned \cup {})
    BY DEF Claim, ClaimRows
  <1>  DEFINE batch == FirstOf((Due \cap Rows) \ (skipped \cup {}))
  <1>  DEFINE gone == Abandoned \cup {}
  <1>2. batch \in SUBSET Rows /\ \A r \in batch : status[r] = "pending" /\ attempts[r] < MaxAttempts
    BY DEF FirstOf, Due
  <1>3. gone \in SUBSET Rows /\ \A r \in gone : status[r] = "pending" /\ attempts[r] >= MaxAttempts
    BY DEF Abandoned
  <1>5. pc[p] = "idle" /\ t \in Tokens /\ t \notin TokenInUse  BY DEF Claim, ClaimRows
  <1>  HIDE DEF batch, gone
  <1>4. batch \cap gone = {}
    <2>  SUFFICES ASSUME NEW r \in batch, r \in gone PROVE FALSE  OBVIOUS
    <2>1. attempts[r] \in Nat  BY <1>2 DEF IInv, TypeOK
    <2>  QED  BY <2>1, <1>2, <1>3, AttemptsAssumption
  <1>6. StampLeases(p, batch, t, gone)  BY <1>1 DEF batch, gone
  <1>  QED  BY <1>2, <1>3, <1>4, <1>5, <1>6, StampLeasesInv

-----------------------------------------------------------------------------
(* A fenced finish                                                         *)

\* What the three kinds of commit have in common: the current row, which the
\* relay holds and which is pending, loses its lease; its deliveries stay
\* paid for, and it is settled exactly if it is sent.
CommitEffect(p, r) ==
    /\ token[r] = tok[p]
    /\ status[r] = "pending"
    /\ \E st \in {"pending", "sent", "failed"} : status' = [status EXCEPT ![r] = st]
    /\ \E n \in 0 .. MaxAttempts : attempts' = [attempts EXCEPT ![r] = n]
    /\ \E n \in Nat : dueIn' = [dueIn EXCEPT ![r] = n]
    /\ token' = [token EXCEPT ![r] = NoToken]
    /\ hold' = [hold EXCEPT ![r] = 0]
    /\ \E n \in 0 .. MaxDefers : refunds' = [refunds EXCEPT ![r] = n]
    /\ attempts'[r] + refunds'[r] = attempts[r] + refunds[r]
    /\ settled' = [settled EXCEPT ![r] = IF status'[r] = "sent" THEN 1 ELSE 0]
    /\ UNCHANGED <<deliveries, accepted>>

\* Every kind of commit has that effect.
LEMMA CommitHasEffect ==
    ASSUME IInv, NEW p \in Relays, pc[p] = "finish", Commit(p)
    PROVE  CommitEffect(p, Current(p))
  <1>  DEFINE r == Current(p)
  <1>  USE DEF IInv
  <1>1. r \in hand[p] /\ r \in Rows  BY CurrentInHand
  <1>2. token[r] = tok[p]  BY DEF Commit, CommitSent, CommitFail, CommitDefer, HoldsLease
  <1>3. status[r] = "pending" /\ attempts[r] = att[p][r]
    BY <1>1, <1>2 DEF SnapshotCurrent, HoldsLease
  <1>4. attempts[r] \in 1 .. MaxAttempts /\ refunds[r] \in 0 .. MaxDefers /\ dueIn[r] \in Nat
    BY <1>1, <1>3, AttemptsAssumption DEF PassShape, TypeOK
  <1>5. settled[r] = 0  BY <1>1, <1>3 DEF SettledOnce
  <1>6. CASE CommitSent(p)
    <2>1. /\ status' = [status EXCEPT ![r] = "sent"]
          /\ attempts' = [attempts EXCEPT ![r] = attempts[r]]
          /\ dueIn' = [dueIn EXCEPT ![r] = dueIn[r]]
          /\ token' = [token EXCEPT ![r] = NoToken]
          /\ hold' = [hold EXCEPT ![r] = 0]
          /\ settled' = [settled EXCEPT ![r] = settled[r] + 1]
          /\ refunds' = refunds
          /\ UNCHANGED <<deliveries, accepted>>
      BY <1>1, <1>6 DEF CommitSent, FinishRow
    <2>2. refunds' = [refunds EXCEPT ![r] = refunds[r]]  BY <2>1, <1>1 DEF TypeOK
    <2>3. status'[r] = "sent" /\ attempts'[r] = attempts[r]  BY <2>1, <1>1 DEF TypeOK
    <2>4. settled' = [settled EXCEPT ![r] = IF status'[r] = "sent" THEN 1 ELSE 0]
      BY <2>1, <2>3, <1>5
    <2>5. attempts'[r] + refunds'[r] = attempts[r] + refunds[r]  BY <2>1, <2>3
    <2>6. attempts[r] \in 0 .. MaxAttempts  BY <1>4, AttemptsAssumption
    <2>  QED  BY <1>2, <1>3, <1>4, <2>1, <2>2, <2>4, <2>5, <2>6 DEF CommitEffect
  <1>7. CASE CommitFail(p)
    <2>1. PICK hint \in {0, MaxHint}, st \in {"pending", "failed"} :
              FinishRow(p, st, attempts[r], FailDelay(p, hint))
      BY <1>7 DEF CommitFail
    <2>2. FailDelay(p, hint) \in Nat  BY FailDelayType, TimeAssumption
    <2>3. /\ status' = [status EXCEPT ![r] = st]
          /\ attempts' = [attempts EXCEPT ![r] = attempts[r]]
          /\ dueIn' = [dueIn EXCEPT ![r] = FailDelay(p, hint)]
          /\ token' = [token EXCEPT ![r] = NoToken]
          /\ hold' = [hold EXCEPT ![r] = 0]
      BY <2>1 DEF FinishRow
    <2>4. UNCHANGED <<deliveries, refunds, accepted, settled>>  BY <1>7 DEF CommitFail, history
    <2>5. status'[r] = st /\ attempts'[r] = attempts[r]  BY <2>3, <1>1 DEF TypeOK
    <2>6. /\ refunds' = [refunds EXCEPT ![r] = refunds[r]]
          /\ settled' = [settled EXCEPT ![r] = IF status'[r] = "sent" THEN 1 ELSE 0]
      BY <2>4, <2>5, <1>1, <1>5 DEF TypeOK
    <2>  QED
      BY <1>1, <1>2, <1>3, <1>4, <2>2, <2>3, <2>4, <2>5, <2>6 DEF CommitEffect, TypeOK
  <1>8. CASE CommitDefer(p)
    <2>1. PICK wait \in {0, MaxHint} :
              FinishRow(p, "pending", Larger(attempts[r] - 1, 0), wait)
      BY <1>8 DEF CommitDefer
    <2>2. Larger(attempts[r] - 1, 0) = attempts[r] - 1 /\ attempts[r] - 1 \in 0 .. MaxAttempts
      BY <1>4, AttemptsAssumption DEF Larger
    <2>3. /\ status' = [status EXCEPT ![r] = "pending"]
          /\ attempts' = [attempts EXCEPT ![r] = attempts[r] - 1]
          /\ dueIn' = [dueIn EXCEPT ![r] = wait]
          /\ token' = [token EXCEPT ![r] = NoToken]
          /\ hold' = [hold EXCEPT ![r] = 0]
      BY <2>1, <2>2 DEF FinishRow
    <2>4. /\ refunds' = [refunds EXCEPT ![r] = refunds[r] + 1]
          /\ UNCHANGED <<deliveries, accepted, settled>>
      BY <1>8 DEF CommitDefer
    <2>5. refunds[r] + 1 \in 0 .. MaxDefers
      BY <1>2, <1>4, <1>8, TimeAssumption DEF CommitDefer, DeferralLeft, HoldsLease
    <2>6. /\ status'[r] = "pending" /\ attempts'[r] = attempts[r] - 1
          /\ refunds'[r] = refunds[r] + 1
      BY <2>3, <2>4, <1>1 DEF TypeOK
    <2>7. settled' = [settled EXCEPT ![r] = IF status'[r] = "sent" THEN 1 ELSE 0]
      BY <2>4, <2>6, <1>1, <1>5 DEF TypeOK
    <2>8. attempts'[r] + refunds'[r] = attempts[r] + refunds[r]  BY <2>6, <1>4
    <2>9. wait \in Nat  BY TimeAssumption
    <2>  QED  BY <1>2, <1>3, <2>2, <2>3, <2>4, <2>5, <2>7, <2>8, <2>9 DEF CommitEffect
  <1>  QED  BY <1>6, <1>7, <1>8 DEF Commit

\* Releasing the row it holds, and forgetting it, keeps the invariant.
LEMMA CommitInv ==
    ASSUME IInv, NEW p \in Relays, pc[p] = "finish", Commit(p), AfterRow(p)
    PROVE  IInv'
  <1>  DEFINE r == Current(p)
  <1>  USE DEF IInv
  <1>1. r \in hand[p] /\ r \in Rows  BY CurrentInHand
  <1>2. CommitEffect(p, r)  BY CommitHasEffect
  <1>3. MemoryType' /\ MemoryShape' /\ MemoryShrinks  BY AfterRowShrinks
  <1>  HIDE DEF r
  <1>4. \A s \in Rows : s # r => /\ status'[s] = status[s] /\ attempts'[s] = attempts[s]
                                 /\ token'[s] = token[s] /\ refunds'[s] = refunds[s]
                                 /\ settled'[s] = settled[s]
    BY <1>2 DEF CommitEffect, TypeOK
  <1>5. token'[r] = NoToken /\ status'[r] \in {"pending", "sent", "failed"}
    BY <1>1, <1>2 DEF CommitEffect, TypeOK
  <1>6. ASSUME NEW q \in Relays, NEW s \in Rows, tok'[q] # NoToken, token'[s] = tok'[q]
        PROVE  s # r /\ token[s] = tok[q]
    BY <1>6, <1>3, <1>4, <1>5 DEF MemoryShrinks
  <1>7. TypeOK'  BY <1>1, <1>2, <1>3 DEF CommitEffect, TypeOK, MemoryType, Terminal
  <1>8. PassShape'
    BY <1>3, <1>4, <1>5 DEF PassShape, MemoryShape, MemoryShrinks, TypeOK
  <1>9. TokensApart'  BY <1>3 DEF TokensApart, MemoryShrinks
  <1>10. TerminalReleased'  BY <1>4, <1>5 DEF TerminalReleased
  <1>11. ASSUME NEW q \in Relays, NEW s \in hand'[q], HoldsLease(q, s)'
         PROVE  s \in Rows /\ s \in hand[q] /\ s # r /\ token[s] = tok[q]
    <2>1. s \in hand[q] /\ s \in Rows  BY <1>3 DEF MemoryShrinks, TypeOK
    <2>2. tok'[q] # NoToken  BY <1>8, TokenAssumption DEF PassShape
    <2>  QED  BY <2>1, <2>2, <1>6, <1>11 DEF HoldsLease
  <1>12. SnapshotCurrent'
    BY <1>3, <1>4, <1>11 DEF SnapshotCurrent, MemoryShrinks, HoldsLease
  <1>13. SettledOnce'
    <2>1. settled'[r] = IF status'[r] = "sent" THEN 1 ELSE 0
      BY <1>1, <1>2 DEF CommitEffect, TypeOK
    <2>  QED  BY <2>1, <1>4 DEF SettledOnce
  <1>14. DeliveriesPaid'
    <2>1. attempts'[r] + refunds'[r] = attempts[r] + refunds[r] /\ deliveries' = deliveries
      BY <1>2 DEF CommitEffect
    <2>  QED  BY <2>1, <1>1, <1>4 DEF DeliveriesPaid
  <1>15. PaidAhead'
    <2>  SUFFICES ASSUME NEW q \in Relays, NEW s \in hand'[q], HoldsLease(q, s)',
                         Undelivered(q, s)'
                  PROVE  deliveries'[s] + 1 <= attempts'[s] + refunds'[s]
      BY DEF PaidAhead
    <2>1. s \in Rows /\ s \in hand[q] /\ s # r /\ token[s] = tok[q]  BY <1>11
    <2>2. Undelivered(q, s)  BY <1>3 DEF MemoryShrinks
    <2>3. deliveries' = deliveries  BY <1>2 DEF CommitEffect
    <2>  QED  BY <2>1, <2>2, <2>3, <1>4 DEF PaidAhead, HoldsLease
  <1>16. SuccessSeen'
    <2>1. accepted' = accepted  BY <1>2 DEF CommitEffect
    <2>  QED  BY <2>1, <1>3 DEF SuccessSeen, MemoryShrinks, Current
  <1>17. DeferralLeft'
    <2>  SUFFICES ASSUME NEW q \in Relays, pc'[q] = "finish", outcome'[q] = "defer",
                         HoldsLease(q, Current(q))'
                  PROVE  refunds'[Current(q)'] < MaxDefers
      BY DEF DeferralLeft
    <2>1. pc[q] = "finish" /\ outcome[q] = "defer" /\ hand'[q] = hand[q]
      BY <1>3 DEF MemoryShrinks
    <2>2. Current(q)' = Current(q)  BY <2>1 DEF Current
    <2>3. Current(q) \in hand'[q]  BY <2>1, CurrentInHand
    <2>4. Current(q) \in Rows /\ Current(q) # r /\ token[Current(q)] = tok[q]
      BY <2>2, <2>3, <1>11
    <2>  QED  BY <2>1, <2>2, <2>4, <1>4 DEF DeferralLeft, HoldsLease
  <1>  QED
    BY <1>7, <1>8, <1>9, <1>10, <1>12, <1>13, <1>14, <1>15, <1>16, <1>17

-----------------------------------------------------------------------------
(* The invariant                                                           *)

\* A failed finish leaves the row to the lease or is tried again as a failure.
LEMMA AfterFinishErrorIsAfterRow ==
    ASSUME NEW p \in Relays, AfterFinishError(p) PROVE AfterRow(p)
  BY DEF AfterFinishError, AfterRow

\* A relay step that gives the current row up without writing.
LEMMA SkipInv ==
    ASSUME IInv, NEW p \in Relays, pc[p] # "idle", AfterRow(p), UNCHANGED <<table, history>>
    PROVE  IInv'
  <1>1. MemoryType' /\ MemoryShape' /\ MemoryShrinks  BY AfterRowShrinks DEF IInv
  <1>  QED  BY <1>1, ShrinkInv

\* Every step of the relay keeps the invariant.
LEMMA NextIInv == IInv /\ [Next]_vars => IInv'
  <1>  SUFFICES ASSUME IInv, [Next]_vars PROVE IInv'  OBVIOUS
  <1>1. ASSUME NEW r \in Rows, Enqueue(r) PROVE IInv'  BY <1>1, EnqueueInv
  <1>2. ASSUME NEW p \in Relays, Claim(p) PROVE IInv'  BY <1>2, ClaimInv
  <1>3. ASSUME NEW p \in Relays, RenewLease(p) PROVE IInv'  BY <1>3, RenewLeaseInv
  <1>4. ASSUME NEW p \in Relays, RenewLost(p) PROVE IInv'
    BY <1>4, SkipInv DEF RenewLost, AfterRow
  <1>5. ASSUME NEW p \in Relays, RenewError(p) PROVE IInv'
    BY <1>5, SkipInv DEF RenewError, AfterRow
  <1>6. ASSUME NEW p \in Relays, NEW o \in Outcomes, DeliverReturns(p, o) PROVE IInv'
    BY <1>6, DeliverReturnsInv
  <1>7. ASSUME NEW p \in Relays, Finish(p) PROVE IInv'
    BY <1>7, CommitInv DEF Finish, AfterRow
  <1>8. ASSUME NEW p \in Relays, FinishLost(p) PROVE IInv'
    BY <1>8, SkipInv DEF FinishLost, AfterRow
  <1>9. ASSUME NEW p \in Relays, FinishError(p) PROVE IInv'
    BY <1>9, SkipInv, AfterFinishErrorIsAfterRow DEF FinishError
  <1>10. ASSUME NEW p \in Relays, FinishUnacknowledged(p) PROVE IInv'
    BY <1>10, CommitInv, AfterFinishErrorIsAfterRow DEF FinishUnacknowledged
  <1>11. ASSUME NEW p \in Relays, Crash(p) PROVE IInv'  BY <1>11, CrashInv
  <1>12. CASE Tick  BY <1>12, TickInv
  <1>14. ASSUME NEW p \in Relays, ClaimThrows(p) PROVE IInv'  BY <1>14, ClaimThrowsInv
  <1>13. CASE UNCHANGED vars
    BY <1>13 DEF vars, IInv, TypeOK, PassShape, TokensApart, TerminalReleased, SnapshotCurrent,
                 SettledOnce, DeliveriesPaid, PaidAhead, SuccessSeen, DeferralLeft,
                 HoldsLease, Undelivered, Current
  <1>  QED
    BY <1>1, <1>2, <1>3, <1>4, <1>5, <1>6, <1>7, <1>8, <1>9, <1>10, <1>11, <1>12, <1>13, <1>14
    DEF Next, RelayStep

\* The inductive invariant is an invariant of the relay.
THEOREM Invariance == Spec => []IInv
  BY InitIInv, NextIInv, PTL DEF Spec

\* Type correctness of the table, the relays and the history.
THEOREM TypeCorrect == Spec => []TypeOK
  <1>1. IInv => TypeOK  BY DEF IInv
  <1>  QED  BY <1>1, Invariance, PTL

\* The writes of settle() are committed once for a row that is sent and never
\* for another, for any number of relays, rows, crashes and lost commits.
THEOREM SettlesOnce == Spec => []SettledOnce
  <1>1. IInv => SettledOnce  BY DEF IInv
  <1>  QED  BY <1>1, Invariance, PTL

\* Every delivery was paid for by an attempt, refunds included.
THEOREM EveryDeliveryPaid == Spec => []DeliveriesPaid
  <1>1. IInv => DeliveriesPaid  BY DEF IInv
  <1>  QED  BY <1>1, Invariance, PTL

\* However many relays, crashes and lost commits there are, deliver() is
\* started for a row at most maxAttempts times, and once more per deferral.
THEOREM DeliveriesBounded == Spec => [](\A r \in Rows : deliveries[r] <= MaxAttempts + MaxDefers)
  <1>1. ASSUME IInv, NEW r \in Rows PROVE deliveries[r] <= MaxAttempts + MaxDefers
    <2>1. attempts[r] \in 0 .. MaxAttempts /\ refunds[r] \in 0 .. MaxDefers /\ deliveries[r] \in Nat
      BY <1>1 DEF IInv, TypeOK
    <2>2. deliveries[r] <= attempts[r] + refunds[r]  BY <1>1 DEF IInv, DeliveriesPaid
    <2>  QED  BY <2>1, <2>2, AttemptsAssumption, TimeAssumption
  <1>2. IInv => \A r \in Rows : deliveries[r] <= MaxAttempts + MaxDefers  BY <1>1
  <1>  QED  BY <1>2, Invariance, PTL

\* While its lease token is on the row, what a relay remembers of it is true.
THEOREM SnapshotTrue == Spec => []SnapshotCurrent
  <1>1. IInv => SnapshotCurrent  BY DEF IInv
  <1>  QED  BY <1>1, Invariance, PTL

-----------------------------------------------------------------------------
(* Terminal rows are final                                                 *)

\* What a step leaves alone of a row that is sent or dead-lettered.
Untouched(r) ==
    /\ status'[r] = status[r]
    /\ attempts'[r] = attempts[r]
    /\ token'[r] = NoToken
    /\ settled'[r] = settled[r]

\* A claim takes and dead-letters pending rows only.
LEMMA ClaimLeavesTerminal ==
    ASSUME IInv, NEW p \in Relays, Claim(p), NEW r \in Rows, status[r] \in Terminal
    PROVE  Untouched(r)
  <1>1. PICK batch \in SUBSET Due, t \in Tokens : StampLeases(p, batch, t, Abandoned)
    <2>1. PICK skipped \in SUBSET MaybeLocked, t \in Tokens \ TokenInUse :
              StampLeases(p, FirstOf((Due \cap Rows) \ (skipped \cup {})), t, Abandoned \cup {})
      BY DEF Claim, ClaimRows
    <2>2. FirstOf((Due \cap Rows) \ (skipped \cup {})) \in SUBSET Due  BY DEF FirstOf
    <2>3. Abandoned \cup {} = Abandoned  OBVIOUS
    <2>  QED  BY <2>1, <2>2, <2>3
  <1>2. r \notin batch /\ r \notin Abandoned  BY <1>1 DEF Due, Abandoned, Terminal
  <1>3. token[r] = NoToken  BY DEF IInv, TerminalReleased, Terminal
  <1>  QED
    BY <1>1, <1>2, <1>3 DEF StampLeases, SpendAttempt, StampToken, history, Untouched

\* No step touches a terminal row: whoever would write to it has lost the fence.
LEMMA TerminalUntouched ==
    ASSUME IInv, [Next]_vars, NEW r \in Rows, status[r] \in Terminal
    PROVE  Untouched(r)
  <1>  USE DEF IInv
  <1>1. token[r] = NoToken  BY DEF TerminalReleased, Terminal
  <1>2. CASE UNCHANGED <<status, attempts, token, settled>>  BY <1>1, <1>2 DEF Untouched
  <1>3. ASSUME NEW p \in Relays, pc[p] = "finish", Commit(p) PROVE Untouched(r)
    <2>1. CommitEffect(p, Current(p))  BY <1>3, CommitHasEffect
    <2>2. r # Current(p)  BY <2>1 DEF CommitEffect, Terminal
    <2>  QED  BY <2>1, <2>2, <1>1 DEF CommitEffect, TypeOK, Untouched
  <1>4. ASSUME NEW s \in Rows, Enqueue(s) PROVE Untouched(r)
    BY <1>1, <1>4 DEF Enqueue, history, Terminal, TypeOK, Untouched
  <1>5. ASSUME NEW p \in Relays, Claim(p) PROVE Untouched(r)  BY <1>5, ClaimLeavesTerminal
  <1>6. ASSUME NEW p \in Relays, Finish(p) \/ FinishUnacknowledged(p) PROVE Untouched(r)
    BY <1>3, <1>6 DEF Finish, FinishUnacknowledged
  <1>7. ASSUME NEW p \in Relays,
               \/ RenewLease(p) \/ RenewLost(p) \/ RenewError(p) \/ FinishLost(p)
               \/ FinishError(p) \/ Crash(p) \/ ClaimThrows(p) \/ \E o \in Outcomes : DeliverReturns(p, o)
        PROVE  Untouched(r)
    BY <1>2, <1>7 DEF RenewLease, RenewLost, RenewError, FinishLost, FinishError, Crash,
                      ClaimThrows, DeliverReturns, table, history
  <1>8. CASE Tick  BY <1>2, <1>8 DEF Tick, history
  <1>9. CASE UNCHANGED vars  BY <1>2, <1>9 DEF vars
  <1>  QED  BY <1>4, <1>5, <1>6, <1>7, <1>8, <1>9 DEF Next, RelayStep

\* A row that was sent or dead-lettered is never written to again.
THEOREM TerminalStaysFinal == Spec => TerminalIsFinal
  <1>1. IInv /\ [Next]_vars =>
          [\A r \in Rows : status[r] \in Terminal =>
              /\ status'[r] = status[r]
              /\ attempts'[r] = attempts[r]
              /\ token'[r] = NoToken
              /\ settled'[r] = settled[r]]_vars
    BY TerminalUntouched DEF Untouched
  <1>  QED  BY <1>1, Invariance, PTL DEF Spec, TerminalIsFinal

-----------------------------------------------------------------------------
(* The relay implements the contract of the outbox                         *)

\* Initial states map to initial states.
LEMMA ContractInit == Init => Contract!Init
  BY DEF Init, Contract!Init

\* A claim dead-letters the abandoned rows, and does nothing else that the
\* contract speaks of.
LEMMA ClaimImplements ==
    ASSUME IInv, NEW p \in Relays, Claim(p)
    PROVE  Contract!DeadLetter(Abandoned)
  <1>1. \E batch, t : StampLeases(p, batch, t, Abandoned)
    <2>1. Abandoned \cup {} = Abandoned  OBVIOUS
    <2>  QED  BY <2>1 DEF Claim, ClaimRows
  <1>  QED  BY <1>1 DEF StampLeases, history, Abandoned, Contract!DeadLetter

\* A fenced finish settles the row, dead-letters it, or leaves it pending.
LEMMA CommitImplements ==
    ASSUME IInv, NEW p \in Relays, pc[p] = "finish", Commit(p)
    PROVE  [Contract!Next]_(Contract!contractVars)
  <1>  DEFINE r == Current(p)
  <1>  USE DEF IInv
  <1>1. r \in hand[p] /\ r \in Rows  BY CurrentInHand
  <1>2. CommitEffect(p, r)  BY CommitHasEffect
  <1>3. status'[r] = "sent" => outcome[p] = "ok"
    BY <1>1 DEF Commit, CommitSent, CommitFail, CommitDefer, FinishRow, TypeOK
  <1>  HIDE DEF r
  <1>4. PICK st \in {"pending", "sent", "failed"} : status' = [status EXCEPT ![r] = st]
    BY <1>2 DEF CommitEffect
  <1>5. /\ status[r] = "pending" /\ status'[r] = st
        /\ settled' = [settled EXCEPT ![r] = IF st = "sent" THEN 1 ELSE 0]
        /\ accepted' = accepted
    BY <1>1, <1>2, <1>4 DEF CommitEffect, TypeOK
  <1>6. settled[r] = 0  BY <1>1, <1>5 DEF SettledOnce
  <1>7. CASE st = "sent"
    <2>1. accepted[r]  BY <1>3, <1>5, <1>7 DEF SuccessSeen, r
    <2>2. Contract!Settle(r)  BY <1>4, <1>5, <1>7, <2>1 DEF Contract!Settle
    <2>  QED  BY <1>1, <2>2 DEF Contract!Next
  <1>8. CASE st = "failed"
    <2>1. settled' = settled  BY <1>1, <1>5, <1>6, <1>8 DEF TypeOK
    <2>2. status' = [s \in Rows |-> IF s \in {r} THEN "failed" ELSE status[s]]
      BY <1>4, <1>8 DEF TypeOK
    <2>3. Contract!DeadLetter({r})  BY <1>5, <2>1, <2>2 DEF Contract!DeadLetter
    <2>  QED  BY <1>1, <2>3 DEF Contract!Next
  <1>9. CASE st = "pending"
    <2>1. settled' = settled /\ status' = status  BY <1>1, <1>4, <1>5, <1>6, <1>9 DEF TypeOK
    <2>  QED  BY <1>5, <2>1 DEF Contract!contractVars
  <1>  QED  BY <1>7, <1>8, <1>9

\* Every step of the relay is a step of the contract or leaves it alone.
LEMMA StepImplements ==
    ASSUME IInv, [Next]_vars PROVE [Contract!Next]_(Contract!contractVars)
  <1>  USE DEF IInv
  <1>1. CASE UNCHANGED <<status, accepted, settled>>  BY <1>1 DEF Contract!contractVars
  <1>2. ASSUME NEW r \in Rows, Enqueue(r) PROVE [Contract!Next]_(Contract!contractVars)
    <2>1. Contract!Enqueue(r)  BY <1>2 DEF Enqueue, history, Contract!Enqueue
    <2>  QED  BY <2>1 DEF Contract!Next
  <1>3. ASSUME NEW p \in Relays, Claim(p) PROVE [Contract!Next]_(Contract!contractVars)
    <2>1. Contract!DeadLetter(Abandoned) /\ Abandoned \in SUBSET Rows
      BY <1>3, ClaimImplements DEF Abandoned
    <2>  QED  BY <2>1 DEF Contract!Next
  <1>4. ASSUME NEW p \in Relays, NEW o \in Outcomes, DeliverReturns(p, o)
        PROVE  [Contract!Next]_(Contract!contractVars)
    <2>  DEFINE r == Current(p)
    <2>1. r \in hand[p] /\ r \in Rows /\ status[r] # "absent"
      BY <1>4, CurrentInHand DEF DeliverReturns, PassShape
    <2>2. UNCHANGED <<status, settled>>  BY <1>4 DEF DeliverReturns, table
    <2>3. accepted' = [accepted EXCEPT ![r] = accepted[r] \/ o = "ok"]
      BY <1>4 DEF DeliverReturns
    <2>4. CASE o = "ok"
      <3>1. accepted' = [accepted EXCEPT ![r] = TRUE]  BY <2>1, <2>3, <2>4 DEF TypeOK
      <3>2. Contract!Accept(r)  BY <2>1, <2>2, <3>1 DEF Contract!Accept
      <3>  QED  BY <2>1, <3>2 DEF Contract!Next
    <2>5. CASE o # "ok"
      <3>1. accepted' = accepted  BY <2>1, <2>3, <2>5 DEF TypeOK
      <3>  QED  BY <1>1, <2>2, <3>1
    <2>  QED  BY <2>4, <2>5
  <1>5. ASSUME NEW p \in Relays, Finish(p) \/ FinishUnacknowledged(p)
        PROVE  [Contract!Next]_(Contract!contractVars)
    BY <1>5, CommitImplements DEF Finish, FinishUnacknowledged
  <1>6. ASSUME NEW p \in Relays,
               \/ RenewLease(p) \/ RenewLost(p) \/ RenewError(p) \/ FinishLost(p)
               \/ FinishError(p) \/ Crash(p) \/ ClaimThrows(p)
        PROVE  [Contract!Next]_(Contract!contractVars)
    BY <1>1, <1>6 DEF RenewLease, RenewLost, RenewError, FinishLost, FinishError, Crash,
                      ClaimThrows, table, history
  <1>7. CASE Tick  BY <1>1, <1>7 DEF Tick, history
  <1>8. CASE UNCHANGED vars  BY <1>1, <1>8 DEF vars
  <1>  QED  BY <1>2, <1>3, <1>4, <1>5, <1>6, <1>7, <1>8 DEF Next, RelayStep

\* The relay implements the contract: at least one delivery before a row is
\* sent, its writes settled once, and an end that is final.
THEOREM Implementation == Spec => ImplementsContract
  <1>1. IInv /\ [Next]_vars => [Contract!Next]_(Contract!contractVars)  BY StepImplements
  <1>  QED
    BY <1>1, ContractInit, Invariance, PTL DEF Spec, ImplementsContract, Contract!Spec

-----------------------------------------------------------------------------
(* A batch is covered by its leases                                        *)

\* The lease that is left, and the time already spent on the current row,
\* make up one lease for the row whose turn it is, and as many leases as the
\* batch has rows for the rows behind it.
Covered(p, r) ==
    /\ HoldsLease(p, r) /\ status[r] = "pending"
    /\ hold[r] + spent[p] >= Lease
    /\ r # Current(p) => hold[r] + spent[p] >= Cardinality(hand[p]) * Lease

\* The row was sent and its relay was not told.
SentUntold(p, r) == status[r] = "sent" /\ r = Current(p) /\ pc[p] = "finish"

LeaseInv ==
    /\ \A p \in Relays : spent[p] < Lease
    /\ Timely => \A p \in Relays : \A r \in hand[p] : Covered(p, r) \/ SentUntold(p, r)

\* When the turn of the next row comes, less than one lease has passed.
LEMMA WaitCovered ==
    ASSUME NEW n \in Nat, n >= 1, NEW h \in Nat, NEW s \in Nat, s < Lease, h + s >= (n + 1) * Lease
    PROVE  h >= n * Lease /\ h >= Lease
  <1>1. Lease \in Nat  BY TimeAssumption
  <1>2. (n + 1) * Lease = n * Lease + Lease  BY <1>1
  <1>3. n * Lease \in Nat  BY <1>1
  <1>4. h >= n * Lease  BY <1>1, <1>2, <1>3
  <1>5. n * Lease = (n - 1) * Lease + Lease /\ (n - 1) * Lease \in Nat  BY <1>1
  <1>  QED  BY <1>1, <1>3, <1>4, <1>5

\* A row that is covered has a live lease.
LEMMA CoveredIsLive ==
    ASSUME TypeOK, LeaseInv, NEW p \in Relays, NEW r \in hand[p], Covered(p, r)
    PROVE  hold[r] > 0 /\ r \in Rows
  <1>1. r \in Rows  BY DEF TypeOK
  <1>2. hold[r] \in Nat /\ spent[p] \in Nat /\ Lease \in Nat  BY <1>1, TimeAssumption DEF TypeOK
  <1>3. spent[p] < Lease /\ hold[r] + spent[p] >= Lease  BY DEF LeaseInv, Covered
  <1>  QED  BY <1>1, <1>2, <1>3

\* What neither the relay nor its row sees changes nothing.
LEMMA CoverKept ==
    ASSUME NEW q \in Relays, NEW r \in hand[q], Covered(q, r) \/ SentUntold(q, r),
           hand'[q] = hand[q], pc'[q] = pc[q], tok'[q] = tok[q], spent'[q] = spent[q],
           token'[r] = token[r], status'[r] = status[r], hold'[r] = hold[r]
    PROVE  Covered(q, r)' \/ SentUntold(q, r)'
  <1>1. Current(q)' = Current(q)  BY DEF Current
  <1>2. CASE Covered(q, r)  BY <1>1, <1>2 DEF Covered, HoldsLease
  <1>3. CASE SentUntold(q, r)  BY <1>1, <1>3 DEF SentUntold
  <1>  QED  BY <1>2, <1>3

\* The row that a relay is to write to is in no other relay's cover.
LEMMA CoverFenced ==
    ASSUME IInv, NEW p \in Relays, pc[p] # "idle", NEW q \in Relays, q # p,
           NEW r \in hand[q], Covered(q, r) \/ SentUntold(q, r),
           NEW s, token[s] = tok[p]
    PROVE  r # s
  <1>1. tok[p] \in Tokens /\ tok[p] # NoToken  BY TokenAssumption DEF IInv, PassShape
  <1>2. tok[p] # tok[q]  BY <1>1 DEF IInv, TokensApart
  <1>3. CASE Covered(q, r)  BY <1>2, <1>3 DEF Covered, HoldsLease
  <1>4. CASE SentUntold(q, r)
    <2>1. r \in Rows  BY DEF IInv, TypeOK
    <2>2. token[r] = NoToken  BY <1>4, <2>1 DEF SentUntold, IInv, TerminalReleased
    <2>  QED  BY <1>1, <2>2
  <1>  QED  BY <1>3, <1>4

\* The relay turns to its next row: the claim's hold covered the wait.
LEMMA NextRowCovered ==
    ASSUME IInv, LeaseInv, Timely, NEW p \in Relays, pc[p] # "idle", NextRow(p),
           NEW r \in hand'[p],
           token'[r] = token[r], status'[r] = status[r], hold'[r] = hold[r]
    PROVE  Covered(p, r)'
  <1>  USE DEF IInv
  <1>1. Current(p) \in hand[p] /\ Current(p) \in Rows  BY CurrentInHand
  <1>2. /\ hand'[p] = hand[p] \ {Current(p)} /\ spent'[p] = 0
        /\ hand'[p] # {} => tok'[p] = tok[p]
    BY DEF NextRow, TypeOK
  <1>3. r \in hand[p] /\ r # Current(p) /\ r \in Rows  BY <1>2 DEF TypeOK
  <1>4. Covered(p, r)  BY <1>3 DEF LeaseInv, SentUntold
  <1>5. hold[r] + spent[p] >= Cardinality(hand[p]) * Lease  BY <1>3, <1>4 DEF Covered
  <1>6. IsFiniteSet(hand[p])  BY RowsAssumption, FS_Subset DEF TypeOK
  <1>7. IsFiniteSet(hand'[p])  BY <1>2, <1>6, FS_Subset
  <1>8. PICK n \in Nat : n = Cardinality(hand'[p])  BY <1>7, FS_CardinalityType
  <1>9. n >= 1
    <2>1. n # 0  BY <1>7, <1>8, FS_EmptySet
    <2>  QED  BY <2>1
  <1>10. Cardinality(hand[p]) = n + 1
    <2>1. Cardinality(hand[p] \ {Current(p)}) = Cardinality(hand[p]) - 1
      BY <1>1, <1>6, FS_RemoveElement
    <2>2. Cardinality(hand[p]) \in Nat  BY <1>6, FS_CardinalityType
    <2>  QED  BY <1>2, <1>8, <2>1, <2>2
  <1>11. hold[r] \in Nat /\ spent[p] \in Nat /\ spent[p] < Lease  BY <1>3 DEF TypeOK, LeaseInv
  <1>12. hold[r] >= n * Lease /\ hold[r] >= Lease  BY <1>5, <1>9, <1>10, <1>11, WaitCovered
  <1>13. HoldsLease(p, r)' /\ status'[r] = "pending"  BY <1>2, <1>4 DEF Covered, HoldsLease
  <1>14. hold'[r] + spent'[p] = hold[r]  BY <1>2, <1>11
  <1>  QED  BY <1>8, <1>12, <1>13, <1>14 DEF Covered

\* A relay is done with its current row, whatever it wrote to it; a row it
\* keeps as current, it has sent.
LEMMA RowDoneCovered ==
    ASSUME IInv, LeaseInv, NEW p \in Relays, pc[p] # "idle", AfterRow(p),
           \/ UNCHANGED <<status, token, hold>>
           \/ CommitEffect(p, Current(p)) /\ (NextRow(p) \/ status'[Current(p)] = "sent"),
           pc[p] = "finish" \/ NextRow(p)
    PROVE  LeaseInv'
  <1>  USE DEF IInv
  <1>1. Current(p) \in hand[p] /\ Current(p) \in Rows  BY CurrentInHand
  <1>2. Lease \in Nat \ {0}  BY TimeAssumption
  <1>3. \A q \in Relays : spent'[q] < Lease
    <2>1. spent' = spent \/ spent' = [spent EXCEPT ![p] = 0]  BY DEF AfterRow, NextRow
    <2>2. spent \in [Relays -> Nat]  BY DEF TypeOK
    <2>3. \A q \in Relays : spent[q] < Lease  BY DEF LeaseInv
    <2>4. 0 < Lease  BY <1>2
    <2>  QED  BY <2>1, <2>2, <2>3, <2>4
  <1>4. ASSUME NEW r \in Rows, r # Current(p) \/ UNCHANGED <<status, token, hold>>
        PROVE  token'[r] = token[r] /\ status'[r] = status[r] /\ hold'[r] = hold[r]
    BY <1>1, <1>4 DEF CommitEffect, TypeOK
  <1>5. ASSUME Timely, NEW q \in Relays, q # p, NEW r \in hand'[q]
        PROVE  Covered(q, r)' \/ SentUntold(q, r)'
    <2>1. hand'[q] = hand[q] /\ pc'[q] = pc[q] /\ tok'[q] = tok[q] /\ spent'[q] = spent[q]
      BY <1>5 DEF AfterRow, NextRow, TypeOK
    <2>2. r \in hand[q] /\ r \in Rows /\ (Covered(q, r) \/ SentUntold(q, r))
      BY <1>5, <2>1 DEF LeaseInv, TypeOK
    <2>3. token'[r] = token[r] /\ status'[r] = status[r] /\ hold'[r] = hold[r]
      <3>1. CASE UNCHANGED <<status, token, hold>>  BY <1>4, <2>2, <3>1
      <3>2. CASE CommitEffect(p, Current(p))
        <4>1. token[Current(p)] = tok[p]  BY <3>2 DEF CommitEffect
        <4>2. r # Current(p)  BY <1>5, <2>2, <4>1, CoverFenced
        <4>  QED  BY <1>4, <2>2, <4>2
      <3>  QED  BY <3>1, <3>2
    <2>  QED  BY <2>1, <2>2, <2>3, CoverKept
  <1>6. ASSUME Timely, NEW r \in hand'[p] PROVE Covered(p, r)' \/ SentUntold(p, r)'
    <2>1. CASE NextRow(p)
      <3>1. r \in Rows /\ r # Current(p)  BY <1>6, <2>1 DEF NextRow, TypeOK
      <3>2. token'[r] = token[r] /\ status'[r] = status[r] /\ hold'[r] = hold[r]  BY <1>4, <3>1
      <3>  QED  BY <1>6, <2>1, <3>2, NextRowCovered
    <2>2. CASE ~NextRow(p)
      <3>1. /\ hand' = hand /\ pc' = pc /\ tok' = tok /\ spent' = spent /\ pc[p] = "finish"
        BY <2>2 DEF AfterRow
      <3>2. r \in hand[p] /\ r \in Rows /\ (Covered(p, r) \/ SentUntold(p, r))
        BY <1>6, <3>1 DEF LeaseInv, TypeOK
      <3>3. CASE r # Current(p) \/ UNCHANGED <<status, token, hold>>
        BY <1>4, <3>1, <3>2, <3>3, CoverKept
      <3>4. CASE r = Current(p) /\ ~UNCHANGED <<status, token, hold>>
        <4>1. status'[r] = "sent"  BY <2>2, <3>4
        <4>2. r = Current(p)' /\ pc'[p] = "finish"  BY <3>1, <3>4 DEF Current
        <4>  QED  BY <4>1, <4>2 DEF SentUntold
      <3>  QED  BY <3>3, <3>4
    <2>  QED  BY <2>1, <2>2
  <1>  QED  BY <1>3, <1>5, <1>6 DEF LeaseInv

\* A claim takes only rows that no relay has covered, and covers them.
LEMMA ClaimCovers ==
    ASSUME IInv, LeaseInv, NEW p \in Relays, Claim(p)
    PROVE  LeaseInv'
  <1>  USE DEF IInv
  <1>1. PICK skipped \in SUBSET MaybeLocked, t \in Tokens \ TokenInUse :
            StampLeases(p, FirstOf((Due \cap Rows) \ (skipped \cup {})), t, Abandoned \cup {})
    BY DEF Claim, ClaimRows
  <1>2. PICK batch \in SUBSET Due : batch = FirstOf((Due \cap Rows) \ (skipped \cup {}))
    BY DEF FirstOf
  <1>3. /\ status' = [r \in Rows |-> IF r \in Abandoned THEN "failed" ELSE status[r]]
        /\ token' = [r \in Rows |-> IF r \in Abandoned THEN NoToken
                                    ELSE IF r \in batch THEN t ELSE token[r]]
        /\ hold' = [r \in Rows |-> IF r \in Abandoned THEN 0
                                   ELSE IF r \in batch THEN HoldFor(batch) ELSE hold[r]]
        /\ hand' = [hand EXCEPT ![p] = batch]
        /\ pc' = [pc EXCEPT ![p] = IF batch = {} THEN "idle" ELSE "renew"]
        /\ tok' = [tok EXCEPT ![p] = IF batch = {} THEN NoToken ELSE t]
        /\ spent' = spent
    <2>1. StampLeases(p, batch, t, Abandoned)
      <3>1. Abandoned \cup {} = Abandoned  OBVIOUS
      <3>  QED  BY <1>1, <1>2, <3>1
    <2>2. \A r \in batch : r \notin Abandoned
      <3>1. \A r \in batch : r \in Rows /\ attempts[r] < MaxAttempts  BY DEF Due
      <3>  QED  BY <3>1, AttemptsAssumption DEF Abandoned, TypeOK
    <2>  QED  BY <2>1, <2>2 DEF StampLeases, SpendAttempt, StampToken, StampHold, history
  <1>4. batch \in SUBSET Rows /\ \A r \in batch :
            status[r] = "pending" /\ r \notin Abandoned /\ hold[r] = 0
    <2>1. \A r \in batch : r \in Rows /\ attempts[r] < MaxAttempts /\ status[r] = "pending" /\ hold[r] = 0
      BY DEF Due, NotLeased
    <2>2. \A r \in batch : ~(attempts[r] >= MaxAttempts)
      BY <2>1, AttemptsAssumption DEF TypeOK
    <2>  QED  BY <2>1, <2>2 DEF Abandoned
  <1>5. \A q \in Relays : spent'[q] < Lease  BY <1>3 DEF LeaseInv
  <1>6. ASSUME Timely, NEW q \in Relays, q # p, NEW r \in hand'[q]
        PROVE  Covered(q, r)' \/ SentUntold(q, r)'
    <2>1. hand'[q] = hand[q] /\ pc'[q] = pc[q] /\ tok'[q] = tok[q] /\ spent'[q] = spent[q]
      BY <1>3, <1>6 DEF TypeOK
    <2>2. r \in hand[q] /\ r \in Rows /\ (Covered(q, r) \/ SentUntold(q, r))
      BY <1>6, <2>1 DEF LeaseInv, TypeOK
    <2>3. r \notin batch /\ r \notin Abandoned
      <3>1. CASE Covered(q, r)
        <4>1. hold[r] > 0 /\ hold[r] # 0  BY <2>2, <3>1, CoveredIsLive
        <4>  QED  BY <1>4, <4>1 DEF Abandoned, NotLeased
      <3>2. CASE SentUntold(q, r)  BY <1>4, <3>2 DEF SentUntold, Abandoned
      <3>  QED  BY <2>2, <3>1, <3>2
    <2>  QED  BY <1>3, <2>1, <2>2, <2>3, CoverKept
  <1>7. ASSUME NEW r \in hand'[p] PROVE Covered(p, r)'
    <2>1. hand'[p] = batch /\ r \in batch /\ tok'[p] = t /\ r \in Rows /\ r \notin Abandoned
      BY <1>3, <1>4, <1>7 DEF TypeOK
    <2>2. token'[r] = t /\ status'[r] = "pending" /\ hold'[r] = HoldFor(batch)
      BY <1>3, <1>4, <2>1
    <2>3. IsFiniteSet(batch)  BY <1>4, RowsAssumption, FS_Subset
    <2>4. PICK n \in Nat : n = Cardinality(batch)  BY <2>3, FS_CardinalityType
    <2>5. n # 0  BY <2>1, <2>3, <2>4, FS_EmptySet
    <2>6. Lease \in Nat /\ spent[p] \in Nat  BY TimeAssumption DEF TypeOK
    <2>7. n * Lease = (n - 1) * Lease + Lease /\ (n - 1) * Lease \in Nat  BY <2>5, <2>6
    <2>8. HoldFor(batch) = n * Lease  BY <2>4 DEF HoldFor
    <2>9. hold'[r] + spent'[p] >= n * Lease /\ hold'[r] + spent'[p] >= Lease
      BY <1>3, <2>2, <2>6, <2>7, <2>8
    <2>  QED  BY <2>1, <2>2, <2>4, <2>9 DEF Covered, HoldsLease
  <1>  QED  BY <1>5, <1>6, <1>7 DEF LeaseInv

\* A renewal gives the current row a lease, and touches no other.
LEMMA RenewCovers ==
    ASSUME IInv, LeaseInv, NEW p \in Relays, RenewLease(p)
    PROVE  LeaseInv'
  <1>  USE DEF IInv
  <1>1. Current(p) \in hand[p] /\ Current(p) \in Rows  BY CurrentInHand DEF RenewLease
  <1>2. /\ pc[p] = "renew" /\ token[Current(p)] = tok[p]
        /\ hold' = [hold EXCEPT ![Current(p)] = Lease] /\ pc' = [pc EXCEPT ![p] = "deliver"]
        /\ UNCHANGED <<status, token, hand, tok, spent>>
    BY DEF RenewLease, HoldsLease
  <1>3. ASSUME Timely, NEW q \in Relays, NEW r \in hand[q], q # p \/ r # Current(p)
        PROVE  Covered(q, r)' \/ SentUntold(q, r)'
    <2>1. Covered(q, r) \/ SentUntold(q, r)  BY <1>3 DEF LeaseInv
    <2>2. r # Current(p)  BY <1>2, <1>3, <2>1, CoverFenced
    <2>3. r \in Rows /\ hold'[r] = hold[r]  BY <1>2, <2>2 DEF TypeOK
    <2>4. CASE Covered(q, r)
      <3>1. Current(q)' = Current(q)  BY <1>2 DEF Current
      <3>  QED  BY <1>2, <2>3, <2>4, <3>1 DEF Covered, HoldsLease
    <2>5. CASE SentUntold(q, r)
      <3>1. q # p  BY <1>2, <2>5 DEF SentUntold
      <3>2. pc'[q] = pc[q]  BY <1>2, <3>1 DEF TypeOK
      <3>  QED  BY <1>2, <2>1, <2>3, <3>2, CoverKept
    <2>  QED  BY <2>1, <2>4, <2>5
  <1>4. ASSUME Timely PROVE Covered(p, Current(p))'
    <2>1. Current(p)' = Current(p)  BY <1>2 DEF Current
    <2>2. Covered(p, Current(p))  BY <1>1, <1>2, <1>4 DEF LeaseInv, SentUntold
    <2>3. hold'[Current(p)] = Lease /\ spent[p] \in Nat /\ Lease \in Nat
      BY <1>1, <1>2, TimeAssumption DEF TypeOK
    <2>4. hold'[Current(p)] + spent'[p] >= Lease  BY <1>2, <2>3
    <2>  QED  BY <1>2, <2>1, <2>2, <2>4 DEF Covered, HoldsLease
  <1>5. \A r \in hand[p] : r = Current(p) => r = Current(p)'  BY <1>2 DEF Current
  <1>  QED  BY <1>2, <1>3, <1>4, <1>5 DEF LeaseInv

\* deliver() returns: its relay goes on to the finish, with what it holds.
LEMMA DeliverCovers ==
    ASSUME IInv, LeaseInv, NEW p \in Relays, NEW o \in Outcomes, DeliverReturns(p, o)
    PROVE  LeaseInv'
  <1>1. /\ pc[p] = "deliver" /\ pc' = [pc EXCEPT ![p] = "finish"]
        /\ UNCHANGED <<status, token, hold, hand, tok, spent>>
    BY DEF DeliverReturns, table
  <1>2. ASSUME Timely, NEW q \in Relays, NEW r \in hand[q]
        PROVE  Covered(q, r)' \/ SentUntold(q, r)'
    <2>1. Current(q)' = Current(q)  BY <1>1 DEF Current
    <2>2. CASE Covered(q, r)  BY <1>1, <2>1, <2>2 DEF Covered, HoldsLease
    <2>3. CASE SentUntold(q, r)
      <3>1. pc'[q] = "finish"  BY <1>1, <2>3 DEF SentUntold, IInv, TypeOK
      <3>  QED  BY <1>1, <2>1, <2>3, <3>1 DEF SentUntold
    <2>  QED  BY <1>2, <2>2, <2>3 DEF LeaseInv
  <1>  QED  BY <1>1, <1>2 DEF LeaseInv

\* A row that is enqueued is in nobody's batch.
LEMMA EnqueueCovers ==
    ASSUME IInv, LeaseInv, NEW s \in Rows, Enqueue(s)
    PROVE  LeaseInv'
  <1>1. /\ status[s] = "absent" /\ status' = [status EXCEPT ![s] = "pending"]
        /\ UNCHANGED <<token, hold, pc, hand, tok, spent>>
    BY DEF Enqueue, memory
  <1>2. ASSUME Timely, NEW q \in Relays, NEW r \in hand[q]
        PROVE  Covered(q, r)' \/ SentUntold(q, r)'
    <2>1. r # s  BY <1>1 DEF IInv, PassShape
    <2>2. status'[r] = status[r]  BY <1>1, <2>1 DEF IInv, TypeOK
    <2>3. Covered(q, r) \/ SentUntold(q, r)  BY <1>2 DEF LeaseInv
    <2>  QED  BY <1>1, <2>2, <2>3, CoverKept
  <1>  QED  BY <1>1, <1>2 DEF LeaseInv

\* A process that dies gives its cover up, and only its own.
LEMMA CrashCovers ==
    ASSUME IInv, LeaseInv, NEW p \in Relays, Crash(p)
    PROVE  LeaseInv'
  <1>1. /\ hand' = [hand EXCEPT ![p] = {}] /\ pc' = [pc EXCEPT ![p] = "idle"]
        /\ tok' = [tok EXCEPT ![p] = NoToken] /\ spent' = [spent EXCEPT ![p] = 0]
        /\ UNCHANGED <<status, token, hold>>
    BY DEF Crash, table
  <1>2. \A q \in Relays : spent'[q] < Lease
    <2>1. spent \in [Relays -> Nat] /\ 0 < Lease  BY TimeAssumption DEF IInv, TypeOK
    <2>2. \A q \in Relays : spent[q] < Lease  BY DEF LeaseInv
    <2>  QED  BY <1>1, <2>1, <2>2
  <1>3. ASSUME Timely, NEW q \in Relays, NEW r \in hand'[q]
        PROVE  Covered(q, r)' \/ SentUntold(q, r)'
    <2>1. q # p  BY <1>1 DEF IInv, TypeOK
    <2>2. hand'[q] = hand[q] /\ pc'[q] = pc[q] /\ tok'[q] = tok[q] /\ spent'[q] = spent[q]
      BY <1>1, <2>1 DEF IInv, TypeOK
    <2>3. r \in hand[q] /\ (Covered(q, r) \/ SentUntold(q, r))  BY <1>3, <2>2 DEF LeaseInv
    <2>  QED  BY <1>1, <2>2, <2>3, CoverKept
  <1>  QED  BY <1>2, <1>3 DEF LeaseInv

\* A tick takes from a lease what it adds to the time spent.
LEMMA TickCovers ==
    ASSUME IInv, LeaseInv, Tick
    PROVE  LeaseInv'
  <1>1. /\ hold' = [r \in Rows |-> Larger(hold[r] - 1, 0)]
        /\ spent' = [p \in Relays |-> IF Timely /\ hand[p] # {} THEN spent[p] + 1 ELSE 0]
        /\ Timely => \A p \in Relays : hand[p] # {} => spent[p] + 1 < Lease
        /\ UNCHANGED <<status, token, pc, hand, tok>>
    BY DEF Tick
  <1>2. \A q \in Relays : spent'[q] < Lease
    <2>1. 0 < Lease  BY TimeAssumption
    <2>  QED  BY <1>1, <2>1
  <1>3. ASSUME Timely, NEW q \in Relays, NEW r \in hand[q]
        PROVE  Covered(q, r)' \/ SentUntold(q, r)'
    <2>1. Current(q)' = Current(q)  BY <1>1 DEF Current
    <2>2. CASE Covered(q, r)
      <3>1. hold[r] > 0 /\ r \in Rows  BY <2>2, CoveredIsLive DEF IInv
      <3>2. hold[r] \in Nat /\ spent[q] \in Nat  BY <3>1 DEF IInv, TypeOK
      <3>3. hold'[r] = hold[r] - 1  BY <1>1, <3>1, <3>2 DEF Larger
      <3>4. spent'[q] = spent[q] + 1  BY <1>1, <1>3
      <3>5. hold'[r] + spent'[q] = hold[r] + spent[q]  BY <3>2, <3>3, <3>4
      <3>  QED  BY <1>1, <2>1, <2>2, <3>5 DEF Covered, HoldsLease
    <2>3. CASE SentUntold(q, r)  BY <1>1, <2>1, <2>3 DEF SentUntold
    <2>  QED  BY <1>3, <2>2, <2>3 DEF LeaseInv
  <1>  QED  BY <1>1, <1>2, <1>3 DEF LeaseInv

\* A finish that committed: the row is given up, or it was sent and its relay
\* was not told.
LEMMA FinishCovers ==
    ASSUME IInv, LeaseInv, NEW p \in Relays, Finish(p) \/ FinishUnacknowledged(p)
    PROVE  LeaseInv'
  <1>1. pc[p] = "finish" /\ Commit(p) /\ (NextRow(p) \/ AfterFinishError(p))
    BY DEF Finish, FinishUnacknowledged
  <1>2. AfterRow(p)  BY <1>1, AfterFinishErrorIsAfterRow DEF AfterRow
  <1>3. CommitEffect(p, Current(p))  BY <1>1, CommitHasEffect
  <1>4. NextRow(p) \/ status'[Current(p)] = "sent"
    <2>  SUFFICES ASSUME ~NextRow(p) PROVE status'[Current(p)] = "sent"  OBVIOUS
    <2>1. outcome[p] = "ok"  BY <1>1 DEF AfterFinishError
    <2>2. CommitSent(p)  BY <1>1, <2>1 DEF Commit, CommitFail, CommitDefer
    <2>3. status' = [status EXCEPT ![Current(p)] = "sent"]  BY <2>2 DEF CommitSent, FinishRow
    <2>4. Current(p) \in Rows  BY <1>1, CurrentInHand DEF IInv
    <2>  QED  BY <2>3, <2>4 DEF IInv, TypeOK
  <1>5. pc[p] # "idle"  BY <1>1
  <1>  QED  BY <1>1, <1>2, <1>3, <1>4, <1>5, RowDoneCovered

\* A row that is given up without a write.
LEMMA SkipCovers ==
    ASSUME IInv, LeaseInv, NEW p \in Relays,
           RenewLost(p) \/ RenewError(p) \/ FinishLost(p) \/ FinishError(p)
    PROVE  LeaseInv'
  <1>1. pc[p] # "idle" /\ (pc[p] = "finish" \/ NextRow(p)) /\ UNCHANGED <<status, token, hold>>
    BY DEF RenewLost, RenewError, FinishLost, FinishError, table
  <1>2. AfterRow(p)
    BY AfterFinishErrorIsAfterRow DEF RenewLost, RenewError, FinishLost, FinishError, AfterRow
  <1>  QED  BY <1>1, <1>2, RowDoneCovered

\* Every step of the relay keeps every batch covered.
LEMMA NextLeaseInv == IInv /\ LeaseInv /\ [Next]_vars => LeaseInv'
  <1>  SUFFICES ASSUME IInv, LeaseInv, [Next]_vars PROVE LeaseInv'  OBVIOUS
  <1>1. ASSUME NEW r \in Rows, Enqueue(r) PROVE LeaseInv'  BY <1>1, EnqueueCovers
  <1>2. ASSUME NEW p \in Relays, Claim(p) PROVE LeaseInv'  BY <1>2, ClaimCovers
  <1>3. ASSUME NEW p \in Relays, RenewLease(p) PROVE LeaseInv'  BY <1>3, RenewCovers
  <1>4. ASSUME NEW p \in Relays,
               RenewLost(p) \/ RenewError(p) \/ FinishLost(p) \/ FinishError(p)
        PROVE  LeaseInv'
    BY <1>4, SkipCovers
  <1>5. ASSUME NEW p \in Relays, NEW o \in Outcomes, DeliverReturns(p, o) PROVE LeaseInv'
    BY <1>5, DeliverCovers
  <1>6. ASSUME NEW p \in Relays, Finish(p) \/ FinishUnacknowledged(p) PROVE LeaseInv'
    BY <1>6, FinishCovers
  <1>7. ASSUME NEW p \in Relays, Crash(p) PROVE LeaseInv'  BY <1>7, CrashCovers
  <1>8. CASE Tick  BY <1>8, TickCovers
  <1>9. CASE UNCHANGED vars
    BY <1>9 DEF vars, LeaseInv, Covered, SentUntold, HoldsLease, Current
  <1>10. ASSUME NEW p \in Relays, ClaimThrows(p) PROVE LeaseInv'
    BY <1>10 DEF ClaimThrows, table, LeaseInv, Covered, SentUntold, HoldsLease, Current
  <1>  QED
    BY <1>1, <1>2, <1>3, <1>4, <1>5, <1>6, <1>7, <1>8, <1>9, <1>10 DEF Next, RelayStep

\* Initially nothing is held and no time was spent.
LEMMA InitLeaseInv == Init => LeaseInv
  BY TimeAssumption DEF Init, LeaseInv

\* When every row is handled within its own lease, no relay finds that a row
\* of its batch was taken: the claim holds a batch of n rows for n leases,
\* and the renewal hands each row a whole one when its turn comes.
THEOREM LeasesCoverWork == Spec => []LeaseCoversWork
  <1>1. ASSUME IInv, LeaseInv PROVE LeaseCoversWork
    <2>  SUFFICES ASSUME Timely, NEW p \in Relays, NEW r \in hand[p]
                  PROVE  \/ HoldsLease(p, r) /\ hold[r] > 0 /\ status[r] = "pending"
                         \/ status[r] = "sent" /\ r = Current(p) /\ pc[p] = "finish"
      BY DEF LeaseCoversWork
    <2>1. CASE Covered(p, r)
      <3>1. hold[r] > 0  BY <1>1, <2>1, CoveredIsLive DEF IInv
      <3>  QED  BY <2>1, <3>1 DEF Covered
    <2>2. CASE SentUntold(p, r)  BY <2>2 DEF SentUntold
    <2>  QED  BY <1>1, <2>1, <2>2 DEF LeaseInv
  <1>  QED  BY <1>1, InitLeaseInv, NextLeaseInv, Invariance, PTL DEF Spec

=============================================================================
