---------------------------- MODULE OutboxRelay ----------------------------
(***************************************************************************)
(* The shared relay of every transactional outbox of OpsHub (email,        *)
(* notifications, webhooks, Graph tasks):                                  *)
(* libs/platform/src/outbox/abstract-outbox-relay.ts.                      *)
(*                                                                         *)
(* Several worker processes ("relays") drain one table.  A pass claims a   *)
(* batch in one short transaction (spending an attempt and stamping a      *)
(* lease), delivers each row with no transaction open, and finishes each   *)
(* row in a second transaction fenced by the lease token.  A process may   *)
(* die at any point, a database call may fail, a commit may succeed        *)
(* without its caller learning of it, and a delivery may outlive its       *)
(* lease.                                                                  *)
(*                                                                         *)
(* Time is the database's clock, kept as what is left of each interval:    *)
(* hold[r] is the time until locked_until (0: null or lapsed) and dueIn[r] *)
(* the time until scheduled_at (0: due).  The code compares those columns  *)
(* with now() only, so the differences are all it can observe.             *)
(***************************************************************************)
EXTENDS Integers, FiniteSets

CONSTANTS
    Rows,          \* outbox rows, named by their `seq` (the claim order)
    Relays,        \* worker processes, each running one pass at a time
    Tokens,        \* lease tokens (randomUUID)
    NoToken,       \* lease_token IS NULL
    MaxAttempts,   \* AbstractOutboxRelay.maxAttempts
    BatchSize,     \* AbstractOutboxRelay.batchSize
    Lease,         \* leaseMsFor(row), in clock ticks
    BackoffCap,    \* the cap of backoffDelayMs, in ticks
    MaxHint,       \* MAX_RETRY_AFTER_MS, in ticks
    MaxDefers,     \* bound: how often one row can be deferred
    Timely         \* TRUE: a row is handled within its lease (see Tick)

ASSUME RowsAssumption     == Rows \subseteq Nat /\ IsFiniteSet(Rows)
ASSUME RelaysAssumption   == IsFiniteSet(Relays)
ASSUME TokenAssumption    == NoToken \notin Tokens
ASSUME AttemptsAssumption == MaxAttempts \in Nat \ {0} /\ BatchSize \in Nat \ {0}
ASSUME TimeAssumption     == /\ Lease \in Nat \ {0}
                             /\ BackoffCap \in Nat /\ MaxHint \in Nat
                             /\ MaxDefers \in Nat
                             /\ Timely \in BOOLEAN

VARIABLES
    \* The outbox table.
    status,        \* "absent" before the enqueueing transaction commits
    attempts,
    token,         \* lease_token
    hold,          \* locked_until - now(), 0 when null or lapsed
    dueIn,         \* scheduled_at - now(), 0 when due
    \* The memory of each worker process: lost by a crash.
    pc,            \* "idle" | "renew" | "deliver" | "finish"
    hand,          \* the rows of the claimed batch not yet handled
    tok,           \* Claimed.leaseToken, one per claim
    att,           \* Claimed.attempts, as the claim returned them
    outcome,       \* what deliver() returned or threw
    spent,         \* ticks since this row's turn came (kept if Timely)
    wedged,        \* the processes whose passes have stopped (see ClaimThrows)
    \* History, read by properties only.
    deliveries,    \* how often deliver(row) was started
    refunds,       \* how many attempts were given back
    accepted,      \* some delivery of the row succeeded
    settled        \* how often the writes of settle() were committed

table   == <<status, attempts, token, hold, dueIn>>
memory  == <<pc, hand, tok, att, outcome, spent, wedged>>
history == <<deliveries, refunds, accepted, settled>>
vars    == <<status, attempts, token, hold, dueIn,
             pc, hand, tok, att, outcome, spent, wedged,
             deliveries, refunds, accepted, settled>>

Terminal == {"sent", "failed"}

\* What deliver() can do: resolve, throw an ordinary error, throw one of the
\* three special errors, as fail() tells them apart.
Outcomes == {"ok", "error", "nonRetryable", "retryAfter", "defer"}

TypeOK ==
    /\ status \in [Rows -> {"absent", "pending"} \cup Terminal]
    /\ attempts \in [Rows -> 0 .. MaxAttempts]
    /\ token \in [Rows -> Tokens \cup {NoToken}]
    /\ hold \in [Rows -> Nat]
    /\ dueIn \in [Rows -> Nat]
    /\ pc \in [Relays -> {"idle", "renew", "deliver", "finish"}]
    /\ hand \in [Relays -> SUBSET Rows]
    /\ tok \in [Relays -> Tokens \cup {NoToken}]
    /\ att \in [Relays -> [Rows -> 0 .. MaxAttempts]]
    /\ outcome \in [Relays -> Outcomes \cup {"none"}]
    /\ spent \in [Relays -> Nat]
    /\ wedged \in SUBSET Relays
    /\ deliveries \in [Rows -> Nat]
    /\ refunds \in [Rows -> 0 .. MaxDefers]
    /\ accepted \in [Rows -> BOOLEAN]
    /\ settled \in [Rows -> Nat]

Init ==
    /\ status = [r \in Rows |-> "absent"]
    /\ attempts = [r \in Rows |-> 0]
    /\ token = [r \in Rows |-> NoToken]
    /\ hold = [r \in Rows |-> 0]
    /\ dueIn = [r \in Rows |-> 0]
    /\ pc = [p \in Relays |-> "idle"]
    /\ hand = [p \in Relays |-> {}]
    /\ tok = [p \in Relays |-> NoToken]
    /\ att = [p \in Relays |-> [r \in Rows |-> 0]]
    /\ outcome = [p \in Relays |-> "none"]
    /\ spent = [p \in Relays |-> 0]
    /\ wedged = {}
    /\ deliveries = [r \in Rows |-> 0]
    /\ refunds = [r \in Rows |-> 0]
    /\ accepted = [r \in Rows |-> FALSE]
    /\ settled = [r \in Rows |-> 0]

-----------------------------------------------------------------------------
(* Helpers                                                                 *)

Least(S) == CHOOSE r \in S : \A s \in S : r <= s

Smaller(m, n) == IF m <= n THEN m ELSE n
Larger(m, n)  == IF m >= n THEN m ELSE n

\* The row whose turn it is: a batch is worked in the order it was selected.
Current(p) == Least(hand[p])

\* backoffDelayMs: doubling from one tick, capped.
Backoff(n) == Smaller(2 ^ (n - 1), BackoffCap)

\* notLeased: locked_until is null or has lapsed.
NotLeased(r) == hold[r] = 0

\* Fault: the finish and the renewal select the row by id alone.
HoldsLease_Unfenced(p, r) == TRUE

\* The row matches `WHERE id = $1 AND lease_token = $2` of relay p.
HoldsLease(p, r) == token[r] = tok[p]

\* Fault: a token is only compared with the ones on the rows.
TokenInUse_RowsOnly == {token[r] : r \in Rows}

\* A relay's token is fresh: no row carries it and no relay remembers it.
TokenInUse == {token[r] : r \in Rows} \cup {tok[q] : q \in Relays}

\* Relay p is done with its current row, for whatever reason: the loop of
\* runOncePass takes the next one, or the batch is over.
NextRow(p) ==
    LET rest == hand[p] \ {Current(p)} IN
    /\ hand' = [hand EXCEPT ![p] = rest]
    /\ pc' = [pc EXCEPT ![p] = IF rest = {} THEN "idle" ELSE "renew"]
    /\ tok' = [tok EXCEPT ![p] = IF rest = {} THEN NoToken ELSE @]
    /\ att' = [att EXCEPT ![p] = IF rest = {} THEN [r \in Rows |-> 0] ELSE @]
    /\ outcome' = [outcome EXCEPT ![p] = "none"]
    /\ spent' = [spent EXCEPT ![p] = 0]
    /\ UNCHANGED wedged

-----------------------------------------------------------------------------
(* A caller's transaction commits with an outbox row in it.                *)

Enqueue(r) ==
    /\ status[r] = "absent"
    /\ status' = [status EXCEPT ![r] = "pending"]
    /\ UNCHANGED <<attempts, token, hold, dueIn, memory, history>>

-----------------------------------------------------------------------------
(* claim(): one transaction that dead-letters the abandoned rows, runs     *)
(* beforeSelect, selects the due rows in seq order and leases them.        *)

\* Fault: nothing dead-letters the rows that spent their attempts.
Abandoned_Never == {}

\* reapAbandoned: every attempt spent and no live lease.
Abandoned == {r \in Rows : status[r] = "pending" /\ attempts[r] >= MaxAttempts
                                                 /\ NotLeased(r)}

\* Fault: a row is selected however many attempts it has had.
Due_NoBudget == {r \in Rows : status[r] = "pending" /\ dueIn[r] = 0 /\ NotLeased(r)}

\* selectDue of the base contract: pending, attempts left, due, not leased.
Due == {r \in Rows : status[r] = "pending" /\ attempts[r] < MaxAttempts
                     /\ dueIn[r] = 0 /\ NotLeased(r)}

\* FOR UPDATE SKIP LOCKED may pass over a row whose lapsed holder has its
\* renewal or its finish transaction open at this very moment.
MaybeLocked == {r \in Due : \E q \in Relays : r \in hand[q] /\ HoldsLease(q, r)}

\* ORDER BY seq LIMIT batchSize.
FirstOf(S) == {r \in S : Cardinality({s \in S : s < r}) < BatchSize}

\* Fault: the batch is held for one lease.
HoldFor_OneLease(batch) == Lease

\* The batch is worked one row after another, so it is held for the sum of
\* the leases of its rows.
HoldFor(batch) == Cardinality(batch) * Lease

\* Fault: a claim leaves the counter to whoever records the failure.
SpendAttempt_AtFinish(batch) == attempts

\* stampLeases: the attempt is spent here, not when the delivery ends.
SpendAttempt(batch) ==
    [r \in Rows |-> IF r \in batch THEN attempts[r] + 1 ELSE attempts[r]]

\* Fault: the reaper dead-letters a row and leaves its lease token in place.
StampToken_KeptByReaper(batch, t, gone) ==
    [r \in Rows |-> IF r \in batch THEN t ELSE token[r]]

StampToken(batch, t, gone) ==
    [r \in Rows |-> CASE r \in gone -> NoToken [] r \in batch -> t [] OTHER -> token[r]]

StampHold(batch, gone) ==
    [r \in Rows |-> CASE r \in gone -> 0 [] r \in batch -> HoldFor(batch) [] OTHER -> hold[r]]

\* The writes of a claim that dead-letters `gone` and takes `batch`.
StampLeases(p, batch, t, gone) ==
    /\ status' = [r \in Rows |-> IF r \in gone THEN "failed" ELSE status[r]]
    /\ attempts' = SpendAttempt(batch)
    /\ token' = StampToken(batch, t, gone)
    /\ hold' = StampHold(batch, gone)
    /\ hand' = [hand EXCEPT ![p] = batch]
    /\ pc' = [pc EXCEPT ![p] = IF batch = {} THEN "idle" ELSE "renew"]
    /\ tok' = [tok EXCEPT ![p] = IF batch = {} THEN NoToken ELSE t]
    /\ att' = [att EXCEPT ![p] = [r \in Rows |-> IF r \in batch THEN attempts[r] + 1 ELSE 0]]
    /\ UNCHANGED <<dueIn, outcome, spent, wedged, history>>

\* A claim of relay p whose beforeSelect dead-letters `expired` and whose
\* selectDue is restricted to `eligible`: the two hooks of the subclasses.
ClaimRows(p, expired, eligible) ==
    /\ pc[p] = "idle" /\ p \notin wedged
    /\ \E skipped \in SUBSET MaybeLocked, t \in Tokens \ TokenInUse :
          StampLeases(p, FirstOf((Due \cap eligible) \ (skipped \cup expired)), t,
                      Abandoned \cup expired)

Claim(p) == ClaimRows(p, {}, Rows)

\* The claim cannot reach the database while another pass is queued: the
\* queued promise is rejected with it and stays in inFlight, and relay() of
\* this process starts no pass any more (RelayPass, PassesKeepStarting).
\* A claim that throws with no pass queued leaves everything as it was; one
\* that committed and was not answered is a Claim and a Crash.
ClaimThrows(p) ==
    /\ pc[p] = "idle" /\ p \notin wedged
    /\ wedged' = wedged \cup {p}
    /\ UNCHANGED <<table, pc, hand, tok, att, outcome, spent, history>>

-----------------------------------------------------------------------------
(* handle(): renew the lease, deliver, finish.                             *)

\* renewLease succeeds iff the token still matches (a lapsed lease nobody
\* took is renewed); deliver(row) then starts, with no transaction open.
RenewLease(p) ==
    LET r == Current(p) IN
    /\ pc[p] = "renew"
    /\ HoldsLease(p, r)
    /\ hold' = [hold EXCEPT ![r] = Lease]
    /\ pc' = [pc EXCEPT ![p] = "deliver"]
    /\ deliveries' = [deliveries EXCEPT ![r] = @ + 1]
    /\ UNCHANGED <<status, attempts, token, dueIn, hand, tok, att, outcome, spent, wedged,
                   refunds, accepted, settled>>

\* The lease was lost, or the renewal threw: the row is skipped.
RenewLost(p) ==
    /\ pc[p] = "renew"
    /\ ~HoldsLease(p, Current(p))
    /\ NextRow(p)
    /\ UNCHANGED <<table, history>>

RenewError(p) ==
    /\ pc[p] = "renew"
    /\ NextRow(p)
    /\ UNCHANGED <<table, history>>

\* deliver(row) resolves or throws.
DeliverReturns(p, o) ==
    LET r == Current(p) IN
    /\ pc[p] = "deliver"
    /\ o = "defer" => refunds[r] < MaxDefers
    /\ pc' = [pc EXCEPT ![p] = "finish"]
    /\ outcome' = [outcome EXCEPT ![p] = o]
    /\ accepted' = [accepted EXCEPT ![r] = @ \/ o = "ok"]
    /\ UNCHANGED <<table, hand, tok, att, spent, wedged, deliveries, refunds, settled>>

\* The writes of the fenced transaction: the status write of the outcome and
\* releaseLease.  `wait` is what markFailed writes into scheduled_at.
FinishRow(p, newStatus, newAttempts, wait) ==
    LET r == Current(p) IN
    /\ status' = [status EXCEPT ![r] = newStatus]
    /\ attempts' = [attempts EXCEPT ![r] = newAttempts]
    /\ dueIn' = [dueIn EXCEPT ![r] = wait]
    /\ token' = [token EXCEPT ![r] = NoToken]
    /\ hold' = [hold EXCEPT ![r] = 0]

\* Fault: a row is marked sent although its delivery threw.
CommitSent_AnyOutcome(p) ==
    LET r == Current(p) IN
    /\ HoldsLease(p, r)
    /\ FinishRow(p, "sent", attempts[r], dueIn[r])
    /\ settled' = [settled EXCEPT ![r] = @ + 1]
    /\ UNCHANGED <<deliveries, refunds, accepted>>

\* settle + markSent.
CommitSent(p) ==
    LET r == Current(p) IN
    /\ outcome[p] = "ok"
    /\ HoldsLease(p, r)
    /\ FinishRow(p, "sent", attempts[r], dueIn[r])
    /\ settled' = [settled EXCEPT ![r] = @ + 1]
    /\ UNCHANGED <<deliveries, refunds, accepted>>

\* fail(): the status and the delay are computed from the attempts the claim
\* returned, not from the row.
FailDelay(p, hint) == Larger(hint, Backoff(att[p][Current(p)]))

CommitFail(p) ==
    LET r == Current(p)
        dead == outcome[p] = "nonRetryable" \/ att[p][r] >= MaxAttempts IN
    /\ outcome[p] \in {"error", "nonRetryable", "retryAfter"}
    /\ HoldsLease(p, r)
    /\ \E hint \in IF outcome[p] = "retryAfter" THEN {0, MaxHint} ELSE {0} :
          FinishRow(p, IF dead THEN "failed" ELSE "pending", attempts[r], FailDelay(p, hint))
    /\ UNCHANGED history

\* defer(): refundAttempt (GREATEST(attempts - 1, 0)) and back to pending.
CommitDefer(p) ==
    LET r == Current(p) IN
    /\ outcome[p] = "defer"
    /\ HoldsLease(p, r)
    /\ \E wait \in {0, MaxHint} : FinishRow(p, "pending", Larger(attempts[r] - 1, 0), wait)
    /\ refunds' = [refunds EXCEPT ![r] = @ + 1]
    /\ UNCHANGED <<deliveries, accepted, settled>>

Commit(p) == CommitSent(p) \/ CommitFail(p) \/ CommitDefer(p)

Finish(p) ==
    /\ pc[p] = "finish"
    /\ Commit(p)
    /\ NextRow(p)

\* The fence: another relay, or the reaper, took the row. Write nothing.
FinishLost(p) ==
    /\ pc[p] = "finish"
    /\ ~HoldsLease(p, Current(p))
    /\ NextRow(p)
    /\ UNCHANGED <<table, history>>

\* The finish transaction threw.  After a delivery that succeeded, handle()
\* turns the error into a failure of the row and finishes it again; a
\* failure or a deferral that cannot be recorded is left to the lease.
AfterFinishError(p) ==
    IF outcome[p] = "ok"
    THEN /\ outcome' = [outcome EXCEPT ![p] = "error"]
         /\ UNCHANGED <<pc, hand, tok, att, spent, wedged>>
    ELSE NextRow(p)

\* It threw and nothing was committed.
FinishError(p) ==
    /\ pc[p] = "finish"
    /\ AfterFinishError(p)
    /\ UNCHANGED <<table, history>>

\* It committed, and the connection dropped before the relay was told.
FinishUnacknowledged(p) ==
    /\ pc[p] = "finish"
    /\ Commit(p)
    /\ AfterFinishError(p)

-----------------------------------------------------------------------------
(* The environment.                                                        *)

\* The process dies and restarts with empty memory.  Its leases stay.
Crash(p) ==
    /\ pc[p] # "idle" \/ p \in wedged
    /\ pc' = [pc EXCEPT ![p] = "idle"]
    /\ hand' = [hand EXCEPT ![p] = {}]
    /\ tok' = [tok EXCEPT ![p] = NoToken]
    /\ att' = [att EXCEPT ![p] = [r \in Rows |-> 0]]
    /\ outcome' = [outcome EXCEPT ![p] = "none"]
    /\ spent' = [spent EXCEPT ![p] = 0]
    /\ wedged' = wedged \ {p}
    /\ UNCHANGED <<table, history>>

\* The database's clock advances.  If Timely, every row is handled within
\* the lease it is given ("Must exceed the longest `deliver` for the row"):
\* fewer than Lease ticks pass between a row's turn and its finish.
Tick ==
    /\ \E r \in Rows : hold[r] > 0 \/ dueIn[r] > 0
    /\ Timely => \A p \in Relays : hand[p] # {} => spent[p] + 1 < Lease
    /\ hold' = [r \in Rows |-> Larger(hold[r] - 1, 0)]
    /\ dueIn' = [r \in Rows |-> Larger(dueIn[r] - 1, 0)]
    /\ spent' = [p \in Relays |-> IF Timely /\ hand[p] # {} THEN spent[p] + 1 ELSE 0]
    /\ UNCHANGED <<status, attempts, token, pc, hand, tok, att, outcome, wedged, history>>

-----------------------------------------------------------------------------
RelayStep(p) ==
    \/ Claim(p) \/ ClaimThrows(p)
    \/ RenewLease(p) \/ RenewLost(p) \/ RenewError(p)
    \/ \E o \in Outcomes : DeliverReturns(p, o)
    \/ Finish(p) \/ FinishLost(p) \/ FinishError(p) \/ FinishUnacknowledged(p)

Next ==
    \/ \E r \in Rows : Enqueue(r)
    \/ \E p \in Relays : RelayStep(p) \/ Crash(p)
    \/ Tick

Spec == Init /\ [][Next]_vars

\* The cron calls relay() every few seconds in every worker that is not
\* wedged, the clock runs, and neither a delivery (each is bounded by its own
\* timeout) nor a database call hangs for ever.  Assumed of the database: a
\* process that can begin a claim again and again has one that does not throw
\* (hence strong fairness).  No process is assumed to be spared, or restarted
\* once it is wedged.
Fairness ==
    /\ WF_vars(Tick)
    /\ \A p \in Relays :
          /\ SF_vars(Claim(p))
          /\ WF_vars(RenewLease(p) \/ RenewLost(p))
          /\ WF_vars(\E o \in Outcomes : DeliverReturns(p, o))
          /\ WF_vars(Finish(p) \/ FinishLost(p))

FairSpec == Spec /\ Fairness

-----------------------------------------------------------------------------
(* Properties                                                              *)

\* The writes of settle() (the in-app notification, the follow-on email) are
\* committed exactly once for a row that ends as sent and never for another,
\* although the row may be delivered by several relays, a commit may go
\* unacknowledged and the reaper may take the row in mid-delivery.
SettledOnce ==
    \A r \in Rows : settled[r] = IF status[r] = "sent" THEN 1 ELSE 0

\* "The attempt is spent at claim time": no delivery is ever made that the
\* row's budget did not pay for, whoever crashed, lost its lease or deferred.
\* With attempts <= MaxAttempts it bounds how often a row can be delivered.
DeliveriesPaid ==
    \A r \in Rows : deliveries[r] <= attempts[r] + refunds[r]

\* fail() decides between retry and dead letter, and computes the backoff,
\* from the attempt count the claim returned minutes ago.  While the fence
\* lets the relay write, that count is still the row's, and the row is
\* still pending.
SnapshotCurrent ==
    \A p \in Relays : \A r \in hand[p] :
        HoldsLease(p, r) => attempts[r] = att[p][r] /\ status[r] = "pending"

\* A row that was sent or dead-lettered is out of reach of every relay: no
\* late finish, renewal or claim writes to it again.
TerminalIsFinal ==
    [][\A r \in Rows : status[r] \in Terminal =>
          /\ status'[r] = status[r]
          /\ attempts'[r] = attempts[r]
          /\ token'[r] = NoToken
          /\ settled'[r] = settled[r]]_vars

\* When every row is handled within its own lease (Timely), the hold of the
\* claim covers the wait behind the earlier rows of the batch: a relay never
\* finds that another relay, or the reaper, took a row it is still to
\* handle.  The one row it may hold without a lease is the row it has just
\* sent with a commit it was not told of.
LeaseCoversWork ==
    Timely => \A p \in Relays : \A r \in hand[p] :
        \/ HoldsLease(p, r) /\ hold[r] > 0 /\ status[r] = "pending"
        \/ status[r] = "sent" /\ r = Current(p) /\ pc[p] = "finish"

\* The relay implements the contract of the outbox: what it keeps of a row
\* beside the status and the two histories (attempts, token, hold, and the
\* memory of each worker) is hidden from the contract.
Contract == INSTANCE OutboxContract WITH
    Rows <- Rows, status <- status, accepted <- accepted, settled <- settled
ImplementsContract == Contract!Spec

\* "nothing sits pending forever": whatever crashes, errors and slow calls
\* occur, every enqueued row ends as sent or as failed, or there comes a time
\* when every process is wedged at once.  One process that still makes passes
\* is enough, even for the rows that a wedged or a dead one had leased.
EveryRowEnds ==
    \A r \in Rows : status[r] = "pending" ~> status[r] \in Terminal \/ wedged = Relays
=============================================================================
