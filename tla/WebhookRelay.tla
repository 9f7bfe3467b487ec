---------------------------- MODULE WebhookRelay ----------------------------
(***************************************************************************)
(* One webhook subscription, its deliveries and the relays that POST them: *)
(* libs/modules/webhooks (webhook-relay.service.ts, webhooks.service.ts)   *)
(* on top of the claims and leases of AbstractOutboxRelay, and             *)
(* webhook-enqueue.service.ts, which fans an event out.                    *)
(*                                                                         *)
(* OutboxRelay models the leases in full.  Here a claim is one transaction *)
(* (reap, expire, select, stamp), a relay works on one delivery at a time, *)
(* and a back-off is the time in which no claim picks the delivery.        *)
(***************************************************************************)
EXTENDS Naturals, FiniteSets

CONSTANTS
    Deliveries,
    Senders,         \* relays, one per worker process
    Nobody,
    MaxDeliveries,   \* maxAttempts
    ExpirePerClaim,
    MaxManualRetries \* bound: calls of retryDelivery

ASSUME WebhookAssumption ==
    /\ MaxDeliveries \in Nat \ {0} /\ ExpirePerClaim \in Nat \ {0}
    /\ MaxManualRetries \in Nat
    /\ Nobody \notin Senders

VARIABLES
    hookStatus,   \* status of each delivery; "none" before, "gone" after its row
    hookAttempts,
    overAge,      \* created_at is before now() - WEBHOOK_DELIVERY_MAX_AGE_HOURS
    holder,       \* lease_token: the relay whose claim stamped it
    leaseLive,    \* locked_until > now()
    subscription, \* "active", "inactive" or "deleted"
    sender,       \* the memory of each relay
    manualRetries,
    owed          \* history: failed deliveries retried by hand and not claimed since

hookVars == <<hookStatus, hookAttempts, overAge, holder, leaseLive, subscription,
              sender, manualRetries, owed>>

IdleSender == [at |-> "idle"]

WebhookTypeOK ==
    /\ hookStatus \in [Deliveries -> {"none", "pending", "delivered", "failed", "gone"}]
    /\ hookAttempts \in [Deliveries -> 0 .. MaxDeliveries]
    /\ overAge \in SUBSET Deliveries /\ leaseLive \in SUBSET Deliveries /\ owed \in SUBSET Deliveries
    /\ holder \in [Deliveries -> Senders \cup {Nobody}]
    /\ subscription \in {"active", "inactive", "deleted"}
    /\ sender \in [Senders -> {IdleSender} \cup
          [at : {"claimed", "posting", "accepted", "refused"}, row : Deliveries]]
    /\ manualRetries \in 0 .. MaxManualRetries

WebhookInit ==
    /\ hookStatus = [d \in Deliveries |-> "none"]
    /\ hookAttempts = [d \in Deliveries |-> 0]
    /\ overAge = {} /\ leaseLive = {} /\ owed = {}
    /\ holder = [d \in Deliveries |-> Nobody]
    /\ subscription = "active"
    /\ sender = [w \in Senders |-> IdleSender]
    /\ manualRetries = 0

-----------------------------------------------------------------------------
(* The API                                                                 *)

Fanout(d) ==
    /\ subscription = "active" /\ hookStatus[d] = "none"
    /\ hookStatus' = [hookStatus EXCEPT ![d] = "pending"]
    /\ UNCHANGED <<hookAttempts, overAge, holder, leaseLive, subscription, sender, manualRetries, owed>>

SetActive(on) ==
    /\ subscription # "deleted"
    /\ subscription' = IF on THEN "active" ELSE "inactive"
    /\ UNCHANGED <<hookStatus, hookAttempts, overAge, holder, leaseLive, sender, manualRetries, owed>>

\* The deliveries of a deleted subscription go with it (ON DELETE CASCADE).
DeleteSubscription ==
    /\ subscription # "deleted"
    /\ subscription' = "deleted"
    /\ hookStatus' = [d \in Deliveries |-> IF hookStatus[d] = "none" THEN "none" ELSE "gone"]
    /\ holder' = [d \in Deliveries |-> Nobody]
    /\ leaseLive' = {} /\ owed' = {} /\ overAge' = {}
    /\ UNCHANGED <<hookAttempts, sender, manualRetries>>

\* Whatever its status, the delivery is pending again; attempts, created_at
\* and the lease stay as they are.
RetryDelivery(d) ==
    /\ hookStatus[d] \in {"pending", "delivered", "failed"}
    /\ manualRetries < MaxManualRetries
    /\ hookStatus' = [hookStatus EXCEPT ![d] = "pending"]
    /\ owed' = IF hookStatus[d] = "failed" THEN owed \cup {d} ELSE owed
    /\ manualRetries' = manualRetries + 1
    /\ UNCHANGED <<hookAttempts, overAge, holder, leaseLive, subscription, sender>>

-----------------------------------------------------------------------------
(* A claim                                                                 *)

PendingUnleased == {d \in Deliveries : hookStatus[d] = "pending" /\ d \notin leaseLive}

\* Fault: a delivery is given up one attempt too late.
Reaped_OffByOne == {d \in PendingUnleased : hookAttempts[d] > MaxDeliveries}

\* reapAbandoned
Reaped == {d \in PendingUnleased : hookAttempts[d] >= MaxDeliveries}

\* Fault: only the deliveries of an active subscription expire.
Expirable_OfActive ==
    {d \in PendingUnleased \ Reaped : d \in overAge /\ subscription = "active"}

\* beforeSelect: the over-age deliveries; what is reaped is not pending any more.
Expirable == {d \in PendingUnleased \ Reaped : d \in overAge}

SelectDue(expired) ==
    {d \in PendingUnleased \ (Reaped \cup expired) :
        subscription = "active" /\ d \notin overAge}

\* Fault: an expired delivery keeps its lease_token.
Fenced_Open(expired, chosen, w) ==
    [d \in Deliveries |-> IF d \in chosen THEN w
                          ELSE IF d \in Reaped THEN Nobody ELSE holder[d]]

Fenced(expired, chosen, w) ==
    [d \in Deliveries |-> IF d \in chosen THEN w
                          ELSE IF d \in Reaped \cup expired THEN Nobody ELSE holder[d]]

ClaimDeliveries(w, expired, chosen) ==
    /\ hookStatus' = [d \in Deliveries |->
          IF d \in Reaped \cup expired THEN "failed" ELSE hookStatus[d]]
    /\ hookAttempts' = [d \in Deliveries |-> IF d \in chosen THEN hookAttempts[d] + 1 ELSE hookAttempts[d]]
    /\ holder' = Fenced(expired, chosen, w)
    /\ leaseLive' = (leaseLive \cup chosen) \ (Reaped \cup expired)
    /\ sender' = [sender EXCEPT ![w] =
          IF chosen = {} THEN IdleSender
          ELSE [at |-> "claimed", row |-> CHOOSE d \in chosen : TRUE]]
    /\ owed' = owed \ chosen
    /\ UNCHANGED <<overAge, subscription, manualRetries>>

\* A claim that finds nothing to do is no step.
ClaimHooks(w) ==
    /\ sender[w] = IdleSender
    /\ \E expired \in SUBSET Expirable :
          /\ Cardinality(expired) <= ExpirePerClaim
          /\ expired = Expirable \/ Cardinality(expired) = ExpirePerClaim
          /\ \E chosen \in {{}} \cup {{d} : d \in SelectDue(expired)} :
                /\ Reaped \cup expired \cup chosen # {}
                /\ ClaimDeliveries(w, expired, chosen)

-----------------------------------------------------------------------------
(* A delivery                                                              *)

RenewHook(w) ==
    LET d == sender[w].row IN
    /\ sender[w].at = "claimed"
    /\ IF holder[d] = w
       THEN /\ leaseLive' = leaseLive \cup {d}
            /\ sender' = [sender EXCEPT ![w].at = "posting"]
       ELSE /\ sender' = [sender EXCEPT ![w] = IdleSender]
            /\ UNCHANGED leaseLive
    /\ UNCHANGED <<hookStatus, hookAttempts, overAge, holder, subscription, manualRetries, owed>>

\* The POST is answered with success, or it fails (an unsafe target, a
\* timeout or another answer).
Posted(w, answer) ==
    /\ sender[w].at = "posting"
    /\ sender' = [sender EXCEPT ![w].at = answer]
    /\ UNCHANGED <<hookStatus, hookAttempts, overAge, holder, leaseLive, subscription, manualRetries, owed>>

\* markSent, markFailed
Recorded(w) ==
    IF sender[w].at = "accepted" THEN "delivered"
    ELSE IF hookAttempts[sender[w].row] >= MaxDeliveries THEN "failed" ELSE "pending"

FinishHook(w) ==
    LET d == sender[w].row IN
    /\ sender[w].at \in {"accepted", "refused"}
    /\ IF holder[d] = w
       THEN /\ hookStatus' = [hookStatus EXCEPT ![d] = Recorded(w)]
            /\ holder' = [holder EXCEPT ![d] = Nobody]
            /\ leaseLive' = leaseLive \ {d}
       ELSE UNCHANGED <<hookStatus, holder, leaseLive>>
    /\ sender' = [sender EXCEPT ![w] = IdleSender]
    /\ UNCHANGED <<hookAttempts, overAge, subscription, manualRetries, owed>>

\* The process dies, or what it would write fails; its lease stays.
SenderDies(w) ==
    /\ sender[w] # IdleSender
    /\ sender' = [sender EXCEPT ![w] = IdleSender]
    /\ UNCHANGED <<hookStatus, hookAttempts, overAge, holder, leaseLive, subscription, manualRetries, owed>>

LeaseLapses(d) ==
    /\ d \in leaseLive
    /\ leaseLive' = leaseLive \ {d}
    /\ UNCHANGED <<hookStatus, hookAttempts, overAge, holder, subscription, sender, manualRetries, owed>>

Ages(d) ==
    /\ hookStatus[d] \in {"pending", "delivered", "failed"} /\ d \notin overAge
    /\ overAge' = overAge \cup {d}
    /\ UNCHANGED <<hookStatus, hookAttempts, holder, leaseLive, subscription, sender, manualRetries, owed>>

SenderStep(w) == RenewHook(w) \/ FinishHook(w) \/ \E a \in {"accepted", "refused"} : Posted(w, a)

TimePasses == \E d \in Deliveries : LeaseLapses(d) \/ Ages(d)

\* Every ten seconds a relay claims; some relay ends what it began (fetch is
\* aborted after WEBHOOK_TIMEOUT_MS) or dies and is started again.
RelaysWork == \E w \in Senders : ClaimHooks(w) \/ SenderStep(w) \/ SenderDies(w)

WebhookNext ==
    \/ \E d \in Deliveries : Fanout(d) \/ RetryDelivery(d)
    \/ \E on \in BOOLEAN : SetActive(on)
    \/ DeleteSubscription
    \/ RelaysWork
    \/ TimePasses

WebhookSpec == WebhookInit /\ [][WebhookNext]_hookVars

\* Time passes, and the cron starts passes of the relays every few seconds.
\* This assumes that some process can still pass: one whose claim has thrown
\* with a pass queued behind it makes no more (RelayPass, ClaimThrows of
\* OutboxRelay), until it is restarted.
WebhookFairness == WF_hookVars(TimePasses) /\ WF_hookVars(RelaysWork)

-----------------------------------------------------------------------------
(* Properties                                                              *)

\* "a relay whose lease had lapsed and that is still running cannot write
\* `delivered` over `failed`": only retryDelivery and the deletion of the
\* subscription change a delivery that was expired, abandoned or given up.
FailedIsFinal ==
    [][\A d \in Deliveries :
          hookStatus[d] = "failed" /\ hookStatus'[d] # "failed" =>
             RetryDelivery(d) \/ hookStatus'[d] = "gone"]_hookVars

\* No delivery waits for ever: not behind a dead relay, not behind the cap on
\* expiry, and not behind a subscription that nobody switches on again.
EveryDeliveryEnds ==
    \A d \in Deliveries : hookStatus[d] = "pending" ~> hookStatus[d] # "pending"

\* "Manually retry a failed webhook delivery": a failed delivery that was
\* retried is attempted before it is given up again.
RetryIsAttempted == \A d \in owed : hookStatus[d] # "failed"
=============================================================================
