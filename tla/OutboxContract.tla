--------------------------- MODULE OutboxContract ---------------------------
(***************************************************************************)
(* What a transactional outbox promises the code that enqueues into it,    *)
(* with leases, attempts, batches and clocks left out                      *)
(* (libs/platform/src/outbox/abstract-outbox-relay.ts, header): a row that *)
(* is committed is handed to the external system at least once before it   *)
(* counts as sent, the writes that go with "sent" are made exactly once,   *)
(* and a row ends as sent or as failed and stays so.                       *)
(***************************************************************************)
EXTENDS Naturals

CONSTANT Rows

VARIABLES status, accepted, settled

contractVars == <<status, accepted, settled>>

Init ==
    /\ status = [r \in Rows |-> "absent"]
    /\ accepted = [r \in Rows |-> FALSE]
    /\ settled = [r \in Rows |-> 0]

Enqueue(r) ==
    /\ status[r] = "absent"
    /\ status' = [status EXCEPT ![r] = "pending"]
    /\ UNCHANGED <<accepted, settled>>

\* The external system takes the row.  A relay that has lost its lease may
\* still be talking to it, so this can happen again, and after the end.
Accept(r) ==
    /\ status[r] # "absent"
    /\ accepted' = [accepted EXCEPT ![r] = TRUE]
    /\ UNCHANGED <<status, settled>>

Settle(r) ==
    /\ status[r] = "pending" /\ accepted[r]
    /\ status' = [status EXCEPT ![r] = "sent"]
    /\ settled' = [settled EXCEPT ![r] = 1]
    /\ UNCHANGED accepted

\* One claim may dead-letter several abandoned rows.
DeadLetter(S) ==
    /\ \A r \in S : status[r] = "pending"
    /\ status' = [r \in Rows |-> IF r \in S THEN "failed" ELSE status[r]]
    /\ UNCHANGED <<accepted, settled>>

Next ==
    \/ \E r \in Rows : Enqueue(r) \/ Accept(r) \/ Settle(r)
    \/ \E S \in SUBSET Rows : DeadLetter(S)

Spec == Init /\ [][Next]_contractVars
=============================================================================
