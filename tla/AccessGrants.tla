---------------------------- MODULE AccessGrants ----------------------------
(***************************************************************************)
(* The access requests of one employee and the grants they produce:        *)
(* libs/modules/access-requests/src/application (access-request.service.ts *)
(* and access-request.type-def.ts), and the offboarding hook that revokes. *)
(*                                                                         *)
(* A request is a row and an approval item, written one after the other    *)
(* and linked by a third write; an item takes two approvals.  A call of    *)
(* the engine reads the item, and later writes it by its id; the hooks of  *)
(* this type write the row without looking at it.  RequestEngine has who   *)
(* may decide.                                                             *)
(***************************************************************************)
EXTENDS Naturals, FiniteSets

CONSTANTS
    AccessAsks,
    Approvers,  \* calls that decide, and the expiry sweep, in flight together
    MaxIssued   \* bound: grants issued for one request

ASSUME AccessAssumption == MaxIssued \in Nat

VARIABLES
    accRow,      \* access_requests.status
    accItem,     \* request_items.status
    accLinked,   \* rows whose request_id is set
    issued,      \* rows of access_grants, per request
    inForce,     \* those that are neither revoked nor past expires_at
    left,        \* the employee was offboarded
    approver,    \* the memory of each call
    lateGranted, \* history: requests with a grant issued after the employee left
    accBypassed, \* history: requests approved by a call that saw no request id
    disordered   \* history: requests written by a call that read them before
                 \* another call closed them

accessVars == <<accRow, accItem, accLinked, issued, inForce, left, approver,
                lateGranted, accBypassed, disordered>>

IdleApprover == [at |-> "idle"]
OpenItem == {"pending", "in_review"}
AccessVerbs == {"approve", "reject", "cancel", "expire"}

AccessTypeOK ==
    /\ accRow \in [AccessAsks -> {"none", "pending", "approved", "rejected", "expired"}]
    /\ accItem \in [AccessAsks -> {"none", "approved", "rejected", "cancelled", "expired"} \cup OpenItem]
    /\ {accLinked, lateGranted, accBypassed, disordered} \subseteq SUBSET AccessAsks
    /\ issued \in [AccessAsks -> 0 .. MaxIssued]
    /\ inForce \in [AccessAsks -> 0 .. MaxIssued]
    /\ left \in BOOLEAN
    /\ approver \in [Approvers -> {IdleApprover} \cup
          [at : OpenItem \cup {"unlinked"}, req : AccessAsks, verb : AccessVerbs, late : BOOLEAN]]

AccessInit ==
    /\ accRow = [r \in AccessAsks |-> "none"] /\ accItem = [r \in AccessAsks |-> "none"]
    /\ issued = [r \in AccessAsks |-> 0] /\ inForce = [r \in AccessAsks |-> 0]
    /\ accLinked = {} /\ lateGranted = {} /\ accBypassed = {} /\ disordered = {}
    /\ left = FALSE
    /\ approver = [c \in Approvers |-> IdleApprover]

-----------------------------------------------------------------------------
(* submit(): the row, the item, the link                                   *)

InsertAccess(r) ==
    /\ ~left /\ accRow[r] = "none"
    /\ accRow' = [accRow EXCEPT ![r] = "pending"]
    /\ UNCHANGED <<accItem, accLinked, issued, inForce, left, approver, lateGranted, accBypassed, disordered>>

SubmitAccess(r) ==
    /\ accRow[r] # "none" /\ accItem[r] = "none"
    /\ accItem' = [accItem EXCEPT ![r] = "pending"]
    /\ UNCHANGED <<accRow, accLinked, issued, inForce, left, approver, lateGranted, accBypassed, disordered>>

LinkAccess(r) ==
    /\ accItem[r] # "none" /\ r \notin accLinked
    /\ accLinked' = accLinked \cup {r}
    /\ UNCHANGED <<accRow, accItem, issued, inForce, left, approver, lateGranted, accBypassed, disordered>>

-----------------------------------------------------------------------------
(* Decisions                                                               *)

\* Fault: a decided request can be decided again.
Decidable_Again(r) == accItem[r] # "none"

\* The engine refuses an item that is not open.
Decidable(r) == accItem[r] \in OpenItem

\* The engine reads the item, with the step it is at.
ReadAccessItem(c, r, verb) ==
    /\ approver[c] = IdleApprover /\ Decidable(r)
    /\ approver' = [approver EXCEPT ![c] =
          [at |-> IF accItem[r] = "pending" THEN "pending" ELSE "in_review",
           req |-> r, verb |-> verb, late |-> FALSE]]
    /\ UNCHANGED <<accRow, accItem, accLinked, issued, inForce, left, lateGranted, accBypassed, disordered>>

\* approve() and reject() of a pending row without a request id.
ReadUnlinked(c, r, verb) ==
    /\ approver[c] = IdleApprover /\ verb \in {"approve", "reject"}
    /\ accRow[r] = "pending" /\ r \notin accLinked
    /\ approver' = [approver EXCEPT ![c] = [at |-> "unlinked", req |-> r, verb |-> verb, late |-> FALSE]]
    /\ UNCHANGED <<accRow, accItem, accLinked, issued, inForce, left, lateGranted, accBypassed, disordered>>

\* A call returns; if it closed the request, what others have read is old.
Returns(c, closes) ==
    /\ approver' = [d \in Approvers |->
          IF d = c THEN IdleApprover
          ELSE IF closes /\ approver[d] # IdleApprover /\ approver[d].req = approver[c].req
               THEN [approver[d] EXCEPT !.late = TRUE] ELSE approver[d]]
    /\ disordered' = IF approver[c].late THEN disordered \cup {approver[c].req} ELSE disordered

\* The first of the two approvals.
ApproveStep(c) ==
    /\ approver[c] # IdleApprover /\ approver[c].verb = "approve" /\ approver[c].at = "pending"
    /\ accItem' = [accItem EXCEPT ![approver[c].req] = "in_review"]
    /\ Returns(c, FALSE)
    /\ UNCHANGED <<accRow, accLinked, issued, inForce, left, lateGranted, accBypassed>>

\* onApprove of the second approval, or the one approval of an unlinked row:
\* the row is written and a grant is inserted.
IssueGrant(c) ==
    LET m == approver[c] IN
    /\ m # IdleApprover /\ m.verb = "approve" /\ m.at # "pending"
    /\ issued[m.req] < MaxIssued
    /\ accRow' = [accRow EXCEPT ![m.req] = "approved"]
    /\ accItem' = [accItem EXCEPT ![m.req] = IF m.at = "unlinked" THEN @ ELSE "approved"]
    /\ issued' = [issued EXCEPT ![m.req] = @ + 1]
    /\ inForce' = [inForce EXCEPT ![m.req] = @ + 1]
    /\ lateGranted' = IF left THEN lateGranted \cup {m.req} ELSE lateGranted
    /\ accBypassed' = IF m.at = "unlinked" THEN accBypassed \cup {m.req} ELSE accBypassed
    /\ Returns(c, TRUE)
    /\ UNCHANGED <<accLinked, left>>

\* onReject and onExpire write the row; there is no onCancel, and the row of
\* a cancelled request stays pending.
CloseAccess(c) ==
    LET m == approver[c]
        outcome == CASE m.verb = "reject" -> "rejected" [] m.verb = "cancel" -> "cancelled"
                     [] m.verb = "expire" -> "expired"
    IN
    /\ m # IdleApprover /\ m.verb # "approve"
    /\ accItem' = [accItem EXCEPT ![m.req] = IF m.at = "unlinked" THEN @ ELSE outcome]
    /\ accRow' = [accRow EXCEPT ![m.req] = IF m.verb = "cancel" THEN @ ELSE outcome]
    /\ Returns(c, TRUE)
    /\ UNCHANGED <<accLinked, issued, inForce, left, lateGranted, accBypassed>>

\* A check refuses, the transaction fails, or the pod dies.
AccessCallFails(c) ==
    /\ approver[c] # IdleApprover
    /\ approver' = [approver EXCEPT ![c] = IdleApprover]
    /\ UNCHANGED <<accRow, accItem, accLinked, issued, inForce, left, lateGranted, accBypassed, disordered>>

-----------------------------------------------------------------------------
(* The end of a grant                                                      *)

\* revokeGrant of one grant, or its expires_at passes.
GrantEnds(r) ==
    /\ inForce[r] > 0
    /\ inForce' = [inForce EXCEPT ![r] = @ - 1]
    /\ UNCHANGED <<accRow, accItem, accLinked, issued, left, approver, lateGranted, accBypassed, disordered>>

\* Fault: the grants to revoke are found through the approved requests.
GrantsRevoked_OfApproved == {r \in AccessAsks : accRow[r] = "approved"}

\* Every grant of the employee that is not revoked.
GrantsRevoked == AccessAsks

\* onApprove of the offboarding.  The requests of the employee stay open.
OffboardGrantee ==
    /\ ~left
    /\ left' = TRUE
    /\ inForce' = [r \in AccessAsks |-> IF r \in GrantsRevoked THEN 0 ELSE inForce[r]]
    /\ UNCHANGED <<accRow, accItem, accLinked, issued, approver, lateGranted, accBypassed, disordered>>

AccessNext ==
    \/ \E r \in AccessAsks : InsertAccess(r) \/ SubmitAccess(r) \/ LinkAccess(r) \/ GrantEnds(r)
    \/ \E c \in Approvers :
          \/ ApproveStep(c) \/ IssueGrant(c) \/ CloseAccess(c) \/ AccessCallFails(c)
          \/ \E r \in AccessAsks, verb \in AccessVerbs :
                ReadAccessItem(c, r, verb) \/ ReadUnlinked(c, r, verb)
    \/ OffboardGrantee

AccessSpec == AccessInit /\ [][AccessNext]_accessVars

-----------------------------------------------------------------------------
(* Properties                                                              *)

\* A request yields one grant, so that revoking it takes the access away: a
\* second one takes a decision made on what was read before another decision,
\* or an approval that saw no request id while the item was in the queue too.
OneGrantEach ==
    \A r \in AccessAsks : issued[r] > 1 => r \in disordered \cup accBypassed

\* "Revoke all active access grants": whatever became of the requests they
\* came from, an employee who has left holds no grant but one that was
\* approved after they left.
LeaverKeepsNothing ==
    left => \A r \in AccessAsks : inForce[r] > 0 => r \in lateGranted
=============================================================================
