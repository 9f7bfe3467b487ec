--------------------------- MODULE RequestEngine ---------------------------
(***************************************************************************)
(* The universal approval workflow:                                        *)
(* libs/platform/src/requests/request-engine.service.ts with the           *)
(* RequestTypeDef hooks of its request types and the expiry sweep of       *)
(* apps/worker/src/cron/request-expiry.cron.ts.                            *)
(*                                                                         *)
(* A transition is three moments of one call: it reads the request (and    *)
(* refuses a decided one), it checks delegation, separation of duties,     *)
(* permission and assignee, and only then does it open the transaction     *)
(* that writes the request by its id, runs the hook of the type and queues *)
(* the notifications.  The update of the request row serializes the        *)
(* transactions of one request, so a transaction is one step here; the     *)
(* moments before it interleave with every other call.                     *)
(***************************************************************************)
EXTENDS Naturals, FiniteSets

CONSTANTS
    Requests,
    Users,
    Nobody,        \* no assignee, no delegator
    Calls,         \* API calls in flight at the same time
    Sweeps,        \* expiry sweeps running at the same time (ExclusiveJob: one)
    Kinds,         \* the request types in play: subset of AllKinds
    Requester,     \* [Requests -> Users]
    Manager,       \* [Users -> Users \cup {Nobody}], employees.manager_id
    Holds,         \* [Users -> SUBSET Permissions], at the start
    Leavers,       \* bound: the users that may be offboarded
    Delegable      \* bound: the delegations <<from, to>> that may be made

AllKinds == {"leave", "wfh", "overtime", "access"}

Permissions == {"step1", "step2", "manage", "rbac"}

ASSUME UsersAssumption == Nobody \notin Users /\ IsFiniteSet(Users)
ASSUME KindsAssumption == Kinds \subseteq AllKinds /\ Kinds # {}
ASSUME PartiesAssumption == /\ Requester \in [Requests -> Users]
                            /\ Manager \in [Users -> Users \cup {Nobody}]
                            /\ Holds \in [Users -> SUBSET Permissions]
ASSUME BoundsAssumption == /\ Leavers \subseteq Users /\ Delegable \subseteq Users \X Users
                           /\ Calls \cap Sweeps = {}

VARIABLES
    \* requests.request_items and request_approvals
    kind,          \* the type of the request, fixed when it is filed
    status,
    step,          \* current_step
    assignee,      \* assignee_id
    approvals,     \* the approval rows of the request
    \* the table of the type: leave_requests, wfh_requests, overtime_entries,
    \* access_requests
    domain,
    grants,        \* access_grants rows of the request
    \* notification_outbox rows, by their idempotency key
    prompts,       \* who was asked to decide which step
    alarms,        \* the administrators told that nobody could be asked
    notices,       \* the outcomes the requester was told of
    \* authority
    holds,         \* who holds which permission
    offboarded,    \* employees that left
    delegations,   \* active delegations, <<from, to>>
    \* the world outside
    overdue,       \* expires_at has passed
    call           \* the memory of each call in flight

authority == <<holds, offboarded, delegations>>
item      == <<status, step, assignee, approvals>>
messages  == <<prompts, alarms, notices>>
vars      == <<kind, status, step, assignee, approvals, domain, grants,
               prompts, alarms, notices, holds, offboarded, delegations, overdue, call>>

Open   == {"pending", "in_review"}
Closed == {"approved", "rejected", "cancelled", "expired"}
Ops    == {"approve", "reject", "cancel", "expire"}

Idle == [op |-> "none"]

\* What a call remembers: its operation and actor, the request as it read it,
\* and, once authorized, the delegator it acts for and whether it decides in
\* place of an unavailable assignee.
CallType ==
    [op : Ops, at : {"read", "authorized"}, req : Requests, actor : Users \cup {Nobody},
     step : 1 .. 2, from : Users \cup {Nobody}, fallback : BOOLEAN]

ApprovalType ==
    [step : 1 .. 2, approver : Users, decision : {"approved", "rejected"},
     from : Users \cup {Nobody}, fallback : BOOLEAN]

TypeOK ==
    /\ kind \in [Requests -> AllKinds]
    /\ status \in [Requests -> {"none"} \cup Open \cup Closed]
    /\ step \in [Requests -> 1 .. 2]
    /\ assignee \in [Requests -> Users \cup {Nobody}]
    /\ approvals \in [Requests -> SUBSET ApprovalType]
    /\ domain \in [Requests -> {"none", "pending", "approved", "rejected", "cancelled", "expired"}]
    /\ grants \in [Requests -> Nat]
    /\ prompts \in [Requests -> SUBSET ((1 .. 2) \X Users)]
    /\ alarms \in [Requests -> SUBSET ((1 .. 2) \X Users)]
    /\ notices \in [Requests -> SUBSET {"approved", "rejected"}]
    /\ holds \in [Users -> SUBSET Permissions]
    /\ offboarded \in SUBSET Users
    /\ delegations \in SUBSET (Users \X Users)
    /\ overdue \in [Requests -> BOOLEAN]
    /\ call \in [Calls \cup Sweeps -> CallType \cup {Idle}]

-----------------------------------------------------------------------------
(* The type definitions: what the engine reads of a RequestTypeDef.        *)

\* approvalSteps: access requests pass a second, security step.
Steps(k) == IF k = "access" THEN 2 ELSE 1

RequiredPermission(s) == IF s = 1 THEN "step1" ELSE "step2"

\* leave and wfh (and attendance justification, which is written like wfh)
\* assert in their hooks that the domain row is still pending.
Guarded(k) == k \in {"leave", "wfh"}

\* Only the guarded types define onCancel.
HasOnCancel(k) == Guarded(k)

\* onExpire writes the status the type gives to an unanswered request.
ExpiredDomain(k) == CASE Guarded(k) -> "cancelled"
                      [] k = "overtime" -> "rejected"
                      [] k = "access" -> "expired"

-----------------------------------------------------------------------------
(* Notifications                                                           *)

HoldersOf(perm) == {u \in Users : perm \in holds[u]}

\* notifyDecisionMakers: the assignee if there is one, otherwise every holder
\* but the requester, otherwise the administrators.
Recipients(r, to, s) ==
    IF to # Nobody THEN {to} ELSE HoldersOf(RequiredPermission(s)) \ {Requester[r]}

\* Fault: nobody is told when there is nobody to ask.
NotifyDecisionMakers_Silent(r, to, s) ==
    /\ prompts' = [prompts EXCEPT ![r] = @ \cup ({s} \X Recipients(r, to, s))]
    /\ UNCHANGED alarms

NotifyDecisionMakers(r, to, s) ==
    LET whom == Recipients(r, to, s) IN
    /\ prompts' = [prompts EXCEPT ![r] = @ \cup ({s} \X whom)]
    /\ alarms' = [alarms EXCEPT ![r] = IF whom = {} THEN @ \cup ({s} \X HoldersOf("rbac")) ELSE @]

-----------------------------------------------------------------------------
(* submit(): the service of the type first writes its own row, in its own  *)
(* transaction, and then files the request.                                *)

Init ==
    /\ kind \in [Requests -> Kinds]
    /\ status = [r \in Requests |-> "none"]
    /\ step = [r \in Requests |-> 1]
    /\ assignee = [r \in Requests |-> Nobody]
    /\ approvals = [r \in Requests |-> {}]
    /\ domain = [r \in Requests |-> "none"]
    /\ grants = [r \in Requests |-> 0]
    /\ prompts = [r \in Requests |-> {}]
    /\ alarms = [r \in Requests |-> {}]
    /\ notices = [r \in Requests |-> {}]
    /\ holds = Holds
    /\ offboarded = {}
    /\ delegations = {}
    /\ overdue = [r \in Requests |-> FALSE]
    /\ call = [c \in Calls \cup Sweeps |-> Idle]

CreateDomainRow(r) ==
    /\ domain[r] = "none"
    /\ domain' = [domain EXCEPT ![r] = "pending"]
    /\ UNCHANGED <<kind, item, grants, messages, authority, overdue, call>>

\* managerOf: the manager of the requester, if there is one that can decide.
ManagerOf(u) ==
    LET m == Manager[u] IN
    IF m \in {Nobody, u} \cup offboarded \/ "step1" \notin holds[m] THEN Nobody ELSE m

Submit(r) ==
    LET to == IF kind[r] = "wfh" THEN ManagerOf(Requester[r]) ELSE Nobody IN
    /\ domain[r] # "none" /\ status[r] = "none"
    /\ status' = [status EXCEPT ![r] = "pending"]
    /\ assignee' = [assignee EXCEPT ![r] = to]
    /\ NotifyDecisionMakers(r, to, 1)
    /\ UNCHANGED <<kind, step, approvals, domain, grants, notices, authority, overdue, call>>

-----------------------------------------------------------------------------
(* The first moment: getOrFail and the status check, outside the           *)
(* transaction.  The sweep reads the overdue requests first (findExpired). *)

Read(c, op, r, u) ==
    /\ call[c] = Idle
    /\ status[r] \in Open
    /\ call' = [call EXCEPT ![c] =
          [op |-> op, at |-> "read", req |-> r, actor |-> u, step |-> step[r],
           from |-> Nobody, fallback |-> FALSE]]
    /\ UNCHANGED <<kind, item, domain, grants, messages, authority, overdue>>

\* Fault: the sweep looks for pending requests only.
FindExpired_PendingOnly == {r \in Requests : overdue[r] /\ status[r] = "pending"}

\* findExpired: the open requests whose deadline has passed.
FindExpired == {r \in Requests : overdue[r] /\ status[r] \in Open}

ReadToExpire(c, r) == r \in FindExpired /\ Read(c, "expire", r, Nobody)

-----------------------------------------------------------------------------
(* The second moment: who may do this.                                     *)

\* findActiveDelegationTo: one of the delegations to the actor, if any.
DelegatorsOf(u) ==
    LET from == {w \in Users : <<w, u>> \in delegations}
    IN  IF from = {} THEN {Nobody} ELSE from

\* The actor or the delegator holds the permission (union semantics).
Allowed(u, from, perm) ==
    perm \in holds[u] \/ (from # Nobody /\ perm \in holds[from])

\* Separation of duties is judged on the delegator, if there is one.
SodSubject(u, from) == IF from = Nobody THEN u ELSE from

SeparationOfDuties(r, u, from) == Requester[r] # SodSubject(u, from)

\* Fault: HR may always decide in place of the assignee.
AssigneeUnavailable_Always(a, perm) == TRUE

AssigneeUnavailable(a, perm) == a \in offboarded \/ perm \notin holds[a]

MayOverride(u, from) == Allowed(u, from, "manage")

\* resolveAssigneeGate, for a decision that needs `perm`: the assignee or its
\* delegate decides; HR decides for an assignee that cannot.
IsAssignees(r, u, from) == assignee[r] \in {Nobody, u} \/ assignee[r] = from

AssigneeGate(r, u, from, perm) ==
    \/ IsAssignees(r, u, from)
    \/ /\ ~IsAssignees(r, u, from)
       /\ AssigneeUnavailable(assignee[r], perm)
       /\ MayOverride(u, from)

\* approve() and reject() check alike, on the step they have read.
AuthorizeDecision(c) ==
    LET k == call[c]
        perm == RequiredPermission(k.step) IN
    /\ k.op \in {"approve", "reject"} /\ k.at = "read"
    /\ \E from \in DelegatorsOf(k.actor) :
          /\ SeparationOfDuties(k.req, k.actor, from)
          /\ Allowed(k.actor, from, perm)
          /\ AssigneeGate(k.req, k.actor, from, perm)
          /\ call' = [call EXCEPT ![c] =
                [k EXCEPT !.at = "authorized", !.from = from,
                          !.fallback = ~IsAssignees(k.req, k.actor, from)]]
    /\ UNCHANGED <<kind, item, domain, grants, messages, authority, overdue>>

\* cancel(): the requester, or an administrator.
AuthorizeCancel(c) ==
    LET k == call[c] IN
    /\ k.op = "cancel" /\ k.at = "read"
    /\ k.actor = Requester[k.req] \/ "rbac" \in holds[k.actor]
    /\ call' = [call EXCEPT ![c] = [k EXCEPT !.at = "authorized"]]
    /\ UNCHANGED <<kind, item, domain, grants, messages, authority, overdue>>

\* The call fails: refused by a check, rolled back by a hook or an error of
\* the database, or its process dies.  Nothing was written.
Fail(c) ==
    /\ call[c] # Idle
    /\ call' = [call EXCEPT ![c] = Idle]
    /\ UNCHANGED <<kind, item, domain, grants, messages, authority, overdue>>

-----------------------------------------------------------------------------
(* The third moment: the transaction.  The request is updated by its id    *)
(* alone, from what the call remembers.                                    *)

Approval(k, verdict) ==
    [step |-> k.step, approver |-> k.actor, decision |-> verdict,
     from |-> k.from, fallback |-> k.fallback]

\* Fault: the hooks of the guarded types do not look at the domain row.
HookAccepts_Always(r) == TRUE

\* assertPending of the guarded types, in the transaction of the engine.
HookAccepts(r) == Guarded(kind[r]) => domain[r] = "pending"

\* Fault: the first approval is taken for the last.
IsFinalStep_FirstStep(k) == TRUE

\* Fault: the chain is taken to be one step longer than it is.
IsFinalStep_OffByOne(k) == k.step > Steps(kind[k.req])

IsFinalStep(k) == k.step >= Steps(kind[k.req])

CommitApproveStep(c) ==
    LET k == call[c] IN
    /\ k.op = "approve" /\ k.at = "authorized"
    /\ ~IsFinalStep(k)
    /\ status' = [status EXCEPT ![k.req] = "in_review"]
    /\ step' = [step EXCEPT ![k.req] = k.step + 1]
    /\ approvals' = [approvals EXCEPT ![k.req] = @ \cup {Approval(k, "approved")}]
    /\ NotifyDecisionMakers(k.req, assignee[k.req], k.step + 1)
    /\ call' = [call EXCEPT ![c] = Idle]
    /\ UNCHANGED <<kind, assignee, domain, grants, notices, authority, overdue>>

\* onApprove; of an access request it inserts a grant.
CommitApprove(c) ==
    LET k == call[c] IN
    /\ k.op = "approve" /\ k.at = "authorized"
    /\ IsFinalStep(k)
    /\ HookAccepts(k.req)
    /\ status' = [status EXCEPT ![k.req] = "approved"]
    /\ step' = [step EXCEPT ![k.req] = k.step]
    /\ approvals' = [approvals EXCEPT ![k.req] = @ \cup {Approval(k, "approved")}]
    /\ domain' = [domain EXCEPT ![k.req] = "approved"]
    /\ grants' = [grants EXCEPT ![k.req] = IF kind[k.req] = "access" THEN @ + 1 ELSE @]
    /\ notices' = [notices EXCEPT ![k.req] = @ \cup {"approved"}]
    /\ call' = [call EXCEPT ![c] = Idle]
    /\ UNCHANGED <<kind, assignee, prompts, alarms, authority, overdue>>

CommitReject(c) ==
    LET k == call[c] IN
    /\ k.op = "reject" /\ k.at = "authorized"
    /\ HookAccepts(k.req)
    /\ status' = [status EXCEPT ![k.req] = "rejected"]
    /\ approvals' = [approvals EXCEPT ![k.req] = @ \cup {Approval(k, "rejected")}]
    /\ domain' = [domain EXCEPT ![k.req] = "rejected"]
    /\ notices' = [notices EXCEPT ![k.req] = @ \cup {"rejected"}]
    /\ call' = [call EXCEPT ![c] = Idle]
    /\ UNCHANGED <<kind, step, assignee, grants, prompts, alarms, authority, overdue>>

CommitCancel(c) ==
    LET k == call[c] IN
    /\ k.op = "cancel" /\ k.at = "authorized"
    /\ HasOnCancel(kind[k.req]) => HookAccepts(k.req)
    /\ status' = [status EXCEPT ![k.req] = "cancelled"]
    /\ domain' = [domain EXCEPT ![k.req] = IF HasOnCancel(kind[k.req]) THEN "cancelled" ELSE @]
    /\ call' = [call EXCEPT ![c] = Idle]
    /\ UNCHANGED <<kind, step, assignee, approvals, grants, messages, authority, overdue>>

\* Fault: the sweep leaves the row of the type alone.
ExpireHook_Missing(r) == domain[r]

\* onExpire of every type writes the domain row without looking at it.
ExpireHook(r) == ExpiredDomain(kind[r])

CommitExpire(c) ==
    LET k == call[c] IN
    /\ k.op = "expire"
    /\ status' = [status EXCEPT ![k.req] = "expired"]
    /\ domain' = [domain EXCEPT ![k.req] = ExpireHook(k.req)]
    /\ call' = [call EXCEPT ![c] = Idle]
    /\ UNCHANGED <<kind, step, assignee, approvals, grants, messages, authority, overdue>>

-----------------------------------------------------------------------------
(* Authority and time change while calls are in flight.                    *)

\* DelegationService.create and revoke (or the end of the window).
Delegate(d) ==
    /\ d \in Delegable \ delegations
    /\ delegations' = delegations \cup {d}
    /\ UNCHANGED <<kind, item, domain, grants, messages, holds, offboarded, overdue, call>>

EndDelegation(d) ==
    /\ delegations' = delegations \ {d}
    /\ UNCHANGED <<kind, item, domain, grants, messages, holds, offboarded, overdue, call>>

\* Offboarding marks the employee and removes every role assignment.
Offboard(u) ==
    /\ u \in Leavers \ offboarded
    /\ offboarded' = offboarded \cup {u}
    /\ holds' = [holds EXCEPT ![u] = {}]
    /\ UNCHANGED <<kind, item, domain, grants, messages, delegations, overdue, call>>

PassDeadline(r) ==
    /\ status[r] # "none" /\ ~overdue[r]
    /\ overdue' = [overdue EXCEPT ![r] = TRUE]
    /\ UNCHANGED <<kind, item, domain, grants, messages, authority, call>>

-----------------------------------------------------------------------------
Commit(c) ==
    \/ CommitApproveStep(c) \/ CommitApprove(c) \/ CommitReject(c)
    \/ CommitCancel(c) \/ CommitExpire(c)

Next ==
    \/ \E r \in Requests : CreateDomainRow(r) \/ Submit(r) \/ PassDeadline(r)
    \/ \E c \in Calls, r \in Requests, u \in Users, op \in {"approve", "reject", "cancel"} :
          Read(c, op, r, u)
    \/ \E c \in Sweeps, r \in Requests : ReadToExpire(c, r)
    \/ \E c \in Calls \cup Sweeps : AuthorizeDecision(c) \/ AuthorizeCancel(c) \/ Fail(c) \/ Commit(c)
    \/ \E d \in Delegable : Delegate(d)
    \/ \E d \in delegations : EndDelegation(d)
    \/ \E u \in Users : Offboard(u)

Spec == Init /\ [][Next]_vars

\* The deadline passes, the sweep runs every five minutes, and not every one
\* of its transactions on a request is lost to an error of the database.
Fairness ==
    \A r \in Requests :
        /\ WF_vars(PassDeadline(r))
        /\ \A c \in Sweeps : /\ WF_vars(ReadToExpire(c, r))
                             /\ SF_vars(call[c].op = "expire" /\ CommitExpire(c))

FairSpec == Spec /\ Fairness

-----------------------------------------------------------------------------
(* Properties                                                              *)

StepApproved(r, s) == \E a \in approvals[r] : a.step = s /\ a.decision = "approved"

\* A request is approved, and an access grant exists, only if every step of
\* its chain was approved, although a call decides from the step it read
\* before another call moved the request on.
EveryStepApproved ==
    \A r \in Requests : status[r] = "approved" \/ grants[r] > 0 =>
        \A s \in 1 .. Steps(kind[r]) : StepApproved(r, s)

\* What the people who made a decision could hold between them.
HeldBy(a) == Holds[a.approver] \cup (IF a.from = Nobody THEN {} ELSE Holds[a.from])

\* Every decision on record was made by somebody who held, or acted for
\* somebody who held, the permission of the step it decides, and never for
\* the requester; a decision on an assigned request was made by the assignee,
\* for the assignee, or by HR and recorded as replacing an assignee who has
\* left.
DecidedWithAuthority ==
    \A r \in Requests : \A a \in approvals[r] :
        /\ RequiredPermission(a.step) \in HeldBy(a)
        /\ SodSubject(a.approver, a.from) # Requester[r]
        /\ assignee[r] # Nobody =>
              \/ assignee[r] \in {a.approver, a.from}
              \/ a.fallback /\ assignee[r] \in offboarded /\ "manage" \in HeldBy(a)

\* What the domain row of a guarded type says while the request has a status.
DomainFor(st) ==
    CASE st = "none"      -> {"none", "pending"}
      [] st \in Open      -> {"pending"}
      [] st = "approved"  -> {"approved"}
      [] st = "rejected"  -> {"rejected"}
      [] st = "cancelled" -> {"cancelled"}
      [] st = "expired"   -> {"cancelled"}

\* The request and the row of a guarded type (leave, wfh, justification)
\* never tell different stories, whatever calls and sweeps race.  (Writes
\* that the services of the types make past the engine are not in this
\* module.)
DomainAgrees ==
    \A r \in Requests : Guarded(kind[r]) => domain[r] \in DomainFor(status[r])

\* "a cancel and an approve racing through two doors": of the people who
\* decide a request of a guarded type exactly one succeeds; nothing but the
\* expiry sweep can change the outcome.
OneDecision ==
    [][\A r \in Requests : Guarded(kind[r]) /\ status[r] \in Closed =>
          status'[r] \in {status[r], "expired"}]_vars

\* Somebody was asked to decide the step an open request is at, or an
\* administrator was told that there was nobody to ask.
SomebodyWasTold ==
    \A r \in Requests : status[r] \in Open =>
        \E u \in Users : <<step[r], u>> \in prompts[r] \cup alarms[r]

\* No request stays open for ever, although a call that read it before it was
\* closed may reopen it.
EveryRequestCloses ==
    \A r \in Requests : status[r] \in Open ~> status[r] \in Closed

\* request-expiry.cron.ts: "`RequestEngine.expire()` is a no-op if the
\* request is already in a terminal state".
ExpireLeavesDecided ==
    [][\A r \in Requests : status[r] \in Closed \ {"expired"} => status'[r] # "expired"]_vars

\* request-engine.types.ts: "requester cannot approve their own request
\* (SoD)"; no type definition allows self-approval.
NoSelfDecision ==
    \A r \in Requests : \A a \in approvals[r] : a.approver # Requester[r]
=============================================================================
