------------------------ MODULE RequestEngineProofs ------------------------
(***************************************************************************)
(* Proofs about RequestEngine, for every set of requests, users, calls and *)
(* sweeps, every assignment of permissions, managers and delegations: its  *)
(* type invariant, EveryStepApproved, DecidedWithAuthority, DomainAgrees,  *)
(* SomebodyWasTold and OneDecision.                                        *)
(*                                                                         *)
(* A call decides from what it read before the transaction, so what is     *)
(* true of a decision has to be true of the memory of the call first:      *)
(* CallShape (the step it read was reached) and CallEntitled (what the     *)
(* checks found still justifies the record it will write).  That needs     *)
(* AssigneeFit: an assignee lacks the permission only after leaving.       *)
(***************************************************************************)
EXTENDS RequestEngine, TLAPS

USE UsersAssumption, KindsAssumption, PartiesAssumption, BoundsAssumption

-----------------------------------------------------------------------------
(* The inductive invariant                                                 *)

\* What a request that was not filed looks like, and how it came to its step.
Progress ==
    \A r \in Requests :
        /\ status[r] = "none" => approvals[r] = {} /\ step[r] = 1
        /\ step[r] = 2 => Steps(kind[r]) = 2 /\ StepApproved(r, 1)

\* Permissions are lost, never gained.
HoldsShrink == \A u \in Users : holds[u] \subseteq Holds[u]

\* Only requests to work from home are assigned, and an assignee who cannot
\* decide any more has left.
AssigneeFit ==
    \A r \in Requests : assignee[r] # Nobody =>
        /\ kind[r] = "wfh"
        /\ assignee[r] \in offboarded \/ "step1" \in holds[assignee[r]]

InFlight == {c \in Calls \cup Sweeps : call[c] # Idle}

\* A call is about a filed request and about a step that it had reached.
CallShape ==
    \A c \in InFlight :
        /\ status[call[c].req] # "none"
        /\ call[c].op # "expire" => call[c].actor \in Users
        /\ call[c].step = 2 => Steps(kind[call[c].req]) = 2 /\ StepApproved(call[c].req, 1)

\* The decision on record as `a` was within the authority of who made it.
Entitled(r, a) ==
    /\ RequiredPermission(a.step) \in HeldBy(a)
    /\ SodSubject(a.approver, a.from) # Requester[r]
    /\ assignee[r] # Nobody =>
          \/ assignee[r] \in {a.approver, a.from}
          \/ a.fallback /\ assignee[r] \in offboarded /\ "manage" \in HeldBy(a)

Deciding(c) == call[c].op \in {"approve", "reject"} /\ call[c].at = "authorized"

\* The decision an authorized call is about to record is within its authority.
CallEntitled ==
    \A c \in InFlight : Deciding(c) => Entitled(call[c].req, Approval(call[c], "approved"))

EngineInv ==
    /\ TypeOK
    /\ Progress
    /\ HoldsShrink
    /\ AssigneeFit
    /\ CallShape
    /\ CallEntitled
    /\ EveryStepApproved
    /\ DecidedWithAuthority
    /\ DomainAgrees

-----------------------------------------------------------------------------
(* Lemmas about the operators                                              *)

\* A chain has one step or two, and that of a guarded type has one.
LEMMA StepsOfKind ==
    ASSUME NEW k \in AllKinds
    PROVE  Steps(k) \in {1, 2} /\ (Guarded(k) => Steps(k) = 1) /\ (k = "wfh" => Steps(k) = 1)
  BY DEF AllKinds, Steps, Guarded

\* An idle call has no operation, and a call in flight has the fields of one.
LEMMA CallFields ==
    ASSUME TypeOK, NEW c \in Calls \cup Sweeps
    PROVE  /\ call[c] \in CallType \/ call[c] = Idle
           /\ call[c].op # "none" <=> call[c] # Idle
           /\ call[c] # Idle =>
                 /\ call[c].op \in Ops /\ call[c].at \in {"read", "authorized"}
                 /\ call[c].req \in Requests /\ call[c].actor \in Users \cup {Nobody}
                 /\ call[c].step \in 1 .. 2 /\ call[c].from \in Users \cup {Nobody}
                 /\ call[c].fallback \in BOOLEAN
  <1>1. call[c] \in CallType \cup {Idle}  BY DEF TypeOK
  <1>2. CASE call[c] \in CallType  BY <1>2 DEF CallType, Idle, Ops
  <1>3. CASE call[c] = Idle  BY <1>3 DEF Idle
  <1>  QED  BY <1>1, <1>2, <1>3

\* A record of a call that decides is an approval row.
LEMMA ApprovalFields ==
    ASSUME TypeOK, CallShape, NEW c \in Calls \cup Sweeps, call[c].op \in {"approve", "reject"},
           NEW v \in {"approved", "rejected"}
    PROVE  /\ Approval(call[c], v) \in ApprovalType
           /\ Approval(call[c], v).step = call[c].step
           /\ Approval(call[c], v).decision = v
           /\ Approval(call[c], v).approver = call[c].actor
           /\ Approval(call[c], v).from = call[c].from
           /\ Approval(call[c], v).fallback = call[c].fallback
  <1>1. call[c] # Idle  BY CallFields
  <1>2. call[c].actor \in Users  BY <1>1 DEF CallShape, InFlight
  <1>  QED  BY <1>1, <1>2, CallFields DEF Approval, ApprovalType

\* Who may decide does not depend on the verdict.
LEMMA EntitledVerdict ==
    ASSUME TypeOK, CallShape, NEW c \in Calls \cup Sweeps, call[c].op \in {"approve", "reject"},
           NEW r, Entitled(r, Approval(call[c], "approved")), NEW v \in {"approved", "rejected"}
    PROVE  Entitled(r, Approval(call[c], v))
  BY ApprovalFields DEF Entitled, HeldBy

-----------------------------------------------------------------------------
(* It holds initially.                                                     *)

\* Before the first row is written nobody has read or decided anything.
LEMMA InitEngineInv == Init => EngineInv
  <1>  SUFFICES ASSUME Init PROVE EngineInv  OBVIOUS
  <1>  USE DEF Init
  <1>1. TypeOK
    <2>1. kind \in [Requests -> AllKinds]  OBVIOUS
    <2>2. holds \in [Users -> SUBSET Permissions] /\ offboarded \in SUBSET Users
          /\ delegations \in SUBSET (Users \X Users) /\ overdue \in [Requests -> BOOLEAN]
      OBVIOUS
    <2>3. call \in [Calls \cup Sweeps -> CallType \cup {Idle}]  OBVIOUS
    <2>4. /\ status \in [Requests -> {"none"} \cup Open \cup Closed] /\ step \in [Requests -> 1 .. 2]
          /\ assignee \in [Requests -> Users \cup {Nobody}]
          /\ approvals \in [Requests -> SUBSET ApprovalType] /\ grants \in [Requests -> Nat]
          /\ domain \in [Requests -> {"none", "pending", "approved", "rejected", "cancelled", "expired"}]
      OBVIOUS
    <2>5. /\ prompts \in [Requests -> SUBSET ((1 .. 2) \X Users)]
          /\ alarms \in [Requests -> SUBSET ((1 .. 2) \X Users)]
          /\ notices \in [Requests -> SUBSET {"approved", "rejected"}]
      OBVIOUS
    <2>  QED  BY <2>1, <2>2, <2>3, <2>4, <2>5 DEF TypeOK
  <1>2. Progress /\ HoldsShrink /\ AssigneeFit  BY DEF Progress, HoldsShrink, AssigneeFit
  <1>3. CallShape /\ CallEntitled  BY DEF CallShape, CallEntitled, InFlight
  <1>4. EveryStepApproved /\ DecidedWithAuthority  BY DEF EveryStepApproved, DecidedWithAuthority
  <1>5. DomainAgrees  BY DEF DomainAgrees, DomainFor, Open
  <1>  QED  BY <1>1, <1>2, <1>3, <1>4, <1>5 DEF EngineInv

-----------------------------------------------------------------------------
(* Steps that change only the memory of a call                             *)

\* What a new memory `m` of a call must satisfy.
Sound(m) ==
    m # Idle =>
        /\ status[m.req] # "none"
        /\ m.op # "expire" => m.actor \in Users
        /\ m.step = 2 => Steps(kind[m.req]) = 2 /\ StepApproved(m.req, 1)
        /\ m.op \in {"approve", "reject"} /\ m.at = "authorized" =>
              Entitled(m.req, Approval(m, "approved"))

\* A call that remembers something sound disturbs nothing.
LEMMA CallStepInv ==
    ASSUME EngineInv, NEW c \in Calls \cup Sweeps, NEW m \in CallType \cup {Idle}, Sound(m),
           call' = [call EXCEPT ![c] = m],
           UNCHANGED <<kind, item, domain, grants, messages, authority, overdue>>
    PROVE  EngineInv'
  <1>  USE DEF EngineInv, item, messages, authority
  <1>1. TypeOK'  BY DEF TypeOK
  <1>2. Progress' /\ HoldsShrink' /\ AssigneeFit'
    BY DEF Progress, HoldsShrink, AssigneeFit, StepApproved
  <1>3. ASSUME NEW d \in InFlight'
        PROVE  \/ call'[d] = call[d] /\ d \in InFlight
               \/ d = c /\ call'[d] = m /\ m # Idle
    BY <1>3 DEF TypeOK, InFlight
  <1>4. CallShape'  BY <1>3 DEF CallShape, Sound, StepApproved
  <1>5. CallEntitled'
    <2>  SUFFICES ASSUME NEW d \in InFlight', Deciding(d)'
                  PROVE  Entitled(call[d].req, Approval(call[d], "approved"))'
      BY DEF CallEntitled
    <2>1. Entitled(call'[d].req, Approval(call'[d], "approved"))
      BY <1>3 DEF CallEntitled, Sound, Deciding
    <2>  QED  BY <2>1 DEF Entitled, HeldBy, Approval
  <1>6. EveryStepApproved' /\ DecidedWithAuthority' /\ DomainAgrees'
    BY DEF EveryStepApproved, StepApproved, DecidedWithAuthority, HeldBy, DomainAgrees
  <1>  QED  BY <1>1, <1>2, <1>4, <1>5, <1>6

\* getOrFail and the status check.
LEMMA ReadInv ==
    ASSUME EngineInv, NEW c \in Calls \cup Sweeps, NEW op \in Ops, NEW r \in Requests,
           NEW u \in Users \cup {Nobody}, op # "expire" => u \in Users, Read(c, op, r, u)
    PROVE  EngineInv'
  <1>  DEFINE m == [op |-> op, at |-> "read", req |-> r, actor |-> u, step |-> step[r],
                    from |-> Nobody, fallback |-> FALSE]
  <1>1. m \in CallType  BY DEF EngineInv, TypeOK, CallType
  <1>2. Sound(m)  BY DEF Read, EngineInv, Progress, Sound, Open
  <1>  QED  BY <1>1, <1>2, CallStepInv DEF Read

\* The checks of approve() and reject(): what they find entitles the actor.
LEMMA AuthorizeDecisionInv ==
    ASSUME EngineInv, NEW c \in Calls \cup Sweeps, AuthorizeDecision(c)
    PROVE  EngineInv'
  <1>  DEFINE k == call[c]
              perm == RequiredPermission(k.step)
  <1>1. k \in CallType /\ k # Idle /\ k.op \in {"approve", "reject"}
    BY CallFields DEF AuthorizeDecision, EngineInv, CallType
  <1>2. /\ k.req \in Requests /\ k.actor \in Users /\ k.step \in 1 .. 2 /\ status[k.req] # "none"
        /\ k.step = 2 => Steps(kind[k.req]) = 2 /\ StepApproved(k.req, 1)
    BY <1>1, CallFields DEF EngineInv, CallShape, InFlight
  <1>3. PICK from \in DelegatorsOf(k.actor) :
          /\ SeparationOfDuties(k.req, k.actor, from)
          /\ Allowed(k.actor, from, perm)
          /\ AssigneeGate(k.req, k.actor, from, perm)
          /\ call' = [call EXCEPT ![c] =
                [k EXCEPT !.at = "authorized", !.from = from,
                          !.fallback = ~IsAssignees(k.req, k.actor, from)]]
    BY DEF AuthorizeDecision
  <1>4. from \in Users \cup {Nobody}  BY <1>3 DEF DelegatorsOf
  <1>  DEFINE m == [k EXCEPT !.at = "authorized", !.from = from,
                             !.fallback = ~IsAssignees(k.req, k.actor, from)]
              a == Approval(m, "approved")
  <1>5. /\ m \in CallType /\ m.op = k.op /\ m.at = "authorized" /\ m.req = k.req /\ m.actor = k.actor
        /\ m.step = k.step /\ m.from = from /\ m.fallback = ~IsAssignees(k.req, k.actor, from)
    BY <1>1, <1>4 DEF CallType
  <1>6. a.step = k.step /\ a.approver = k.actor /\ a.from = from
        /\ a.fallback = ~IsAssignees(k.req, k.actor, from)
    BY <1>5 DEF Approval
  <1>  HIDE DEF m, a
  <1>7. \A p \in Permissions : Allowed(k.actor, from, p) => p \in HeldBy(a)
    BY <1>2, <1>4, <1>6 DEF Allowed, HeldBy, EngineInv, HoldsShrink
  <1>8. perm \in HeldBy(a)  BY <1>3, <1>7 DEF RequiredPermission, Permissions
  <1>9. SodSubject(a.approver, a.from) # Requester[k.req]
    BY <1>3, <1>6 DEF SeparationOfDuties
  <1>10. ASSUME assignee[k.req] # Nobody
         PROVE  \/ assignee[k.req] \in {a.approver, a.from}
                \/ a.fallback /\ assignee[k.req] \in offboarded /\ "manage" \in HeldBy(a)
    <2>1. CASE IsAssignees(k.req, k.actor, from)  BY <1>6, <1>10, <2>1 DEF IsAssignees
    <2>2. CASE ~IsAssignees(k.req, k.actor, from)
      <3>1. AssigneeUnavailable(assignee[k.req], perm) /\ Allowed(k.actor, from, "manage")
        BY <1>3, <2>2 DEF AssigneeGate, MayOverride
      <3>2. kind[k.req] = "wfh"  BY <1>2, <1>10 DEF EngineInv, AssigneeFit
      <3>3. Steps(kind[k.req]) = 1  BY <3>2 DEF Steps
      <3>4. k.step = 1  BY <1>2, <3>3
      <3>5. perm = "step1"  BY <3>4 DEF RequiredPermission
      <3>6. assignee[k.req] \in offboarded
        BY <1>2, <1>10, <3>1, <3>5 DEF EngineInv, AssigneeFit, AssigneeUnavailable
      <3>7. "manage" \in HeldBy(a)  BY <1>7, <3>1 DEF Permissions
      <3>  QED  BY <1>6, <2>2, <3>6, <3>7
    <2>  QED  BY <2>1, <2>2
  <1>11. Entitled(k.req, a)  BY <1>6, <1>8, <1>9, <1>10 DEF Entitled
  <1>12. Sound(m)  BY <1>2, <1>5, <1>11 DEF Sound, a
  <1>13. call' = [call EXCEPT ![c] = m]  BY <1>3 DEF m
  <1>  QED  BY <1>5, <1>12, <1>13, CallStepInv DEF AuthorizeDecision

\* The checks of cancel().
LEMMA AuthorizeCancelInv ==
    ASSUME EngineInv, NEW c \in Calls \cup Sweeps, AuthorizeCancel(c)
    PROVE  EngineInv'
  <1>  DEFINE m == [call[c] EXCEPT !.at = "authorized"]
  <1>1. call[c] \in CallType /\ call[c] # Idle  BY CallFields DEF AuthorizeCancel, EngineInv
  <1>2. m \in CallType /\ m.op = "cancel" /\ m.req = call[c].req /\ m.actor = call[c].actor
        /\ m.step = call[c].step
    BY <1>1 DEF CallType, AuthorizeCancel
  <1>3. Sound(m)  BY <1>1, <1>2 DEF Sound, EngineInv, CallShape, InFlight
  <1>  QED  BY <1>2, <1>3, CallStepInv DEF AuthorizeCancel

\* A call that fails has written nothing.
LEMMA FailInv ==
    ASSUME EngineInv, NEW c \in Calls \cup Sweeps, Fail(c)
    PROVE  EngineInv'
  BY CallStepInv DEF Fail, Sound

-----------------------------------------------------------------------------
(* The transactions                                                        *)

\* What every transaction of the engine does to its request r: it gives it a
\* status, adds the records `new`, and the call is over.
Writes(c, r, new) ==
    /\ status' = [status EXCEPT ![r] = status'[r]] /\ status'[r] # "none"
    /\ step' = [step EXCEPT ![r] = step'[r]]
    /\ step'[r] = 2 => Steps(kind[r]) = 2 /\ StepApproved(r, 1)'
    /\ approvals' = [approvals EXCEPT ![r] = @ \cup new]
    /\ \A a \in new : Entitled(r, a)
    /\ domain' = [domain EXCEPT ![r] = domain'[r]]
    /\ Guarded(kind[r]) => domain'[r] \in DomainFor(status'[r])
    /\ grants' = [grants EXCEPT ![r] = grants'[r]]
    /\ status'[r] = "approved" \/ grants'[r] # grants[r] =>
          \A s \in 1 .. Steps(kind[r]) : StepApproved(r, s)'
    /\ call' = [call EXCEPT ![c] = Idle]
    /\ UNCHANGED <<kind, assignee, authority, overdue>>

\* A transaction of this form preserves the invariant.
LEMMA WritesInv ==
    ASSUME EngineInv, NEW c \in Calls \cup Sweeps, NEW r \in Requests, NEW new,
           TypeOK', Writes(c, r, new)
    PROVE  EngineInv'
  <1>  USE DEF EngineInv, Writes, authority
  <1>1. \A q \in Requests : approvals[q] \subseteq approvals'[q]
    BY DEF TypeOK
  <1>2. ASSUME NEW q \in Requests, NEW s, StepApproved(q, s) PROVE StepApproved(q, s)'
    BY <1>1, <1>2 DEF StepApproved
  <1>3. \A q \in Requests \ {r} : status'[q] = status[q] /\ step'[q] = step[q]
            /\ approvals'[q] = approvals[q] /\ domain'[q] = domain[q] /\ grants'[q] = grants[q]
    BY DEF TypeOK
  <1>4. approvals'[r] = approvals[r] \cup new  BY DEF TypeOK
  <1>5. \A d \in InFlight' : d \in InFlight /\ call'[d] = call[d] /\ call[d].req \in Requests
    BY CallFields DEF TypeOK, InFlight
  <1>6. Progress'
    <2>1. ASSUME NEW q \in Requests, status'[q] = "none" PROVE approvals'[q] = {} /\ step'[q] = 1
      BY <1>3, <2>1 DEF Progress
    <2>2. ASSUME NEW q \in Requests, step'[q] = 2 PROVE Steps(kind'[q]) = 2 /\ StepApproved(q, 1)'
      BY <1>2, <1>3, <2>2 DEF Progress
    <2>  QED  BY <2>1, <2>2 DEF Progress
  <1>7. HoldsShrink' /\ AssigneeFit'  BY DEF HoldsShrink, AssigneeFit
  <1>8. CallShape'
    <2>1. ASSUME NEW d \in InFlight'
          PROVE  /\ status'[call'[d].req] # "none"
                 /\ call'[d].op # "expire" => call'[d].actor \in Users
      BY <1>3, <1>5, <2>1 DEF CallShape
    <2>2. ASSUME NEW d \in InFlight', call'[d].step = 2
          PROVE  Steps(kind'[call'[d].req]) = 2 /\ StepApproved(call[d].req, 1)'
      <3>1. Steps(kind[call[d].req]) = 2 /\ StepApproved(call[d].req, 1) /\ call[d].req \in Requests
        BY <1>5, <2>2 DEF CallShape
      <3>2. StepApproved(call[d].req, 1)'
        <4>1. \E a \in approvals'[call[d].req] : a.step = 1 /\ a.decision = "approved"
          BY <1>1, <3>1 DEF StepApproved
        <4>  QED  BY <1>5, <4>1 DEF StepApproved
      <3>  QED  BY <1>5, <3>1, <3>2
    <2>  QED  BY <2>1, <2>2 DEF CallShape
  <1>9. CallEntitled'
    BY <1>5 DEF CallEntitled, Deciding, Entitled, HeldBy, Approval
  <1>10. EveryStepApproved'
    <2>  SUFFICES ASSUME NEW q \in Requests, status'[q] = "approved" \/ grants'[q] > 0,
                         NEW s \in 1 .. Steps(kind[q])
                  PROVE  StepApproved(q, s)'
      BY DEF EveryStepApproved
    <2>1. CASE q = r /\ (status'[q] = "approved" \/ grants'[q] # grants[q])  BY <2>1
    <2>2. CASE q = r /\ status'[q] # "approved" /\ grants'[q] = grants[q]
      BY <1>2, <2>2 DEF EveryStepApproved
    <2>3. CASE q # r  BY <1>2, <1>3, <2>3 DEF EveryStepApproved
    <2>  QED  BY <2>1, <2>2, <2>3
  <1>11. DecidedWithAuthority'
    <2>1. \A q \in Requests : \A a \in approvals'[q] : Entitled(q, a)
      BY <1>3, <1>4 DEF DecidedWithAuthority, Entitled
    <2>  QED  BY <2>1 DEF DecidedWithAuthority, Entitled, HeldBy
  <1>12. DomainAgrees'  BY <1>3 DEF DomainAgrees
  <1>  QED  BY <1>6, <1>7, <1>8, <1>9, <1>10, <1>11, <1>12

\* What is known of a call that is about to commit.
LEMMA Committing ==
    ASSUME EngineInv, NEW c \in Calls \cup Sweeps, call[c] # Idle
    PROVE  /\ call[c].req \in Requests /\ call[c].step \in {1, 2}
           /\ status[call[c].req] # "none" /\ kind[call[c].req] \in AllKinds
           /\ call[c].step = 2 => Steps(kind[call[c].req]) = 2 /\ StepApproved(call[c].req, 1)
           /\ Deciding(c) => \A v \in {"approved", "rejected"} :
                 /\ Approval(call[c], v) \in ApprovalType
                 /\ Entitled(call[c].req, Approval(call[c], v))
                 /\ Approval(call[c], v).step = call[c].step
                 /\ Approval(call[c], v).decision = v
  <1>  USE DEF EngineInv
  <1>1. call[c].req \in Requests /\ call[c].step \in {1, 2} /\ c \in InFlight
    BY CallFields DEF InFlight
  <1>2. /\ status[call[c].req] # "none" /\ kind[call[c].req] \in AllKinds
        /\ call[c].step = 2 => Steps(kind[call[c].req]) = 2 /\ StepApproved(call[c].req, 1)
    BY <1>1 DEF CallShape, TypeOK
  <1>3. ASSUME Deciding(c), NEW v \in {"approved", "rejected"}
        PROVE  /\ Approval(call[c], v) \in ApprovalType
               /\ Entitled(call[c].req, Approval(call[c], v))
               /\ Approval(call[c], v).step = call[c].step
               /\ Approval(call[c], v).decision = v
    <2>1. Entitled(call[c].req, Approval(call[c], "approved"))  BY <1>1, <1>3 DEF CallEntitled
    <2>  QED  BY <1>3, <2>1, ApprovalFields, EntitledVerdict DEF Deciding
  <1>  QED  BY <1>1, <1>2, <1>3

\* notifyDecisionMakers writes prompts and alarms of their type.
LEMMA NotifyType ==
    ASSUME TypeOK, NEW r \in Requests, NEW to \in Users \cup {Nobody}, NEW s \in 1 .. 2,
           NotifyDecisionMakers(r, to, s)
    PROVE  /\ prompts' \in [Requests -> SUBSET ((1 .. 2) \X Users)]
           /\ alarms' \in [Requests -> SUBSET ((1 .. 2) \X Users)]
  <1>1. Recipients(r, to, s) \subseteq Users /\ HoldersOf("rbac") \subseteq Users
    BY DEF Recipients, HoldersOf
  <1>  DEFINE S == {s} \X Recipients(r, to, s)
              T == {s} \X HoldersOf("rbac")
  <1>2. S \subseteq (1 .. 2) \X Users /\ T \subseteq (1 .. 2) \X Users  BY <1>1
  <1>  HIDE DEF S, T
  <1>3. prompts' = [prompts EXCEPT ![r] = @ \cup S]  BY DEF NotifyDecisionMakers, S
  <1>4. \/ alarms' = [alarms EXCEPT ![r] = @ \cup T] \/ alarms' = [alarms EXCEPT ![r] = @]
    BY DEF NotifyDecisionMakers, T
  <1>  QED  BY <1>2, <1>3, <1>4 DEF TypeOK

\* The records of a request stay records when one is added.
LEMMA RecordType ==
    ASSUME TypeOK, NEW r \in Requests, NEW a \in ApprovalType,
           approvals' = [approvals EXCEPT ![r] = @ \cup {a}]
    PROVE  approvals' \in [Requests -> SUBSET ApprovalType]
  <1>1. approvals \in [Requests -> SUBSET ApprovalType]  BY DEF TypeOK
  <1>2. approvals[r] \cup {a} \in SUBSET ApprovalType  BY <1>1
  <1>  QED  BY <1>1, <1>2

\* So do the notices of an outcome.
LEMMA NoticeType ==
    ASSUME TypeOK, NEW r \in Requests, NEW v \in {"approved", "rejected"},
           notices' = [notices EXCEPT ![r] = @ \cup {v}]
    PROVE  notices' \in [Requests -> SUBSET {"approved", "rejected"}]
  <1>1. notices \in [Requests -> SUBSET {"approved", "rejected"}]  BY DEF TypeOK
  <1>2. notices[r] \cup {v} \in SUBSET {"approved", "rejected"}  BY <1>1
  <1>  QED  BY <1>1, <1>2

\* An approval that is not the last: the request moves to its second step.
LEMMA CommitApproveStepInv ==
    ASSUME EngineInv, NEW c \in Calls \cup Sweeps, CommitApproveStep(c)
    PROVE  EngineInv' /\ call[c].step = 1
  <1>  USE DEF CommitApproveStep
  <1>1. call[c] # Idle /\ Deciding(c)  BY CallFields DEF EngineInv, Deciding
  <1>2. PICK r \in Requests : r = call[c].req  BY <1>1, Committing
  <1>3. PICK a \in ApprovalType : a = Approval(call[c], "approved")  BY <1>1, Committing
  <1>4. /\ call[c].step \in {1, 2} /\ kind[r] \in AllKinds
        /\ Entitled(r, a) /\ a.step = call[c].step /\ a.decision = "approved"
    BY <1>1, <1>2, <1>3, Committing
  <1>5. call[c].step = 1 /\ Steps(kind[r]) = 2 /\ ~Guarded(kind[r])
    <2>1. Steps(kind[r]) \in {1, 2} /\ (Guarded(kind[r]) => Steps(kind[r]) = 1)
      BY <1>4, StepsOfKind
    <2>  QED  BY <1>2, <1>4, <2>1 DEF IsFinalStep
  <1>6. /\ status' = [status EXCEPT ![r] = "in_review"] /\ step' = [step EXCEPT ![r] = 2]
        /\ approvals' = [approvals EXCEPT ![r] = @ \cup {a}] /\ call' = [call EXCEPT ![c] = Idle]
        /\ NotifyDecisionMakers(r, assignee[r], 2)
        /\ UNCHANGED <<kind, assignee, domain, grants, notices, authority, overdue>>
    BY <1>2, <1>3, <1>5
  <1>7. TypeOK'
    <2>1. assignee[r] \in Users \cup {Nobody}  BY DEF EngineInv, TypeOK
    <2>2. /\ prompts' \in [Requests -> SUBSET ((1 .. 2) \X Users)]
          /\ alarms' \in [Requests -> SUBSET ((1 .. 2) \X Users)]
      BY <1>6, <2>1, NotifyType DEF EngineInv
    <2>3. approvals' \in [Requests -> SUBSET ApprovalType]  BY <1>6, RecordType DEF EngineInv
    <2>  QED  BY <1>6, <2>2, <2>3 DEF EngineInv, TypeOK, Open, authority
  <1>8. StepApproved(r, 1)'
    <2>1. a \in approvals'[r]  BY <1>6 DEF EngineInv, TypeOK
    <2>  QED  BY <1>4, <1>5, <2>1 DEF StepApproved
  <1>9. Writes(c, r, {a})
    <2>1. status'[r] = "in_review" /\ step'[r] = 2  BY <1>6 DEF EngineInv, TypeOK
    <2>2. domain' = [domain EXCEPT ![r] = domain'[r]] /\ grants' = [grants EXCEPT ![r] = grants'[r]]
          /\ grants'[r] = grants[r]
      BY <1>6 DEF EngineInv, TypeOK
    <2>  QED  BY <1>4, <1>5, <1>6, <1>8, <2>1, <2>2 DEF Writes
  <1>  QED  BY <1>5, <1>7, <1>9, WritesInv

\* The last approval: the steps before it were approved, since the call had
\* read a step that the request had reached.
LEMMA CommitApproveInv ==
    ASSUME EngineInv, NEW c \in Calls \cup Sweeps, CommitApprove(c)
    PROVE  EngineInv'
  <1>  USE DEF CommitApprove
  <1>1. call[c] # Idle /\ Deciding(c)  BY CallFields DEF EngineInv, Deciding
  <1>2. PICK r \in Requests : r = call[c].req  BY <1>1, Committing
  <1>3. PICK a \in ApprovalType : a = Approval(call[c], "approved")  BY <1>1, Committing
  <1>4. /\ call[c].step \in {1, 2} /\ kind[r] \in AllKinds
        /\ Entitled(r, a) /\ a.step = call[c].step /\ a.decision = "approved"
        /\ call[c].step = 2 => Steps(kind[r]) = 2 /\ StepApproved(r, 1)
    BY <1>1, <1>2, <1>3, Committing
  <1>5. /\ status' = [status EXCEPT ![r] = "approved"] /\ step' = [step EXCEPT ![r] = call[c].step]
        /\ approvals' = [approvals EXCEPT ![r] = @ \cup {a}] /\ call' = [call EXCEPT ![c] = Idle]
        /\ domain' = [domain EXCEPT ![r] = "approved"]
        /\ grants' = [grants EXCEPT ![r] = IF kind[r] = "access" THEN @ + 1 ELSE @]
        /\ notices' = [notices EXCEPT ![r] = @ \cup {"approved"}]
        /\ UNCHANGED <<kind, assignee, prompts, alarms, authority, overdue>>
    BY <1>2, <1>3
  <1>6. TypeOK'
    <2>1. approvals' \in [Requests -> SUBSET ApprovalType]  BY <1>5, RecordType DEF EngineInv
    <2>2. notices' \in [Requests -> SUBSET {"approved", "rejected"}]  BY <1>5, NoticeType DEF EngineInv
    <2>3. grants' \in [Requests -> Nat]
      <3>1. grants \in [Requests -> Nat]  BY DEF EngineInv, TypeOK
      <3>2. grants[r] \in Nat /\ grants[r] + 1 \in Nat  BY <3>1
      <3>  QED  BY <1>5, <3>1, <3>2
    <2>4. step' \in [Requests -> 1 .. 2]
      <3>1. step \in [Requests -> 1 .. 2]  BY DEF EngineInv, TypeOK
      <3>2. call[c].step \in 1 .. 2  BY <1>4
      <3>  QED  BY <1>5, <3>1, <3>2
    <2>  QED  BY <1>5, <2>1, <2>2, <2>3, <2>4 DEF EngineInv, TypeOK, Closed, authority
  <1>7. a \in approvals'[r] /\ approvals[r] \subseteq approvals'[r]  BY <1>5 DEF EngineInv, TypeOK
  <1>8. call[c].step = 2 => StepApproved(r, 1)'  BY <1>4, <1>7 DEF StepApproved
  <1>9. ASSUME NEW s \in 1 .. Steps(kind[r]) PROVE StepApproved(r, s)'
    <2>1. Steps(kind[r]) \in {1, 2} /\ call[c].step >= Steps(kind[r])
      BY <1>2, <1>4, StepsOfKind DEF IsFinalStep
    <2>2. s = call[c].step \/ (s = 1 /\ call[c].step = 2)  BY <1>4, <1>9, <2>1
    <2>  QED  BY <1>4, <1>7, <1>8, <2>2 DEF StepApproved
  <1>10. Writes(c, r, {a})
    <2>1. status'[r] = "approved" /\ step'[r] = call[c].step /\ domain'[r] = "approved"
      BY <1>5 DEF EngineInv, TypeOK
    <2>2. grants' = [grants EXCEPT ![r] = grants'[r]]  BY <1>5 DEF EngineInv, TypeOK
    <2>3. domain'[r] \in DomainFor(status'[r])  BY <2>1 DEF DomainFor, Open
    <2>  QED  BY <1>4, <1>5, <1>8, <1>9, <2>1, <2>2, <2>3 DEF Writes
  <1>  QED  BY <1>6, <1>10, WritesInv

\* A rejection.
LEMMA CommitRejectInv ==
    ASSUME EngineInv, NEW c \in Calls \cup Sweeps, CommitReject(c)
    PROVE  EngineInv'
  <1>  USE DEF CommitReject
  <1>1. call[c] # Idle /\ Deciding(c)  BY CallFields DEF EngineInv, Deciding
  <1>2. PICK r \in Requests : r = call[c].req  BY <1>1, Committing
  <1>3. PICK a \in ApprovalType : a = Approval(call[c], "rejected")  BY <1>1, Committing
  <1>4. Entitled(r, a)  BY <1>1, <1>2, <1>3, Committing
  <1>5. /\ status' = [status EXCEPT ![r] = "rejected"]
        /\ approvals' = [approvals EXCEPT ![r] = @ \cup {a}] /\ call' = [call EXCEPT ![c] = Idle]
        /\ domain' = [domain EXCEPT ![r] = "rejected"]
        /\ notices' = [notices EXCEPT ![r] = @ \cup {"rejected"}]
        /\ UNCHANGED <<kind, step, assignee, grants, prompts, alarms, authority, overdue>>
    BY <1>2, <1>3
  <1>6. TypeOK'
    <2>1. approvals' \in [Requests -> SUBSET ApprovalType]  BY <1>5, RecordType DEF EngineInv
    <2>2. notices' \in [Requests -> SUBSET {"approved", "rejected"}]  BY <1>5, NoticeType DEF EngineInv
    <2>  QED  BY <1>5, <2>1, <2>2 DEF EngineInv, TypeOK, Closed, authority
  <1>7. step[r] = 2 => Steps(kind[r]) = 2 /\ StepApproved(r, 1)'
    <2>1. approvals[r] \subseteq approvals'[r]  BY <1>5 DEF EngineInv, TypeOK
    <2>  QED  BY <2>1 DEF EngineInv, Progress, StepApproved
  <1>8. Writes(c, r, {a})
    <2>1. status'[r] = "rejected" /\ domain'[r] = "rejected"  BY <1>5 DEF EngineInv, TypeOK
    <2>2. step' = [step EXCEPT ![r] = step'[r]] /\ grants' = [grants EXCEPT ![r] = grants'[r]]
      BY <1>5 DEF EngineInv, TypeOK
    <2>3. domain'[r] \in DomainFor(status'[r])  BY <2>1 DEF DomainFor, Open
    <2>  QED  BY <1>4, <1>5, <1>7, <2>1, <2>2, <2>3 DEF Writes
  <1>  QED  BY <1>6, <1>8, WritesInv

\* cancel() and expire() close the request without a record.
Closes(c, r, st, dom) ==
    /\ status' = [status EXCEPT ![r] = st]
    /\ domain' = [domain EXCEPT ![r] = dom]
    /\ call' = [call EXCEPT ![c] = Idle]
    /\ UNCHANGED <<kind, step, assignee, approvals, grants, messages, authority, overdue>>

\* Closing a request so preserves the invariant if the row agrees.
LEMMA ClosesInv ==
    ASSUME EngineInv, NEW c \in Calls \cup Sweeps, NEW r \in Requests,
           NEW st \in {"cancelled", "expired"},
           NEW dom \in {"none", "pending", "approved", "rejected", "cancelled", "expired"},
           Guarded(kind[r]) => dom = "cancelled", Closes(c, r, st, dom)
    PROVE  EngineInv'
  <1>  USE DEF Closes
  <1>1. TypeOK'  BY DEF EngineInv, TypeOK, Closed, messages, authority
  <1>2. status'[r] = st /\ domain'[r] = dom  BY DEF EngineInv, TypeOK
  <1>3. Guarded(kind[r]) => domain'[r] \in DomainFor(status'[r])  BY <1>2 DEF DomainFor, Open
  <1>4. step[r] = 2 => Steps(kind[r]) = 2 /\ StepApproved(r, 1)'
    BY DEF EngineInv, Progress, StepApproved
  <1>5. /\ step' = [step EXCEPT ![r] = step'[r]] /\ grants' = [grants EXCEPT ![r] = grants'[r]]
        /\ approvals' = [approvals EXCEPT ![r] = @ \cup {}]
    BY DEF EngineInv, TypeOK
  <1>6. Writes(c, r, {})  BY <1>2, <1>3, <1>4, <1>5 DEF Writes
  <1>  QED  BY <1>1, <1>6, WritesInv

\* A cancellation, with or without onCancel.
LEMMA CommitCancelInv ==
    ASSUME EngineInv, NEW c \in Calls \cup Sweeps, CommitCancel(c)
    PROVE  EngineInv'
  <1>1. call[c] # Idle  BY CallFields DEF EngineInv, CommitCancel
  <1>2. PICK r \in Requests : r = call[c].req  BY <1>1, Committing
  <1>3. domain[r] \in {"none", "pending", "approved", "rejected", "cancelled", "expired"}
    BY DEF EngineInv, TypeOK
  <1>  DEFINE dom == IF HasOnCancel(kind[r]) THEN "cancelled" ELSE domain[r]
  <1>4. Closes(c, r, "cancelled", dom)  BY <1>2 DEF CommitCancel, Closes
  <1>5. Guarded(kind[r]) => dom = "cancelled"  BY DEF HasOnCancel
  <1>6. dom \in {"none", "pending", "approved", "rejected", "cancelled", "expired"}  BY <1>3
  <1>  HIDE DEF dom
  <1>  QED  BY <1>4, <1>5, <1>6, ClosesInv

\* The sweep closes a request.
LEMMA CommitExpireInv ==
    ASSUME EngineInv, NEW c \in Calls \cup Sweeps, CommitExpire(c)
    PROVE  EngineInv'
  <1>1. call[c] # Idle  BY CallFields DEF EngineInv, CommitExpire
  <1>2. PICK r \in Requests : r = call[c].req  BY <1>1, Committing
  <1>3. kind[r] \in AllKinds  BY DEF EngineInv, TypeOK
  <1>  DEFINE dom == ExpiredDomain(kind[r])
  <1>4. Closes(c, r, "expired", dom)  BY <1>2 DEF CommitExpire, Closes, ExpireHook
  <1>5. /\ Guarded(kind[r]) => dom = "cancelled"
        /\ dom \in {"none", "pending", "approved", "rejected", "cancelled", "expired"}
    BY <1>3 DEF ExpiredDomain, Guarded, AllKinds
  <1>  HIDE DEF dom
  <1>  QED  BY <1>4, <1>5, ClosesInv

-----------------------------------------------------------------------------
(* Filing, and what changes outside the engine                             *)

\* The service of the type writes its own row.
LEMMA CreateDomainRowInv ==
    ASSUME EngineInv, NEW r \in Requests, CreateDomainRow(r)
    PROVE  EngineInv'
  <1>  USE DEF EngineInv, CreateDomainRow, item, messages, authority
  <1>1. TypeOK'  BY DEF TypeOK
  <1>2. Progress' /\ HoldsShrink' /\ AssigneeFit' /\ CallShape' /\ CallEntitled'
    BY DEF Progress, HoldsShrink, AssigneeFit, StepApproved, CallShape, CallEntitled, InFlight,
           Deciding, Entitled, HeldBy, Approval
  <1>3. EveryStepApproved' /\ DecidedWithAuthority'
    BY DEF EveryStepApproved, StepApproved, DecidedWithAuthority, HeldBy
  <1>4. DomainAgrees'
    <2>1. \A q \in Requests : domain'[q] = IF q = r THEN "pending" ELSE domain[q]  BY DEF TypeOK
    <2>2. Guarded(kind[r]) => status[r] = "none"
      BY DEF DomainAgrees, DomainFor, TypeOK, Open, Closed
    <2>3. ASSUME NEW q \in Requests, Guarded(kind[q]) PROVE domain'[q] \in DomainFor(status[q])
      <3>1. CASE q = r  BY <2>1, <2>2, <2>3, <3>1 DEF DomainFor, Open
      <3>2. CASE q # r  BY <2>1, <2>3, <3>2 DEF DomainAgrees
      <3>  QED  BY <3>1, <3>2
    <2>  QED  BY <2>3 DEF DomainAgrees
  <1>  QED  BY <1>1, <1>2, <1>3, <1>4

\* submit(): a request to work from home goes to a manager who can decide it.
LEMMA SubmitInv ==
    ASSUME EngineInv, NEW r \in Requests, Submit(r)
    PROVE  EngineInv'
  <1>  DEFINE dest == IF kind[r] = "wfh" THEN ManagerOf(Requester[r]) ELSE Nobody
  <1>1. dest \in Users \cup {Nobody} /\ (dest # Nobody => kind[r] = "wfh" /\ "step1" \in holds[dest])
    BY DEF ManagerOf
  <1>2. /\ domain[r] # "none" /\ status[r] = "none"
        /\ status' = [status EXCEPT ![r] = "pending"]
        /\ assignee' = [assignee EXCEPT ![r] = dest]
        /\ NotifyDecisionMakers(r, dest, 1)
        /\ UNCHANGED <<kind, step, approvals, domain, grants, notices, holds, offboarded,
                       delegations, overdue, call>>
    BY DEF Submit, authority
  <1>  HIDE DEF dest
  <1>3. TypeOK'
    <2>1. /\ prompts' \in [Requests -> SUBSET ((1 .. 2) \X Users)]
          /\ alarms' \in [Requests -> SUBSET ((1 .. 2) \X Users)]
      BY <1>1, <1>2, NotifyType DEF EngineInv
    <2>2. assignee' \in [Requests -> Users \cup {Nobody}]  BY <1>1, <1>2 DEF EngineInv, TypeOK
    <2>  QED  BY <1>2, <2>1, <2>2 DEF EngineInv, TypeOK, Open
  <1>4. \A q \in Requests : /\ status'[q] = IF q = r THEN "pending" ELSE status[q]
                            /\ assignee'[q] = IF q = r THEN dest ELSE assignee[q]
    BY <1>2 DEF EngineInv, TypeOK
  <1>5. Progress' /\ HoldsShrink'
    BY <1>2, <1>4 DEF EngineInv, Progress, HoldsShrink, StepApproved
  <1>6. AssigneeFit'  BY <1>1, <1>2, <1>4 DEF EngineInv, AssigneeFit
  <1>7. \A c \in InFlight' : c \in InFlight /\ call'[c] = call[c] /\ call[c].req \in Requests \ {r}
    BY <1>2, CallFields DEF EngineInv, CallShape, InFlight
  <1>8. CallShape'  BY <1>2, <1>4, <1>7 DEF EngineInv, CallShape, StepApproved
  <1>9. CallEntitled'
    BY <1>2, <1>4, <1>7 DEF EngineInv, CallEntitled, Deciding, Entitled, HeldBy, Approval
  <1>10. EveryStepApproved'  BY <1>2, <1>4 DEF EngineInv, EveryStepApproved, StepApproved
  <1>11. DecidedWithAuthority'
    <2>1. approvals[r] = {}  BY <1>2 DEF EngineInv, Progress
    <2>  QED  BY <1>2, <1>4, <2>1 DEF EngineInv, DecidedWithAuthority, HeldBy
  <1>12. DomainAgrees'
    <2>1. Guarded(kind[r]) => domain[r] = "pending"
      BY <1>2 DEF EngineInv, DomainAgrees, DomainFor, Open
    <2>  QED  BY <1>2, <1>4, <2>1 DEF EngineInv, DomainAgrees, DomainFor, Open
  <1>  QED  BY <1>3, <1>5, <1>6, <1>8, <1>9, <1>10, <1>11, <1>12 DEF EngineInv

\* Delegations and deadlines are read, and decide nothing by themselves.
LEMMA AroundInv ==
    ASSUME EngineInv, delegations' \subseteq Users \X Users, overdue' \in [Requests -> BOOLEAN],
           UNCHANGED <<kind, item, domain, grants, messages, holds, offboarded, call>>
    PROVE  EngineInv'
  <1>  USE DEF EngineInv, item, messages
  <1>1. TypeOK'  BY DEF TypeOK
  <1>2. Progress' /\ HoldsShrink' /\ AssigneeFit' /\ CallShape' /\ CallEntitled'
    BY DEF Progress, HoldsShrink, AssigneeFit, StepApproved, CallShape, CallEntitled, InFlight,
           Deciding, Entitled, HeldBy, Approval
  <1>3. EveryStepApproved' /\ DecidedWithAuthority' /\ DomainAgrees'
    BY DEF EveryStepApproved, StepApproved, DecidedWithAuthority, HeldBy, DomainAgrees
  <1>  QED  BY <1>1, <1>2, <1>3

\* A leaver loses every permission, and stays the assignee of what was filed.
LEMMA OffboardInv ==
    ASSUME EngineInv, NEW u \in Users, Offboard(u)
    PROVE  EngineInv'
  <1>1. /\ offboarded' = offboarded \cup {u} /\ holds' = [holds EXCEPT ![u] = {}]
        /\ UNCHANGED <<kind, status, step, assignee, approvals, domain, grants, prompts, alarms,
                       notices, delegations, overdue, call>>
    BY DEF Offboard, item, messages
  <1>2. holds' \in [Users -> SUBSET Permissions]
        /\ \A w \in Users : holds'[w] = IF w = u THEN {} ELSE holds[w]
    <2>1. holds \in [Users -> SUBSET Permissions]  BY DEF EngineInv, TypeOK
    <2>  QED  BY <1>1, <2>1
  <1>3. TypeOK'  BY <1>1, <1>2 DEF EngineInv, TypeOK
  <1>4. \A r \in Requests : assignee[r] \in Users \cup {Nobody}  BY DEF EngineInv, TypeOK
  <1>5. HoldsShrink'  BY <1>2 DEF EngineInv, HoldsShrink
  <1>6. AssigneeFit'  BY <1>1, <1>2, <1>4 DEF EngineInv, AssigneeFit
  <1>7. Progress' /\ CallShape'
    BY <1>1 DEF EngineInv, Progress, StepApproved, CallShape, InFlight
  <1>8. CallEntitled'
    BY <1>1 DEF EngineInv, CallEntitled, InFlight, Deciding, Entitled, HeldBy, Approval
  <1>9. EveryStepApproved' /\ DecidedWithAuthority' /\ DomainAgrees'
    BY <1>1 DEF EngineInv, EveryStepApproved, StepApproved, DecidedWithAuthority, HeldBy, DomainAgrees
  <1>  QED  BY <1>3, <1>5, <1>6, <1>7, <1>8, <1>9 DEF EngineInv

-----------------------------------------------------------------------------
(* The theorems                                                            *)

\* Every step of the engine preserves the invariant.
LEMMA NextEngineInv == EngineInv /\ [Next]_vars => EngineInv'
  <1>  SUFFICES ASSUME EngineInv, [Next]_vars PROVE EngineInv'  OBVIOUS
  <1>1. ASSUME NEW r \in Requests, CreateDomainRow(r) PROVE EngineInv'  BY <1>1, CreateDomainRowInv
  <1>2. ASSUME NEW r \in Requests, Submit(r) PROVE EngineInv'  BY <1>2, SubmitInv
  <1>3. ASSUME NEW r \in Requests, PassDeadline(r) PROVE EngineInv'
    <2>1. overdue' \in [Requests -> BOOLEAN]  BY <1>3 DEF PassDeadline, EngineInv, TypeOK
    <2>2. delegations' \subseteq Users \X Users
      BY <1>3 DEF PassDeadline, EngineInv, TypeOK, authority
    <2>  QED  BY <1>3, <2>1, <2>2, AroundInv DEF PassDeadline, authority
  <1>4. ASSUME NEW c \in Calls, NEW r \in Requests, NEW u \in Users,
               NEW op \in {"approve", "reject", "cancel"}, Read(c, op, r, u)
        PROVE  EngineInv'
    BY <1>4, ReadInv DEF Ops
  <1>5. ASSUME NEW c \in Sweeps, NEW r \in Requests, ReadToExpire(c, r) PROVE EngineInv'
    BY <1>5, ReadInv DEF ReadToExpire, Ops
  <1>6. ASSUME NEW c \in Calls \cup Sweeps, AuthorizeDecision(c) PROVE EngineInv'
    BY <1>6, AuthorizeDecisionInv
  <1>7. ASSUME NEW c \in Calls \cup Sweeps, AuthorizeCancel(c) PROVE EngineInv'
    BY <1>7, AuthorizeCancelInv
  <1>8. ASSUME NEW c \in Calls \cup Sweeps, Fail(c) PROVE EngineInv'  BY <1>8, FailInv
  <1>9. ASSUME NEW c \in Calls \cup Sweeps, Commit(c) PROVE EngineInv'
    BY <1>9, CommitApproveStepInv, CommitApproveInv, CommitRejectInv, CommitCancelInv,
       CommitExpireInv DEF Commit
  <1>10. ASSUME NEW d \in Delegable, Delegate(d) PROVE EngineInv'
    <2>1. delegations' \subseteq Users \X Users  BY <1>10 DEF Delegate, EngineInv, TypeOK
    <2>2. overdue' \in [Requests -> BOOLEAN]  BY <1>10 DEF Delegate, EngineInv, TypeOK
    <2>  QED  BY <1>10, <2>1, <2>2, AroundInv DEF Delegate
  <1>11. ASSUME NEW d \in delegations, EndDelegation(d) PROVE EngineInv'
    <2>1. delegations' \subseteq Users \X Users  BY <1>11 DEF EndDelegation, EngineInv, TypeOK
    <2>2. overdue' \in [Requests -> BOOLEAN]  BY <1>11 DEF EndDelegation, EngineInv, TypeOK
    <2>  QED  BY <1>11, <2>1, <2>2, AroundInv DEF EndDelegation
  <1>12. ASSUME NEW u \in Users, Offboard(u) PROVE EngineInv'  BY <1>12, OffboardInv
  <1>13. CASE UNCHANGED vars
    <2>1. delegations' \subseteq Users \X Users /\ overdue' \in [Requests -> BOOLEAN]
      BY <1>13 DEF vars, EngineInv, TypeOK
    <2>  QED  BY <1>13, <2>1, AroundInv DEF vars, item, messages
  <1>  QED  BY <1>1, <1>2, <1>3, <1>4, <1>5, <1>6, <1>7, <1>8, <1>9, <1>10, <1>11, <1>12, <1>13 DEF Next

\* The engine keeps its inductive invariant.
THEOREM EngineInvariance == Spec => []EngineInv
  BY InitEngineInv, NextEngineInv, PTL DEF Spec

\* The tables of the engine and the memory of its calls keep their types.
THEOREM EngineTypeCorrect == Spec => []TypeOK
  <1>1. EngineInv => TypeOK  BY DEF EngineInv
  <1>  QED  BY <1>1, EngineInvariance, PTL

\* approve() approves a request, and onApprove of an access request grants,
\* only when every step of the chain has an approval on record, whatever
\* number of calls race on steps they read earlier.
THEOREM ChainIsComplete == Spec => []EveryStepApproved
  <1>1. EngineInv => EveryStepApproved  BY DEF EngineInv
  <1>  QED  BY <1>1, EngineInvariance, PTL

\* Every decision on record was within the authority of who made it, for
\* every assignment of permissions, managers and delegations.
THEOREM DecisionsAreEntitled == Spec => []DecidedWithAuthority
  <1>1. EngineInv => DecidedWithAuthority  BY DEF EngineInv
  <1>  QED  BY <1>1, EngineInvariance, PTL

\* The request and the row of a guarded type agree after every step.
THEOREM RowsAgree == Spec => []DomainAgrees
  <1>1. EngineInv => DomainAgrees  BY DEF EngineInv
  <1>  QED  BY <1>1, EngineInvariance, PTL

-----------------------------------------------------------------------------
(* One decision for a guarded type                                         *)

\* A closed request of a guarded type has a row that is not pending.
LEMMA ClosedRow ==
    ASSUME EngineInv, NEW r \in Requests, Guarded(kind[r]), status[r] \in Closed
    PROVE  ~HookAccepts(r)
  <1>1. domain[r] \in DomainFor(status[r])  BY DEF EngineInv, DomainAgrees
  <1>  QED  BY <1>1 DEF HookAccepts, DomainFor, Open, Closed

\* What one transaction does to a closed request of a guarded type.
LEMMA CommitOneDecision ==
    ASSUME EngineInv, NEW c \in Calls \cup Sweeps, Commit(c),
           NEW r \in Requests, Guarded(kind[r]), status[r] \in Closed
    PROVE  status'[r] \in {status[r], "expired"}
  <1>1. call[c] # Idle
    BY CallFields DEF EngineInv, Commit, CommitApproveStep, CommitApprove, CommitReject,
                      CommitCancel, CommitExpire
  <1>2. PICK q \in Requests : q = call[c].req  BY <1>1, Committing
  <1>3. \E st \in Open \cup Closed : status' = [status EXCEPT ![q] = st]
    BY <1>2 DEF Commit, CommitApproveStep, CommitApprove, CommitReject, CommitCancel, CommitExpire,
                Open, Closed
  <1>4. CASE q # r
    <2>1. status'[r] = status[r]  BY <1>3, <1>4 DEF EngineInv, TypeOK
    <2>  QED  BY <2>1
  <1>5. CASE q = r
    <2>1. ~HookAccepts(q)  BY <1>5, ClosedRow
    <2>2. ~CommitApprove(c) /\ ~CommitReject(c) /\ ~CommitCancel(c)
      BY <1>2, <1>5, <2>1 DEF CommitApprove, CommitReject, CommitCancel, HasOnCancel
    <2>3. ~CommitApproveStep(c)
      <3>1. call[c].step \in {1, 2} /\ kind[q] \in AllKinds  BY <1>1, <1>2, Committing
      <3>2. Steps(kind[q]) = 1  BY <1>5, <3>1, StepsOfKind
      <3>3. IsFinalStep(call[c])  BY <1>2, <3>1, <3>2 DEF IsFinalStep
      <3>  QED  BY <3>3 DEF CommitApproveStep
    <2>4. status' = [status EXCEPT ![r] = "expired"]
      BY <1>2, <1>5, <2>2, <2>3 DEF Commit, CommitExpire
    <2>  QED  BY <2>4 DEF EngineInv, TypeOK
  <1>  QED  BY <1>4, <1>5

\* Of the people who decide a request of a guarded type exactly one
\* succeeds: whatever calls race, nothing but the sweep's expire() changes
\* the outcome.
THEOREM DecidedOnce == Spec => OneDecision
  <1>  DEFINE A == \A r \in Requests : Guarded(kind[r]) /\ status[r] \in Closed =>
                      status'[r] \in {status[r], "expired"}
  <1>1. EngineInv /\ [Next]_vars => [A]_vars
    <2>  SUFFICES ASSUME EngineInv, Next, NEW r \in Requests, Guarded(kind[r]), status[r] \in Closed
                  PROVE  status'[r] \in {status[r], "expired"}
      OBVIOUS
    <2>  USE DEF item
    <2>1. CASE \E q \in Requests : CreateDomainRow(q) \/ PassDeadline(q)
      BY <2>1 DEF CreateDomainRow, PassDeadline
    <2>2. ASSUME NEW q \in Requests, Submit(q) PROVE status'[r] = status[r]
      <3>1. q # r  BY <2>2 DEF Submit, Closed
      <3>  QED  BY <2>2, <3>1 DEF Submit, EngineInv, TypeOK
    <2>3. CASE \E c \in Calls, q \in Requests, u \in Users, op \in {"approve", "reject", "cancel"} :
                  Read(c, op, q, u)
      BY <2>3 DEF Read
    <2>4. CASE \E c \in Sweeps, q \in Requests : ReadToExpire(c, q)
      BY <2>4 DEF ReadToExpire, Read
    <2>5. CASE \E c \in Calls \cup Sweeps : AuthorizeDecision(c) \/ AuthorizeCancel(c) \/ Fail(c)
      BY <2>5 DEF AuthorizeDecision, AuthorizeCancel, Fail
    <2>6. ASSUME NEW c \in Calls \cup Sweeps, Commit(c)
          PROVE  status'[r] \in {status[r], "expired"}
      BY <2>6, CommitOneDecision
    <2>7. CASE \E d \in Delegable : Delegate(d)  BY <2>7 DEF Delegate
    <2>8. CASE \E d \in delegations : EndDelegation(d)  BY <2>8 DEF EndDelegation
    <2>9. CASE \E u \in Users : Offboard(u)  BY <2>9 DEF Offboard
    <2>  QED  BY <2>1, <2>2, <2>3, <2>4, <2>5, <2>6, <2>7, <2>8, <2>9 DEF Next
  <1>  QED  BY <1>1, EngineInvariance, PTL DEF Spec, OneDecision

-----------------------------------------------------------------------------
(* Somebody is told                                                        *)

\* The administrators of the start who cannot leave are still there.
Steadfast == \A u \in Users \ Leavers : holds[u] = Holds[u]

\* notifyDecisionMakers reaches somebody as long as there is an administrator.
LEMMA NotifyReaches ==
    ASSUME TypeOK, Steadfast, NEW admin \in Users \ Leavers, "rbac" \in Holds[admin],
           NEW r \in Requests, NEW to \in Users \cup {Nobody}, NEW s \in 1 .. 2,
           NotifyDecisionMakers(r, to, s)
    PROVE  /\ \E u \in Users : <<s, u>> \in prompts'[r] \cup alarms'[r]
           /\ \A q \in Requests \ {r} : prompts'[q] = prompts[q] /\ alarms'[q] = alarms[q]
  <1>  DEFINE whom == Recipients(r, to, s)
              T == {s} \X HoldersOf("rbac")
  <1>1. prompts' = [prompts EXCEPT ![r] = @ \cup ({s} \X whom)]  BY DEF NotifyDecisionMakers
  <1>2. alarms' = [alarms EXCEPT ![r] = IF whom = {} THEN @ \cup T ELSE @]
    BY DEF NotifyDecisionMakers
  <1>3. whom \subseteq Users  BY DEF Recipients, HoldersOf
  <1>4. <<s, admin>> \in T  BY DEF HoldersOf, Steadfast
  <1>  HIDE DEF whom, T
  <1>5. prompts \in [Requests -> SUBSET ((1 .. 2) \X Users)]
        /\ alarms \in [Requests -> SUBSET ((1 .. 2) \X Users)]
    BY DEF TypeOK
  <1>6. /\ prompts'[r] = prompts[r] \cup ({s} \X whom)
        /\ whom = {} => alarms'[r] = alarms[r] \cup T
        /\ \A q \in Requests \ {r} : prompts'[q] = prompts[q] /\ alarms'[q] = alarms[q]
    BY <1>1, <1>2, <1>5
  <1>7. CASE whom = {}  BY <1>4, <1>6, <1>7
  <1>8. CASE whom # {}
    <2>1. PICK u \in Users : u \in whom  BY <1>3, <1>8
    <2>2. <<s, u>> \in {s} \X whom  BY <2>1
    <2>  QED  BY <1>6, <2>2
  <1>  QED  BY <1>6, <1>7, <1>8

\* As long as one administrator can never be offboarded, every open request
\* has had somebody asked to decide the step it is at, or an administrator
\* told: the escalation of notifyDecisionMakers leaves no request unseen.
\* (Without an administrator the code has nobody to tell.)
THEOREM NobodyIsForgotten ==
    ASSUME NEW admin \in Users \ Leavers, "rbac" \in Holds[admin]
    PROVE  Spec => []SomebodyWasTold
  <1>  DEFINE Inv == EngineInv /\ Steadfast /\ SomebodyWasTold
  <1>1. Init => Inv  BY InitEngineInv DEF Init, Steadfast, SomebodyWasTold, Open
  <1>2. Inv /\ [Next]_vars => Inv'
    <2>  SUFFICES ASSUME Inv, [Next]_vars PROVE Steadfast' /\ SomebodyWasTold'
      BY NextEngineInv
    <2>  USE DEF item, messages, authority
    <2>0. TypeOK /\ Steadfast /\ 1 \in 1 .. 2 /\ 2 \in 1 .. 2  BY DEF EngineInv
    <2>1. Steadfast'
      <3>1. CASE \E u \in Users : Offboard(u)
        BY <3>1 DEF Offboard, Steadfast, EngineInv, TypeOK
      <3>2. CASE UNCHANGED holds  BY <3>2 DEF Steadfast
      <3>  QED
        BY <3>1, <3>2 DEF Next, vars, CreateDomainRow, Submit, PassDeadline, Read, ReadToExpire,
           AuthorizeDecision, AuthorizeCancel, Fail, Commit, CommitApproveStep, CommitApprove,
           CommitReject, CommitCancel, CommitExpire, Delegate, EndDelegation
    <2>2. ASSUME NEW q \in Requests, Submit(q) PROVE SomebodyWasTold'
      <3>  DEFINE dest == IF kind[q] = "wfh" THEN ManagerOf(Requester[q]) ELSE Nobody
      <3>1. dest \in Users \cup {Nobody}  BY DEF ManagerOf
      <3>2. NotifyDecisionMakers(q, dest, 1)  BY <2>2 DEF Submit
      <3>  HIDE DEF dest
      <3>3. /\ \E u \in Users : <<1, u>> \in prompts'[q] \cup alarms'[q]
            /\ \A r \in Requests \ {q} : prompts'[r] = prompts[r] /\ alarms'[r] = alarms[r]
        BY <2>0, <3>1, <3>2, NotifyReaches
      <3>4. step'[q] = 1  BY <2>2 DEF Submit, EngineInv, Progress
      <3>5. \A r \in Requests \ {q} : status'[r] = status[r] /\ step'[r] = step[r]
        BY <2>2 DEF Submit, EngineInv, TypeOK
      <3>  QED  BY <3>3, <3>4, <3>5 DEF SomebodyWasTold
    <2>3. ASSUME NEW c \in Calls \cup Sweeps, CommitApproveStep(c) PROVE SomebodyWasTold'
      <3>1. call[c].step = 1 /\ call[c] # Idle
        BY <2>3, CommitApproveStepInv, CallFields DEF EngineInv, CommitApproveStep
      <3>2. PICK q \in Requests : q = call[c].req  BY <3>1, Committing
      <3>3. assignee[q] \in Users \cup {Nobody}  BY DEF EngineInv, TypeOK
      <3>4. NotifyDecisionMakers(q, assignee[q], 2)  BY <2>3, <3>1, <3>2 DEF CommitApproveStep
      <3>5. /\ \E u \in Users : <<2, u>> \in prompts'[q] \cup alarms'[q]
            /\ \A r \in Requests \ {q} : prompts'[r] = prompts[r] /\ alarms'[r] = alarms[r]
        BY <2>0, <3>3, <3>4, NotifyReaches
      <3>6. step'[q] = 2 /\ \A r \in Requests \ {q} : status'[r] = status[r] /\ step'[r] = step[r]
        BY <2>3, <3>1, <3>2 DEF CommitApproveStep, EngineInv, TypeOK
      <3>  QED  BY <3>5, <3>6 DEF SomebodyWasTold
    <2>4. ASSUME NEW c \in Calls \cup Sweeps,
                 CommitApprove(c) \/ CommitReject(c) \/ CommitCancel(c) \/ CommitExpire(c)
          PROVE  SomebodyWasTold'
      <3>1. call[c] # Idle
        BY <2>4, CallFields DEF EngineInv, CommitApprove, CommitReject, CommitCancel, CommitExpire
      <3>2. PICK q \in Requests : q = call[c].req  BY <3>1, Committing
      <3>3. prompts' = prompts /\ alarms' = alarms
        BY <2>4 DEF CommitApprove, CommitReject, CommitCancel, CommitExpire
      <3>4. \E st \in Closed : status' = [status EXCEPT ![q] = st]
        BY <2>4, <3>2 DEF CommitApprove, CommitReject, CommitCancel, CommitExpire, Closed
      <3>5. step' = step \/ step' = [step EXCEPT ![q] = call[c].step]
        BY <2>4, <3>2 DEF CommitApprove, CommitReject, CommitCancel, CommitExpire
      <3>6. status'[q] \notin Open  BY <3>4 DEF EngineInv, TypeOK, Open, Closed
      <3>7. \A r \in Requests \ {q} : status'[r] = status[r] /\ step'[r] = step[r]
        BY <3>4, <3>5 DEF EngineInv, TypeOK
      <3>  QED  BY <3>3, <3>6, <3>7 DEF SomebodyWasTold
    <2>5. CASE UNCHANGED <<status, step, prompts, alarms>>
      BY <2>1, <2>5 DEF SomebodyWasTold
    <2>  QED
      BY <2>1, <2>2, <2>3, <2>4, <2>5 DEF Next, vars, CreateDomainRow, PassDeadline, Read,
         ReadToExpire, AuthorizeDecision, AuthorizeCancel, Fail, Commit, Delegate, EndDelegation,
         Offboard
  <1>3. Inv => SomebodyWasTold  OBVIOUS
  <1>  QED  BY <1>1, <1>2, <1>3, PTL DEF Spec

=============================================================================
