\* One request of any of the four kinds of type, two calls in flight and the
\* sweep; HR may be delegated to, the requester may delegate, and the assignee
\* and the only reviewer of the second step may leave.
SPECIFICATION Spec
CONSTANTS
    alice = alice
    bob = bob
    carol = carol
    r1 = r1
    Nobody = Nobody
    Requests = {r1}
    Users = {alice, bob, carol}
    Calls = {c1, c2}
    Sweeps = {sweep}
    Kinds = {"leave", "wfh", "overtime", "access"}
    Requester <- MCRequester
    Manager <- MCManager
    Holds <- MCHolds
    Leavers = {bob, carol}
    Delegable <- MCDelegable
SYMMETRY CallSymmetry
INVARIANTS
    TypeOK
    EveryStepApproved
    DecidedWithAuthority
    DomainAgrees
    SomebodyWasTold
PROPERTIES
    OneDecision
