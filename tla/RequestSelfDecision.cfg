\* The requester holds a delegation from another manager.
SPECIFICATION Spec
CONSTANTS
    alice = alice
    bob = bob
    carol = carol
    r1 = r1
    Nobody = Nobody
    Requests = {r1}
    Users = {alice, bob, carol}
    Calls = {c1}
    Sweeps = {sweep}
    Kinds = {"leave"}
    Requester <- MCRequester
    Manager <- MCManager
    Holds <- MCHolds
    Leavers = {}
    Delegable <- ToRequester
INVARIANTS
    NoSelfDecision
CHECK_DEADLOCK FALSE
