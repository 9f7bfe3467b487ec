\* A leave request that is decided while the sweep is about to expire it.
SPECIFICATION Spec
CONSTANTS
    alice = alice
    bob = bob
    carol = carol
    r1 = r1
    Nobody = Nobody
    Requests = {r1}
    Users = {alice, bob, carol}
    Calls = {c1}
    Sweeps = {sweep}
    Kinds = {"leave"}
    Requester <- MCRequester
    Manager <- MCManager
    Holds <- MCHolds
    Leavers = {}
    Delegable = {}
PROPERTIES
    ExpireLeavesDecided
CHECK_DEADLOCK FALSE
