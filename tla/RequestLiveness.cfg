\* The sweep closes what people leave open: a leave request, or an access
\* request at either step, while two calls at a time may decide it.
SPECIFICATION FairSpec
CONSTANTS
    alice = alice
    bob = bob
    carol = carol
    r1 = r1
    Nobody = Nobody
    Requests = {r1}
    Users = {alice, bob, carol}
    Calls = {c1, c2}
    Sweeps = {sweep}
    Kinds = {"leave", "access"}
    Requester <- MCRequester
    Manager <- MCManager
    Holds <- MCHolds
    Leavers = {carol}
    Delegable = {}
PROPERTIES
    EveryRequestCloses
CHECK_DEADLOCK FALSE
