\* The cron and two wake-ups call relay() while passes end and throw.
SPECIFICATION FairSpec
CONSTANTS
    Callers = {cron, wake1, wake2}
    Promises = {p1, p2, p3}
    Null = Null
INVARIANTS
    OnePassAtATime
    AwaitsLaterPass
PROPERTIES
    ServedUnlessThrown
