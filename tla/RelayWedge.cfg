\* A pass throws while another is queued behind it.
SPECIFICATION FairSpec
CONSTANTS
    Callers = {cron, wake}
    Promises = {p1, p2, p3}
    Null = Null
PROPERTIES
    PassesKeepStarting
