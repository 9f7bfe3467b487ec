SPECIFICATION Spec
CONSTANTS
    Focus = {"webhooks"}
    f1 = f1
    f2 = f2
    other = c3
    Copies = {c1, c2, c3}
    Fingerprints = {f1, f2}
    Fingerprint <- MCFingerprint
    NoAnswer = NoAnswer
    NoCopy = NoCopy
    Faults = TRUE
    Principals = {u1}
    Roles = {staff}
    Admins = {a1, a2}
    Readers = {c1}
    Ttl = 1
    MaxFill = 1
    Deliveries = {d1}
    Senders = {w1, w2}
    Nobody = Nobody
    MaxDeliveries = 2
    ExpirePerClaim = 1
    MaxManualRetries = 1
    MaxTasks = 2
    GraphWorkers = {g1, g2}
    NoWorker = NoWorker
    MaxTaskAttempts = 2
    Editors = {}
    Targets = {"on_leave", "offboarded"}
    MayTurnOff = FALSE
    Files = {x, y}
    Callers = {k1, k2}
    Quota = 1
    first = l1
    Asks = {l1, l2}
    Forms <- MCForms
    Clerks = {m1, m2}
    Allowance = 1
    AccessAsks = {r1}
    Approvers = {p1, p2}
    MaxIssued = 2
    PodsDie = FALSE
INVARIANT RetryIsAttempted
CHECK_DEADLOCK FALSE
