SPECIFICATION FairSpec
CONSTANTS
    Focus = {"idempotency", "webhooks", "accounts", "leave"}
    f1 = f1
    f2 = f2
    other = c3
    Copies = {c1, c3}
    Fingerprints = {f1, f2}
    Fingerprint <- MCFingerprint
    NoAnswer = NoAnswer
    NoCopy = NoCopy
    Faults = TRUE
    Principals = {u1}
    Roles = {staff}
    Admins = {a1, a2}
    Readers = {c1}
    Ttl = 1
    MaxFill = 1
    Deliveries = {d1, d2}
    Senders = {w1}
    Nobody = Nobody
    MaxDeliveries = 1
    ExpirePerClaim = 1
    MaxManualRetries = 1
    MaxTasks = 2
    GraphWorkers = {g1, g2}
    NoWorker = NoWorker
    MaxTaskAttempts = 1
    Editors = {}
    Targets = {"on_leave", "offboarded"}
    MayTurnOff = TRUE
    Files = {x, y}
    Callers = {k1, k2}
    Quota = 1
    first = l1
    Asks = {l1, l2}
    Forms <- MCForms
    Clerks = {m1}
    Allowance = 1
    AccessAsks = {r1}
    Approvers = {p1, p2}
    MaxIssued = 2
    PodsDie = TRUE
PROPERTIES
    KeyIsFreed
    EveryDeliveryEnds
    EveryTaskEnds
    EveryAskEnds
CHECK_DEADLOCK FALSE
