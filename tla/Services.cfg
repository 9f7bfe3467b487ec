SPECIFICATION Spec
CONSTANTS
    Focus = {"idempotency", "authz", "webhooks", "accounts", "files", "leave", "access"}
    f1 = f1
    f2 = f2
    other = c3
    Copies = {c1, c2, c3}
    Fingerprints = {f1, f2}
    Fingerprint <- MCFingerprint
    NoAnswer = NoAnswer
    NoCopy = NoCopy
    Faults = TRUE
    Principals = {u1}
    Roles = {staff}
    Admins = {a1, a2}
    Readers = {c1}
    Ttl = 1
    MaxFill = 1
    Deliveries = {d1, d2}
    Senders = {a1, a2}
    Nobody = Nobody
    MaxDeliveries = 2
    ExpirePerClaim = 1
    MaxManualRetries = 1
    MaxTasks = 2
    GraphWorkers = {a1, a2}
    NoWorker = NoWorker
    MaxTaskAttempts = 2
    Editors = {h1}
    Targets = {"on_leave", "offboarded"}
    MayTurnOff = FALSE
    Files = {x, y}
    Callers = {a1, a2}
    Quota = 1
    first = l1
    Asks = {l1, l2}
    Forms <- MCForms
    Clerks = {a1, a2}
    Allowance = 1
    AccessAsks = {r1}
    Approvers = {a1, a2}
    MaxIssued = 2
    PodsDie = FALSE
SYMMETRY Symmetry
INVARIANTS
    TypeOK
    ReplayMeansDone
    RepeatedOnlyByOvertaken
    StaleAtMostTtl
    QuietMeansFresh
    AccountFollowsStatus
    OneCallAtATime
    
    NoDoubleBooking
    OneGrantEach
    LeaverKeepsNothing
PROPERTIES
    FailedIsFinal
    QuotaHeld
    NothingLeftBehind
    AttachedStays
    DecisionStands
    ClosedMonthIsQuiet
    OverdrawnOnlyByRace
CHECK_DEADLOCK FALSE
