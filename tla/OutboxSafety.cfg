\* Two workers and two rows that share batches; deliveries may outlive their
\* lease.  Each row has two attempts and may be deferred once.
SPECIFICATION Spec
CONSTANTS
    Rows = {1, 2}
    Relays = {w1, w2}
    Tokens = {t1, t2, t3, t4}
    NoToken = NoToken
    MaxAttempts = 2
    BatchSize = 2
    Lease = 1
    BackoffCap = 1
    MaxHint = 1
    MaxDefers = 1
    Timely = FALSE
SYMMETRY RelaySymmetry
INVARIANTS
    TypeOK
    SettledOnce
    DeliveriesPaid
    SnapshotCurrent
PROPERTIES
    TerminalIsFinal
    ImplementsContract
