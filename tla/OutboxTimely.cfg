\* Every row is handled within its lease of two ticks; three rows in
\* batches of two.
SPECIFICATION Spec
CONSTANTS
    Rows = {1, 2, 3}
    Relays = {w1, w2}
    Tokens = {t1, t2, t3, t4}
    NoToken = NoToken
    MaxAttempts = 1
    BatchSize = 2
    Lease = 2
    BackoffCap = 1
    MaxHint = 1
    MaxDefers = 0
    Timely = TRUE
SYMMETRY RelaySymmetry
INVARIANTS
    LeaseCoversWork
