\* Two workers compete for one row with three attempts and one deferral;
\* deliveries may outlive the lease of two ticks and workers may die.
SPECIFICATION FairSpec
CONSTANTS
    Rows = {1}
    Relays = {w1, w2}
    Tokens = {t1, t2, t3}
    NoToken = NoToken
    MaxAttempts = 3
    BatchSize = 1
    Lease = 2
    BackoffCap = 2
    MaxHint = 1
    MaxDefers = 1
    Timely = FALSE
PROPERTIES
    EveryRowEnds
