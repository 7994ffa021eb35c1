\* One tick is some ten seconds: 60 s for a request against 30 s and more
\* between batches; cooldown 2, ceiling 5, three failures to get there.
CONSTANTS
    Batches <- MCBatches
    Priority = TRUE
    BufferDelay = 1
    BatchGap = 5
    PriorityTimeout = 4
    CheckEvery = 2
    Spread = 4
    HttpTimeout = 9
    Cooldown = 2
    Growth <- MCGrowth
    MaxBackoff = 5
    MaxIdle = 6
    MaxFails = 3
    Schedule <- MCSchedule

SPECIFICATION MCSpec
CHECK_DEADLOCK FALSE

INVARIANT BatchesApart
PROPERTY AllStarted
PROPERTY RequestsSpaced
PROPERTY KeepsAsking
