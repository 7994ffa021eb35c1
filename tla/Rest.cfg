\* Minutes polled as windows of four, the last of them in progress; two
\* chunks of symbols; two requests at a time over two proxies whose scores
\* go from 0 to 3, with 2 as the least that is usable.
CONSTANTS
    Limit = 4
    HoldsBack = TRUE
    MaxGap = 2
    MaxBuckets = 6
    MaxRestarts = 1
    Chunks <- MCChunks
    Callers = {1, 2}
    N = 2
    Full = 3
    Sick = 1
    Reward = 1
    Penalties = {1, 2}
    Heal = 1

SPECIFICATION MCSpec
CHECK_DEADLOCK FALSE

INVARIANT NoHole
INVARIANT InOrder
INVARIANT FallbackJustified
PROPERTY EveryoneIsPolled
PROPERTY DelistedGoQuiet
PROPERTY NoneAbandoned
