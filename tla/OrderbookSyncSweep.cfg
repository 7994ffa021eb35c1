\* Silences of more than two hours, with the stale sweep racing every other
\* task; the tasks are scheduled fairly, the environment is free.
CONSTANTS
    NumDiffs = 2
    Levels = {"bid", "ask"}
    Touch <- MCTouch
    FirstId <- MCFirstId
    FinalId <- MCFinalId
    BaseId <- MCBaseId
    Capacity = 1
    LongSilence = TRUE
    NoBook = NoBook

SPECIFICATION FairSpec

INVARIANT TornDown
PROPERTY DelistEndsTask
PROPERTY SyncingResolves
PROPERTY LiveCatchesUp
