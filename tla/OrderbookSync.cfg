\* The symbol's life with outages, delistings and failing snapshots, but no
\* two-hour silence.
CONSTANTS
    NumDiffs = 4
    Levels = {"bid", "ask"}
    Touch <- MCTouch
    FirstId <- MCFirstId
    FinalId <- MCFinalId
    BaseId <- MCBaseId
    Capacity = 3
    LongSilence = FALSE
    NoBook = NoBook

SPECIFICATION Spec

INVARIANT SyncExact
INVARIANT LiveHeals
PROPERTY FeedRefined
