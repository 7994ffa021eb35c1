\* Two edits, two crashes, a signal at any point; a drain may hang.
CONSTANTS
    MaxEdits = 2
    MaxRequests = 3
    MaxCrashes = 2

SPECIFICATION FairSpec
CHECK_DEADLOCK FALSE

INVARIANT NotLeftBehind
PROPERTY NoOverlap
PROPERTY RestartApplied
PROPERTY TermEnds
