\* Every buffer of up to four messages, every snapshot around them; a book of
\* two levels in a market of four prices that loses two diffs; a trade window
\* of two ids, of four.
CONSTANTS
    Messages <- MCMessages
    SnapshotIds = {0, 1, 2, 3, 4, 5, 6, 7, 8, 9, 10, 11, 12}
    MaxBuffer = 4
    Depth = 2
    Worst = 4
    Quantities = {1, 2}
    MaxLost = 2
    Ids = {1, 2, 3, 4}
    Window = 2

SPECIFICATION MCSpec
CHECK_DEADLOCK FALSE

INVARIANT AttachSound
INVARIANT HealedLevels
PROPERTY ReplayTold
