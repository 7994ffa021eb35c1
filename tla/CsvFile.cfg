\* A depth_updates file, written by the message handler, or a snapshot file,
\* written by the periodic and the bridge snapshot.
CONSTANTS
    w1 = w1
    w2 = w2
    flusher = flusher
    rotation = rotation
    cleanup = cleanup
    Writers = {w1, w2}
    Handler = w1
    Flusher = flusher
    Evictors = {cleanup}
    MaxRows = 2
    MaxDepthRows = 1
    MaxFaults = 1
    MaxCrashes = 1

SPECIFICATION FairSpec
CHECK_DEADLOCK FALSE

INVARIANT RowsConserved
INVARIANT OneHeader
PROPERTY ReachesDisk
