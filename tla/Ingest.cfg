\* A connection, a channel that fills at once, and fair scheduling.
CONSTANTS
    public = public
    Conns = {public}
    ChannelCap = 2

SPECIFICATION FairSpec
CHECK_DEADLOCK FALSE

INVARIANT JoinedOnDisk
PROPERTY FreshNotCut
PROPERTY Reopens
PROPERTY ShutdownEnds
