\* The periodic save and the one at shutdown, with a failing read or write and
\* a crash at every step of a save.
CONSTANTS
    periodic = periodic
    shutdown = shutdown
    Periodic = periodic
    Shutdown = shutdown
    Cap = 2
    MaxEvents = 4
    MaxFaults = 1
    MaxCrashes = 1

SPECIFICATION FairSpec
CHECK_DEADLOCK FALSE

 
INVARIANT ShutdownSaves
PROPERTY EventsAreSaved
