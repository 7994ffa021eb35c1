\* A request heavier than the budget and a light one, scheduled fairly.
CONSTANTS
    depth = depth
    light = light
    Requests = {depth, light}
    Groups = {"fapi"}
    Group <- MCGroup
    Weight <- MCWeight
    Budget <- MCBudget
    Window <- MCWindow
    Pauses = {3}
    NearCapPause = 1

SPECIFICATION FairSpec

INVARIANT WindowBound
PROPERTY RetryAfterRespected
PROPERTY CallsSettle
