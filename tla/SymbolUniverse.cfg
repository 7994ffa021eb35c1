\* Three collected symbols, the anchor among them, and an excluded one; a
\* result may lose a third of the universe.
CONSTANTS
    btc = btc
    eth = eth
    sol = sol
    usdc = usdc
    Symbols = {btc, eth, sol, usdc}
    Collectable = {eth, sol}
    Anchors = {btc}
    FloorNum = 2
    FloorDen = 3
    MaxDegraded = 2
    MaxRestarts = 1

SPECIFICATION FairSpec

INVARIANT TwoStrikes
INVARIANT AlertsMatch
PROPERTY DeadIsDropped
