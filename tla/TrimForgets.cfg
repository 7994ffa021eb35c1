\* Nothing is lost, and the book still misses levels that were once trimmed.
CONSTANTS
    Depth = 2
    Worst = 4
    Quantities = {1}
    MaxLost = 0

SPECIFICATION DepthSpec

INVARIANT BookIsTop
