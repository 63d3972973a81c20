\* Two nodes and a peer that joins; the network grows or shrinks by half.
CONSTANTS
    n1 = n1
    n2 = n2
    w = w
    p = p
    Nodes = {n1, n2}
    Waiting = {w}
    Outsiders = {p}
    AddrsOf <- Addresses
    Growths <- ByHalf
    MinGrowth = 1
    sysop_allowed = TRUE
    MaxPool = 1
    MaxBlocks = 2
SPECIFICATION Spec
INVARIANTS SameDeltasSameBlock GrowthEnds NodeStageIsTrue
PROPERTY MovesThroughHall
CHECK_DEADLOCK FALSE
