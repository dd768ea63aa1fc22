SPECIFICATION FairFloodSpec
CONSTANTS
    Daemons = {0, 1, 2}
    Edges <- Row
    Slots = {0, 1}
    Costs = {1, 2}
    Wireless = TRUE
    CellsPerPass = 2
    Second = 100
    Up <- FirstLeg
    Started = 2
    Crashing = {2}
    Seconds = {1, 3}
    MaxToDo = 2
    MaxFaults = 1
INVARIANT NewsIsOnItsWay
INVARIANT OneCostPerStamp
CHECK_DEADLOCK FALSE
PROPERTY FloodingEnds
