\* Every grid from 2x2 to 6x6; holes in every grid of up to nine cells.
CONSTANTS
    MaxSide = 6
    MaxPartial = 9
SPECIFICATION Spec
INVARIANTS
    PlanCoversGrid
    SpiralMovesOneStep
    LegsRunStraight
    SyncStopsAtNearest
    EstimateCountsTheLegs
CHECK_DEADLOCK FALSE
