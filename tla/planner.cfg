SPECIFICATION PlannerFairSpec
CONSTANTS
    MaxBuffers = 4
    Requirements <- MCRequirements
INVARIANTS
    NoOverlap
    PlanCovers
    FirstGap
PROPERTY PlanEnds
CHECK_DEADLOCK FALSE
