SPECIFICATION Spec
CONSTANTS
    Git = FALSE
    ReuseRender = TRUE
    AutoApprove = TRUE
    Policy <- ReviewReplacements
    Vars = {0, 1}
    MaxGen = 2
    MaxRev = 2
    MaxDrift = 0
    MaxFaults = 0
INVARIANTS PlansOwnSpec
CHECK_DEADLOCK FALSE
