SPECIFICATION FairSpec
CONSTANTS
    Git = TRUE
    ReuseRender = TRUE
    AutoApprove = TRUE
    Policy <- ReviewReplacements
    Vars = {0, 1}
    MaxGen = 2
    MaxRev = 2
    MaxDrift = 1
    MaxFaults = 1
INVARIANTS TypeOK PlansOwnSpec
PROPERTIES ProtectedSurvives ApprovedPlanOnly NothingLeftBehind DeletionCompletes
CHECK_DEADLOCK FALSE
