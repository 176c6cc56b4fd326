SPECIFICATION FairSpec
CONSTANTS
  s1 = s1
  s2 = s2
  s3 = s3
  Suites <- MCSuites
  Graphs <- MCGraphs
  Confs <- MCConfs
  Deregister = TRUE
  MaxDrift = 1
  MaxReplans = 1
  MaxFaults = 1
  MaxGen = 2
  MaxImages = 4
INVARIANTS TypeOK ImageOfSpec PassedWasRun DeployedWasTested 
PROPERTIES OnlyCapturedPlans PipelineEnds
CHECK_DEADLOCK FALSE
