SPECIFICATION Spec
CONSTANTS
  s1 = s1
  s2 = s2
  s3 = s3
  Suites <- MCSuites
  Graphs <- MCGraphs
  Confs <- MCConfs
  Deregister = TRUE
  MaxDrift = 0
  MaxReplans = 0
  MaxFaults = 0
  MaxGen = 1
  MaxImages = 4
PROPERTIES RollbackRestores
CHECK_DEADLOCK FALSE
