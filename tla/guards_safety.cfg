SPECIFICATION GuardsSpec
CONSTANTS
  Leaves <- MCLeaves
  Scopes = {ws}
  Creds = {gh}
  NoCred = NoCred
  ws = ws
  gh = gh
  Scope <- MCScope
  Cred <- MixedCredentials
  Depth <- MCDepth
  Mixes <- BothMixes
  CatalogCap <- Uncapped
  Global = 2
  PerScope = 2
  PerCredential = 1
  Share = 500
  Priority = TRUE
  Calibrate = FALSE
  Park = TRUE
  QueueTTL = 2
  WokenTTL = 1
  PollTTL = 1
  Fallback = 1
  Poll = 1
  DriftPoll = 1
  Prompt = TRUE
  pa = pa
  pb = pb
  a1 = a1
  a2 = a2
  b1 = b1
  b2 = b2
  ta1 = ta1
  ta2 = ta2
  tb = tb
  Processes <- MCProcesses
  Sessions <- MCSessions
  Tasks <- MCTasks
  SessionPod <- MCSessionPod
  TaskPod <- MCTaskPod
  MaxDepth = 3
  MaxLockFaults = 3
INVARIANTS
  GateTypeOK
  WithinCaps
  ChangeFindsSlot
  NoIdleSlot
  LockTypeOK
  MutationIsCovered
  CrossPodExclusion
PROPERTIES
  PriorityRespected
  DriftLeafAdmitted
