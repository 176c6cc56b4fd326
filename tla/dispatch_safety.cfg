SPECIFICATION DispatchSpec
CONSTANTS
  w1 = w1
  w2 = w2
  w3 = w3
  Works <- MCWorks
  CredOf <- MCCredOf
  IdOf <- MCIdOf
  AckWait = 1
  MaxDeliver = 2
  DupWindow = 1
  MaxAckPending = 1
  MaxBatch = 2
  MaxPublish = 2
  NakBound = 3
  Steps <- MCSteps
  Relations <- MCRelations
  Shapes <- MCShapes
  MaxMoves = 4
  MaxFlowFaults = 1
  MaxToggles = 1
INVARIANTS
  DispatchTypeOK
  WithinAckPending
  OneHolderUnlessLate
  SortIsSound
  BuiltOnOutputs
PROPERTIES
  ImplementsPromise
  FlowComesToRest
CHECK_DEADLOCK FALSE
