SPECIFICATION Spec
CONSTANTS
  Procs = {p1}
  NoProc = NoProc
  Lag = FALSE
  Late = TRUE
  Heartbeat = 0
  OrphanGrace = 0
  PendingStart = 0
  Backstop = 0
  MaxNudges = 1
  MaxGen = 1
  Faulty = {"hang", "call"}
  MaxFaults = 1
PROPERTY FinishedNotResurrected
