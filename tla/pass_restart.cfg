SPECIFICATION Spec
CONSTANTS
  Procs = {p1, p2}
  NoProc = NoProc
  Lag = TRUE
  Late = FALSE
  Heartbeat = 1
  OrphanGrace = 0
  PendingStart = 0
  Backstop = 0
  MaxNudges = 1
  MaxGen = 1
  Faulty = {"crash"}
  MaxFaults = 1
SYMMETRY Symmetry
INVARIANT TypeOK
PROPERTY AdoptsOnlyOrphans BeatingPassNotAborted
