SPECIFICATION FairSpec
CONSTANTS
  Procs = {p1}
  NoProc = NoProc
  Lag = FALSE
  Late = FALSE
  Heartbeat = 0
  OrphanGrace = 0
  PendingStart = 0
  Backstop = 0
  MaxNudges = 1
  MaxGen = 2
  Faulty = {}
  MaxFaults = 0
INVARIANT AckIsEarned
PROPERTY EditAcknowledged
