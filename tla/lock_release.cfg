SPECIFICATION LockSpec
CONSTANTS
    pa = pa
    pb = pb
    a1 = a1
    a2 = a2
    b1 = b1
    b2 = b2
    ta1 = ta1
    ta2 = ta2
    tb = tb
    Processes <- MCProcesses
    Sessions <- MCSessions
    Tasks <- MCTasks
    SessionPod <- MCSessionPod
    TaskPod <- MCTaskPod
    MaxDepth = 3
    MaxLockFaults = 0
INVARIANTS DropReleases
