SPECIFICATION FairSpec
CONSTANTS
    Pods = {p1, p2}
    NoPod = NoPod
    LeaseDuration = 2
    RenewInterval = 1
    RetryInterval = 1
    MaxTime = 5
    MaxFaults = 2
INVARIANTS TypeOK LostOnlyWhenOverdue
PROPERTIES FreshLeaseIsNotStolen RenewTimeForward OrphanedLeaseIsTakenOver
