--------------------------- MODULE LeaderElection ---------------------------
(***************************************************************************)
(* Lease-based leader election (leader.rs) and the part of main.rs that    *)
(* starts the controllers on acquisition, drains them on SIGTERM or on     *)
(* loss of the lease, and aborts them.                                     *)
(*                                                                         *)
(* Every API round trip is a step of its own: an election tick captures    *)
(* the clock, reads the Lease, and only then writes it with a              *)
(* compare-and-set on resourceVersion.  A request may fail, and a write    *)
(* that failed for the caller may still have landed.                       *)
(***************************************************************************)
EXTENDS Integers, FiniteSets

CONSTANTS
    Pods,           \* holder identities (POD_NAME); a restart keeps its identity
    NoPod,          \* "unheld"
    LeaseDuration,  \* leaseDurationSeconds, in clock units
    RenewInterval,  \* sleep between two ticks of keep_renewed
    RetryInterval,  \* sleep between two ticks of acquire
    MaxTime,        \* bound: the clock stops here
    MaxFaults       \* bound: API errors, crashes and SIGTERMs

ASSUME LeaseAssumption ==
    /\ NoPod \notin Pods
    /\ LeaseDuration \in Nat
    /\ MaxTime \in Nat
    /\ RenewInterval \in Nat \ {0}
    /\ RetryInterval \in Nat \ {0}
    /\ MaxFaults \in Nat

VARIABLES
    now,        \* Utc::now(), one clock for the cluster
    lease,      \* the coordination.k8s.io/Lease object
    proc,       \* per pod: the state of its operator process
    lastRenew,  \* per pod: renewTime of its last write known to have landed
    faults      \* number of faults injected so far

vars == <<now, lease, proc, lastRenew, faults>>

Times == 0 .. MaxTime

\* rv = 0 stands for "the object does not exist yet".
Leases ==
    [holder : Pods \cup {NoPod}, renewTime : Times, transitions : Nat, rv : Nat]

NoLease == [holder |-> NoPod, renewTime |-> 0, transitions |-> 0, rv |-> 0]

(***************************************************************************)
(* main.rs as a process: "follower" awaits acquire(), "leading" runs the   *)
(* controllers, "draining" has left the select! and polls await_in_flight, *)
(* "stopped" has returned (or crashed).  renewing says whether the task    *)
(* that runs keep_renewed is alive: on SIGTERM it is merely detached and   *)
(* goes on renewing while the pod drains.                                  *)
(***************************************************************************)
Roles == {"follower", "leading", "draining", "stopped"}
Steps == {"sleep", "get", "create", "put"}

Procs ==
    [role : Roles, renewing : BOOLEAN, step : Steps,
     tick : Times, seen : Leases, wake : Nat]

\* A process outside any election attempt, asleep until wake.
Asleep(role, renewing, wake) ==
    [role |-> role, renewing |-> renewing, step |-> "sleep",
     tick |-> 0, seen |-> NoLease, wake |-> wake]

Fresh == Asleep("follower", FALSE, 0)

Stopped == Asleep("stopped", FALSE, 0)

\* Types; the Lease never carries a renewTime beyond the clock's range.
TypeOK ==
    /\ now \in Times
    /\ lease \in Leases
    /\ proc \in [Pods -> Procs]
    /\ lastRenew \in [Pods -> Times]
    /\ faults \in 0 .. MaxFaults

Init ==
    /\ now = 0
    /\ lease = NoLease
    /\ proc = [p \in Pods |-> Fresh]
    /\ lastRenew = [p \in Pods |-> 0]
    /\ faults = 0

-----------------------------------------------------------------------------
\* The election loop runs in acquire() while a follower and in keep_renewed()
\* afterwards, until that task returns.
Electing(p) == proc[p].role = "follower" \/ proc[p].renewing

\* Mutant of Decide: the age test is not strict.
DecideAtBoundary(p, l, t) ==
    IF l.holder \in {NoPod, p} \/ t - l.renewTime >= LeaseDuration
    THEN "Acquire" ELSE "Wait"

\* Mutant of Decide: an expired lease of another pod is never taken over.
DecideNeverExpires(p, l, t) ==
    IF l.holder \in {NoPod, p} THEN "Acquire" ELSE "Wait"

\* leader::decide, for an existing lease l and a captured clock t.
Decide(p, l, t) ==
    IF l.holder \in {NoPod, p} \/ t - l.renewTime > LeaseDuration
    THEN "Acquire" ELSE "Wait"

\* build_lease: the Lease a create() stores.
Created(p, t) == [holder |-> p, renewTime |-> t, transitions |-> 0, rv |-> 1]

\* Mutant of Renewed: the write records the expiry in place of the renewal.
RenewedAsExpiry(p, l, t) ==
    [holder |-> p, renewTime |-> t + LeaseDuration,
     transitions |-> l.transitions + (IF l.holder = p THEN 0 ELSE 1),
     rv |-> l.rv + 1]

\* build_lease_from: what an Acquire writes over the snapshot l.
Renewed(p, l, t) ==
    [holder |-> p, renewTime |-> t,
     transitions |-> l.transitions + (IF l.holder = p THEN 0 ELSE 1),
     rv |-> l.rv + 1]

\* try_acquire_or_renew returned Ok(true): acquire() starts the controllers
\* and spawns keep_renewed; keep_renewed simply goes on.
Held(s) ==
    Asleep(IF s.role = "follower" THEN "leading" ELSE s.role, TRUE, now + RenewInterval)

\* Ok(false): acquire() retries; keep_renewed returns, and main leaves its
\* select! unless SIGTERM already did.
NotHeld(s) ==
    IF s.role = "follower"
    THEN Asleep("follower", FALSE, now + RetryInterval)
    ELSE Asleep("draining", FALSE, now)

\* Err: both loops log it and try again after their sleep.  keep_renewed does
\* so for ever: it never compares its last renewal with the lease duration.
Errored(s) ==
    Asleep(s.role, s.renewing,
           now + (IF s.role = "follower" THEN RetryInterval ELSE RenewInterval))

\* One election tick begins: `let now = Utc::now()`.  The clock is frozen at
\* MaxTime, where a follower's sleep counts as elapsed.
StartTick(p) ==
    /\ Electing(p)
    /\ proc[p].step = "sleep"
    /\ \/ proc[p].wake <= now
       \/ now = MaxTime /\ proc[p].role = "follower"
    /\ proc' = [proc EXCEPT ![p].step = "get", ![p].tick = now]
    /\ UNCHANGED <<now, lease, lastRenew, faults>>

\* get_opt answers; decide runs on the snapshot it returned.
Get(p) ==
    /\ proc[p].step = "get"
    /\ proc' = [proc EXCEPT ![p] =
         IF lease.rv = 0 THEN [@ EXCEPT !.step = "create"]
         ELSE IF Decide(p, lease, @.tick) = "Wait" THEN NotHeld(@)
         ELSE [@ EXCEPT !.step = "put", !.seen = lease]]
    /\ UNCHANGED <<now, lease, lastRenew, faults>>

\* create(): the first writer wins, the others see 409.
Create(p) ==
    /\ proc[p].step = "create"
    /\ IF lease.rv = 0
       THEN /\ lease' = Created(p, proc[p].tick)
            /\ lastRenew' = [lastRenew EXCEPT ![p] = proc[p].tick]
            /\ proc' = [proc EXCEPT ![p] = Held(@)]
       ELSE /\ proc' = [proc EXCEPT ![p] = NotHeld(@)]
            /\ UNCHANGED <<lease, lastRenew>>
    /\ UNCHANGED <<now, faults>>

\* Mutant of CanReplace: an unconditional write (no resourceVersion).
ReplaceAlways(p) == TRUE

\* The snapshot is still the stored object.
CanReplace(p) == lease.rv = proc[p].seen.rv

\* replace(): compare-and-set on resourceVersion, 409 otherwise.
Put(p) ==
    /\ proc[p].step = "put"
    /\ IF CanReplace(p)
       THEN /\ lease' = Renewed(p, proc[p].seen, proc[p].tick)
            /\ lastRenew' = [lastRenew EXCEPT ![p] = proc[p].tick]
            /\ proc' = [proc EXCEPT ![p] = Held(@)]
       ELSE /\ proc' = [proc EXCEPT ![p] = NotHeld(@)]
            /\ UNCHANGED <<lease, lastRenew>>
    /\ UNCHANGED <<now, faults>>

\* A request fails before it takes effect; both loops log it and retry.
ApiError(p) ==
    /\ faults < MaxFaults
    /\ proc[p].step # "sleep"
    /\ proc' = [proc EXCEPT ![p] = Errored(@)]
    /\ faults' = faults + 1
    /\ UNCHANGED <<now, lease, lastRenew>>

\* Controllers without a lease: "falling back to running as a singleton".
Singleton == Asleep("leading", FALSE, now)

\* 403 while acquiring: the Lease API is not granted to us, acquire() returns
\* Unavailable and main starts the controllers with no renew task.
Forbidden(p) ==
    /\ faults < MaxFaults
    /\ proc[p].role = "follower"
    /\ proc[p].step # "sleep"
    /\ proc' = [proc EXCEPT ![p] = Singleton]
    /\ faults' = faults + 1
    /\ UNCHANGED <<now, lease, lastRenew>>

\* The create lands but its answer is lost: the caller sees an error.
CreateAnswerLost(p) ==
    /\ faults < MaxFaults
    /\ proc[p].step = "create"
    /\ lease.rv = 0
    /\ lease' = Created(p, proc[p].tick)
    /\ proc' = [proc EXCEPT ![p] = Errored(@)]
    /\ faults' = faults + 1
    /\ UNCHANGED <<now, lastRenew>>

\* The same for a replace.
PutAnswerLost(p) ==
    /\ faults < MaxFaults
    /\ proc[p].step = "put"
    /\ CanReplace(p)
    /\ lease' = Renewed(p, proc[p].seen, proc[p].tick)
    /\ proc' = [proc EXCEPT ![p] = Errored(@)]
    /\ faults' = faults + 1
    /\ UNCHANGED <<now, lastRenew>>

-----------------------------------------------------------------------------
\* SIGTERM: a follower returns at once, a leader starts to drain.
Sigterm(p) ==
    /\ faults < MaxFaults
    /\ proc[p].role \in {"follower", "leading"}
    /\ proc' = [proc EXCEPT ![p] =
         IF @.role = "follower" THEN Stopped
         ELSE [@ EXCEPT !.role = "draining"]]
    /\ faults' = faults + 1
    /\ UNCHANGED <<now, lease, lastRenew>>

\* await_in_flight saw zero, or its budget ran out: abort everything, exit.
\* The lease is not released; it is left to expire.
DrainDone(p) ==
    /\ proc[p].role = "draining"
    /\ proc' = [proc EXCEPT ![p] = Stopped]
    /\ UNCHANGED <<now, lease, lastRenew, faults>>

Crash(p) ==
    /\ faults < MaxFaults
    /\ proc[p].role # "stopped"
    /\ proc' = [proc EXCEPT ![p] = Stopped]
    /\ faults' = faults + 1
    /\ UNCHANGED <<now, lease, lastRenew>>

\* The kubelet starts the container again, under the same identity.
Restart(p) ==
    /\ proc[p].role = "stopped"
    /\ proc' = [proc EXCEPT ![p] = Fresh]
    /\ UNCHANGED <<now, lease, lastRenew, faults>>

\* Time passes; the clock saturates at its bound.
Tick ==
    /\ now' = IF now < MaxTime THEN now + 1 ELSE now
    /\ UNCHANGED <<lease, proc, lastRenew, faults>>

Next ==
    \/ Tick
    \/ \E p \in Pods :
         \/ StartTick(p) \/ Get(p) \/ Create(p) \/ Put(p)
         \/ ApiError(p) \/ Forbidden(p) \/ CreateAnswerLost(p) \/ PutAnswerLost(p)
         \/ Sigterm(p) \/ DrainDone(p) \/ Crash(p) \/ Restart(p)

Spec == Init /\ [][Next]_vars

(***************************************************************************)
(* The tokio runtime keeps polling the election task and the API server    *)
(* answers, so each of its steps is weakly fair; nothing obliges a pod to  *)
(* be restarted.                                                           *)
(***************************************************************************)
ElectionStep(p) == StartTick(p) \/ Get(p) \/ Create(p) \/ Put(p)

Fairness == WF_vars(Tick) /\ \A p \in Pods : WF_vars(ElectionStep(p))

FairSpec == Spec /\ Fairness

-----------------------------------------------------------------------------
(***************************************************************************)
(* A process whose renew task is alive can have lost the lease only to a   *)
(* pod whose write is more than LeaseDuration younger than its own last    *)
(* acknowledged renewal: whatever answers were lost, however stale the     *)
(* clock a tick captured, no renewal in time is ever overridden.           *)
(* (keep_renewed, try_acquire_or_renew)                                    *)
(***************************************************************************)
LostOnlyWhenOverdue ==
    \A p \in Pods :
        proc[p].renewing /\ lease.holder # p
            => lease.renewTime - lastRenew[p] > LeaseDuration

(***************************************************************************)
(* No write takes the lease from a holder before that holder's renewTime   *)
(* is more than LeaseDuration in the past, although the decision was taken *)
(* on a snapshot read earlier (the replace() compare-and-set).             *)
(***************************************************************************)
FreshLeaseIsNotStolen ==
    [][lease.holder # NoPod /\ lease'.holder # lease.holder
         => now - lease.renewTime > LeaseDuration]_vars

(***************************************************************************)
(* A delayed write never moves the lease back in time: renewTime is        *)
(* monotone although each write carries the clock of its tick's start.     *)
(***************************************************************************)
RenewTimeForward == [][lease'.renewTime >= lease.renewTime]_vars

(***************************************************************************)
(* Nobody releases the lease, so it has to expire: when the holder stays   *)
(* down and a follower stays up, somebody leads eventually (acquire()).    *)
(***************************************************************************)
OrphanedLeaseIsTakenOver ==
    \A p, q \in Pods :
        (/\ lease.holder = p /\ proc[p].role = "stopped"
         /\ proc[q].role = "follower"
         /\ now + LeaseDuration < MaxTime)
        ~> (\/ \E r \in Pods : proc[r].role = "leading"
            \/ proc[p].role # "stopped" \/ proc[q].role = "stopped")
=============================================================================
