------------------------ MODULE LeaderElectionProofs ------------------------
(***************************************************************************)
(* Proofs about LeaderElection for any number of pods and any durations.   *)
(*                                                                         *)
(* LostOnlyWhenOverdue is not inductive: a Put must be known to replace    *)
(* exactly the snapshot its decision was taken on, with a clock that is    *)
(* not older than the renewTime it overwrites.  IInv adds those facts.     *)
(***************************************************************************)
EXTENDS LeaderElection, TLAPS

\* A snapshot with the stored resourceVersion is the stored object, and the
\* decision taken on it still stands.
SnapshotInv ==
    \A p \in Pods :
        proc[p].step = "put" =>
            /\ proc[p].seen.rv # 0
            /\ proc[p].seen.rv <= lease.rv
            /\ proc[p].seen.rv = lease.rv => proc[p].seen = lease
            /\ Decide(p, proc[p].seen, proc[p].tick) = "Acquire"

\* Clocks captured by a tick are not older than what this pod wrote before.
ClockInv ==
    /\ lease.renewTime <= now
    /\ \A p \in Pods :
         /\ lastRenew[p] <= now
         /\ lease.holder = p => lastRenew[p] <= lease.renewTime
         /\ proc[p].step # "sleep" =>
              /\ proc[p].tick <= now
              /\ lastRenew[p] <= proc[p].tick
              /\ lease.holder = p => lease.renewTime <= proc[p].tick

\* Before the Lease object exists nobody leads.
AbsentInv ==
    /\ lease.rv = 0 => lease.renewTime = 0 /\ \A p \in Pods : ~proc[p].renewing
    /\ lease.rv = 0 <=> lease.holder = NoPod

IInv ==
    /\ TypeOK
    /\ SnapshotInv
    /\ ClockInv
    /\ AbsentInv
    /\ LostOnlyWhenOverdue

-----------------------------------------------------------------------------
\* The record constructors of an attempt's outcomes are typed.
LEMMA ProcTypes ==
    ASSUME TypeOK
    PROVE  /\ Fresh \in Procs /\ Stopped \in Procs
           /\ \A s \in Procs : Held(s) \in Procs /\ NotHeld(s) \in Procs /\ Errored(s) \in Procs
<1> USE LeaseAssumption
<1>1. NoLease \in Leases /\ now \in Nat /\ 0 \in Times
  BY DEF TypeOK, NoLease, Leases, Times
<1>2. \A r \in Roles : \A b \in BOOLEAN : \A w \in Nat : Asleep(r, b, w) \in Procs
  BY <1>1 DEF Asleep, Procs, Steps
<1>3. \A s \in Procs : s.role \in Roles /\ s.renewing \in BOOLEAN
  BY DEF Procs
<1>4. Fresh \in Procs /\ Stopped \in Procs
  BY <1>1, <1>2 DEF Fresh, Stopped, Roles
<1>n. now + RenewInterval \in Nat /\ now + RetryInterval \in Nat
  BY <1>1
<1>5. ASSUME NEW s \in Procs PROVE Held(s) \in Procs
  <2> DEFINE r == IF s.role = "follower" THEN "leading" ELSE s.role
  <2>1. r \in Roles
    BY <1>3 DEF Roles
  <2> HIDE DEF r
  <2>2. Asleep(r, TRUE, now + RenewInterval) \in Procs
    BY <2>1, <1>2, <1>n
  <2> QED BY <2>2 DEF Held, r
<1>6. ASSUME NEW s \in Procs PROVE NotHeld(s) \in Procs
  <2>1. Asleep("follower", FALSE, now + RetryInterval) \in Procs
    BY <1>2, <1>n DEF Roles
  <2>2. Asleep("draining", FALSE, now) \in Procs
    BY <1>1, <1>2 DEF Roles
  <2> QED BY <2>1, <2>2 DEF NotHeld
<1>7. ASSUME NEW s \in Procs PROVE Errored(s) \in Procs
  BY <1>1, <1>2, <1>3 DEF Errored
<1> QED BY <1>4, <1>5, <1>6, <1>7

\* build_lease_from yields a Lease.
LEMMA RenewedType ==
    ASSUME NEW p \in Pods, NEW l \in Leases, NEW t \in Times
    PROVE  Renewed(p, l, t) \in Leases
  BY DEF Renewed, Leases

\* Every step keeps the types.
LEMMA TypeStep ==
    ASSUME TypeOK, [Next]_vars PROVE TypeOK'
<1> USE LeaseAssumption
<1>0. /\ now \in Times /\ lease \in Leases /\ proc \in [Pods -> Procs]
      /\ lastRenew \in [Pods -> Times] /\ faults \in 0 .. MaxFaults
  BY DEF TypeOK
<1>1. ASSUME NEW p \in Pods, StartTick(p) PROVE TypeOK'
  BY <1>0, <1>1, ZenonT(30) DEF StartTick, TypeOK, Procs, Steps
<1>2. ASSUME NEW p \in Pods, Get(p) PROVE TypeOK'
  <2>1. proc[p] \in Procs
    BY <1>0
  <2>2. /\ [proc[p] EXCEPT !.step = "create"] \in Procs
        /\ [proc[p] EXCEPT !.step = "put", !.seen = lease] \in Procs
    BY <1>0, <2>1 DEF Procs, Steps
  <2>3. proc' \in [Pods -> Procs]
    BY <1>0, <1>2, <2>1, <2>2, ProcTypes DEF Get
  <2> QED BY <1>0, <1>2, <2>3 DEF Get, TypeOK
<1>3. ASSUME NEW p \in Pods, Create(p) PROVE TypeOK'
  <2>1. proc[p].tick \in Times
    BY <1>0 DEF Procs
  <2>2. lease' \in Leases
    BY <1>0, <1>3, <2>1 DEF Create, Created, Leases
  <2> QED BY <1>0, <1>3, <2>1, <2>2, ProcTypes DEF Create, TypeOK
<1>4. ASSUME NEW p \in Pods, Put(p) PROVE TypeOK'
  <2>1. proc[p].tick \in Times /\ proc[p].seen \in Leases
    BY <1>0 DEF Procs
  <2>2. lease' \in Leases
    BY <1>0, <1>4, <2>1, RenewedType DEF Put
  <2>3. proc' \in [Pods -> Procs]
    BY <1>0, <1>4, ProcTypes DEF Put
  <2> QED BY <1>0, <1>4, <2>1, <2>2, <2>3 DEF Put, TypeOK
<1>5. ASSUME NEW p \in Pods, ApiError(p) PROVE TypeOK'
  BY <1>0, <1>5, ProcTypes DEF ApiError, TypeOK
<1>6. ASSUME NEW p \in Pods, PutAnswerLost(p) PROVE TypeOK'
  <2>1. proc[p].tick \in Times /\ proc[p].seen \in Leases
    BY <1>0 DEF Procs
  <2> QED BY <1>0, <1>6, <2>1, RenewedType, ProcTypes DEF PutAnswerLost, TypeOK
<1>6a. ASSUME NEW p \in Pods, CreateAnswerLost(p) PROVE TypeOK'
  <2>1. proc[p].tick \in Times
    BY <1>0 DEF Procs
  <2>2. lease' \in Leases
    BY <1>0, <1>6a, <2>1 DEF CreateAnswerLost, Created, Leases
  <2> QED BY <1>0, <1>6a, <2>1, <2>2, ProcTypes DEF CreateAnswerLost, TypeOK
<1>6b. ASSUME NEW p \in Pods, Forbidden(p) PROVE TypeOK'
  <2>1. Singleton \in Procs
    BY <1>0 DEF Singleton, Asleep, Procs, Roles, Steps, Times, NoLease, Leases
  <2>2. proc' \in [Pods -> Procs]
    BY <1>0, <1>6b, <2>1 DEF Forbidden
  <2> QED BY <1>0, <1>6b, <2>2 DEF Forbidden, TypeOK
<1>7. ASSUME NEW p \in Pods, Sigterm(p) PROVE TypeOK'
  BY <1>0, <1>7, ProcTypes DEF Sigterm, TypeOK, Procs, Roles
<1>8. ASSUME NEW p \in Pods, DrainDone(p) \/ Crash(p) \/ Restart(p) PROVE TypeOK'
  BY <1>0, <1>8, ProcTypes DEF DrainDone, Crash, Restart, TypeOK
<1>9. CASE Tick
  BY <1>0, <1>9 DEF Tick, TypeOK, Times
<1>10. CASE UNCHANGED vars
  BY <1>0, <1>10 DEF vars, TypeOK
<1> QED BY <1>1, <1>2, <1>3, <1>4, <1>5, <1>6, <1>6a, <1>6b, <1>7, <1>8, <1>9, <1>10 DEF Next

(***************************************************************************)
(* Every reachable state of the election is well typed.                    *)
(***************************************************************************)
THEOREM TypeCorrect == Spec => []TypeOK
<1>1. Init => TypeOK
  BY LeaseAssumption
     DEF Init, TypeOK, Fresh, Asleep, Procs, Roles, Steps, Leases, NoLease, Times
<1> QED BY <1>1, TypeStep, PTL DEF Spec

-----------------------------------------------------------------------------
\* What the three outcomes of an attempt, and a (re)start, leave behind.
LEMMA OutcomeFields ==
    ASSUME NEW s \in Procs
    PROVE  /\ Held(s).step = "sleep" /\ Held(s).renewing = TRUE
           /\ NotHeld(s).step = "sleep" /\ NotHeld(s).renewing = FALSE
           /\ Errored(s).step = "sleep" /\ Errored(s).renewing = s.renewing
           /\ Fresh.step = "sleep" /\ Fresh.renewing = FALSE
           /\ Stopped.step = "sleep" /\ Stopped.renewing = FALSE
<1>1. Held(s).step = "sleep" /\ Held(s).renewing = TRUE
  BY DEF Held, Asleep
<1>2. NotHeld(s).step = "sleep" /\ NotHeld(s).renewing = FALSE
  <2>1. CASE s.role = "follower"
    BY <2>1 DEF NotHeld, Asleep
  <2>2. CASE s.role # "follower"
    BY <2>2 DEF NotHeld, Asleep
  <2> QED BY <2>1, <2>2
<1>3. Errored(s).step = "sleep" /\ Errored(s).renewing = s.renewing
  BY DEF Errored, Asleep
<1>4. /\ Fresh.step = "sleep" /\ Fresh.renewing = FALSE
      /\ Stopped.step = "sleep" /\ Stopped.renewing = FALSE
  BY DEF Fresh, Stopped, Asleep
<1> QED BY <1>1, <1>2, <1>3, <1>4

\* A process that ends its attempt without writing the Lease keeps IInv.
LEMMA QuietStep ==
    ASSUME IInv, TypeOK', NEW p \in Pods, NEW q,
           proc' = [proc EXCEPT ![p] = q],
           q.step = "sleep", q.renewing => proc[p].renewing,
           UNCHANGED <<now, lease, lastRenew>>
    PROVE  IInv'
<1> USE LeaseAssumption DEF IInv
<1>0. proc \in [Pods -> Procs] /\ proc'[p] = q /\ \A r \in Pods \ {p} : proc'[r] = proc[r]
  BY DEF TypeOK
<1>1. SnapshotInv'
  BY <1>0 DEF SnapshotInv, Decide
<1>2. ClockInv'
  BY <1>0 DEF ClockInv
<1>3. AbsentInv'
  BY <1>0 DEF AbsentInv
<1>4. LostOnlyWhenOverdue'
  BY <1>0 DEF LostOnlyWhenOverdue
<1> QED BY <1>1, <1>2, <1>3, <1>4

\* A write to the Lease that was decided on the stored object, or that
\* creates it, keeps IInv, whether or not its answer arrives.
LEMMA WriteStep ==
    ASSUME IInv, TypeOK', NEW p \in Pods, NEW q,
           proc' = [proc EXCEPT ![p] = q], q.step = "sleep",
           proc[p].step # "sleep",
           lease.rv = 0 \/ Decide(p, lease, proc[p].tick) = "Acquire",
           lease'.holder = p, lease'.renewTime = proc[p].tick,
           lease'.rv = lease.rv + 1,
           \/ lastRenew' = [lastRenew EXCEPT ![p] = proc[p].tick]
           \/ lastRenew' = lastRenew /\ (q.renewing => proc[p].renewing),
           UNCHANGED now
    PROVE  IInv'
<1> USE LeaseAssumption DEF IInv
<1>0. /\ proc \in [Pods -> Procs] /\ proc'[p] = q
      /\ \A r \in Pods \ {p} : proc'[r] = proc[r] /\ lastRenew'[r] = lastRenew[r]
      /\ lastRenew \in [Pods -> Times]
      /\ lastRenew'[p] \in {lastRenew[p], proc[p].tick}
  BY DEF TypeOK
<1>1. /\ lease.rv \in Nat /\ lease.renewTime \in Nat /\ proc[p].tick \in Nat
      /\ now \in Nat /\ \A r \in Pods : lastRenew[r] \in Nat
  BY <1>0 DEF TypeOK, Leases, Procs, Times
<1>2. lease.holder # p /\ lease.rv # 0 => proc[p].tick - lease.renewTime > LeaseDuration
  BY DEF Decide, AbsentInv
<1>3. lease.renewTime <= proc[p].tick
  BY <1>1, <1>2 DEF ClockInv, AbsentInv
<1>4. SnapshotInv'
  <2> SUFFICES ASSUME NEW r \in Pods \ {p}, proc'[r].step = "put"
               PROVE  /\ proc'[r].seen.rv # 0
                      /\ proc'[r].seen.rv <= lease'.rv
                      /\ proc'[r].seen.rv # lease'.rv
                      /\ Decide(r, proc'[r].seen, proc'[r].tick) = "Acquire"
    BY <1>0 DEF SnapshotInv, Decide
  <2>1. proc'[r] = proc[r] /\ proc[r].seen.rv \in Nat
    BY <1>0 DEF Procs, Leases
  <2> QED BY <1>1, <2>1 DEF SnapshotInv, Decide
<1>5. ClockInv'
  BY <1>0, <1>1, <1>3 DEF ClockInv
<1>6. AbsentInv'
  BY <1>1 DEF AbsentInv
<1>7. LostOnlyWhenOverdue'
  <2> SUFFICES ASSUME NEW r \in Pods \ {p}, proc[r].renewing
               PROVE  proc[p].tick - lastRenew[r] > LeaseDuration
    BY <1>0 DEF LostOnlyWhenOverdue
  <2>1. lease.rv # 0
    BY DEF AbsentInv
  <2>2. CASE lease.holder = r
    BY <1>1, <1>2, <2>1, <2>2 DEF ClockInv
  <2>3. CASE lease.holder # r
    BY <1>1, <1>3, <2>3 DEF LostOnlyWhenOverdue
  <2> QED BY <2>2, <2>3
<1> QED BY <1>4, <1>5, <1>6, <1>7

\* Every step keeps the inductive invariant, one case per action.
LEMMA InvStep ==
    ASSUME IInv, [Next]_vars PROVE IInv'
<1> USE LeaseAssumption
<1>t. TypeOK /\ TypeOK'
  BY TypeStep DEF IInv
<1>0. proc \in [Pods -> Procs] /\ \A p \in Pods : proc[p] \in Procs
  BY <1>t DEF TypeOK
<1>1. ASSUME NEW p \in Pods, StartTick(p) PROVE IInv'
  <2>0. /\ \A r \in Pods \ {p} : proc'[r] = proc[r]
        /\ proc'[p].step = "get" /\ proc'[p].tick = now
        /\ proc'[p].renewing = proc[p].renewing
    BY <1>0, <1>1 DEF StartTick, Procs
  <2>1. SnapshotInv'
    BY <1>1, <2>0 DEF StartTick, IInv, SnapshotInv, Decide
  <2>2. ClockInv'
    <3>1. now \in Nat
      BY <1>t DEF TypeOK, Times
    <3>2. ClockInv /\ UNCHANGED <<now, lease, lastRenew>>
      BY <1>1 DEF StartTick, IInv
    <3>3. now <= now
      BY <3>1
    <3> QED BY <2>0, <3>2, <3>3 DEF ClockInv
  <2>3. AbsentInv'
    BY <1>1, <2>0 DEF StartTick, IInv, AbsentInv
  <2>4. LostOnlyWhenOverdue'
    BY <1>1, <2>0 DEF StartTick, IInv, LostOnlyWhenOverdue
  <2> QED BY <1>t, <2>1, <2>2, <2>3, <2>4 DEF IInv
<1>2. ASSUME NEW p \in Pods, Get(p) PROVE IInv'
  <2>1. CASE lease.rv # 0 /\ Decide(p, lease, proc[p].tick) = "Wait"
    <3>1. proc' = [proc EXCEPT ![p] = NotHeld(proc[p])]
      BY <1>0, <1>2, <2>1 DEF Get
    <3>f. NotHeld(proc[p]).step = "sleep" /\ NotHeld(proc[p]).renewing = FALSE
      BY <1>0, OutcomeFields
    <3> QED BY <1>t, <1>0, <1>2, <3>1, <3>f, QuietStep DEF Get
  <2>2. CASE lease.rv = 0 \/ Decide(p, lease, proc[p].tick) # "Wait"
    <3>0. /\ \A r \in Pods \ {p} : proc'[r] = proc[r]
          /\ proc'[p].tick = proc[p].tick /\ proc[p].step # "sleep"
          /\ proc'[p].renewing = proc[p].renewing
          /\ proc'[p].step = "put" => lease.rv # 0 /\ proc'[p].seen = lease
          /\ UNCHANGED <<now, lease, lastRenew>>
      BY <1>0, <1>2, <2>2 DEF Get, Procs
    <3>1. SnapshotInv'
      <4> SUFFICES ASSUME proc'[p].step = "put"
                   PROVE  /\ lease.rv # 0 /\ lease.rv <= lease.rv
                          /\ Decide(p, lease, proc[p].tick) = "Acquire"
        BY <3>0 DEF IInv, SnapshotInv, Decide
      <4>1. lease.rv \in Nat
        BY <1>t DEF TypeOK, Leases
      <4> QED BY <2>2, <3>0, <4>1 DEF Decide
    <3>2. ClockInv'
      BY <3>0 DEF IInv, ClockInv
    <3>3. AbsentInv'
      BY <3>0 DEF IInv, AbsentInv
    <3>4. LostOnlyWhenOverdue'
      BY <3>0 DEF IInv, LostOnlyWhenOverdue
    <3> QED BY <1>t, <3>1, <3>2, <3>3, <3>4 DEF IInv
  <2> QED BY <2>1, <2>2
<1>3. ASSUME NEW p \in Pods, Create(p) PROVE IInv'
  <2>1. CASE lease.rv = 0
    <3>1. proc' = [proc EXCEPT ![p] = Held(proc[p])]
      BY <1>0, <1>3, <2>1 DEF Create
    <3>2. /\ lease'.holder = p /\ lease'.renewTime = proc[p].tick
          /\ lease'.rv = lease.rv + 1
      BY <1>3, <2>1 DEF Create, Created
    <3>f. Held(proc[p]).step = "sleep" /\ Held(proc[p]).renewing = TRUE
      BY <1>0, OutcomeFields
    <3> QED BY <1>t, <1>0, <1>3, <2>1, <3>1, <3>2, <3>f, WriteStep DEF Create
  <2>2. CASE lease.rv # 0
    <3>1. proc' = [proc EXCEPT ![p] = NotHeld(proc[p])]
      BY <1>0, <1>3, <2>2 DEF Create
    <3>f. NotHeld(proc[p]).step = "sleep" /\ NotHeld(proc[p]).renewing = FALSE
      BY <1>0, OutcomeFields
    <3> QED BY <1>t, <1>0, <1>3, <2>2, <3>1, <3>f, QuietStep DEF Create
  <2> QED BY <2>1, <2>2
<1>4. ASSUME NEW p \in Pods, Put(p) PROVE IInv'
  <2>1. CASE CanReplace(p)
    <3>1. proc' = [proc EXCEPT ![p] = Held(proc[p])]
      BY <1>0, <1>4, <2>1 DEF Put
    <3>2. proc[p].seen = lease /\ Decide(p, lease, proc[p].tick) = "Acquire"
      BY <1>4, <2>1 DEF Put, CanReplace, IInv, SnapshotInv
    <3>3. /\ lease'.holder = p /\ lease'.renewTime = proc[p].tick
          /\ lease'.rv = lease.rv + 1
      BY <1>4, <2>1, <3>2 DEF Put, Renewed
    <3>f. Held(proc[p]).step = "sleep" /\ Held(proc[p]).renewing = TRUE
      BY <1>0, OutcomeFields
    <3> QED BY <1>t, <1>0, <1>4, <2>1, <3>1, <3>2, <3>3, <3>f, WriteStep DEF Put
  <2>2. CASE ~CanReplace(p)
    <3>1. proc' = [proc EXCEPT ![p] = NotHeld(proc[p])]
      BY <1>0, <1>4, <2>2 DEF Put
    <3>f. NotHeld(proc[p]).step = "sleep" /\ NotHeld(proc[p]).renewing = FALSE
      BY <1>0, OutcomeFields
    <3> QED BY <1>t, <1>0, <1>4, <2>2, <3>1, <3>f, QuietStep DEF Put
  <2> QED BY <2>1, <2>2
<1>5. ASSUME NEW p \in Pods, ApiError(p) PROVE IInv'
  <2>1. proc' = [proc EXCEPT ![p] = Errored(proc[p])]
    BY <1>0, <1>5 DEF ApiError
  <2>f. Errored(proc[p]).step = "sleep" /\ Errored(proc[p]).renewing = proc[p].renewing
    BY <1>0, OutcomeFields
  <2> QED BY <1>t, <1>0, <1>5, <2>1, <2>f, QuietStep DEF ApiError
<1>6. ASSUME NEW p \in Pods, PutAnswerLost(p) PROVE IInv'
  <2>1. proc' = [proc EXCEPT ![p] = Errored(proc[p])]
    BY <1>0, <1>6 DEF PutAnswerLost
  <2>2. proc[p].seen = lease /\ Decide(p, lease, proc[p].tick) = "Acquire"
    BY <1>6 DEF PutAnswerLost, CanReplace, IInv, SnapshotInv
  <2>3. /\ lease'.holder = p /\ lease'.renewTime = proc[p].tick
        /\ lease'.rv = lease.rv + 1
    BY <1>6, <2>2 DEF PutAnswerLost, Renewed
  <2>f. Errored(proc[p]).step = "sleep" /\ Errored(proc[p]).renewing = proc[p].renewing
    BY <1>0, OutcomeFields
  <2> QED BY <1>t, <1>0, <1>6, <2>1, <2>2, <2>3, <2>f, WriteStep DEF PutAnswerLost
<1>6a. ASSUME NEW p \in Pods, CreateAnswerLost(p) PROVE IInv'
  <2>1. proc' = [proc EXCEPT ![p] = Errored(proc[p])]
    BY <1>0, <1>6a DEF CreateAnswerLost
  <2>2. /\ lease'.holder = p /\ lease'.renewTime = proc[p].tick
        /\ lease'.rv = lease.rv + 1
    BY <1>6a DEF CreateAnswerLost, Created
  <2>f. Errored(proc[p]).step = "sleep" /\ Errored(proc[p]).renewing = proc[p].renewing
    BY <1>0, OutcomeFields
  <2> QED BY <1>t, <1>0, <1>6a, <2>1, <2>2, <2>f, WriteStep DEF CreateAnswerLost
<1>6b. ASSUME NEW p \in Pods, Forbidden(p) PROVE IInv'
  <2>1. Singleton.step = "sleep" /\ Singleton.renewing = FALSE
    BY DEF Singleton, Asleep
  <2> QED BY <1>t, <1>6b, <2>1, QuietStep DEF Forbidden
<1>7. ASSUME NEW p \in Pods, Sigterm(p) PROVE IInv'
  <2>1. CASE proc[p].role = "follower"
    <3>1. proc' = [proc EXCEPT ![p] = Stopped]
      BY <1>0, <1>7, <2>1 DEF Sigterm
    <3>f. Stopped.step = "sleep" /\ Stopped.renewing = FALSE
      BY <1>0, OutcomeFields
    <3> QED BY <1>t, <1>0, <1>7, <3>1, <3>f, QuietStep DEF Sigterm
  <2>2. CASE proc[p].role # "follower"
    <3>0. /\ \A r \in Pods : /\ proc'[r].step = proc[r].step
                             /\ proc'[r].tick = proc[r].tick
                             /\ proc'[r].seen = proc[r].seen
                             /\ proc'[r].renewing = proc[r].renewing
          /\ UNCHANGED <<now, lease, lastRenew>>
      BY <1>0, <1>7, <2>2 DEF Sigterm, Procs
    <3>1. SnapshotInv' /\ ClockInv'
      BY <3>0 DEF IInv, SnapshotInv, Decide, ClockInv
    <3>2. AbsentInv' /\ LostOnlyWhenOverdue'
      BY <3>0 DEF IInv, AbsentInv, LostOnlyWhenOverdue
    <3> QED BY <1>t, <3>1, <3>2 DEF IInv
  <2> QED BY <2>1, <2>2
<1>8. ASSUME NEW p \in Pods, DrainDone(p) \/ Crash(p) PROVE IInv'
  <2>1. proc' = [proc EXCEPT ![p] = Stopped] /\ UNCHANGED <<now, lease, lastRenew>>
    BY <1>8 DEF DrainDone, Crash
  <2>f. Stopped.step = "sleep" /\ Stopped.renewing = FALSE
    BY <1>0, OutcomeFields
  <2> QED BY <1>t, <1>0, <2>1, <2>f, QuietStep
<1>9. ASSUME NEW p \in Pods, Restart(p) PROVE IInv'
  BY <1>t, <1>0, <1>9, OutcomeFields, QuietStep DEF Restart
<1>10. CASE Tick
  <2>1. now \in Nat /\ now' \in Nat /\ now <= now' /\ UNCHANGED <<lease, proc, lastRenew>>
    BY <1>t, <1>10 DEF Tick, TypeOK, Times
  <2>2. /\ lease.renewTime \in Nat
        /\ \A p \in Pods : proc[p].tick \in Nat /\ lastRenew[p] \in Nat
    BY <1>t DEF TypeOK, Leases, Procs, Times
  <2>3. SnapshotInv' /\ AbsentInv' /\ LostOnlyWhenOverdue'
    BY <2>1 DEF IInv, SnapshotInv, Decide, AbsentInv, LostOnlyWhenOverdue
  <2>4. ClockInv'
    BY <2>1, <2>2 DEF IInv, ClockInv
  <2> QED BY <1>t, <2>3, <2>4 DEF IInv
<1>11. CASE UNCHANGED vars
  BY <1>t, <1>11
     DEF vars, IInv, SnapshotInv, Decide, ClockInv, AbsentInv, LostOnlyWhenOverdue
<1> QED BY <1>1, <1>2, <1>3, <1>4, <1>5, <1>6, <1>6a, <1>6b, <1>7, <1>8, <1>9, <1>10, <1>11 DEF Next

(***************************************************************************)
(* The inductive invariant holds: besides the types, a snapshot with the   *)
(* stored resourceVersion is the stored Lease, no timestamp lies in the    *)
(* future, and an absent Lease was never renewed (try_acquire_or_renew     *)
(* acts on a copy read one round trip ago).                                *)
(***************************************************************************)
THEOREM InvCorrect == Spec => []IInv
<1>1. Init => IInv
  <2>1. Init => TypeOK
    BY LeaseAssumption
       DEF Init, TypeOK, Fresh, Asleep, Procs, Roles, Steps, Leases, NoLease, Times
  <2>2. Init => SnapshotInv /\ ClockInv /\ AbsentInv /\ LostOnlyWhenOverdue
    BY LeaseAssumption
       DEF Init, Fresh, Asleep, NoLease, SnapshotInv, ClockInv, AbsentInv, LostOnlyWhenOverdue
  <2> QED BY <2>1, <2>2 DEF IInv
<1> QED BY <1>1, InvStep, PTL DEF Spec

(***************************************************************************)
(* For any number of pods and any lease duration: a process that still     *)
(* renews has lost the lease only to a write more than LeaseDuration       *)
(* younger than its last acknowledged renewal.                             *)
(***************************************************************************)
THEOREM LostOnlyWhenOverdueCorrect == Spec => []LostOnlyWhenOverdue
<1>1. IInv => LostOnlyWhenOverdue
  BY DEF IInv
<1> QED BY <1>1, InvCorrect, PTL

(***************************************************************************)
(* No step takes a lease that is not expired: the compare-and-set makes    *)
(* the decision taken on an old snapshot hold for the object it replaces.  *)
(***************************************************************************)
THEOREM FreshLeaseIsNotStolenCorrect == Spec => FreshLeaseIsNotStolen
<1>1. IInv /\ [Next]_vars =>
        [lease.holder # NoPod /\ lease'.holder # lease.holder
           => now - lease.renewTime > LeaseDuration]_vars
  <2> SUFFICES ASSUME IInv, [Next]_vars, lease.holder # NoPod,
                      lease'.holder # lease.holder
               PROVE  now - lease.renewTime > LeaseDuration
    OBVIOUS
  <2>0. lease.rv # 0
    BY DEF IInv, AbsentInv
  <2>1. PICK p \in Pods : (Put(p) \/ PutAnswerLost(p)) /\ CanReplace(p)
    BY <2>0 DEF Next, vars, Tick, StartTick, Get, Create, Put, ApiError, Forbidden,
               CreateAnswerLost, PutAnswerLost, Sigterm, DrainDone, Crash, Restart
  <2>2. proc[p].step = "put" /\ lease' = Renewed(p, proc[p].seen, proc[p].tick)
    BY <2>1 DEF Put, PutAnswerLost
  <2>3. /\ Decide(p, lease, proc[p].tick) = "Acquire"
        /\ proc[p].tick <= now /\ lease'.holder = p
    BY <2>1, <2>2 DEF CanReplace, IInv, SnapshotInv, ClockInv, Renewed
  <2>4. /\ now \in Nat /\ lease.renewTime \in Nat /\ proc[p].tick \in Nat
        /\ LeaseDuration \in Nat
    BY LeaseAssumption DEF IInv, TypeOK, Leases, Procs, Times
  <2> QED BY <2>3, <2>4 DEF Decide
<1> QED BY <1>1, InvCorrect, PTL DEF Spec, FreshLeaseIsNotStolen

(***************************************************************************)
(* A delayed write never moves the Lease back in time: the tick whose      *)
(* clock replace() writes began after the pod's own last write, and more   *)
(* than LeaseDuration after that of any holder it takes over from.         *)
(***************************************************************************)
THEOREM RenewTimeForwardCorrect == Spec => RenewTimeForward
<1>1. IInv /\ [Next]_vars => [lease'.renewTime >= lease.renewTime]_vars
  <2> SUFFICES ASSUME IInv, [Next]_vars
               PROVE  lease'.renewTime >= lease.renewTime
    OBVIOUS
  <2>0. lease.renewTime \in Nat /\ LeaseDuration \in Nat
    BY LeaseAssumption DEF IInv, TypeOK, Leases, Times
  <2>1. ASSUME NEW p \in Pods, Put(p) \/ PutAnswerLost(p), CanReplace(p)
        PROVE  lease'.renewTime >= lease.renewTime
    <3>1. proc[p].step = "put" /\ lease'.renewTime = proc[p].tick /\ proc[p].tick \in Nat
      BY <2>1 DEF Put, PutAnswerLost, Renewed, IInv, TypeOK, Procs, Times
    <3>2. Decide(p, lease, proc[p].tick) = "Acquire" /\ lease.rv # 0
      BY <2>1, <3>1 DEF CanReplace, IInv, SnapshotInv
    <3> QED BY <2>0, <3>1, <3>2 DEF Decide, IInv, ClockInv, AbsentInv
  <2>2. ASSUME NEW p \in Pods, Create(p) \/ CreateAnswerLost(p), lease.rv = 0
        PROVE  lease'.renewTime >= lease.renewTime
    <3>1. lease'.renewTime = proc[p].tick /\ proc[p].tick \in Nat /\ lease.renewTime = 0
      BY <2>2 DEF Create, CreateAnswerLost, Created, IInv, AbsentInv, TypeOK, Procs, Times
    <3> QED BY <3>1
  <2>3. CASE lease' = lease
    BY <2>0, <2>3
  <2> QED BY <2>1, <2>2, <2>3 DEF Next, vars, Tick, StartTick, Get, Create, Put, ApiError,
             Forbidden, CreateAnswerLost, PutAnswerLost, Sigterm, DrainDone, Crash, Restart
<1> QED BY <1>1, InvCorrect, PTL DEF Spec, RenewTimeForward
=============================================================================
