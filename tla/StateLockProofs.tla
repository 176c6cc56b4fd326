-------------------------- MODULE StateLockProofs --------------------------
(***************************************************************************)
(* Proofs about StateLock for any pods, pools and reconciles.              *)
(*                                                                         *)
(* MutationIsCovered alone is not inductive: an unlock that hits the       *)
(* session another task relies on must leave a level behind.  LevelsInv    *)
(* counts: the session that carries the lock of an unsevered pod has a     *)
(* level for every guard that is held or is being dropped.  It needs that  *)
(* the lock is on one session at a time.                                   *)
(***************************************************************************)
EXTENDS StateLock, FiniteSetTheorems, TLAPS

\* pg_try_advisory_lock excludes every other session.
OneSession ==
    \A r, s \in Sessions : held[r] > 0 /\ held[s] > 0 => r = s

\* Every owed unlock of an unsevered pod has its level.
LevelsInv ==
    \A p \in Processes \ severed :
        Owing(p, task) # {} =>
            \E s \in Sessions :
                SessionPod[s] = p /\ held[s] >= Cardinality(Owing(p, task))

IInv == LockTypeOK /\ OneSession /\ LevelsInv

-----------------------------------------------------------------------------
\* The unlocks a pod owes are finitely many, and none exactly if the count
\* is zero.
LEMMA OwingFinite ==
    ASSUME NEW p, NEW w
    PROVE  /\ IsFiniteSet(Owing(p, w))
           /\ Cardinality(Owing(p, w)) \in Nat
           /\ Cardinality(Owing(p, w)) = 0 <=> Owing(p, w) = {}
<1>1. Owing(p, w) \in SUBSET Tasks
  BY DEF Owing
<1>2. IsFiniteSet(Owing(p, w))
  BY <1>1, FS_Subset, LockAssumption
<1> QED BY <1>2, FS_CardinalityType, FS_EmptySet

\* Every step keeps the types.
LEMMA TypeStep ==
    ASSUME LockTypeOK, [LockNext]_lockVars PROVE LockTypeOK'
<1> USE LockAssumption DEF LockTypeOK
<1>1. ASSUME NEW t \in Tasks, NEW s \in Sessions, TryAcquire(t, s) PROVE LockTypeOK'
  BY <1>1 DEF TryAcquire, Pool, NoHolder
<1>2. ASSUME NEW t \in Tasks, NEW s \in Sessions, Contended(t, s) PROVE LockTypeOK'
  BY <1>2 DEF Contended, lockVars
<1>3. ASSUME NEW t \in Tasks, NEW s \in Sessions, Unlock(t, s) PROVE LockTypeOK'
  BY <1>3 DEF Unlock, AfterUnlock
<1>4. ASSUME NEW t \in Tasks, DropGuard(t) PROVE LockTypeOK'
  BY <1>4 DEF DropGuard
<1>5. ASSUME NEW t \in Tasks, UnlockLost(t) PROVE LockTypeOK'
  BY <1>5 DEF UnlockLost
<1>6. ASSUME NEW s \in Sessions, CloseSession(s) PROVE LockTypeOK'
  BY <1>6 DEF CloseSession
<1>7. ASSUME NEW p \in Processes, PodDies(p) PROVE LockTypeOK'
  BY <1>7 DEF PodDies
<1>8. CASE UNCHANGED lockVars
  BY <1>8 DEF lockVars
<1> QED BY <1>1, <1>2, <1>3, <1>4, <1>5, <1>6, <1>7, <1>8 DEF LockNext

\* The lock stays on one session: a grant needs all others free, and every
\* other step only lowers counts.
LEMMA OneSessionStep ==
    ASSUME LockTypeOK, OneSession, [LockNext]_lockVars PROVE OneSession'
<1> USE LockAssumption DEF LockTypeOK, OneSession
<1>1. ASSUME NEW t \in Tasks, NEW s \in Sessions, TryAcquire(t, s) PROVE OneSession'
  BY <1>1 DEF TryAcquire, Grants
<1>2. ASSUME NEW t \in Tasks, NEW s \in Sessions, Contended(t, s) PROVE OneSession'
  BY <1>2 DEF Contended, lockVars
<1>3. ASSUME NEW t \in Tasks, NEW s \in Sessions, Unlock(t, s) PROVE OneSession'
  BY <1>3 DEF Unlock, AfterUnlock
<1>4. ASSUME NEW t \in Tasks, DropGuard(t) PROVE OneSession'
  BY <1>4 DEF DropGuard
<1>5. ASSUME NEW t \in Tasks, UnlockLost(t) PROVE OneSession'
  BY <1>5 DEF UnlockLost
<1>6. ASSUME NEW s \in Sessions, CloseSession(s) PROVE OneSession'
  BY <1>6 DEF CloseSession
<1>7. ASSUME NEW p \in Processes, PodDies(p) PROVE OneSession'
  BY <1>7 DEF PodDies
<1>8. CASE UNCHANGED lockVars
  BY <1>8 DEF lockVars
<1> QED BY <1>1, <1>2, <1>3, <1>4, <1>5, <1>6, <1>7, <1>8 DEF LockNext

\* A task that turns idle is one unlock less that its own pod owes, and
\* nothing to any other pod.
LEMMA OwingAfterIdle ==
    ASSUME LockTypeOK, NEW t \in Tasks, task[t] # "idle", NEW p \in Processes,
           task' = [task EXCEPT ![t] = "idle"]
    PROVE  /\ p = TaskPod[t] =>
                Cardinality(Owing(p, task')) = Cardinality(Owing(p, task)) - 1
           /\ p # TaskPod[t] => Owing(p, task') = Owing(p, task)
           /\ Owing(p, task') \subseteq Owing(p, task)
<1>1. ASSUME p = TaskPod[t]
      PROVE  /\ Owing(p, task') = Owing(p, task) \ {t}
             /\ t \in Owing(p, task)
  BY <1>1 DEF LockTypeOK, Owing
<1>2. p # TaskPod[t] => Owing(p, task') = Owing(p, task)
  BY DEF LockTypeOK, Owing
<1>3. p = TaskPod[t] => Cardinality(Owing(p, task')) = Cardinality(Owing(p, task)) - 1
  BY <1>1, OwingFinite, FS_RemoveElement
<1> QED BY <1>1, <1>2, <1>3

\* Levels and owed unlocks move together.
LEMMA LevelsStep ==
    ASSUME IInv, [LockNext]_lockVars PROVE LevelsInv'
<1> USE LockAssumption
<1>0. LockTypeOK /\ OneSession /\ LevelsInv
  BY DEF IInv
<1>1. ASSUME NEW t \in Tasks, NEW s \in Sessions, TryAcquire(t, s) PROVE LevelsInv'
  <2> SUFFICES ASSUME NEW p \in Processes \ severed, Owing(p, task') # {}
               PROVE  \E r \in Sessions : SessionPod[r] = p
                         /\ held'[r] >= Cardinality(Owing(p, task'))
    BY <1>1 DEF LevelsInv, TryAcquire
  <2>1. CASE p = TaskPod[t]
    <3>1. Owing(p, task') = Owing(p, task) \cup {t} /\ t \notin Owing(p, task)
      BY <1>0, <1>1, <2>1 DEF TryAcquire, LockTypeOK, Owing
    <3>2. Cardinality(Owing(p, task')) = Cardinality(Owing(p, task)) + 1
      BY <3>1, OwingFinite, FS_AddElement
    <3>3. SessionPod[s] = p /\ held[s] \in Nat /\ held'[s] = held[s] + 1
      BY <1>0, <1>1, <2>1 DEF TryAcquire, Pool, LockTypeOK
    <3>4. held[s] >= Cardinality(Owing(p, task))
      <4>1. CASE Owing(p, task) = {}
        BY <3>3, <4>1, OwingFinite
      <4>2. CASE Owing(p, task) # {}
        <5>1. PICK r \in Sessions : SessionPod[r] = p
                   /\ held[r] >= Cardinality(Owing(p, task))
          BY <1>0, <4>2 DEF LevelsInv
        <5>2. held[r] > 0
          BY <1>0, <4>2, <5>1, OwingFinite DEF LockTypeOK
        <5>3. r = s
          BY <1>1, <5>2 DEF TryAcquire, Grants
        <5> QED BY <5>1, <5>3
      <4> QED BY <4>1, <4>2
    <3> QED BY <3>2, <3>3, <3>4, OwingFinite
  <2>2. CASE p # TaskPod[t]
    <3>1. Owing(p, task') = Owing(p, task)
      BY <1>0, <1>1, <2>2 DEF TryAcquire, LockTypeOK, Owing
    <3>2. PICK r \in Sessions : SessionPod[r] = p
               /\ held[r] >= Cardinality(Owing(p, task))
      BY <1>0, <3>1 DEF LevelsInv
    <3>3. held'[r] >= held[r] /\ held[r] \in Nat /\ held'[r] \in Nat
      BY <1>0, <1>1 DEF TryAcquire, LockTypeOK
    <3> QED BY <3>1, <3>2, <3>3, OwingFinite
  <2> QED BY <2>1, <2>2
<1>2. ASSUME NEW t \in Tasks, NEW s \in Sessions, Contended(t, s) PROVE LevelsInv'
  BY <1>0, <1>2 DEF Contended, lockVars, LevelsInv
<1>3. ASSUME NEW t \in Tasks, NEW s \in Sessions, Unlock(t, s) PROVE LevelsInv'
  <2>0. task[t] # "idle" /\ task' = [task EXCEPT ![t] = "idle"]
    BY <1>3 DEF Unlock
  <2> SUFFICES ASSUME NEW p \in Processes \ severed', Owing(p, task') # {}
               PROVE  \E r \in Sessions : SessionPod[r] = p
                         /\ held'[r] >= Cardinality(Owing(p, task'))
    BY DEF LevelsInv
  <2>1. p \notin severed
    BY <1>3 DEF Unlock
  <2>2. Owing(p, task) # {}
    BY <1>0, <2>0, OwingAfterIdle
  <2>3. PICK r \in Sessions : SessionPod[r] = p
             /\ held[r] >= Cardinality(Owing(p, task))
    BY <1>0, <2>1, <2>2 DEF LevelsInv
  <2>4. held[r] \in Nat /\ held'[r] \in Nat /\ held'[r] >= held[r] - 1
        /\ (SessionPod[r] # TaskPod[t] => held'[r] = held[r])
    BY <1>0, <1>3 DEF Unlock, AfterUnlock, LockTypeOK, Pool
  <2>5. CASE p = TaskPod[t]
    <3>1. Cardinality(Owing(p, task')) = Cardinality(Owing(p, task)) - 1
      BY <1>0, <2>0, <2>5, OwingAfterIdle
    <3> QED BY <2>3, <2>4, <3>1, OwingFinite
  <2>6. CASE p # TaskPod[t]
    <3>1. Owing(p, task') = Owing(p, task)
      BY <1>0, <2>0, <2>6, OwingAfterIdle
    <3> QED BY <2>3, <2>4, <2>6, <3>1
  <2> QED BY <2>5, <2>6
<1>4. ASSUME NEW t \in Tasks, DropGuard(t) PROVE LevelsInv'
  <2>1. \A p \in Processes : Owing(p, task') = Owing(p, task)
    BY <1>0, <1>4 DEF DropGuard, LockTypeOK, Owing
  <2> QED BY <1>0, <1>4, <2>1 DEF DropGuard, LevelsInv
<1>5. ASSUME NEW t \in Tasks, UnlockLost(t) PROVE LevelsInv'
  <2>0. task[t] # "idle" /\ task' = [task EXCEPT ![t] = "idle"] /\ held' = held
    BY <1>5 DEF UnlockLost
  <2> SUFFICES ASSUME NEW p \in Processes \ severed', Owing(p, task') # {}
               PROVE  \E r \in Sessions : SessionPod[r] = p
                         /\ held'[r] >= Cardinality(Owing(p, task'))
    BY DEF LevelsInv
  <2>1. p \notin severed
    BY <1>5 DEF UnlockLost
  <2>2. Owing(p, task) # {}
    BY <1>0, <2>0, OwingAfterIdle
  <2>3. PICK r \in Sessions : SessionPod[r] = p
             /\ held[r] >= Cardinality(Owing(p, task))
    BY <1>0, <2>1, <2>2 DEF LevelsInv
  <2>4. Cardinality(Owing(p, task')) <= Cardinality(Owing(p, task))
    <3>1. Owing(p, task') \in SUBSET Owing(p, task)
      BY <1>0, <2>0 DEF Owing, LockTypeOK
    <3> QED BY <3>1, OwingFinite, FS_Subset
  <2>5. held[r] \in Nat
    BY <1>0 DEF LockTypeOK
  <2> QED BY <2>0, <2>3, <2>4, <2>5, OwingFinite
<1>6. ASSUME NEW s \in Sessions, CloseSession(s) PROVE LevelsInv'
  <2> SUFFICES ASSUME NEW p \in Processes \ severed', Owing(p, task') # {}
               PROVE  \E r \in Sessions : SessionPod[r] = p
                         /\ held'[r] >= Cardinality(Owing(p, task'))
    BY DEF LevelsInv
  <2>1. p \notin severed /\ task' = task
    BY <1>6 DEF CloseSession
  <2>2. PICK r \in Sessions : SessionPod[r] = p
             /\ held[r] >= Cardinality(Owing(p, task))
    BY <1>0, <2>1 DEF LevelsInv
  <2>3. held[r] > 0
    BY <1>0, <2>1, <2>2, OwingFinite DEF LockTypeOK
  <2>4. r # s
    BY <1>6, <2>1, <2>2, <2>3 DEF CloseSession
  <2>5. held'[r] = held[r]
    BY <1>0, <1>6, <2>4 DEF CloseSession, LockTypeOK
  <2> QED BY <2>1, <2>2, <2>5
<1>7. ASSUME NEW q \in Processes, PodDies(q) PROVE LevelsInv'
  <2> SUFFICES ASSUME NEW p \in Processes \ severed', Owing(p, task') # {}
               PROVE  \E r \in Sessions : SessionPod[r] = p
                         /\ held'[r] >= Cardinality(Owing(p, task'))
    BY DEF LevelsInv
  <2>1. p # q
    BY <1>0, <1>7 DEF PodDies, LockTypeOK, Owing
  <2>2. Owing(p, task') = Owing(p, task) /\ p \notin severed
    BY <1>0, <1>7, <2>1 DEF PodDies, LockTypeOK, Owing
  <2>3. PICK r \in Sessions : SessionPod[r] = p
             /\ held[r] >= Cardinality(Owing(p, task))
    BY <1>0, <2>2 DEF LevelsInv
  <2>4. held'[r] = held[r]
    BY <1>0, <1>7, <2>1, <2>3 DEF PodDies, LockTypeOK
  <2> QED BY <2>2, <2>3, <2>4
<1>8. CASE UNCHANGED lockVars
  BY <1>0, <1>8 DEF lockVars, LevelsInv
<1> QED BY <1>1, <1>2, <1>3, <1>4, <1>5, <1>6, <1>7, <1>8 DEF LockNext

-----------------------------------------------------------------------------
\* The counts of the advisory lock, the states of the guards and the holder
\* row stay in their types.
THEOREM TypeCorrect == LockSpec => []LockTypeOK
<1>1. LockInit => LockTypeOK
  BY LockAssumption DEF LockInit, LockTypeOK
<1>2. LockTypeOK /\ [LockNext]_lockVars => LockTypeOK'
  BY TypeStep
<1> QED BY <1>1, <1>2, PTL DEF LockSpec

\* The inductive invariant behind the two theorems that follow.
THEOREM InductiveInvariant == LockSpec => []IInv
<1>1. LockInit => IInv
  <2>1. LockInit => LockTypeOK /\ OneSession
    BY LockAssumption DEF LockInit, LockTypeOK, OneSession
  <2>2. LockInit => LevelsInv
    BY DEF LockInit, LevelsInv, Owing
  <2> QED BY <2>1, <2>2 DEF IInv
<1>2. IInv /\ [LockNext]_lockVars => IInv'
  BY TypeStep, OneSessionStep, LevelsStep DEF IInv
<1> QED BY <1>1, <1>2, PTL DEF LockSpec

\* A mutation that began under the advisory lock is covered by a session of
\* its own pod until it ends, on whichever pooled connections the unlocks of
\* the pod's other guards ran (try_acquire, Drop for LockGuard).
THEOREM MutationIsCoveredCorrect == LockSpec => []MutationIsCovered
<1>1. IInv => MutationIsCovered
  <2> SUFFICES ASSUME IInv, NEW t \in Tasks, task[t] = "mutating", TaskPod[t] \notin severed
               PROVE  \E s \in Pool(t) : held[s] > 0
    BY DEF MutationIsCovered
  <2>1. TaskPod[t] \in Processes \ severed /\ Owing(TaskPod[t], task) # {}
    BY LockAssumption DEF Owing
  <2>2. PICK s \in Sessions : SessionPod[s] = TaskPod[t]
             /\ held[s] >= Cardinality(Owing(TaskPod[t], task))
    BY <2>1 DEF IInv, LevelsInv
  <2>3. held[s] > 0
    BY <2>1, <2>2, OwingFinite DEF IInv, LockTypeOK
  <2> QED BY <2>2, <2>3 DEF Pool
<1> QED BY <1>1, InductiveInvariant, PTL

\* Two pods mutate one state together only if one of them lost the session
\* that carried its lock.
THEOREM CrossPodExclusionCorrect == LockSpec => []CrossPodExclusion
<1>1. IInv /\ MutationIsCovered => CrossPodExclusion
  <2> SUFFICES ASSUME IInv, MutationIsCovered, NEW t \in Tasks, NEW u \in Tasks,
                      task[t] = "mutating", task[u] = "mutating",
                      TaskPod[t] # TaskPod[u],
                      TaskPod[t] \notin severed, TaskPod[u] \notin severed
               PROVE  FALSE
    BY DEF CrossPodExclusion
  <2>1. PICK r \in Pool(t) : held[r] > 0
    BY DEF MutationIsCovered
  <2>2. PICK s \in Pool(u) : held[s] > 0
    BY DEF MutationIsCovered
  <2>3. r = s
    BY <2>1, <2>2 DEF IInv, OneSession, Pool
  <2> QED BY <2>1, <2>2, <2>3 DEF Pool
<1> QED BY <1>1, InductiveInvariant, MutationIsCoveredCorrect, PTL
=============================================================================
