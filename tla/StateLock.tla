----------------------------- MODULE StateLock -----------------------------
(***************************************************************************)
(* The Postgres advisory lock that guards one template's state             *)
(* (backend/lock.rs), as handle_applying and handle_destroying use it      *)
(* through acquire_mutation_lock.                                          *)
(*                                                                         *)
(* pg_try_advisory_lock and pg_advisory_unlock act on a database session,  *)
(* re-entrantly, while the code runs each query on whichever connection    *)
(* the pool hands out: a lock and its unlock may run on different          *)
(* sessions, and two attempts may run on the same one.                     *)
(***************************************************************************)
EXTENDS Integers, FiniteSets

CONSTANTS
    Processes,   \* operator processes, each with its own pool
    Sessions,    \* pooled database connections
    Tasks,       \* reconciles that mutate the one state row this lock guards
    SessionPod,  \* [Sessions -> Processes]: the pool a connection belongs to
    TaskPod,     \* [Tasks -> Processes]: the process a reconcile runs in
    MaxDepth,    \* bound: re-entrant (leaked) levels of one session
    MaxLockFaults  \* bound: closed connections, lost unlocks, crashes

ASSUME LockAssumption ==
    /\ SessionPod \in [Sessions -> Processes]
    /\ TaskPod \in [Tasks -> Processes]
    /\ IsFiniteSet(Tasks)
    /\ MaxDepth \in Nat \ {0}
    /\ MaxLockFaults \in Nat

VARIABLES
    held,     \* per session: how often it holds the advisory lock
    task,     \* per task: "idle", "mutating" (owns a LockGuard) or
              \* "unlocking" (Drop has spawned its unlock query)
    record,   \* pangea_meta.state_locks.holder, "best effort"
    severed,  \* auxiliary: pods that lost a lock-carrying session while one
              \* of their tasks still owed an unlock
    lockFaults  \* number of faults injected so far

lockVars == <<held, task, record, severed, lockFaults>>

NoHolder == "none"

\* Types; the count of a session never goes below zero, which is what makes
\* an unlock on a session without the lock harmless.
LockTypeOK ==
    /\ held \in [Sessions -> 0 .. MaxDepth]
    /\ task \in [Tasks -> {"idle", "mutating", "unlocking"}]
    /\ record \in Processes \cup {NoHolder}
    /\ severed \subseteq Processes
    /\ lockFaults \in 0 .. MaxLockFaults

LockInit ==
    /\ held = [s \in Sessions |-> 0]
    /\ task = [t \in Tasks |-> "idle"]
    /\ record = NoHolder
    /\ severed = {}
    /\ lockFaults = 0

-----------------------------------------------------------------------------
\* The tasks of pod p that hold a guard or have an unlock pending, under w.
Owing(p, w) == {t \in Tasks : TaskPod[t] = p /\ w[t] # "idle"}

Pool(t) == {s \in Sessions : SessionPod[s] = TaskPod[t]}

\* Mutant of Grants: the lock is not exclusive between sessions.
GrantsAlways(s) == TRUE

\* pg_try_advisory_lock on session s: refused only to the other sessions.
Grants(s) == \A r \in Sessions \ {s} : held[r] = 0

\* try_acquire on session s; the tracking row may fail to be written.
TryAcquire(t, s) ==
    /\ task[t] = "idle"
    /\ s \in Pool(t)
    /\ Grants(s)
    /\ held[s] < MaxDepth
    /\ held' = [held EXCEPT ![s] = @ + 1]
    /\ task' = [task EXCEPT ![t] = "mutating"]
    /\ record' \in {record, TaskPod[t]}
    /\ UNCHANGED <<severed, lockFaults>>

\* Refused: LockFailed, hence LockDispatch::Contended, and the reconcile is
\* requeued with nothing changed.
Contended(t, s) ==
    /\ task[t] = "idle"
    /\ s \in Pool(t)
    /\ ~Grants(s)
    /\ UNCHANGED lockVars

\* The handler returns, on any path: Drop spawns the unlock.
DropGuard(t) ==
    /\ task[t] = "mutating"
    /\ task' = [task EXCEPT ![t] = "unlocking"]
    /\ UNCHANGED <<held, record, severed, lockFaults>>

\* Mutant of AfterUnlock: the count is decremented without a look at it.
AfterUnlockUnchecked(n) == n - 1

\* Mutant of AfterUnlock: unlocking releases every level of the lock.
AfterUnlockAll(n) == 0

\* pg_advisory_unlock on a session that holds the lock n times: one level is
\* released; on a session that does not hold it nothing happens.
AfterUnlock(n) == IF n > 0 THEN n - 1 ELSE 0

\* The spawned unlock runs on any connection of the pool.  Its answer is
\* ignored, so is an error, and the tracking row is left behind.
Unlock(t, s) ==
    /\ task[t] = "unlocking"
    /\ s \in Pool(t)
    /\ held' = [held EXCEPT ![s] = AfterUnlock(@)]
    /\ task' = [task EXCEPT ![t] = "idle"]
    /\ severed' = {p \in severed : Owing(p, task') # {}}
    /\ UNCHANGED <<record, lockFaults>>

UnlockLost(t) ==
    /\ lockFaults < MaxLockFaults
    /\ task[t] = "unlocking"
    /\ task' = [task EXCEPT ![t] = "idle"]
    /\ severed' = {p \in severed : Owing(p, task') # {}}
    /\ lockFaults' = lockFaults + 1
    /\ UNCHANGED <<held, record>>

\* The pool closes an idle connection (idle_timeout, max_lifetime) or the
\* database drops it: its session-level locks are released.
CloseSession(s) ==
    /\ lockFaults < MaxLockFaults
    /\ held' = [held EXCEPT ![s] = 0]
    /\ severed' = severed \cup
         {p \in Processes : p = SessionPod[s] /\ held[s] > 0 /\ Owing(p, task) # {}}
    /\ lockFaults' = lockFaults + 1
    /\ UNCHANGED <<task, record>>

\* The process dies: its tasks and its connections go with it.
PodDies(p) ==
    /\ lockFaults < MaxLockFaults
    /\ held' = [s \in Sessions |-> IF SessionPod[s] = p THEN 0 ELSE held[s]]
    /\ task' = [t \in Tasks |-> IF TaskPod[t] = p THEN "idle" ELSE task[t]]
    /\ severed' = severed \ {p}
    /\ lockFaults' = lockFaults + 1
    /\ UNCHANGED record

LockNext ==
    \/ \E t \in Tasks :
         \/ \E s \in Sessions : TryAcquire(t, s) \/ Contended(t, s) \/ Unlock(t, s)
         \/ DropGuard(t) \/ UnlockLost(t)
    \/ \E s \in Sessions : CloseSession(s)
    \/ \E p \in Processes : PodDies(p)

LockSpec == LockInit /\ [][LockNext]_lockVars

-----------------------------------------------------------------------------
(***************************************************************************)
(* As long as no session that carries the lock is closed while its pod     *)
(* still owes an unlock, a mutation is covered by a lock of its own pod,   *)
(* whichever connections the unlocks happened to run on: an unlock on the  *)
(* wrong session can leak the lock but never frees it under another task.  *)
(* (try_acquire, Drop for LockGuard)                                       *)
(***************************************************************************)
MutationIsCovered ==
    \A t \in Tasks :
        task[t] = "mutating" /\ TaskPod[t] \notin severed => \E s \in Pool(t) : held[s] > 0

(***************************************************************************)
(* Two pods mutate the same state at the same time only if a connection    *)
(* that carried the lock was closed under one of them: what the lock adds  *)
(* to leader election during a leadership overlap.                         *)
(***************************************************************************)
CrossPodExclusion ==
    \A t, u \in Tasks :
        /\ task[t] = "mutating" /\ task[u] = "mutating"
        /\ TaskPod[t] # TaskPod[u]
        => TaskPod[t] \in severed \/ TaskPod[u] \in severed

(***************************************************************************)
(* LockDispatch::Proceed: "`LockGuard::drop` releases it on every return   *)
(* path": with no guard alive and no unlock pending, the lock is free.     *)
(***************************************************************************)
DropReleases ==
    (\A t \in Tasks : task[t] = "idle") => \A s \in Sessions : held[s] = 0
=============================================================================
