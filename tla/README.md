# TLA+ specifications of pangea-operator

pangea-operator is a Kubernetes operator: it renders the templates of the Pangea
Ruby DSL, plans them and applies the plans, and keeps comparing the result with
the infrastructure. These specifications model the part of it where the order of
steps decides whether it is right: who reconciles, who may mutate, what a
reconcile writes from a copy that is no longer current, which template gets a slot,
what a template may do in each of its phases, how work is handed to workers and to
the steps of a flow, and how an image gets from its source into the infrastructure.

`PROJECT.json` lists the runs, the source lines each definition translates, the
hazards and the theorems. `tlc -config <run>.cfg <module>` repeats a run;
`tlapm <module>.tla` checks the proofs of a module whose name ends in `Proofs`.

## The system

Source paths are under `src/pangea-operator/src/` unless they start with `src/`.

| Component | State | Operations | Where it is modelled |
|---|---|---|---|
| Leader election (`leader.rs`, `main.rs`, `drain.rs`) | one Lease, the role of each pod | acquire, renew, lose, drain, exit | `LeaderElection`, proved in `LeaderElectionProofs` |
| State lock (`backend/lock.rs`) | session-level Postgres advisory locks, a holder row | `try_acquire`, drop of a guard | `StateLock`, proved in `StateLockProofs` |
| Template pass (`controller/template/pass.rs`, `pass_driver.rs`, `pass_registry.rs`, `status.rs`) | pass record and conditions in the status; registry of running passes | begin, beat, settle, fail, adopt, name a stall, redispatch, preempt | `TemplatePass`, proved in `TemplatePassProofs` |
| Leaf admission gate (`controller/template/leaf_gate.rs`, `controller/scheduling.rs`, `src/pangea-leaf/src/admit.rs`) | waiting map, three budgets, blocked flags | admit, park, wake, release | `LeafGate`, proved in `LeafGateProofs` |
| Template phases (`controller/template_controller.rs`, `controller/mod.rs`) | phase, acknowledged generation, compiled revision, plan hashes; render and plan rows; finalizer | one handler per phase, approval and protection gates, deletion | `TemplateLifecycle`, proved in `TemplateLifecycleProofs` |
| Source freshness (`controller/template/freshness.rs`) | the compiled revision | compare with HEAD | its verdict, in `TemplateLifecycle` |
| Settling (`controller/settling.rs`) | drift cycles and fingerprints | count, judge | the verdict as a free choice; planned |
| Reactive policy, escalation, auto-suspend | failure counts, time in phase | escalate, suspend, probe | planned |
| Leaf work queue (`leaf_queue.rs`) | remembered ids, ready and inflight entries, dead work | publish, pull, progress, ack, nak, expire, exhausted | `LeafQueue`, which implements `AtLeastOnce`, proved in `LeafQueueProofs`; not wired into the controllers (docs/LEAVES.md) |
| Leaf planning library (`src/pangea-leaf`) | none | shard, pace, rank | ranking in `LeafGate`; the rest planned |
| Flow controller (`controller/flow_controller.rs`) | the steps of a flow, its templates, its status | sort, visit, create, patch | `Flow`, proved in `FlowProofs` |
| Packer builds (`controller/packer_build_controller.rs`) | phase, observed generation, workspace, manifest | one handler per phase | `PackerBuild` |
| AMI tests (`controller/ami_test_controller.rs`) | phase, results of the suites, their Jobs | resolve, skip, launch, collect | `AmiTest` |
| Image pipelines (`controller/image_pipeline_controller.rs`) | phase, image, previous image, captured plan, approval | one handler per phase | `ImagePipeline`, over the two modules above and an abstract template; the three proved in `ImagePipelineProofs` |
| Compliance, namespace, catalog, dashboard controllers | their own resources | linear or stateless | not modelled |
| Executors (magma, tofu), artifact store, Ruby evaluation, CLI, MCP, web | | | outcomes are free choices of the callers; the rest is I/O or a pure interpreter |

How they interact. The election starts and stops the controllers of a process.
A controller runs at most one reconcile of a template at a time, but next to it a
heartbeat task and a watchdog write the same status, and a draining or partitioned
old leader may run the same reconcile in another process; the state lock is there
for that case. The expensive phases of a reconcile first ask the leaf gate. All of
them meet in one object: spec edits, phase writes, heartbeats, the watchdog's
projection and the approval of a human are merge patches on it, nearly all of them
without a resourceVersion, from copies read earlier. A flow creates the templates of
its steps and reads their phases and outputs; an image pipeline creates a build and a
test, patches a variable of a template, waits for the plan the template shows, and approves it.

What is hard: writes composed from old copies, patches that land after their sender
was aborted, answers that are lost, a lock that belongs to a database session while
queries run on whichever session the pool hands out, permits that are given back
field by field, plans that are stored, shown, approved and applied at four different
moments, finalizers that wait for something that may be impossible, claims that
outlive their deadline, Jobs that are found again by name after a death, and a pipeline
of four controllers that each read the others' status on their own.

## Modules

### LeaderElection

`lease` is the Lease object with a version `rv`; `proc[p]` is the process of pod `p`:
its role, the step of its election tick (`sleep`, `get`, `create`, `put`), the clock
captured when the tick started, the copy it read, and whether a renew task is
alive. A tick is three steps as in `try_acquire_or_renew`: capture the clock
(`StartTick`), read (`Get`, with `Decide`), write (`Create` or `Put`; `CanReplace`
is the compare-and-set). Any call can fail, and `CreateAnswerLost` and
`PutAnswerLost` are writes that landed although the caller saw an error.
`Forbidden` is the 403 that makes the pod run as a singleton. `Sigterm`, `DrainDone`,
`Crash` and `Restart` are the life of the process; nobody releases the lease.

### StateLock

One state row, several tasks in several pods, and the connections of each pod's
pool. `TryAcquire(t, s)` runs the lock query of task `t` on session `s`; the unlock
spawned by `Drop` runs on a session chosen again. A session counts its lock
re-entrantly, as Postgres does. Connections close, unlocks get lost, processes die.
`MCGuards` checks it in one run with `LeafGate`, the other thing a reconcile needs before it works: the
two share nothing, so `turn` says which of them moves in a behaviour.

### TemplatePass

The object `obj` holds the fields of the status that the pass protocol reads:
phase, acknowledged and observed generation, the conditions, and the pass record.
A reconcile (`Start`, `Read`, `Put`, `Complete`) works from the copy it started
with; `Beat` and `Withdraw` are `beat_once`; `List`, `Judge` and `Nudge` are a tick of
the watchdog, which judges a listed copy and aborts the registered pass. Only adoption
and withdrawal compare versions (`current`). `flight` holds the patches whose sender was
aborted. Timestamps are ages, so the model needs no clock. Which phase a handler
leads to is a free choice here; `TemplateLifecycle` decides it.

### LeafGate

`line` (the rank of each waiting leaf, in the order of its `since`) and `entry` are the
waiting map, `slots`, `creds` and `drifts` the permits of the
three budgets, `run` where each leaf's reconcile is. `Ask` is all of
`LeafGate::admit`, which runs under one mutex; `DropScope`, `DropCredential`,
`DropDrift` and `Wake` are the fields of a `LeafPermit` in drop order, without it.

### TemplateLifecycle

A reconcile is `Start` (copy the object, route it as `reconcile_template` does)
followed by the steps of the handler, each ending at a write to the status, the
artifact store or the infrastructure: `Compile`, `Stamp`, `MakePlan`, `Judge`, `Pend`,
`Recheck`, `Apply`, `Record`, `Retry`, `Destroy`, `Put`, `Finalize`, `Release`. `Put` is `update_phase`
with its acknowledgement of the copy's generation. `Recheck` is the destroy protection's second look
at the plan an apply is about to execute: the stored plan, or if that cannot be read a new one,
or if that fails too none at all, and then the apply goes on (`unchecked`), since the check fails open by
design. `Record` is `update_apply_status`: it sets both plan hashes to `None`, its
merge patch leaves `None` fields out, and so an approval stays on record after its apply. Between any two steps the user
edits, approves, unprotects, authorises or deletes, the source moves, the
infrastructure drifts; any step may fail (`Error`) and the process may die (`Crash`).
A configuration is a value of `spec.variables` and a revision of the source, and the
infrastructure is one resource, so a plan is one action with the state it starts
from and the one it leads to. `Hash` is what an approval covers. The module describes
the magma executor with its artifacts in Postgres, where the state-continuity check of
an automatic apply cannot fire. `ungated` records that a plan was stored while the template was in
Applying, by an apply that failed and stayed there or by the recheck, which are the two ways a plan
gets applied without the approval gate.

### LeafQueue, AtLeastOnce

Every operation of the in-process queue takes one mutex and is one action: `Publish`,
`Pull`, `Exhausted`, which expire first, and `Progress`, `Ack`, `Nak` of a claim, which do
not. Instants are kept as the time left until them. A claim is kept by its worker until it
acks, naks or `Vanish`es, and names the sequence number, not the delivery, as the code's
handle does: what a late holder sends reaches the delivery that is out by then. `acked`,
`reported` and `late` are history.

`AtLeastOnce` is what the callers rely on: accepted work is open until one holder completes
it or until its deliveries are used up, and then it is handed back once. The refinement
maps each sequence number to a fate computed from where its entries are (`FateOf`) and to
the deliveries of its entry (`TriesOf`). An entry in two places, or in none, has
a fate `AtLeastOnce` does not know, so the refinement also says that nothing is lost or doubled.

### Flow

One flow and the templates of its steps. A pass is `Begin`, one step per turn of the loop
(`Visit`, `Hold`, `Unresolved`, `NoSource`, `Create`), and `Finish` with the diff gate; templates move,
reads and creates fail, and the process dies in between. `shape` says which steps refer to outputs in
their variables and which have no source: the one is not created while an output it
refers to is missing (a template whose outputs could not be fetched is Ready without them, see
`Move`), the other never. `Toposort` is the algorithm as a fold:
of the steps whose dependencies are placed, the last by name, as `queue.pop()` takes it.
`MCDispatch` checks `LeafQueue` and `Flow` in one run; the two share nothing, so `turn` says
which of them moves in a behaviour.

### PackerBuild, AmiTest, ImagePipeline

`PackerBuild` is an object with a generation, the workspace (which generation the
template on disk is of, which image the manifest names last) and the images packer has
registered, each with the generation of its template and of its variables. A reconcile
works from its `copy` and stamps the copy's generation.

`AmiTest` is one object and the Jobs of its suites. A pass of `handle_running` is one step
(nobody else writes the object); `HandleRunningFaulty` is the same pass cut off after the
Jobs were created, after the suites were written, or with a create or a write that failed.

`ImagePipeline` instantiates both and adds the pipeline and an abstract template. What a
handler reads decides a list of writes (`Handler`), which are then made one per
step: the other controllers, drift and the approver move between them. The template is
reduced to what the pipeline meets: the image in its variable, the image it rendered, its
phase, the plan it shows and the one approved, with a planning pass of two steps
that compares with the approval it started from (`PlanStart`, `PlanEnd`). `conf.target` is what it does
with a plan: it needs an approval for each, applies by itself, or does not render with the new image.
`conf.used` says that a plan was approved and applied before the pipeline came, whose hashes
are still on the status (`Earlier`). `Drift` makes it plan again under the pipeline: a Drifted
template goes to Planning if it approves by itself or the plan it shows is the approved one, the
usual state after an approved apply (`Correct`).

## Runs

| Run | Result | What it shows |
|---|---|---|
| `leader_safety` | pass | a renewal in time is never overridden, a lease that is not expired is not stolen, `renewTime` does not move back, and a lease whose holder stays down is taken over |
| `guards_safety` | pass | no cap of the gate is exceeded while permits are half dropped, drift leaves a slot for changes, no permit is taken from a better class; when all leaves sweep for drift, no slot idles beside a sleeping waiter and each is admitted eventually. Whichever sessions the queries of the lock run on, a mutation is covered and two pods do not mutate together, unless a connection that carried the lock was closed |
| `lock_release` | violation | an unlock on another session leaves the lock held when no guard is left |
| `pass_ack` | pass | while the template reads Ready or Drifted it acknowledges only converged generations; every edit is eventually acknowledged by a reconcile that started from it |
| `pass_faults` | pass | with a failed call, a hung step and late patches, no heartbeat and no watchdog write revives a pass that ended |
| `pass_restart` | pass | with a crash and a lagging cache, only passes that are orphaned in the stored object are adopted, and a live pass is not aborted for the record of a dead process |
| `life_safety` | pass | a plan is made from the render of the spec in hand, protected infrastructure is not replaced unless the recheck could look at no plan, a plan that needs approval is applied only when its hash was approved at some time or it was stored past the gate, an authorised deletion leaves nothing behind, and a deletion nobody has to unblock completes |
| `life_render` | violation | with a ConfigMap source an edit of `spec.variables` is planned from the old render |
| `dispatch_safety` | pass | the leaf queue implements the at-least-once queue, keeps its caps, and gives a piece of work to two workers only after a deadline was missed; the sort of a flow is sound for every relation of three steps, templates are built on Ready ones and on outputs they had, and a flow comes to rest with a true phase and count and no step uncreated that it could create |
| `image_safety` | pass | images of one generation, tests that ran what they say, only tested images deployed, only captured plans applied or the one approved before, no stale Ready taken for the deployment on a template without an earlier plan, and every pipeline ends, asks, or meets one of three named obstacles (`Stranded`, `Planless`, `Ignored`) |
| `image_rollback` | violation | a rollback restores the image it rolls back |
| `image_stale` | violation | on a template that shows the plan of an earlier apply, a pipeline completes with its image not deployed |

The four violations are the findings of `PROJECT.json`, with the lines of the code
and of the comments that disagree. The passing run and the violation of
`PlansOwnSpec` differ in the source: a git source always recompiles after the reset
of a changed spec (`pending_route` needs a revision `non_git_source_revision` does not
give), a ConfigMap or inline source does not.

More was met while modelling than there are runs for.

- `leader.rs:22` says "Exactly one reconciler at any instant". A leader whose renewals
  fail goes on reconciling past the expiry of its lease, and a draining one until it is
  aborted; `LostOnlyWhenOverdue` is what does hold.
- `deletion_decision` looks at an absent `DestroyAuthorization` before the protection
  (`controller/mod.rs:228`), so a protected template is let go in a live namespace with its
  infrastructure standing, unlike the comments at `mod.rs:1102` and
  `template_controller.rs:527` say.
- A rate-limited or transient apply failure stays in Applying; the next pass plans again and
  applies that plan without the gate (`template_controller.rs:4714`). The recheck of the
  destroy protection stores a new plan in the same way when it cannot read the stored one. With
  `requireApproval`, `crd/infrastructure_template.rs:283` says the operator waits for the
  approved hash. `ApprovedPlanOnly` has these two exceptions, and TLC finds no other.
- No apply uses an approval up: both hashes stay on the status (`template/status.rs:390` says they are
  cleared), so a plan with the same actions on the same state may be applied again without
  a human, also after it was undone from outside. `image_stale` shows what it does to a pipeline.
- With protection on, an apply whose recheck could read and make no plan replaces a resource if
  the stored plan does (`template_controller.rs:7648-7695`, documented as failing open there);
  `ProtectedSurvives` excepts just that case.
- A pipeline in Planning on a template that applies its plans by itself, or that fails
  before it makes one, waits for ever, since no plan is ever shown (`image_pipeline_controller.rs:521`):
  `Planless`. In Applying it waits for ever on a template that is Drifted and shows a plan that is not
  the approved one, because the template waits for an approval the pipeline only
  gives to one in Planning: `Ignored`.
- A step of a flow that refers to an output its Ready dependency does not have, or that has no source, stays
  uncreated (`flow_controller.rs:218-253`), and the flow Progressing.
- `approvedBy` of a pipeline is never cleared: after a bounce to Planning the new plan of
  a manual pipeline goes on with the old approval, although the comment at
  `image_pipeline_controller.rs:661` promises a fresh one.
- A suite that depends on a skipped suite is never skipped or run (`ami_test_controller.rs:286`
  looks at failed ones), and its test stays Running. `Stranded` names it.
- The rollback trigger `PlanAssertionFailure` is never consulted; approval mode `webhook` fails the
  pipeline. A PackerBuild that Failed, also because its workspace was lost, leaves Failed
  only by an edit; a death after packer succeeded leaves an image nobody refers to.
- `flow_status_needs_patch` omits the steps, and a merge patch keeps entries of steps a pass did
  not read and `lastError` of an earlier failure; the comment at `flow_controller.rs:435` says the
  omission cannot mask a change, which is true of phase and count only. The variables
  of a step are resolved once, when its template is created.
- A nak does not look at `max_deliver` (`leaf_queue.rs:115`): work that always errs is redelivered
  for ever, and only silent holders exhaust it. `NakBound` cuts this off.
- A drift check asks for its scope's permit without the cap of the catalog
  (`template_controller.rs:6089`), so its share is taken of the default cap: in a scope whose
  catalog cap is lower, drift can hold every slot, although docs/LEAVES.md:240-241 says "so a change
  always finds a slot". TLC shows it with a cap of 2 beside a default of 4; `ChangeFindsSlot` is
  checked, and proved, for scopes whose cap is not below the default.
- Nudges of the watchdog that find a pass with a fresh sign of life count although
  nothing was aborted; when all are spent a later hang stays until a human acts.
- `projection_patch` may write a generation onto a pass of another kind that was stored
  meanwhile, so `observedGeneration` can run ahead of the passes that ended.
- Among leaves of mixed work, a woken leaf whose `Unblocked` rank was consumed can be
  outranked by one nobody woke, and both sleep beside a free slot until the fallback
  requeue; `NoIdleSlot` is therefore stated for drift leaves only, and proved for leaves that share
  one pool (see Proofs).

### Bounds

- Two pods are enough for every race of the election: a decision compares one copy
  with one stored lease. The clock runs to 5 with a lease of 2, so that a lease can
  expire, be taken and expire again; two faults allow a lost answer and a crash.
- The lock runs use two sessions in each pod, two tasks in one pod and one in the other:
  the unlock that hits the wrong session of its own pod, and the other pod. A session
  nests three levels, one per attempt that can leak.
- The pass runs split the faults: edits with the watchdog's aborts and no other fault
  (`pass_ack`, two generations), one failed call or hang with late patches (`pass_faults`),
  one crash with a second process that reads a lagging cache (`pass_restart`). Deadlines are 0
  or 1 unit: an age saturates one above them, so a deadline is missed or met at
  any time. One nudge per stall.
- Three leaves with a global cap of two: one waits while two hold, with two leaves on one
  credential. A drift share of one half makes one of the two slots available to drift.
- The lifecycle runs have two generations, two revisions, one outside change and one
  fault. Protection is on or off initially, so an authorisation can be the
  second generation. Longer histories repeat these: every decision of a
  reconcile compares two copies. The exception of `ProtectedSurvives` takes
  two faults, an earlier one and a recheck that sees no plan; the run also passes with two (2.2
  million states), and the safety properties are proved for any number.
- The queue has three works, two of one credential with a cap of one, and two of them
  accepted; work gets two deliveries, a nak at most a third (`NakBound`), and a deadline of one
  unit, so that it is met or missed at any time. A duplicate inside and outside the window
  happens.
- The flow has three steps in six relations: chains along and against the names, a fork, a
  join, a cycle with and without a step outside. Four moves of templates (`MaxMoves`), enough
  for a dependency to be Ready, fail and recover while its dependent is created; one fault, one
  change of `suspend`. All steps refer to outputs, or none does and the second has no
  source. `SortIsSound` quantifies over all 512 relations of three steps.
- The pipeline runs have five deploy specs (automatic with tests, checks and both rollbacks; manual with
  checks, on a template with an earlier plan; webhook; automatic on a template that applies by itself,
  and on one that does not render), three graphs of three suites (fork, chain, cycle), two generations of
  the build, one drift, one fault shared by all controllers (`MaxFaults`) and one re-plan of a
  plan already shown (`MaxReplans`): a template that waits for approval plans again and
  again, and each time clears an approval that came too late, so with no bound it could do so
  for ever. `Ignored` takes three drifts; `PipelineEnds` was also checked with three. `image_rollback`
  and `image_stale` need neither drift nor fault.

`CHECK_DEADLOCK FALSE` is set where the system may stop: a deleted object in the lifecycle
runs, a flow at rest, and a pipeline that has ended.

### Fairness

- Election: the clock and the steps of the election task are weakly fair (the runtime
  polls the task, the API server answers). A restart is not.
- Pass: a process is started, and a reconcile that can go on does. Neither the clock,
  the heartbeat nor the watchdog has to run.
- Gate: time passes, a due reconcile does not stay due for ever, and handlers
  return or are preempted (the watchdog's job).
- Lifecycle: the controller requeues every template, so a reconcile that can go on
  does. The user, the source and the infrastructure have no obligations.
- Queue: time passes, each credential has a worker that pulls, a worker that holds a claim
  ends some day (by an ack, a nak or by vanishing), and somebody collects the dead.
- Flow: a pass goes on and the flow is requeued; templates and the user have no obligations.
- Pipeline: every controller requeues what is not finished, so what can go on does, and
  Kubernetes ends a Job at its deadline. Nobody has to approve.

## Proofs

Every theorem holds for all values of the constants that the named assumption of its module
allows. The assumptions give types to the constants; what they say beyond that is noted
below. Each module proves `Spec => []IInv` for an inductive invariant `IInv` (in `TemplatePassProofs`
and `FlowProofs`, one invariant per theorem) from a lemma per action, and its theorems
from that. Every conjunct of these invariants was first checked by TLC on the run's instance.

`LeaderElectionProofs` (`LeaseAssumption`): `TypeOK`, `LostOnlyWhenOverdue`,
`FreshLeaseIsNotStolen`, `RenewTimeForward`. `LostOnlyWhenOverdue` is not inductive: a write is
decided on a copy and stamped with a clock that are both older than the write. `IInv` adds
what makes the copy trustworthy: a copy whose version is still the stored one equals the
stored lease, and the pending write was decided from it (`SnapshotInv`); no clock value in
the lease, in a tick or in `lastRenew` is ahead of `now`, and the clock of a tick is not
older than what its pod wrote before (`ClockInv`); nobody holds or renews a lease
that does not exist (`AbsentInv`). A step either leaves the lease alone (`QuietStep`)
or writes it under the compare-and-set (`WriteStep`).

`StateLockProofs` (`LockAssumption`; the tasks are finitely many): `LockTypeOK`,
`MutationIsCovered`, `CrossPodExclusion`. What has to be added is that at most one session
has the lock (`OneSession`) and that a pod whose connections were not severed has at least as
many levels of it as tasks that mutate or owe an unlock (`LevelsInv`): an unlock on a
wrong session may leave a level behind, never take one that another task needs.

`TemplatePassProofs` (`PassAssumption`; there is at least one generation): `TypeOK`, `AckIsEarned`,
`FinishedNotResurrected`, `AdoptsOnlyOrphans`, `BeatingPassNotAborted`. `EarnedInv` says of every copy, every
patch on the wire and every write a reconcile has in hand what `AckIsEarned` says of the object, because
any of them may land later. `CurrentInv` says that copies with the stored version agree with
the object, which is what adoption and withdrawal rely on. `BeatInv` says that while every fault
is a process that is down, the signs of life of the passes at work are recent in the record, in the copies and in the
watchdog's verdicts. `BeatingPassNotAborted` has the hypothesis `Heartbeat >= 1`: with a deadline of
no units at all every pass is overdue at once.

`TemplateLifecycleProofs` (`LifecycleAssumption`; there is at least one generation and one revision):
`TypeOK`, `ProtectedSurvives`, `ApprovedPlanOnly`, `NothingLeftBehind` and `PlansOwnSpec`. A handler runs long after
the dispatch, so `PhaseInv` ties each step of a reconcile to the phase it was dispatched on, which nobody else
changes meanwhile; only an apply plans again after its status write. `ApprovalInv`: every approval on record, in the
object or in a copy, is a human's, and in Applying the stored plan was made from the stored render and is approved if it
has to be (`Vetted`), until one is stored there past the gate (`ungated`). `GateInv`, for
`ProtectedSurvives`: before the recheck nothing destructive is in the status, and behind one that judged a plan nothing
destructive is in the plan the apply finds, so that only `unchecked` can replace a protected resource. `DestroyInv`: a copy that calls for a destroy reaches
the release only past it. `AckInv` and `RenderInv`: acknowledged generation and digest are of one
spec, and behind a compile the render is of its variables. `PlansOwnSpec` has the hypothesis `Git \/ ~ReuseRender`:
without it `life_render` violates the property.

`LeafGateProofs` (`GateAssumption`): `GateTypeOK`, `WithinCaps`, `ChangeFindsSlot`. Permits are given back field by
field, so `IInv` relates the three budgets to the reconciles: who is at work holds its slot, its
credential and, if it sweeps, its drift permit, and each budget is within the cap it was asked with.
`ChangeFindsSlot` has the hypothesis `SlotsOf(s) >= PerScope` for every scope: see the list above.

`PriorityRespected` and `NoIdleSlot` speak of what the admission loop would do. The ranking is shown to be
a strict total order of the waiting leaves (`BeforeOrders`), and the loop, a fold of the community modules, to
be greedy along it: a leaf is admitted just if it fits beside the better-ranked ones that are (`AdmittedGreedy`). There
is no induction over data in this prover, so the fold is resolved by hand: that a function satisfies its recursive
equation, and what that function returns, are found from a smallest set of leaves that would contradict it
(`LoopIsTurns`, `LoopGreedy`). `PriorityRespected` has the hypothesis `Priority`: without priorities the gate admits in the
order of arrival and means to. The leaves of a better class that are admitted are the same before and after a grant,
because the leaf that got the permit fitted beside all of them (`StillFits`, `BetterStay`).

`NoIdleSlot` has the hypothesis `SharedPool`, which the instance of `guards_safety` satisfies: waiters are parked
and come when they are woken, all leaves are of one scope, and the scope's slots, the pool or the drift share run out
no later than a credential. The inductive invariant counts: `ParkInv` says that a waiter is left parked only if
there is no room beside the handlers under way, permits dropped or not, and the waiters woken ahead of it. A refused leaf found
none beside those ahead of it (`RefusedNoRoom`), a grant moves a leaf from one count to the other (`ParkGranted`), and a release wakes
the first of the parked (`ChosenFirst`, `ParkWake`). `StageInv` and `DriftInv` say which stage of a release still holds which permit and that a
woken waiter is due. The hypothesis is needed: with several scopes that share a credential, TLC finds a
release that wakes its two waiters, both held up by their own scopes, while a third, for whom the credential just came free,
sleeps until its fallback requeue.

`LeafQueueProofs` (`QueueAssumption`): `TypeOK`, `WithinAckPending`, `OneHolderUnlessLate` and, as
`ImplementsPromiseSafe`, `Spec => Promise!Safe`: the initial states and the steps of the queue are
those of `AtLeastOnce`. The invariant behind all of them (`PlaceInv`) is that every sequence number given out
is in exactly one place: at one position of the queue, out, dead, acked or reported. `LateInv` adds that
what is past its deadline is known as late, and that work somebody holds on time does not wait for
another worker. From `PlaceInv` follows which fate and tries the refinement mapping gives
(`FatesKnown`); each action shows what becomes of the open entries (`StepOK`), and `StepPromised` turns that into a
step of `AtLeastOnce`. `NthIs` and `TakenFew` are the counting arguments: places number a finite set without gaps,
and the last entry a pull takes has fewer than `room` of its credential before it.

`FlowProofs` (`FlowAssumption`; the steps are finitely many numbers and no step depends on an
unknown one, which `toposort` refuses): `BuiltOnOutputs`, for any order of visits, `SortIsSound`, `FlowTypeOK` and,
with the types of the queue, `DispatchTypeOK` of the run's composition. For `BuiltOnOutputs` the invariant adds that what a
pass noted of a template is no newer than the template, that what it saw Ready has been Ready (`was`), and that
variables that refer to outputs were resolved from numbers the dependencies had. `SortIsSound` says for every relation of any finite number of steps
that the order of `toposort` is full just if there is no cycle, and has no step before a dependency of its own. One turn keeps an order sound (`ExtendedSound`) and finds no step only on a cycle (`StuckOnCycle`); as for the gate, the
fold is resolved from a smallest number of turns that would go wrong (`LoopIsTurns`, `LoopSound`), and a full order excludes
a cycle by the step of the cycle that comes first (`OrderedIsAcyclic`).

`ImagePipelineProofs` (`PipelineAssumption`): `TypeOK`, `ImageOfSpec`, `PassedWasRun`, `DeployedWasTested`,
`CompletedIsDeployed`, `OnlyCapturedPlans`. Four controllers read each other's status on their own, so each
object needs its part of `IInv`. `BuildInv`: the copy of a PackerBuild agrees with the object except for the
generation, and template and manifest in the workspace are of the observed generation. `TestInv`:
succeeded suites have succeeded Jobs, on the image of the test and behind Jobs that succeeded. `SourceInv`: of a build
nobody edited, whoever took its image took the one it still names. `TodoInv`: the writes a
reconcile has yet to make still owe what they owe to what it read. `PipeInv` and `TmplInv`: what
each phase of the pipeline claims, that captured hashes are in `seen`, and that what is deployed was tested.
`TmplInv` says of a template without an earlier plan that a plan it shows was made for the image
the pipeline asked for, and of every approval that it is of a captured plan or of the earlier one (`Trusted`).
`CompletedIsDeployed` therefore speaks of templates without an earlier plan: `image_stale` violates it for others.

Model-checked only:

- liveness (`OrphanedLeaseIsTakenOver`, `EditAcknowledged`, `DriftLeafAdmitted`, `DeletionCompletes`,
  `FlowComesToRest`, `PipelineEnds`, and `Settles` in `ImplementsPromise`): the prover has no rule for
  fairness and `ENABLED`.

Every other property of the passing runs is a theorem, for some of them under the hypotheses named above.

## Not modelled

- Suspension of templates, auto-suspend and its probes, the reactive policy with its phase
  timeouts, and the counters that drive them; the settling counters behind the verdict of a drift
  check.
- Import hints, conflict resolution and the self-heal retry inside an apply; leaf admission
  refusals; the legacy on-disk workspace of the tofu executor.
- The `honor_reconcile_requests` annotation (off by default); two processes that run
  at the same time in `TemplatePass` (the state lock and the election are
  modelled for that case).
- Equal `since` stamps in the gate, and clock skew between pods.
- `LockGuard::release`, `force_release`, `is_locked`, `acquire_with_timeout`: no caller.
- The JetStream engine of the queue and `pending_cost`; `flow_scheduler.rs`, which no controller
  calls; edits of the steps of a living flow, its deletion.
- Finalizers, deletion, suspension and the kill switch of the image controllers, an inline AMI
  id of an AmiTest, an edit of the pipeline's spec and
  other writers of the template it deploys to.
- Clients and interpreters (CLI, MCP, web, the Ruby evaluation, `lava-ruby`), which are I/O or
  pure functions over source text, and the parts of the executors behind the calls the
  controllers make. They are most of the repository's lines and hold no protocol.
- The controllers listed as such in the table above.

## Plan

Done: `LeaderElection`, `StateLock`, `TemplatePass`, `LeafGate`, `LeafQueue` with `AtLeastOnce`,
`Flow`, `PackerBuild`, `AmiTest`, `ImagePipeline` and `TemplateLifecycle`, with their proofs.

1. `ReactivePolicy`: failure counts, time in phase, auto-suspend and its probes,
   composed with the phases; the settling counters and fingerprints.
2. The pure algorithms of `src/pangea-leaf` against reference definitions; the
   compliance controllers.
