-------------------------- MODULE TemplateLifecycle --------------------------
(***************************************************************************)
(* The phases of one InfrastructureTemplate (template_controller.rs) on    *)
(* the magma executor, with its render and its plan in Postgres.           *)
(* A reconcile takes a copy of the object, reads the source, the render    *)
(* and the infrastructure as it goes, and writes the status field by field *)
(* from its copy; a user edits, approves, unprotects and deletes meanwhile *)
(* and the infrastructure drifts.  At every step the process may die.      *)
(*                                                                         *)
(* A configuration is a value of spec.variables and a revision of the      *)
(* source (a git HEAD, or the content of a ConfigMap); the infrastructure  *)
(* is one resource, so a plan is one action.  The verdict of the settling  *)
(* policy and the count of compile failures are free choices.  Suspension, *)
(* import hints and the pass record are left out.                          *)
(***************************************************************************)
EXTENDS Integers

CONSTANTS
    Git,          \* is the source a git repository, or else a ConfigMap?
    ReuseRender,  \* LeafConfig.reuse_render
    AutoApprove,  \* spec.autoApprove
    Policy,       \* what evaluate_policy decides for each action
    Vars,         \* the values of spec.variables, the first one being 0
    MaxGen,       \* bound: generations
    MaxRev,       \* bound: revisions of the source
    MaxDrift,     \* bound: changes made to the infrastructure from outside
    MaxFaults     \* bound: failed calls, crashes and aborted reconciles

Actions == {"none", "create", "update", "replace"}

ASSUME LifecycleAssumption ==
    /\ {Git, ReuseRender, AutoApprove} \subseteq BOOLEAN
    /\ Policy \in [Actions -> {"auto", "approve", "refuse"}]
    /\ 0 \in Vars /\ Vars \subseteq Nat
    /\ {MaxGen, MaxRev} \subseteq Nat \ {0} /\ {MaxDrift, MaxFaults} \subseteq Nat

VARIABLES
    tpl,      \* metadata and spec of the object
    st,       \* its status
    src,      \* the revision the source is at
    render,   \* artifact store: the rendered configuration and its revision
    plan,     \* artifact store: the plan and the revision it was made from
    infra,    \* the infrastructure, which is also what magma's state records
    job,      \* the reconcile in progress
    blessed,  \* auxiliary: the plan hashes a human approved
    ungated,  \* auxiliary: was a plan stored in Applying, past the approval gate?
    drifts, faults

vars == <<tpl, st, src, render, plan, infra, job, blessed, ungated, drifts, faults>>

-----------------------------------------------------------------------------
Configs == [vars : Vars, rev : 1 .. MaxRev]
Nothing == [vars |-> 0, rev |-> 0]        \* no infrastructure, or no render

Phases == {"Pending", "Compiling", "CompileBlocked", "Initializing", "Planning",
           "Applying", "Ready", "Drifted", "Failed", "Destroying"}

\* The action a plan takes, what it replaces and what it makes of it.
Action(from, to) ==
    CASE from = to -> "none"
      [] from # to /\ from = Nothing -> "create"
      [] from # to /\ from # Nothing /\ from.rev # to.rev -> "replace"
      [] from # Nothing /\ from.rev = to.rev /\ from.vars # to.vars -> "update"
PlanOf(from, to) == [act |-> Action(from, to), from |-> from, to |-> to]
NoPlan == PlanOf(Nothing, Nothing)

\* What the provider makes of infrastructure i when it executes the plan p,
\* which may have been made before i changed: an update changes attributes
\* in place, a create that was already done is skipped.
Realised(p, i) ==
    CASE p.act = "none" -> i
      [] p.act = "create" -> IF i = Nothing THEN p.to ELSE i
      [] p.act = "update" -> IF i = Nothing THEN i ELSE [i EXCEPT !.vars = p.to.vars]
      [] p.act = "replace" -> p.to
Destructive(act) == act = "replace"

\* Mutant: the state is left out.
HashOfAction(p) == <<p.act, p.from.vars # p.to.vars>>

\* plan_approval_hash: the actions and the attributes they touch, by name,
\* with the state they start from; not the values they set.
Hash(p) == <<p.act, p.from, p.from.vars # p.to.vars>>
NoHash == <<"none", Nothing, FALSE>>

\* material_spec_digest: the spec without its approvedPlanHash.
Material(t) == <<t.vars, t.prot, t.auth>>

NewTpl == [gen |-> 1, vars |-> 0, prot |-> TRUE, auth |-> FALSE, ok |-> NoHash,
           del |-> FALSE, fin |-> FALSE, ns |-> FALSE]
NewSt == [phase |-> "Pending", acked |-> 0, digest |-> <<>>, crev |-> 0,
          pend |-> NoHash, ok |-> NoHash, act |-> "none"]
Idle == [pc |-> "idle", tpl |-> NewTpl, st |-> NewSt, to |-> "Pending", then |-> "idle",
         fresh |-> TRUE, plan |-> NoPlan, rev |-> 0]

Init ==
    /\ \E prot \in BOOLEAN : tpl = [NewTpl EXCEPT !.prot = prot]
    /\ st = NewSt
    /\ src = 1
    /\ render = Nothing /\ plan = NoPlan /\ infra = Nothing
    /\ job = Idle
    /\ blessed = {} /\ ungated = FALSE
    /\ drifts = 0 /\ faults = 0

\* A deleted object is gone once no finalizer holds it.
Gone == tpl.del /\ ~tpl.fin

-----------------------------------------------------------------------------
(* The outside: the user, the source, the cluster and the infrastructure. *)

Outside == UNCHANGED <<render, plan, job, ungated, faults>>
Spec1(t) == tpl.gen < MaxGen /\ ~tpl.ns /\ ~Gone /\ tpl' = [t EXCEPT !.gen = @ + 1]

EditVars ==
    /\ \E v \in Vars \ {tpl.vars} : Spec1([tpl EXCEPT !.vars = v])
    /\ Outside /\ UNCHANGED <<st, src, infra, blessed, drifts>>

Unprotect ==
    /\ tpl.prot /\ Spec1([tpl EXCEPT !.prot = FALSE])
    /\ Outside /\ UNCHANGED <<st, src, infra, blessed, drifts>>

Authorize ==
    /\ ~tpl.auth /\ Spec1([tpl EXCEPT !.auth = TRUE])
    /\ Outside /\ UNCHANGED <<st, src, infra, blessed, drifts>>

\* The two ways to approve the plan the status shows.
Shown == st.pend # NoHash /\ ~Gone /\ blessed' = blessed \cup {st.pend}
ApproveInStatus ==
    /\ Shown /\ st.ok # st.pend /\ st' = [st EXCEPT !.ok = st.pend]
    /\ Outside /\ UNCHANGED <<tpl, src, infra, drifts>>
ApproveInSpec ==
    /\ Shown /\ tpl.ok # st.pend /\ Spec1([tpl EXCEPT !.ok = st.pend])
    /\ Outside /\ UNCHANGED <<st, src, infra, drifts>>

Delete ==
    /\ ~tpl.del
    /\ \E ns \in BOOLEAN : tpl' = [tpl EXCEPT !.del = TRUE, !.ns = ns]
    /\ Outside /\ UNCHANGED <<st, src, infra, blessed, drifts>>

Push ==
    /\ src < MaxRev /\ src' = src + 1
    /\ Outside /\ UNCHANGED <<tpl, st, infra, blessed, drifts>>

Drift ==
    /\ drifts < MaxDrift /\ infra # Nothing /\ drifts' = drifts + 1
    /\ infra' \in Configs \ {infra}
    /\ Outside /\ UNCHANGED <<tpl, st, src, blessed>>

-----------------------------------------------------------------------------
(* What a reconcile decides from its copy (t, s) of the object. *)

\* Mutant: a protected template blocks a namespace that is going away.
DeletionBlocks(prot, terminating, auth) ==
    IF prot THEN "block" ELSE IF auth THEN "destroy" ELSE "orphan"

\* deletion_decision, and the finalizer branch of reconcile_template.
DeletionDecision(prot, terminating, auth) ==
    CASE ~auth -> "orphan"
      [] auth /\ ~prot -> "destroy"
      [] auth /\ prot /\ ~terminating -> "block"
      [] auth /\ prot /\ terminating -> "orphan"

\* material_spec_invalidates_render.
SpecChanged(t, s) ==
    /\ t.gen > s.acked /\ s.digest # Material(t)
    /\ s.phase \notin {"Pending", "Destroying"}

\* compiled_config_available.
Available(t, s) ==
    /\ t.gen <= s.acked
    /\ render # Nothing
    /\ render.rev = IF Git THEN s.crev ELSE src

\* observe_source_freshness: a git HEAD past the compiled revision.
Fresh(s) == Git => s.crev = src

\* Mutant: a git source reuses its render too.
ReusableAny(t, s) == ReuseRender /\ s.crev = src /\ Available(t, s)

\* pending_route.
Reusable(t, s) == ReuseRender /\ ~Git /\ s.crev = src /\ Available(t, s)

\* Mutant: any approval on record will do.
ApprovedAtAll(t, s, p) == {s.ok, t.ok} # {NoHash}

\* is_plan_approved.
Approved(t, s, p) == Hash(p) \in {s.ok, t.ok}

\* What a handler does first: write a phase and return, or go on to one of
\* the longer steps below.
Write(phase) == <<"put", phase>>
Enter(pc) == <<pc, "">>

HandlePending(t, s) == Write(IF Reusable(t, s) THEN "Planning" ELSE "Compiling")
HandleInitializing == Write("Planning")
HandlePlanning(t, s) == IF Available(t, s) THEN Enter("plan") ELSE Write("Compiling")
HandleApplying(t, s) ==
    CASE ~Available(t, s) -> Write("Compiling")
      [] Available(t, s) /\ t.prot /\ Destructive(s.act) -> Write("Failed")
      [] OTHER -> Enter(IF t.prot THEN "recheck" ELSE "apply")
HandleReady(t, s) ==
    IF Fresh(s) /\ Available(t, s) THEN Enter("plan") ELSE Write("Compiling")
HandleDrifted(s) ==
    IF ~AutoApprove /\ (s.pend = NoHash \/ s.ok # s.pend) THEN Enter("idle")
    ELSE Write(IF Fresh(s) THEN "Planning" ELSE "Compiling")
HandleCompileBlocked == Write("Compiling")

\* dispatch_template_phase.
Handler(t, s) ==
    CASE s.phase = "Pending" -> HandlePending(t, s)
      [] s.phase = "Compiling" -> Enter("compile")
      [] s.phase = "CompileBlocked" -> HandleCompileBlocked
      [] s.phase = "Initializing" -> HandleInitializing
      [] s.phase = "Planning" -> HandlePlanning(t, s)
      [] s.phase = "Applying" -> HandleApplying(t, s)
      [] s.phase = "Ready" -> HandleReady(t, s)
      [] s.phase = "Drifted" -> HandleDrifted(s)
      [] s.phase = "Failed" -> Enter("retry")

\* The order of reconcile_template.
Route(t, s) ==
    LET decision == DeletionDecision(t.prot, tpl.ns, t.auth) IN
    CASE t.del /\ decision = "orphan" -> Enter("release")
      [] t.del /\ decision = "block" -> Enter("idle")
      [] t.del /\ decision = "destroy" ->
           IF s.phase = "Destroying" THEN Enter("destroy") ELSE Write("Destroying")
      [] ~t.del /\ ~t.fin -> Enter("finalize")
      [] ~t.del /\ t.fin /\ SpecChanged(t, s) -> Write("Pending")
      [] ~t.del /\ t.fin /\ ~SpecChanged(t, s) -> Handler(t, s)

\* The error of a handler is recorded as Failed; that of the steps before
\* the dispatch, and of that record itself, is only returned.
Caught == ~job.tpl.del /\ job.tpl.fin /\ ~SpecChanged(job.tpl, job.st)

\* What comes of a plan: the phase it leads to, or "pend" to wait for an
\* approval.
Verdicts(j) ==
    LET p == j.plan
        decision == Policy[p.act]
    IN CASE ~j.fresh -> {"Compiling"}
         [] j.fresh /\ p.act = "none" -> {IF j.st.phase = "Ready" THEN "idle" ELSE "Ready"}
         [] j.fresh /\ p.act # "none" /\ j.st.phase = "Ready" -> {"Drifted", "Failed"}
         [] j.fresh /\ p.act # "none" /\ j.st.phase = "Planning" ->
              CASE decision = "refuse" -> {"Failed"}
                [] decision = "auto" -> {"Applying"}
                [] decision = "approve" ->
                     IF Approved(j.tpl, j.st, p) THEN {"Applying"} ELSE {"pend"}

\* read_db_plan: the stored plan if it was made from a render of the current
\* revision, else a new one.
ToApply == IF plan.to.rev = render.rev THEN plan ELSE PlanOf(infra, render)

\* Mutant: only the drifts the status shows are checked.
BlockedByStatus(t, p) == t.prot /\ Destructive(job.st.act)

\* evaluate_destroy_protection_gate on the plan that is about to be applied.
Blocked(t, p) == t.prot /\ Destructive(p.act)

-----------------------------------------------------------------------------
(* The reconcile. *)

At(pc) == job.pc = pc
Goto(pc) == job' = [job EXCEPT !.pc = pc]
PutThen(phase, then) == job' = [job EXCEPT !.pc = "put", !.to = phase, !.then = then]
Fault == faults < MaxFaults /\ faults' = faults + 1

Start ==
    /\ At("idle") /\ ~Gone
    /\ LET r == Route(tpl, st) IN
       job' = IF r[1] = "idle" THEN Idle
              ELSE [Idle EXCEPT !.pc = r[1], !.tpl = tpl, !.st = st, !.fresh = Fresh(st),
                                !.to = IF r[1] = "put" THEN r[2] ELSE "Pending"]
    /\ UNCHANGED <<tpl, st, src, render, plan, infra, blessed, ungated, drifts, faults>>

\* update_phase and update_phase_with_error.
Put ==
    /\ At("put")
    /\ st' = [st EXCEPT !.phase = job.to, !.acked = job.tpl.gen,
                        !.digest = Material(job.tpl)]
    /\ job' = IF job.then = "idle" THEN Idle ELSE [job EXCEPT !.pc = job.then]
    /\ UNCHANGED <<tpl, src, render, plan, infra, blessed, ungated, drifts, faults>>

\* add_finalizer, remove_finalizer.
Finalize ==
    /\ At("finalize")
    /\ tpl' = IF tpl.del THEN tpl ELSE [tpl EXCEPT !.fin = TRUE]
    /\ job' = Idle
    /\ UNCHANGED <<st, src, render, plan, infra, blessed, ungated, drifts, faults>>
Release ==
    /\ At("release") /\ tpl' = [tpl EXCEPT !.fin = FALSE] /\ job' = Idle
    /\ UNCHANGED <<st, src, render, plan, infra, blessed, ungated, drifts, faults>>

\* handle_compiling: render the copy's variables with the source as it is,
\* then record the revision, then go on.  handle_compile_failure parks a
\* compile that failed too often in CompileBlocked, and its error is then
\* recorded as Failed like any other.
CompileFailure ==
    /\ Fault
    /\ st' = [st EXCEPT !.phase = "CompileBlocked"]
    /\ PutThen("Failed", "idle")
    /\ UNCHANGED render
Compile ==
    /\ At("compile")
    /\ \/ /\ render' = [vars |-> job.tpl.vars, rev |-> src]
          /\ job' = [job EXCEPT !.pc = "stamp", !.rev = src]
          /\ UNCHANGED <<st, faults>>
       \/ CompileFailure
    /\ UNCHANGED <<tpl, src, plan, infra, blessed, ungated, drifts>>
Stamp ==
    /\ At("stamp")
    /\ st' = [st EXCEPT !.crev = job.rev]
    /\ PutThen("Initializing", "idle")
    /\ UNCHANGED <<tpl, src, render, plan, infra, blessed, ungated, drifts, faults>>

\* runner.plan: refresh and plan from the stored render, and store the plan;
\* for handle_planning, for the drift check of handle_ready, and after an
\* apply.
MakePlan ==
    /\ At("plan") \/ At("replan")
    /\ plan' = PlanOf(infra, render)
    /\ job' = IF At("replan") THEN Idle ELSE [job EXCEPT !.pc = "judge", !.plan = plan']
    /\ UNCHANGED <<tpl, st, src, render, infra, blessed, ungated, drifts, faults>>

\* update_plan_status or update_settling_status, and the decision.
Judge ==
    /\ At("judge")
    /\ st' = IF job.fresh THEN [st EXCEPT !.act = job.plan.act] ELSE st
    /\ \E v \in Verdicts(job) :
         CASE v = "idle" -> job' = Idle
           [] v = "pend" -> Goto("pend")
           [] OTHER -> PutThen(v, "idle")
    /\ UNCHANGED <<tpl, src, render, plan, infra, blessed, ungated, drifts, faults>>

\* update_pending_plan_hash always clears the approval.
Pend ==
    /\ At("pend")
    /\ st' = [st EXCEPT !.pend = Hash(job.plan), !.ok = NoHash]
    /\ job' = Idle
    /\ UNCHANGED <<tpl, src, render, plan, infra, blessed, ungated, drifts, faults>>

\* An apply fails: a replace may have deleted what it was to replace.
\* react_to_apply_anomaly sends a stale plan back to Pending and leaves the
\* template in Applying on a rate limit or a transient error; any other error
\* is recorded as Failed.  The last two plan again.
ApplyFailure(p) ==
    /\ Fault
    /\ infra' \in {infra} \cup (IF p.act = "replace" THEN {Nothing} ELSE {})
    /\ \/ PutThen("Pending", "idle") /\ UNCHANGED ungated
       \/ PutThen("Failed", "replan") /\ UNCHANGED ungated
       \/ PutThen("Applying", "replan") /\ ungated' = TRUE

\* recheck_destroy_protection_before_bare_apply: the gate on the plan that is
\* stored.  If it cannot be read, a new plan is stored and judged instead; if
\* that fails too there is nothing to judge, and the gate lets the apply go on.
Judged(p) ==
    /\ plan' = p
    /\ IF Blocked(job.tpl, p) THEN PutThen("Failed", "idle") ELSE Goto("apply")
Recheck ==
    /\ At("recheck")
    /\ \/ Judged(ToApply) /\ UNCHANGED <<ungated, faults>>
       \/ Fault /\ Judged(PlanOf(infra, render)) /\ ungated' = TRUE
       \/ Fault /\ Goto("unchecked") /\ UNCHANGED <<plan, ungated>>
    /\ UNCHANGED <<tpl, st, src, render, infra, blessed, drifts>>

\* executor.apply, in handle_applying.
Applies == At("apply") \/ At("unchecked")
Apply ==
    /\ Applies
    /\ plan' = ToApply
    /\ \/ infra' = Realised(ToApply, infra) /\ Goto("record") /\ UNCHANGED <<ungated, faults>>
       \/ ApplyFailure(ToApply)
    /\ UNCHANGED <<tpl, st, src, render, blessed, drifts>>

\* update_apply_status.  It sets both plan hashes to None, which its merge
\* patch leaves out: the approval stays on record.
Record ==
    /\ At("record")
    /\ PutThen("Ready", "replan")
    /\ UNCHANGED <<tpl, st, src, render, plan, infra, blessed, ungated, drifts, faults>>

\* handle_failed.
Retry ==
    /\ At("retry")
    /\ st' = IF ReuseRender /\ ~Git THEN [st EXCEPT !.crev = 0] ELSE st
    /\ PutThen("Pending", "idle")
    /\ UNCHANGED <<tpl, src, render, plan, infra, blessed, ungated, drifts, faults>>

\* Mutant: the finalizer is released whether or not the destroy succeeded.
AfterFailedDestroyRelease == [job EXCEPT !.pc = "release"]

\* handle_destroying.
AfterFailedDestroy == [job EXCEPT !.pc = "put", !.to = "Failed"]
Destroy ==
    /\ At("destroy")
    /\ \/ infra' = Nothing /\ Goto("release") /\ UNCHANGED faults
       \/ Fault /\ job' = AfterFailedDestroy /\ UNCHANGED infra
    /\ UNCHANGED <<tpl, st, src, render, plan, blessed, ungated, drifts>>

\* A step returns an error; or the process dies, or the watchdog drops the
\* reconcile.
Error ==
    /\ ~At("idle") /\ Fault
    /\ job' = IF Caught /\ ~At("replan") THEN [job EXCEPT !.pc = "put", !.to = "Failed", !.then = "idle"]
              ELSE Idle
    /\ UNCHANGED <<tpl, st, src, render, plan, infra, blessed, ungated, drifts>>
Crash ==
    /\ ~At("idle") /\ Fault /\ job' = Idle
    /\ UNCHANGED <<tpl, st, src, render, plan, infra, blessed, ungated, drifts>>

Reconcile ==
    \/ Start \/ Put \/ Finalize \/ Release \/ Compile \/ Stamp \/ MakePlan
    \/ Judge \/ Pend \/ Recheck \/ Apply \/ Record \/ Retry \/ Destroy

Next ==
    \/ EditVars \/ Unprotect \/ Authorize \/ ApproveInStatus \/ ApproveInSpec
    \/ Delete \/ Push \/ Drift
    \/ Reconcile
    \/ Error \/ Crash

Spec == Init /\ [][Next]_vars

\* The controller requeues every template: a reconcile that can go on does.
FairSpec == Spec /\ WF_vars(Reconcile)

-----------------------------------------------------------------------------
Hashes == Actions \X (Configs \cup {Nothing}) \X BOOLEAN
Plans == [act : Actions, from : Configs \cup {Nothing}, to : Configs \cup {Nothing}]
TplType == [gen : 1 .. MaxGen, vars : Vars, prot : BOOLEAN, auth : BOOLEAN, ok : Hashes,
            del : BOOLEAN, fin : BOOLEAN, ns : BOOLEAN]
StType == [phase : Phases, acked : 0 .. MaxGen,
           digest : {<<>>} \cup (Vars \X BOOLEAN \X BOOLEAN), crev : 0 .. MaxRev,
           pend : Hashes, ok : Hashes, act : Actions]

\* Types; a plan has the action its two ends call for.
TypeOK ==
    /\ tpl \in TplType /\ st \in StType
    /\ src \in 1 .. MaxRev
    /\ {render, infra} \subseteq Configs \cup {Nothing}
    /\ plan \in Plans /\ plan.act = Action(plan.from, plan.to)
    /\ job \in [pc : {"idle", "put", "finalize", "release", "compile", "stamp", "plan", "replan",
                      "judge", "pend", "recheck", "apply", "unchecked", "record", "retry", "destroy"},
                tpl : TplType, st : StType, to : Phases, then : {"idle", "replan"},
                fresh : BOOLEAN, plan : Plans, rev : 0 .. MaxRev]
    /\ blessed \subseteq Hashes /\ ungated \in BOOLEAN
    /\ drifts \in 0 .. MaxDrift /\ faults \in 0 .. MaxFaults

\* With destroyProtection on in the copy a reconcile works from, an apply
\* deletes or replaces the infrastructure, whatever the stored plan became
\* since the status last described it, only if the recheck could look at no
\* plan at all and let it through unseen (it fails open by design); and even
\* then the plan the status described did neither.
ProtectedSurvives ==
    [][(infra' # infra /\ drifts' = drifts /\ infra # Nothing /\ job.tpl.prot)
       => \/ infra' # Nothing /\ infra'.rev = infra.rev
          \/ At("unchecked") /\ ~Destructive(job.st.act)]_vars

\* A plan is made from a render of the spec the reconcile works from:
\* "a spec change forces a recompile".
PlansOwnSpec == At("judge") => render.vars = job.tpl.vars

\* A plan that needs an approval leaves Planning for Applying only if a human
\* approved its hash at some time, so the same actions on the same
\* infrastructure, and it is the plan an apply would then find; and a plan that
\* changes the infrastructure is one a human approved, however plans are stored
\* in between, unless it was stored past the gate: by react_to_apply_anomaly for
\* an apply that failed and stayed in Applying, or by the protection's recheck.
\* The approval need not be of this time: no apply uses it up (see Record).
ApprovedPlanOnly ==
    [][/\ (st.phase = "Planning" /\ st'.phase = "Applying" /\ Policy[job.plan.act] = "approve")
          => Hash(job.plan) \in blessed /\ plan = job.plan
       /\ (Applies /\ infra' # infra /\ Policy[plan'.act] = "approve")
          => Hash(plan') \in blessed \/ ungated]_vars

\* A deletion that is authorised and not protected leaves no infrastructure
\* behind: the object goes only after a destroy that succeeded, however
\* destroys fail and processes die in between.
NothingLeftBehind ==
    [][(~Gone /\ Gone' /\ tpl.fin /\ job.tpl.auth /\ ~job.tpl.prot) => infra = Nothing]_vars

\* A deletion nobody has to unblock completes: protection is off, or the
\* namespace is going away.
DeletionCompletes == (tpl.del /\ (~tpl.prot \/ tpl.ns)) ~> Gone
=============================================================================
