----------------------------- MODULE ImagePipeline -----------------------------
(* One ImagePipeline object (image_pipeline_controller.rs) over the PackerBuild  *)
(* and the AmiTest it creates and the InfrastructureTemplate it deploys to.      *)
(* A reconcile takes a copy of its object, reads, and then makes its writes one  *)
(* by one; the other controllers, a human approver and the infrastructure move   *)
(* between them, a call may fail and the process may die.                        *)
(* The template is abstract: the image its variable names, the image it last     *)
(* rendered, the plan it shows and the one approved; TemplateLifecycle has its   *)
(* detail. A plan hash covers the state the plan starts from and the names of    *)
(* the attributes it changes, never their values, so here it is that state.      *)
(* It needs an approval for every plan, or applies its plans by itself, or does  *)
(* not render with another image; nobody else edits or approves it, and the      *)
(* pipeline finds it settled.                                                    *)
EXTENDS Naturals, Sequences

CONSTANTS
  Confs,      \* the deploy specs tried
  MaxDrift,   \* bound: changes made to the infrastructure from outside
  MaxReplans, \* bound: passes that plan again what the template already shows
  MaxFaults,  \* bound: deaths, failed calls and failed applies in all
  MaxGen, MaxImages, Suites, Graphs, Deregister

ASSUME PipelineAssumption ==
  /\ Confs \subseteq [mode : {"auto", "manual", "webhook"}, tests : BOOLEAN, checks : BOOLEAN,
                     rollback : SUBSET {"apply", "health"},
                     target : {"approve", "auto", "broken"}, used : BOOLEAN]
  /\ {MaxDrift, MaxReplans, MaxFaults} \subseteq Nat
  /\ {MaxGen, MaxImages} \subseteq Nat \ {0}
  /\ Deregister \in BOOLEAN

VARIABLES
  build, disk, images, copy,   \* PackerBuild
  test, jobs,                  \* AmiTest
  conf,      \* spec: approval mode, tests, health checks, rollback triggers; what the
             \* template does with a plan, and whether one was approved and applied before
  pipe,      \* status of the pipeline
  rec,       \* the reconcile in progress: its copy and the writes it has yet to make
  tmpl,      \* the template
  plan,      \* the template's planning pass in progress
  live,      \* the infrastructure: the image it runs and the mark of a drift
  seen,      \* history: hashes the pipeline captured
  applied,   \* history: images the template deployed
  drifts, replans, faults

Build == INSTANCE PackerBuild
Test  == INSTANCE AmiTest

buildVars == <<build, disk, images, copy>>
testVars  == <<test, jobs>>
pipeVars  == <<conf, pipe, rec, seen>>
tmplVars  == <<tmpl, plan, live, applied, drifts, replans>>
vars      == <<buildVars, testVars, pipeVars, tmplVars, faults>>

OldImage == 1
NoImage  == 0
NoHash   == <<NoImage, 0>>
Earlier  == <<OldImage, MaxDrift + 1>>   \* the plan that was approved and applied before

NewPipe == [phase |-> "Pending", ami |-> NoImage, prev |-> NoImage, hash |-> NoHash,
            by |-> FALSE]
Idle    == [pipe |-> NewPipe, todo |-> <<>>]
NoPlan  == [on |-> FALSE, hash |-> NoHash, ok |-> FALSE]

Init ==
  /\ Build!Init /\ Test!Init
  /\ conf \in Confs /\ (conf.tests \/ test.deps = CHOOSE g \in Graphs : TRUE)
  /\ pipe = NewPipe /\ rec = Idle
  /\ \E h \in {IF conf.used THEN Earlier ELSE NoHash} :
       tmpl = [want |-> OldImage, made |-> OldImage, phase |-> "Ready", pend |-> h, ok |-> h]
  /\ plan = NoPlan
  /\ live = <<OldImage, 0>>
  /\ seen = {} /\ applied = {}
  /\ drifts = 0 /\ replans = 0

--------------------------------------------------------------------------------
(* The template. *)

Target == <<tmpl.made, 0>>
Settled == UNCHANGED <<buildVars, testVars, pipeVars>>

\* A change of the variable: render it and plan, whatever the phase.
Notice ==
  /\ ~plan.on /\ tmpl.made # tmpl.want
  /\ tmpl' = IF conf.target = "broken" THEN [tmpl EXCEPT !.phase = "Failed"]
             ELSE [tmpl EXCEPT !.made = tmpl.want, !.phase = "Planning"]
  /\ Settled /\ UNCHANGED <<plan, live, applied, drifts, replans, faults>>

\* A failed template retries, and one whose infrastructure moved is Drifted.
Retry ==
  /\ ~plan.on /\ tmpl.phase = "Failed" /\ tmpl.made = tmpl.want
  /\ tmpl' = [tmpl EXCEPT !.phase = "Planning"]
  /\ Settled /\ UNCHANGED <<plan, live, applied, drifts, replans, faults>>
DriftSeen ==
  /\ ~plan.on /\ tmpl.phase = "Ready" /\ live # Target
  /\ tmpl' = [tmpl EXCEPT !.phase = "Drifted"]
  /\ Settled /\ UNCHANGED <<plan, live, applied, drifts, replans, faults>>

\* handle_drifted: without autoApprove the plan the status shows must be approved,
\* and the one an apply has used up still is (see Apply).
Correct ==
  /\ ~plan.on /\ tmpl.phase = "Drifted"
  /\ conf.target = "auto" \/ (tmpl.pend # NoHash /\ tmpl.ok = tmpl.pend)
  /\ tmpl' = [tmpl EXCEPT !.phase = "Planning"]
  /\ Settled /\ UNCHANGED <<plan, live, applied, drifts, replans, faults>>

\* handle_planning and route_through_approval_gate: a pass plans, compares with
\* the approval of the copy it started from, and writes.
PlanStart ==
  /\ ~plan.on /\ tmpl.phase = "Planning" /\ tmpl.made = tmpl.want
  /\ plan' = [on |-> TRUE, hash |-> live, ok |-> conf.target = "auto" \/ tmpl.ok = live]
  /\ IF tmpl.pend = live /\ ~plan'.ok
     THEN replans < MaxReplans /\ replans' = replans + 1 ELSE UNCHANGED replans
  /\ Settled /\ UNCHANGED <<tmpl, live, applied, drifts, faults>>
PlanEnd ==
  /\ plan.on
  /\ tmpl' = CASE plan.hash = Target -> [tmpl EXCEPT !.phase = "Ready"]
               [] plan.hash # Target /\ plan.ok -> [tmpl EXCEPT !.phase = "Applying"]
               [] plan.hash # Target /\ ~plan.ok -> [tmpl EXCEPT !.pend = plan.hash, !.ok = NoHash]
  /\ plan' = NoPlan
  /\ Settled /\ UNCHANGED <<live, applied, drifts, replans, faults>>

\* handle_applying and update_apply_status, whose merge patch leaves out the two
\* hashes it sets to None: they stay on the status.
Apply ==
  /\ ~plan.on /\ tmpl.phase = "Applying"
  /\ \/ /\ live' = Target /\ applied' = applied \cup {tmpl.made}
        /\ tmpl' = [tmpl EXCEPT !.phase = "Ready"]
        /\ UNCHANGED faults
     \/ /\ faults < MaxFaults /\ faults' = faults + 1
        /\ tmpl' = [tmpl EXCEPT !.phase = "Failed"] /\ UNCHANGED <<live, applied>>
  /\ Settled /\ UNCHANGED <<plan, drifts, replans>>

\* The infrastructure changes outside the operator: to something new, or back to
\* what it was before that, before the pipeline or before the template's last apply.
Drift ==
  /\ drifts < MaxDrift /\ drifts' = drifts + 1
  /\ live' \in {<<live[1], drifts'>>, <<live[1], 0>>, <<OldImage, 0>>}
              \cup (IF conf.used THEN {Earlier} ELSE {})
  /\ live' # live
  /\ Settled /\ UNCHANGED <<tmpl, plan, applied, replans, faults>>

Template == Notice \/ Retry \/ DriftSeen \/ Correct \/ PlanStart \/ PlanEnd \/ Apply

--------------------------------------------------------------------------------
(* What a phase handler reads decides the writes it is going to make. *)

W(op, v) == <<op, v>>
Phase(p) == <<W("phase", p)>>
Error    == Phase("Failed")        \* reconcile_image_pipeline's error arm
Wait     == <<>>

HandlePending == <<W("build", 0)>> \o Phase("Building")

HandleBuilding ==
  CASE build.phase = "Ready" ->
         <<W("ami", build.ami)>> \o Phase(IF conf.tests THEN "Testing" ELSE "Planning")
    [] build.phase = "Failed" -> Error
    [] OTHER -> Wait

\* Mutant: an AmiTest that is Cleaning counts as over and passed.
HandleTestingLax ==
  CASE test.phase = "None" -> <<W("test", 0)>>
    [] test.phase \in {"Passed", "Cleaning"} -> Phase("Planning")
    [] test.phase = "Failed" -> Error
    [] OTHER -> Wait

HandleTesting ==
  CASE test.phase = "None" -> <<W("test", 0)>>
    [] test.phase = "Passed" -> Phase("Planning")
    [] test.phase \in {"Failed", "Cleaning"} -> Error
    [] OTHER -> Wait

\* The image the variable names is kept as the previous one on every pass.
HandlePlanning(p) == <<W("var", p.ami), W("prev", tmpl.want), W("look", 0)>>

HandleAwaitingApproval(p) == IF p.by THEN Phase("Applying") ELSE Wait

\* Mutant: whatever plan is pending is approved.
MatchesAny(pending, reviewed) == reviewed # NoHash

\* plan_hash_matches_reviewed.
Matches(pending, reviewed) == pending = reviewed

\* Mutant: a plan that is not the captured one is waited out.
HandleApplyingStays(p) ==
  CASE tmpl.phase = "Ready" -> Phase(IF conf.checks THEN "Verifying" ELSE "Completed")
    [] tmpl.phase = "Failed" -> IF "apply" \in conf.rollback THEN Phase("RollingBack") ELSE Error
    [] tmpl.phase = "Planning" /\ tmpl.pend \notin {NoHash, tmpl.ok} ->
         IF Matches(tmpl.pend, p.hash) THEN <<W("approve", tmpl.pend)>> ELSE Wait
    [] OTHER -> Wait

HandleApplying(p) ==
  CASE tmpl.phase = "Ready" -> Phase(IF conf.checks THEN "Verifying" ELSE "Completed")
    [] tmpl.phase = "Failed" -> IF "apply" \in conf.rollback THEN Phase("RollingBack") ELSE Error
    [] tmpl.phase = "Planning" /\ tmpl.pend \notin {NoHash, tmpl.ok} ->
         IF Matches(tmpl.pend, p.hash) THEN <<W("approve", tmpl.pend)>> ELSE Phase("Planning")
    [] OTHER -> Wait

HandleVerifying(healthy) ==
  CASE healthy -> Phase("Completed")
    [] ~healthy /\ "health" \in conf.rollback -> Phase("RollingBack")
    [] ~healthy /\ "health" \notin conf.rollback -> Phase("Failed")

HandleRollingBack(p) ==
  IF p.prev = NoImage THEN Error ELSE <<W("var", p.prev)>> \o Phase("Failed")

Handler(p, healthy) ==
  CASE p.phase = "Pending" -> HandlePending
    [] p.phase = "Building" -> HandleBuilding
    [] p.phase = "Testing" -> HandleTesting
    [] p.phase = "Planning" -> HandlePlanning(p)
    [] p.phase = "AwaitingApproval" -> HandleAwaitingApproval(p)
    [] p.phase = "Applying" -> HandleApplying(p)
    [] p.phase = "Verifying" -> HandleVerifying(healthy)
    [] p.phase = "RollingBack" -> HandleRollingBack(p)
    [] p.phase \in {"Completed", "Failed"} -> Wait

\* Mutant: the template is not waited for.
CapturedEarly(holds) ==
  CASE ~holds -> Error
    [] holds -> <<W("hash", tmpl.pend)>> \o
         (CASE conf.mode = "auto" -> Phase("Applying")
            [] conf.mode = "manual" -> Phase("AwaitingApproval")
            [] conf.mode = "webhook" -> Error)

(* The end of handle_planning, once the template shows a plan: assertions on it,  *)
(* its hash into the deploy status of the copy, and the phase the mode leads to.  *)
Captured(holds) ==
  CASE tmpl.pend = NoHash -> Wait
    [] tmpl.pend # NoHash /\ ~holds -> Error
    [] tmpl.pend # NoHash /\ holds ->
         <<W("hash", tmpl.pend)>> \o
         (CASE conf.mode = "auto" -> Phase("Applying")
            [] conf.mode = "manual" -> Phase("AwaitingApproval")
            [] conf.mode = "webhook" -> Error)

--------------------------------------------------------------------------------
(* The reconcile. *)

Still == UNCHANGED <<conf, tmplVars, disk, images, copy, jobs>>

Start ==
  /\ rec.todo = <<>>
  /\ \E healthy \in BOOLEAN : rec' = [pipe |-> pipe, todo |-> Handler(pipe, healthy)]
  /\ rec'.todo # <<>>
  /\ UNCHANGED <<pipe, build, test, seen, faults>> /\ Still

Op  == Head(rec.todo)[1]
Arg == Head(rec.todo)[2]
Rest == rec' = IF Len(rec.todo) = 1 THEN Idle ELSE [rec EXCEPT !.todo = Tail(@)]
Writes(op) == rec.todo # <<>> /\ Op = op

\* create, where a 409 is as good.
CreateBuild ==
  /\ Writes("build") /\ Rest
  /\ build' = IF build.gen = 0 THEN [build EXCEPT !.gen = 1] ELSE build
  /\ UNCHANGED <<pipe, test, seen, faults>> /\ Still
CreateTest ==
  /\ Writes("test") /\ Rest
  /\ test' = IF test.phase = "None" THEN [test EXCEPT !.phase = "Pending"] ELSE test
  /\ UNCHANGED <<pipe, build, seen, faults>> /\ Still

\* The merge patches of the status; a deploy status without a previous image
\* leaves the one on record.
WriteStatus ==
  /\ rec.todo # <<>> /\ Op \in {"ami", "prev", "hash", "phase"} /\ Rest
  /\ pipe' = CASE Op = "ami" -> [pipe EXCEPT !.ami = Arg]
               [] Op = "prev" -> [pipe EXCEPT !.prev = Arg]
               [] Op = "hash" -> [pipe EXCEPT !.hash = Arg,
                    !.prev = IF rec.pipe.prev = NoImage THEN @ ELSE rec.pipe.prev]
               [] Op = "phase" -> [pipe EXCEPT !.phase = Arg]
  /\ seen' = IF Op = "hash" THEN seen \cup {Arg} ELSE seen
  /\ UNCHANGED <<build, test, faults>> /\ Still

\* The two patches of the template.
PatchTemplate ==
  /\ rec.todo # <<>> /\ Op \in {"var", "approve"} /\ Rest
  /\ tmpl' = IF Op = "var" THEN [tmpl EXCEPT !.want = Arg] ELSE [tmpl EXCEPT !.ok = Arg]
  /\ UNCHANGED <<conf, pipe, seen, plan, live, applied, drifts, replans, faults>>
  /\ UNCHANGED <<buildVars, testVars>>

Look ==
  /\ Writes("look")
  /\ \E holds \in BOOLEAN :
       rec' = IF Captured(holds) = Wait THEN Idle ELSE [rec EXCEPT !.todo = Captured(holds)]
  /\ UNCHANGED <<pipe, build, test, seen, faults>> /\ Still

\* A call fails: the phase becomes Failed, unless that write is the one that failed.
CallFails ==
  /\ rec.todo # <<>> /\ faults < MaxFaults /\ faults' = faults + 1
  /\ rec' = IF rec.todo = Error THEN Idle ELSE [rec EXCEPT !.todo = Error]
  /\ UNCHANGED <<pipe, build, test, seen>> /\ Still

Die ==
  /\ rec.todo # <<>> /\ faults < MaxFaults /\ faults' = faults + 1
  /\ rec' = Idle
  /\ UNCHANGED <<pipe, build, test, seen>> /\ Still

\* A human sets status.deploy.approvedBy, and nobody clears it.
Approve ==
  /\ pipe.phase = "AwaitingApproval" /\ ~pipe.by
  /\ pipe' = [pipe EXCEPT !.by = TRUE]
  /\ UNCHANGED <<rec, build, test, seen, faults>> /\ Still

Reconcile == Start \/ CreateBuild \/ CreateTest \/ WriteStatus \/ PatchTemplate \/ Look

Next ==
  \/ Build!Next /\ UNCHANGED <<testVars, pipeVars, tmplVars>>
  \/ Test!Next /\ UNCHANGED <<disk, images, copy, pipeVars, tmplVars>>
  \/ Template \/ Drift
  \/ Reconcile \/ CallFails \/ Die \/ Approve

Spec == Init /\ [][Next]_vars

(* Every controller goes on requeueing what is not finished, and a Job ends.       *)
Fairness ==
  /\ WF_vars(Build!Start /\ UNCHANGED <<testVars, pipeVars, tmplVars>>)
  /\ WF_vars(Build!Handle /\ UNCHANGED <<testVars, pipeVars, tmplVars>>)
  /\ WF_vars(Test!Handle /\ UNCHANGED <<buildVars, pipeVars, tmplVars>>)
  /\ WF_vars(Test!JobEnds /\ UNCHANGED <<buildVars, pipeVars, tmplVars>>)
  /\ WF_vars(Template)
  /\ WF_vars(Reconcile)

FairSpec == Spec /\ Fairness

--------------------------------------------------------------------------------
PipePhases == {"Pending", "Building", "Testing", "Planning", "AwaitingApproval", "Applying",
               "Verifying", "Completed", "Failed", "RollingBack"}
TmplPhases == {"Planning", "Applying", "Ready", "Drifted", "Failed"}
Images == 0 .. MaxImages
Hashes == Images \X (0 .. MaxDrift + 1)
Pipes  == [phase : PipePhases, ami : Images, prev : Images, hash : Hashes, by : BOOLEAN]

(* The three statuses and the template stay in their ranges: every image a status   *)
(* names exists, and a reconcile makes at most three writes.                      *)
TypeOK ==
  /\ Build!TypeOK /\ Test!TypeOK
  /\ conf \in Confs /\ pipe \in Pipes /\ rec.pipe \in Pipes /\ Len(rec.todo) <= 3
  /\ tmpl \in [want : Images, made : Images, phase : TmplPhases, pend : Hashes, ok : Hashes]
  /\ plan \in [on : BOOLEAN, hash : Hashes, ok : BOOLEAN]
  /\ live \in Hashes /\ seen \subseteq Hashes /\ applied \subseteq Images

(* The image of a Ready build is made of one generation of its spec:              *)
(* PackerBuild's own promise, under edits, deaths and lost workspaces.            *)
ImageOfSpec == Build!AmiOfSpec

(* A Passed test ran every suite on the image it names, dependencies first:       *)
(* AmiTest's own promise, with Jobs adopted after a death.                        *)
PassedWasRun == Test!PassedWasRun

(* With tests configured, the template deploys a new image only if that image     *)
(* passed, unless the child PackerBuild was edited under the pipeline, whose      *)
(* test resolves the image anew (handle_building, handle_testing and the AmiTest's*)
(* handle_resolving each read the build on their own).                            *)
DeployedWasTested ==
  conf.tests /\ build.gen <= 1 =>
    \A a \in applied \ {OldImage} : test.phase = "Passed" /\ test.ami = a

(* A pipeline that verifies or has completed has had its image deployed           *)
(* (handle_applying on Phase::Ready).                                             *)
Deployed == pipe.phase \in {"Verifying", "Completed"} => pipe.ami \in applied

(* It has, on a template that shows no plan of an earlier apply: the pipeline     *)
(* then captures none before the template has planned its image, so the Ready it  *)
(* sees is never that of the template before the change.                          *)
CompletedIsDeployed == ~conf.used => Deployed

(* A template that needs an approval starts to apply only a plan the pipeline     *)
(* captured and ran its assertions on, however often drift makes it plan again    *)
(* (plan_hash_matches_reviewed in handle_applying), or the one that had been      *)
(* approved before the pipeline came, whose approval no apply has used up.        *)
OnlyCapturedPlans ==
  [][tmpl.phase # "Applying" /\ tmpl'.phase = "Applying" /\ conf.target # "auto"
     => plan.hash \in seen \/ (conf.used /\ plan.hash = Earlier)]_vars

(* A pipeline keeps coming to an end or to a human, except that one test suite is *)
(* stranded behind a skipped one, or the template shows no plan, as it applies    *)
(* its plans by itself or fails before it makes one (handle_planning waits), or   *)
(* it has drifted and shows a plan nobody approved (handle_applying waits).       *)
Ended  == pipe.phase \in {"Completed", "Failed"}
Asking == pipe.phase = "AwaitingApproval" /\ ~pipe.by
Planless == pipe.phase = "Planning" /\ tmpl.pend = NoHash /\ conf.target # "approve"
Ignored  == pipe.phase = "Applying" /\ tmpl.phase = "Drifted" /\ tmpl.ok # tmpl.pend
PipelineEnds == []<>(Ended \/ Asking \/ Test!Stranded \/ Planless \/ Ignored)

(* A rollback puts back the image that was in use before the pipeline started     *)
(* (previousAmiId, handle_rolling_back).                                          *)
RollbackRestores ==
  [][pipe.phase = "RollingBack" /\ pipe'.phase = "Failed" => tmpl.want = OldImage]_vars
================================================================================
