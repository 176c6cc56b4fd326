----------------------- MODULE TemplateLifecycleProofs -----------------------
(***************************************************************************)
(* Proofs about TemplateLifecycle.  What a reconcile may do at a step      *)
(* follows from the phase it was dispatched on, which only it changes      *)
(* while it runs; the invariant therefore ties the step to the phase, the  *)
(* stored plan to the phase Applying, and the render to the spec.          *)
(***************************************************************************)
EXTENDS TemplateLifecycle, TLAPS

\* Where a reconcile is tells the phase it was dispatched on; only an apply
\* plans again after its status write, and only one that stays in Applying
\* does so in Applying.
PhaseInv ==
    /\ st.phase = "Destroying" => tpl.del
    /\ job.pc = "put" /\ job.to = "Destroying" => tpl.del
    /\ job.pc = "compile" => st.phase = "Compiling"
    /\ job.pc = "destroy" => job.then = "idle"
    /\ job.pc \in {"plan", "judge"} =>
         st.phase = job.st.phase /\ job.st.phase \in {"Planning", "Ready"}
    /\ job.pc \in {"recheck", "apply", "unchecked", "record"} => st.phase = "Applying"
    /\ job.pc = "put" /\ job.then = "replan" => st.phase = "Applying"
    /\ job.pc = "replan" => st.phase = job.to /\ job.then = "replan"
    /\ job.pc \in {"put", "replan"} /\ job.then = "replan" /\ job.to = "Applying" => ungated

\* A finalizer is released with the destroy authorised and the protection off
\* only after the destroy.
DestroyInv ==
    /\ job.pc = "destroy" => job.tpl.auth /\ ~job.tpl.prot
    /\ job.pc = "release" /\ job.tpl.auth /\ ~job.tpl.prot => infra = Nothing

\* The plan was made from the render, and if it needs an approval a human gave it.
Vetted(p) ==
    /\ p.to = render
    /\ Policy[p.act] = "approve" => Hash(p) \in blessed

\* Every approval on record is a human's; a plan is vetted on its way into
\* Applying and, until another one is stored past the gate, while in it.
ApprovalInv ==
    /\ {tpl.ok, st.ok, job.tpl.ok, job.st.ok} \subseteq blessed \cup {NoHash}
    /\ job.pc = "judge" => plan = job.plan /\ plan.to = render
    /\ job.pc = "put" /\ job.then = "idle" /\ job.to = "Applying" => plan = job.plan /\ Vetted(plan)
    /\ st.phase = "Applying" => Vetted(plan) \/ ungated

\* The acknowledged generation and the digest are of one spec.
AckInv ==
    /\ st.acked <= tpl.gen
    /\ st.acked = tpl.gen => st.digest = Material(tpl)
    /\ job.pc # "idle" =>
         /\ job.tpl.gen <= tpl.gen
         /\ job.tpl.gen = tpl.gen => Material(job.tpl) = Material(tpl)

IInv == TypeOK /\ PhaseInv /\ DestroyInv /\ ApprovalInv /\ AckInv

\* The steps that work from the render, and the phases behind a compile.
Working == {"stamp", "plan", "judge", "pend", "recheck", "apply", "unchecked", "record"}
Compiled == {"Initializing", "Planning", "Applying", "Ready", "Drifted"}

\* Behind a compile the render is of the variables the status has acknowledged
\* and the reconcile works from.
RenderInv ==
    /\ st.phase \in Compiled => st.digest[1] = render.vars
    /\ job.pc \in Working
         => render.vars = job.tpl.vars
    /\ job.pc = "put" /\ job.to \in Compiled => render.vars = job.tpl.vars

-----------------------------------------------------------------------------
(* The operators and the records. *)

Confs == Configs \cup {Nothing}
Pcs == {"idle", "put", "finalize", "release", "compile", "stamp", "plan", "replan",
        "judge", "pend", "recheck", "apply", "unchecked", "record", "retry", "destroy"}
Jobs == [pc : Pcs, tpl : TplType, st : StType, to : Phases, then : {"idle", "replan"},
         fresh : BOOLEAN, plan : Plans, rev : 0 .. MaxRev]

\* The bounds are natural numbers.
LEMMA Bounds ==
    /\ MaxGen \in Nat /\ MaxGen >= 1 /\ MaxRev \in Nat /\ MaxRev >= 1
    /\ MaxDrift \in Nat /\ MaxFaults \in Nat
    /\ 0 \in Vars /\ Vars \subseteq Nat
  BY LifecycleAssumption

\* A configuration is known by its two fields, and none is Nothing.
LEMMA ConfsFacts ==
    /\ Nothing \in Confs /\ Nothing.vars = 0 /\ Nothing.rev = 0
    /\ \A c \in Confs : c.vars \in Vars /\ c.rev \in 0 .. MaxRev
    /\ \A c \in Configs : c \in Confs /\ c # Nothing
    /\ \A c, d \in Confs : c.vars = d.vars /\ c.rev = d.rev => c = d
<1>1. Nothing \in Confs /\ Nothing.vars = 0 /\ Nothing.rev = 0
  BY DEF Confs, Nothing
<1>2. \A c \in Confs : c.vars \in Vars /\ c.rev \in 0 .. MaxRev
  BY Bounds DEF Confs, Configs, Nothing
<1>3. \A c \in Configs : c \in Confs /\ c # Nothing
  BY Bounds DEF Confs, Configs, Nothing
<1>4. \A c \in Confs : c = [vars |-> c.vars, rev |-> c.rev]
  BY DEF Confs, Configs, Nothing
<1> QED BY <1>1, <1>2, <1>3, <1>4

\* The four cases of a plan cover every two configurations.
LEMMA ActionType ==
    ASSUME NEW from \in Confs, NEW to \in Confs
    PROVE  Action(from, to) \in Actions
<1>1. from = to \/ from.rev # to.rev \/ from.vars # to.vars
  BY ConfsFacts
<1> QED BY <1>1 DEF Action, Actions

\* A plan of two configurations is a plan.
LEMMA PlanOfType ==
    ASSUME NEW from \in Confs, NEW to \in Confs
    PROVE  /\ PlanOf(from, to) \in Plans
           /\ PlanOf(from, to).act = Action(from, to)
           /\ PlanOf(from, to).from = from /\ PlanOf(from, to).to = to
  BY ActionType DEF PlanOf, Plans, Confs

\* The provider leaves a configuration; unless it replaces, what was there
\* stays, of the revision it was.
LEMMA RealisedType ==
    ASSUME NEW p \in Plans, NEW i \in Confs
    PROVE  /\ Realised(p, i) \in Confs
           /\ p.act # "replace" /\ i # Nothing
                => Realised(p, i) # Nothing /\ Realised(p, i).rev = i.rev
<1>1. p.act \in Actions /\ p.to \in Confs
  BY DEF Plans, Confs
<1>2. i # Nothing => i \in Configs
  BY DEF Confs
<1>3. ASSUME i # Nothing
      PROVE  /\ [i EXCEPT !.vars = p.to.vars] \in Configs
             /\ [i EXCEPT !.vars = p.to.vars].rev = i.rev
  BY <1>1, <1>2, <1>3, ConfsFacts DEF Configs
<1>4. CASE p.act = "none"
  BY <1>4 DEF Realised
<1>5. CASE p.act = "create"
  BY <1>1, <1>5 DEF Realised
<1>6. CASE p.act = "update"
  <2>1. CASE i = Nothing
    BY <1>6, <2>1 DEF Realised
  <2>2. CASE i # Nothing
    <3>1. Realised(p, i) = [i EXCEPT !.vars = p.to.vars]
      BY <1>6, <2>2 DEF Realised
    <3> QED BY <1>3, <2>2, <3>1, ConfsFacts
  <2> QED BY <2>1, <2>2
<1>7. CASE p.act = "replace"
  BY <1>1, <1>7 DEF Realised
<1> QED BY <1>1, <1>4, <1>5, <1>6, <1>7 DEF Actions

\* A hash is a hash, and only that of a plan that does nothing is NoHash.
LEMMA HashType ==
    /\ NoHash \in Hashes
    /\ \A p \in Plans : Hash(p) \in Hashes /\ (p.act # "none" => Hash(p) # NoHash)
  BY DEF NoHash, Hashes, Hash, Plans, Actions

\* The fields of a spec, a status and a reconcile.
LEMMA FieldTypes ==
    /\ \A t \in TplType : t.gen \in 1 .. MaxGen /\ t.vars \in Vars /\ t.ok \in Hashes
         /\ t.prot \in BOOLEAN /\ t.auth \in BOOLEAN /\ t.del \in BOOLEAN /\ t.fin \in BOOLEAN
         /\ t.ns \in BOOLEAN
         /\ Material(t) \in Vars \X BOOLEAN \X BOOLEAN /\ Material(t)[1] = t.vars
    /\ \A s \in StType : s.phase \in Phases /\ s.acked \in 0 .. MaxGen /\ s.crev \in 0 .. MaxRev
         /\ s.pend \in Hashes /\ s.ok \in Hashes /\ s.act \in Actions
    /\ \A j \in Jobs : j.pc \in Pcs /\ j.tpl \in TplType /\ j.st \in StType /\ j.to \in Phases
         /\ j.then \in {"idle", "replan"} /\ j.fresh \in BOOLEAN /\ j.plan \in Plans
         /\ j.rev \in 0 .. MaxRev
<1>1. \A t \in TplType : t.gen \in 1 .. MaxGen /\ t.vars \in Vars /\ t.ok \in Hashes
         /\ t.prot \in BOOLEAN /\ t.auth \in BOOLEAN /\ t.del \in BOOLEAN /\ t.fin \in BOOLEAN
         /\ t.ns \in BOOLEAN
         /\ Material(t) \in Vars \X BOOLEAN \X BOOLEAN /\ Material(t)[1] = t.vars
  BY DEF TplType, Material
<1>2. \A s \in StType : s.phase \in Phases /\ s.acked \in 0 .. MaxGen /\ s.crev \in 0 .. MaxRev
         /\ s.pend \in Hashes /\ s.ok \in Hashes /\ s.act \in Actions
  BY DEF StType
<1>3. \A j \in Jobs : j.pc \in Pcs /\ j.tpl \in TplType /\ j.st \in StType /\ j.to \in Phases
         /\ j.then \in {"idle", "replan"} /\ j.fresh \in BOOLEAN /\ j.plan \in Plans
         /\ j.rev \in 0 .. MaxRev
  BY DEF Jobs
<1> QED BY <1>1, <1>2, <1>3

\* The idle reconcile, the new object and the empty plan have their types.
LEMMA IdleType ==
    /\ NewTpl \in TplType /\ NewSt \in StType /\ NoPlan \in Plans /\ Idle \in Jobs
    /\ Idle.pc = "idle" /\ Idle.tpl = NewTpl /\ Idle.st = NewSt /\ Idle.then = "idle"
    /\ NewTpl.ok = NoHash /\ NewSt.ok = NoHash /\ NewTpl.gen = 1
    /\ NewSt.phase = "Pending" /\ NewSt.acked = 0
    /\ NoPlan.act = Action(NoPlan.from, NoPlan.to)
<1> USE Bounds, HashType
<1>1. NewTpl \in TplType /\ NewTpl.ok = NoHash /\ NewTpl.gen = 1
  BY DEF NewTpl, TplType
<1>2. /\ NewSt \in StType /\ NewSt.ok = NoHash /\ NewSt.phase = "Pending" /\ NewSt.acked = 0
  BY DEF NewSt, StType, Phases, Actions
<1>3. NoPlan \in Plans /\ NoPlan.act = Action(NoPlan.from, NoPlan.to)
  BY PlanOfType, ConfsFacts DEF NoPlan
<1>4. Idle \in Jobs /\ Idle.pc = "idle" /\ Idle.tpl = NewTpl /\ Idle.st = NewSt /\ Idle.then = "idle"
  BY <1>1, <1>2, <1>3 DEF Idle, Jobs, Pcs, Phases
<1> QED BY <1>1, <1>2, <1>3, <1>4

\* A reconcile goes on to its next step.
LEMMA JobGoes ==
    ASSUME NEW j \in Jobs, NEW pc \in Pcs,
           NEW k, k = [j EXCEPT !.pc = pc]
    PROVE  /\ k \in Jobs /\ k.pc = pc /\ k.tpl = j.tpl /\ k.st = j.st
           /\ k.to = j.to /\ k.then = j.then /\ k.plan = j.plan
  BY DEF Jobs

\* A reconcile goes on to a status write.
LEMMA JobPuts ==
    ASSUME job \in Jobs, NEW to \in Phases, NEW then \in {"idle", "replan"}, PutThen(to, then)
    PROVE  /\ job' \in Jobs /\ job'.pc = "put" /\ job'.tpl = job.tpl /\ job'.st = job.st
           /\ job'.to = to /\ job'.then = then /\ job'.plan = job.plan
  BY DEF PutThen, Jobs, Pcs

\* A write of the phase alone.
LEMMA StPhase ==
    ASSUME NEW s \in StType, NEW phase \in Phases,
           NEW k, k = [s EXCEPT !.phase = phase]
    PROVE  /\ k \in StType /\ k.phase = phase /\ k.acked = s.acked /\ k.digest = s.digest
           /\ k.ok = s.ok
  BY DEF StType

\* A write of the compiled revision.
LEMMA StCrev ==
    ASSUME NEW s \in StType, NEW crev \in 0 .. MaxRev,
           NEW k, k = [s EXCEPT !.crev = crev]
    PROVE  /\ k \in StType /\ k.phase = s.phase /\ k.acked = s.acked /\ k.digest = s.digest
           /\ k.ok = s.ok
  BY DEF StType

\* A write of the action the plan takes.
LEMMA StAct ==
    ASSUME NEW s \in StType, NEW act \in Actions,
           NEW k, k = [s EXCEPT !.act = act]
    PROVE  /\ k \in StType /\ k.phase = s.phase /\ k.acked = s.acked /\ k.digest = s.digest
           /\ k.ok = s.ok
  BY DEF StType

\* A write of the approval.
LEMMA StOk ==
    ASSUME NEW s \in StType, NEW ok \in Hashes,
           NEW k, k = [s EXCEPT !.ok = ok]
    PROVE  /\ k \in StType /\ k.phase = s.phase /\ k.acked = s.acked /\ k.digest = s.digest
           /\ k.ok = ok
  BY DEF StType

\* A change of the generation.
LEMMA TplGen ==
    ASSUME NEW t \in TplType, NEW gen \in 1 .. MaxGen,
           NEW k, k = [t EXCEPT !.gen = gen]
    PROVE  k \in TplType /\ k.gen = gen /\ k.ok = t.ok /\ k.del = t.del
  BY DEF TplType

\* A change of the variables.
LEMMA TplVars ==
    ASSUME NEW t \in TplType, NEW v \in Vars,
           NEW k, k = [t EXCEPT !.vars = v]
    PROVE  k \in TplType /\ k.gen = t.gen /\ k.ok = t.ok /\ k.del = t.del
  BY DEF TplType

\* A change of the protection.
LEMMA TplProt ==
    ASSUME NEW t \in TplType, NEW b \in BOOLEAN,
           NEW k, k = [t EXCEPT !.prot = b]
    PROVE  k \in TplType /\ k.gen = t.gen /\ k.ok = t.ok /\ k.del = t.del
  BY DEF TplType

\* A change of the authority to destroy.
LEMMA TplAuth ==
    ASSUME NEW t \in TplType, NEW b \in BOOLEAN,
           NEW k, k = [t EXCEPT !.auth = b]
    PROVE  k \in TplType /\ k.gen = t.gen /\ k.ok = t.ok /\ k.del = t.del
  BY DEF TplType

\* A change of the approval in the spec.
LEMMA TplOk ==
    ASSUME NEW t \in TplType, NEW ok \in Hashes,
           NEW k, k = [t EXCEPT !.ok = ok]
    PROVE  k \in TplType /\ k.gen = t.gen /\ k.ok = ok /\ k.del = t.del
  BY DEF TplType

\* A change of the finalizer.
LEMMA TplFin ==
    ASSUME NEW t \in TplType, NEW b \in BOOLEAN,
           NEW k, k = [t EXCEPT !.fin = b]
    PROVE  k \in TplType /\ k.gen = t.gen /\ k.ok = t.ok /\ k.del = t.del /\ k.fin = b
           /\ Material(k) = Material(t)
  BY DEF TplType, Material

\* A deletion.
LEMMA TplDel ==
    ASSUME NEW t \in TplType, NEW b \in BOOLEAN,
           NEW k, k = [t EXCEPT !.del = TRUE, !.ns = b]
    PROVE  k \in TplType /\ k.gen = t.gen /\ k.ok = t.ok /\ k.del = TRUE /\ k.fin = t.fin
           /\ Material(k) = Material(t)
  BY DEF TplType, Material

\* The first component of what a handler returns is the step it goes on to.
LEMMA EnterIs ==
    ASSUME NEW pc PROVE Enter(pc)[1] = pc
<1>1. \A e : <<pc, e>>[1] = pc
  OBVIOUS
<1> QED BY <1>1, Zenon DEF Enter

\* What the dispatch of a phase enters.
LEMMA HandlerIs ==
    ASSUME NEW t \in TplType, NEW s \in StType, s.phase # "Destroying", NEW r, r = Handler(t, s)
    PROVE  /\ r[1] \in {"idle", "put", "compile", "plan", "recheck", "apply", "retry"}
           /\ r[1] = "put" => r[2] \in Phases \ {"Destroying", "Applying"}
           /\ r[1] = "compile" => s.phase = "Compiling"
           /\ r[1] = "plan" => s.phase \in {"Planning", "Ready"}
           /\ r[1] \in {"recheck", "apply"} => s.phase = "Applying"
           /\ r[1] = "recheck" => ~(t.prot /\ Destructive(s.act))
           /\ r[1] = "apply" => ~t.prot
           /\ Git \/ ~ReuseRender =>
                (r[1] = "put" /\ r[2] \in Compiled => s.phase \in Compiled)
<1> USE DEF Write, Enter, Phases, Compiled
<1>1. s.phase \in Phases
  BY FieldTypes
<1>2. CASE s.phase = "Pending"
  BY <1>2 DEF Handler, HandlePending, Reusable
<1>3. CASE s.phase = "Compiling"
  BY <1>3 DEF Handler
<1>4. CASE s.phase = "CompileBlocked"
  BY <1>4 DEF Handler, HandleCompileBlocked
<1>5. CASE s.phase = "Initializing"
  BY <1>5 DEF Handler, HandleInitializing
<1>6. CASE s.phase = "Planning"
  BY <1>6 DEF Handler, HandlePlanning
<1>7. CASE s.phase = "Applying"
  BY <1>7 DEF Handler, HandleApplying
<1>8. CASE s.phase = "Ready"
  BY <1>8 DEF Handler, HandleReady
<1>9. CASE s.phase = "Drifted"
  BY <1>9 DEF Handler, HandleDrifted
<1>10. CASE s.phase = "Failed"
  BY <1>10 DEF Handler
<1> QED BY <1>1, <1>2, <1>3, <1>4, <1>5, <1>6, <1>7, <1>8, <1>9, <1>10

\* What reconcile_template enters: a phase's handler only for a live object
\* with its finalizer whose spec the status knows; a release only for a copy
\* that does not call for a destroy.
LEMMA RouteIs ==
    ASSUME NEW t \in TplType, NEW s \in StType, s.phase = "Destroying" => t.del,
           NEW r, r = Route(t, s)
    PROVE  /\ r[1] \in {"idle", "put", "finalize", "release", "compile", "plan", "recheck", "apply",
                        "retry", "destroy"}
           /\ r[1] = "put" => r[2] \in Phases \ {"Applying"} /\ (r[2] = "Destroying" => t.del)
           /\ r[1] = "compile" => s.phase = "Compiling"
           /\ r[1] = "plan" => s.phase \in {"Planning", "Ready"}
           /\ r[1] \in {"recheck", "apply"} => s.phase = "Applying"
           /\ r[1] = "recheck" => ~(t.prot /\ Destructive(s.act))
           /\ r[1] = "apply" => ~t.prot
           /\ r[1] = "destroy" => t.auth /\ ~t.prot
           /\ r[1] = "release" => ~t.auth \/ t.prot
           /\ Git \/ ~ReuseRender =>
                (r[1] \in {"plan", "recheck", "apply"} \/ (r[1] = "put" /\ r[2] \in Compiled)
                   => s.phase \in Compiled /\ ~SpecChanged(t, s))
<1> USE DEF Write, Phases, Compiled
<1> DEFINE decision == DeletionDecision(t.prot, tpl.ns, t.auth)
<1>1. t.prot \in BOOLEAN /\ t.auth \in BOOLEAN /\ t.del \in BOOLEAN /\ t.fin \in BOOLEAN
  BY FieldTypes
<1>2. /\ decision \in {"orphan", "block", "destroy"}
      /\ decision = "orphan" => ~t.auth \/ t.prot
      /\ decision = "destroy" => t.auth /\ ~t.prot
  BY <1>1 DEF DeletionDecision
<1>3. r = CASE t.del /\ decision = "orphan" -> Enter("release")
            [] t.del /\ decision = "block" -> Enter("idle")
            [] t.del /\ decision = "destroy" ->
                 IF s.phase = "Destroying" THEN Enter("destroy") ELSE Write("Destroying")
            [] ~t.del /\ ~t.fin -> Enter("finalize")
            [] ~t.del /\ t.fin /\ SpecChanged(t, s) -> Write("Pending")
            [] ~t.del /\ t.fin /\ ~SpecChanged(t, s) -> Handler(t, s)
  BY DEF Route
<1> HIDE DEF decision
<1>4. CASE t.del
  <2>1. CASE decision = "orphan"
    <3>1. r = Enter("release")
      BY <1>3, <1>4, <2>1
    <3>2. r[1] = "release"
      BY <3>1, EnterIs
    <3> HIDE DEF Phases, Compiled
    <3> QED BY <1>2, <2>1, <3>2
  <2>2. CASE decision = "block"
    <3>1. r = Enter("idle")
      BY <1>3, <1>4, <2>2
    <3>2. r[1] = "idle"
      BY <3>1, EnterIs
    <3> HIDE DEF Phases, Compiled
    <3> QED BY <3>2
  <2>3. CASE decision = "destroy" /\ s.phase = "Destroying"
    <3>1. r = Enter("destroy")
      BY <1>3, <1>4, <2>3
    <3>2. r[1] = "destroy"
      BY <3>1, EnterIs
    <3> HIDE DEF Phases, Compiled
    <3> QED BY <1>2, <2>3, <3>2
  <2>4. CASE decision = "destroy" /\ s.phase # "Destroying"
    <3>1. r = <<"put", "Destroying">>
      BY <1>3, <1>4, <2>4
    <3> QED BY <1>4, <3>1
  <2> QED BY <1>2, <2>1, <2>2, <2>3, <2>4
<1>5. CASE ~t.del /\ ~t.fin
  <2>1. r = Enter("finalize")
    BY <1>1, <1>3, <1>5
  <2>2. r[1] = "finalize"
    BY <2>1, EnterIs
  <2> QED BY <2>2
<1>6. CASE ~t.del /\ t.fin /\ SpecChanged(t, s)
  <2>1. r = <<"put", "Pending">>
    BY <1>1, <1>3, <1>6
  <2> QED BY <2>1
<1>7. CASE ~t.del /\ t.fin /\ ~SpecChanged(t, s)
  <2>1. r = Handler(t, s)
    BY <1>1, <1>3, <1>7
  <2> QED BY <1>7, <2>1, HandlerIs
<1> QED BY <1>1, <1>4, <1>5, <1>6, <1>7

-----------------------------------------------------------------------------
(* The inductive step. *)

\* TypeOK, variable by variable.
LEMMA Types ==
    ASSUME TypeOK
    PROVE  /\ tpl \in TplType /\ st \in StType /\ src \in 1 .. MaxRev
           /\ render \in Confs /\ infra \in Confs
           /\ plan \in Plans /\ plan.act = Action(plan.from, plan.to) /\ job \in Jobs
           /\ blessed \subseteq Hashes /\ ungated \in BOOLEAN
           /\ drifts \in 0 .. MaxDrift /\ faults \in 0 .. MaxFaults
  BY DEF TypeOK, Confs, Jobs, Pcs

\* TypeOK, put together after a step.
LEMMA TypesNext ==
    ASSUME tpl' \in TplType, st' \in StType, src' \in 1 .. MaxRev,
           render' \in Confs, infra' \in Confs,
           plan' \in Plans, plan'.act = Action(plan'.from, plan'.to), job' \in Jobs,
           blessed' \subseteq Hashes, ungated' \in BOOLEAN,
           drifts' \in 0 .. MaxDrift, faults' \in 0 .. MaxFaults
    PROVE  TypeOK'
  BY DEF TypeOK, Confs, Jobs, Pcs

\* A fault is counted within its bound.
LEMMA FaultType ==
    ASSUME TypeOK, Fault PROVE faults' \in 0 .. MaxFaults
  BY Bounds DEF TypeOK, Fault

\* When the reconcile is over, only what relates the status to the object, to
\* the plan and to the approvals remains of the invariant.
LEMMA IdleStep ==
    ASSUME job' = Idle,
           st'.phase = "Destroying" => tpl'.del,
           {tpl'.ok, st'.ok} \subseteq blessed' \cup {NoHash},
           st'.phase = "Applying" => Vetted(plan)' \/ ungated',
           st'.acked <= tpl'.gen,
           st'.acked = tpl'.gen => st'.digest = Material(tpl)'
    PROVE  PhaseInv' /\ DestroyInv' /\ ApprovalInv' /\ AckInv'
<1>1. job'.pc = "idle" /\ job'.tpl.ok = NoHash /\ job'.st.ok = NoHash
  BY IdleType
<1>2. PhaseInv'
  BY <1>1 DEF PhaseInv
<1>3. DestroyInv'
  BY <1>1 DEF DestroyInv
<1>4. ApprovalInv'
  BY <1>1 DEF ApprovalInv, NoHash, Nothing
<1>5. AckInv'
  BY <1>1 DEF AckInv
<1> QED BY <1>2, <1>3, <1>4, <1>5

\* The invariant holds initially.
LEMMA InitIInv == Init => IInv
<1> SUFFICES ASSUME Init PROVE IInv
  OBVIOUS
<1>1. PICK prot \in BOOLEAN : tpl = [NewTpl EXCEPT !.prot = prot]
  BY DEF Init
<1>2. tpl \in TplType /\ tpl.gen = 1 /\ tpl.ok = NoHash
  BY <1>1, IdleType, TplProt
<1>3. /\ st = NewSt /\ src = 1 /\ render = Nothing /\ plan = NoPlan /\ infra = Nothing /\ job = Idle
      /\ blessed = {} /\ ungated = FALSE /\ drifts = 0 /\ faults = 0
  BY DEF Init
<1>4. TypeOK
  <2>1. /\ st \in StType /\ plan \in Plans /\ plan.act = Action(plan.from, plan.to) /\ job \in Jobs
        /\ render \in Confs /\ infra \in Confs
    BY <1>3, IdleType, ConfsFacts
  <2>2. src \in 1 .. MaxRev /\ drifts \in 0 .. MaxDrift /\ faults \in 0 .. MaxFaults
    BY <1>3, Bounds
  <2> QED BY <1>2, <1>3, <2>1, <2>2 DEF TypeOK, Confs, Jobs, Pcs
<1>5. /\ job.pc = "idle" /\ job.tpl.ok = NoHash /\ job.st.ok = NoHash
      /\ st.phase = "Pending" /\ st.acked = 0 /\ st.ok = NoHash
  BY <1>3, IdleType
<1> QED BY <1>2, <1>4, <1>5 DEF IInv, PhaseInv, DestroyInv, ApprovalInv, AckInv

\* A step of the outside leaves the reconcile, the render and the plan alone,
\* and the phase and what it acknowledges; it may add approvals, edit the spec
\* under a new generation, mark the object deleted and change infrastructure
\* that is there.
LEMMA OutsideKeeps ==
    ASSUME IInv, TypeOK', UNCHANGED <<job, render, plan, ungated>>,
           st'.phase = st.phase, st'.acked = st.acked, st'.digest = st.digest,
           blessed \subseteq blessed', {tpl'.ok, st'.ok} \subseteq blessed' \cup {NoHash},
           tpl.del => tpl'.del, infra = Nothing => infra' = Nothing,
           \/ tpl'.gen = tpl.gen /\ Material(tpl') = Material(tpl)
           \/ tpl'.gen = tpl.gen + 1
    PROVE  IInv'
<1>1. /\ TypeOK /\ PhaseInv /\ DestroyInv /\ ApprovalInv /\ AckInv
  BY DEF IInv
<1>2. PhaseInv'
  BY <1>1 DEF PhaseInv
<1>3. DestroyInv'
  BY <1>1 DEF DestroyInv, Nothing
<1>4. Vetted(plan) => Vetted(plan)'
  BY DEF Vetted, Hash
<1>5. ApprovalInv'
  BY <1>1, <1>4 DEF ApprovalInv, NoHash, Nothing
<1>6. /\ tpl.gen \in 1 .. MaxGen /\ st.acked \in 0 .. MaxGen /\ job.tpl.gen \in 1 .. MaxGen
  BY <1>1, Types, FieldTypes
<1>7. AckInv'
  BY <1>1, <1>6, Bounds DEF AckInv
<1> QED BY <1>2, <1>3, <1>5, <1>7 DEF IInv

\* An edit of the spec comes with a new generation.
LEMMA SpecEdits ==
    ASSUME TypeOK, NEW t \in TplType, t.gen = tpl.gen, Spec1(t)
    PROVE  tpl' \in TplType /\ tpl'.gen = tpl.gen + 1 /\ tpl'.ok = t.ok /\ tpl'.del = t.del
<1>1. tpl.gen \in 1 .. MaxGen
  BY Types, FieldTypes
<1>2. t.gen + 1 \in 1 .. MaxGen /\ tpl' = [t EXCEPT !.gen = t.gen + 1]
  BY <1>1, Bounds DEF Spec1
<1> QED BY <1>2, TplGen

\* The user, the source, the cluster and the infrastructure keep the invariant.
LEMMA OutsideStep ==
    ASSUME IInv,
           EditVars \/ Unprotect \/ Authorize \/ ApproveInStatus \/ ApproveInSpec
             \/ Delete \/ Push \/ Drift
    PROVE  IInv'
<1> USE Types
<1>0. TypeOK /\ UNCHANGED <<job, render, plan, ungated, faults>>
  BY DEF IInv, EditVars, Unprotect, Authorize, ApproveInStatus, ApproveInSpec, Delete, Push, Drift,
         Outside
<1>1. tpl.ok \in blessed \cup {NoHash} /\ st.ok \in blessed \cup {NoHash}
  BY DEF IInv, ApprovalInv
<1>2. ASSUME tpl' \in TplType, tpl'.gen = tpl.gen + 1, tpl'.ok = tpl.ok, tpl'.del = tpl.del,
             UNCHANGED <<st, src, infra, blessed, drifts>>
      PROVE  IInv'
  <2>1. TypeOK'
    BY <1>0, <1>2, TypesNext
  <2> QED BY <1>0, <1>1, <1>2, <2>1, OutsideKeeps
<1>3. CASE EditVars
  <2>1. PICK v \in Vars : Spec1([tpl EXCEPT !.vars = v])
    BY <1>3 DEF EditVars
  <2> DEFINE t == [tpl EXCEPT !.vars = v]
  <2>2. t \in TplType /\ t.gen = tpl.gen /\ t.ok = tpl.ok /\ t.del = tpl.del
    BY <1>0, TplVars
  <2> HIDE DEF t
  <2>3. Spec1(t)
    BY <2>1 DEF t
  <2> QED BY <1>0, <1>2, <1>3, <2>2, <2>3, SpecEdits DEF EditVars
<1>4. CASE Unprotect
  <2> DEFINE t == [tpl EXCEPT !.prot = FALSE]
  <2>2. t \in TplType /\ t.gen = tpl.gen /\ t.ok = tpl.ok /\ t.del = tpl.del
    BY <1>0, TplProt
  <2> HIDE DEF t
  <2>3. Spec1(t)
    BY <1>4 DEF t, Unprotect
  <2> QED BY <1>0, <1>2, <1>4, <2>2, <2>3, SpecEdits DEF Unprotect
<1>5. CASE Authorize
  <2> DEFINE t == [tpl EXCEPT !.auth = TRUE]
  <2>2. t \in TplType /\ t.gen = tpl.gen /\ t.ok = tpl.ok /\ t.del = tpl.del
    BY <1>0, TplAuth
  <2> HIDE DEF t
  <2>3. Spec1(t)
    BY <1>5 DEF t, Authorize
  <2> QED BY <1>0, <1>2, <1>5, <2>2, <2>3, SpecEdits DEF Authorize
<1>6. st.pend \in Hashes
  BY <1>0, FieldTypes
<1>7. CASE ApproveInStatus
  <2>1. /\ st' = [st EXCEPT !.ok = st.pend] /\ blessed' = blessed \cup {st.pend}
        /\ UNCHANGED <<tpl, src, infra, drifts>>
    BY <1>7 DEF ApproveInStatus, Shown
  <2>2. st' \in StType /\ st'.phase = st.phase /\ st'.acked = st.acked /\ st'.digest = st.digest
        /\ st'.ok = st.pend
    BY <1>0, <1>6, <2>1, StOk
  <2>3. TypeOK'
    BY <1>0, <1>6, <2>1, <2>2, TypesNext
  <2> QED BY <1>0, <1>1, <2>1, <2>2, <2>3, OutsideKeeps
<1>8. CASE ApproveInSpec
  <2> DEFINE t == [tpl EXCEPT !.ok = st.pend]
  <2>2. t \in TplType /\ t.gen = tpl.gen /\ t.ok = st.pend /\ t.del = tpl.del
    BY <1>0, <1>6, TplOk
  <2> HIDE DEF t
  <2>3. Spec1(t) /\ blessed' = blessed \cup {st.pend} /\ UNCHANGED <<st, src, infra, drifts>>
    BY <1>8 DEF t, ApproveInSpec, Shown
  <2>4. tpl' \in TplType /\ tpl'.gen = tpl.gen + 1 /\ tpl'.ok = st.pend /\ tpl'.del = tpl.del
    BY <1>0, <2>2, <2>3, SpecEdits
  <2>5. TypeOK'
    BY <1>0, <1>6, <2>3, <2>4, TypesNext
  <2> QED BY <1>0, <1>1, <2>3, <2>4, <2>5, OutsideKeeps
<1>9. CASE Delete
  <2>1. PICK ns \in BOOLEAN : tpl' = [tpl EXCEPT !.del = TRUE, !.ns = ns]
    BY <1>9 DEF Delete
  <2>2. /\ tpl' \in TplType /\ tpl'.gen = tpl.gen /\ tpl'.ok = tpl.ok /\ tpl'.del = TRUE
        /\ Material(tpl') = Material(tpl) /\ UNCHANGED <<st, src, infra, blessed, drifts>>
    <3>1. tpl \in TplType
      BY <1>0
    <3>2. tpl' \in TplType /\ tpl'.gen = tpl.gen /\ tpl'.ok = tpl.ok /\ tpl'.del = TRUE
          /\ Material(tpl') = Material(tpl)
      BY <2>1, <3>1, TplDel, Zenon
    <3> QED BY <1>9, <3>2 DEF Delete
  <2>3. TypeOK'
    BY <1>0, <2>2, TypesNext
  <2> QED BY <1>0, <1>1, <2>2, <2>3, OutsideKeeps
<1>10. CASE Push
  <2>1. src' \in 1 .. MaxRev /\ UNCHANGED <<tpl, st, infra, blessed, drifts>>
    BY <1>0, <1>10, Bounds DEF Push
  <2>2. TypeOK'
    BY <1>0, <2>1, TypesNext
  <2> QED BY <1>0, <1>1, <2>1, <2>2, OutsideKeeps
<1>11. CASE Drift
  <2>0. drifts \in 0 .. MaxDrift /\ drifts < MaxDrift /\ drifts' = drifts + 1
    BY <1>0, <1>11 DEF Drift
  <2>1. /\ infra # Nothing /\ infra' \in Confs /\ drifts' \in 0 .. MaxDrift
        /\ UNCHANGED <<tpl, st, src, blessed>>
    BY <1>11, <2>0, Bounds DEF Drift, Confs
  <2>2. TypeOK'
    BY <1>0, <2>1, TypesNext
  <2> QED BY <1>0, <1>1, <2>1, <2>2, OutsideKeeps
<1> QED BY <1>3, <1>4, <1>5, <1>7, <1>8, <1>9, <1>10, <1>11

\* A reconcile that starts is tied to the phase it is dispatched on.
LEMMA StartStep ==
    ASSUME IInv, Start PROVE IInv'
<1>0. TypeOK /\ PhaseInv /\ DestroyInv /\ ApprovalInv /\ AckInv
      /\ UNCHANGED <<tpl, st, src, render, plan, infra, blessed, ungated, drifts, faults>>
  BY DEF IInv, Start
<1> DEFINE r == Route(tpl, st)
           to == IF r[1] = "put" THEN r[2] ELSE "Pending"
           new == [Idle EXCEPT !.pc = r[1], !.tpl = tpl, !.st = st, !.fresh = Fresh(st), !.to = to]
<1>1. job' = IF r[1] = "idle" THEN Idle ELSE new
  BY DEF Start
<1>2. tpl \in TplType /\ st \in StType /\ (st.phase = "Destroying" => tpl.del)
  BY <1>0, Types DEF PhaseInv
<1>3. /\ r[1] \in {"idle", "put", "finalize", "release", "compile", "plan", "recheck", "apply", "retry",
              "destroy"}
      /\ r[1] = "put" => r[2] \in Phases \ {"Applying"} /\ (r[2] = "Destroying" => tpl.del)
      /\ r[1] = "compile" => st.phase = "Compiling"
      /\ r[1] = "plan" => st.phase \in {"Planning", "Ready"}
      /\ r[1] \in {"recheck", "apply"} => st.phase = "Applying"
      /\ r[1] = "destroy" => tpl.auth /\ ~tpl.prot
      /\ r[1] = "release" => ~tpl.auth \/ tpl.prot
  BY <1>2, RouteIs
<1>4. CASE r[1] = "idle"
  <2>1. job' = Idle
    BY <1>1, <1>4
  <2>2. TypeOK'
    BY <1>0, <2>1, Types, TypesNext, IdleType
  <2>3. Vetted(plan)' <=> Vetted(plan)
    BY <1>0 DEF Vetted, Hash
  <2>4. PhaseInv' /\ DestroyInv' /\ ApprovalInv' /\ AckInv'
    BY <1>0, <2>1, <2>3, IdleStep DEF PhaseInv, ApprovalInv, AckInv
  <2> QED BY <2>2, <2>4 DEF IInv
<1>5. CASE r[1] # "idle"
  <2>1. job' = new
    BY <1>1, <1>5
  <2>2. r[1] \in Pcs /\ to \in Phases /\ Fresh(st) \in BOOLEAN
    BY <1>3 DEF Pcs, Phases, Fresh
  <2> HIDE DEF r, to
  <2>3. /\ job' \in Jobs /\ job'.pc = r[1] /\ job'.tpl = tpl /\ job'.st = st /\ job'.to = to
        /\ job'.then = "idle"
    <3>1. tpl \in TplType /\ st \in StType
      BY <1>2
    <3> DEFINE fresh == Fresh(st)
               pc == r[1]
    <3>2. fresh \in BOOLEAN /\ pc \in Pcs
      BY <2>2
    <3>3. job' = [Idle EXCEPT !.pc = pc, !.tpl = tpl, !.st = st, !.fresh = fresh, !.to = to]
      BY <2>1
    <3> HIDE DEF fresh, pc
    <3> QED BY <2>2, <3>1, <3>2, <3>3, IdleType DEF pc, Jobs
  <2>4. r[1] = "put" => to # "Applying" /\ (to = "Destroying" => tpl.del)
    BY <1>3 DEF to
  <2> HIDE DEF new
  <2>5. TypeOK'
    BY <1>0, <2>3, Types, TypesNext
  <2>6. PhaseInv'
    BY <1>0, <1>3, <2>3, <2>4 DEF PhaseInv
  <2>7. DestroyInv'
    BY <1>0, <1>3, <2>3 DEF DestroyInv
  <2>8. Vetted(plan)' <=> Vetted(plan)
    BY <1>0 DEF Vetted, Hash
  <2>9. ApprovalInv'
    BY <1>0, <1>3, <2>3, <2>4, <2>8 DEF ApprovalInv, NoHash, Nothing
  <2>10. AckInv'
    <3>1. tpl.gen \in Nat
      BY <1>2, FieldTypes, Bounds
    <3> QED BY <1>0, <2>3, <3>1 DEF AckInv
  <2> QED BY <2>5, <2>6, <2>7, <2>9, <2>10 DEF IInv
<1> QED BY <1>4, <1>5

\* A status write acknowledges the generation of the copy; it enters Applying
\* with a plan that is vetted, or stays there.
LEMMA PutStep ==
    ASSUME IInv, Put PROVE IInv'
<1>0. TypeOK /\ PhaseInv /\ DestroyInv /\ ApprovalInv /\ AckInv /\ job.pc = "put"
      /\ UNCHANGED <<tpl, src, render, plan, infra, blessed, ungated, drifts, faults>>
  BY DEF IInv, Put, At
<1>1. /\ job \in Jobs /\ job.tpl \in TplType /\ job.to \in Phases /\ job.then \in {"idle", "replan"}
      /\ job.tpl.gen \in 1 .. MaxGen /\ Material(job.tpl) \in Vars \X BOOLEAN \X BOOLEAN
      /\ tpl.gen \in 1 .. MaxGen
  BY <1>0, Types, FieldTypes
<1>2. job.tpl.gen \in 0 .. MaxGen
  BY <1>1, Bounds
<1>3. st' \in StType /\ st'.phase = job.to /\ st'.acked = job.tpl.gen
      /\ st'.digest = Material(job.tpl) /\ st'.ok = st.ok
  <2>1. st \in StType
    BY <1>0, Types
  <2>2. st' = [st EXCEPT !.phase = job.to, !.acked = job.tpl.gen, !.digest = Material(job.tpl)]
    BY DEF Put
  <2> DEFINE phase == job.to
             acked == job.tpl.gen
             digest == Material(job.tpl)
  <2>3. phase \in Phases /\ acked \in 0 .. MaxGen /\ digest \in Vars \X BOOLEAN \X BOOLEAN
    BY <1>1, <1>2
  <2>4. st' = [st EXCEPT !.phase = phase, !.acked = acked, !.digest = digest]
    BY <2>2
  <2> HIDE DEF phase, acked, digest
  <2>5. st' \in StType /\ st'.phase = phase /\ st'.acked = acked
        /\ st'.digest = digest /\ st'.ok = st.ok
    BY <2>1, <2>3, <2>4 DEF StType
  <2> QED BY <2>5 DEF phase, acked, digest
<1>4. /\ st'.phase = "Destroying" => tpl'.del
      /\ {tpl'.ok, st'.ok} \subseteq blessed' \cup {NoHash}
      /\ st'.acked <= tpl'.gen
      /\ st'.acked = tpl'.gen => st'.digest = Material(tpl')
  BY <1>0, <1>3 DEF PhaseInv, ApprovalInv, AckInv
<1>5. Vetted(plan)' <=> Vetted(plan)
  BY <1>0 DEF Vetted, Hash
<1>6. st'.phase = "Applying" => Vetted(plan)' \/ ungated'
  BY <1>0, <1>1, <1>3, <1>5 DEF PhaseInv, ApprovalInv
<1>7. CASE job.then = "idle"
  <2>1. job' = Idle
    BY <1>7 DEF Put
  <2>2. TypeOK'
    BY <1>0, <1>3, <2>1, Types, TypesNext, IdleType
  <2> QED BY <1>4, <1>6, <2>1, <2>2, IdleStep DEF IInv
<1>8. CASE job.then = "replan"
  <2>1. job' = [job EXCEPT !.pc = "replan"]
    BY <1>8 DEF Put
  <2>2. /\ job' \in Jobs /\ job'.pc = "replan" /\ job'.tpl = job.tpl /\ job'.st = job.st
        /\ job'.to = job.to /\ job'.then = job.then
    BY <1>1, <2>1, JobGoes DEF Pcs
  <2>3. TypeOK'
    BY <1>0, <1>3, <2>2, Types, TypesNext
  <2>4. PhaseInv'
    BY <1>0, <1>3, <1>4, <1>8, <2>2 DEF PhaseInv
  <2>5. DestroyInv'
    BY <2>2 DEF DestroyInv
  <2>6. ApprovalInv'
    BY <1>0, <1>3, <1>6, <2>2 DEF ApprovalInv, NoHash, Nothing
  <2>7. AckInv'
    BY <1>0, <1>4, <2>2 DEF AckInv
  <2> QED BY <2>3, <2>4, <2>5, <2>6, <2>7 DEF IInv
<1> QED BY <1>1, <1>7, <1>8

\* A reconcile on its way to write a phase other than Applying and Destroying,
\* after which it is over: what it has done to the status, the plan and the
\* render has left the status in order.
LEMMA PutsKeeps ==
    ASSUME IInv, job.pc # "idle", job'.pc = "put", job'.then = "idle",
           job'.to \notin {"Applying", "Destroying"}, job'.tpl = job.tpl, job'.st = job.st,
           UNCHANGED <<tpl, blessed>>, st'.acked = st.acked, st'.digest = st.digest,
           st'.ok \in {st.ok, NoHash}, st'.phase = "Destroying" => st.phase = "Destroying",
           st'.phase = "Applying" => Vetted(plan)' \/ ungated'
    PROVE  PhaseInv' /\ DestroyInv' /\ ApprovalInv' /\ AckInv'
<1>0. PhaseInv /\ ApprovalInv /\ AckInv
  BY DEF IInv
<1>1. PhaseInv'
  BY <1>0 DEF PhaseInv
<1>2. DestroyInv'
  BY DEF DestroyInv
<1>3. ApprovalInv'
  BY <1>0 DEF ApprovalInv, NoHash, Nothing
<1>4. AckInv'
  BY <1>0 DEF AckInv
<1> QED BY <1>1, <1>2, <1>3, <1>4

\* The finalizer is added or removed.
LEMMA FinalizerStep ==
    ASSUME IInv, Finalize \/ Release PROVE IInv'
<1>0. /\ TypeOK /\ PhaseInv /\ ApprovalInv /\ AckInv /\ job' = Idle
      /\ UNCHANGED <<st, src, render, plan, infra, blessed, ungated, drifts, faults>>
  BY DEF IInv, Finalize, Release
<1>1. tpl \in TplType
  BY <1>0, Types
<1>2. tpl' = tpl \/ \E b \in BOOLEAN : tpl' = [tpl EXCEPT !.fin = b]
  BY DEF Finalize, Release
<1>3. /\ tpl' \in TplType /\ tpl'.gen = tpl.gen /\ tpl'.ok = tpl.ok /\ tpl'.del = tpl.del
      /\ Material(tpl') = Material(tpl)
  BY <1>1, <1>2, TplFin
<1>4. TypeOK'
  BY <1>0, <1>3, Types, TypesNext, IdleType
<1>5. Vetted(plan)' <=> Vetted(plan)
  BY <1>0 DEF Vetted, Hash
<1>6. PhaseInv' /\ DestroyInv' /\ ApprovalInv' /\ AckInv'
  BY <1>0, <1>3, <1>5, IdleStep DEF PhaseInv, ApprovalInv, AckInv
<1> QED BY <1>4, <1>6 DEF IInv

\* A compile works in Compiling, so no plan that is vetted loses its render.
LEMMA CompileStep ==
    ASSUME IInv, Compile \/ Stamp PROVE IInv'
<1>0. /\ TypeOK /\ PhaseInv /\ ApprovalInv /\ AckInv
      /\ UNCHANGED <<tpl, src, plan, infra, blessed, ungated, drifts>>
  BY DEF IInv, Compile, Stamp
<1>1. /\ job \in Jobs /\ st \in StType /\ src \in 1 .. MaxRev /\ job.tpl \in TplType
      /\ job.tpl.vars \in Vars /\ job.rev \in 0 .. MaxRev
  BY <1>0, Types, FieldTypes
<1>2. CASE /\ At("compile") /\ render' = [vars |-> job.tpl.vars, rev |-> src]
           /\ job' = [job EXCEPT !.pc = "stamp", !.rev = src] /\ UNCHANGED <<st, faults>>
  <2>1. src \in 0 .. MaxRev /\ render' \in Confs
    BY <1>1, <1>2, Bounds DEF Confs, Configs
  <2>2. /\ job' \in Jobs /\ job'.pc = "stamp" /\ job'.tpl = job.tpl /\ job'.st = job.st
    BY <1>1, <1>2, <2>1 DEF Jobs, Pcs
  <2>3. TypeOK'
    BY <1>0, <1>2, <2>1, <2>2, Types, TypesNext
  <2>4. job.pc = "compile" /\ st.phase = "Compiling"
    BY <1>0, <1>2 DEF PhaseInv, At
  <2>5. PhaseInv'
    BY <1>2, <2>2, <2>4 DEF PhaseInv
  <2>6. DestroyInv'
    BY <2>2 DEF DestroyInv
  <2>7. ApprovalInv'
    BY <1>0, <1>2, <2>2, <2>4 DEF ApprovalInv, NoHash, Nothing
  <2>8. AckInv'
    BY <1>0, <1>2, <2>2, <2>4 DEF AckInv
  <2> QED BY <2>3, <2>5, <2>6, <2>7, <2>8 DEF IInv
<1>3. CASE At("compile") /\ CompileFailure
  <2>1. /\ st' = [st EXCEPT !.phase = "CompileBlocked"]
        /\ PutThen("Failed", "idle")
        /\ UNCHANGED render /\ Fault /\ job.pc = "compile"
    BY <1>3 DEF CompileFailure, At
  <2>2. /\ job' \in Jobs /\ job'.pc = "put" /\ job'.tpl = job.tpl /\ job'.st = job.st
        /\ job'.to = "Failed" /\ job'.then = "idle"
    BY <1>1, <2>1, JobPuts DEF Phases
  <2>3. /\ st' \in StType /\ st'.phase = "CompileBlocked" /\ st'.acked = st.acked
        /\ st'.digest = st.digest /\ st'.ok = st.ok
    BY <1>1, <2>1, StPhase DEF Phases
  <2>4. TypeOK'
    BY <1>0, <2>1, <2>2, <2>3, Types, TypesNext, FaultType
  <2> QED BY <1>0, <2>1, <2>2, <2>3, <2>4, PutsKeeps DEF IInv
<1>4. CASE Stamp
  <2>1. /\ st' = [st EXCEPT !.crev = job.rev]
        /\ PutThen("Initializing", "idle")
        /\ UNCHANGED <<render, faults>> /\ job.pc = "stamp"
    BY <1>4 DEF Stamp, At
  <2>2. /\ job' \in Jobs /\ job'.pc = "put" /\ job'.tpl = job.tpl /\ job'.st = job.st
        /\ job'.to = "Initializing" /\ job'.then = "idle"
    BY <1>1, <2>1, JobPuts DEF Phases
  <2>3. /\ st' \in StType /\ st'.phase = st.phase /\ st'.acked = st.acked
        /\ st'.digest = st.digest /\ st'.ok = st.ok
    BY <1>1, <2>1, StCrev
  <2>4. TypeOK'
    BY <1>0, <2>1, <2>2, <2>3, Types, TypesNext
  <2>5. st'.phase = "Applying" => Vetted(plan)' \/ ungated'
    BY <1>0, <2>1, <2>3 DEF ApprovalInv, Vetted, Hash
  <2> QED BY <1>0, <2>1, <2>2, <2>3, <2>4, <2>5, PutsKeeps DEF IInv
<1> QED BY <1>2, <1>3, <1>4 DEF Compile

\* A plan is made outside Applying, or after an apply that stayed there.
LEMMA MakePlanStep ==
    ASSUME IInv, MakePlan PROVE IInv'
<1>0. /\ TypeOK /\ PhaseInv /\ ApprovalInv /\ AckInv /\ plan' = PlanOf(infra, render)
      /\ UNCHANGED <<tpl, st, src, render, infra, blessed, ungated, drifts, faults>>
  BY DEF IInv, MakePlan
<1>1. job \in Jobs /\ infra \in Confs /\ render \in Confs
  BY <1>0, Types
<1>2. plan' \in Plans /\ plan'.act = Action(plan'.from, plan'.to) /\ plan'.to = render
  BY <1>0, <1>1, PlanOfType
<1>3. CASE At("replan")
  <2>1. job' = Idle /\ (st.phase = "Applying" => ungated)
    BY <1>0, <1>3 DEF MakePlan, At, PhaseInv
  <2>2. TypeOK'
    BY <1>0, <1>2, <2>1, Types, TypesNext, IdleType
  <2>3. PhaseInv' /\ DestroyInv' /\ ApprovalInv' /\ AckInv'
    BY <1>0, <2>1, IdleStep DEF PhaseInv, ApprovalInv, AckInv
  <2> QED BY <2>2, <2>3 DEF IInv
<1>4. CASE At("plan")
  <2>1. job' = [job EXCEPT !.pc = "judge", !.plan = plan'] /\ job.pc = "plan"
    BY <1>4 DEF MakePlan, At
  <2>2. /\ job' \in Jobs /\ job'.pc = "judge" /\ job'.tpl = job.tpl /\ job'.st = job.st
        /\ job'.plan = plan'
    BY <1>1, <1>2, <2>1 DEF Jobs, Pcs
  <2>3. TypeOK'
    BY <1>0, <1>2, <2>2, Types, TypesNext
  <2>4. PhaseInv' /\ st.phase # "Applying"
    BY <1>0, <2>1, <2>2 DEF PhaseInv
  <2>5. DestroyInv'
    BY <2>2 DEF DestroyInv
  <2>6. ApprovalInv'
    BY <1>0, <1>2, <2>2, <2>4 DEF ApprovalInv, NoHash, Nothing
  <2>7. AckInv'
    BY <1>0, <2>1, <2>2 DEF AckInv
  <2> QED BY <2>3, <2>4, <2>5, <2>6, <2>7 DEF IInv
<1> QED BY <1>3, <1>4 DEF MakePlan

\* What comes of a plan; Applying only for a plan made while Planning that the
\* policy lets through or an approval on record names.
LEMMA VerdictIs ==
    ASSUME NEW j \in Jobs, j.st.phase \in {"Planning", "Ready"}, NEW v \in Verdicts(j)
    PROVE  /\ v \in (Phases \ {"Destroying"}) \cup {"idle", "pend"}
           /\ v = "Applying" =>
                /\ j.plan.act # "none"
                /\ Policy[j.plan.act] = "approve" => Hash(j.plan) \in {j.st.ok, j.tpl.ok}
<1> DEFINE p == j.plan
<1>0. j.fresh \in BOOLEAN /\ p.act \in Actions /\ Policy[p.act] \in {"auto", "approve", "refuse"}
  BY FieldTypes, LifecycleAssumption DEF Plans
<1>1. CASE ~j.fresh
  BY <1>0, <1>1 DEF Verdicts, Phases
<1>2. CASE j.fresh /\ p.act = "none"
  BY <1>0, <1>2 DEF Verdicts, Phases
<1>3. CASE j.fresh /\ p.act # "none" /\ j.st.phase = "Ready"
  BY <1>0, <1>3 DEF Verdicts, Phases
<1>4. CASE j.fresh /\ p.act # "none" /\ j.st.phase = "Planning"
  <2>1. v \in CASE Policy[p.act] = "refuse" -> {"Failed"}
                [] Policy[p.act] = "auto" -> {"Applying"}
                [] Policy[p.act] = "approve" ->
                     IF Approved(j.tpl, j.st, p) THEN {"Applying"} ELSE {"pend"}
    BY <1>0, <1>4 DEF Verdicts
  <2>2. CASE Policy[p.act] = "refuse"
    BY <2>1, <2>2 DEF Phases
  <2>3. CASE Policy[p.act] = "auto"
    BY <1>4, <2>1, <2>3 DEF Phases
  <2>4. CASE Policy[p.act] = "approve"
    BY <1>4, <2>1, <2>4 DEF Phases, Approved
  <2> QED BY <1>0, <2>2, <2>3, <2>4
<1> QED BY <1>0, <1>1, <1>2, <1>3, <1>4

\* The decision about a plan, and the wait for an approval.
LEMMA JudgeStep ==
    ASSUME IInv, Judge \/ Pend PROVE IInv'
<1>0. /\ TypeOK /\ PhaseInv /\ ApprovalInv /\ AckInv
      /\ UNCHANGED <<tpl, src, render, plan, infra, blessed, ungated, drifts, faults>>
  BY DEF IInv, Judge, Pend
<1>1. job \in Jobs /\ st \in StType /\ job.plan \in Plans /\ job.plan.act \in Actions
  BY <1>0, Types, FieldTypes DEF Plans
<1>2. Vetted(plan)' <=> Vetted(plan)
  BY <1>0 DEF Vetted, Hash
<1>3. CASE Pend
  <2>1. st' = [st EXCEPT !.pend = Hash(job.plan), !.ok = NoHash] /\ job' = Idle
    BY <1>3 DEF Pend
  <2>2. Hash(job.plan) \in Hashes /\ NoHash \in Hashes
    BY <1>1, HashType
  <2>3. /\ st' \in StType /\ st'.phase = st.phase /\ st'.acked = st.acked
        /\ st'.digest = st.digest /\ st'.ok = NoHash
    BY <1>1, <2>1, <2>2 DEF StType
  <2>4. TypeOK'
    BY <1>0, <2>1, <2>3, Types, TypesNext, IdleType
  <2>5. PhaseInv' /\ DestroyInv' /\ ApprovalInv' /\ AckInv'
    BY <1>0, <1>2, <2>1, <2>3, IdleStep DEF PhaseInv, ApprovalInv, AckInv
  <2> QED BY <2>4, <2>5 DEF IInv
<1>4. CASE Judge
  <2>1. job.pc = "judge" /\ st' = IF job.fresh THEN [st EXCEPT !.act = job.plan.act] ELSE st
    BY <1>4 DEF Judge, At
  <2>2. /\ st' \in StType /\ st'.phase = st.phase /\ st'.acked = st.acked
        /\ st'.digest = st.digest /\ st'.ok = st.ok
    BY <1>1, <2>1, StAct
  <2>3. PICK v \in Verdicts(job) :
          CASE v = "idle" -> job' = Idle
            [] v = "pend" -> Goto("pend")
            [] OTHER -> PutThen(v, "idle")
    BY <1>4 DEF Judge
  <2>4. job.st.phase \in {"Planning", "Ready"} /\ st.phase = job.st.phase
    BY <1>0, <2>1 DEF PhaseInv
  <2>5. /\ v \in (Phases \ {"Destroying"}) \cup {"idle", "pend"}
        /\ v = "Applying" =>
             /\ job.plan.act # "none"
             /\ Policy[job.plan.act] = "approve" => Hash(job.plan) \in {job.st.ok, job.tpl.ok}
    BY <1>1, <2>4, VerdictIs
  <2>6. CASE v = "idle"
    <3>1. job' = Idle
      BY <2>3, <2>6
    <3>2. TypeOK'
      BY <1>0, <2>2, <3>1, Types, TypesNext, IdleType
    <3>3. PhaseInv' /\ DestroyInv' /\ ApprovalInv' /\ AckInv'
      BY <1>0, <1>2, <2>2, <3>1, IdleStep DEF PhaseInv, ApprovalInv, AckInv
    <3> QED BY <3>2, <3>3 DEF IInv
  <2>7. CASE v = "pend"
    <3>1. job' \in Jobs /\ job'.pc = "pend" /\ job'.tpl = job.tpl /\ job'.st = job.st
      BY <1>1, <2>3, <2>7, JobGoes DEF Goto, Pcs
    <3>2. TypeOK'
      BY <1>0, <2>2, <3>1, Types, TypesNext
    <3>3. PhaseInv'
      BY <1>0, <2>2, <3>1 DEF PhaseInv
    <3>4. DestroyInv'
      BY <3>1 DEF DestroyInv
    <3>5. ApprovalInv'
      BY <1>0, <1>2, <2>2, <3>1 DEF ApprovalInv, NoHash, Nothing
    <3>6. AckInv'
      BY <1>0, <2>1, <2>2, <3>1 DEF AckInv
    <3> QED BY <3>2, <3>3, <3>4, <3>5, <3>6 DEF IInv
  <2>8. CASE v \notin {"idle", "pend"}
    <3>1. PutThen(v, "idle") /\ v \in Phases \ {"Destroying"}
      BY <2>3, <2>5, <2>8
    <3>2. /\ job' \in Jobs /\ job'.pc = "put" /\ job'.tpl = job.tpl /\ job'.st = job.st
          /\ job'.to = v /\ job'.then = "idle" /\ job'.plan = job.plan
      BY <1>1, <3>1, JobPuts
    <3>3. TypeOK'
      BY <1>0, <2>2, <3>2, Types, TypesNext
    <3>4. CASE v # "Applying"
      <4>1. st'.phase = "Applying" => Vetted(plan)' \/ ungated'
        BY <1>0, <1>2, <2>2 DEF ApprovalInv
      <4> QED BY <1>0, <2>1, <2>2, <3>1, <3>2, <3>3, <3>4, <4>1, PutsKeeps DEF IInv
    <3>5. CASE v = "Applying"
      <4>1. PhaseInv'
        BY <1>0, <2>2, <3>1, <3>2, <3>5 DEF PhaseInv
      <4>2. DestroyInv'
        BY <3>2 DEF DestroyInv
      <4>3. Hash(job.plan) # NoHash
        BY <1>1, <2>5, <3>5, HashType
      <4>4. job.st.ok \in blessed \cup {NoHash} /\ job.tpl.ok \in blessed \cup {NoHash}
            /\ plan = job.plan /\ plan.to = render
        BY <1>0, <2>1 DEF ApprovalInv
      <4>5. Vetted(plan)
        BY <2>5, <3>5, <4>3, <4>4 DEF Vetted
      <4>6. ApprovalInv'
        BY <1>0, <1>2, <2>2, <3>2, <4>4, <4>5 DEF ApprovalInv, NoHash, Nothing
      <4>7. AckInv'
        BY <1>0, <2>1, <2>2, <3>2 DEF AckInv
      <4> QED BY <3>3, <4>1, <4>2, <4>6, <4>7 DEF IInv
    <3> QED BY <3>4, <3>5
  <2> QED BY <2>6, <2>7, <2>8
<1> QED BY <1>3, <1>4

\* The plan an apply finds is a plan; in an Applying in which no other was stored
\* past the gate, it is the one that was vetted.
LEMMA ToApplyIs ==
    ASSUME IInv
    PROVE  /\ ToApply \in Plans /\ ToApply.act = Action(ToApply.from, ToApply.to)
           /\ st.phase = "Applying" => (ToApply = plan /\ Vetted(plan)) \/ ungated
<1>1. /\ plan \in Plans /\ plan.act = Action(plan.from, plan.to)
      /\ infra \in Confs /\ render \in Confs
  BY Types DEF IInv
<1>2. /\ ToApply \in Plans /\ ToApply.act = Action(ToApply.from, ToApply.to)
  BY <1>1, PlanOfType DEF ToApply
<1>3. st.phase = "Applying" => Vetted(plan) \/ ungated
  BY DEF IInv, ApprovalInv
<1> QED BY <1>2, <1>3 DEF ToApply, Vetted

\* The gate before an apply keeps the plan that was vetted, or stores another one
\* past the gate.
LEMMA RecheckStep ==
    ASSUME IInv, Recheck PROVE IInv'
<1>0. /\ TypeOK /\ PhaseInv /\ ApprovalInv /\ AckInv /\ job.pc = "recheck" /\ st.phase = "Applying"
      /\ UNCHANGED <<tpl, st, src, render, infra, blessed, drifts>>
  BY DEF IInv, Recheck, At, PhaseInv
<1>1. job \in Jobs /\ infra \in Confs /\ render \in Confs
  BY <1>0, Types
<1>2. \/ plan' = ToApply /\ UNCHANGED <<ungated, faults>>
      \/ plan' = PlanOf(infra, render) /\ ungated' = TRUE /\ Fault
      \/ UNCHANGED <<plan, ungated>> /\ Fault
  BY DEF Recheck, Judged
<1>3. plan' \in Plans /\ plan'.act = Action(plan'.from, plan'.to)
  BY <1>0, <1>1, <1>2, ToApplyIs, PlanOfType, Types
<1>4. faults' \in 0 .. MaxFaults /\ ungated' \in BOOLEAN
  BY <1>0, <1>2, Types, FaultType
<1>5. Vetted(plan)' \/ ungated'
  <2>1. (ToApply = plan /\ Vetted(plan)) \/ ungated
    BY <1>0, ToApplyIs
  <2>2. plan' = plan => (Vetted(plan)' <=> Vetted(plan))
    BY <1>0 DEF Vetted, Hash
  <2> QED BY <1>2, <2>1, <2>2
<1>6. CASE PutThen("Failed", "idle")
  <2>1. /\ job' \in Jobs /\ job'.pc = "put" /\ job'.tpl = job.tpl /\ job'.st = job.st
        /\ job'.to = "Failed" /\ job'.then = "idle"
    BY <1>1, <1>6, JobPuts DEF Phases
  <2>2. TypeOK'
    BY <1>0, <1>3, <1>4, <2>1, Types, TypesNext
  <2> QED BY <1>0, <1>5, <2>1, <2>2, PutsKeeps DEF IInv
<1>7. CASE Goto("apply") \/ Goto("unchecked")
  <2>1. job' \in Jobs /\ job'.pc \in {"apply", "unchecked"} /\ job'.tpl = job.tpl /\ job'.st = job.st
    BY <1>1, <1>7, JobGoes DEF Goto, Pcs
  <2>2. TypeOK'
    BY <1>0, <1>3, <1>4, <2>1, Types, TypesNext
  <2>3. PhaseInv'
    BY <1>0, <2>1 DEF PhaseInv
  <2>4. DestroyInv'
    BY <2>1 DEF DestroyInv
  <2>5. ApprovalInv'
    BY <1>0, <1>5, <2>1 DEF ApprovalInv, NoHash, Nothing
  <2>6. AckInv'
    BY <1>0, <2>1 DEF AckInv
  <2> QED BY <2>2, <2>3, <2>4, <2>5, <2>6 DEF IInv
<1> QED BY <1>6, <1>7 DEF Recheck, Judged

\* An apply stays with the plan that was vetted, or leaves Applying, or is a
\* retry.
LEMMA ApplyStep ==
    ASSUME IInv, Apply PROVE IInv'
<1>0. /\ TypeOK /\ PhaseInv /\ ApprovalInv /\ AckInv /\ job.pc \in {"apply", "unchecked"}
      /\ st.phase = "Applying" /\ plan' = ToApply
      /\ UNCHANGED <<tpl, st, src, render, blessed, drifts>>
  BY DEF IInv, Apply, Applies, At, PhaseInv
<1>1. job \in Jobs /\ infra \in Confs
  BY <1>0, Types
<1>2. plan' \in Plans /\ plan'.act = Action(plan'.from, plan'.to)
  BY <1>0, ToApplyIs
<1>3. ungated' = ungated \/ ungated' = TRUE
  BY DEF Apply, ApplyFailure
<1>4. Vetted(plan)' \/ ungated'
  <2>1. (plan' = plan /\ Vetted(plan)) \/ ungated
    BY <1>0, ToApplyIs
  <2>2. plan' = plan => (Vetted(plan)' <=> Vetted(plan))
    BY <1>0 DEF Vetted, Hash
  <2> QED BY <1>3, <2>1, <2>2
<1>5. infra' \in Confs
  BY <1>0, <1>1, <1>2, RealisedType, ConfsFacts DEF Apply, ApplyFailure
<1>6. faults' \in 0 .. MaxFaults /\ ungated' \in BOOLEAN
  BY <1>0, Types, FaultType DEF Apply, ApplyFailure
<1>7. TypeOK' /\ job'.tpl = job.tpl /\ job'.st = job.st
  <2>1. job' \in Jobs /\ job'.tpl = job.tpl /\ job'.st = job.st
    <3>1. CASE Goto("record")
      BY <1>1, <3>1, JobGoes DEF Goto, Pcs
    <3>2. CASE \E to \in Phases, then \in {"idle", "replan"} : PutThen(to, then)
      BY <1>1, <3>2, JobPuts
    <3> QED BY <3>1, <3>2 DEF Apply, ApplyFailure, Phases
  <2> QED BY <1>0, <1>2, <1>5, <1>6, <2>1, Types, TypesNext
<1>8. CASE PutThen("Pending", "idle")
  <2>1. job'.pc = "put" /\ job'.to = "Pending" /\ job'.then = "idle"
    BY <1>1, <1>8, JobPuts DEF Phases
  <2> QED BY <1>0, <1>4, <1>7, <2>1, PutsKeeps DEF IInv
<1>9. CASE Goto("record") \/ PutThen("Failed", "replan")
           \/ (PutThen("Applying", "replan") /\ ungated' = TRUE)
  <2>1. \/ job'.pc = "record"
        \/ /\ job'.pc = "put" /\ job'.then = "replan"
           /\ job'.to = "Failed" \/ (job'.to = "Applying" /\ ungated' = TRUE)
    BY <1>1, <1>9, JobGoes, JobPuts DEF Goto, Pcs, Phases
  <2>2. PhaseInv'
    BY <1>0, <2>1 DEF PhaseInv
  <2>3. DestroyInv'
    BY <2>1 DEF DestroyInv
  <2>4. ApprovalInv'
    BY <1>0, <1>4, <1>7, <2>1 DEF ApprovalInv, NoHash, Nothing
  <2>5. AckInv'
    BY <1>0, <1>7, <2>1 DEF AckInv
  <2> QED BY <1>7, <2>2, <2>3, <2>4, <2>5 DEF IInv
<1> QED BY <1>8, <1>9 DEF Apply, ApplyFailure

\* The status writes after an apply and of a failed template.
LEMMA RecordStep ==
    ASSUME IInv, Record \/ Retry PROVE IInv'
<1>0. /\ TypeOK /\ PhaseInv /\ ApprovalInv /\ AckInv
      /\ UNCHANGED <<tpl, src, render, plan, infra, blessed, ungated, drifts, faults>>
  BY DEF IInv, Record, Retry
<1>1. job \in Jobs /\ st \in StType /\ 0 \in 0 .. MaxRev
  BY <1>0, Types, Bounds
<1>2. Vetted(plan)' <=> Vetted(plan)
  BY <1>0 DEF Vetted, Hash
<1>3. CASE Record
  <2>1. UNCHANGED st /\ PutThen("Ready", "replan") /\ job.pc = "record" /\ st.phase = "Applying"
    BY <1>0, <1>3 DEF Record, At, PhaseInv
  <2>2. /\ st' \in StType /\ st'.phase = st.phase /\ st'.acked = st.acked
        /\ st'.digest = st.digest /\ st'.ok = st.ok
    BY <1>1, <2>1
  <2>3. /\ job' \in Jobs /\ job'.pc = "put" /\ job'.tpl = job.tpl /\ job'.st = job.st
        /\ job'.to = "Ready" /\ job'.then = "replan"
    BY <1>1, <2>1, JobPuts DEF Phases
  <2>4. TypeOK'
    BY <1>0, <2>2, <2>3, Types, TypesNext
  <2>5. PhaseInv'
    BY <1>0, <2>1, <2>2, <2>3 DEF PhaseInv
  <2>6. DestroyInv'
    BY <2>3 DEF DestroyInv
  <2>7. ApprovalInv'
    BY <1>0, <1>2, <2>2, <2>3 DEF ApprovalInv, NoHash, Nothing
  <2>8. AckInv'
    BY <1>0, <2>1, <2>2, <2>3 DEF AckInv
  <2> QED BY <2>4, <2>5, <2>6, <2>7, <2>8 DEF IInv
<1>4. CASE Retry
  <2>1. /\ st' = [st EXCEPT !.crev = 0] \/ st' = st
        /\ PutThen("Pending", "idle") /\ job.pc = "retry"
    BY <1>4 DEF Retry, At
  <2>2. /\ st' \in StType /\ st'.phase = st.phase /\ st'.acked = st.acked
        /\ st'.digest = st.digest /\ st'.ok = st.ok
    BY <1>1, <2>1, StCrev
  <2>3. /\ job' \in Jobs /\ job'.pc = "put" /\ job'.tpl = job.tpl /\ job'.st = job.st
        /\ job'.to = "Pending" /\ job'.then = "idle"
    BY <1>1, <2>1, JobPuts DEF Phases
  <2>4. TypeOK'
    BY <1>0, <2>2, <2>3, Types, TypesNext
  <2>5. st'.phase = "Applying" => Vetted(plan)' \/ ungated'
    BY <1>0, <1>2, <2>2 DEF ApprovalInv
  <2> QED BY <1>0, <2>1, <2>2, <2>3, <2>4, <2>5, PutsKeeps DEF IInv
<1> QED BY <1>3, <1>4

\* A destroy succeeds and goes on to release the finalizer, or fails.
LEMMA DestroyStep ==
    ASSUME IInv, Destroy PROVE IInv'
<1>0. /\ TypeOK /\ PhaseInv /\ DestroyInv /\ ApprovalInv /\ AckInv /\ job.pc = "destroy"
      /\ UNCHANGED <<tpl, st, src, render, plan, blessed, ungated, drifts>>
  BY DEF IInv, Destroy, At
<1>1. job \in Jobs
  BY <1>0, Types
<1>2. Vetted(plan)' <=> Vetted(plan)
  BY <1>0 DEF Vetted, Hash
<1>3. CASE infra' = Nothing /\ Goto("release") /\ UNCHANGED faults
  <2>1. /\ job' \in Jobs /\ job'.pc = "release" /\ job'.tpl = job.tpl /\ job'.st = job.st
    BY <1>1, <1>3, JobGoes DEF Goto, Pcs
  <2>2. TypeOK'
    BY <1>0, <1>3, <2>1, Types, TypesNext, ConfsFacts
  <2>3. PhaseInv'
    BY <1>0, <2>1 DEF PhaseInv
  <2>4. DestroyInv'
    BY <1>3, <2>1 DEF DestroyInv, Nothing
  <2>5. ApprovalInv'
    BY <1>0, <1>2, <2>1 DEF ApprovalInv, NoHash, Nothing
  <2>6. AckInv'
    BY <1>0, <2>1 DEF AckInv
  <2> QED BY <2>2, <2>3, <2>4, <2>5, <2>6 DEF IInv
<1>4. CASE Fault /\ job' = AfterFailedDestroy /\ UNCHANGED infra
  <2>1. job' = [job EXCEPT !.pc = "put", !.to = "Failed"] /\ job.then = "idle"
    BY <1>0, <1>4 DEF AfterFailedDestroy, PhaseInv
  <2>2. /\ job' \in Jobs /\ job'.pc = "put" /\ job'.tpl = job.tpl /\ job'.st = job.st
        /\ job'.to = "Failed" /\ job'.then = "idle"
    BY <1>1, <2>1 DEF Jobs, Pcs, Phases
  <2>3. TypeOK'
    BY <1>0, <1>4, <2>2, Types, TypesNext, FaultType
  <2>4. st'.phase = "Applying" => Vetted(plan)' \/ ungated'
    BY <1>0, <1>2 DEF ApprovalInv
  <2> QED BY <1>0, <2>2, <2>3, <2>4, PutsKeeps DEF IInv
<1> QED BY <1>3, <1>4 DEF Destroy

\* A step fails, or the reconcile is lost.
LEMMA FailStep ==
    ASSUME IInv, Error \/ Crash PROVE IInv'
<1>0. /\ TypeOK /\ PhaseInv /\ ApprovalInv /\ AckInv /\ job.pc # "idle" /\ Fault
      /\ UNCHANGED <<tpl, st, src, render, plan, infra, blessed, ungated, drifts>>
  BY DEF IInv, Error, Crash, At
<1>1. job \in Jobs
  BY <1>0, Types
<1>2. Vetted(plan)' <=> Vetted(plan)
  BY <1>0 DEF Vetted, Hash
<1>3. CASE job' = Idle
  <2>1. TypeOK'
    BY <1>0, <1>3, Types, TypesNext, IdleType, FaultType
  <2>2. PhaseInv' /\ DestroyInv' /\ ApprovalInv' /\ AckInv'
    BY <1>0, <1>2, <1>3, IdleStep DEF PhaseInv, ApprovalInv, AckInv
  <2> QED BY <2>1, <2>2 DEF IInv
<1>4. CASE PutThen("Failed", "idle")
  <2>1. /\ job' \in Jobs /\ job'.pc = "put" /\ job'.tpl = job.tpl /\ job'.st = job.st
        /\ job'.to = "Failed" /\ job'.then = "idle"
    BY <1>1, <1>4, JobPuts DEF Phases
  <2>2. TypeOK'
    BY <1>0, <2>1, Types, TypesNext, FaultType
  <2>3. st'.phase = "Applying" => Vetted(plan)' \/ ungated'
    BY <1>0, <1>2 DEF ApprovalInv
  <2> QED BY <1>0, <2>1, <2>2, <2>3, PutsKeeps DEF IInv
<1> QED BY <1>3, <1>4 DEF Error, Crash, PutThen

\* Every step keeps the invariant.
LEMMA StepIInv == IInv /\ [Next]_vars => IInv'
<1> SUFFICES ASSUME IInv, [Next]_vars PROVE IInv'
  OBVIOUS
<1>1. CASE UNCHANGED vars
  <2>1. /\ TypeOK /\ PhaseInv /\ DestroyInv /\ ApprovalInv /\ AckInv
        /\ UNCHANGED <<tpl, st, src, render, plan, infra, job, blessed, ungated, drifts, faults>>
    BY <1>1 DEF IInv, vars
  <2>2. TypeOK'
    BY <2>1, Types, TypesNext
  <2>3. tpl.ok \in blessed \cup {NoHash} /\ st.ok \in blessed \cup {NoHash}
    BY <2>1 DEF ApprovalInv
  <2> QED BY <2>1, <2>2, <2>3, OutsideKeeps
<1> QED BY <1>1, OutsideStep, StartStep, PutStep, FinalizerStep, CompileStep, MakePlanStep,
           JudgeStep, RecheckStep, ApplyStep, RecordStep, DestroyStep, FailStep DEF Next, Reconcile

-----------------------------------------------------------------------------
(* The theorems. *)

\* The invariant that ties a reconcile to the phase it was dispatched on holds
\* in every reachable state.
THEOREM InductiveInvariant == Spec => []IInv
  BY InitIInv, StepIInv, PTL DEF Spec

\* Every variable keeps its type, and a stored plan has the action that its two
\* ends call for.
THEOREM TypeCorrect == Spec => []TypeOK
<1>1. IInv => TypeOK
  BY DEF IInv
<1> QED BY <1>1, InductiveInvariant, PTL

\* What the protection's gate has seen: nothing destructive in the status before
\* it looks at the plan, and after it nothing destructive in the plan that is
\* there for the apply.
GateInv ==
    /\ job.pc \in {"recheck", "unchecked"} => ~(job.tpl.prot /\ Destructive(job.st.act))
    /\ job.pc = "apply" /\ job.tpl.prot => plan.to.rev = render.rev /\ plan.act # "replace"

\* Every step keeps what the gate has seen.
LEMMA StepGate == IInv /\ GateInv /\ [Next]_vars => GateInv'
<1> SUFFICES ASSUME IInv, GateInv, [Next]_vars PROVE GateInv'
  OBVIOUS
<1>1. /\ tpl \in TplType /\ st \in StType /\ job \in Jobs /\ job.plan \in Plans
      /\ infra \in Confs /\ render \in Confs /\ job.then \in {"idle", "replan"}
      /\ (st.phase = "Destroying" => tpl.del) /\ job.rev \in 0 .. MaxRev
  BY Types, FieldTypes DEF IInv, PhaseInv
<1>2. CASE UNCHANGED <<job, plan, render>>
  BY <1>2 DEF GateInv
<1>3. CASE job'.pc \notin {"recheck", "apply", "unchecked"}
  BY <1>3 DEF GateInv
<1>4. ASSUME NEW to, NEW then, PutThen(to, then) PROVE GateInv'
  <2>1. job'.pc = "put"
    BY <1>1, <1>4 DEF PutThen, Jobs
  <2> QED BY <1>3, <2>1
<1>5. CASE Start
  <2> DEFINE r == Route(tpl, st)
             to == IF r[1] = "put" THEN r[2] ELSE "Pending"
             new == [Idle EXCEPT !.pc = r[1], !.tpl = tpl, !.st = st, !.fresh = Fresh(st), !.to = to]
  <2>1. job' = IF r[1] = "idle" THEN Idle ELSE new
    BY <1>5 DEF Start
  <2>2. /\ r[1] \in {"idle", "put", "finalize", "release", "compile", "plan", "recheck", "apply",
                     "retry", "destroy"}
        /\ r[1] = "recheck" => ~(tpl.prot /\ Destructive(st.act))
        /\ r[1] = "apply" => ~tpl.prot
    BY <1>1, RouteIs
  <2>3. CASE r[1] = "idle"
    BY <1>3, <2>1, <2>3, IdleType
  <2>4. CASE r[1] # "idle"
    <3>1. job'.pc = r[1] /\ job'.tpl = tpl /\ job'.st = st
      BY <2>1, <2>4 DEF Idle
    <3> HIDE DEF r
    <3> QED BY <2>2, <3>1 DEF GateInv
  <2> QED BY <2>3, <2>4
<1>6. CASE Recheck
  <2>1. job.pc = "recheck" /\ UNCHANGED render
    BY <1>6 DEF Recheck, At
  <2>2. ToApply.to.rev = render.rev /\ PlanOf(infra, render).to.rev = render.rev
    BY <1>1, PlanOfType DEF ToApply
  <2>3. ASSUME NEW p, p.to.rev = render.rev, Judged(p) PROVE GateInv'
    <3>1. CASE Blocked(job.tpl, p)
      BY <1>4, <2>3, <3>1 DEF Judged
    <3>2. CASE ~Blocked(job.tpl, p)
      <4>1. job'.pc = "apply" /\ job'.tpl = job.tpl /\ plan' = p
        BY <1>1, <2>3, <3>2, JobGoes DEF Judged, Goto, Pcs
      <4> QED BY <2>1, <2>3, <3>2, <4>1 DEF GateInv, Blocked, Destructive
    <3> QED BY <3>1, <3>2
  <2>4. CASE Goto("unchecked")
    <3>1. job'.pc = "unchecked" /\ job'.tpl = job.tpl /\ job'.st = job.st
      BY <1>1, <2>4, JobGoes DEF Goto, Pcs
    <3> QED BY <2>1, <3>1 DEF GateInv
  <2> QED BY <1>6, <2>2, <2>3, <2>4 DEF Recheck
<1>7. CASE Apply
  <2>1. CASE Goto("record")
    <3>1. job'.pc = "record"
      BY <1>1, <2>1, JobGoes DEF Goto, Pcs
    <3> QED BY <1>3, <3>1
  <2> QED BY <1>4, <1>7, <2>1 DEF Apply, ApplyFailure
<1>8. CASE Put
  <2>1. job'.pc \in {"idle", "replan"}
    BY <1>1, <1>8, IdleType DEF Put, Jobs
  <2> QED BY <1>3, <2>1
<1>9. CASE Compile
  <2>1. CASE job' = [job EXCEPT !.pc = "stamp", !.rev = src]
    <3>1. job'.pc = "stamp"
      BY <1>1, <2>1 DEF Jobs
    <3> QED BY <1>3, <3>1
  <2> QED BY <1>4, <1>9, <2>1 DEF Compile, CompileFailure
<1>10. CASE job' = Idle
  BY <1>3, <1>10, IdleType
<1>11. CASE MakePlan
  <2>1. CASE job' = [job EXCEPT !.pc = "judge", !.plan = plan']
    <3>1. job'.pc = "judge"
      BY <1>1, <2>1 DEF Jobs
    <3> QED BY <1>3, <3>1
  <2> QED BY <1>10, <1>11, <2>1 DEF MakePlan
<1>12. CASE Judge
  <2>1. PICK v \in Verdicts(job) :
          CASE v = "idle" -> job' = Idle
            [] v = "pend" -> Goto("pend")
            [] OTHER -> PutThen(v, "idle")
    BY <1>12 DEF Judge
  <2>2. CASE Goto("pend")
    <3>1. job'.pc = "pend"
      BY <1>1, <2>2, JobGoes DEF Goto, Pcs
    <3> QED BY <1>3, <3>1
  <2> QED BY <1>4, <1>10, <2>1, <2>2
<1>13. CASE Destroy
  <2>1. job'.pc \in {"release", "put"}
    BY <1>1, <1>13 DEF Destroy, Goto, AfterFailedDestroy, Jobs
  <2> QED BY <1>3, <2>1
<1>14. CASE Error
  <2>1. job' = Idle \/ PutThen("Failed", "idle")
    BY <1>14 DEF Error, PutThen
  <2> QED BY <1>4, <1>10, <2>1
<1>15. CASE Stamp \/ Record \/ Retry
  BY <1>4, <1>15 DEF Stamp, Record, Retry
<1>16. CASE Finalize \/ Release \/ Pend \/ Crash
  BY <1>10, <1>16 DEF Finalize, Release, Pend, Crash
<1>17. CASE EditVars \/ Unprotect \/ Authorize \/ ApproveInStatus \/ ApproveInSpec \/ Delete
            \/ Push \/ Drift \/ UNCHANGED vars
  BY <1>2, <1>17 DEF EditVars, Unprotect, Authorize, ApproveInStatus, ApproveInSpec, Delete, Push,
                     Drift, Outside, vars
<1> QED BY <1>5, <1>6, <1>7, <1>8, <1>9, <1>11, <1>12, <1>13, <1>14, <1>15, <1>16, <1>17
        DEF Next, Reconcile

\* With destroyProtection on in the copy a reconcile works from, one of its steps
\* deletes or replaces the infrastructure only if the gate could look at no plan,
\* and then the status described none that does: otherwise the gate has seen the
\* plan that is applied, and a destroy is entered only unprotected.
THEOREM ProtectedSurvivesCorrect == Spec => ProtectedSurvives
<1> DEFINE Keeps == (infra' # infra /\ drifts' = drifts /\ infra # Nothing /\ job.tpl.prot)
                      => \/ infra' # Nothing /\ infra'.rev = infra.rev
                         \/ At("unchecked") /\ ~Destructive(job.st.act)
<1>1. IInv /\ GateInv /\ [Next]_vars => [Keeps]_vars
  <2> SUFFICES ASSUME IInv, GateInv, Next, infra' # infra, drifts' = drifts, infra # Nothing,
                      job.tpl.prot, ~At("unchecked")
               PROVE  infra' # Nothing /\ infra'.rev = infra.rev
    BY DEF vars, GateInv, At
  <2>1. infra \in Confs /\ drifts \in Nat
    BY Types, Bounds DEF IInv
  <2>2. Apply \/ Destroy
    <3>1. ~Drift
      BY <2>1 DEF Drift
    <3> QED BY <3>1 DEF Next, Reconcile, EditVars, Unprotect, Authorize, ApproveInStatus,
           ApproveInSpec, Delete, Push, Start, Put, Finalize, Release, Compile, Stamp, MakePlan, Judge,
           Pend, Recheck, Record, Retry, Error, Crash
  <2>3. CASE Apply
    <3>1. ToApply \in Plans
      BY ToApplyIs
    <3>2. ToApply.act # "replace"
      BY <2>3 DEF Apply, Applies, At, GateInv, ToApply
    <3>3. infra' = Realised(ToApply, infra) \/ infra' \in {infra}
      BY <2>3, <3>2 DEF Apply, ApplyFailure
    <3> QED BY <2>1, <3>1, <3>2, <3>3, RealisedType
  <2>4. CASE Destroy
    BY <2>4 DEF Destroy, At, IInv, DestroyInv
  <2> QED BY <2>2, <2>3, <2>4
<1>2. ProtectedSurvives <=> [][Keeps]_vars
  BY DEF ProtectedSurvives
<1>3. Init => GateInv
  BY IdleType DEF Init, GateInv
<1> QED BY <1>1, <1>2, <1>3, StepGate, InductiveInvariant, PTL DEF Spec

\* An object whose deletion is authorised and not protected loses its finalizer
\* only after a destroy that succeeded.
THEOREM NothingLeftBehindCorrect == Spec => NothingLeftBehind
<1> DEFINE Clean == (~Gone /\ Gone' /\ tpl.fin /\ job.tpl.auth /\ ~job.tpl.prot) => infra = Nothing
<1>1. IInv /\ [Next]_vars => [Clean]_vars
  <2> SUFFICES ASSUME IInv, Next, Gone', tpl.fin, job.tpl.auth, ~job.tpl.prot
               PROVE  infra = Nothing
    BY DEF vars
  <2>1. tpl \in TplType /\ st.pend \in Hashes
    BY Types, FieldTypes DEF IInv
  <2>2. ~tpl'.fin
    BY DEF Gone
  <2>3. CASE Release
    BY <2>3 DEF Release, At, IInv, DestroyInv
  <2>4. tpl' # tpl
    BY <2>2
  <2>5. CASE EditVars \/ Unprotect \/ Authorize \/ ApproveInSpec
    <3>1. ASSUME NEW t \in TplType, t.fin, Spec1(t) PROVE tpl'.fin
      BY <3>1 DEF Spec1, TplType
    <3>2. CASE EditVars
      <4>1. PICK v \in Vars : Spec1([tpl EXCEPT !.vars = v])
        BY <3>2 DEF EditVars
      <4> DEFINE t == [tpl EXCEPT !.vars = v]
      <4>2. t \in TplType /\ t.fin
        BY <2>1 DEF TplType
      <4> HIDE DEF t
      <4> QED BY <2>2, <3>1, <4>1, <4>2 DEF t
    <3>3. CASE Unprotect
      <4> DEFINE t == [tpl EXCEPT !.prot = FALSE]
      <4>2. t \in TplType /\ t.fin
        BY <2>1 DEF TplType
      <4> HIDE DEF t
      <4> QED BY <2>2, <3>1, <3>3, <4>2 DEF t, Unprotect
    <3>4. CASE Authorize
      <4> DEFINE t == [tpl EXCEPT !.auth = TRUE]
      <4>2. t \in TplType /\ t.fin
        BY <2>1 DEF TplType
      <4> HIDE DEF t
      <4> QED BY <2>2, <3>1, <3>4, <4>2 DEF t, Authorize
    <3>5. CASE ApproveInSpec
      <4> DEFINE t == [tpl EXCEPT !.ok = st.pend]
      <4>2. t \in TplType /\ t.fin
        BY <2>1 DEF TplType
      <4> HIDE DEF t
      <4> QED BY <2>2, <3>1, <3>5, <4>2 DEF t, ApproveInSpec
    <3> QED BY <2>5, <3>2, <3>3, <3>4, <3>5
  <2>6. CASE Delete
    BY <2>1, <2>2, <2>6, TplDel DEF Delete
  <2>7. CASE Finalize
    BY <2>1, <2>2, <2>4, <2>7, TplFin DEF Finalize
  <2> QED BY <2>3, <2>4, <2>5, <2>6, <2>7 DEF Next, Reconcile, ApproveInStatus, Push, Drift, Start,
            Put, Compile, Stamp, MakePlan, Judge, Pend, Recheck, Apply, Record, Retry, Destroy, Error, Crash
<1>2. NothingLeftBehind <=> [][Clean]_vars
  BY DEF NothingLeftBehind
<1> QED BY <1>1, <1>2, InductiveInvariant, PTL DEF Spec

\* A plan that needs an approval moves a template from Planning to Applying only
\* if a human approved it at some time and it is the plan that is stored; and what
\* an apply makes of the infrastructure is such a plan, unless another was stored
\* in Applying, past the approval gate.
THEOREM ApprovedPlanOnlyCorrect == Spec => ApprovedPlanOnly
<1> DEFINE Entered == (st.phase = "Planning" /\ st'.phase = "Applying" /\ Policy[job.plan.act] = "approve")
                        => Hash(job.plan) \in blessed /\ plan = job.plan
           Changed == (Applies /\ infra' # infra /\ Policy[plan'.act] = "approve")
                        => Hash(plan') \in blessed \/ ungated
<1>1. ASSUME IInv, Next PROVE Entered
  <2> SUFFICES ASSUME st.phase = "Planning", st'.phase = "Applying", Policy[job.plan.act] = "approve"
               PROVE  Hash(job.plan) \in blessed /\ plan = job.plan
    OBVIOUS
  <2>1. st \in StType /\ job \in Jobs /\ job.plan \in Plans /\ job.plan.act \in Actions
        /\ job.rev \in 0 .. MaxRev /\ 0 \in 0 .. MaxRev /\ st.pend \in Hashes
        /\ Hash(job.plan) \in Hashes /\ NoHash \in Hashes
    BY <1>1, Types, FieldTypes, HashType, Bounds DEF IInv, Plans
  <2>2. CASE Put
    <3>1. job.pc = "put" /\ st'.phase = job.to
      BY <2>1, <2>2 DEF Put, At, StType
    <3>2. job.then = "idle"
      BY <1>1, <2>1, <3>1, FieldTypes DEF IInv, PhaseInv
    <3> QED BY <1>1, <3>1, <3>2 DEF IInv, ApprovalInv, Vetted
  <2>3. CASE ~Put
    <3>1. st' # st
      OBVIOUS
    <3>2. ApproveInStatus \/ Compile \/ Stamp \/ Judge \/ Pend \/ Retry
      BY <1>1, <2>3, <3>1 DEF Next, Reconcile, EditVars, Unprotect, Authorize, ApproveInSpec,
             Delete, Push, Drift, Start, Finalize, Release, MakePlan, Recheck, Apply, Record, Destroy, Error,
             Crash
    <3>3. CASE ApproveInStatus
      BY <2>1, <3>3, StOk DEF ApproveInStatus
    <3>4. CASE Compile
      BY <2>1, <3>4 DEF Compile, CompileFailure, StType
    <3>5. CASE Stamp
      BY <2>1, <3>5, StCrev DEF Stamp
    <3>6. CASE Judge
      BY <2>1, <3>6, StAct DEF Judge
    <3>7. CASE Pend
      BY <2>1, <3>7 DEF Pend, StType
    <3>8. CASE Retry
      BY <2>1, <3>8, StCrev DEF Retry
    <3> QED BY <3>2, <3>3, <3>4, <3>5, <3>6, <3>7, <3>8
  <2> QED BY <2>2, <2>3
<1>2. ASSUME IInv, Next PROVE Changed
  <2> SUFFICES ASSUME job.pc \in {"apply", "unchecked"}, infra' # infra, Policy[plan'.act] = "approve"
               PROVE  Hash(plan') \in blessed \/ ungated
    BY DEF Applies, At
  <2>1. Apply \/ Drift
    BY <1>2 DEF Next, Reconcile, EditVars, Unprotect, Authorize, ApproveInStatus, ApproveInSpec,
           Delete, Push, Start, Put, Finalize, Release, Compile, Stamp, MakePlan, Judge,
           Pend, Recheck, Record, Retry, Destroy, Error, Crash, At
  <2>2. st.phase = "Applying"
    BY <1>2 DEF IInv, PhaseInv
  <2>3. plan' = plan \/ ungated
    BY <1>2, <2>1, <2>2, ToApplyIs DEF Apply, Drift, Outside
  <2>4. Vetted(plan) \/ ungated
    BY <1>2, <2>2 DEF IInv, ApprovalInv
  <2> QED BY <2>3, <2>4 DEF Vetted
<1> DEFINE Only ==
             /\ (st.phase = "Planning" /\ st'.phase = "Applying" /\ Policy[job.plan.act] = "approve")
                  => Hash(job.plan) \in blessed /\ plan = job.plan
             /\ (Applies /\ infra' # infra /\ Policy[plan'.act] = "approve")
                  => Hash(plan') \in blessed \/ ungated
<1>3. IInv /\ [Next]_vars => [Only]_vars
  BY <1>1, <1>2
<1>4. ApprovedPlanOnly <=> [][Only]_vars
  BY DEF ApprovedPlanOnly
<1> QED BY <1>3, <1>4, InductiveInvariant, PTL DEF Spec

-----------------------------------------------------------------------------
(* The render. *)

\* Steps that work on from the render they have: nothing they change is what
\* RenderInv relates, or it is taken from where the relation held.
LEMMA RenderKeeps ==
    ASSUME RenderInv, UNCHANGED render,
           st'.phase \in Compiled => st.phase \in Compiled /\ st'.digest = st.digest,
           job'.pc \in Working
             \/ (job'.pc = "put" /\ job'.to \in Compiled)
             => /\ job'.tpl = job.tpl
                /\ \/ job.pc \in Working
                   \/ job.pc = "put" /\ job.to \in Compiled
    PROVE  RenderInv'
  BY DEF RenderInv, Working, Compiled

\* Every step keeps the render in step with the spec, where a render is not
\* reused or the source is a git repository.
LEMMA StepRender ==
    ASSUME Git \/ ~ReuseRender
    PROVE  IInv /\ RenderInv /\ [Next]_vars => RenderInv'
<1> SUFFICES ASSUME IInv, RenderInv, [Next]_vars PROVE RenderInv'
  OBVIOUS
<1>0. /\ TypeOK /\ PhaseInv /\ AckInv
  BY DEF IInv
<1>1. /\ st \in StType /\ job \in Jobs /\ tpl \in TplType /\ job.tpl \in TplType
      /\ job.plan \in Plans /\ job.plan.act \in Actions
      /\ job.rev \in 0 .. MaxRev /\ 0 \in 0 .. MaxRev /\ st.pend \in Hashes
      /\ Hash(job.plan) \in Hashes /\ NoHash \in Hashes
      /\ Material(tpl)[1] = tpl.vars /\ Material(job.tpl)[1] = job.tpl.vars
  BY <1>0, Types, FieldTypes, HashType, Bounds DEF Plans
<1>2. CASE UNCHANGED <<st, render, job>>
  BY <1>2, RenderKeeps DEF RenderInv, Working, Compiled
<1>3. CASE ApproveInStatus
  <2>1. st'.phase = st.phase /\ st'.digest = st.digest
    BY <1>1, <1>3, StOk DEF ApproveInStatus
  <2>2. UNCHANGED <<render, job>>
    BY <1>3 DEF ApproveInStatus, Outside
  <2> QED BY <2>1, <2>2 DEF RenderInv, Working, Compiled
<1>4. CASE job' = Idle /\ UNCHANGED <<st, render>>
  BY <1>4, IdleType, RenderKeeps DEF Working
<1>5. CASE Start
  <2> DEFINE r == Route(tpl, st)
             to == IF r[1] = "put" THEN r[2] ELSE "Pending"
             new == [Idle EXCEPT !.pc = r[1], !.tpl = tpl, !.st = st, !.fresh = Fresh(st), !.to = to]
  <2>1. UNCHANGED <<st, render>> /\ job' = IF r[1] = "idle" THEN Idle ELSE new
    BY <1>5 DEF Start
  <2>2. st.phase = "Destroying" => tpl.del
    BY <1>0 DEF PhaseInv
  <2>3. r[1] \in {"plan", "recheck", "apply"} \/ (r[1] = "put" /\ r[2] \in Compiled)
           => st.phase \in Compiled /\ ~SpecChanged(tpl, st)
    BY <1>1, <2>2, RouteIs
  <2>4. r[1] \in {"idle", "put", "finalize", "release", "compile", "plan", "recheck", "apply", "retry",
              "destroy"}
    BY <1>1, <2>2, RouteIs
  <2>5. CASE r[1] = "idle"
    BY <1>4, <2>1, <2>5
  <2>6. CASE r[1] # "idle"
    <3>1. job'.pc = r[1] /\ job'.tpl = tpl /\ job'.to = to
      BY <2>1, <2>6 DEF Idle
    <3>2. st.phase \in Compiled /\ ~SpecChanged(tpl, st) => render.vars = tpl.vars
      <4>1. ~(tpl.gen > st.acked) => tpl.gen = st.acked
        BY <1>0, <1>1, FieldTypes, Bounds DEF AckInv
      <4> QED BY <1>0, <1>1, <4>1 DEF SpecChanged, Compiled, AckInv, RenderInv
    <3> HIDE DEF r
    <3> QED BY <2>1, <2>3, <2>4, <3>1, <3>2 DEF RenderInv, Working, Compiled
  <2> QED BY <2>5, <2>6
<1>6. CASE Put
  <2>1. /\ st'.phase = job.to /\ st'.digest = Material(job.tpl) /\ job.pc = "put"
        /\ UNCHANGED render
    BY <1>1, <1>6 DEF Put, At, StType
  <2>2. job'.pc \in {"idle", "replan"}
    BY <1>1, <1>6, IdleType, FieldTypes DEF Put, Jobs
  <2> QED BY <1>1, <2>1, <2>2 DEF RenderInv, Working, Compiled
<1>7. CASE Compile
  <2>1. job.pc = "compile" /\ st.phase = "Compiling"
    BY <1>0, <1>7 DEF Compile, At, PhaseInv
  <2>2. CASE render' = [vars |-> job.tpl.vars, rev |-> src] /\ UNCHANGED st
             /\ job' = [job EXCEPT !.pc = "stamp", !.rev = src]
    <3>1. job'.pc = "stamp" /\ job'.tpl = job.tpl
      BY <1>1, <2>2 DEF Jobs
    <3> QED BY <2>1, <2>2, <3>1 DEF RenderInv, Working, Compiled
  <2>3. CASE CompileFailure
    <3>1. UNCHANGED render /\ st'.phase = "CompileBlocked" /\ PutThen("Failed", "idle")
      BY <1>1, <2>3, StPhase DEF CompileFailure, Phases
    <3>2. job'.pc = "put" /\ job'.to = "Failed"
      BY <1>1, <3>1, JobPuts DEF Phases
    <3> QED BY <3>1, <3>2, RenderKeeps DEF Working, Compiled
  <2> QED BY <1>7, <2>2, <2>3 DEF Compile
<1>8. CASE Stamp
  <2>1. st'.phase = st.phase /\ st'.digest = st.digest /\ UNCHANGED render /\ job.pc = "stamp"
    BY <1>1, <1>8, StCrev DEF Stamp, At
  <2>2. job'.pc = "put" /\ job'.tpl = job.tpl
    BY <1>1, <1>8, JobPuts DEF Stamp, Phases
  <2> QED BY <2>1, <2>2, RenderKeeps DEF Working
<1>9. CASE MakePlan
  <2>1. UNCHANGED <<st, render>>
    BY <1>9 DEF MakePlan
  <2>2. \/ job' = Idle
        \/ job.pc = "plan" /\ job' = [job EXCEPT !.pc = "judge", !.plan = plan']
    BY <1>9 DEF MakePlan, At
  <2>3. job.pc = "plan" /\ job' = [job EXCEPT !.pc = "judge", !.plan = plan']
          => job'.pc = "judge" /\ job'.tpl = job.tpl
    BY <1>1 DEF Jobs
  <2> QED BY <1>4, <2>1, <2>2, <2>3, RenderKeeps DEF Working
<1>10. CASE Judge
  <2>1. st'.phase = st.phase /\ st'.digest = st.digest /\ UNCHANGED render /\ job.pc = "judge"
    BY <1>1, <1>10, StAct DEF Judge, At
  <2>2. job'.pc = "idle" \/ job'.tpl = job.tpl
    <3>1. PICK v \in Verdicts(job) :
            CASE v = "idle" -> job' = Idle
              [] v = "pend" -> Goto("pend")
              [] OTHER -> PutThen(v, "idle")
      BY <1>10 DEF Judge
    <3>2. CASE v = "idle"
      BY <3>1, <3>2, IdleType
    <3>3. CASE v = "pend"
      BY <1>1, <3>1, <3>3, JobGoes DEF Goto, Pcs
    <3>4. CASE v \notin {"idle", "pend"}
      BY <1>1, <3>1, <3>4 DEF PutThen, Jobs
    <3> QED BY <3>2, <3>3, <3>4
  <2> QED BY <2>1, <2>2, RenderKeeps DEF Working
<1>11. CASE Pend
  <2>1. st'.phase = st.phase /\ st'.digest = st.digest /\ UNCHANGED render /\ job' = Idle
    BY <1>1, <1>11 DEF Pend, StType
  <2> QED BY <2>1, IdleType, RenderKeeps DEF Working
<1>12. CASE Apply
  <2>1. UNCHANGED <<st, render>> /\ job.pc \in {"apply", "unchecked"}
    BY <1>12 DEF Apply, Applies, At
  <2>2. job'.tpl = job.tpl
    <3>1. CASE Goto("record")
      BY <1>1, <3>1, JobGoes DEF Goto, Pcs
    <3>2. CASE \E to \in Phases, then \in {"idle", "replan"} : PutThen(to, then)
      BY <1>1, <3>2, JobPuts
    <3> QED BY <1>12, <3>1, <3>2 DEF Apply, ApplyFailure, Phases
  <2> QED BY <2>1, <2>2, RenderKeeps DEF Working
<1>13. CASE Record
  <2>1. UNCHANGED <<st, render>> /\ job.pc = "record"
    BY <1>13 DEF Record, At
  <2>2. job'.tpl = job.tpl
    BY <1>1, <1>13, JobPuts DEF Record, Phases
  <2> QED BY <2>1, <2>2, RenderKeeps DEF Working
<1>14. CASE Retry
  <2>1. st'.phase = st.phase /\ st'.digest = st.digest /\ UNCHANGED render
    BY <1>1, <1>14, StCrev DEF Retry
  <2>2. job'.pc = "put" /\ job'.to = "Pending"
    BY <1>1, <1>14, JobPuts DEF Retry, Phases
  <2> QED BY <2>1, <2>2, RenderKeeps DEF Working, Compiled
<1>15. CASE Destroy
  <2>1. UNCHANGED <<st, render>>
    BY <1>15 DEF Destroy
  <2>2. job'.pc = "release" \/ (job'.pc = "put" /\ job'.to = "Failed")
    BY <1>1, <1>15 DEF Destroy, Goto, AfterFailedDestroy, Jobs
  <2> QED BY <2>1, <2>2, RenderKeeps DEF Working, Compiled
<1>16. CASE Error
  <2>1. UNCHANGED <<st, render>>
    BY <1>16 DEF Error
  <2>2. job' = Idle \/ PutThen("Failed", "idle")
    BY <1>16 DEF Error, PutThen
  <2>3. PutThen("Failed", "idle") => job'.pc = "put" /\ job'.to = "Failed"
    BY <1>1, JobPuts DEF Phases
  <2> QED BY <1>4, <2>1, <2>2, <2>3, RenderKeeps DEF Working, Compiled
<1>17. CASE EditVars \/ Unprotect \/ Authorize \/ ApproveInSpec \/ Delete \/ Push \/ Drift
            \/ UNCHANGED vars
  BY <1>2, <1>17 DEF EditVars, Unprotect, Authorize, ApproveInSpec, Delete, Push, Drift, Outside, vars
<1>18. CASE Finalize \/ Release \/ Crash
  BY <1>4, <1>18 DEF Finalize, Release, Crash
<1>19. CASE Recheck
  <2>1. UNCHANGED <<st, render>> /\ job.pc = "recheck"
    BY <1>19 DEF Recheck, At
  <2>2. job'.tpl = job.tpl
    <3>1. CASE Goto("apply") \/ Goto("unchecked")
      BY <1>1, <3>1, JobGoes DEF Goto, Pcs
    <3>2. CASE PutThen("Failed", "idle")
      BY <1>1, <3>2, JobPuts DEF Phases
    <3> QED BY <1>19, <3>1, <3>2 DEF Recheck, Judged
  <2> QED BY <2>1, <2>2, RenderKeeps DEF Working
<1> QED BY <1>3, <1>5, <1>6, <1>7, <1>8, <1>9, <1>10, <1>11, <1>12, <1>13, <1>14, <1>15, <1>16,
           <1>17, <1>18, <1>19 DEF Next, Reconcile

\* Where a render is never reused, or the source is a git repository, a plan is
\* made from a render of the spec the reconcile works from.  For a ConfigMap
\* with ReuseRender on it is not, as the model checker shows.
THEOREM PlansOwnSpecCorrect ==
    ASSUME Git \/ ~ReuseRender PROVE Spec => []PlansOwnSpec
<1>1. Init => RenderInv
  BY IdleType DEF Init, RenderInv, Working, Compiled
<1>2. IInv /\ RenderInv /\ [Next]_vars => RenderInv'
  BY StepRender
<1>3. RenderInv => PlansOwnSpec
  BY DEF RenderInv, Working, PlansOwnSpec, At
<1> QED BY <1>1, <1>2, <1>3, InductiveInvariant, PTL DEF Spec
=============================================================================
