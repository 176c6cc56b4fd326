---------------------------------- MODULE Flow ----------------------------------
(* One InfrastructureFlow (flow_controller.rs) and the templates of its steps.    *)
(* A pass sorts the steps, visits them in that order, one read of a template at   *)
(* a time, creates the templates whose dependencies it saw Ready, and patches the *)
(* status if what it compares has changed. The templates move while it runs, a    *)
(* read or a create may fail, and the process may die. The steps are numbers, in  *)
(* the order of their names. A step with variables refers in them to an output of *)
(* each of its dependencies; one without a source stands for a template somebody  *)
(* else would have made, and nobody does. The spec stays as it is, but for its    *)
(* suspension.                                                                    *)
EXTENDS Naturals, FiniteSets, Sequences, FiniteSetsExt

CONSTANTS
  Steps,         \* the steps, a set of numbers
  Relations,     \* the depends_on relations tried: step -> steps
  Shapes,        \* the spec.steps tried: which have variables, which no source
  MaxMoves,      \* bound: phase changes of templates once created
  MaxFlowFaults, \* bound: failed calls and deaths
  MaxToggles     \* bound: changes of spec.suspend

(* A step that depends on an unknown one is an error of toposort: the flow is     *)
(* Failed before any pass.                                                        *)
ASSUME FlowAssumption ==
  /\ IsFiniteSet(Steps) /\ Steps \subseteq Nat
  /\ Relations \subseteq [Steps -> SUBSET Steps]
  /\ Shapes \subseteq [refers : SUBSET Steps, bare : SUBSET Steps]
  /\ {MaxMoves, MaxFlowFaults, MaxToggles} \subseteq Nat

VARIABLES
  deps,     \* spec: step -> the steps it depends on
  shape,    \* spec: the steps whose variables refer to outputs, the steps without a source
  held,     \* spec.suspend
  tpls,     \* step -> its template
  flow,     \* status of the flow
  pass,     \* the pass in progress
  moves, mishaps, toggles

flowVars == <<deps, shape, held, tpls, flow, pass, moves, mishaps, toggles>>

\* was: it has been Ready; out: its outputs, numbered, 0 for none.
NoTemplate == [phase |-> "Absent", was |-> FALSE, out |-> 0, using |-> [s \in Steps |-> 0]]
NoPass == [on |-> FALSE, left |-> <<>>, st |-> [s \in Steps |-> "Missing"],
           outs |-> [s \in Steps |-> 0]]

FlowInit ==
  /\ deps \in Relations /\ shape \in Shapes
  /\ held = FALSE
  /\ tpls = [s \in Steps |-> NoTemplate]
  /\ flow = [phase |-> "None", ready |-> 0, cond |-> "None",
             steps |-> [s \in Steps |-> "Missing"]]
  /\ pass = NoPass
  /\ moves = 0 /\ mishaps = 0 /\ toggles = 0

--------------------------------------------------------------------------------
(* toposort: of the steps whose dependencies are placed, the last by name comes   *)
(* next; steps that are never placed are on or behind a cycle.                    *)
Placed(o) == {o[i] : i \in DOMAIN o}

\* Mutant: one dependency in place is enough.
OpenToSome(g, done) == {s \in Steps \ done : g[s] = {} \/ g[s] \cap done # {}}

OpenTo(g, done) == {s \in Steps \ done : g[s] \subseteq done}
Extended(g, o) ==
  LET open == OpenTo(g, Placed(o)) IN IF open = {} THEN o ELSE Append(o, Max(open))
Toposort(g) == FoldSet(LAMBDA n, o : Extended(g, o), <<>>, Steps)
OrderOf == [g \in Relations |-> Toposort(g)]
Sorted(g) == Len(OrderOf[g]) = Cardinality(Steps)

Mishap == mishaps < MaxFlowFaults /\ mishaps' = mishaps + 1

(* The start of reconcile_flow: a suspended flow only gets its condition, one     *)
(* that cannot be sorted is Failed.                                               *)
Suspended ==
  /\ ~pass.on /\ held /\ flow.cond # "Suspended"
  /\ flow' = [flow EXCEPT !.cond = "Suspended"]
  /\ UNCHANGED <<deps, shape, held, tpls, pass, moves, mishaps, toggles>>
Unsortable ==
  /\ ~pass.on /\ ~held /\ ~Sorted(deps)
  /\ flow' = [flow EXCEPT !.phase = "Failed", !.cond = "Failed"]
  /\ flow' # flow
  /\ UNCHANGED <<deps, shape, held, tpls, pass, moves, mishaps, toggles>>
Begin ==
  /\ ~pass.on /\ ~held /\ Sorted(deps)
  /\ pass' = [NoPass EXCEPT !.on = TRUE, !.left = OrderOf[deps]]
  /\ UNCHANGED <<deps, shape, held, tpls, flow, moves, mishaps, toggles>>

(* One turn of the loop over the steps. *)
Step == Head(pass.left)

\* Mutant: a dependency whose template could not be read is taken to be Ready.
DepsReadyOrUnknown(s) == \A d \in deps[s] : pass.st[d] \in {"Ready", "Missing"}

DepsReady(s) == \A d \in deps[s] : pass.st[d] = "Ready"
Turn == pass.on /\ pass.left # <<>>
Seen(phase, out) ==
  pass' = [pass EXCEPT !.left = Tail(@), !.st[Step] = phase, !.outs[Step] = out]

Visit ==
  /\ Turn /\ tpls[Step] # NoTemplate
  /\ Seen(tpls[Step].phase, IF tpls[Step].phase = "Ready" THEN tpls[Step].out ELSE 0)
  /\ UNCHANGED <<deps, shape, held, tpls, flow, moves, mishaps, toggles>>
Hold ==
  /\ Turn /\ tpls[Step] = NoTemplate /\ ~DepsReady(Step)
  /\ Seen("Pending", 0)
  /\ UNCHANGED <<deps, shape, held, tpls, flow, moves, mishaps, toggles>>

\* resolve_step_references, from the outputs this pass has read.
Resolved(s) == s \in shape.refers => \A d \in deps[s] : pass.outs[d] # 0
MayCreate == Turn /\ tpls[Step] = NoTemplate /\ DepsReady(Step)

\* The variables are resolved before the source is looked for, once and for all.
Unresolved ==
  /\ MayCreate /\ ~Resolved(Step)
  /\ Seen("Pending", 0)
  /\ UNCHANGED <<deps, shape, held, tpls, flow, moves, mishaps, toggles>>
NoSource ==
  /\ MayCreate /\ Resolved(Step) /\ Step \in shape.bare
  /\ Seen("Missing", 0)
  /\ UNCHANGED <<deps, shape, held, tpls, flow, moves, mishaps, toggles>>
Create ==
  /\ MayCreate /\ Resolved(Step) /\ Step \notin shape.bare
  /\ tpls' = [tpls EXCEPT ![Step] =
                [phase |-> "Pending", was |-> FALSE, out |-> 0,
                 using |-> [d \in Steps |-> IF d \in deps[Step] THEN pass.outs[d] ELSE 0]]]
  /\ Seen("Pending", 0)
  /\ UNCHANGED <<deps, shape, held, flow, moves, mishaps, toggles>>

\* A failed read leaves the step out of the pass, a failed create is only logged.
CallFails ==
  /\ Turn /\ Mishap
  /\ \/ Seen("Missing", 0)
     \/ MayCreate /\ Resolved(Step) /\ Step \notin shape.bare /\ Seen("Pending", 0)
  /\ UNCHANGED <<deps, shape, held, tpls, flow, moves, toggles>>
Die ==
  /\ pass.on /\ Mishap /\ pass' = NoPass
  /\ UNCHANGED <<deps, shape, held, tpls, flow, moves, toggles>>

(* The end of the pass. *)
Count(st, phase) == Cardinality({s \in Steps : st[s] = phase})
FlowPhase(st) ==
  CASE Count(st, "Ready") = Cardinality(Steps) -> "Ready"
    [] Count(st, "Ready") # Cardinality(Steps) /\ Count(st, "Failed") > 0 -> "Failed"
    [] OTHER -> "Progressing"

\* Mutant: the count of ready steps stands for the phase too.
NeedsPatchByCount(st) == flow.ready # Count(st, "Ready") \/ flow.phase = "None"

\* flow_status_needs_patch: the phase, the count and the conditions; not the steps.
NeedsPatch(st) ==
  \/ flow.phase # FlowPhase(st)
  \/ flow.ready # Count(st, "Ready")
  \/ flow.cond # FlowPhase(st)

\* The patch merges: a step the pass did not read keeps its entry.
Finish ==
  /\ pass.on /\ pass.left = <<>>
  /\ flow' = IF NeedsPatch(pass.st)
             THEN [phase |-> FlowPhase(pass.st), ready |-> Count(pass.st, "Ready"),
                   cond |-> FlowPhase(pass.st),
                   steps |-> [s \in Steps |-> IF pass.st[s] = "Missing" THEN flow.steps[s]
                                              ELSE pass.st[s]]]
             ELSE flow
  /\ pass' = NoPass
  /\ UNCHANGED <<deps, shape, held, tpls, moves, mishaps, toggles>>

Reconcile == Suspended \/ Unsortable \/ Begin \/ Visit \/ Hold \/ Unresolved \/ NoSource \/ Create
             \/ Finish

--------------------------------------------------------------------------------
(* The template controller moves a template: one that becomes Ready has new        *)
(* outputs, or, if they could not be fetched, those it had, since the patch then   *)
(* leaves them out. The user suspends and resumes the flow.                        *)
Move ==
  /\ moves < MaxMoves /\ moves' = moves + 1
  /\ \E s \in Steps, to \in {"Ready", "Failed"}, got \in {0, 1} :
       /\ tpls[s] # NoTemplate /\ tpls[s].phase # to /\ (to = "Failed" => got = 0)
       /\ tpls' = [tpls EXCEPT ![s] = [phase |-> to, was |-> @.was \/ to = "Ready",
                                       out |-> @.out + got, using |-> @.using]]
  /\ UNCHANGED <<deps, shape, held, flow, pass, mishaps, toggles>>
Toggle ==
  /\ toggles < MaxToggles /\ toggles' = toggles + 1
  /\ held' = ~held
  /\ UNCHANGED <<deps, shape, tpls, flow, pass, moves, mishaps>>

FlowNext == Reconcile \/ CallFails \/ Die \/ Move \/ Toggle

(* A pass goes on to its end and the flow is requeued. *)
FlowFairness == WF_flowVars(Reconcile)

FlowSpec == FlowInit /\ [][FlowNext]_flowVars /\ FlowFairness

--------------------------------------------------------------------------------
(* The pass is over steps of the flow, the count of ready ones is one of steps    *)
(* (InfrastructureFlowStatus).                                                    *)
FlowTypeOK ==
  /\ deps \in Relations /\ shape \in Shapes /\ held \in BOOLEAN
  /\ \A s \in Steps : tpls[s].phase \in {"Absent", "Pending", "Ready", "Failed"}
                      /\ tpls[s].out \in 0 .. MaxMoves
  /\ flow.phase \in {"None", "Ready", "Failed", "Progressing"}
  /\ flow.ready \in 0 .. Cardinality(Steps)
  /\ pass.on \in BOOLEAN /\ Placed(pass.left) \subseteq Steps

(* Of every relation between the steps: the sort succeeds exactly when no set of  *)
(* steps has each a dependency inside the set, and then puts every step after its *)
(* dependencies (toposort).                                                       *)
Acyclic(g) == ~\E S \in SUBSET Steps : S # {} /\ \A s \in S : g[s] \cap S # {}
SortIsSound ==
  flow.phase = "None" /\ ~pass.on =>
    \A g \in [Steps -> SUBSET Steps] :
      LET order == Toposort(g) IN
      /\ (Len(order) = Cardinality(Steps)) <=> Acyclic(g)
      /\ \A i, j \in DOMAIN order : order[i] \in g[order[j]] => i < j

(* A template is created only when each of its dependencies has been Ready, and    *)
(* with outputs each had where its variables refer to them, although templates     *)
(* fail and recover, outputs stay away and reads fail while the pass goes on       *)
(* (deps_ready and resolve_step_references in reconcile_flow).                    *)
BuiltOnOutputs ==
  \A s \in Steps : tpls[s] # NoTemplate =>
    \A d \in deps[s] : /\ tpls[d].was
                       /\ s \in shape.refers => tpls[s].using[d] \in 1 .. tpls[d].out

(* When the templates are left alone the flow comes to rest: a status that says   *)
(* what the templates say, in phase and count, and no step left uncreated that     *)
(* has a source and whose dependencies are all Ready with the outputs it refers    *)
(* to, whatever calls failed before (reconcile_flow, flow_status_needs_patch).    *)
Truth == [s \in Steps |-> tpls[s].phase]
Possible(s) ==
  /\ s \notin shape.bare
  /\ \A d \in deps[s] : tpls[d].phase = "Ready" /\ (s \in shape.refers => tpls[d].out # 0)
AtRest ==
  /\ flow.phase = FlowPhase(Truth) /\ flow.ready = Count(Truth, "Ready")
  /\ \A s \in Steps : Possible(s) => tpls[s] # NoTemplate
FlowSettles == <>[](held \/ ~Acyclic(deps) \/ AtRest)
================================================================================
