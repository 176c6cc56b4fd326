------------------------------- MODULE MCDispatch -------------------------------
(* The two parts of the operator that hand out work when its turn comes: the leaf *)
(* queue to workers, the flow controller to templates. They share nothing, so one *)
(* of them moves in a behaviour and the other one keeps its first state.          *)
EXTENDS LeafQueue, Flow

CONSTANTS w1, w2, w3

(* w1 and w2 are two actions of one credential, w3 belongs to another. *)
MCWorks  == {w1, w2, w3}
MCCredOf == [w \in MCWorks |-> IF w = w3 THEN "other" ELSE "gh"]
MCIdOf   == [w \in MCWorks |-> w]

(* Chains along and against the names, one step before two and two before one,   *)
(* and a cycle with and without a step outside it.                               *)
MCSteps == 1 .. 3
Chain == <<{}, {1}, {2}>>
Join  == <<{}, {}, {1, 2}>>
MCRelations == {Chain, <<{2}, {3}, {}>>, <<{}, {1}, {1}>>, Join,
                <<{}, {3}, {2}>>, <<{2}, {3}, {1}>>}

(* All steps refer to outputs and have a source, or none refers and one has none. *)
Usual == [refers |-> MCSteps, bare |-> {}]
MCShapes == {Usual, [refers |-> {}, bare |-> {2}]}

VARIABLE turn
all == <<turn, vars, flowVars>>

Queue(A) == turn = "queue" /\ A /\ UNCHANGED <<turn, flowVars>>
Flow(A)  == turn = "flow" /\ A /\ UNCHANGED <<turn, vars>>

DispatchInit ==
  /\ Init /\ FlowInit
  /\ turn \in {"queue", "flow"} /\ (turn = "queue" => deps = Chain /\ shape = Usual)
  /\ shape = Usual \/ deps \in {Chain, Join}
DispatchNext == Queue(Next) \/ Flow(FlowNext)

(* Fairness of LeafQueue and FlowFairness, for the one that moves. *)
DispatchSpec ==
  /\ DispatchInit /\ [][DispatchNext]_all
  /\ WF_all(Queue(Tick)) /\ WF_all(Queue(Exhausted))
  /\ \A c \in Creds : WF_all(Queue(\E max \in 1..MaxBatch : Pull(c, max)))
  /\ \A s \in Seqs : WF_all(Queue(\E c \in claims : c.seq = s /\ Settle(c)))
  /\ WF_all(Flow(Reconcile))

(* Entries, deadlines and counts of the queue and phases and counts of the flow    *)
(* stay in their ranges: TypeOK and FlowTypeOK.                                   *)
DispatchTypeOK == TypeOK /\ FlowTypeOK

(* FlowSettles, of the behaviours in which the flow controller moves: the flow     *)
(* comes to rest with a true status once the templates do (reconcile_flow).       *)
FlowComesToRest == turn = "flow" => FlowSettles
================================================================================
