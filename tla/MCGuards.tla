-------------------------------- MODULE MCGuards --------------------------------
(* What a reconcile needs before it may work: its turn at the leaf gate, and the  *)
(* advisory lock on the state it mutates. Neither reads what the other keeps, so  *)
(* one of them moves in a behaviour and the other one keeps its first state.      *)
EXTENDS MCLeafGate, MCStateLock

VARIABLE turn
all == <<turn, gateVars, lockVars>>

Gate(A) == turn = "gate" /\ A /\ UNCHANGED <<turn, lockVars>>
Lock(A) == turn = "lock" /\ A /\ UNCHANGED <<turn, gateVars>>

GuardsInit ==
  /\ GateInit /\ LockInit
  /\ turn \in {"gate", "lock"} /\ (turn = "lock" => DriftOnly)
GuardsNext == Gate(GateNext) \/ Lock(LockNext)

(* Fairness of LeafGate, when the gate moves. *)
GuardsSpec ==
  /\ GuardsInit /\ [][GuardsNext]_all
  /\ SF_all(Gate(GateTick))
  /\ \A l \in Leaves : /\ []<>(turn = "gate" => ~Starts(l))
                       /\ []<>(turn = "gate" => run[l] = "idle")
================================================================================
