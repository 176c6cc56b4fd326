----------------------------- MODULE MCLeafGate -----------------------------
(* Model-checking instances of LeafGate: three leaves in one scope, or two  *)
(* leaves that share a credential and a third without one.                  *)
EXTENDS LeafGate

CONSTANTS ws, gh

MCLeaves == 1 .. 3
MCScope == [l \in MCLeaves |-> ws]
MCDepth == [l \in MCLeaves |-> 0]
MixedCredentials == [l \in MCLeaves |-> IF l = 3 THEN NoCred ELSE gh]
Uncapped == [s \in {ws} |-> NoCap]
MixedWork == [l \in MCLeaves |->
    CASE l = 1 -> {"DriftCheck", "Change"} [] l = 2 -> {"Retry", "Drift"} [] l = 3 -> {"Drift", "Apply"}]
DriftWork == [l \in MCLeaves |-> {"DriftCheck"}]
BothMixes == {MixedWork, DriftWork}
=============================================================================
