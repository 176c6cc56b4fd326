---------------------------- MODULE MCStateLock ----------------------------
\* Two pods with two pooled connections each; pod pa runs two reconciles whose
\* resources share one state key.
EXTENDS StateLock

CONSTANTS pa, pb, a1, a2, b1, b2, ta1, ta2, tb

MCProcesses == {pa, pb}
MCSessions == {a1, a2, b1, b2}
MCTasks == {ta1, ta2, tb}
MCSessionPod == [s \in MCSessions |-> IF s \in {a1, a2} THEN pa ELSE pb]
MCTaskPod == [t \in MCTasks |-> IF t = tb THEN pb ELSE pa]
=============================================================================
