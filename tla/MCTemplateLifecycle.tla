------------------------ MODULE MCTemplateLifecycle -------------------------
(* Model-checking instances of TemplateLifecycle: updates are applied as    *)
(* they come, a replacement needs an approval.                              *)
EXTENDS TemplateLifecycle

ReviewReplacements ==
    [a \in Actions |-> IF a = "replace" THEN "approve" ELSE "auto"]
=============================================================================
