-------------------------- MODULE MCTemplatePass ---------------------------
(* Model-checking instance of TemplatePass: processes are interchangeable. *)
EXTENDS TemplatePass, TLC

Symmetry == Permutations(Procs)
=============================================================================
