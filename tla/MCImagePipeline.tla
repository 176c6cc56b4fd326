---------------------------- MODULE MCImagePipeline ----------------------------
(* Model-checking instance of ImagePipeline: three suites, five deploy specs. *)
EXTENDS ImagePipeline, TLC

CONSTANTS s1, s2, s3

MCSuites == {s1, s2, s3}

(* Two suites behind one, a chain, and a cycle. *)
MCGraphs == {(s1 :> {}) @@ (s2 :> {s1}) @@ (s3 :> {s1}),
             (s1 :> {}) @@ (s2 :> {s1}) @@ (s3 :> {s2}),
             (s1 :> {s2}) @@ (s2 :> {s1}) @@ (s3 :> {})}

Conf(mode, tests, checks, rollback, target, used) ==
  [mode |-> mode, tests |-> tests, checks |-> checks, rollback |-> rollback,
   target |-> target, used |-> used]

(* Each approval mode, with and without tests, health checks and rollbacks, on a  *)
(* template of each kind.                                                         *)
MCConfs == {Conf("auto", TRUE, TRUE, {"apply", "health"}, "approve", FALSE),
            Conf("manual", FALSE, TRUE, {}, "approve", TRUE),
            Conf("webhook", FALSE, FALSE, {}, "approve", FALSE),
            Conf("auto", FALSE, FALSE, {"apply"}, "auto", FALSE),
            Conf("auto", FALSE, FALSE, {}, "broken", FALSE)}
================================================================================
