-------------------------------- MODULE AmiTest --------------------------------
(* One AmiTest object (ami_test_controller.rs) and the Kubernetes Jobs of its    *)
(* suites. Nobody else writes the object, so a pass of handle_running is one     *)
(* step, which may stop after the Jobs it creates or after the suites it writes. *)
EXTENDS Naturals, FiniteSets

CONSTANTS
  Suites,        \* the names of the suites
  Graphs,        \* the depends_on relations tried: suite -> suites
  Deregister,    \* failurePolicy.deregisterAmi
  MaxFaults      \* bound: deaths, failed calls and failed applies in all

VARIABLES
  build,       \* the PackerBuild the test takes its image from
  test,        \* the object
  jobs,        \* the Job of each suite and the image it runs on
  faults

testVars == <<test, jobs, faults>>

TestPhases  == {"None", "Pending", "Resolving", "Running", "Passed", "Failed", "Cleaning"}
SuitePhases == {"Pending", "Running", "Succeeded", "Failed", "Skipped"}
Terminal    == {"Succeeded", "Failed", "Skipped"}
NoJob       == [state |-> "None", ami |-> 0]

Init ==
  /\ \E g \in Graphs :
       test = [phase |-> "None", ami |-> 0, deps |-> g,
               suite |-> [s \in Suites |-> "Pending"]]
  /\ jobs = [s \in Suites |-> NoJob]
  /\ faults = 0

--------------------------------------------------------------------------------
(* validate_suite_dag: no unknown suite, none on itself, and peeling off the      *)
(* suites whose dependencies are gone, one round per suite, leaves none.          *)
Peeled(g) ==
  LET left[n \in 0 .. Cardinality(Suites)] ==
        IF n = 0 THEN Suites
        ELSE {s \in left[n - 1] : g[s] \cap left[n - 1] # {}}
  IN left[Cardinality(Suites)]
ValidateSuiteDag(g) ==
  /\ \A s \in Suites : g[s] \subseteq Suites \ {s}
  /\ Peeled(g) = {}

Fault == faults < MaxFaults /\ faults' = faults + 1
To(phase) == test' = [test EXCEPT !.phase = phase]

HandlePending ==
  /\ test.phase = "Pending"
  /\ To(IF ValidateSuiteDag(test.deps) THEN "Resolving" ELSE "Failed")
  /\ UNCHANGED <<jobs, faults>>

(* The image the PackerBuild names when it is Ready; a build that failed fails    *)
(* the test, any other phase is waited for.                                       *)
HandleResolving ==
  /\ test.phase = "Resolving"
  /\ \/ build.phase = "Failed" /\ To("Failed")
     \/ /\ build.phase = "Ready"
        /\ test' = [test EXCEPT !.phase = "Running", !.ami = build.ami,
                                !.suite = [s \in Suites |-> "Pending"]]
  /\ UNCHANGED <<jobs, faults>>

--------------------------------------------------------------------------------
(* handle_running. A pass computes the suites' phases in three sweeps from the    *)
(* ones it read: skip the dependents of failed suites, launch what has all its    *)
(* dependencies, collect the finished Jobs.                                       *)
SuitesIn(phase) == {s \in Suites : test.suite[s] = phase}

Skipping ==
  [s \in Suites |->
     IF test.suite[s] = "Pending" /\ test.deps[s] \cap SuitesIn("Failed") # {}
     THEN "Skipped" ELSE test.suite[s]]

\* Mutant: a dependency that is over, however it ended, is met.
LaunchableWhenOver == {s \in Suites : Skipping[s] = "Pending"
                         /\ \A d \in test.deps[s] : test.suite[d] \in Terminal}

Launchable == {s \in Suites : Skipping[s] = "Pending"
                              /\ test.deps[s] \subseteq SuitesIn("Succeeded")}

\* A Job of that name which exists (409) is adopted; refused: could not be created.
Created(refused) ==
  [s \in Suites |-> IF s \in Launchable \ refused /\ jobs[s] = NoJob
                    THEN [state |-> "Running", ami |-> test.ami] ELSE jobs[s]]
Launched(refused) ==
  [s \in Suites |-> CASE s \in refused -> "Failed"
                      [] s \in Launchable \ refused -> "Running"
                      [] OTHER -> Skipping[s]]
Collected(refused) ==
  [s \in Suites |-> IF Launched(refused)[s] = "Running" /\ Created(refused)[s].state \in Terminal
                    THEN Created(refused)[s].state ELSE Launched(refused)[s]]

Over(suite) == \A s \in Suites : suite[s] \in Terminal
Verdict(suite) ==
  CASE ~Over(suite) -> "Running"
    [] Over(suite) /\ \A s \in Suites : suite[s] = "Succeeded" -> "Passed"
    [] OTHER -> IF Deregister THEN "Cleaning" ELSE "Failed"

\* Where failed suites leave nothing to run the pass ends before the launch.
Results(refused) ==
  IF SuitesIn("Failed") # {} /\ Over(Skipping) THEN Skipping ELSE Collected(refused)

HandleRunning ==
  /\ test.phase = "Running"
  /\ jobs' = Created({})
  /\ test' = [test EXCEPT !.suite = Results({}), !.phase = Verdict(Results({}))]
  /\ test' # test
  /\ UNCHANGED faults

(* The same pass when a Job cannot be created, when the process dies after the    *)
(* Jobs or after the suites were written, or when a write fails.                  *)
HandleRunningFaulty ==
  /\ test.phase = "Running" /\ Fault
  /\ \/ \E s \in Launchable :
          /\ jobs' = Created({s})
          /\ test' = [test EXCEPT !.suite = Results({s}), !.phase = Verdict(Results({s}))]
     \/ jobs' = Created({}) /\ UNCHANGED test
     \/ jobs' = Created({}) /\ test' = [test EXCEPT !.suite = Results({})]
     \/ /\ jobs' = Created({})
        /\ \E suite \in {test.suite, Results({})} :
             test' = [test EXCEPT !.suite = suite, !.phase = "Failed"]

(* The error arm of reconcile_ami_test, before any Job exists. *)
HandlerFails ==
  /\ test.phase \in {"Pending", "Resolving"} /\ Fault /\ To("Failed")
  /\ UNCHANGED jobs

HandleCleaning ==
  /\ test.phase = "Cleaning" /\ To("Failed")
  /\ UNCHANGED <<jobs, faults>>

(* Kubernetes ends a Job: a deadline and no retries, so it always ends. *)
JobEnds ==
  \E s \in Suites, end \in {"Succeeded", "Failed"} :
    /\ jobs[s].state = "Running"
    /\ jobs' = [jobs EXCEPT ![s].state = end]
    /\ UNCHANGED <<test, faults>>

Handle ==
  \/ HandlePending \/ HandleResolving \/ HandleRunning
  \/ HandleRunningFaulty \/ HandlerFails \/ HandleCleaning

Next == (Handle \/ JobEnds) /\ UNCHANGED build

(* Phases of the test, its suites and their Jobs (AmiTestStatus). *)
TypeOK ==
  /\ test \in [phase : TestPhases, ami : Nat, deps : Graphs, suite : [Suites -> SuitePhases]]
  /\ jobs \in [Suites -> [state : {"None", "Running", "Succeeded", "Failed"}, ami : Nat]]
  /\ faults \in 0 .. MaxFaults

(* A test that Passed has a Job per suite that succeeded on the image the test    *)
(* names, and no suite was started before the ones it depends on had succeeded,   *)
(* whatever was retried or adopted after a death (handle_running).                *)
PassedWasRun ==
  /\ test.phase = "Passed" =>
       \A s \in Suites : jobs[s] = [state |-> "Succeeded", ami |-> test.ami]
  /\ \A s \in Suites : jobs[s] # NoJob =>
       \A d \in test.deps[s] : jobs[d].state = "Succeeded"

(* A suite that depends on one that was skipped is neither skipped nor run: the   *)
(* sweep looks at failed suites only, and the test stays Running.                 *)
Stranded ==
  /\ test.phase = "Running"
  /\ \E s \in Suites : test.suite[s] = "Pending"
                       /\ \E d \in test.deps[s] : test.suite[d] = "Skipped"
================================================================================
