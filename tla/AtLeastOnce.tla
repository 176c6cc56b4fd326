------------------------------ MODULE AtLeastOnce ------------------------------
(* What the leaf queue promises its callers, whichever engine carries it: a     *)
(* piece of work that was accepted is handed out until one of its holders       *)
(* finishes it or until it used up its deliveries; in the second case it is     *)
(* handed back to the caller once. Nothing that was accepted gets lost.         *)
EXTENDS Naturals

CONSTANTS
  Items,        \* identities of accepted work
  MaxDeliver    \* deliveries before the queue gives up on a holder that is gone

VARIABLES
  fate,         \* what became of an item
  tries         \* how often an open item was handed out

vars == <<fate, tries>>

Fates == {"none", "open", "done", "failed", "reported"}

Init ==
  /\ fate = [i \in Items |-> "none"]
  /\ tries = [i \in Items |-> 0]

(* What one step may do to one item. *)
Same(i)     == fate'[i] = fate[i] /\ tries'[i] = tries[i]
Submit(i)   == fate[i] = "none" /\ fate'[i] = "open" /\ tries'[i] = 0
Deliver(i)  == fate[i] = "open" /\ fate'[i] = "open" /\ tries'[i] = tries[i] + 1
Complete(i) == fate[i] = "open" /\ tries[i] > 0 /\ fate'[i] = "done" /\ tries'[i] = 0
GiveUp(i)   == fate[i] = "open" /\ tries[i] >= MaxDeliver
               /\ fate'[i] \in {"failed", "reported"} /\ tries'[i] = 0
Report(i)   == fate[i] = "failed" /\ fate'[i] = "reported" /\ tries'[i] = 0

(* A batch is handed out, expired or reported in one step; work is accepted and *)
(* completed one piece at a time.                                               *)
Next ==
  /\ fate' \in [Items -> Fates]
  /\ DOMAIN tries' = Items
  /\ \A i \in Items :
       Same(i) \/ Submit(i) \/ Deliver(i) \/ Complete(i) \/ GiveUp(i) \/ Report(i)
  /\ \A i, j \in Items : (Submit(i) /\ Submit(j)) \/ (Complete(i) /\ Complete(j)) => i = j

(* Accepted work does not stay open for ever. *)
Settles == \A i \in Items : fate[i] = "open" ~> fate[i] \in {"done", "reported"}

Safe == Init /\ [][Next]_vars
Spec == Safe /\ Settles
=============================================================================
