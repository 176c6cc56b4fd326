------------------------------ MODULE LeafGate ------------------------------
(***************************************************************************)
(* The admission gate in front of the expensive phases of a template       *)
(* (template/leaf_gate.rs), the budgets it draws on (controller/           *)
(* scheduling.rs) and the ranking it admits by (pangea-leaf/src/admit.rs). *)
(*                                                                         *)
(* A reconcile asks the gate for a permit under one mutex; a refused leaf  *)
(* stays in the waiting map and comes back when a released permit wakes it *)
(* or when its fallback requeue is due.  A permit is dropped field by      *)
(* field, outside that mutex: other leaves may ask in between.             *)
(*                                                                         *)
(* Time is kept as ages and countdowns, and the candidates' since stamps   *)
(* as their ranks in the queue; equal stamps are not modelled.             *)
(***************************************************************************)
EXTENDS Integers, FiniteSets, Folds

CONSTANTS
    Leaves,         \* template keys, as numbers: names compare as they do
    Scopes,         \* workspaces
    Creds,          \* provider credentials
    NoCred,         \* a template without provider credentials
    Scope,          \* [Leaves -> Scopes]
    Cred,           \* [Leaves -> Creds \cup {NoCred}]
    Depth,          \* [Leaves -> Nat]
    Mixes,          \* the mixes of work looked at, each [Leaves -> SUBSET Works]
    CatalogCap,     \* [Scopes -> Nat \cup {NoCap}]: maxConcurrentLeaves
    Global,         \* BudgetConfig.global
    PerScope,       \* BudgetConfig.per_scope
    PerCredential,  \* LeafConfig.per_credential_cap, 0 for none
    Share,          \* LeafConfig.drift_share, in permille
    Priority,       \* PriorityMode::On
    Calibrate,      \* LeafConfig.calibrate
    Park,           \* LeafConfig.park_queued
    QueueTTL, WokenTTL, PollTTL,  \* how long an unseen entry stays
    Fallback, Poll, DriftPoll,    \* requeue of a refused leaf
    Prompt          \* does a due reconcile start within a unit of time?

NoCap == -1
Works == {"Apply", "Change", "Retry", "Drift", "DriftCheck"}
Classes == {"Apply", "Change", "Unblocked", "Retry", "Drift"}

ASSUME GateAssumption ==
    /\ Leaves \subseteq Nat /\ IsFiniteSet(Leaves)
    /\ Scope \in [Leaves -> Scopes]
    /\ Cred \in [Leaves -> Creds \cup {NoCred}] /\ NoCred \notin Creds
    /\ Depth \in [Leaves -> Nat]
    /\ Mixes \subseteq [Leaves -> SUBSET Works]
    /\ CatalogCap \in [Scopes -> (Nat \ {0}) \cup {NoCap}]
    /\ {Global, PerScope, PerCredential, Share} \subseteq Nat
    /\ {QueueTTL, WokenTTL, PollTTL, Fallback, Poll, DriftPoll} \subseteq Nat
    /\ {Priority, Calibrate, Park, Prompt} \subseteq BOOLEAN

VARIABLES
    line,     \* per key of LeafGate.waiting: the rank of its since stamp, oldest 1
    entry,    \* per leaf: its Waiting record, the class of its permit
    slots,    \* leaves that hold a BudgetPermit of workspace_budgets
    creds,    \* leaves that hold one of LeafGate.credentials
    drifts,   \* leaves that hold one of LeafGate.drift
    treeCap,  \* per scope: the cap registered in the BudgetTree
    run,      \* per leaf: its reconcile, and how far its permit is dropped
    due,      \* per leaf: time to its next reconcile, if it is idle
    blocked,  \* LeafGate.blocked
    want,     \* per leaf: the work its status and its spec call for
    mix       \* per leaf: the work it may come to want, the same throughout

gateVars == <<line, entry, slots, creds, drifts, treeCap, run, due, blocked, want, mix>>

Blank == [seen |-> 0, class |-> "Drift", cap |-> NoCap, woken |-> FALSE]

Runs == {"idle", "running", "credential", "drift", "wake"}

GateInit ==
    /\ line = [l \in {} |-> 0]
    /\ entry = [l \in Leaves |-> Blank]
    /\ slots = {} /\ creds = {} /\ drifts = {}
    /\ treeCap = [s \in Scopes |-> NoCap]
    /\ run = [l \in Leaves |-> "idle"]
    /\ due = [l \in Leaves |-> 0]
    /\ blocked = {}
    /\ mix \in Mixes
    /\ want \in [Leaves -> Works] /\ \A l \in Leaves : want[l] \in mix[l]

-----------------------------------------------------------------------------
\* The leaves S of the queue q, ranked among themselves.
Ranked(q, S) == [l \in S |-> Cardinality({m \in S : q[m] <= q[l]})]

\* Waiting::live, for an entry of a gate that parks or polls.
Live(e) ==
    e.seen < IF ~Park THEN PollTTL ELSE IF e.woken THEN WokenTTL ELSE QueueTTL

\* waiting.retain(live), and the entries e of the leaves in q or under way.
Retained == Ranked(line, {l \in DOMAIN line : Live(entry[l])})
KeptEntries(q, e) ==
    [l \in Leaves |-> IF l \in DOMAIN q \/ run[l] # "idle" THEN e[l] ELSE Blank]

\* work_class: an apply and a change keep their class, a leaf that was
\* blocked on its upstreams ranks before a retry.
ClassOf(work, wasBlocked) ==
    CASE work \in {"Apply", "Change"} -> work
      [] work = "DriftCheck" -> "Drift"
      [] work \in {"Retry", "Drift"} -> IF wasBlocked THEN "Unblocked" ELSE work

ClassRank == [Apply |-> 1, Change |-> 2, Unblocked |-> 3, Retry |-> 4, Drift |-> 5]

\* Mutant: the class does not rank.
SortKeyByArrival(q, e, l) == <<q[l], 0, 0, l>>

\* Mutant: drift leaves rank by name, not by how long they wait.
SortKeyByName(q, e, l) ==
    IF Priority THEN <<ClassRank[e[l].class], 0, Depth[l], l>>
    ELSE <<q[l], 0, 0, l>>

\* order: the sort key of a candidate in the queue q with entries e.
SortKey(q, e, l) ==
    IF Priority
    THEN <<ClassRank[e[l].class],
           IF e[l].class = "Drift" THEN q[l] ELSE 0, Depth[l], l>>
    ELSE <<q[l], 0, 0, l>>

Before(q, e, l, m) ==
    LET a == SortKey(q, e, l)
        b == SortKey(q, e, m)
    IN \E i \in 1 .. 4 : a[i] < b[i] /\ \A j \in 1 .. i - 1 : a[j] = b[j]

Best(q, e, S) == CHOOSE l \in S : \A m \in S \ {l} : Before(q, e, l, m)
Worst(q, e, S) == CHOOSE l \in S : \A m \in S \ {l} : Before(q, e, m, l)

In(S, s) == {l \in S : Scope[l] = s}
Using(S, c) == {l \in S : Cred[l] = c}
Drifting(S, e) == {l \in S : e[l].class = "Drift"}

\* Mutant: the share is rounded up to the whole cap.
DriftSlotsAll(cap) == IF Share = 0 \/ cap = 0 THEN 0 ELSE cap

\* drift_slots: the share of a scope's slots, at least one and, above one
\* slot, never all of them.
DriftSlots(cap) ==
    IF Share = 0 \/ cap = 0 THEN 0
    ELSE LET raw == (cap * (IF Share < 1000 THEN Share ELSE 1000)) \div 1000
             most == IF cap > 2 THEN cap - 1 ELSE 1
         IN IF raw < 1 THEN 1 ELSE IF raw > most THEN most ELSE raw

\* Caps::scope_cap: a cap some waiting leaf of the scope carries.
ScopeCap(q, e, s) ==
    LET caps == {e[l].cap : l \in In(DOMAIN q, s)} \ {NoCap}
    IN IF caps = {} THEN PerScope ELSE CHOOSE n \in caps : TRUE

EngineGlobal == IF Calibrate THEN 1 ELSE Global

\* admit, one candidate: does l fit beside the permits in use and the
\* better-ranked candidates A already admitted?
Fits(q, e, A, l) ==
    LET cap == ScopeCap(q, e, Scope[l]) IN
    /\ Cardinality(slots) + Cardinality(A) < EngineGlobal
    /\ Cardinality(In(slots, Scope[l])) + Cardinality(In(A, Scope[l])) < cap
    /\ e[l].class = "Drift" /\ Share > 0 =>
         Cardinality(In(drifts, Scope[l])) + Cardinality(In(Drifting(A, e), Scope[l]))
            < DriftSlots(cap)
    /\ Cred[l] # NoCred /\ PerCredential > 0 =>
         Cardinality(Using(creds, Cred[l])) + Cardinality(Using(A, Cred[l]))
            < PerCredential

\* admit: the candidates of q, best-ranked first, each taken if it fits.
Admitted(q, e) ==
    MapThenFoldSet(LAMBDA l, A : IF Fits(q, e, A, l) THEN A \cup {l} ELSE A,
                   {}, LAMBDA l : l, LAMBDA S : Worst(q, e, S), DOMAIN q)

-----------------------------------------------------------------------------
\* try_acquire_capped: the cap a scope has in the tree once cap was offered.
Registered(s, cap) ==
    IF cap # NoCap THEN cap ELSE IF treeCap[s] = NoCap THEN PerScope ELSE treeCap[s]

\* Mutant: no credential permit is taken.
WantsCredNever(l) == FALSE

\* The credential and the drift permit of an admitted leaf.
WantsCred(l) == Cred[l] # NoCred /\ PerCredential > 0
WantsDrift(class) == class = "Drift" /\ Share > 0

\* The three acquisitions.  BudgetTree::try_allocate: the narrowest of the
\* global and the registered cap binds.
Allocates(q, e, l) ==
    /\ Cardinality(slots) < Global
    /\ Cardinality(In(slots, Scope[l])) < Registered(Scope[l], e[l].cap)
    /\ WantsCred(l) => Cardinality(Using(creds, Cred[l])) < PerCredential
    /\ WantsDrift(e[l].class) =>
         Cardinality(In(drifts, Scope[l])) < DriftSlots(ScopeCap(q, e, Scope[l]))

Requeue(work) ==
    IF work = "DriftCheck" THEN DriftPoll ELSE IF Park THEN Fallback ELSE Poll

\* A reconcile starts: its requeue is due, or a wake or a watch event came.
Starts(l) == run[l] = "idle" /\ due[l] = 0

\* Mutant: a leaf that comes back keeps its woken mark.
InsertedStillWoken(l, class, cap) ==
    [seen |-> 0, class |-> class, cap |-> cap, woken |-> entry[l].woken]

Inserted(l, class, cap) ==
    [seen |-> 0, class |-> class, cap |-> cap, woken |-> FALSE]

\* Mutant: a newcomer shares the stamp of the last one in the queue.
EnqueuedBeside(l) ==
    [m \in DOMAIN Retained \cup {l} |->
        IF m \in DOMAIN Retained THEN Retained[m] ELSE Cardinality(DOMAIN Retained)]

\* A leaf that comes back keeps its since stamp, a newcomer is the youngest.
Enqueued(l) ==
    [m \in DOMAIN Retained \cup {l} |->
        IF m \in DOMAIN Retained THEN Retained[m] ELSE Cardinality(DOMAIN Retained) + 1]

\* LeafGate::admit, from dispatch_template_phase or admit_drift_check.
Ask(l) ==
    LET work == want[l]
        q == Enqueued(l)
        class == ClassOf(work, l \in blocked)
        cap == IF work = "DriftCheck" THEN NoCap ELSE CatalogCap[Scope[l]]
        e == [entry EXCEPT ![l] = Inserted(l, class, cap)]
        picked == l \in Admitted(q, e)
        granted == picked /\ Allocates(q, e, l)
    IN /\ Starts(l)
       /\ entry' = KeptEntries(q, e)
       /\ line' = IF granted THEN Ranked(q, DOMAIN q \ {l}) ELSE q
       /\ slots' = IF granted THEN slots \cup {l} ELSE slots
       /\ creds' = IF granted /\ WantsCred(l) THEN creds \cup {l} ELSE creds
       /\ drifts' = IF granted /\ WantsDrift(class) THEN drifts \cup {l} ELSE drifts
       /\ treeCap' = IF picked
                     THEN [treeCap EXCEPT ![Scope[l]] = Registered(Scope[l], cap)]
                     ELSE treeCap
       /\ run' = [run EXCEPT ![l] = IF granted THEN "running" ELSE "idle"]
       /\ due' = [due EXCEPT ![l] = IF granted THEN 0 ELSE Requeue(work)]
       /\ blocked' = IF work = "DriftCheck" THEN blocked ELSE blocked \ {l}
       /\ UNCHANGED <<want, mix>>

\* The leaves only sweep for drift: none is edited, fails or leaves the queue.
DriftOnly == \A l \in Leaves : mix[l] = {"DriftCheck"}

\* A reconcile that does not get as far as the gate: an upstream output is
\* missing (note_blocked), the leaf is rate limited, suspended or has moved on.
Defer(l, missing) ==
    /\ Starts(l)
    /\ l \in DOMAIN line => ~DriftOnly
    /\ due' \in {[due EXCEPT ![l] = d] : d \in {1, Fallback}}
    /\ blocked' = IF missing THEN blocked \cup {l} ELSE blocked
    /\ UNCHANGED <<line, entry, slots, creds, drifts, treeCap, run, want, mix>>

\* A spec edit, which makes it a change, or a ConfigMap event: the leaf is
\* reconciled at once.
Trigger(l) ==
    /\ due[l] > 0
    /\ due' = [due EXCEPT ![l] = 0]
    /\ \E w \in {want[l]} \cup ({"Change"} \cap mix[l]) : want' = [want EXCEPT ![l] = w]
    /\ UNCHANGED <<line, entry, slots, creds, drifts, treeCap, run, blocked, mix>>

(***************************************************************************)
(* The handler returns, or is preempted: LeafPermit is dropped, its fields *)
(* in their order of declaration.                                          *)
(***************************************************************************)
DropScope(l) ==
    /\ run[l] = "running"
    /\ slots' = slots \ {l}
    /\ run' = [run EXCEPT ![l] = "credential"]
    /\ UNCHANGED <<line, entry, creds, drifts, treeCap, due, blocked, want, mix>>

DropCredential(l) ==
    /\ run[l] = "credential"
    /\ creds' = creds \ {l}
    /\ run' = [run EXCEPT ![l] = "drift"]
    /\ UNCHANGED <<line, entry, slots, drifts, treeCap, due, blocked, want, mix>>

DropDrift(l) ==
    /\ run[l] = "drift"
    /\ drifts' = drifts \ {l}
    /\ run' = [run EXCEPT ![l] = "wake"]
    /\ UNCHANGED <<line, entry, slots, creds, treeCap, due, blocked, want, mix>>

\* The waiters a release wakes: the best-ranked of its own scope, and the
\* best-ranked of the others, up to WAKE_PER_RELEASE = 2.
Chosen(q, s) ==
    LET parked == {l \in DOMAIN q : ~entry[l].woken}
        first == IF In(parked, s) = {} THEN {} ELSE {Best(q, entry, In(parked, s))}
        second(S) == IF S = {} THEN {} ELSE {Best(q, entry, S)}
        one == first \cup second(parked \ first)
    IN IF Cardinality(one) < 2 THEN one \cup second(parked \ one) ELSE one

\* WakeOnRelease::drop; the names it sends reach reconcile_on.
Wake(l) ==
    LET q == IF Park THEN Retained ELSE line
        chosen == IF Park THEN Chosen(q, Scope[l]) ELSE {}
    IN /\ run[l] = "wake"
       /\ run' = [run EXCEPT ![l] = "idle"]
       /\ \E d \in {0, Fallback} :
            due' = [m \in Leaves |-> IF m = l THEN d ELSE IF m \in chosen THEN 0 ELSE due[m]]
       /\ line' = q
       /\ entry' = KeptEntries(q, [m \in Leaves |->
                                    IF m \in chosen
                                    THEN [entry[m] EXCEPT !.woken = TRUE, !.seen = 0]
                                    ELSE entry[m]])
       /\ \E w \in mix[l] : want' = [want EXCEPT ![l] = w]
       /\ UNCHANGED <<slots, creds, drifts, treeCap, blocked, mix>>

\* One unit of time passes; ages saturate at the longest time to live.
GateTick ==
    /\ Prompt => \A l \in Leaves : ~Starts(l) /\ run[l] \in {"idle", "running"}
    /\ entry' = [l \in Leaves |-> IF l \in DOMAIN line /\ Live(entry[l])
                                  THEN [entry[l] EXCEPT !.seen = @ + 1] ELSE entry[l]]
    /\ due' = [l \in Leaves |-> IF due[l] > 0 THEN due[l] - 1 ELSE 0]
    /\ UNCHANGED <<line, slots, creds, drifts, treeCap, run, blocked, want, mix>>

GateNext ==
    \/ GateTick
    \/ \E l \in Leaves :
         \/ Ask(l)
         \/ \E missing \in BOOLEAN : Defer(l, missing)
         \/ Trigger(l)
         \/ DropScope(l) \/ DropCredential(l) \/ DropDrift(l) \/ Wake(l)

GateSpec == GateInit /\ [][GateNext]_gateVars

(***************************************************************************)
(* Time passes; a reconcile that is due does not stay due for ever, and    *)
(* its handler returns or is preempted by the watchdog.                    *)
(***************************************************************************)
GateFairSpec ==
    /\ GateSpec
    /\ SF_gateVars(GateTick)
    /\ \A l \in Leaves : []<>(~Starts(l)) /\ []<>(run[l] = "idle")

-----------------------------------------------------------------------------
\* The gate's maps are well formed: the queue keeps one place per leaf, and
\* every age, class and cap of a Waiting record is one the code can store.
GateTypeOK ==
    /\ DOMAIN line \subseteq Leaves /\ line \in [DOMAIN line -> 1 .. Cardinality(DOMAIN line)]
    /\ \A l, m \in DOMAIN line : line[l] = line[m] => l = m
    /\ entry \in [Leaves -> [seen : 0 .. QueueTTL + WokenTTL + PollTTL, class : Classes,
                             cap : Nat \cup {NoCap}, woken : BOOLEAN]]
    /\ slots \subseteq Leaves /\ creds \subseteq Leaves /\ drifts \subseteq Leaves
    /\ treeCap \in [Scopes -> Nat \cup {NoCap}]
    /\ run \in [Leaves -> Runs]
    /\ due \in [Leaves -> Nat]
    /\ blocked \subseteq Leaves /\ want \in [Leaves -> Works]

(***************************************************************************)
(* The handlers at work never exceed a cap, although a permit is dropped   *)
(* field by field while other leaves ask: the global pool, each credential *)
(* and, whichever of its two caps a scope was asked with, each scope.      *)
(* (LeafGate::admit, FairBudget::try_acquire_capped, Drop for LeafPermit)  *)
(***************************************************************************)
AtWork == {l \in Leaves : run[l] = "running"}
WithinCaps ==
    /\ Cardinality(AtWork) <= Global
    /\ \A c \in Creds : PerCredential > 0 => Cardinality(Using(AtWork, c)) <= PerCredential
    /\ \A s \in Scopes : \/ Cardinality(In(AtWork, s)) <= PerScope
                        \/ Cardinality(In(AtWork, s)) <= CatalogCap[s]

(***************************************************************************)
(* docs/LEAVES.md: "Drift may hold at most `drift_share` of a scope's      *)
(* slots, so a change always finds a slot": drift work never holds all the *)
(* slots of a scope that has more than one.                                *)
(***************************************************************************)
SlotsOf(s) == IF CatalogCap[s] # NoCap THEN CatalogCap[s] ELSE PerScope
ChangeFindsSlot ==
    \A s \in Scopes :
        Share > 0 /\ SlotsOf(s) > 1 =>
            Cardinality(In(Drifting(AtWork, entry), s)) < SlotsOf(s)

(***************************************************************************)
(* With priorities on, a permit is never taken from a better class: a      *)
(* waiting leaf of a better class that could have been admitted just       *)
(* before the grant can still be admitted after it.  (order, admit)        *)
(***************************************************************************)
PriorityRespected ==
    [][\A l \in Leaves : run[l] = "idle" /\ run'[l] = "running" =>
         \A m \in Admitted(line', entry') :
             ClassRank[entry'[m].class] < ClassRank[entry'[l].class]
             => m \in Admitted(line, entry)']_gateVars

(***************************************************************************)
(* Among leaves that only do drift work,                                   *)
(* "parked until a slot frees (the gate wakes the best-ranked waiter on    *)
(* release; the requeue is only a fallback)": when a waiting leaf could be *)
(* admitted, a waiter is on its way or a release is about to wake one.     *)
(* That is so where the leaves share one pool.  A release wakes two: with  *)
(* several scopes both may be held up by their own, beside a third for     *)
(* whom a shared credential came free and who waits for its fallback.      *)
(***************************************************************************)
NoIdleSlot ==
    DriftOnly /\ Admitted(Retained, entry) # {} =>
        \E l \in Leaves : Starts(l) \/ run[l] \in {"credential", "drift", "wake"}

(***************************************************************************)
(* Among leaves that only do drift work, every one that waits is admitted  *)
(* eventually: "drift due, oldest first".                                  *)
(***************************************************************************)
DriftLeafAdmitted ==
    \A l \in Leaves : DriftOnly /\ l \in DOMAIN line ~> run[l] = "running"
=============================================================================
