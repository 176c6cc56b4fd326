---------------------------- MODULE TemplatePass ----------------------------
(***************************************************************************)
(* The reconcile pass of one InfrastructureTemplate: the pass record and   *)
(* the conditions in its status (template/pass.rs), the writers that race  *)
(* on them without a lock (template/pass_driver.rs, template/status.rs)    *)
(* and the registry that lets the watchdog abort a pass                    *)
(* (template/pass_registry.rs).                                            *)
(*                                                                         *)
(* The object is written by the user (spec edits), by the reconcile        *)
(* (adopt, begin, update_phase, finish_settled_pass), by its heartbeat     *)
(* task and by the watchdog, each from a copy it read earlier.  Only the   *)
(* adoption and the withdrawal of a heartbeatLost stall compare the        *)
(* resourceVersion; every other write is a merge patch that lands.         *)
(*                                                                         *)
(* A timestamp is kept as its age, so the model needs no clock: Tick ages  *)
(* every copy of every timestamp, and an age saturates one above the       *)
(* deadlines it is compared with.  Phase Compiling stands for Compiling    *)
(* and Initializing.  Every edit is material (it changes the spec digest); *)
(* the gates a pass meets on its way are not modelled here.                *)
(***************************************************************************)
EXTENDS Integers, FiniteSets, FiniteSetsExt

CONSTANTS
    Procs,         \* operator processes; each is one incarnation
    NoProc,        \* "no incarnation recorded"
    Lag,           \* may the reflector store lag behind the API server?
    Late,          \* may a patch land after its sender was aborted or died?
    Heartbeat,     \* Deadlines.heartbeat
    OrphanGrace,   \* Deadlines.orphan_grace
    PendingStart,  \* Deadlines.pending_start
    Backstop,      \* Deadlines.backstop
    MaxNudges,     \* MAX_NUDGES
    MaxGen,        \* bound: spec edits
    Faulty,        \* the kinds of faults that happen: "crash", "hang", "call"
    MaxFaults      \* bound: faults of these kinds

ASSUME PassAssumption ==
    /\ NoProc \notin Procs
    /\ {Lag, Late} \subseteq BOOLEAN
    /\ {Heartbeat, OrphanGrace, PendingStart, Backstop} \subseteq Nat
    /\ {MaxNudges, MaxFaults} \subseteq Nat /\ MaxGen \in Nat \ {0}
    /\ Faulty \subseteq {"crash", "hang", "call"}

VARIABLES
    obj,      \* the stored object: generation and status
    cache,    \* per process: the reflector store its reconciles read
    current,  \* the copies that carry the stored resourceVersion
    up,       \* per process: "new", "up" or "down"
    rec,      \* per process: its reconcile of the template
    beat,     \* per process: the heartbeat task of its PassGuard
    dog,      \* per process: its watchdog
    flight,   \* patches on the wire whose sender was aborted or died
    done,     \* auxiliary: highest generation a pass converged
    faults

vars == <<obj, cache, current, up, rec, beat, dog, flight, done, faults>>

-----------------------------------------------------------------------------
(***************************************************************************)
(* PassPhase and its stored form PassStatus.  A field the kind does not    *)
(* carry is None: to_status writes it as null, which clears it.  The       *)
(* start of a stall is left out: nothing but the display reads it.         *)
(***************************************************************************)
None == -1
Active == {"Planning", "Applying"}
Kinds == {"Unset", "Settled", "Pending", "Failed", "Stalled"} \cup Active
Stalls == {"none", "HeartbeatLost", "QueuedBehind", "PendingNotStarted",
           "OrphanedPhase", "Unnamed"}
Phases == {"Pending", "Compiling", "Planning", "Applying", "Ready", "Drifted", "Failed"}

Ages == 0 .. 1 + Max({Heartbeat, OrphanGrace, PendingStart, Backstop})
Older(a, deadline) == IF a = None \/ a > deadline THEN a ELSE a + 1

Larger(a, b) == IF a >= b THEN a ELSE b

Pass(kind, gen, since, hb, qgen, qsince, stall, inc) ==
    [kind |-> kind, gen |-> gen, since |-> since, hb |-> hb,
     qgen |-> qgen, qsince |-> qsince, stall |-> stall, inc |-> inc]

Settled(g, p) == Pass("Settled", g, None, None, None, None, "none", p)
Failed(g, p) == Pass("Failed", g, None, None, None, None, "none", p)
Pending(g, age, p) == Pass("Pending", g, age, None, None, None, "none", p)
Stalled(g, why, p) == Pass("Stalled", g, None, None, None, None, why, p)
Unset == Pass("Unset", 0, None, None, None, None, "none", NoProc)

\* entering: the pass of a template that enters a phase.
Entering(phase, g, prev, p) ==
    LET since(kind) == IF prev.kind = kind /\ prev.gen = g THEN prev.since ELSE 0
        running(kind) ==
            Pass(kind, g, since(kind), 0, prev.qgen, prev.qsince, "none", p)
    IN CASE phase \in {"Ready", "Drifted"} -> Settled(g, p)
         [] phase = "Failed" -> Failed(g, p)
         [] phase \in {"Compiling", "Planning"} -> running("Planning")
         [] phase = "Applying" -> running("Applying")
         [] phase = "Pending" -> Pending(g, since("Pending"), p)

\* observe: the pass once the live generation is known.
Observe(s, live) ==
    CASE live <= s.gen /\ s.qgen # None /\ s.qgen <= s.gen ->
           [s EXCEPT !.qgen = None, !.qsince = None]
      [] live <= s.gen /\ (s.qgen = None \/ s.qgen > s.gen) -> s
      [] live > s.gen /\ s.kind \in {"Settled", "Failed"} -> Pending(live, 0, s.inc)
      [] live > s.gen /\ s.kind \in Active ->
           [s EXCEPT !.qgen = live, !.qsince = IF @ = None THEN 0 ELSE @]
      [] live > s.gen /\ s.kind \in {"Pending", "Stalled"} -> [s EXCEPT !.gen = live]

\* named_stall: an active pass of another incarnation that stopped beating.
\* (NoProgress needs a status.progress record, which nothing writes.)
Named(s, p) ==
    IF s.kind \in Active /\ s.inc # p /\ s.hb > OrphanGrace
    THEN Stalled(s.gen, "OrphanedPhase", p)
    ELSE s

\* watchdog: the deadlines of a pass, the first that is passed naming it.
Watchdog(s, p) ==
    LET queued == s.qgen # None IN
    CASE s.kind \in Active /\ s.hb > Heartbeat ->
           Stalled(IF queued THEN s.qgen ELSE s.gen, "HeartbeatLost", p)
      [] s.kind \in Active /\ s.hb <= Heartbeat /\ queued /\ s.qsince > PendingStart ->
           Stalled(s.qgen, "QueuedBehind", p)
      [] s.kind \in Active /\ s.hb <= Heartbeat
           /\ ~(queued /\ s.qsince > PendingStart) /\ s.since > Backstop ->
           Stalled(s.gen, "Unnamed", p)
      [] s.kind = "Pending" /\ s.since > PendingStart ->
           Stalled(s.gen, "PendingNotStarted", p)
      [] OTHER -> s

\* PassPhase::observed_generation.
ObservedBy(s, previous) ==
    IF s.kind \in {"Settled", "Failed"} THEN Larger(s.gen, previous) ELSE previous

\* StallState::redispatches.
Redispatches == {"PendingNotStarted", "HeartbeatLost", "OrphanedPhase"}

(***************************************************************************)
(* ConditionSet::project, for the two conditions that matter here: Ready   *)
(* (its status and its observedGeneration) and Stalled.                    *)
(***************************************************************************)
MayClaimGood(pass, observed, live) ==
    observed >= live /\ pass.kind \notin {"Stalled", "Failed"}

Project(o, ready, pass, observed, live) ==
    [o EXCEPT !.pass = pass, !.observed = observed, !.og = live,
              !.ready = ready /\ MayClaimGood(pass, observed, live),
              !.stalled = (pass.kind = "Stalled")]

\* Mutant: the live generation is acknowledged, not the one that ran.
PhaseWriteLive(s, phase, live, p) ==
    LET pass == Observe(Entering(phase, s.gen, s.pass, p), live) IN
    Project([s EXCEPT !.phase = phase, !.acked = live], phase = "Ready",
            pass, ObservedBy(pass, s.observed), live)

\* update_phase and update_phase_with_error: what they write, from the
\* snapshot s and the live generation.
PhaseWrite(s, phase, live, p) ==
    LET pass == Observe(Entering(phase, s.gen, s.pass, p), live) IN
    Project([s EXCEPT !.phase = phase, !.acked = s.gen], phase = "Ready",
            pass, ObservedBy(pass, s.observed), live)

\* PassGuard::begin writes only the pass.
BeginWrite(s, phase, live, p) ==
    [s EXCEPT !.pass = Observe(Entering(phase, s.gen, s.pass, p), live)]

\* finish_settled_pass, from the snapshot s and the fresh object base.
SettleWrite(s, base, live, p) ==
    LET since == IF base.pass.qgen # None THEN base.pass.qsince ELSE 0
        pass == IF live > s.gen THEN Pending(live, since, p) ELSE Settled(s.gen, p)
    IN Project(base, TRUE, pass, Larger(base.observed, s.gen), live)

\* The fields each patch names; the others keep their stored values.
Patched(o, todo, w) ==
    CASE todo = "begin" -> [o EXCEPT !.pass = w.pass]
      [] todo = "settle" -> [w EXCEPT !.gen = o.gen, !.phase = o.phase, !.acked = o.acked]
      [] todo = "phase" -> [w EXCEPT !.gen = o.gen]

\* project_status and projection_patch: the watchdog writes the fields whose
\* projection differs from its snapshot, the whole pass when the kind does.
Projection(s, p) ==
    LET pass == Watchdog(Observe(Named(s.pass, p), s.gen), p) IN
    Project(s, s.ready, pass, ObservedBy(pass, s.observed), s.gen)

Keep == -2
NoPatch == [pass |-> Unset, gen |-> Keep, qgen |-> Keep, qsince |-> Keep,
            observed |-> Keep, conds |-> <<>>]

ProjectionPatch(s, w, p) ==
    LET same == s.pass.kind = w.pass.kind
        field(f) == IF same /\ s.pass[f] # w.pass[f] THEN w.pass[f] ELSE Keep
        conds(o) == <<o.ready, o.og, o.stalled>>
    IN [pass |-> IF same THEN Unset ELSE [w.pass EXCEPT !.inc = p],
        gen |-> field("gen"), qgen |-> field("qgen"), qsince |-> field("qsince"),
        observed |-> IF s.observed # w.observed THEN w.observed ELSE Keep,
        conds |-> IF conds(s) # conds(w) THEN conds(w) ELSE <<>>]

Merged(old, new) == IF new = Keep THEN old ELSE new

Projected(o, w) ==
    LET pass == IF w.pass # Unset THEN w.pass ELSE
                [o.pass EXCEPT !.gen = Merged(@, w.gen), !.qgen = Merged(@, w.qgen),
                               !.qsince = Merged(@, w.qsince)]
        conds == w.conds # <<>>
    IN [o EXCEPT !.pass = pass, !.observed = Merged(@, w.observed),
                 !.ready = IF conds THEN w.conds[1] ELSE @,
                 !.og = IF conds THEN w.conds[2] ELSE @,
                 !.stalled = IF conds THEN w.conds[3] ELSE @]

-----------------------------------------------------------------------------
(***************************************************************************)
(* State.  rec[p].pc: "idle", "read" (about to read the live generation    *)
(* for the write todo), "put" (the write is on its way) or "work"          *)
(* (compiling, planning, applying or the plan of a drift check).           *)
(***************************************************************************)
NewObj == [gen |-> 1, phase |-> "Pending", acked |-> 0, observed |-> 0,
           ready |-> FALSE, og |-> 0, stalled |-> FALSE, pass |-> Unset]
NoObj == [NewObj EXCEPT !.gen = 0]

Idle == [pc |-> "idle", snap |-> NoObj, todo |-> "none", to |-> "Pending",
         out |-> NoObj, sign |-> None, hung |-> FALSE]
Quiet == [mode |-> "off", due |-> FALSE, owned |-> Unset]
Resting == [listed |-> FALSE, patch |-> NoPatch, stall |-> "none",
            nudging |-> FALSE, nudges |-> 0, last |-> None]

Init ==
    /\ obj = NewObj
    /\ cache = [p \in Procs |-> NoObj]
    /\ current = {}
    /\ up = [p \in Procs |-> "new"]
    /\ rec = [p \in Procs |-> Idle]
    /\ beat = [p \in Procs |-> Quiet]
    /\ dog = [p \in Procs |-> Resting]
    /\ flight = {}
    /\ done = 0 /\ faults = 0

Fault(kind) == kind \in Faulty /\ faults < MaxFaults /\ faults' = faults + 1

\* Every write gives the object a new resourceVersion.
Write(o) == obj' = o /\ current' = {}

At(p, pc) == up[p] = "up" /\ rec[p].pc = pc /\ ~rec[p].hung
Step(p, r) == rec' = [rec EXCEPT ![p] = r]

-----------------------------------------------------------------------------
(* The user and the API server. *)

Edit ==
    /\ obj.gen < MaxGen
    /\ Write([obj EXCEPT !.gen = @ + 1])
    /\ UNCHANGED <<cache, up, rec, beat, dog, flight, done, faults>>

\* The fields of a cached copy that a reconcile reads.
Seen(o) == [o EXCEPT !.ready = FALSE, !.og = 0, !.stalled = FALSE, !.pass.hb = None]

Deliver(p) ==
    /\ Lag /\ up[p] = "up" /\ <<"cache", p>> \notin current
    /\ cache' = [cache EXCEPT ![p] = Seen(obj)]
    /\ current' = current \cup {<<"cache", p>>}
    /\ UNCHANGED <<obj, up, rec, beat, dog, flight, done, faults>>

\* A patch whose sender is gone reaches the API server after all.
Land(f) ==
    /\ flight' = flight \ {f}
    /\ Write(Patched(obj, f.todo, f.out))
    /\ UNCHANGED <<cache, up, rec, beat, dog, done, faults>>

\* One unit of time.  No call to the API server lasts that long (one that
\* would is a failed call, or a patch in flight); a heartbeat task beats once
\* per unit.
AgedPass(s) ==
    [s EXCEPT !.since = Older(@, Larger(PendingStart, Backstop)),
              !.hb = Older(@, Larger(Heartbeat, OrphanGrace)),
              !.qsince = Older(@, PendingStart)]
Aged(o) == [o EXCEPT !.pass = AgedPass(@)]

Calling(p) ==
    \/ rec[p].pc \in {"read", "put"}
    \/ beat[p].mode \in {"withdraw", "late"} \/ beat[p].due
    \/ dog[p].listed \/ dog[p].nudging

Tick ==
    /\ flight = {} /\ \A p \in Procs : ~Calling(p)
    /\ obj' = Aged(obj)
    /\ cache' = [p \in Procs |-> Aged(cache[p])]
    /\ rec' = [p \in Procs |-> [rec[p] EXCEPT !.snap = Aged(@),
                                                !.sign = Older(@, Heartbeat)]]
    /\ beat' = [p \in Procs |-> [beat[p] EXCEPT !.owned = AgedPass(@),
                                                !.due = (beat[p].mode = "on")]]
    /\ dog' = [p \in Procs |-> [dog[p] EXCEPT !.last = Older(@, 0)]]
    /\ UNCHANGED <<current, up, flight, done, faults>>

-----------------------------------------------------------------------------
(* Processes. *)

Boot(p) ==
    /\ up[p] = "new"
    /\ \A q \in Procs : up[q] # "up"
    /\ up' = [up EXCEPT ![p] = "up"]
    /\ cache' = [cache EXCEPT ![p] = IF Lag THEN Seen(obj) ELSE NoObj]
    /\ current' = IF Lag THEN current \cup {<<"cache", p>>} ELSE current
    /\ UNCHANGED <<obj, rec, beat, dog, flight, done, faults>>

\* PassGuard::drop aborts the heartbeat task; a withdrawal already sent may
\* still land.
Hushed(p) ==
    {Quiet} \cup (IF Late /\ beat[p].mode \in {"withdraw", "late"}
                  THEN {[beat[p] EXCEPT !.mode = "late"]} ELSE {})
Hush(p) == \E b \in Hushed(p) : beat' = [beat EXCEPT ![p] = b]

\* The future of a reconcile is dropped; a patch already sent may still land.
InFlight(p) ==
    \/ flight' = flight
    \/ /\ Late /\ rec[p].pc = "put" /\ flight = {}
       /\ flight' = {[todo |-> rec[p].todo, out |-> rec[p].out]}

Crash(p) ==
    /\ up[p] = "up" /\ Fault("crash")
    /\ up' = [up EXCEPT ![p] = "down"]
    /\ cache' = [cache EXCEPT ![p] = NoObj]
    /\ current' = current \ {<<"cache", p>>}
    /\ Step(p, Idle)
    /\ Hush(p)
    /\ dog' = [dog EXCEPT ![p] = Resting]
    /\ InFlight(p)
    /\ UNCHANGED <<obj, done>>

-----------------------------------------------------------------------------
(* The reconcile. *)

\* orphaned_by_restart, and the write of adopt_orphaned_pass.
Orphaned(s, p) ==
    \/ s.kind \in Active /\ s.inc # p
    \/ s.kind = "Stalled" /\ s.stall = "OrphanedPhase"

\* Mutant: the adoption patch carries no resourceVersion.
CanAdoptAlways(p) == TRUE

\* The reflector store's copy, and whether it carries the stored version.
Cached(p) == IF Lag THEN cache[p] ELSE obj
CanAdopt(p) == Lag => <<"cache", p>> \in current

\* Mutant: an edit one generation ahead is not seen.
SpecChangedLate(s) == s.gen > s.acked + 1 /\ s.phase # "Pending"

\* reconcile_template on its snapshot: a changed spec restarts from Pending;
\* otherwise the handler of the phase, up to its first write, or its error,
\* which is recorded as Failed.
SpecChanged(s) == s.gen > s.acked /\ s.phase # "Pending"

FirstWrites ==
    [Pending |-> {<<"phase", "Compiling">>}, Compiling |-> {<<"work", "Compiling">>},
     Planning |-> {<<"begin", "Planning">>}, Applying |-> {<<"begin", "Applying">>},
     Ready |-> {<<"begin", "Planning">>, <<"phase", "Compiling">>},
     Drifted |-> {<<"phase", "Planning">>}, Failed |-> {<<"phase", "Pending">>}]

Handler(s) ==
    IF SpecChanged(s) THEN {<<"phase", "Pending">>}
    ELSE FirstWrites[s.phase] \cup {<<"phase", "Failed">>}

\* The fields of the snapshot that the rest of the reconcile reads.
Kept(s) == [Seen(s) EXCEPT !.acked = 0, !.pass.stall = "none", !.pass.inc = NoProc]

\* The run closure: adopt an orphaned pass if the cached copy still carries
\* the stored resourceVersion, register in PassRegistry and go on with the
\* copy as it was read, also when the adoption failed.
Start(p) ==
    /\ At(p, "idle")
    /\ LET s == Cached(p) IN
       /\ \E h \in Handler(s) :
            Step(p, [Idle EXCEPT !.pc = IF h[1] = "work" THEN "work" ELSE "read",
                                 !.todo = h[1], !.to = h[2], !.snap = Kept(s),
                                 !.sign = 0])
       /\ \/ /\ Orphaned(s.pass, p) /\ CanAdopt(p)
             /\ Write([obj EXCEPT !.pass = Pending(s.pass.gen, 0, p)])
          \/ /\ ~(Orphaned(s.pass, p) /\ CanAdopt(p)) \/ "call" \in Faulty
             /\ UNCHANGED <<obj, current>>
    /\ UNCHANGED <<cache, up, beat, dog, flight, done, faults>>

\* live_generation and fresh_template: a failed read falls back to the
\* snapshot.
Composed(p, fresh) ==
    LET r == rec[p]
        live == Larger(fresh.gen, r.snap.gen)
    IN CASE r.todo = "begin" -> BeginWrite(r.snap, r.to, live, p)
         [] r.todo = "phase" -> PhaseWrite(r.snap, r.to, live, p)
         [] r.todo = "settle" -> SettleWrite(r.snap, fresh, live, p)

Read(p) ==
    /\ At(p, "read")
    /\ \E fresh \in {obj, rec[p].snap} :
         /\ IF fresh = obj THEN UNCHANGED faults ELSE Fault("call")
         /\ Step(p, [rec[p] EXCEPT !.pc = "put", !.out = Composed(p, fresh)])
    /\ UNCHANGED <<obj, cache, current, up, beat, dog, flight, done>>

\* What the reconcile does once its patch returned.  PassGuard::begin and
\* finish_settled_pass go on whether or not it landed: to the work under the
\* guard, or to judge the drift the check found (none, drift or stuck drift).
Begun(p, landed) ==
    /\ Step(p, [rec[p] EXCEPT !.pc = "work", !.todo = "work", !.out = NoObj,
                    !.sign = IF landed THEN rec[p].out.pass.hb ELSE @])
    /\ beat' = [beat EXCEPT ![p] = [mode |-> "on", due |-> FALSE,
                                    owned |-> [rec[p].out.pass EXCEPT !.hb = None]]]
Onward(p, to) ==
    Step(p, [rec[p] EXCEPT !.pc = "read", !.todo = "phase", !.to = to, !.out = NoObj])
SettleDone(p) ==
    /\ \/ Step(p, Idle)
       \/ \E to \in {"Drifted", "Failed"} : Onward(p, to)
    /\ UNCHANGED beat

\* A phase written ends the handler; one that could not be written is an
\* error, recorded as Failed unless it was that record, or the reset of a
\* changed spec, that failed.
PhaseDone(p) == Step(p, Idle) /\ Hush(p)
PhaseFailed(p) ==
    /\ \/ rec[p].to \in {"Pending", "Failed"} /\ Step(p, Idle)
       \/ /\ rec[p].to # "Pending" \/ rec[p].snap.phase = "Failed"
          /\ Onward(p, "Failed")
    /\ Hush(p)

Returned(p, landed) ==
    \/ rec[p].todo = "begin" /\ Begun(p, landed)
    \/ rec[p].todo = "settle" /\ SettleDone(p)
    \/ rec[p].todo = "phase" /\ IF landed THEN PhaseDone(p) ELSE PhaseFailed(p)

Put(p) ==
    /\ At(p, "put")
    /\ \/ Write(Patched(obj, rec[p].todo, rec[p].out)) /\ Returned(p, TRUE)
          /\ UNCHANGED faults
       \/ Fault("call") /\ Returned(p, FALSE) /\ UNCHANGED <<obj, current>>
    /\ UNCHANGED <<cache, up, dog, flight, done>>

\* The work ends.  A drift check (phase Ready) drops its guard before it
\* records the settlement; the other handlers hold theirs to the end.
Outcomes(s) ==
    CASE s.phase = "Compiling" -> {<<"phase", "Planning">>, <<"phase", "Failed">>}
      [] s.phase = "Planning" -> {<<"phase", "Applying">>, <<"phase", "Ready">>,
                                  <<"phase", "Failed">>}
      [] s.phase = "Applying" -> {<<"phase", "Ready">>, <<"phase", "Failed">>}
      [] s.phase = "Ready" -> {<<"settle", "Ready">>, <<"phase", "Failed">>}

Complete(p) ==
    /\ At(p, "work")
    /\ \E h \in Outcomes(rec[p].snap) :
          /\ Step(p, [rec[p] EXCEPT !.pc = "read", !.todo = h[1], !.to = h[2]])
          /\ IF rec[p].snap.phase = "Ready" THEN Hush(p) ELSE UNCHANGED beat
          /\ done' = IF h[2] = "Ready" THEN Larger(done, rec[p].snap.gen) ELSE done
    /\ UNCHANGED <<obj, cache, current, up, dog, flight, faults>>

\* The work never returns; its heartbeat task beats on, or is stuck too.
Hang(p) ==
    /\ At(p, "work") /\ Fault("hang")
    /\ Step(p, [rec[p] EXCEPT !.hung = TRUE])
    /\ beat' \in {beat, [beat EXCEPT ![p] = Quiet]}
    /\ UNCHANGED <<obj, cache, current, up, dog, flight, done>>

-----------------------------------------------------------------------------
(* The heartbeat task: beat_once. *)

Lost(s) == s.kind = "Stalled" /\ s.stall = "HeartbeatLost"
Beaten(o) == IF o.pass.kind \in Active THEN [o EXCEPT !.pass.hb = 0] ELSE o

Beat(p) ==
    /\ up[p] = "up" /\ beat[p].mode = "on"
    /\ obj' = Beaten(obj)
    /\ IF Lost(obj.pass)
       THEN /\ beat' = [beat EXCEPT ![p].mode = "withdraw", ![p].due = FALSE]
            /\ current' = {<<"beat", p>>}
            /\ UNCHANGED rec
       ELSE /\ beat' = [beat EXCEPT ![p].due = FALSE]
            /\ current' = {}
            /\ rec' = [rec EXCEPT ![p].sign = 0]
    /\ UNCHANGED <<cache, up, dog, flight, done, faults>>

BeatFails(p) ==
    /\ up[p] = "up" /\ beat[p].due /\ Fault("call")
    /\ beat' = [beat EXCEPT ![p].due = FALSE]
    /\ UNCHANGED <<obj, cache, current, up, rec, dog, flight, done>>

\* Mutant: the withdrawal carries no resourceVersion.
CanWithdrawAlways(p) == TRUE

\* The withdrawal carries the resourceVersion the beat returned.
CanWithdraw(p) == <<"beat", p>> \in current

Withdraw(p) ==
    /\ beat[p].mode \in {"withdraw", "late"}
    /\ IF CanWithdraw(p)
       THEN Write([obj EXCEPT !.pass = [beat[p].owned EXCEPT !.hb = 0]])
       ELSE UNCHANGED <<obj, current>>
    /\ IF beat[p].mode = "withdraw"
       THEN /\ beat' = [beat EXCEPT ![p].mode = "on"]
            /\ rec' = [rec EXCEPT ![p].sign = 0]
       ELSE /\ beat' = [beat EXCEPT ![p] = Quiet]
            /\ UNCHANGED rec
    /\ UNCHANGED <<cache, up, dog, flight, done, faults>>

-----------------------------------------------------------------------------
(* The watchdog: run_watchdog and watch_one. *)

\* The list, and the projection of the copy it returned; one that changes
\* nothing and shows no stall needs no second step.
List(p) ==
    /\ up[p] = "up" /\ ~dog[p].listed /\ ~dog[p].nudging /\ obj.pass.kind # "Unset"
    /\ LET w == Projection(obj, p)
           patch == ProjectionPatch(obj, w, p)
           stall == IF w.pass.kind = "Stalled" THEN w.pass.stall ELSE "none"
           d == IF stall = "none" THEN Resting ELSE dog[p]
       IN dog' = [dog EXCEPT ![p] =
                    IF patch = NoPatch /\ stall = "none" THEN d
                    ELSE [d EXCEPT !.listed = TRUE, !.patch = patch, !.stall = stall]]
    /\ UNCHANGED <<obj, cache, current, up, rec, beat, flight, done, faults>>

\* Mutant: the nudges are not counted against MAX_NUDGES.
NudgeAlways(d) == d.last = None \/ d.last >= 1

\* nudge_due, the backoff between two nudges being at least one unit.
NudgeDue(d) == d.nudges < MaxNudges /\ (d.last = None \/ d.last >= 1)

\* Mutant: the sign of life of the local pass is not consulted.
StuckAlways(p) == rec[p].pc # "idle"

\* local_pass_is_stuck: no sign of life within the heartbeat deadline.
Stuck(p) == rec[p].pc # "idle" /\ rec[p].sign > Heartbeat

\* watch_one: write the projection; a stall that a fresh pass cures is nudged
\* when a nudge is due, unless the write failed.
Judge(p) ==
    /\ up[p] = "up" /\ dog[p].listed
    /\ LET d == [Resting EXCEPT !.nudges = dog[p].nudges, !.last = dog[p].last] IN
       \/ /\ IF dog[p].patch = NoPatch
             THEN UNCHANGED <<obj, current>>
             ELSE Write(Projected(obj, dog[p].patch))
          /\ dog' = [dog EXCEPT ![p] =
                [d EXCEPT !.nudging = (dog[p].stall \in Redispatches /\ NudgeDue(d))]]
          /\ UNCHANGED faults
       \/ /\ dog[p].patch # NoPatch /\ Fault("call")
          /\ dog' = [dog EXCEPT ![p] = d]
          /\ UNCHANGED <<obj, current>>
    /\ UNCHANGED <<cache, up, rec, beat, flight, done>>

\* redispatch: abort the pass of this process if it is stuck; the annotation
\* it then writes changes nothing but the resourceVersion, and a nudge whose
\* annotation failed is not counted.
Nudge(p) ==
    /\ up[p] = "up" /\ dog[p].nudging
    /\ IF Stuck(p)
       THEN Step(p, Idle) /\ Hush(p) /\ InFlight(p)
       ELSE UNCHANGED <<rec, beat, flight>>
    /\ LET d == [dog[p] EXCEPT !.nudging = FALSE]
           counted == [d EXCEPT !.nudges = @ + 1,
                                !.last = IF d.nudges + 1 < MaxNudges THEN 0 ELSE None]
       IN \/ dog' = [dog EXCEPT ![p] = counted] /\ current' = {} /\ UNCHANGED faults
          \/ Fault("call") /\ dog' = [dog EXCEPT ![p] = d] /\ UNCHANGED current
    /\ UNCHANGED <<obj, cache, up, done>>

-----------------------------------------------------------------------------
Reconcile(p) ==
    Start(p) \/ Read(p) \/ Put(p) \/ Complete(p)

Next ==
    \/ Edit
    \/ Tick
    \/ \E f \in flight : Land(f)
    \/ \E p \in Procs :
         \/ Boot(p) \/ Crash(p) \/ Deliver(p)
         \/ Start(p) \/ Read(p) \/ Put(p) \/ Complete(p) \/ Hang(p)
         \/ Beat(p) \/ BeatFails(p) \/ Withdraw(p)
         \/ List(p) \/ Judge(p) \/ Nudge(p)

Spec == Init /\ [][Next]_vars

\* A process is started, and a reconcile that can go on does; the clock, the
\* heartbeat and the watchdog may stop for ever.
FairSpec == Spec /\ \A p \in Procs : WF_vars(Boot(p)) /\ WF_vars(Reconcile(p))

-----------------------------------------------------------------------------
Gens == 0 .. MaxGen
PassType == [kind : Kinds, gen : Gens, since : Ages \cup {None}, hb : Ages \cup {None},
             qgen : Gens \cup {None}, qsince : Ages \cup {None}, stall : Stalls,
             inc : Procs \cup {NoProc}]
ObjType == [gen : Gens, phase : Phases, acked : Gens, observed : Gens,
            ready : BOOLEAN, og : Gens, stalled : BOOLEAN, pass : PassType]

\* Types; the watchdog's nudges of one stall stay within MAX_NUDGES.
TypeOK ==
    /\ obj \in ObjType
    /\ cache \in [Procs -> ObjType]
    /\ current \subseteq {"cache", "beat"} \X Procs
    /\ up \in [Procs -> {"new", "up", "down"}]
    /\ \A p \in Procs :
         /\ rec[p].pc \in {"idle", "read", "put", "work"}
         /\ rec[p].todo \in {"none", "work", "begin", "phase", "settle"}
         /\ rec[p].to \in Phases /\ rec[p].sign \in Ages \cup {None}
         /\ rec[p].snap \in ObjType /\ rec[p].out \in ObjType
         /\ beat[p].mode \in {"off", "on", "withdraw", "late"}
         /\ beat[p].owned \in PassType
         /\ dog[p].nudges \in 0 .. MaxNudges /\ dog[p].stall \in Stalls

\* A template that reads Ready or Drifted acknowledges (acknowledgedGeneration)
\* only a generation some pass converged: update_phase writes the generation
\* of its snapshot, never the live one, however edits and the writes of the
\* heartbeat and of the watchdog interleave with it.
AckIsEarned == obj.phase \in {"Ready", "Drifted"} => obj.acked <= done

\* Only the reconcile itself (or a patch it left on the wire) turns a pass
\* that has ended, or was reset to Pending, into a running one: beat_once and
\* its withdrawal, and the watchdog's projection, never do, even when they
\* act on a copy read before the pass ended.
FinishedNotResurrected ==
    [][(obj.pass.kind \in {"Settled", "Failed", "Pending"} /\ obj'.pass.kind \in Active)
        => \/ \E p \in Procs : rec[p].pc = "put" /\ rec'[p].pc # "put"
           \/ flight' # flight]_vars

\* adopt_orphaned_pass replaces a pass that is orphaned in the stored object,
\* not only in the reflector's copy it was judged on.
AdoptsOnlyOrphans ==
    [][\A p \in Procs :
         (rec[p].pc = "idle" /\ rec'[p].pc # "idle" /\ obj'.pass # obj.pass)
         => Orphaned(obj.pass, p)]_vars

\* The watchdog's redispatch aborts no pass that works under a PassGuard
\* unless an API call failed or the work hung (each crash takes one process
\* down, so more faults than processes down means another kind of fault): a
\* verdict on the record a dead process left does not abort the pass of its
\* successor.
BeatingPassNotAborted ==
    [][\A p \in Procs :
         (rec[p].pc = "work" /\ beat[p].mode # "off" /\ rec'[p] = Idle /\ up'[p] = "up")
         => faults > Cardinality({q \in Procs : up[q] = "down"})]_vars

\* Every spec edit is eventually acknowledged by a reconcile that started
\* from it, whatever phase the template was in when it arrived.
EditAcknowledged == (obj.gen > obj.acked) ~> (obj.acked = obj.gen)
=============================================================================
