------------------------- MODULE TemplatePassProofs -------------------------
(***************************************************************************)
(* Proofs about TemplatePass for any processes, deadlines and bounds.      *)
(***************************************************************************)
EXTENDS TemplatePass, FiniteSetTheorems, TLAPS

-----------------------------------------------------------------------------
(* Types of the records the model passes around. *)

RecType == [pc : {"idle", "read", "put", "work"}, snap : ObjType,
            todo : {"none", "work", "begin", "phase", "settle"}, to : Phases,
            out : ObjType, sign : Ages \cup {None}, hung : BOOLEAN]
BeatType == [mode : {"off", "on", "withdraw", "late"}, due : BOOLEAN, owned : PassType]
PatchType == [pass : PassType, gen : Gens \cup {Keep}, qgen : Gens \cup {None, Keep},
              qsince : Ages \cup {None, Keep}, observed : Gens \cup {Keep},
              conds : {<<>>} \cup (BOOLEAN \X Gens \X BOOLEAN)]
DogType == [listed : BOOLEAN, patch : PatchType, stall : Stalls, nudging : BOOLEAN,
            nudges : 0 .. MaxNudges, last : {None, 0, 1}]
FlightType == [todo : {"begin", "phase", "settle"}, out : ObjType]

\* The deadlines and bounds are numbers.
LEMMA Numbers ==
    /\ Heartbeat \in Nat /\ OrphanGrace \in Nat /\ PendingStart \in Nat /\ Backstop \in Nat
    /\ MaxNudges \in Nat /\ MaxGen \in Nat /\ MaxGen > 0 /\ MaxFaults \in Nat
    /\ None = -1 /\ Keep = -2
BY PassAssumption DEF None, Keep

\* An age counts up to one above the deadline it is compared with.
LEMMA AgesFacts ==
    /\ 0 \in Ages /\ Ages \subseteq Nat
    /\ \A a \in Ages \cup {None} :
         /\ Older(a, Larger(PendingStart, Backstop)) \in Ages \cup {None}
         /\ Older(a, Larger(Heartbeat, OrphanGrace)) \in Ages \cup {None}
         /\ Older(a, PendingStart) \in Ages \cup {None}
         /\ Older(a, Heartbeat) \in Ages \cup {None}
<1> DEFINE D == {Heartbeat, OrphanGrace, PendingStart, Backstop}
<1>1. \E x \in D : \A y \in D : x >= y
  BY Numbers
<1>2. Max(D) \in D /\ \A y \in D : Max(D) >= y
  BY <1>1 DEF Max
<1>3. /\ Max(D) \in Nat /\ Max(D) >= Heartbeat /\ Max(D) >= OrphanGrace
      /\ Max(D) >= PendingStart /\ Max(D) >= Backstop
  BY <1>2, Numbers
<1>4. Ages = 0 .. 1 + Max(D)
  BY DEF Ages
<1> HIDE DEF D
<1> QED BY <1>3, <1>4, Numbers DEF Older, Larger

\* The generation a write compares with is one of the two it knows.
LEMMA LargerGen ==
    ASSUME NEW a \in Gens, NEW b \in Gens
    PROVE  Larger(a, b) \in Gens /\ Larger(a, b) >= a /\ Larger(a, b) >= b
BY Numbers DEF Larger, Gens

\* A pass that ages stays a pass, and of its kind.
LEMMA AgedPassType ==
    ASSUME NEW s \in PassType
    PROVE  /\ AgedPass(s) \in PassType
           /\ AgedPass(s).kind = s.kind /\ AgedPass(s).stall = s.stall
           /\ AgedPass(s).inc = s.inc /\ AgedPass(s).gen = s.gen
           /\ AgedPass(s).hb = Older(s.hb, Larger(Heartbeat, OrphanGrace))
BY AgesFacts DEF AgedPass, PassType

\* The four constructors of a pass that is not running.
LEMMA RestingTypes ==
    ASSUME NEW g \in Gens, NEW age \in Ages, NEW p \in Procs \cup {NoProc}, NEW why \in Stalls
    PROVE  /\ Settled(g, p) \in PassType /\ Failed(g, p) \in PassType
           /\ Pending(g, age, p) \in PassType /\ Stalled(g, why, p) \in PassType
BY AgesFacts DEF Settled, Failed, Pending, Stalled, Pass, PassType, Kinds, Stalls

\* entering gives a running pass a fresh heartbeat, and only a running phase
\* a running pass.
LEMMA EnteringType ==
    ASSUME NEW phase \in Phases, NEW g \in Gens, NEW prev \in PassType,
           NEW p \in Procs
    PROVE  /\ Entering(phase, g, prev, p) \in PassType
           /\ Entering(phase, g, prev, p).gen = g
           /\ Entering(phase, g, prev, p).kind # "Unset"
           /\ phase \in {"Planning", "Applying"} =>
                 Entering(phase, g, prev, p).kind \in Active /\ Entering(phase, g, prev, p).hb = 0
<1> USE DEF Phases
<1>1. CASE phase \in {"Ready", "Drifted", "Failed"}
  BY <1>1, AgesFacts DEF Entering, Settled, Failed, Pass, PassType, Kinds, Stalls
<1>2. CASE phase \in {"Compiling", "Planning", "Applying"}
  BY <1>2, AgesFacts DEF Entering, Pass, PassType, Kinds, Stalls, Active
<1>3. CASE phase = "Pending"
  BY <1>3, AgesFacts DEF Entering, Pending, Pass, PassType, Kinds, Stalls
<1> QED BY <1>1, <1>2, <1>3

\* observe keeps a pass a pass; a running one goes on running with its
\* heartbeat, and none starts to run.
LEMMA ObserveType ==
    ASSUME NEW s \in PassType, s.kind # "Unset", NEW live \in Gens
    PROVE  /\ Observe(s, live) \in PassType
           /\ Observe(s, live).kind # "Unset"
           /\ s.kind \in Active <=> Observe(s, live).kind \in Active
           /\ s.kind \in Active => Observe(s, live).hb = s.hb /\ Observe(s, live).kind = s.kind
           /\ s.kind \notin {"Settled", "Failed"} => Observe(s, live).kind = s.kind
<1> USE Numbers, AgesFacts DEF Gens
<1>1. CASE live <= s.gen /\ s.qgen # None /\ s.qgen <= s.gen
  <2>1. Observe(s, live) = [s EXCEPT !.qgen = None, !.qsince = None]
    BY <1>1 DEF Observe, PassType
  <2> QED BY <2>1 DEF PassType
<1>2. CASE live <= s.gen /\ (s.qgen = None \/ s.qgen > s.gen)
  BY <1>2 DEF Observe, PassType
<1>3. CASE live > s.gen /\ s.kind \in {"Settled", "Failed"}
  BY <1>3 DEF Observe, PassType, Pending, Pass, Kinds, Stalls, Active
<1>4. CASE live > s.gen /\ s.kind \in Active
  BY <1>4 DEF Observe, PassType, Active
<1>5. CASE live > s.gen /\ s.kind \in {"Pending", "Stalled"}
  BY <1>5 DEF Observe, PassType, Active
<1> QED BY <1>1, <1>2, <1>3, <1>4, <1>5 DEF PassType, Kinds

\* named_stall names a stall or leaves the pass as it is.
LEMMA NamedType ==
    ASSUME NEW s \in PassType, s.kind # "Unset", NEW p \in Procs
    PROVE  /\ Named(s, p) \in PassType /\ Named(s, p).kind # "Unset"
           /\ Named(s, p) = s \/ Named(s, p).kind = "Stalled"
BY AgesFacts DEF Named, PassType, Stalled, Pass, Kinds, Stalls

\* The deadlines of the watchdog name a stall or leave the pass as it is.
LEMMA WatchdogType ==
    ASSUME NEW s \in PassType, NEW p \in Procs
    PROVE  /\ Watchdog(s, p) \in PassType
           /\ Watchdog(s, p) = s \/ Watchdog(s, p).kind = "Stalled"
<1> DEFINE queued == s.qgen # None
<1>1. \A g \in Gens, why \in Stalls :
        Stalled(g, why, p) \in PassType /\ Stalled(g, why, p).kind = "Stalled"
  BY AgesFacts DEF PassType, Stalled, Pass, Kinds, Stalls
<1>2. s.gen \in Gens /\ (queued => s.qgen \in Gens)
  BY DEF PassType
<1>3. \/ Watchdog(s, p) = s
      \/ \E g \in Gens, why \in Stalls : Watchdog(s, p) = Stalled(g, why, p)
  BY <1>2 DEF Watchdog, Stalls
<1> QED BY <1>1, <1>3

\* Ready is claimed only as MayClaimGood allows; the rest of the object is
\* projected as it is given.
LEMMA ProjectType ==
    ASSUME NEW o \in ObjType, NEW ready \in BOOLEAN, NEW pass \in PassType,
           NEW observed \in Gens, NEW live \in Gens
    PROVE  /\ Project(o, ready, pass, observed, live) \in ObjType
           /\ Project(o, ready, pass, observed, live).phase = o.phase
           /\ Project(o, ready, pass, observed, live).acked = o.acked
           /\ Project(o, ready, pass, observed, live).gen = o.gen
           /\ Project(o, ready, pass, observed, live).pass = pass
BY DEF Project, ObjType, MayClaimGood

\* The observed generation is one of the two it is chosen from.
LEMMA ObservedByType ==
    ASSUME NEW s \in PassType, NEW g \in Gens
    PROVE  ObservedBy(s, g) \in Gens
BY LargerGen DEF ObservedBy, PassType

\* What update_phase writes acknowledges the generation of its snapshot.
LEMMA PhaseWriteType ==
    ASSUME NEW s \in ObjType, NEW phase \in Phases, NEW live \in Gens, NEW p \in Procs
    PROVE  /\ PhaseWrite(s, phase, live, p) \in ObjType
           /\ PhaseWrite(s, phase, live, p).phase = phase
           /\ PhaseWrite(s, phase, live, p).acked = s.gen
<1> DEFINE pass == Observe(Entering(phase, s.gen, s.pass, p), live)
           o == [s EXCEPT !.phase = phase, !.acked = s.gen]
<1>1. s.gen \in Gens /\ s.pass \in PassType /\ s.observed \in Gens
  BY DEF ObjType
<1>2. pass \in PassType
  BY <1>1, EnteringType, ObserveType
<1>3. o \in ObjType /\ o.phase = phase /\ o.acked = s.gen
  BY <1>1 DEF ObjType
<1>4. ObservedBy(pass, s.observed) \in Gens
  BY <1>1, <1>2, ObservedByType
<1>5. PhaseWrite(s, phase, live, p) =
        Project(o, phase = "Ready", pass, ObservedBy(pass, s.observed), live)
  BY DEF PhaseWrite
<1> HIDE DEF pass, o
<1> QED BY <1>2, <1>3, <1>4, <1>5 DEF Project, MayClaimGood, ObjType

\* PassGuard::begin writes a running pass with a fresh heartbeat.
LEMMA BeginWriteType ==
    ASSUME NEW s \in ObjType, NEW phase \in {"Planning", "Applying"}, NEW live \in Gens,
           NEW p \in Procs
    PROVE  /\ BeginWrite(s, phase, live, p) \in ObjType
           /\ BeginWrite(s, phase, live, p).pass.hb = 0
<1> DEFINE pass == Observe(Entering(phase, s.gen, s.pass, p), live)
<1>1. s.gen \in Gens /\ s.pass \in PassType /\ phase \in Phases
  BY DEF ObjType, Phases
<1>2. pass \in PassType /\ pass.hb = 0
  BY <1>1, EnteringType, ObserveType, SMTT(30)
<1>3. BeginWrite(s, phase, live, p) = [s EXCEPT !.pass = pass]
  BY DEF BeginWrite
<1> HIDE DEF pass
<1> QED BY <1>2, <1>3 DEF ObjType

\* finish_settled_pass writes an object.
LEMMA SettleWriteType ==
    ASSUME NEW s \in ObjType, NEW base \in ObjType, NEW live \in Gens, NEW p \in Procs
    PROVE  SettleWrite(s, base, live, p) \in ObjType
<1> DEFINE since == IF base.pass.qgen # None THEN base.pass.qsince ELSE 0
           pass == IF live > s.gen THEN Pending(live, since, p) ELSE Settled(s.gen, p)
<1>1. s.gen \in Gens /\ base.observed \in Gens /\ base.pass \in PassType
  BY DEF ObjType
<1>2. since \in Ages \cup {None}
  BY <1>1, AgesFacts DEF PassType
<1> HIDE DEF since
<1>3. pass \in PassType
  BY <1>1, <1>2, AgesFacts DEF Settled, Pending, Pass, PassType, Kinds, Stalls
<1>4. Larger(base.observed, s.gen) \in Gens
  BY <1>1, LargerGen
<1>5. SettleWrite(s, base, live, p)
        = Project(base, TRUE, pass, Larger(base.observed, s.gen), live)
  BY DEF SettleWrite, since
<1> HIDE DEF pass
<1> QED BY <1>3, <1>4, <1>5, ProjectType, ZenonT(30)

\* A patch keeps the object an object; only update_phase's names the phase
\* and the acknowledged generation.
LEMMA PatchedType ==
    ASSUME NEW o \in ObjType, NEW todo \in {"begin", "phase", "settle"}, NEW w \in ObjType
    PROVE  /\ Patched(o, todo, w) \in ObjType
           /\ Patched(o, todo, w).gen = o.gen
           /\ todo # "phase" => /\ Patched(o, todo, w).phase = o.phase
                                /\ Patched(o, todo, w).acked = o.acked
           /\ todo = "phase" => /\ Patched(o, todo, w).phase = w.phase
                                /\ Patched(o, todo, w).acked = w.acked
BY DEF Patched, ObjType

\* The watchdog's projection never makes a pass run.
LEMMA ProjectionType ==
    ASSUME NEW s \in ObjType, s.pass.kind # "Unset", NEW p \in Procs
    PROVE  /\ Projection(s, p) \in ObjType
           /\ Projection(s, p).pass.kind \in Active =>
                Projection(s, p).pass.kind = s.pass.kind
<1> DEFINE n == Named(s.pass, p)
           b == Observe(n, s.gen)
           pass == Watchdog(b, p)
<1>1. s.gen \in Gens /\ s.pass \in PassType /\ s.observed \in Gens /\ s.ready \in BOOLEAN
  BY DEF ObjType
<1>2. n \in PassType /\ n.kind # "Unset" /\ (n = s.pass \/ n.kind = "Stalled")
  BY <1>1, NamedType
<1> HIDE DEF n
<1>3. b \in PassType /\ (b.kind \in Active => b.kind = n.kind)
  BY <1>1, <1>2, ObserveType
<1> HIDE DEF b
<1>4. pass \in PassType /\ (pass = b \/ pass.kind = "Stalled")
  BY <1>3, WatchdogType
<1> HIDE DEF pass
<1>5. Projection(s, p) = Project(s, s.ready, pass, ObservedBy(pass, s.observed), s.gen)
  BY DEF Projection, pass, b, n
<1>6. ObservedBy(pass, s.observed) \in Gens
  BY <1>1, <1>4, ObservedByType
<1>7. Projection(s, p) \in ObjType /\ Projection(s, p).pass = pass
  BY <1>1, <1>4, <1>5, <1>6, ProjectType
<1> QED BY <1>2, <1>3, <1>4, <1>7 DEF Active

\* The patch of a projection carries no running pass.
LEMMA ProjectionPatchType ==
    ASSUME NEW s \in ObjType, s.pass.kind # "Unset", NEW p \in Procs
    PROVE  /\ ProjectionPatch(s, Projection(s, p), p) \in PatchType
           /\ ProjectionPatch(s, Projection(s, p), p).pass.kind \notin Active
<1> DEFINE w == Projection(s, p)
           same == s.pass.kind = w.pass.kind
           conds(o) == <<o.ready, o.og, o.stalled>>
           Q == ProjectionPatch(s, w, p)
<1>1. w \in ObjType /\ (w.pass.kind \in Active => same)
  BY ProjectionType
<1> HIDE DEF w
<1>2. w.pass \in PassType /\ w.observed \in Gens /\ conds(w) \in BOOLEAN \X Gens \X BOOLEAN
  BY <1>1 DEF ObjType
<1>3. [w.pass EXCEPT !.inc = p] \in PassType /\ [w.pass EXCEPT !.inc = p].kind = w.pass.kind
  BY <1>2 DEF PassType
<1>4. Unset \in PassType /\ Unset.kind \notin Active
  BY Numbers DEF Unset, Pass, PassType, Kinds, Stalls, Active, Gens
<1>5. w.pass.gen \in Gens /\ w.pass.qgen \in Gens \cup {None}
      /\ w.pass.qsince \in Ages \cup {None}
  BY <1>2 DEF PassType
<1>6. Q = [pass |-> IF same THEN Unset ELSE [w.pass EXCEPT !.inc = p],
           gen |-> IF same /\ s.pass["gen"] # w.pass["gen"] THEN w.pass["gen"] ELSE Keep,
           qgen |-> IF same /\ s.pass["qgen"] # w.pass["qgen"] THEN w.pass["qgen"] ELSE Keep,
           qsince |-> IF same /\ s.pass["qsince"] # w.pass["qsince"]
                      THEN w.pass["qsince"] ELSE Keep,
           observed |-> IF s.observed # w.observed THEN w.observed ELSE Keep,
           conds |-> IF conds(s) # conds(w) THEN conds(w) ELSE <<>>]
  BY DEF ProjectionPatch
<1> HIDE DEF Q, conds
<1>7. /\ Q.pass \in PassType /\ Q.pass.kind \notin Active
  BY <1>1, <1>3, <1>4, <1>6
<1>8. Q \in PatchType
  BY <1>2, <1>5, <1>6, <1>7 DEF PatchType
<1> QED BY <1>7, <1>8 DEF Q, w

\* What the watchdog's patch leaves when it lands later: it never turns a
\* pass that is not running into a running one.
LEMMA ProjectedType ==
    ASSUME NEW o \in ObjType, NEW w \in PatchType, w.pass.kind \notin Active
    PROVE  /\ Projected(o, w) \in ObjType
           /\ Projected(o, w).phase = o.phase /\ Projected(o, w).acked = o.acked
           /\ Projected(o, w).gen = o.gen
           /\ Projected(o, w).pass.kind \in Active => o.pass.kind \in Active
<1> DEFINE kept == [o.pass EXCEPT !.gen = Merged(@, w.gen), !.qgen = Merged(@, w.qgen),
                                  !.qsince = Merged(@, w.qsince)]
           pass == IF w.pass # Unset THEN w.pass ELSE kept
           conds == w.conds # <<>>
<1>1. o.pass \in PassType
  BY DEF ObjType
<1>2. kept \in PassType /\ kept.kind = o.pass.kind
  <2>1. /\ Merged(o.pass.gen, w.gen) \in Gens
        /\ Merged(o.pass.qgen, w.qgen) \in Gens \cup {None}
        /\ Merged(o.pass.qsince, w.qsince) \in Ages \cup {None}
    BY <1>1 DEF PassType, PatchType, Merged
  <2> QED BY <1>1, <2>1 DEF PassType
<1> HIDE DEF kept
<1>3. pass \in PassType /\ (pass.kind \in Active => o.pass.kind \in Active)
  BY <1>2 DEF PatchType
<1>4. Merged(o.observed, w.observed) \in Gens
  BY DEF Merged, ObjType, PatchType
<1>5. conds => w.conds[1] \in BOOLEAN /\ w.conds[2] \in Gens /\ w.conds[3] \in BOOLEAN
  BY DEF PatchType
<1>6. Projected(o, w) =
        [o EXCEPT !.pass = pass, !.observed = Merged(o.observed, w.observed),
                  !.ready = IF conds THEN w.conds[1] ELSE o.ready,
                  !.og = IF conds THEN w.conds[2] ELSE o.og,
                  !.stalled = IF conds THEN w.conds[3] ELSE o.stalled]
  BY DEF Projected, kept
<1> HIDE DEF pass, conds
<1> QED BY <1>3, <1>4, <1>5, <1>6 DEF ObjType

\* What a reconcile may set out to write: no handler begins with a settled
\* phase, and only Planning, Applying and Ready run under a guard.
LEMMA HandlerType ==
    ASSUME NEW s \in ObjType, NEW h \in Handler(s)
    PROVE  /\ h[1] \in {"work", "begin", "phase"} /\ h[2] \in Phases
           /\ h[1] = "work" => s.phase = "Compiling"
           /\ h[1] = "begin" => h[2] \in {"Planning", "Applying"}
                                /\ s.phase \in {"Planning", "Applying", "Ready"}
           /\ h[1] = "phase" => h[2] \notin {"Ready", "Drifted"}
<1>1. s.phase \in Phases
  BY DEF ObjType
<1>2. h \in FirstWrites[s.phase] \/ h = <<"phase", "Failed">> \/ h = <<"phase", "Pending">>
  BY DEF Handler
<1>3. CASE h = <<"phase", "Failed">> \/ h = <<"phase", "Pending">>
  BY <1>3 DEF Phases
<1>4. CASE h \in FirstWrites[s.phase]
  BY <1>1, <1>4 DEF FirstWrites, Phases
<1> QED BY <1>2, <1>3, <1>4

-----------------------------------------------------------------------------
(***************************************************************************)
(* The types, with what the control of a reconcile guarantees: a write is  *)
(* one of three, only a running phase begins a pass and with a fresh       *)
(* heartbeat, only four phases work, and a nudge is within MAX_NUDGES.     *)
(***************************************************************************)
Recs ==
    {r \in RecType :
        /\ r.pc \in {"read", "put"} => r.todo \in {"begin", "phase", "settle"}
        /\ r.todo = "begin" => /\ r.to \in {"Planning", "Applying"}
                               /\ r.snap.phase \in {"Planning", "Applying", "Ready"}
        /\ r.pc = "work" => r.snap.phase \in {"Compiling", "Planning", "Applying", "Ready"}
        /\ r.pc = "put" /\ r.todo = "begin" => r.out.pass.hb = 0}

\* A watchdog's patch never makes a pass run.
Dogs ==
    {d \in DogType : /\ d.nudging => d.nudges < MaxNudges
                     /\ d.patch.pass.kind \notin Active}

TypeInv ==
    /\ obj \in ObjType /\ cache \in [Procs -> ObjType]
    /\ current \subseteq {"cache", "beat"} \X Procs
    /\ up \in [Procs -> {"new", "up", "down"}]
    /\ rec \in [Procs -> Recs] /\ beat \in [Procs -> BeatType] /\ dog \in [Procs -> Dogs]
    /\ flight \subseteq FlightType
    /\ done \in Gens /\ faults \in Nat

\* The constant records are of their types.
LEMMA ConstantTypes ==
    /\ Unset \in PassType /\ NoObj \in ObjType /\ NewObj \in ObjType
    /\ Idle \in Recs /\ Quiet \in BeatType /\ Resting \in Dogs
<1> USE Numbers, AgesFacts
<1>1. Unset \in PassType /\ Unset.kind = "Unset"
  BY DEF Unset, Pass, PassType, Kinds, Stalls, Gens
<1>2. NewObj \in ObjType
  BY <1>1 DEF NewObj, ObjType, Phases, Gens
<1>3. NoObj \in ObjType
  BY <1>2 DEF NoObj, ObjType, Gens
<1>a. Idle \in RecType /\ Idle.pc = "idle" /\ Idle.todo = "none"
  BY <1>3 DEF Idle, RecType, Phases
<1>b. Idle \in Recs
  BY <1>a DEF Recs
<1>4. Quiet \in BeatType
  BY <1>1 DEF Quiet, BeatType
<1>5. NoPatch \in PatchType /\ NoPatch.pass = Unset
  BY <1>1 DEF NoPatch, PatchType
<1>6. Resting \in Dogs
  BY <1>1, <1>5 DEF Resting, Dogs, DogType, Stalls, Active
<1> QED BY <1>1, <1>2, <1>3, <1>b, <1>4, <1>6

\* The fields of a copy that are left out make it no less an object.
LEMMA SeenType ==
    ASSUME NEW o \in ObjType
    PROVE  /\ Seen(o) \in ObjType /\ Kept(o) \in ObjType /\ Aged(o) \in ObjType
           /\ Kept(o).gen = o.gen /\ Kept(o).phase = o.phase
           /\ Seen(o).pass.kind = o.pass.kind /\ Seen(o).pass.inc = o.pass.inc
           /\ Seen(o).pass.stall = o.pass.stall
           /\ Aged(o).gen = o.gen /\ Aged(o).phase = o.phase /\ Aged(o).acked = o.acked
           /\ Aged(o).pass = AgedPass(o.pass)
<1> USE Numbers, AgesFacts
<1>1. o.pass \in PassType /\ 0 \in Gens
  BY DEF ObjType, Gens
<1>2. /\ [o.pass EXCEPT !.hb = None] \in PassType
      /\ [o.pass EXCEPT !.hb = None].kind = o.pass.kind
      /\ [o.pass EXCEPT !.hb = None].inc = o.pass.inc
      /\ [o.pass EXCEPT !.hb = None].stall = o.pass.stall
  BY <1>1 DEF PassType
<1>3. Seen(o) = [o EXCEPT !.ready = FALSE, !.og = 0, !.stalled = FALSE,
                          !.pass = [o.pass EXCEPT !.hb = None]]
  BY <1>1 DEF Seen, ObjType
<1>4. Seen(o) \in ObjType /\ Seen(o).pass = [o.pass EXCEPT !.hb = None]
      /\ Seen(o).gen = o.gen /\ Seen(o).phase = o.phase
  BY <1>1, <1>2, <1>3 DEF ObjType
<1>5. [Seen(o).pass EXCEPT !.stall = "none", !.inc = NoProc] \in PassType
  BY <1>2, <1>4, ZenonT(30) DEF PassType, Stalls
<1>6. Kept(o) = [Seen(o) EXCEPT !.acked = 0,
                   !.pass = [Seen(o).pass EXCEPT !.stall = "none", !.inc = NoProc]]
  BY <1>4 DEF Kept, ObjType
<1>7. Kept(o) \in ObjType /\ Kept(o).gen = o.gen /\ Kept(o).phase = o.phase
  BY <1>1, <1>4, <1>5, <1>6 DEF ObjType
<1>8. /\ Aged(o) \in ObjType /\ Aged(o).pass = AgedPass(o.pass)
      /\ Aged(o).gen = o.gen /\ Aged(o).phase = o.phase /\ Aged(o).acked = o.acked
  BY <1>1, AgedPassType DEF Aged, ObjType
<1> QED BY <1>2, <1>4, <1>7, <1>8

\* A guard that is dropped leaves a heartbeat task of the right type.
LEMMA HushType ==
    ASSUME TypeInv, NEW p \in Procs, Hush(p)
    PROVE  beat' \in [Procs -> BeatType]
<1>1. PICK b \in Hushed(p) : beat' = [beat EXCEPT ![p] = b]
  BY DEF Hush
<1>2. b \in BeatType
  BY ConstantTypes DEF Hushed, TypeInv, BeatType
<1> QED BY <1>1, <1>2 DEF TypeInv

\* A dropped reconcile leaves a patch of the right type on the wire.
LEMMA InFlightType ==
    ASSUME TypeInv, NEW p \in Procs, InFlight(p)
    PROVE  flight' \subseteq FlightType
<1>1. rec[p] \in Recs
  BY DEF TypeInv
<1> QED BY <1>1 DEF InFlight, FlightType, TypeInv, Recs, RecType

\* What a reconcile is about to write is an object, with a fresh heartbeat
\* if it begins a pass, and with the generation of its snapshot acknowledged
\* if it enters a phase.
LEMMA ComposedType ==
    ASSUME TypeInv, NEW p \in Procs, rec[p].pc = "read", NEW fresh \in ObjType
    PROVE  /\ Composed(p, fresh) \in ObjType
           /\ rec[p].todo = "begin" => Composed(p, fresh).pass.hb = 0
           /\ rec[p].todo = "phase" => /\ Composed(p, fresh).phase = rec[p].to
                                       /\ Composed(p, fresh).acked = rec[p].snap.gen
<1> DEFINE r == rec[p]
           live == Larger(fresh.gen, r.snap.gen)
<1>1. /\ r \in RecType /\ r.todo \in {"begin", "phase", "settle"}
      /\ r.todo = "begin" => r.to \in {"Planning", "Applying"}
  BY DEF TypeInv, Recs
<1>2. r.snap \in ObjType /\ r.to \in Phases
  BY <1>1 DEF RecType
<1>3. live \in Gens
  BY <1>2, LargerGen DEF ObjType
<1>4. Composed(p, fresh) = CASE r.todo = "begin" -> BeginWrite(r.snap, r.to, live, p)
                             [] r.todo = "phase" -> PhaseWrite(r.snap, r.to, live, p)
                             [] r.todo = "settle" -> SettleWrite(r.snap, fresh, live, p)
  BY DEF Composed
<1> HIDE DEF r, live
<1>5. CASE r.todo = "begin"
  BY <1>1, <1>2, <1>3, <1>4, <1>5, BeginWriteType DEF r
<1>6. CASE r.todo = "phase"
  BY <1>1, <1>2, <1>3, <1>4, <1>6, PhaseWriteType DEF r
<1>7. CASE r.todo = "settle"
  BY <1>1, <1>2, <1>3, <1>4, <1>7, SettleWriteType DEF r
<1> QED BY <1>1, <1>5, <1>6, <1>7

\* The reconcile after its patch returned, or could not be written.
LEMMA ReturnedType ==
    ASSUME TypeInv, NEW p \in Procs, rec[p].pc = "put", NEW landed \in BOOLEAN,
           Returned(p, landed)
    PROVE  rec' \in [Procs -> Recs] /\ beat' \in [Procs -> BeatType]
<1>0. /\ rec \in [Procs -> Recs] /\ beat \in [Procs -> BeatType] /\ rec[p] \in RecType
      /\ rec[p].todo = "begin" =>
           rec[p].snap.phase \in {"Planning", "Applying", "Ready"} /\ rec[p].out.pass.hb = 0
      /\ rec[p].out \in ObjType /\ NoObj \in ObjType
  BY ConstantTypes DEF TypeInv, Recs, RecType
<1>1. CASE rec[p].todo = "begin" /\ Begun(p, landed)
  <2>1. rec[p].out.pass \in PassType
    BY <1>0 DEF ObjType
  <2>2. [rec[p].out.pass EXCEPT !.hb = None] \in PassType
    BY <2>1 DEF PassType
  <2>3. beat' \in [Procs -> BeatType]
    BY <1>0, <1>1, <2>2 DEF Begun, BeatType
  <2> DEFINE r == [rec[p] EXCEPT !.pc = "work", !.todo = "work", !.out = NoObj,
                     !.sign = IF landed THEN rec[p].out.pass.hb ELSE rec[p].sign]
  <2>4. r \in RecType /\ r.pc = "work" /\ r.todo = "work" /\ r.snap = rec[p].snap
    BY <1>0, <1>1, AgesFacts DEF RecType
  <2>5. r \in Recs
    BY <1>0, <1>1, <2>4 DEF Recs
  <2>6. rec' = [rec EXCEPT ![p] = r]
    BY <1>0, <1>1 DEF Begun, Step, RecType
  <2> QED BY <1>0, <2>3, <2>5, <2>6
<1>2. ASSUME NEW to \in {"Drifted", "Failed"}, Onward(p, to) PROVE rec' \in [Procs -> Recs]
  <2> DEFINE r == [rec[p] EXCEPT !.pc = "read", !.todo = "phase", !.to = to, !.out = NoObj]
  <2>1. r \in RecType /\ r.pc = "read" /\ r.todo = "phase"
    BY <1>0 DEF RecType, Phases
  <2>2. r \in Recs
    BY <2>1 DEF Recs
  <2> QED BY <1>0, <1>2, <2>2 DEF Onward, Step
<1>3. ASSUME Step(p, Idle) PROVE rec' \in [Procs -> Recs]
  BY <1>0, <1>3, ConstantTypes DEF Step
<1>4. CASE rec[p].todo = "settle" /\ SettleDone(p)
  BY <1>0, <1>2, <1>3, <1>4 DEF SettleDone
<1>5. CASE PhaseDone(p) \/ PhaseFailed(p)
  <2>1. Hush(p)
    BY <1>5 DEF PhaseDone, PhaseFailed
  <2>2. rec' \in [Procs -> Recs]
    BY <1>2, <1>3, <1>5 DEF PhaseDone, PhaseFailed
  <2> QED BY <2>1, <2>2, HushType
<1> QED BY <1>1, <1>4, <1>5 DEF Returned

\* The types hold initially.
LEMMA TypeInit == Init => TypeInv
BY ConstantTypes, Numbers DEF Init, TypeInv, Gens

\* Every step of the user, the clock, the reconcile, its heartbeat and the
\* watchdog keeps the types.
LEMMA TypeStep == TypeInv /\ [Next]_vars => TypeInv'
<1> SUFFICES ASSUME TypeInv, [Next]_vars PROVE TypeInv'
  OBVIOUS
<1> USE Numbers, AgesFacts, ConstantTypes
<1>0. /\ obj \in ObjType /\ obj.pass \in PassType /\ obj.gen \in Gens
      /\ \A p \in Procs : /\ rec[p] \in Recs /\ rec[p] \in RecType /\ beat[p] \in BeatType
                          /\ dog[p] \in Dogs /\ dog[p] \in DogType /\ cache[p] \in ObjType
                          /\ rec[p].snap \in ObjType /\ beat[p].owned \in PassType
  BY DEF TypeInv, Recs, Dogs, RecType, BeatType, ObjType
<1>1. CASE Edit
  <2>1. [obj EXCEPT !.gen = @ + 1] \in ObjType
    BY <1>0, <1>1 DEF Edit, ObjType, Gens
  <2> QED BY <1>1, <2>1 DEF Edit, Write, TypeInv
<1>2. CASE Tick
  <2>1. Aged(obj) \in ObjType
    BY <1>0, SeenType
  <2>2. \A p \in Procs : Aged(cache[p]) \in ObjType
    BY <1>0, SeenType
  <2>3. ASSUME NEW p \in Procs
        PROVE  [rec[p] EXCEPT !.snap = Aged(@), !.sign = Older(@, Heartbeat)] \in Recs
    <3> DEFINE r == [rec[p] EXCEPT !.snap = Aged(@), !.sign = Older(@, Heartbeat)]
    <3>1. Aged(rec[p].snap) \in ObjType /\ Aged(rec[p].snap).phase = rec[p].snap.phase
      BY <1>0, SeenType
    <3>2. Older(rec[p].sign, Heartbeat) \in Ages \cup {None}
      BY <1>0 DEF RecType
    <3>3. r \in RecType /\ r.pc = rec[p].pc /\ r.todo = rec[p].todo /\ r.to = rec[p].to
          /\ r.out = rec[p].out /\ r.snap = Aged(rec[p].snap)
      BY <1>0, <3>1, <3>2 DEF RecType
    <3> HIDE DEF r
    <3>4. r \in Recs
      BY <1>0, <3>1, <3>3 DEF Recs
    <3> QED BY <3>4 DEF r
  <2>4. ASSUME NEW p \in Procs
        PROVE  [beat[p] EXCEPT !.owned = AgedPass(@), !.due = (beat[p].mode = "on")] \in BeatType
    BY <1>0, AgedPassType DEF BeatType
  <2>5. ASSUME NEW p \in Procs
        PROVE  [dog[p] EXCEPT !.last = Older(@, 0)] \in Dogs
    BY <1>0 DEF Dogs, DogType, Older
  <2>6. rec' \in [Procs -> Recs]
    BY <1>2, <2>3 DEF Tick
  <2>7. beat' \in [Procs -> BeatType]
    BY <1>2, <2>4 DEF Tick
  <2>8. dog' \in [Procs -> Dogs]
    BY <1>2, <2>5 DEF Tick
  <2> QED BY <1>2, <2>1, <2>2, <2>6, <2>7, <2>8 DEF Tick, TypeInv
<1>3. ASSUME NEW f \in flight, Land(f) PROVE TypeInv'
  <2>1. f.todo \in {"begin", "phase", "settle"} /\ f.out \in ObjType
    BY DEF TypeInv, FlightType
  <2>2. Patched(obj, f.todo, f.out) \in ObjType
    BY <1>0, <2>1, PatchedType
  <2> QED BY <1>3, <2>2 DEF Land, Write, TypeInv
<1>4. ASSUME NEW p \in Procs, Boot(p) \/ Deliver(p) PROVE TypeInv'
  BY <1>0, <1>4, SeenType DEF Boot, Deliver, TypeInv
<1>5. ASSUME NEW p \in Procs, Crash(p) PROVE TypeInv'
  <2>1. beat' \in [Procs -> BeatType] /\ flight' \subseteq FlightType
    BY <1>5, HushType, InFlightType DEF Crash
  <2>2. rec' \in [Procs -> Recs] /\ dog' \in [Procs -> Dogs] /\ cache' \in [Procs -> ObjType]
    BY <1>5 DEF Crash, Step, TypeInv
  <2>3. /\ up' \in [Procs -> {"new", "up", "down"}] /\ current' \subseteq current
        /\ faults' \in Nat
    BY <1>5 DEF Crash, Fault, TypeInv
  <2> QED BY <1>5, <2>1, <2>2, <2>3 DEF Crash, TypeInv
<1>6. ASSUME NEW p \in Procs, Start(p) PROVE TypeInv'
  <2> DEFINE s == Cached(p)
  <2>1. s \in ObjType
    BY <1>0 DEF Cached
  <2> HIDE DEF s
  <2>2. PICK h \in Handler(s) :
          Step(p, [Idle EXCEPT !.pc = IF h[1] = "work" THEN "work" ELSE "read",
                               !.todo = h[1], !.to = h[2], !.snap = Kept(s),
                               !.sign = 0])
    BY <1>6 DEF Start, s
  <2> DEFINE r == [Idle EXCEPT !.pc = IF h[1] = "work" THEN "work" ELSE "read",
                               !.todo = h[1], !.to = h[2], !.snap = Kept(s),
                               !.sign = 0]
  <2>3. Kept(s) \in ObjType /\ Kept(s).phase = s.phase
    BY <2>1, SeenType
  <2>a. Idle \in RecType
    BY DEF Recs
  <2>4. r \in RecType /\ r.todo = h[1] /\ r.to = h[2] /\ r.snap = Kept(s)
        /\ r.pc = IF h[1] = "work" THEN "work" ELSE "read"
    BY <2>1, <2>3, <2>a, HandlerType DEF RecType
  <2> HIDE DEF r
  <2>5. r \in Recs
    BY <2>1, <2>3, <2>4, HandlerType DEF Recs
  <2>6. rec' \in [Procs -> Recs]
    BY <2>2, <2>5 DEF Step, r, TypeInv
  <2>7. s.pass.gen \in Gens
    BY <2>1 DEF ObjType, PassType
  <2>8. [obj EXCEPT !.pass = Pending(s.pass.gen, 0, p)] \in ObjType
    BY <1>0, <2>7, RestingTypes DEF ObjType, Stalls
  <2>9. obj' \in ObjType /\ (current' = {} \/ current' = current)
    BY <1>0, <1>6, <2>8 DEF Start, Write, s
  <2> QED BY <1>6, <2>6, <2>9 DEF Start, TypeInv
<1>7. ASSUME NEW p \in Procs, Read(p) PROVE TypeInv'
  <2>1. PICK fresh \in {obj, rec[p].snap} :
          /\ IF fresh = obj THEN UNCHANGED faults ELSE Fault("call")
          /\ Step(p, [rec[p] EXCEPT !.pc = "put", !.out = Composed(p, fresh)])
    BY <1>7 DEF Read
  <2>2. fresh \in ObjType /\ rec[p].pc = "read"
    BY <1>0, <1>7 DEF Read, At
  <2> DEFINE c == Composed(p, fresh)
             r == [rec[p] EXCEPT !.pc = "put", !.out = c]
  <2>3. c \in ObjType /\ (rec[p].todo = "begin" => c.pass.hb = 0)
    BY <2>2, ComposedType
  <2> HIDE DEF c
  <2>4. r \in RecType /\ r.pc = "put" /\ r.out = c /\ r.todo = rec[p].todo
        /\ r.to = rec[p].to /\ r.snap = rec[p].snap
    BY <1>0, <2>3 DEF RecType
  <2> HIDE DEF r
  <2>5. r \in Recs
    BY <1>0, <2>2, <2>3, <2>4 DEF Recs
  <2>6. rec' = [rec EXCEPT ![p] = r] /\ faults' \in Nat
    BY <2>1 DEF Step, Fault, r, c, TypeInv
  <2> QED BY <1>7, <2>5, <2>6 DEF Read, TypeInv
<1>8. ASSUME NEW p \in Procs, Put(p) PROVE TypeInv'
  <2>1. rec[p].pc = "put" /\ rec[p].todo \in {"begin", "phase", "settle"} /\ rec[p].out \in ObjType
    BY <1>0, <1>8 DEF Put, At, Recs, RecType
  <2>2. Patched(obj, rec[p].todo, rec[p].out) \in ObjType
    BY <1>0, <2>1, PatchedType
  <2>3. Returned(p, TRUE) \/ Returned(p, FALSE)
    BY <1>8 DEF Put
  <2>4. rec' \in [Procs -> Recs] /\ beat' \in [Procs -> BeatType]
    BY <2>1, <2>3, ReturnedType
  <2>5. \/ /\ obj' = Patched(obj, rec[p].todo, rec[p].out) /\ current' = {}
           /\ faults' = faults
        \/ /\ obj' = obj /\ current' = current
           /\ faults' = faults + 1
    BY <1>8 DEF Put, Write, Fault
  <2> QED BY <1>0, <1>8, <2>2, <2>4, <2>5 DEF Put, TypeInv
<1>9. ASSUME NEW p \in Procs, Complete(p) PROVE TypeInv'
  <2>1. PICK h \in Outcomes(rec[p].snap) :
          /\ Step(p, [rec[p] EXCEPT !.pc = "read", !.todo = h[1], !.to = h[2]])
          /\ IF rec[p].snap.phase = "Ready" THEN Hush(p) ELSE UNCHANGED beat
          /\ done' = IF h[2] = "Ready" THEN Larger(done, rec[p].snap.gen) ELSE done
    BY <1>9 DEF Complete
  <2>2. rec[p].snap.phase \in {"Compiling", "Planning", "Applying", "Ready"}
    BY <1>0, <1>9 DEF Complete, At, Recs
  <2>3. h[1] \in {"phase", "settle"} /\ h[2] \in Phases
    BY <2>2 DEF Outcomes, Phases
  <2> DEFINE r == [rec[p] EXCEPT !.pc = "read", !.todo = h[1], !.to = h[2]]
  <2>4. r \in RecType /\ r.pc = "read" /\ r.todo = h[1]
    BY <1>0, <2>3 DEF RecType
  <2> HIDE DEF r
  <2>5. r \in Recs
    BY <2>3, <2>4 DEF Recs
  <2>6. rec' = [rec EXCEPT ![p] = r]
    BY <2>1 DEF Step, r
  <2>7. beat' \in [Procs -> BeatType]
    BY <2>1, HushType DEF TypeInv
  <2>8. done' \in Gens
    BY <1>0, <2>1, LargerGen DEF TypeInv, ObjType
  <2> QED BY <1>9, <2>5, <2>6, <2>7, <2>8 DEF Complete, TypeInv
<1>10. ASSUME NEW p \in Procs, Hang(p) PROVE TypeInv'
  <2> DEFINE r == [rec[p] EXCEPT !.hung = TRUE]
  <2>1. r \in Recs
    BY <1>0 DEF Recs, RecType
  <2> HIDE DEF r
  <2>2. rec' \in [Procs -> Recs]
    BY <1>10, <2>1 DEF Hang, Step, r, TypeInv
  <2> QED BY <1>10, <2>2 DEF Hang, Fault, TypeInv
<1>11. ASSUME NEW p \in Procs, Beat(p) PROVE TypeInv'
  <2>1. Beaten(obj) \in ObjType
    BY <1>0 DEF Beaten, ObjType, PassType
  <2>2. [rec[p] EXCEPT !.sign = 0] \in Recs
    BY <1>0 DEF Recs, RecType
  <2>3. [beat[p] EXCEPT !.due = FALSE] \in BeatType
        /\ [beat[p] EXCEPT !.mode = "withdraw", !.due = FALSE] \in BeatType
    BY <1>0 DEF BeatType
  <2>4. rec' \in [Procs -> Recs] /\ beat' \in [Procs -> BeatType]
    BY <1>11, <2>2, <2>3 DEF Beat, TypeInv
  <2> QED BY <1>11, <2>1, <2>4 DEF Beat, TypeInv
<1>12. ASSUME NEW p \in Procs, BeatFails(p) PROVE TypeInv'
  <2>1. [beat[p] EXCEPT !.due = FALSE] \in BeatType
    BY <1>0 DEF BeatType
  <2>2. beat' \in [Procs -> BeatType]
    BY <1>12, <2>1 DEF BeatFails, TypeInv
  <2> QED BY <1>12, <2>2 DEF BeatFails, Fault, TypeInv
<1>13. ASSUME NEW p \in Procs, Withdraw(p) PROVE TypeInv'
  <2>1. [obj EXCEPT !.pass = [beat[p].owned EXCEPT !.hb = 0]] \in ObjType
    BY <1>0 DEF ObjType, PassType
  <2>2. [rec[p] EXCEPT !.sign = 0] \in Recs
    BY <1>0 DEF Recs, RecType
  <2>3. [beat[p] EXCEPT !.mode = "on"] \in BeatType
    BY <1>0 DEF BeatType
  <2>4. rec' \in [Procs -> Recs] /\ beat' \in [Procs -> BeatType]
    BY <1>13, <2>2, <2>3 DEF Withdraw, TypeInv
  <2> QED BY <1>0, <1>13, <2>1, <2>4 DEF Withdraw, Write, TypeInv
<1>14. ASSUME NEW p \in Procs, List(p) PROVE TypeInv'
  <2> DEFINE w == Projection(obj, p)
             patch == ProjectionPatch(obj, w, p)
             stall == IF w.pass.kind = "Stalled" THEN w.pass.stall ELSE "none"
             d == IF stall = "none" THEN Resting ELSE dog[p]
  <2>1. obj.pass.kind # "Unset"
    BY <1>14 DEF List
  <2>2. w \in ObjType
    BY <1>0, <2>1, ProjectionType
  <2>3. patch \in PatchType /\ patch.pass.kind \notin Active
    BY <1>0, <2>1, ProjectionPatchType
  <2>4. stall \in Stalls
    BY <2>2 DEF ObjType, PassType, Stalls
  <2>5. dog' = [dog EXCEPT ![p] =
                  IF patch = NoPatch /\ stall = "none" THEN d
                  ELSE [d EXCEPT !.listed = TRUE, !.patch = patch, !.stall = stall]]
    BY <1>14 DEF List
  <2>6. d \in Dogs /\ ~d.nudging
    BY <1>0, <1>14 DEF List, Resting
  <2> HIDE DEF w, patch, stall, d
  <2>7. [d EXCEPT !.listed = TRUE, !.patch = patch, !.stall = stall] \in Dogs
    BY <2>3, <2>4, <2>6 DEF Dogs, DogType
  <2>8. dog' \in [Procs -> Dogs]
    BY <2>5, <2>6, <2>7 DEF TypeInv
  <2> QED BY <1>14, <2>8 DEF List, TypeInv
<1>15. ASSUME NEW p \in Procs, Judge(p) PROVE TypeInv'
  <2> DEFINE d == [Resting EXCEPT !.nudges = dog[p].nudges, !.last = dog[p].last]
  <2>1. d \in Dogs /\ d.nudges = dog[p].nudges
    BY <1>0 DEF Dogs, DogType, Resting
  <2>2. /\ \/ dog' = [dog EXCEPT ![p] = d]
           \/ dog' = [dog EXCEPT ![p] =
                 [d EXCEPT !.nudging = (dog[p].stall \in Redispatches /\ NudgeDue(d))]]
        /\ \/ obj' = obj /\ current' = current
           \/ obj' = Projected(obj, dog[p].patch) /\ current' = {}
        /\ faults' \in Nat
    BY <1>15 DEF Judge, Write, Fault, TypeInv
  <2> HIDE DEF d
  <2>3. [d EXCEPT !.nudging = (dog[p].stall \in Redispatches /\ NudgeDue(d))] \in Dogs
    BY <2>1 DEF Dogs, DogType, NudgeDue
  <2>4. dog' \in [Procs -> Dogs]
    BY <2>1, <2>2, <2>3 DEF TypeInv
  <2>5. dog[p].patch \in PatchType /\ dog[p].patch.pass.kind \notin Active
    BY <1>0 DEF Dogs, DogType
  <2>6. Projected(obj, dog[p].patch) \in ObjType
    BY <1>0, <2>5, ProjectedType
  <2> QED BY <1>0, <1>15, <2>2, <2>4, <2>6 DEF Judge, TypeInv
<1>16. ASSUME NEW p \in Procs, Nudge(p) PROVE TypeInv'
  <2> DEFINE d == [dog[p] EXCEPT !.nudging = FALSE]
             counted == [d EXCEPT !.nudges = @ + 1,
                                  !.last = IF d.nudges + 1 < MaxNudges THEN 0 ELSE None]
  <2>a. dog[p].nudges \in Nat /\ dog[p].nudges < MaxNudges
    BY <1>0, <1>16 DEF Nudge, Dogs, DogType
  <2>b. d \in DogType /\ ~d.nudging /\ d.nudges = dog[p].nudges /\ d.patch = dog[p].patch
    BY <1>0 DEF DogType
  <2>c. counted \in DogType /\ ~counted.nudging /\ counted.patch = dog[p].patch
    <3>1. d.nudges + 1 \in 0 .. MaxNudges
      BY <2>a, <2>b
    <3>2. (IF d.nudges + 1 < MaxNudges THEN 0 ELSE None) \in {None, 0, 1}
      OBVIOUS
    <3> HIDE DEF d
    <3> QED BY <2>b, <3>1, <3>2 DEF DogType
  <2>1. d \in Dogs /\ counted \in Dogs
    BY <1>0, <2>b, <2>c DEF Dogs
  <2>2. /\ dog' = [dog EXCEPT ![p] = d] \/ dog' = [dog EXCEPT ![p] = counted]
        /\ current' = {} \/ current' = current
        /\ faults' \in Nat
    BY <1>16 DEF Nudge, Fault, TypeInv
  <2> HIDE DEF d, counted
  <2>3. dog' \in [Procs -> Dogs]
    BY <2>1, <2>2 DEF TypeInv
  <2>4. rec' \in [Procs -> Recs] /\ beat' \in [Procs -> BeatType] /\ flight' \subseteq FlightType
    BY <1>16, HushType, InFlightType DEF Nudge, Step, TypeInv
  <2> QED BY <1>0, <1>16, <2>2, <2>3, <2>4 DEF Nudge, TypeInv
<1>17. CASE UNCHANGED vars
  BY <1>17 DEF vars, TypeInv
<1> QED BY <1>1, <1>2, <1>3, <1>4, <1>5, <1>6, <1>7, <1>8, <1>9, <1>10, <1>11, <1>12,
           <1>13, <1>14, <1>15, <1>16, <1>17 DEF Next

\* The types hold throughout.
LEMMA TypeInvariant == Spec => []TypeInv
<1> QED BY TypeInit, TypeStep, PTL DEF Spec

\* Types of the object and of every copy of it, and the bound of the
\* watchdog's nudges (pass_registry.rs), for any number of processes.
THEOREM TypeCorrect == Spec => []TypeOK
<1>1. TypeInv => TypeOK
  BY DEF TypeInv, TypeOK, Recs, RecType, BeatType, Dogs, DogType
<1> QED BY <1>1, TypeInvariant, PTL

-----------------------------------------------------------------------------
(***************************************************************************)
(* AckIsEarned is not inductive: the acknowledged generation of a write    *)
(* was fixed when the reconcile took its snapshot, so the invariant has to *)
(* follow it from the end of the work (which raises done) through the      *)
(* write that is composed, sent and possibly left on the wire.             *)
(***************************************************************************)
Good == {"Ready", "Drifted"}

Earned(r) ==
    /\ r.pc \in {"read", "put"} /\ (r.todo = "settle" \/ (r.todo = "phase" /\ r.to \in Good))
       => r.snap.gen <= done
    /\ r.pc = "put" /\ r.todo = "phase" => r.out.phase = r.to /\ r.out.acked = r.snap.gen

EarnedInv ==
    /\ AckIsEarned
    /\ \A p \in Procs : Earned(rec[p])
    /\ \A f \in flight : f.todo = "phase" /\ f.out.phase \in Good => f.out.acked <= done

\* A write left on the wire carries what its reconcile had earned.
LEMMA InFlightEarned ==
    ASSUME TypeInv, EarnedInv, NEW p \in Procs, InFlight(p)
    PROVE  \A f \in flight' : f.todo = "phase" /\ f.out.phase \in Good => f.out.acked <= done
BY DEF InFlight, EarnedInv, Earned

\* What is earned stays earned on every step.
LEMMA EarnedStep == TypeInv /\ EarnedInv /\ [Next]_vars => EarnedInv'
<1> SUFFICES ASSUME TypeInv, EarnedInv, [Next]_vars PROVE EarnedInv'
  OBVIOUS
<1> USE Numbers, ConstantTypes
<1>0. /\ obj \in ObjType /\ done \in Gens /\ rec \in [Procs -> Recs]
      /\ obj.gen \in Gens /\ obj.acked \in Gens
      /\ \A p \in Procs : rec[p] \in RecType /\ rec[p].snap \in ObjType /\ rec[p].snap.gen \in Gens
  BY DEF TypeInv, Recs, RecType, ObjType
<1>1. \A p \in Procs : rec[p].pc \in {"read", "put"} => rec[p].todo \in {"begin", "phase", "settle"}
  BY <1>0 DEF Recs
<1>a. Earned(Idle)
  BY DEF Earned, Idle
<1>2. ASSUME done' = done, obj'.phase = obj.phase, obj'.acked = obj.acked,
             flight' = flight, NEW p \in Procs, NEW r, rec' = [rec EXCEPT ![p] = r], Earned(r)
      PROVE  EarnedInv'
  <2>1. \A q \in Procs : Earned(rec'[q])
    BY <1>0, <1>2 DEF EarnedInv
  <2> QED BY <1>2, <2>1 DEF EarnedInv, Earned, AckIsEarned
<1>3. ASSUME UNCHANGED <<done, rec, flight>>, obj'.phase = obj.phase, obj'.acked = obj.acked
      PROVE  EarnedInv'
  BY <1>3 DEF EarnedInv, Earned, AckIsEarned
<1>4. CASE Edit
  BY <1>0, <1>3, <1>4 DEF Edit, Write, ObjType
<1>5. CASE Tick
  <2>1. obj'.phase = obj.phase /\ obj'.acked = obj.acked
    BY <1>0, <1>5, SeenType DEF Tick
  <2>2. ASSUME NEW p \in Procs PROVE rec'[p].pc = rec[p].pc /\ rec'[p].pc \notin {"read", "put"}
    BY <1>0, <1>5 DEF Tick, Calling, RecType
  <2>3. \A p \in Procs : Earned(rec[p])'
    BY <2>2 DEF Earned
  <2> QED BY <1>5, <2>1, <2>3 DEF Tick, EarnedInv, AckIsEarned
<1>6. ASSUME NEW f \in flight, Land(f) PROVE EarnedInv'
  <2>1. f.todo \in {"begin", "phase", "settle"} /\ f.out \in ObjType
    BY DEF TypeInv, FlightType
  <2>2. obj' = Patched(obj, f.todo, f.out) /\ UNCHANGED <<rec, done>> /\ flight' \subseteq flight
    BY <1>6 DEF Land, Write
  <2>3. AckIsEarned'
    BY <1>0, <2>1, <2>2, PatchedType DEF EarnedInv, AckIsEarned, Good
  <2> QED BY <2>2, <2>3 DEF EarnedInv, Earned
<1>7. ASSUME NEW p \in Procs, Boot(p) \/ Deliver(p) \/ BeatFails(p) \/ List(p) PROVE EarnedInv'
  BY <1>3, <1>7 DEF Boot, Deliver, BeatFails, List
<1>8. ASSUME NEW p \in Procs, UNCHANGED <<done, obj>>, rec' = [rec EXCEPT ![p] = Idle], InFlight(p)
      PROVE  EarnedInv'
  <2>1. \A q \in Procs : Earned(rec'[q])
    BY <1>0, <1>8, <1>a DEF EarnedInv
  <2> QED BY <1>8, <2>1, InFlightEarned DEF EarnedInv, Earned, AckIsEarned
<1>9. ASSUME NEW p \in Procs, Crash(p) PROVE EarnedInv'
  BY <1>8, <1>9 DEF Crash, Step
<1>10. ASSUME NEW p \in Procs, Start(p) PROVE EarnedInv'
  <2> DEFINE s == Cached(p)
  <2>1. s \in ObjType
    BY <1>0 DEF Cached, TypeInv
  <2> HIDE DEF s
  <2>2. PICK h \in Handler(s) :
          Step(p, [Idle EXCEPT !.pc = IF h[1] = "work" THEN "work" ELSE "read",
                               !.todo = h[1], !.to = h[2], !.snap = Kept(s),
                               !.sign = 0])
    BY <1>10 DEF Start, s
  <2> DEFINE r == [Idle EXCEPT !.pc = IF h[1] = "work" THEN "work" ELSE "read",
                               !.todo = h[1], !.to = h[2], !.snap = Kept(s),
                               !.sign = 0]
  <2>3. r.pc # "put" /\ r.todo = h[1] /\ r.to = h[2]
    BY DEF Idle
  <2> HIDE DEF r
  <2>4. Earned(r)
    BY <2>1, <2>3, HandlerType DEF Earned, Good
  <2>5. obj'.phase = obj.phase /\ obj'.acked = obj.acked
    BY <1>0, <1>10 DEF Start, Write, ObjType
  <2>6. rec' = [rec EXCEPT ![p] = r] /\ done' = done /\ flight' = flight
    BY <1>10, <2>2 DEF Start, Step, r
  <2> QED BY <1>2, <2>4, <2>5, <2>6
<1>11. ASSUME NEW p \in Procs, Read(p) PROVE EarnedInv'
  <2>1. PICK fresh \in {obj, rec[p].snap} :
          Step(p, [rec[p] EXCEPT !.pc = "put", !.out = Composed(p, fresh)])
    BY <1>11 DEF Read
  <2>2. fresh \in ObjType /\ rec[p].pc = "read"
    BY <1>0, <1>11 DEF Read, At
  <2> DEFINE c == Composed(p, fresh)
             r == [rec[p] EXCEPT !.pc = "put", !.out = c]
  <2>3. rec[p].todo = "phase" => c.phase = rec[p].to /\ c.acked = rec[p].snap.gen
    BY <2>2, ComposedType
  <2> HIDE DEF c
  <2>4. r.pc = "put" /\ r.out = c /\ r.todo = rec[p].todo
        /\ r.to = rec[p].to /\ r.snap = rec[p].snap
    BY <1>0 DEF RecType
  <2> HIDE DEF r
  <2>5. Earned(r)
    BY <2>2, <2>3, <2>4 DEF EarnedInv, Earned
  <2>6. rec' = [rec EXCEPT ![p] = r]
    BY <2>1 DEF Step, r, c
  <2> QED BY <1>2, <1>11, <2>5, <2>6 DEF Read
<1>12. ASSUME NEW p \in Procs, Put(p) PROVE EarnedInv'
  <2>1. rec[p].pc = "put" /\ rec[p].todo \in {"begin", "phase", "settle"} /\ rec[p].out \in ObjType
    BY <1>0, <1>1, <1>12 DEF Put, At, RecType
  <2>2. AckIsEarned'
    <3>1. CASE obj' = obj
      BY <1>12, <3>1 DEF Put, EarnedInv, AckIsEarned
    <3>2. CASE obj' = Patched(obj, rec[p].todo, rec[p].out)
      <4>1. rec[p].todo = "phase" /\ rec[p].out.phase \in Good => rec[p].out.acked <= done
        BY <2>1 DEF EarnedInv, Earned
      <4> QED BY <1>0, <1>12, <2>1, <3>2, <4>1, PatchedType DEF Put, EarnedInv, AckIsEarned, Good
    <3> QED BY <1>12, <3>1, <3>2 DEF Put, Write
  <2>3. PICK landed \in BOOLEAN : Returned(p, landed)
    BY <1>12 DEF Put
  <2>4. ASSUME NEW r, rec' = [rec EXCEPT ![p] = r], Earned(r) PROVE EarnedInv'
    <3>1. \A q \in Procs : Earned(rec'[q])
      BY <1>0, <2>4 DEF EarnedInv
    <3> QED BY <1>12, <2>2, <3>1 DEF Put, EarnedInv, Earned
  <2>5. CASE rec[p].todo = "begin" /\ Begun(p, landed)
    <3> DEFINE r == [rec[p] EXCEPT !.pc = "work", !.todo = "work", !.out = NoObj,
                       !.sign = IF landed THEN rec[p].out.pass.hb ELSE rec[p].sign]
    <3>1. r.pc = "work"
      BY <1>0 DEF RecType
    <3>2. rec' = [rec EXCEPT ![p] = r]
      BY <1>0, <2>5 DEF Begun, Step, RecType
    <3> HIDE DEF r
    <3> QED BY <2>4, <3>1, <3>2 DEF Earned
  <2>6. ASSUME NEW to \in {"Drifted", "Failed"}, Onward(p, to),
               to = "Drifted" => rec[p].todo = "settle"
        PROVE  EarnedInv'
    <3> DEFINE r == [rec[p] EXCEPT !.pc = "read", !.todo = "phase", !.to = to, !.out = NoObj]
    <3>1. r.pc = "read" /\ r.todo = "phase" /\ r.to = to /\ r.snap = rec[p].snap
      BY <1>0 DEF RecType
    <3>2. rec' = [rec EXCEPT ![p] = r]
      BY <2>6 DEF Onward, Step
    <3> HIDE DEF r
    <3>3. Earned(r)
      BY <2>1, <2>6, <3>1 DEF EarnedInv, Earned, Good
    <3> QED BY <2>4, <3>2, <3>3
  <2>7. ASSUME Step(p, Idle) PROVE EarnedInv'
    BY <1>a, <2>4, <2>7 DEF Step
  <2> QED BY <2>3, <2>5, <2>6, <2>7 DEF Returned, SettleDone, PhaseDone, PhaseFailed
<1>13. ASSUME NEW p \in Procs, Complete(p) PROVE EarnedInv'
  <2>1. PICK h \in Outcomes(rec[p].snap) :
          /\ Step(p, [rec[p] EXCEPT !.pc = "read", !.todo = h[1], !.to = h[2]])
          /\ done' = IF h[2] = "Ready" THEN Larger(done, rec[p].snap.gen) ELSE done
    BY <1>13 DEF Complete
  <2>2. rec[p].snap.phase \in {"Compiling", "Planning", "Applying", "Ready"}
    BY <1>0, <1>13 DEF Complete, At, Recs
  <2>3. h[1] = "settle" \/ h[2] \in Good => h[2] = "Ready"
    BY <2>2 DEF Outcomes, Good
  <2>4. done' \in Gens /\ done' >= done /\ (h[2] = "Ready" => done' >= rec[p].snap.gen)
    BY <1>0, <2>1, LargerGen DEF Gens
  <2> DEFINE r == [rec[p] EXCEPT !.pc = "read", !.todo = h[1], !.to = h[2]]
  <2>5. r.pc = "read" /\ r.todo = h[1] /\ r.to = h[2] /\ r.snap = rec[p].snap
    BY <1>0 DEF RecType
  <2>6. rec' = [rec EXCEPT ![p] = r]
    BY <2>1 DEF Step
  <2> HIDE DEF r
  <2>7. ASSUME NEW q \in Procs PROVE Earned(rec[q])'
    <3>1. CASE q = p
      <4>1. rec'[q] = r
        BY <1>0, <2>6, <3>1
      <4>2. (r.todo = "settle" \/ (r.todo = "phase" /\ r.to \in Good)) => r.snap.gen <= done'
        BY <1>0, <2>3, <2>4, <2>5 DEF Gens
      <4> QED BY <2>5, <4>1, <4>2 DEF Earned
    <3>2. CASE q # p
      <4>1. rec'[q] = rec[q] /\ Earned(rec[q]) /\ rec[q].snap.gen \in Gens
        BY <1>0, <2>6, <3>2 DEF EarnedInv
      <4> QED BY <1>0, <2>4, <4>1 DEF Earned, Gens
    <3> QED BY <3>1, <3>2
  <2>8. obj' = obj /\ flight' = flight
    BY <1>13 DEF Complete
  <2>9. AckIsEarned'
    BY <1>0, <2>4, <2>8 DEF EarnedInv, AckIsEarned, Gens
  <2>10. ASSUME NEW f \in flight', f.todo = "phase", f.out.phase \in Good
         PROVE  f.out.acked <= done'
    <3>1. f.out.acked \in Gens /\ f.out.acked <= done
      BY <2>8, <2>10 DEF EarnedInv, TypeInv, FlightType, ObjType
    <3> QED BY <1>0, <2>4, <3>1 DEF Gens
  <2> QED BY <2>7, <2>9, <2>10 DEF EarnedInv
<1>14. ASSUME NEW p \in Procs, Hang(p) PROVE EarnedInv'
  <2> DEFINE r == [rec[p] EXCEPT !.hung = TRUE]
  <2>1. r.pc = "work"
    BY <1>0, <1>14 DEF Hang, At, RecType
  <2>2. rec' = [rec EXCEPT ![p] = r]
    BY <1>14 DEF Hang, Step
  <2> HIDE DEF r
  <2>3. Earned(r)
    BY <2>1 DEF Earned
  <2> QED BY <1>2, <1>14, <2>2, <2>3 DEF Hang
<1>15. ASSUME NEW p \in Procs, Beat(p) \/ Withdraw(p) PROVE EarnedInv'
  <2>1. obj'.phase = obj.phase /\ obj'.acked = obj.acked
    BY <1>0, <1>15 DEF Beat, Beaten, Withdraw, Write, ObjType
  <2>2. rec' = rec \/ rec' = [rec EXCEPT ![p] = [rec[p] EXCEPT !.sign = 0]]
    BY <1>0, <1>15 DEF Beat, Withdraw
  <2>3. Earned([rec[p] EXCEPT !.sign = 0])
    <3> DEFINE r == [rec[p] EXCEPT !.sign = 0]
    <3>1. r.pc = rec[p].pc /\ r.todo = rec[p].todo /\ r.to = rec[p].to
          /\ r.snap = rec[p].snap /\ r.out = rec[p].out
      BY <1>0 DEF RecType
    <3> HIDE DEF r
    <3>2. Earned(r)
      BY <3>1 DEF EarnedInv, Earned
    <3> QED BY <3>2 DEF r
  <2>4. done' = done /\ flight' = flight
    BY <1>15 DEF Beat, Withdraw
  <2> QED BY <1>2, <1>3, <2>1, <2>2, <2>3, <2>4
<1>16. ASSUME NEW p \in Procs, Judge(p) PROVE EarnedInv'
  <2>1. dog[p].patch \in PatchType /\ dog[p].patch.pass.kind \notin Active
    BY DEF TypeInv, Dogs, DogType
  <2>2. obj'.phase = obj.phase /\ obj'.acked = obj.acked
    BY <1>0, <1>16, <2>1, ProjectedType DEF Judge, Write
  <2> QED BY <1>3, <1>16, <2>2 DEF Judge
<1>17. ASSUME NEW p \in Procs, Nudge(p) PROVE EarnedInv'
  <2>1. CASE Stuck(p)
    BY <1>8, <1>17, <2>1 DEF Nudge, Step
  <2>2. CASE ~Stuck(p)
    BY <1>3, <1>17, <2>2 DEF Nudge
  <2> QED BY <2>1, <2>2
<1>18. CASE UNCHANGED vars
  BY <1>3, <1>18 DEF vars
<1> QED BY <1>4, <1>5, <1>6, <1>7, <1>9, <1>10, <1>11, <1>12, <1>13, <1>14, <1>15, <1>16,
           <1>17, <1>18 DEF Next

\* A template that reads Ready or Drifted acknowledges only a generation that
\* some pass converged: update_phase writes the generation of its snapshot,
\* for any number of processes, edits, faults and writes left on the wire.
THEOREM AckIsEarnedCorrect == Spec => []AckIsEarned
<1>1. Init => EarnedInv
  BY DEF Init, EarnedInv, Earned, AckIsEarned, NewObj, Idle
<1>2. EarnedInv => AckIsEarned
  BY DEF EarnedInv
<1> QED BY <1>1, <1>2, EarnedStep, TypeInvariant, PTL DEF Spec

-----------------------------------------------------------------------------
(***************************************************************************)
(* The two compare-and-swap writes.  A copy that carries the stored        *)
(* resourceVersion agrees with the stored object on what its writer        *)
(* decided by: the cached copy on the kind, the owner and the stall of the *)
(* pass, the beat's answer on the stall it is to withdraw.                 *)
(***************************************************************************)
Agrees(s, t) == s.kind = t.kind /\ s.inc = t.inc /\ s.stall = t.stall

CurrentInv ==
    \A p \in Procs :
      /\ <<"cache", p>> \in current => Lag /\ Agrees(cache[p].pass, obj.pass)
      /\ <<"beat", p>> \in current => Lost(obj.pass)

\* Every write renews the resourceVersion or leaves what the copies say true.
LEMMA CurrentStep == TypeInv /\ CurrentInv /\ [Next]_vars => CurrentInv'
<1> SUFFICES ASSUME TypeInv, CurrentInv, [Next]_vars PROVE CurrentInv'
  OBVIOUS
<1>0. /\ obj \in ObjType /\ obj.pass \in PassType
      /\ \A p \in Procs : cache[p] \in ObjType /\ cache[p].pass \in PassType
  BY DEF TypeInv, ObjType
<1>1. ASSUME current' = {} PROVE CurrentInv'
  BY <1>1 DEF CurrentInv
<1>2. ASSUME UNCHANGED <<obj, cache, current>> PROVE CurrentInv'
  BY <1>2 DEF CurrentInv
<1>3. CASE Tick
  <2>1. obj' = Aged(obj) /\ current' = current /\ \A p \in Procs : cache'[p] = Aged(cache[p])
    BY <1>3 DEF Tick
  <2>2. /\ Aged(obj).pass = AgedPass(obj.pass)
        /\ \A p \in Procs : Aged(cache[p]).pass = AgedPass(cache[p].pass)
    BY <1>0, SeenType
  <2>3. /\ Agrees(AgedPass(obj.pass), obj.pass)
        /\ \A p \in Procs : Agrees(AgedPass(cache[p].pass), cache[p].pass)
    BY <1>0, AgedPassType DEF Agrees
  <2> QED BY <2>1, <2>2, <2>3 DEF CurrentInv, Agrees, Lost
<1>4. ASSUME NEW p \in Procs, Boot(p) \/ Deliver(p) PROVE CurrentInv'
  <2>1. Agrees(Seen(obj).pass, obj.pass)
    BY <1>0, SeenType DEF Agrees
  <2>2. obj' = obj /\ current' \subseteq current \cup {<<"cache", p>>}
    BY <1>4 DEF Boot, Deliver
  <2>3. /\ \A q \in Procs : q # p => cache'[q] = cache[q]
        /\ Lag => cache'[p] = Seen(obj)
        /\ ~Lag => current' = current
    BY <1>4 DEF Boot, Deliver, TypeInv
  <2> QED BY <2>1, <2>2, <2>3 DEF CurrentInv
<1>5. ASSUME NEW p \in Procs, Crash(p) PROVE CurrentInv'
  BY <1>5 DEF Crash, CurrentInv, TypeInv
<1>6. ASSUME NEW p \in Procs, Beat(p) PROVE CurrentInv'
  <2>1. CASE Lost(obj.pass)
    <3>1. obj' = obj /\ current' = {<<"beat", p>>}
      BY <1>6, <2>1 DEF Beat, Beaten, Lost, Active
    <3> QED BY <2>1, <3>1 DEF CurrentInv
  <2>2. CASE ~Lost(obj.pass)
    BY <1>1, <1>6, <2>2 DEF Beat
  <2> QED BY <2>1, <2>2
<1>7. ASSUME NEW p \in Procs, Start(p) \/ Put(p) \/ Withdraw(p) \/ Judge(p) PROVE CurrentInv'
  BY <1>1, <1>2, <1>7 DEF Start, Put, Withdraw, Judge, Write
<1>8. ASSUME NEW p \in Procs, Nudge(p) PROVE CurrentInv'
  BY <1>1, <1>2, <1>8 DEF Nudge
<1>9. ASSUME NEW p \in Procs, Read(p) \/ Complete(p) \/ Hang(p) \/ BeatFails(p) \/ List(p)
      PROVE  CurrentInv'
  BY <1>2, <1>9 DEF Read, Complete, Hang, BeatFails, List
<1>10. CASE Edit \/ \E f \in flight : Land(f)
  BY <1>1, <1>10 DEF Edit, Land, Write
<1>11. CASE UNCHANGED vars
  BY <1>2, <1>11 DEF vars
<1> QED BY <1>3, <1>4, <1>5, <1>6, <1>7, <1>8, <1>9, <1>10, <1>11 DEF Next

\* The copies that carry the stored resourceVersion agree with the object.
LEMMA CurrentInvariant == Spec => []CurrentInv
<1>1. Init => CurrentInv
  BY DEF Init, CurrentInv
<1> QED BY <1>1, CurrentStep, TypeInvariant, PTL DEF Spec

\* A patch that returned, or failed, is no longer the reconcile's next step.
LEMMA ReturnedMoves ==
    ASSUME TypeInv, NEW p \in Procs, NEW landed \in BOOLEAN, Returned(p, landed)
    PROVE  /\ rec'[p].pc # "put"
           /\ \A q \in Procs : q # p => rec'[q] = rec[q]
<1>1. rec \in [Procs -> Recs] /\ rec[p] \in RecType
  BY DEF TypeInv, Recs
<1>2. ASSUME NEW r, rec' = [rec EXCEPT ![p] = r], r.pc # "put"
      PROVE  rec'[p].pc # "put" /\ \A q \in Procs : q # p => rec'[q] = rec[q]
  BY <1>1, <1>2
<1>3. ASSUME Begun(p, landed)
      PROVE  rec'[p].pc # "put" /\ \A q \in Procs : q # p => rec'[q] = rec[q]
  <2> DEFINE r == [rec[p] EXCEPT !.pc = "work", !.todo = "work", !.out = NoObj,
                     !.sign = IF landed THEN rec[p].out.pass.hb ELSE @]
  <2>1. r.pc = "work" /\ rec' = [rec EXCEPT ![p] = r]
    BY <1>1, <1>3 DEF Begun, Step, RecType
  <2> HIDE DEF r
  <2> QED BY <1>2, <2>1
<1>4. ASSUME NEW to, Onward(p, to)
      PROVE  rec'[p].pc # "put" /\ \A q \in Procs : q # p => rec'[q] = rec[q]
  <2> DEFINE r == [rec[p] EXCEPT !.pc = "read", !.todo = "phase", !.to = to, !.out = NoObj]
  <2>1. r.pc = "read" /\ rec' = [rec EXCEPT ![p] = r]
    BY <1>1, <1>4 DEF Onward, Step, RecType
  <2> HIDE DEF r
  <2> QED BY <1>2, <2>1
<1>5. ASSUME Step(p, Idle)
      PROVE  rec'[p].pc # "put" /\ \A q \in Procs : q # p => rec'[q] = rec[q]
  <2>1. Idle.pc # "put" /\ rec' = [rec EXCEPT ![p] = Idle]
    BY <1>5 DEF Step, Idle
  <2> QED BY <1>2, <2>1
<1> QED BY <1>3, <1>4, <1>5 DEF Returned, SettleDone, PhaseDone, PhaseFailed

\* Only the reconcile, or a patch it left on the wire, makes a pass run that
\* had ended or was reset to Pending: beat_once, its withdrawal and the
\* watchdog's projection never do, however old the copy they act on.
THEOREM FinishedNotResurrectedCorrect == Spec => FinishedNotResurrected
<1> DEFINE P == (obj.pass.kind \in {"Settled", "Failed", "Pending"} /\ obj'.pass.kind \in Active)
                 => \/ \E p \in Procs : rec[p].pc = "put" /\ rec'[p].pc # "put"
                    \/ flight' # flight
<1>1. TypeInv /\ CurrentInv /\ [Next]_vars => [P]_vars
  <2> SUFFICES ASSUME TypeInv, CurrentInv, Next,
                      obj.pass.kind \in {"Settled", "Failed", "Pending"}, obj'.pass.kind \in Active,
                      \A p \in Procs : rec[p].pc = "put" => rec'[p].pc = "put",
                      flight' = flight
               PROVE  FALSE
    OBVIOUS
  <2>0. obj \in ObjType /\ obj.pass \in PassType /\ obj'.pass.kind # obj.pass.kind
    BY DEF TypeInv, ObjType, Active
  <2>1. CASE Edit
    BY <2>0, <2>1 DEF Edit, Write, ObjType
  <2>9. CASE Tick
    BY <2>0, <2>9, SeenType, AgedPassType DEF Tick
  <2>2. ASSUME NEW f \in flight, Land(f) PROVE FALSE
    BY <2>2 DEF Land
  <2>3. ASSUME NEW p \in Procs, Put(p) PROVE FALSE
    BY <2>3, ReturnedMoves DEF Put, At
  <2>4. ASSUME NEW p \in Procs, Start(p) PROVE FALSE
    BY <2>0, <2>4 DEF Start, Write, Pending, Pass, ObjType, Active
  <2>5. ASSUME NEW p \in Procs, Beat(p) PROVE FALSE
    BY <2>0, <2>5 DEF Beat, Beaten, Active
  <2>6. ASSUME NEW p \in Procs, Withdraw(p) PROVE FALSE
    BY <2>0, <2>6 DEF Withdraw, CanWithdraw, CurrentInv, Lost
  <2>7. ASSUME NEW p \in Procs, Judge(p) PROVE FALSE
    <3>1. dog[p].patch \in PatchType /\ dog[p].patch.pass.kind \notin Active
      BY DEF TypeInv, Dogs, DogType
    <3>2. obj' = obj \/ obj' = Projected(obj, dog[p].patch)
      BY <2>7 DEF Judge, Write
    <3> QED BY <2>0, <3>1, <3>2, ProjectedType DEF Active
  <2>8. ASSUME NEW p \in Procs, Boot(p) \/ Crash(p) \/ Deliver(p) \/ Read(p) \/ Complete(p)
                 \/ Hang(p) \/ BeatFails(p) \/ List(p) \/ Nudge(p)
        PROVE  FALSE
    BY <2>0, <2>8 DEF Boot, Crash, Deliver, Read, Complete, Hang, BeatFails, List, Nudge
  <2> QED BY <2>1, <2>2, <2>3, <2>4, <2>5, <2>6, <2>7, <2>8, <2>9 DEF Next
<1> QED BY <1>1, TypeInvariant, CurrentInvariant, PTL DEF Spec, FinishedNotResurrected

\* Only the run closure leaves idle.
LEMMA StartLeavesIdle ==
    ASSUME TypeInv, Next, NEW p \in Procs, rec[p].pc = "idle", rec'[p].pc # "idle"
    PROVE  Start(p)
<1>0. rec \in [Procs -> Recs] /\ \A q \in Procs : rec[q] \in RecType
  BY DEF TypeInv, Recs
<1>1. CASE Edit \/ \E f \in flight : Land(f)
  BY <1>1 DEF Edit, Land
<1>2. CASE Tick
  BY <1>0, <1>2 DEF Tick, RecType
<1>3. ASSUME NEW q \in Procs, Put(q) PROVE FALSE
  BY <1>3, ReturnedMoves DEF Put, At
<1>4. ASSUME NEW q \in Procs, Boot(q) \/ Deliver(q) \/ BeatFails(q) \/ List(q) \/ Judge(q)
      PROVE  FALSE
  BY <1>4 DEF Boot, Deliver, BeatFails, List, Judge
<1>5. ASSUME NEW q \in Procs, Crash(q) \/ Nudge(q) PROVE FALSE
  BY <1>0, <1>5 DEF Crash, Nudge, Step, Idle
<1>6. ASSUME NEW q \in Procs, Read(q) \/ Complete(q) PROVE FALSE
  BY <1>0, <1>6 DEF Read, Complete, At, Step
<1>7. ASSUME NEW q \in Procs, Hang(q) \/ Beat(q) \/ Withdraw(q) PROVE FALSE
  BY <1>0, <1>7 DEF Hang, Beat, Withdraw, At, Step, RecType
<1>8. ASSUME NEW q \in Procs, Start(q) PROVE Start(p)
  BY <1>0, <1>8 DEF Start, At, Step
<1> QED BY <1>1, <1>2, <1>3, <1>4, <1>5, <1>6, <1>7, <1>8 DEF Next

\* adopt_orphaned_pass replaces a pass that is orphaned in the stored object
\* and not only in the reflector's copy: its patch carries the copy's
\* resourceVersion, and the copy then agrees with the object.
THEOREM AdoptsOnlyOrphansCorrect == Spec => AdoptsOnlyOrphans
<1> DEFINE P == \A p \in Procs :
                  (rec[p].pc = "idle" /\ rec'[p].pc # "idle" /\ obj'.pass # obj.pass)
                  => Orphaned(obj.pass, p)
<1>1. TypeInv /\ CurrentInv /\ [Next]_vars => [P]_vars
  <2> SUFFICES ASSUME TypeInv, CurrentInv, Next, NEW p \in Procs,
                      rec[p].pc = "idle", rec'[p].pc # "idle", obj'.pass # obj.pass
               PROVE  Orphaned(obj.pass, p)
    OBVIOUS
  <2>1. Start(p)
    BY StartLeavesIdle
  <2>2. Orphaned(Cached(p).pass, p) /\ CanAdopt(p)
    BY <2>1 DEF Start
  <2> QED BY <2>2 DEF Cached, CanAdopt, CurrentInv, Agrees, Orphaned
<1> QED BY <1>1, TypeInvariant, CurrentInvariant, PTL DEF Spec, AdoptsOnlyOrphans

-----------------------------------------------------------------------------
(***************************************************************************)
(* The watchdog aborts a pass without a recent sign of life.  Each crash   *)
(* takes one process down, so faults equals the number of processes down   *)
(* only as long as no call failed and no work hung; then a heartbeat task  *)
(* that is not due has beaten since the last tick, and one that is due, or *)
(* that withdraws a stall, within one tick.                                *)
(***************************************************************************)
Down == {q \in Procs : up[q] = "down"}

Alive(p) ==
    /\ beat[p].mode = "on" /\ ~beat[p].due => rec[p].sign <= 0
    /\ beat[p].mode # "off" => rec[p].sign <= 1

BeatInv ==
    /\ IsFiniteSet(Down) /\ faults >= Cardinality(Down)
    /\ faults = Cardinality(Down) => \A p \in Procs : Alive(p)

\* PassGuard::drop never leaves a task that is to beat again.
LEMMA HushedModes ==
    ASSUME TypeInv, NEW p \in Procs, Hush(p)
    PROVE  /\ beat'[p].mode \in {"off", "late"}
           /\ beat'[p].mode = "late" => beat[p].mode \in {"withdraw", "late"}
           /\ \A q \in Procs : q # p => beat'[q] = beat[q]
<1>1. PICK b \in Hushed(p) : beat' = [beat EXCEPT ![p] = b]
  BY DEF Hush
<1>2. beat \in [Procs -> BeatType] /\ beat[p] \in BeatType
  BY DEF TypeInv
<1>3. /\ b.mode \in {"off", "late"}
      /\ b.mode = "late" => beat[p].mode \in {"withdraw", "late"}
  BY <1>2 DEF Hushed, Quiet, BeatType
<1> QED BY <1>1, <1>2, <1>3

\* A fault that is no crash breaks the balance for good; every other step
\* keeps the signs of life recent.
LEMMA BeatStep ==
    ASSUME Heartbeat >= 1
    PROVE  TypeInv /\ BeatInv /\ [Next]_vars => BeatInv'
<1> SUFFICES ASSUME TypeInv, BeatInv, [Next]_vars PROVE BeatInv'
  OBVIOUS
<1> USE Numbers
<1>0. /\ rec \in [Procs -> Recs] /\ beat \in [Procs -> BeatType] /\ faults \in Nat
      /\ up \in [Procs -> {"new", "up", "down"}]
      /\ \A p \in Procs : rec[p] \in RecType /\ beat[p] \in BeatType
                          /\ rec[p].sign \in Nat \cup {None}
  BY AgesFacts DEF TypeInv, Recs, RecType
<1>1. Cardinality(Down) \in Nat
  BY FS_CardinalityType DEF BeatInv
<1>2. ASSUME up' = up, faults' = faults + 1 PROVE BeatInv'
  <2>1. Down' = Down
    BY <1>2 DEF Down
  <2>2. Cardinality(Down') = Cardinality(Down)
    BY <2>1, Zenon
  <2> QED BY <1>0, <1>1, <1>2, <2>1, <2>2 DEF BeatInv
<1>3. ASSUME Down' = Down, faults' = faults,
             faults = Cardinality(Down) => \A p \in Procs : Alive(p)'
      PROVE  BeatInv'
  <2>1. Cardinality(Down') = Cardinality(Down)
    BY <1>3, Zenon
  <2> QED BY <1>3, <2>1 DEF BeatInv
<1>4. ASSUME UNCHANGED <<rec, beat, up, faults>> PROVE BeatInv'
  <2>1. Down' = Down
    BY <1>4 DEF Down
  <2>2. Cardinality(Down') = Cardinality(Down)
    BY <2>1, Zenon
  <2> QED BY <1>4, <2>1, <2>2 DEF BeatInv, Alive
<1>5. ASSUME NEW p \in Procs, up' = up, faults' = faults,
             \A q \in Procs : q # p => beat'[q] = beat[q] /\ rec'[q] = rec[q],
             faults = Cardinality(Down) => Alive(p)'
      PROVE  BeatInv'
  <2>1. Down' = Down
    BY <1>5 DEF Down
  <2>2. faults = Cardinality(Down) => \A q \in Procs : Alive(q)'
    BY <1>5 DEF BeatInv, Alive
  <2> QED BY <1>3, <1>5, <2>1, <2>2
<1>6. ASSUME NEW p \in Procs, Alive(p), Hush(p), rec'[p].sign = rec[p].sign \/ rec'[p].sign = None
      PROVE  Alive(p)'
  BY <1>0, <1>6, HushedModes DEF Alive
<1>7. Idle.sign = None
  BY DEF Idle
<1>8. CASE Tick
  <2>1. Down' = Down /\ faults' = faults
    BY <1>8 DEF Tick, Down
  <2>2. ASSUME NEW p \in Procs, Alive(p) PROVE Alive(p)'
    <3>1. beat[p].mode \in {"off", "on"} /\ ~beat[p].due
      BY <1>0, <1>8 DEF Tick, Calling, BeatType
    <3>2. beat'[p].mode = beat[p].mode /\ (beat[p].mode = "on" => beat'[p].due)
      BY <1>0, <1>8 DEF Tick, BeatType
    <3>3. rec'[p].sign = Older(rec[p].sign, Heartbeat)
      BY <1>0, <1>8 DEF Tick, RecType
    <3>4. beat[p].mode = "on" => rec[p].sign <= 0
      BY <2>2, <3>1 DEF Alive
    <3>5. beat[p].mode = "on" => rec'[p].sign <= 1
      BY <1>0, <3>3, <3>4 DEF Older
    <3> QED BY <3>1, <3>2, <3>5 DEF Alive
  <2> QED BY <1>3, <2>1, <2>2 DEF BeatInv
<1>9. ASSUME NEW p \in Procs, Crash(p) PROVE BeatInv'
  <2>1. p \notin Down /\ Down' = Down \cup {p} /\ faults' = faults + 1
    BY <1>0, <1>9 DEF Crash, Fault, Down
  <2>2. Cardinality(Down') = Cardinality(Down \cup {p})
    BY <2>1, Zenon
  <2>3. IsFiniteSet(Down) /\ IsFiniteSet(Down \cup {p})
        /\ Cardinality(Down \cup {p}) = Cardinality(Down) + 1
    BY <2>1, FS_AddElement DEF BeatInv
  <2>4. Hush(p) /\ rec'[p] = Idle /\ \A q \in Procs : q # p => rec'[q] = rec[q]
    BY <1>0, <1>9 DEF Crash, Step
  <2>5. ASSUME \A q \in Procs : Alive(q) PROVE \A q \in Procs : Alive(q)'
    BY <1>6, <1>7, <2>4, <2>5, HushedModes DEF Alive
  <2> QED BY <1>0, <1>1, <2>1, <2>2, <2>3, <2>5 DEF BeatInv
<1>10. ASSUME NEW p \in Procs, Boot(p) PROVE BeatInv'
  <2>1. Down' = Down /\ UNCHANGED <<rec, beat, faults>>
    BY <1>0, <1>10 DEF Boot, Down
  <2> QED BY <1>3, <2>1 DEF BeatInv, Alive
<1>11. ASSUME NEW p \in Procs, Start(p) PROVE BeatInv'
  <2>1. /\ UNCHANGED <<beat, up, faults>> /\ rec'[p].sign = 0
        /\ \A q \in Procs : q # p => rec'[q] = rec[q]
    BY <1>0, <1>11 DEF Start, Step, Idle
  <2>2. Alive(p)'
    BY <2>1 DEF Alive
  <2> QED BY <1>5, <2>1, <2>2
<1>12. ASSUME NEW p \in Procs, Read(p) PROVE BeatInv'
  <2>1. /\ UNCHANGED <<beat, up>> /\ (faults' = faults \/ faults' = faults + 1)
        /\ rec'[p].sign = rec[p].sign
        /\ \A q \in Procs : q # p => rec'[q] = rec[q]
    BY <1>0, <1>12 DEF Read, Step, Fault, RecType
  <2>2. Alive(p) => Alive(p)'
    BY <2>1 DEF Alive
  <2> QED BY <1>2, <1>5, <2>1, <2>2 DEF BeatInv
<1>13. ASSUME NEW p \in Procs, Put(p) PROVE BeatInv'
  <2>0. up' = up /\ rec[p].pc = "put"
    BY <1>13 DEF Put, At
  <2>1. CASE Fault("call")
    BY <1>2, <2>0, <2>1 DEF Fault
  <2>2. CASE Returned(p, TRUE) /\ faults' = faults
    <3>1. \A q \in Procs : q # p => rec'[q] = rec[q]
      BY <2>2, ReturnedMoves
    <3>2. CASE rec[p].todo = "begin" /\ Begun(p, TRUE)
      <4>1. rec[p].out.pass.hb = 0
        BY <1>0, <2>0, <3>2 DEF Recs
      <4>2. rec'[p].sign = 0
        BY <1>0, <3>2, <4>1 DEF Begun, Step, RecType
      <4>3. \A q \in Procs : q # p => beat'[q] = beat[q]
        BY <1>0, <3>2 DEF Begun
      <4>4. Alive(p)'
        BY <4>2 DEF Alive
      <4> QED BY <1>5, <2>0, <2>2, <3>1, <4>3, <4>4
    <3>3. ASSUME rec'[p].sign = rec[p].sign \/ rec'[p].sign = None, UNCHANGED beat \/ Hush(p)
          PROVE  BeatInv'
      <4>1. \A q \in Procs : q # p => beat'[q] = beat[q]
        BY <3>3, HushedModes
      <4>2. Alive(p) => Alive(p)'
        BY <1>0, <1>6, <3>3 DEF Alive
      <4> QED BY <1>5, <2>0, <2>2, <3>1, <4>1, <4>2 DEF BeatInv
    <3>4. ASSUME Step(p, Idle) PROVE rec'[p].sign = None
      BY <1>0, <1>7, <3>4 DEF Step
    <3>5. ASSUME NEW to, Onward(p, to) PROVE rec'[p].sign = rec[p].sign
      BY <1>0, <3>5 DEF Onward, Step, RecType
    <3>6. CASE SettleDone(p)
      BY <3>3, <3>4, <3>5, <3>6 DEF SettleDone
    <3>7. CASE PhaseDone(p)
      BY <3>3, <3>4, <3>7 DEF PhaseDone
    <3> QED BY <2>2, <3>2, <3>6, <3>7 DEF Returned
  <2> QED BY <1>13, <2>1, <2>2 DEF Put
<1>14. ASSUME NEW p \in Procs, Complete(p) PROVE BeatInv'
  <2>1. UNCHANGED <<up, faults>> /\ (UNCHANGED beat \/ Hush(p))
    BY <1>14 DEF Complete
  <2>2. rec'[p].sign = rec[p].sign /\ \A q \in Procs : q # p => rec'[q] = rec[q]
    BY <1>0, <1>14 DEF Complete, Step, RecType
  <2>3. \A q \in Procs : q # p => beat'[q] = beat[q]
    BY <2>1, HushedModes
  <2>4. Alive(p) => Alive(p)'
    BY <1>0, <1>6, <2>1, <2>2 DEF Alive
  <2> QED BY <1>5, <2>1, <2>2, <2>3, <2>4 DEF BeatInv
<1>15. ASSUME NEW p \in Procs, Hang(p) \/ BeatFails(p) PROVE BeatInv'
  BY <1>2, <1>15 DEF Hang, BeatFails, Fault
<1>16. ASSUME NEW p \in Procs, Beat(p) PROVE BeatInv'
  <2>1. CASE Lost(obj.pass)
    <3>1. /\ beat'[p].mode = "withdraw" /\ rec' = rec /\ beat[p].mode = "on"
          /\ \A q \in Procs : q # p => beat'[q] = beat[q]
      BY <1>0, <1>16, <2>1 DEF Beat, BeatType
    <3>2. Alive(p) => Alive(p)'
      BY <3>1 DEF Alive
    <3> QED BY <1>5, <1>16, <3>1, <3>2 DEF Beat, BeatInv
  <2>2. CASE ~Lost(obj.pass)
    <3>1. /\ rec'[p].sign = 0
          /\ \A q \in Procs : q # p => beat'[q] = beat[q] /\ rec'[q] = rec[q]
      BY <1>0, <1>16, <2>2 DEF Beat, RecType
    <3>2. Alive(p)'
      BY <3>1 DEF Alive
    <3> QED BY <1>5, <1>16, <3>1, <3>2 DEF Beat
  <2> QED BY <2>1, <2>2
<1>17. ASSUME NEW p \in Procs, Withdraw(p) PROVE BeatInv'
  <2>1. \A q \in Procs : q # p => beat'[q] = beat[q] /\ rec'[q] = rec[q]
    BY <1>0, <1>17 DEF Withdraw
  <2>2. beat'[p].mode = "off" \/ rec'[p].sign = 0
    BY <1>0, <1>17 DEF Withdraw, Quiet, RecType, BeatType
  <2>3. Alive(p)'
    BY <2>2 DEF Alive
  <2> QED BY <1>5, <1>17, <2>1, <2>3 DEF Withdraw
<1>18. ASSUME NEW p \in Procs, Judge(p) PROVE BeatInv'
  BY <1>2, <1>4, <1>18 DEF Judge, Fault
<1>19. ASSUME NEW p \in Procs, Nudge(p) PROVE BeatInv'
  <2>1. up' = up /\ (faults' = faults \/ faults' = faults + 1)
    BY <1>19 DEF Nudge, Fault
  <2>2. CASE ~Stuck(p)
    BY <1>2, <1>4, <1>19, <2>1, <2>2 DEF Nudge
  <2>3. CASE Stuck(p)
    <3>1. Hush(p) /\ rec'[p] = Idle /\ \A q \in Procs : q # p => rec'[q] = rec[q]
      BY <1>0, <1>19, <2>3 DEF Nudge, Step
    <3>2. Alive(p) => Alive(p)'
      BY <1>6, <1>7, <3>1
    <3>3. \A q \in Procs : q # p => beat'[q] = beat[q]
      BY <3>1, HushedModes
    <3> QED BY <1>2, <1>5, <2>1, <3>1, <3>2, <3>3 DEF BeatInv
  <2> QED BY <2>2, <2>3
<1>20. ASSUME NEW p \in Procs, Deliver(p) \/ List(p) PROVE BeatInv'
  BY <1>4, <1>20 DEF Deliver, List
<1>21. CASE Edit \/ \E f \in flight : Land(f)
  BY <1>4, <1>21 DEF Edit, Land
<1>22. CASE UNCHANGED vars
  BY <1>4, <1>22 DEF vars
<1> QED BY <1>8, <1>9, <1>10, <1>11, <1>12, <1>13, <1>14, <1>15, <1>16, <1>17, <1>18, <1>19,
           <1>20, <1>21, <1>22 DEF Next

\* Unless an API call failed or the work hung, redispatch aborts no pass that
\* works under a PassGuard, whatever record a dead process left behind,
\* provided the heartbeat deadline is at least one heartbeat interval.
THEOREM BeatingPassNotAbortedCorrect ==
    Heartbeat >= 1 => (Spec => BeatingPassNotAborted)
<1> SUFFICES ASSUME Heartbeat >= 1 PROVE Spec => BeatingPassNotAborted
  OBVIOUS
<1> DEFINE P == \A p \in Procs :
                  (rec[p].pc = "work" /\ beat[p].mode # "off" /\ rec'[p] = Idle /\ up'[p] = "up")
                  => faults > Cardinality({q \in Procs : up[q] = "down"})
<1>1. Init => BeatInv
  <2> SUFFICES ASSUME Init PROVE BeatInv
    OBVIOUS
  <2>1. Down = {}
    BY DEF Init, Down
  <2>2. IsFiniteSet(Down) /\ Cardinality(Down) = 0
    BY <2>1, FS_EmptySet, Zenon
  <2> QED BY <2>2 DEF Init, BeatInv, Alive, Quiet
<1>2. TypeInv /\ BeatInv /\ [Next]_vars => [P]_vars
  <2> SUFFICES ASSUME TypeInv, BeatInv, Next, NEW p \in Procs,
                      rec[p].pc = "work", beat[p].mode # "off", rec'[p] = Idle, up'[p] = "up"
               PROVE  faults > Cardinality(Down)
    BY DEF Down
  <2>0. /\ rec \in [Procs -> Recs] /\ Idle.pc = "idle"
        /\ \A q \in Procs : rec[q] \in RecType
    BY DEF TypeInv, Recs, Idle
  <2>1. Cardinality(Down) \in Nat /\ faults \in Nat
    BY FS_CardinalityType DEF BeatInv, TypeInv
  <2>2. Stuck(p)
    <3>1. CASE Edit \/ \E f \in flight : Land(f)
      BY <2>0, <3>1 DEF Edit, Land
    <3>2. CASE Tick
      BY <2>0, <3>2 DEF Tick, RecType
    <3>3. ASSUME NEW q \in Procs, Put(q) PROVE FALSE
      BY <2>0, <3>3, ReturnedMoves DEF Put, At
    <3>4. ASSUME NEW q \in Procs, Boot(q) \/ Deliver(q) \/ BeatFails(q) \/ List(q) \/ Judge(q)
          PROVE  FALSE
      BY <2>0, <3>4 DEF Boot, Deliver, BeatFails, List, Judge
    <3>5. ASSUME NEW q \in Procs, Crash(q) PROVE FALSE
      BY <2>0, <3>5 DEF Crash, Step, TypeInv
    <3>6. ASSUME NEW q \in Procs, Start(q) \/ Read(q) \/ Complete(q) PROVE FALSE
      BY <2>0, <3>6 DEF Start, Read, Complete, At, Step, RecType
    <3>7. ASSUME NEW q \in Procs, Hang(q) \/ Beat(q) \/ Withdraw(q) PROVE FALSE
      BY <2>0, <3>7 DEF Hang, Beat, Withdraw, At, Step, RecType
    <3>8. ASSUME NEW q \in Procs, Nudge(q) PROVE Stuck(p)
      BY <2>0, <3>8 DEF Nudge, Step
    <3> QED BY <3>1, <3>2, <3>3, <3>4, <3>5, <3>6, <3>7, <3>8 DEF Next
  <2>3. rec[p].sign \in Nat \cup {None}
    BY <2>0, AgesFacts DEF RecType
  <2> QED BY <2>1, <2>2, <2>3, Numbers DEF Stuck, BeatInv, Alive
<1> QED BY <1>1, <1>2, BeatStep, TypeInvariant, PTL DEF Spec, BeatingPassNotAborted
=============================================================================
