------------------------------- MODULE FlowProofs -------------------------------
(* Proofs about Flow for any steps, dependencies and bounds: what toposort        *)
(* returns, that a template is built on outputs of its dependencies, and the      *)
(* types; at the end the types of the queue and the flow together. Toposort is a  *)
(* fold: instead of by induction, what it returns is found from a smallest set of *)
(* steps on which it would return something else.                                 *)
EXTENDS MCDispatch, LeafQueueProofs

--------------------------------------------------------------------------------
(* One turn of toposort. *)

(* An order so far: of distinct steps, each after all its dependencies. *)
SoundOrder(g, o) ==
  /\ o \in Seq(Steps)
  /\ \A i, j \in 1 .. Len(o) : o[i] = o[j] => i = j
  /\ \A i \in 1 .. Len(o) : \A d \in g[o[i]] : \E j \in 1 .. i - 1 : o[j] = d

(* A set of numbers that is not empty has a smallest one. *)
LEMMA SmallestNumber ==
  ASSUME NEW B \in SUBSET Nat, B # {}
  PROVE  \E m \in B : \A n \in B : m <= n
<1> DEFINE R == {ss \in Nat \X Nat : ss[1] < ss[2]}
<1>1. IsWellFoundedOn(R, Nat)
  BY NatLessThanWellFounded, Zenon DEF OpToRel
<1> HIDE DEF R
<1>2. PICK x \in B : \A y \in B : ~(<<y, x>> \in R)
  BY <1>1, WFMin
<1>3. ASSUME NEW y \in B PROVE x <= y
  <2>1. x \in Nat /\ y \in Nat /\ <<y, x>> \notin R
    BY <1>2
  <2>2. ~(y < x)
    BY <2>1 DEF R
  <2> QED BY <2>1, <2>2
<1> QED BY <1>3

(* Of sets of steps there is one that contains no other of them. *)
LEMMA SmallestSet ==
  ASSUME NEW C \in SUBSET SUBSET Steps, C # {}
  PROVE  \E t \in C : \A u \in C : u \subseteq t => u = t
<1>1. IsWellFoundedOn(StrictSubsetOrdering(Steps), SUBSET Steps)
  BY FlowAssumption, FS_StrictSubsetOrderingWellFounded, FS_FiniteSubsetsOfFinite
<1>2. PICK t \in C : \A u \in C : ~(<<u, t>> \in StrictSubsetOrdering(Steps))
  BY <1>1, WFMin
<1>3. ASSUME NEW u \in C, u \subseteq t PROVE u = t
  BY <1>2, <1>3 DEF StrictSubsetOrdering
<1> QED BY <1>3

(* Any steps have a largest one, which Max chooses. *)
LEMMA MaxOf ==
  ASSUME NEW S \in SUBSET Steps, S # {}
  PROVE  Max(S) \in S /\ \A x \in S : Max(S) >= x
<1> DEFINE HasMax(t) == \E x \in t : \A y \in t : x >= y
           C == {t \in SUBSET Steps : t # {} /\ ~HasMax(t)}
<1>1. C = {}
  <2> SUFFICES ASSUME C # {} PROVE FALSE
    OBVIOUS
  <2>0. C \in SUBSET SUBSET Steps
    OBVIOUS
  <2>a. \E t \in C : \A u \in C : u \subseteq t => u = t
    <3> HIDE DEF C
    <3> QED BY <2>0, SmallestSet
  <2>1. PICK t \in C : \A u \in C : u \subseteq t => u = t
    BY <2>a
  <2>2. PICK x \in t : TRUE
    OBVIOUS
  <2>3. t \ {x} \notin C /\ t \ {x} \in SUBSET Steps /\ t \in SUBSET Nat
    BY <2>1, FlowAssumption
  <2>4. CASE t \ {x} = {}
    <3>1. \A y \in t : x >= y
      BY <2>3, <2>4
    <3> QED BY <3>1
  <2>5. CASE t \ {x} # {}
    <3>1. PICK z \in t \ {x} : \A y \in t \ {x} : z >= y
      BY <2>3, <2>5
    <3>2. HasMax(t)
      BY <2>3, <3>1
    <3> QED BY <3>2
  <2> QED BY <2>4, <2>5
<1>2. HasMax(S)
  BY <1>1
<1> QED BY <1>2 DEF Max

(* A turn that finds a step with all its dependencies placed puts it behind them. *)
LEMMA ExtendedSound ==
  ASSUME NEW g \in [Steps -> SUBSET Steps], NEW o, SoundOrder(g, o)
  PROVE  /\ SoundOrder(g, Extended(g, o))
         /\ OpenTo(g, Placed(o)) # {} => Len(Extended(g, o)) = Len(o) + 1
<1> DEFINE open == OpenTo(g, Placed(o))
           m == Max(open)
<1>1. CASE open = {}
  BY <1>1 DEF Extended
<1>2. CASE open # {}
  <2>1. m \in open
    BY <1>2, MaxOf DEF OpenTo
  <2> HIDE DEF m
  <2>2. m \in Steps /\ m \notin Placed(o) /\ g[m] \subseteq Placed(o)
    BY <2>1 DEF OpenTo
  <2>3. Extended(g, o) = Append(o, m)
    BY <1>2 DEF Extended, m
  <2>4. o \in Seq(Steps) /\ Len(o) \in Nat /\ DOMAIN o = 1 .. Len(o)
    BY DEF SoundOrder
  <2> DEFINE p == Append(o, m)
  <2>5. /\ p \in Seq(Steps) /\ Len(p) = Len(o) + 1
        /\ \A i \in 1 .. Len(o) : p[i] = o[i]
        /\ p[Len(o) + 1] = m
    BY <2>2, <2>4
  <2> HIDE DEF p
  <2>6. \A i \in 1 .. Len(o) : o[i] # m
    BY <2>2, <2>4 DEF Placed
  <2>7. \A i, j \in 1 .. Len(p) : p[i] = p[j] => i = j
    BY <2>4, <2>5, <2>6 DEF SoundOrder
  <2>8. ASSUME NEW i \in 1 .. Len(p), NEW d \in g[p[i]]
        PROVE  \E j \in 1 .. i - 1 : p[j] = d
    <3>1. CASE i = Len(o) + 1
      <4>1. PICK j \in 1 .. Len(o) : o[j] = d
        BY <2>2, <2>4, <2>5, <2>8, <3>1 DEF Placed
      <4> QED BY <2>4, <2>5, <3>1, <4>1
    <3>2. CASE i \in 1 .. Len(o)
      <4>1. PICK j \in 1 .. i - 1 : o[j] = d
        BY <2>5, <2>8, <3>2 DEF SoundOrder
      <4> QED BY <2>4, <2>5, <3>2, <4>1
    <3> QED BY <2>4, <2>5, <3>1, <3>2
  <2> QED BY <2>3, <2>5, <2>7, <2>8 DEF SoundOrder, p
<1> QED BY <1>1, <1>2

(* A turn that finds none although steps are left has found a cycle: among the    *)
(* steps left each has a dependency that is left ("Cycle detected").              *)
LEMMA StuckOnCycle ==
  ASSUME NEW g \in [Steps -> SUBSET Steps], NEW done \in SUBSET Steps,
         OpenTo(g, done) = {}, done # Steps
  PROVE  ~Acyclic(g)
<1>1. Steps \ done # {} /\ \A s \in Steps \ done : g[s] \cap (Steps \ done) # {}
  BY DEF OpenTo
<1> QED BY <1>1 DEF Acyclic

--------------------------------------------------------------------------------
(* The loop of toposort, one turn per step. Toposort is a fold over the steps,    *)
(* whose function is chosen to satisfy its equation: such a function has to be    *)
(* shown to exist before the equation may be used.                                *)
Any(s) == CHOOSE x \in s : TRUE
Turns(g, f) ==
  [s \in SUBSET Steps |-> IF s = {} THEN <<>> ELSE Extended(g, f[s \ {Any(s)}])]
Loop(g) == CHOOSE f : f = Turns(g, f)

LEMMA ToposortIsLoop ==
  ASSUME NEW g PROVE Toposort(g) = Loop(g)[Steps]
BY DEF Toposort, FoldSet, MapThenFoldSet, Loop, Turns, Any

(* A turn keeps a sequence of steps. *)
LEMMA ExtendedType ==
  ASSUME NEW g, NEW o \in Seq(Steps) PROVE Extended(g, o) \in Seq(Steps)
<1> DEFINE open == OpenTo(g, Placed(o))
<1>1. CASE open = {}
  BY <1>1 DEF Extended
<1>2. CASE open # {}
  <2>1. Max(open) \in Steps
    BY <1>2, MaxOf DEF OpenTo
  <2> QED BY <1>2, <2>1 DEF Extended
<1> QED BY <1>1, <1>2

LEMMA CountSteps ==
  ASSUME NEW s \in SUBSET Steps
  PROVE  /\ IsFiniteSet(s) /\ Cardinality(s) \in Nat /\ Cardinality(s) <= Cardinality(Steps)
         /\ Cardinality(Steps) \in Nat
         /\ s # {} => /\ Any(s) \in s
                      /\ Cardinality(s \ {Any(s)}) \in Nat
                      /\ Cardinality(s) = Cardinality(s \ {Any(s)}) + 1
<1>1. IsFiniteSet(s) /\ Cardinality(s) <= Cardinality(Steps)
  BY FlowAssumption, FS_Subset
<1>2. Cardinality(s) \in Nat /\ Cardinality(Steps) \in Nat
  BY <1>1, FlowAssumption, FS_CardinalityType
<1>3. ASSUME s # {} PROVE Any(s) \in s
  BY <1>3 DEF Any
<1>4. ASSUME s # {}
      PROVE  Cardinality(s \ {Any(s)}) \in Nat /\ Cardinality(s) = Cardinality(s \ {Any(s)}) + 1
  <2>1. IsFiniteSet(s \ {Any(s)}) /\ Cardinality(s \ {Any(s)}) = Cardinality(s) - 1
    BY <1>1, <1>3, <1>4, FS_RemoveElement
  <2>2. Cardinality(s \ {Any(s)}) \in Nat
    BY <2>1, FS_CardinalityType
  <2> QED BY <1>2, <2>1, <2>2
<1> QED BY <1>1, <1>2, <1>3, <1>4

(* Some function does what the loop does: turns on the sets of up to k steps make *)
(* one that is right on the sets of k + 1.                                        *)
LEMMA LoopIsTurns ==
  ASSUME NEW g PROVE Loop(g) = Turns(g, Loop(g))
<1> DEFINE F == [SUBSET Steps -> Seq(Steps)]
           Right(f, k) == \A s \in SUBSET Steps : Cardinality(s) < k => f[s] = Turns(g, f)[s]
           B == {k \in Nat : ~\E f \in F : Right(f, k)}
<1>0. /\ Cardinality(Steps) + 1 \in Nat
      /\ \A s \in SUBSET Steps : /\ Cardinality(s) \in Nat
                                 /\ ~(Cardinality(s) < 0)
                                 /\ Cardinality(s) < Cardinality(Steps) + 1
  <2>1. ASSUME NEW s \in SUBSET Steps
        PROVE  /\ Cardinality(s) \in Nat /\ Cardinality(Steps) \in Nat
               /\ Cardinality(s) <= Cardinality(Steps)
    BY CountSteps
  <2>2. Cardinality(Steps) \in Nat
    BY FlowAssumption, FS_CardinalityType
  <2> QED BY <2>1, <2>2
<1>1. ASSUME NEW f \in F PROVE Turns(g, f) \in F
  <2>1. ASSUME NEW s \in SUBSET Steps
        PROVE  (IF s = {} THEN <<>> ELSE Extended(g, f[s \ {Any(s)}])) \in Seq(Steps)
    <3>1. s \ {Any(s)} \in SUBSET Steps
      OBVIOUS
    <3>2. f[s \ {Any(s)}] \in Seq(Steps)
      BY <3>1
    <3> QED BY <3>2, ExtendedType
  <2> QED BY <2>1 DEF Turns
<1>2. ASSUME NEW k \in Nat, NEW f \in F, Right(f, k) PROVE Right(Turns(g, f), k + 1)
  <2> SUFFICES ASSUME NEW s \in SUBSET Steps, Cardinality(s) < k + 1
               PROVE  Turns(g, f)[s] = Turns(g, Turns(g, f))[s]
    OBVIOUS
  <2>1. CASE s = {}
    BY <2>1 DEF Turns
  <2>2. CASE s # {}
    <3> DEFINE u == s \ {Any(s)}
    <3>1. u \in SUBSET Steps /\ Cardinality(u) < k
      BY <2>2, CountSteps
    <3>2. f[u] = Turns(g, f)[u]
      BY <1>2, <3>1
    <3>3. \A h : Turns(g, h)[s] = Extended(g, h[u])
      BY <2>2 DEF Turns
    <3> QED BY <3>2, <3>3
  <2> QED BY <2>1, <2>2
<1>3. B = {}
  <2> SUFFICES ASSUME B # {} PROVE FALSE
    OBVIOUS
  <2>1. PICK m \in B : \A n \in B : m <= n
    BY SmallestNumber
  <2>2. m # 0
    <3>1. [s \in SUBSET Steps |-> <<>>] \in F
      OBVIOUS
    <3>2. Right([s \in SUBSET Steps |-> <<>>], 0)
      BY <1>0
    <3> QED BY <3>1, <3>2
  <2>3. m - 1 \in Nat /\ m - 1 \notin B
    <3>1. m \in Nat /\ m - 1 \in Nat /\ ~(m <= m - 1)
      BY <2>2
    <3> HIDE DEF B
    <3> QED BY <2>1, <3>1
  <2>4. PICK f \in F : Right(f, m - 1)
    BY <2>3
  <2> HIDE DEF F, Right
  <2>5. Turns(g, f) \in F /\ Right(Turns(g, f), (m - 1) + 1)
    BY <1>1, <1>2, <2>3, <2>4
  <2>6. (m - 1) + 1 = m
    BY <2>3
  <2>7. Right(Turns(g, f), m)
    BY <2>5, <2>6
  <2> QED BY <2>5, <2>7
<1>5. PICK f \in F : Right(f, Cardinality(Steps) + 1)
  BY <1>0, <1>3
<1>6. f = Turns(g, f)
  <2>1. \A s \in SUBSET Steps : f[s] = Turns(g, f)[s]
    BY <1>0, <1>5
  <2>2. Turns(g, f) \in F
    BY <1>1
  <2> HIDE DEF Right
  <2> QED BY <2>1, <2>2
<1> QED BY <1>6, Zenon DEF Loop

(* After a turn for each of the steps s the order is sound, and either every turn *)
(* placed a step or no step is left that could be placed.                         *)
LEMMA LoopSound ==
  ASSUME NEW g \in [Steps -> SUBSET Steps], NEW s \in SUBSET Steps
  PROVE  /\ SoundOrder(g, Loop(g)[s])
         /\ \/ Len(Loop(g)[s]) = Cardinality(s)
            \/ OpenTo(g, Placed(Loop(g)[s])) = {}
<1> DEFINE P(t) == /\ SoundOrder(g, Loop(g)[t])
                   /\ \/ Len(Loop(g)[t]) = Cardinality(t)
                      \/ OpenTo(g, Placed(Loop(g)[t])) = {}
           C == {t \in SUBSET Steps : ~P(t)}
<1> SUFFICES ASSUME C # {} PROVE FALSE
  OBVIOUS
<1>0. C \in SUBSET SUBSET Steps
  OBVIOUS
<1>a. \E t \in C : \A u \in C : u \subseteq t => u = t
  <2> HIDE DEF C
  <2> QED BY <1>0, SmallestSet
<1>1. PICK t \in C : \A u \in C : u \subseteq t => u = t
  BY <1>a
<1>2. t \in SUBSET Steps /\ ~P(t)
  OBVIOUS
<1>3. CASE t = {}
  <2>1. Loop(g)[t] = <<>>
    BY <1>3, LoopIsTurns DEF Turns
  <2>2. SoundOrder(g, <<>>)
    BY DEF SoundOrder
  <2>3. Len(<<>>) = 0 /\ Cardinality(t) = 0
    BY <1>3, FS_EmptySet
  <2>4. P(t)
    BY <2>1, <2>2, <2>3
  <2> QED BY <1>2, <2>4
<1>4. CASE t # {}
  <2> DEFINE u == t \ {Any(t)}
             o == Loop(g)[u]
  <2>1. Any(t) \in t /\ u \in SUBSET Steps /\ Cardinality(u) \in Nat
        /\ Cardinality(t) = Cardinality(u) + 1
    BY <1>2, <1>4, CountSteps
  <2>2. P(u)
    <3>1. u \subseteq t /\ u # t
      BY <2>1
    <3>2. u \notin C
      <4> HIDE DEF C, u
      <4> QED BY <1>1, <3>1
    <3> HIDE DEF P, u
    <3> QED BY <2>1, <3>2
  <2>3. Loop(g)[t] = Extended(g, o)
    BY <1>2, <1>4, LoopIsTurns DEF Turns
  <2> HIDE DEF u, o
  <2>4. SoundOrder(g, o) /\ (Len(o) = Cardinality(u) \/ OpenTo(g, Placed(o)) = {})
    BY <2>2 DEF o
  <2>5. /\ SoundOrder(g, Extended(g, o))
        /\ OpenTo(g, Placed(o)) # {} => Len(Extended(g, o)) = Len(o) + 1
    BY <2>4, ExtendedSound
  <2>6. OpenTo(g, Placed(o)) = {} => Extended(g, o) = o
    BY DEF Extended
  <2>7. P(t)
    <3>1. CASE OpenTo(g, Placed(o)) = {}
      BY <2>3, <2>5, <2>6, <3>1
    <3>2. CASE OpenTo(g, Placed(o)) # {}
      BY <2>1, <2>3, <2>4, <2>5, <3>2
    <3> QED BY <3>1, <3>2
  <2> QED BY <1>2, <2>7
<1> QED BY <1>3, <1>4

(* A sound order has every step exactly when it has as many entries as steps.     *)
LEMMA FullOrder ==
  ASSUME NEW g, NEW o, SoundOrder(g, o)
  PROVE  (Len(o) = Cardinality(Steps)) <=> (Placed(o) = Steps)
<1>1. o \in Seq(Steps) /\ Len(o) \in Nat /\ DOMAIN o = 1 .. Len(o) /\ o \in [1 .. Len(o) -> Steps]
  BY DEF SoundOrder
<1>2. o \in Injection(1 .. Len(o), Steps)
  BY <1>1 DEF SoundOrder, Injection, IsInjective
<1>3. Cardinality(1 .. Len(o)) = Len(o)
  BY <1>1, FS_Interval
<1>4. (Cardinality(1 .. Len(o)) = Cardinality(Steps)) <=> o \in Surjection(1 .. Len(o), Steps)
  BY <1>2, FlowAssumption, FS_Injection
<1>5. o \in Surjection(1 .. Len(o), Steps) <=> Placed(o) = Steps
  BY <1>1 DEF Surjection, Placed
<1> QED BY <1>3, <1>4, <1>5

(* A full sound order leaves no set of steps with each a dependency inside: the   *)
(* first of them in the order has all its dependencies before it.                 *)
LEMMA OrderedIsAcyclic ==
  ASSUME NEW g \in [Steps -> SUBSET Steps], NEW o, SoundOrder(g, o), Placed(o) = Steps
  PROVE  Acyclic(g)
<1> SUFFICES ASSUME NEW S \in SUBSET Steps, S # {}, \A s \in S : g[s] \cap S # {} PROVE FALSE
  BY DEF Acyclic
<1> DEFINE I == {i \in 1 .. Len(o) : o[i] \in S}
<1>1. o \in Seq(Steps) /\ Len(o) \in Nat /\ DOMAIN o = 1 .. Len(o)
  BY DEF SoundOrder
<1>2. I \in SUBSET Nat /\ I # {}
  BY <1>1 DEF Placed
<1>3. PICK i \in I : \A j \in I : i <= j
  BY <1>2, SmallestNumber
<1>4. PICK d \in g[o[i]] : d \in S
  BY <1>3
<1>5. PICK j \in 1 .. i - 1 : o[j] = d
  BY <1>3, <1>4 DEF SoundOrder
<1>6. j \in I /\ j < i
  BY <1>1, <1>3, <1>4, <1>5
<1> QED BY <1>2, <1>3, <1>6

(* What toposort returns, for any steps and dependencies. *)
LEMMA ToposortIs ==
  ASSUME NEW g \in [Steps -> SUBSET Steps]
  PROVE  /\ SoundOrder(g, Toposort(g))
         /\ (Len(Toposort(g)) = Cardinality(Steps)) <=> Acyclic(g)
         /\ \A i, j \in DOMAIN Toposort(g) : Toposort(g)[i] \in g[Toposort(g)[j]] => i < j
<1> DEFINE o == Toposort(g)
<1>1. SoundOrder(g, o) /\ (Len(o) = Cardinality(Steps) \/ OpenTo(g, Placed(o)) = {})
  <2>1. Steps \in SUBSET Steps /\ o = Loop(g)[Steps]
    BY ToposortIsLoop
  <2> HIDE DEF o
  <2> QED BY <2>1, LoopSound
<1> HIDE DEF o
<1>2. o \in Seq(Steps) /\ Len(o) \in Nat /\ DOMAIN o = 1 .. Len(o) /\ Placed(o) \in SUBSET Steps
  BY <1>1 DEF SoundOrder, Placed
<1>3. Len(o) = Cardinality(Steps) => Acyclic(g)
  BY <1>1, FullOrder, OrderedIsAcyclic
<1>4. Len(o) # Cardinality(Steps) => ~Acyclic(g)
  BY <1>1, <1>2, FullOrder, StuckOnCycle
<1>5. ASSUME NEW i \in DOMAIN o, NEW j \in DOMAIN o, o[i] \in g[o[j]] PROVE i < j
  <2>1. PICK k \in 1 .. j - 1 : o[k] = o[i]
    BY <1>1, <1>2, <1>5 DEF SoundOrder
  <2>2. k = i
    BY <1>1, <1>2, <2>1 DEF SoundOrder
  <2> QED BY <1>2, <2>1, <2>2
<1> QED BY <1>1, <1>3, <1>4, <1>5 DEF o

(* Of every relation between any steps: the sort succeeds exactly when there is   *)
(* no cycle, and then puts every step after its dependencies (toposort).          *)
THEOREM SortIsSoundCorrect == FlowSpec => []SortIsSound
<1>1. SortIsSound
  BY ToposortIs DEF SortIsSound
<1> QED BY <1>1, PTL

--------------------------------------------------------------------------------
(* What a pass has read is no newer than the templates: a template it saw Ready   *)
(* has been so and had the outputs it noted, and outputs are only ever replaced   *)
(* by later ones.                                                                 *)
Templates ==
  [phase : {"Absent", "Pending", "Ready", "Failed"}, was : BOOLEAN, out : Nat,
   using : [Steps -> Nat]]

FlowInv ==
  /\ deps \in [Steps -> SUBSET Steps] /\ tpls \in [Steps -> Templates]
  /\ pass = [on |-> pass.on, left |-> pass.left, st |-> pass.st, outs |-> pass.outs]
  /\ pass.st \in [Steps -> {"Missing", "Absent", "Pending", "Ready", "Failed"}]
  /\ pass.outs \in [Steps -> Nat]
  /\ \A s \in Steps : tpls[s].phase = "Ready" => tpls[s].was
  /\ \A s \in Steps : pass.st[s] = "Ready" => tpls[s].was
  /\ \A s \in Steps : pass.outs[s] <= tpls[s].out
  /\ BuiltOnOutputs

(* A turn that notes a step as not Ready, or Ready with outputs it has, keeps it. *)
LEMMA SeenKeeps ==
  ASSUME FlowInv, NEW phase \in {"Missing", "Absent", "Pending", "Ready", "Failed"}, NEW out \in Nat,
         Seen(phase, out),
         Step \in Steps => (phase = "Ready" => tpls[Step].was) /\ out <= tpls[Step].out
  PROVE  /\ pass' = [on |-> pass'.on, left |-> pass'.left, st |-> pass'.st, outs |-> pass'.outs]
         /\ pass'.st \in [Steps -> {"Missing", "Absent", "Pending", "Ready", "Failed"}]
         /\ pass'.outs \in [Steps -> Nat]
         /\ \A s \in Steps : pass'.st[s] = "Ready" => tpls[s].was
         /\ \A s \in Steps : pass'.outs[s] <= tpls[s].out
<1> DEFINE x == Step
<1>1. pass' = [on |-> pass.on, left |-> Tail(pass.left), st |-> [pass.st EXCEPT ![x] = phase],
               outs |-> [pass.outs EXCEPT ![x] = out]]
  BY DEF Seen, FlowInv
<1>2. pass'.st = [pass.st EXCEPT ![x] = phase] /\ pass'.outs = [pass.outs EXCEPT ![x] = out]
  BY <1>1
<1>3. x \in Steps => (phase = "Ready" => tpls[x].was) /\ out <= tpls[x].out
  OBVIOUS
<1> HIDE DEF x
<1> QED BY <1>1, <1>2, <1>3 DEF FlowInv

(* Every step of the pass, of the template controller and of the user keeps it.   *)
LEMMA FlowStep == FlowInv /\ [FlowNext]_flowVars => FlowInv'
<1> SUFFICES ASSUME FlowInv, [FlowNext]_flowVars PROVE FlowInv'
  OBVIOUS
<1>0. /\ tpls \in [Steps -> Templates]
      /\ \A s \in Steps : tpls[s] \in Templates /\ tpls[s].out \in Nat
                          /\ tpls[s].phase \in {"Absent", "Pending", "Ready", "Failed"}
  BY DEF FlowInv, Templates
<1>1. ASSUME UNCHANGED <<deps, shape, tpls, pass>> PROVE FlowInv'
  BY <1>1 DEF FlowInv, BuiltOnOutputs
<1>2. ASSUME UNCHANGED <<deps, shape, tpls>>, NEW on, NEW left,
             pass' = [on |-> on, left |-> left, st |-> [s \in Steps |-> "Missing"],
                      outs |-> [s \in Steps |-> 0]]
      PROVE  FlowInv'
  <2>1. pass' = [on |-> pass'.on, left |-> pass'.left, st |-> pass'.st, outs |-> pass'.outs]
    BY <1>2
  <2>2. pass'.st = [s \in Steps |-> "Missing"] /\ pass'.outs = [s \in Steps |-> 0]
    BY <1>2
  <2>3. /\ pass'.st \in [Steps -> {"Missing", "Absent", "Pending", "Ready", "Failed"}]
        /\ pass'.outs \in [Steps -> Nat]
        /\ \A s \in Steps : pass'.st[s] # "Ready" /\ pass'.outs[s] = 0
    BY <2>2
  <2> QED BY <1>0, <1>2, <2>1, <2>3 DEF FlowInv, BuiltOnOutputs
<1>3. ASSUME UNCHANGED <<deps, shape, tpls>>, NEW out \in Nat,
             NEW phase \in {"Missing", "Absent", "Pending", "Ready", "Failed"}, Seen(phase, out),
             Step \in Steps => (phase = "Ready" => tpls[Step].was) /\ out <= tpls[Step].out
      PROVE  FlowInv'
  BY <1>3, SeenKeeps DEF FlowInv, BuiltOnOutputs
<1>4. CASE Suspended \/ Unsortable \/ Toggle
  BY <1>1, <1>4 DEF Suspended, Unsortable, Toggle
<1>5. CASE Begin \/ Die \/ Finish
  <2>1. UNCHANGED <<deps, shape, tpls>>
        /\ (pass' = NoPass \/ pass' = [NoPass EXCEPT !.on = TRUE, !.left = OrderOf[deps]])
    BY <1>5 DEF Begin, Die, Finish
  <2> QED BY <1>2, <2>1 DEF NoPass
<1>6. CASE Hold \/ CallFails \/ Unresolved \/ NoSource
  <2>1. UNCHANGED <<deps, shape, tpls>> /\ (Seen("Pending", 0) \/ Seen("Missing", 0))
    BY <1>6 DEF Hold, CallFails, Unresolved, NoSource
  <2>2. 0 \in Nat /\ \A s \in Steps : 0 <= tpls[s].out
    BY <1>0
  <2>3. ASSUME NEW phase \in {"Pending", "Missing"}, Seen(phase, 0) PROVE FlowInv'
    <3>1. phase # "Ready"
      OBVIOUS
    <3> QED BY <1>3, <2>1, <2>2, <2>3, <3>1
  <2> QED BY <2>1, <2>3
<1>7. CASE Visit
  <2> DEFINE x == Step
             t == tpls[Step]
             out == IF t.phase = "Ready" THEN t.out ELSE 0
  <2>1. CASE x \in Steps
    <3>1. t.phase \in {"Absent", "Pending", "Ready", "Failed"} /\ out \in Nat
          /\ (t.phase = "Ready" => t.was) /\ out <= t.out
      BY <1>0, <2>1 DEF FlowInv
    <3>2. Seen(t.phase, out) /\ UNCHANGED <<deps, shape, tpls>>
      BY <1>7 DEF Visit
    <3> QED BY <1>3, <3>1, <3>2
  <2>2. CASE x \notin Steps
    <3>1. UNCHANGED <<deps, shape, tpls>>
          /\ pass' = [pass EXCEPT !.left = Tail(@), !.st[x] = t.phase, !.outs[x] = out]
      BY <1>7 DEF Visit, Seen
    <3> HIDE DEF x, out, t
    <3>2. [pass.st EXCEPT ![x] = t.phase] = pass.st /\ [pass.outs EXCEPT ![x] = out] = pass.outs
      BY <2>2 DEF FlowInv
    <3>3. pass' = [on |-> pass.on, left |-> Tail(pass.left),
                   st |-> [pass.st EXCEPT ![x] = t.phase], outs |-> [pass.outs EXCEPT ![x] = out]]
      BY <3>1 DEF FlowInv
    <3>4. pass' = [on |-> pass.on, left |-> Tail(pass.left), st |-> pass.st, outs |-> pass.outs]
      BY <3>2, <3>3
    <3>5. /\ pass' = [on |-> pass'.on, left |-> pass'.left, st |-> pass'.st, outs |-> pass'.outs]
          /\ pass'.st = pass.st /\ pass'.outs = pass.outs
      BY <3>4
    <3> QED BY <3>1, <3>5 DEF FlowInv, BuiltOnOutputs
  <2> QED BY <2>1, <2>2
<1>8. CASE Create
  <2> DEFINE x == Step
             new == [phase |-> "Pending", was |-> FALSE, out |-> 0,
                     using |-> [d \in Steps |-> IF d \in deps[x] THEN pass.outs[d] ELSE 0]]
  <2>1. /\ tpls' = [tpls EXCEPT ![x] = new] /\ deps' = deps /\ shape' = shape /\ Seen("Pending", 0)
        /\ tpls[x] = NoTemplate /\ DepsReady(x) /\ Resolved(x)
    BY <1>8 DEF Create, MayCreate
  <2>2. new \in Templates
    BY DEF Templates, FlowInv
  <2>3. /\ pass' = [on |-> pass'.on, left |-> pass'.left, st |-> pass'.st, outs |-> pass'.outs]
        /\ pass'.st \in [Steps -> {"Missing", "Absent", "Pending", "Ready", "Failed"}]
        /\ pass'.outs \in [Steps -> Nat]
        /\ \A s \in Steps : pass'.st[s] = "Ready" => tpls[s].was
        /\ \A s \in Steps : pass'.outs[s] <= tpls[s].out
    <3>1. 0 \in Nat /\ \A s \in Steps : 0 <= tpls[s].out
      BY <1>0
    <3> QED BY <2>1, <3>1, SeenKeeps
  <2>4. \A d \in Steps : tpls'[d].out = tpls[d].out /\ tpls'[d].was = tpls[d].was
    <3>1. /\ new.out = 0 /\ new.was = FALSE
          /\ NoTemplate.out = 0 /\ NoTemplate.was = FALSE
      BY DEF NoTemplate
    <3>2. \A d \in Steps : tpls'[d] = IF d = x THEN new ELSE tpls[d]
      BY <1>0, <2>1
    <3> HIDE DEF new, x
    <3>3. ASSUME NEW d \in Steps
          PROVE  tpls'[d].out = tpls[d].out /\ tpls'[d].was = tpls[d].was
      <4>1. CASE d = x
        BY <2>1, <3>1, <3>2, <4>1
      <4>2. CASE d # x
        BY <3>2, <4>2
      <4> QED BY <4>1, <4>2
    <3> QED BY <3>3
  <2>5. ASSUME NEW s \in Steps, tpls'[s] # NoTemplate, NEW d \in deps[s]
        PROVE  tpls'[d].was /\ (s \in shape.refers => tpls'[s].using[d] \in 1 .. tpls'[d].out)
    <3>0. d \in Steps
      BY DEF FlowInv
    <3>1. CASE s = x
      <4>1. tpls'[s].using[d] = pass.outs[d]
        BY <1>0, <2>1, <3>0, <3>1
      <4>2. pass.st[d] = "Ready"
        BY <2>1, <3>1 DEF DepsReady
      <4>3. s \in shape.refers => pass.outs[d] # 0
        BY <2>1, <3>1 DEF Resolved
      <4> QED BY <1>0, <2>4, <3>0, <4>1, <4>2, <4>3 DEF FlowInv
    <3>2. CASE s # x
      BY <1>0, <2>1, <2>4, <2>5, <3>0, <3>2 DEF FlowInv, BuiltOnOutputs
    <3> QED BY <3>1, <3>2
  <2>6. \A s \in Steps : tpls'[s].phase = "Ready" => tpls'[s].was
    BY <1>0, <2>1 DEF FlowInv
  <2> HIDE DEF new, x
  <2>7. tpls' \in [Steps -> Templates]
    BY <1>0, <2>1, <2>2
  <2> QED BY <2>1, <2>3, <2>4, <2>5, <2>6, <2>7 DEF FlowInv, BuiltOnOutputs
<1>9. CASE Move
  <2>1. PICK s \in Steps, to \in {"Ready", "Failed"}, got \in {0, 1} :
          /\ tpls[s] # NoTemplate
          /\ tpls' = [tpls EXCEPT ![s] = [phase |-> to, was |-> @.was \/ to = "Ready",
                                         out |-> @.out + got, using |-> @.using]]
    BY <1>9 DEF Move
  <2> DEFINE new == [phase |-> to, was |-> tpls[s].was \/ to = "Ready", out |-> tpls[s].out + got,
                     using |-> tpls[s].using]
  <2>a. tpls[s].out + got \in Nat /\ tpls[s].out + got >= tpls[s].out
    BY <1>0
  <2>b. (tpls[s].was \/ to = "Ready") \in BOOLEAN /\ tpls[s].using \in [Steps -> Nat]
    BY <1>0 DEF Templates
  <2>2. /\ new \in Templates /\ new.phase = to /\ new.using = tpls[s].using
        /\ new.out \in Nat /\ new.out >= tpls[s].out
        /\ (tpls[s].was \/ to = "Ready" => new.was)
    BY <2>a, <2>b DEF Templates
  <2>3. tpls' = [tpls EXCEPT ![s] = new] /\ deps' = deps /\ shape' = shape /\ pass' = pass
    BY <1>9, <2>1, Zenon DEF Move
  <2> HIDE DEF new
  <2>4. /\ tpls' \in [Steps -> Templates]
        /\ \A d \in Steps : tpls'[d].out \in Nat /\ tpls'[d].out >= tpls[d].out
        /\ \A d \in Steps : tpls[d].was => tpls'[d].was
        /\ \A d \in Steps : tpls'[d].using = tpls[d].using
        /\ \A d \in Steps : tpls[d] = NoTemplate => tpls'[d] = NoTemplate
    <3>1. tpls'[s] = new /\ \A d \in Steps : d # s => tpls'[d] = tpls[d]
      BY <1>0, <2>3
    <3>2. tpls' \in [Steps -> Templates]
      BY <1>0, <2>2, <2>3
    <3> QED BY <1>0, <2>1, <2>2, <3>1, <3>2
  <2>5. \A d \in Steps : tpls'[d].phase = "Ready" => tpls'[d].was
    BY <1>0, <2>2, <2>3 DEF FlowInv
  <2>6. \A d \in Steps : /\ pass'.st[d] = "Ready" => tpls'[d].was
                         /\ pass'.outs[d] <= tpls'[d].out
    BY <1>0, <2>3, <2>4 DEF FlowInv
  <2>7. ASSUME NEW q \in Steps, tpls'[q] # NoTemplate, NEW d \in deps[q]
        PROVE  tpls'[d].was /\ (q \in shape.refers => tpls'[q].using[d] \in 1 .. tpls'[d].out)
    <3>1. /\ d \in Steps /\ tpls[q] # NoTemplate /\ tpls[d].was
          /\ q \in shape.refers => tpls[q].using[d] \in 1 .. tpls[d].out
      BY <2>4, <2>7 DEF FlowInv, BuiltOnOutputs
    <3> QED BY <1>0, <2>4, <3>1
  <2> QED BY <2>3, <2>4, <2>5, <2>6, <2>7 DEF FlowInv, BuiltOnOutputs
<1>10. CASE UNCHANGED flowVars
  BY <1>1, <1>10 DEF flowVars
<1> QED BY <1>4, <1>5, <1>6, <1>7, <1>8, <1>9, <1>10 DEF FlowNext, Reconcile

LEMMA FlowInitHolds == FlowInit => FlowInv
<1> SUFFICES ASSUME FlowInit PROVE FlowInv
  OBVIOUS
<1>1. deps \in [Steps -> SUBSET Steps]
  BY FlowAssumption DEF FlowInit
<1>2. NoTemplate \in Templates /\ NoTemplate.phase = "Absent"
  BY DEF NoTemplate, Templates
<1>3. tpls \in [Steps -> Templates] /\ \A s \in Steps : tpls[s] = NoTemplate
  BY <1>2 DEF FlowInit
<1>4. /\ pass = [on |-> pass.on, left |-> pass.left, st |-> pass.st, outs |-> pass.outs]
      /\ pass.st = [s \in Steps |-> "Missing"] /\ pass.outs = [s \in Steps |-> 0]
  BY DEF FlowInit, NoPass
<1>5. \A s \in Steps : tpls[s].phase = "Absent" /\ tpls[s].out \in Nat
  BY <1>2, <1>3 DEF NoTemplate
<1>6. BuiltOnOutputs
  BY <1>3 DEF BuiltOnOutputs
<1>7. \A s \in Steps : pass.st[s] = "Missing" /\ pass.outs[s] = 0
  BY <1>4
<1> QED BY <1>1, <1>3, <1>4, <1>5, <1>6, <1>7 DEF FlowInv

(* A template is created only when each of its dependencies has been Ready, and    *)
(* with outputs each had where its variables refer to them, for any steps and     *)
(* dependencies, whatever order toposort gives and however templates fail,        *)
(* recover, lack outputs and are read while the pass goes on (deps_ready and      *)
(* resolve_step_references in reconcile_flow).                                    *)
THEOREM BuiltOnOutputsCorrect == FlowSpec => []BuiltOnOutputs
<1>1. FlowInv => BuiltOnOutputs
  BY DEF FlowInv
<1> QED BY <1>1, FlowInitHolds, FlowStep, PTL DEF FlowSpec

--------------------------------------------------------------------------------
(* A pass has steps of the flow left to visit, since that is what toposort gave   *)
(* it; the outputs of a template are counted by the moves made.                   *)
FlowTypeInv ==
  /\ deps \in Relations /\ shape \in Shapes /\ held \in BOOLEAN
  /\ moves \in 0 .. MaxMoves /\ \A s \in Steps : tpls[s].out <= moves
  /\ flow = [phase |-> flow.phase, ready |-> flow.ready, cond |-> flow.cond, steps |-> flow.steps]
  /\ flow.phase \in {"None", "Ready", "Failed", "Progressing"}
  /\ flow.ready \in 0 .. Cardinality(Steps)
  /\ pass.on \in BOOLEAN /\ pass.left \in Seq(Steps)

LEMMA FlowInvTypes == FlowInv /\ FlowTypeInv => FlowTypeOK
<1> SUFFICES ASSUME FlowInv, FlowTypeInv PROVE FlowTypeOK
  OBVIOUS
<1>1. Placed(pass.left) \subseteq Steps
  BY DEF FlowTypeInv, Placed
<1>2. MaxMoves \in Nat
  BY FlowAssumption
<1>3. ASSUME NEW s \in Steps
      PROVE  tpls[s].phase \in {"Absent", "Pending", "Ready", "Failed"} /\ tpls[s].out \in 0 .. MaxMoves
  <2>1. tpls[s].out \in Nat /\ tpls[s].phase \in {"Absent", "Pending", "Ready", "Failed"}
    BY DEF FlowInv, Templates
  <2> QED BY <1>2, <2>1 DEF FlowTypeInv
<1> QED BY <1>1, <1>3 DEF FlowTypeInv, FlowTypeOK

(* A turn of the loop takes the first step off what is left. *)
LEMMA SeenTypes ==
  ASSUME FlowInv, FlowTypeInv, pass.left # <<>>, NEW phase, NEW out, Seen(phase, out)
  PROVE  pass'.on \in BOOLEAN /\ pass'.left \in Seq(Steps)
<1> DEFINE x == Step
<1>1. pass' = [on |-> pass.on, left |-> Tail(pass.left), st |-> [pass.st EXCEPT ![x] = phase],
               outs |-> [pass.outs EXCEPT ![x] = out]]
  BY DEF Seen, FlowInv
<1>2. pass'.on = pass.on /\ pass'.left = Tail(pass.left)
  BY <1>1
<1> QED BY <1>2 DEF FlowTypeInv

(* The count of the steps in a phase is one of steps. *)
LEMMA CountType ==
  ASSUME NEW st, NEW phase PROVE Count(st, phase) \in 0 .. Cardinality(Steps)
<1> DEFINE S == {s \in Steps : st[s] = phase}
<1>1. S \in SUBSET Steps /\ Count(st, phase) = Cardinality(S)
  BY DEF Count
<1> HIDE DEF S
<1>2. Cardinality(S) \in Nat /\ Cardinality(S) <= Cardinality(Steps) /\ Cardinality(Steps) \in Nat
  BY <1>1, CountSteps
<1> QED BY <1>1, <1>2

LEMMA FlowTypeStep == FlowInv /\ FlowTypeInv /\ [FlowNext]_flowVars => FlowTypeInv'
<1> SUFFICES ASSUME FlowInv, FlowTypeInv, [FlowNext]_flowVars PROVE FlowTypeInv'
  OBVIOUS
<1>0. /\ \A s \in Steps : tpls[s] \in Templates /\ tpls[s].out \in Nat
      /\ tpls \in [Steps -> Templates] /\ MaxMoves \in Nat /\ moves \in Nat
  BY FlowAssumption DEF FlowInv, FlowTypeInv, Templates
<1>1. ASSUME UNCHANGED <<deps, shape, held, tpls, flow, moves>>,
             pass'.on \in BOOLEAN /\ pass'.left \in Seq(Steps)
      PROVE  FlowTypeInv'
  BY <1>1 DEF FlowTypeInv
<1>n. <<>> \in Seq(Steps) /\ FALSE \in BOOLEAN /\ TRUE \in BOOLEAN
  OBVIOUS
<1>2. CASE Suspended \/ Unsortable
  <2>1. UNCHANGED <<deps, shape, held, tpls, pass, moves>>
        /\ (flow' = [flow EXCEPT !.cond = "Suspended"]
            \/ flow' = [flow EXCEPT !.phase = "Failed", !.cond = "Failed"])
    BY <1>2 DEF Suspended, Unsortable
  <2>2. /\ flow' = [phase |-> flow'.phase, ready |-> flow'.ready, cond |-> flow'.cond,
                    steps |-> flow'.steps]
        /\ flow'.phase \in {flow.phase, "Failed"} /\ flow'.ready = flow.ready
    BY <2>1 DEF FlowTypeInv
  <2> QED BY <2>1, <2>2 DEF FlowTypeInv
<1>3. CASE Begin
  <2>1. OrderOf[deps] \in Seq(Steps)
    BY FlowAssumption, ToposortIs DEF FlowTypeInv, OrderOf, SoundOrder
  <2>2. pass'.on = TRUE /\ pass'.left = OrderOf[deps]
    BY <1>3 DEF Begin, NoPass
  <2> QED BY <1>1, <1>3, <2>1, <2>2 DEF Begin
<1>4. CASE Visit \/ Hold \/ CallFails \/ Unresolved \/ NoSource
  <2>1. pass.left # <<>> /\ UNCHANGED <<deps, shape, held, tpls, flow, moves>>
        /\ \E phase, out : Seen(phase, out)
    BY <1>4 DEF Visit, Hold, CallFails, Unresolved, NoSource, MayCreate, Turn
  <2>2. pass'.on \in BOOLEAN /\ pass'.left \in Seq(Steps)
    BY <2>1, SeenTypes
  <2> QED BY <1>1, <2>1, <2>2
<1>5. CASE Die
  <2>1. pass'.on = FALSE /\ pass'.left = <<>>
    BY <1>5 DEF Die, NoPass
  <2> QED BY <1>1, <1>5, <1>n, <2>1 DEF Die
<1>6. CASE Create
  <2> DEFINE x == Step
             new == [phase |-> "Pending", was |-> FALSE, out |-> 0,
                     using |-> [d \in Steps |-> IF d \in deps[x] THEN pass.outs[d] ELSE 0]]
  <2>1. /\ tpls' = [tpls EXCEPT ![x] = new] /\ UNCHANGED <<deps, shape, held, flow, moves>>
        /\ pass.left # <<>> /\ Seen("Pending", 0)
    BY <1>6 DEF Create, MayCreate, Turn
  <2>2. pass'.on \in BOOLEAN /\ pass'.left \in Seq(Steps)
    BY <2>1, SeenTypes
  <2>3. new.out = 0
    OBVIOUS
  <2> HIDE DEF new, x
  <2>4. \A s \in Steps : tpls'[s].out <= moves
    BY <1>0, <2>1, <2>3 DEF FlowTypeInv
  <2> QED BY <2>1, <2>2, <2>4 DEF FlowTypeInv
<1>7. CASE Finish
  <2>1. /\ UNCHANGED <<deps, shape, held, tpls, moves>> /\ pass'.on = FALSE /\ pass'.left = <<>>
    BY <1>7 DEF Finish, NoPass
  <2>2. CASE flow' = flow
    BY <1>1, <1>n, <2>1, <2>2
  <2>3. CASE flow' # flow
    <3>1. \E steps : flow' = [phase |-> FlowPhase(pass.st), ready |-> Count(pass.st, "Ready"),
                               cond |-> FlowPhase(pass.st), steps |-> steps]
      BY <1>7, <2>3 DEF Finish
    <3>2. FlowPhase(pass.st) \in {"Ready", "Failed", "Progressing"}
      BY DEF FlowPhase
    <3>3. /\ flow' = [phase |-> flow'.phase, ready |-> flow'.ready, cond |-> flow'.cond,
                      steps |-> flow'.steps]
          /\ flow'.phase = FlowPhase(pass.st) /\ flow'.ready = Count(pass.st, "Ready")
      BY <3>1
    <3>4. flow'.ready \in 0 .. Cardinality(Steps)
      BY <3>3, CountType
    <3> QED BY <1>n, <2>1, <3>2, <3>3, <3>4 DEF FlowTypeInv
  <2> QED BY <2>2, <2>3
<1>8. CASE Move
  <2>1. PICK s \in Steps, to \in {"Ready", "Failed"}, got \in {0, 1} :
          tpls' = [tpls EXCEPT ![s] = [phase |-> to, was |-> @.was \/ to = "Ready",
                                       out |-> @.out + got, using |-> @.using]]
    BY <1>8 DEF Move
  <2>2. moves < MaxMoves /\ moves' = moves + 1 /\ UNCHANGED <<deps, shape, held, flow, pass>>
    BY <1>8 DEF Move
  <2>3. \A d \in Steps : tpls'[d].out \in {tpls[d].out, tpls[d].out + 1}
    BY <1>0, <2>1 DEF Templates
  <2>4. \A d \in Steps : tpls'[d].out <= moves'
    BY <1>0, <2>2, <2>3 DEF FlowTypeInv
  <2>5. moves' \in 0 .. MaxMoves
    BY <1>0, <2>2
  <2> QED BY <2>2, <2>4, <2>5 DEF FlowTypeInv
<1>9. CASE Toggle
  BY <1>9 DEF Toggle, FlowTypeInv
<1>10. CASE UNCHANGED flowVars
  BY <1>10 DEF flowVars, FlowTypeInv
<1> QED BY <1>2, <1>3, <1>4, <1>5, <1>6, <1>7, <1>8, <1>9, <1>10 DEF FlowNext, Reconcile

LEMMA FlowTypeInit == FlowInit => FlowTypeInv
<1> SUFFICES ASSUME FlowInit PROVE FlowTypeInv
  OBVIOUS
<1>1. MaxMoves \in Nat /\ Cardinality(Steps) \in Nat
  BY FlowAssumption, FS_CardinalityType
<1>2. \A s \in Steps : tpls[s].out = 0
  BY DEF FlowInit, NoTemplate
<1>3. pass.on = FALSE /\ pass.left = <<>> /\ <<>> \in Seq(Steps)
  BY DEF FlowInit, NoPass
<1>4. /\ flow = [phase |-> flow.phase, ready |-> flow.ready, cond |-> flow.cond, steps |-> flow.steps]
      /\ flow.phase = "None" /\ flow.ready = 0
  BY DEF FlowInit
<1>5. deps \in Relations /\ shape \in Shapes /\ held = FALSE /\ moves = 0
  BY DEF FlowInit
<1>6. moves \in 0 .. MaxMoves /\ flow.ready \in 0 .. Cardinality(Steps)
      /\ \A s \in Steps : tpls[s].out <= moves
  BY <1>1, <1>2, <1>4, <1>5
<1>7. pass.on \in BOOLEAN /\ pass.left \in Seq(Steps) /\ held \in BOOLEAN
      /\ flow.phase \in {"None", "Ready", "Failed", "Progressing"}
  BY <1>3, <1>4, <1>5
<1> QED BY <1>4, <1>5, <1>6, <1>7 DEF FlowTypeInv

(* The phases and counts of a flow stay in their ranges, and a pass is over steps *)
(* of the flow, for any steps and dependencies (InfrastructureFlowStatus).        *)
THEOREM FlowTypeCorrect == FlowSpec => []FlowTypeOK
<1> QED BY FlowInitHolds, FlowStep, FlowTypeInit, FlowTypeStep, FlowInvTypes, PTL DEF FlowSpec

--------------------------------------------------------------------------------
(* The queue and the flow side by side (MCDispatch): a step of one of them leaves *)
(* the other alone, so what is inductive for each is inductive for both.          *)
DispatchInv == IInv /\ FlowInv /\ FlowTypeInv

LEMMA DispatchStep == DispatchInv /\ [DispatchNext]_all => DispatchInv'
<1> SUFFICES ASSUME DispatchInv, [DispatchNext]_all PROVE DispatchInv'
  OBVIOUS
<1>1. [Next]_vars /\ [FlowNext]_flowVars
  BY DEF DispatchNext, Queue, Flow, all
<1>2. IInv'
  BY <1>1, NextKeeps, StutterKeeps DEF DispatchInv
<1>3. FlowInv' /\ FlowTypeInv'
  BY <1>1, FlowStep, FlowTypeStep DEF DispatchInv
<1> QED BY <1>2, <1>3 DEF DispatchInv

(* Entries, deadlines and counts of the queue and phases and counts of the flow   *)
(* stay in their ranges, for any works, credentials, steps and dependencies: a    *)
(* pass is only ever over steps of the flow, the order it goes by included        *)
(* (State in leaf_queue.rs, toposort and reconcile_flow).                         *)
THEOREM DispatchTypeCorrect == DispatchSpec => []DispatchTypeOK
<1>1. DispatchInit => DispatchInv
  BY InitHolds, FlowInitHolds, FlowTypeInit DEF DispatchInit, DispatchInv
<1>2. DispatchInv => DispatchTypeOK
  BY FlowInvTypes DEF DispatchInv, DispatchTypeOK, IInv, RestOK, PlaceInv, QueueOK, TypeOK
<1> QED BY <1>1, <1>2, DispatchStep, PTL DEF DispatchSpec
================================================================================
