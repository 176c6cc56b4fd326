--------------------------- MODULE LeafGateProofs ---------------------------
(***************************************************************************)
(* Proofs about LeafGate for any leaves, scopes, credentials and caps.     *)
(*                                                                         *)
(* WithinCaps and ChangeFindsSlot speak of the handlers at work, the gate  *)
(* of the permits that are out.  HoldInv ties them: a handler at work      *)
(* holds every permit it wants.  BudgetInv bounds the permits, by a cap    *)
(* that CapsInv shows to be one of the two its scope may be asked with.    *)
(*                                                                         *)
(* PriorityRespected and NoIdleSlot speak of what the admission loop would *)
(* admit.  AdmittedGreedy says what that is: the leaves that fit beside    *)
(* the better-ranked ones that are admitted.  ParkInv, for NoIdleSlot,     *)
(* counts the handlers under way and the waiters that were woken.          *)
(***************************************************************************)
EXTENDS LeafGate, FiniteSetTheorems, TLAPS

\* A scope is registered, and waited for, with the catalog's cap or without.
CapsInv ==
    /\ \A s \in Scopes : treeCap[s] \in {NoCap, PerScope, CatalogCap[s]}
    /\ \A l \in Leaves : entry[l].cap \in {NoCap, CatalogCap[Scope[l]]}

\* A handler at work holds the permits it wants, and only it holds a slot.
HoldInv ==
    /\ slots = AtWork
    /\ \A l \in AtWork : WantsCred(l) => l \in creds
    /\ \A l \in AtWork : WantsDrift(entry[l].class) => l \in drifts

\* The permits that are out are within the caps they were taken under.
BudgetInv ==
    /\ Cardinality(slots) <= Global
    /\ PerCredential > 0 =>
         \A c \in Creds : Cardinality(Using(creds, c)) <= PerCredential
    /\ \A s \in Scopes : \E n \in {PerScope, CatalogCap[s]} :
         n # NoCap /\ Cardinality(In(slots, s)) <= n
    /\ Share > 0 => \A s \in Scopes : \E n \in {PerScope, CatalogCap[s]} :
         n # NoCap /\ Cardinality(In(drifts, s)) <= DriftSlots(n)

\* The leaves' mix of work is the one the run started with.
MixInv == mix \in Mixes

IInv == GateTypeOK /\ MixInv /\ CapsInv /\ HoldInv /\ BudgetInv

-----------------------------------------------------------------------------
\* The caps of the configuration are numbers.
LEMMA CapTypes ==
    /\ Global \in Nat /\ PerScope \in Nat /\ PerCredential \in Nat /\ Share \in Nat
    /\ Fallback \in Nat /\ Poll \in Nat /\ DriftPoll \in Nat
    /\ QueueTTL \in Nat /\ WokenTTL \in Nat /\ PollTTL \in Nat
    /\ NoCap = -1
BY GateAssumption DEF NoCap

\* Sets of leaves are finite and can be counted.
LEMMA LeavesCount ==
    ASSUME NEW S \in SUBSET Leaves
    PROVE  /\ IsFiniteSet(S) /\ Cardinality(S) \in Nat
           /\ \A T \in SUBSET S : IsFiniteSet(T) /\ Cardinality(T) \in Nat
                                  /\ Cardinality(T) <= Cardinality(S)
           /\ \A T \in SUBSET S : Cardinality(T) = Cardinality(S) => T = S
           /\ \A x : Cardinality(S \cup {x}) \in Nat
                     /\ Cardinality(S \cup {x}) <= Cardinality(S) + 1
<1>1. IsFiniteSet(S)
  BY GateAssumption, FS_Subset
<1>2. Cardinality(S) \in Nat
  BY <1>1, FS_CardinalityType
<1>3. ASSUME NEW T \in SUBSET S
      PROVE  /\ IsFiniteSet(T) /\ Cardinality(T) \in Nat /\ Cardinality(T) <= Cardinality(S)
             /\ Cardinality(T) = Cardinality(S) => T = S
  BY <1>1, FS_Subset, FS_CardinalityType
<1>4. ASSUME NEW x
      PROVE  Cardinality(S \cup {x}) \in Nat /\ Cardinality(S \cup {x}) <= Cardinality(S) + 1
  <2>1. IsFiniteSet(S \cup {x}) /\ (x \in S => S \cup {x} = S)
    BY <1>1, FS_AddElement
  <2> QED BY <1>1, <1>2, <2>1, FS_AddElement, FS_CardinalityType
<1> QED BY <1>1, <1>2, <1>3, <1>4

\* One more holder raises the count of its own scope by at most one.
LEMMA OneMoreInScope ==
    ASSUME NEW S \in SUBSET Leaves, NEW l \in Leaves, NEW s
    PROVE  /\ Cardinality(In(S, s)) \in Nat
           /\ Cardinality(In(S \cup {l}, s)) \in Nat
           /\ Cardinality(In(S \cup {l}, s)) <= Cardinality(In(S, s)) + 1
           /\ Scope[l] # s => In(S \cup {l}, s) = In(S, s)
<1>1. In(S, s) \in SUBSET Leaves /\ In(S \cup {l}, s) \in SUBSET Leaves
  BY DEF In
<1>2. \/ In(S \cup {l}, s) = In(S, s)
      \/ In(S \cup {l}, s) = In(S, s) \cup {l}
  BY DEF In
<1>3. Scope[l] # s => In(S \cup {l}, s) = In(S, s)
  BY DEF In
<1>4. /\ Cardinality(In(S, s)) \in Nat
      /\ Cardinality(In(S, s) \cup {l}) \in Nat
      /\ Cardinality(In(S, s) \cup {l}) <= Cardinality(In(S, s)) + 1
  BY <1>1, LeavesCount
<1>5. \/ Cardinality(In(S \cup {l}, s)) = Cardinality(In(S, s))
      \/ Cardinality(In(S \cup {l}, s)) = Cardinality(In(S, s) \cup {l})
  BY <1>2, Zenon
<1> QED BY <1>3, <1>4, <1>5

\* One more holder raises the count of its own credential by at most one.
LEMMA OneMoreUser ==
    ASSUME NEW S \in SUBSET Leaves, NEW l \in Leaves, NEW c
    PROVE  /\ Cardinality(Using(S, c)) \in Nat
           /\ Cardinality(Using(S \cup {l}, c)) \in Nat
           /\ Cardinality(Using(S \cup {l}, c)) <= Cardinality(Using(S, c)) + 1
           /\ Cred[l] # c => Using(S \cup {l}, c) = Using(S, c)
<1>1. Using(S, c) \in SUBSET Leaves /\ Using(S \cup {l}, c) \in SUBSET Leaves
  BY DEF Using
<1>2. \/ Using(S \cup {l}, c) = Using(S, c)
      \/ Using(S \cup {l}, c) = Using(S, c) \cup {l}
  BY DEF Using
<1>3. Cred[l] # c => Using(S \cup {l}, c) = Using(S, c)
  BY DEF Using
<1>4. /\ Cardinality(Using(S, c)) \in Nat
      /\ Cardinality(Using(S, c) \cup {l}) \in Nat
      /\ Cardinality(Using(S, c) \cup {l}) <= Cardinality(Using(S, c)) + 1
  BY <1>1, LeavesCount
<1>5. \/ Cardinality(Using(S \cup {l}, c)) = Cardinality(Using(S, c))
      \/ Cardinality(Using(S \cup {l}, c)) = Cardinality(Using(S, c) \cup {l})
  BY <1>2, Zenon
<1> QED BY <1>3, <1>4, <1>5

\* Fewer holders never raise a count.
LEMMA FewerHolders ==
    ASSUME NEW S \in SUBSET Leaves, NEW T \in SUBSET S, NEW x
    PROVE  /\ Cardinality(T) \in Nat /\ Cardinality(T) <= Cardinality(S)
           /\ Cardinality(S) \in Nat
           /\ Cardinality(In(T, x)) \in Nat /\ Cardinality(In(S, x)) \in Nat
           /\ Cardinality(In(T, x)) <= Cardinality(In(S, x))
           /\ Cardinality(Using(T, x)) \in Nat /\ Cardinality(Using(S, x)) \in Nat
           /\ Cardinality(Using(T, x)) <= Cardinality(Using(S, x))
<1>1. In(S, x) \in SUBSET Leaves /\ In(T, x) \in SUBSET In(S, x)
  BY DEF In
<1>2. Using(S, x) \in SUBSET Leaves /\ Using(T, x) \in SUBSET Using(S, x)
  BY DEF Using
<1> QED BY <1>1, <1>2, LeavesCount

\* The ranks of any part of the queue are again the numbers from one up,
\* each given once: dropping the entries that are not live, or the leaf that
\* was admitted, leaves a queue (waiting.retain, waiting.remove).
LEMMA RankedIsQueue ==
    ASSUME NEW q, NEW S \in SUBSET Leaves, \A l \in S : q[l] \in Nat,
           \A l, m \in S : q[l] = q[m] => l = m
    PROVE  /\ DOMAIN Ranked(q, S) = S
           /\ Ranked(q, S) \in [S -> 1 .. Cardinality(S)]
           /\ \A l, m \in S : Ranked(q, S)[l] = Ranked(q, S)[m] => l = m
<1> DEFINE upTo(l) == {m \in S : q[m] <= q[l]}
<1>1. ASSUME NEW l \in S
      PROVE  /\ Ranked(q, S)[l] = Cardinality(upTo(l))
             /\ Cardinality(upTo(l)) \in 1 .. Cardinality(S)
  <2>1. upTo(l) \in SUBSET S /\ l \in upTo(l)
    OBVIOUS
  <2>2. Cardinality(upTo(l)) \in Nat /\ Cardinality(upTo(l)) <= Cardinality(S)
        /\ Cardinality(S) \in Nat
    BY <2>1, LeavesCount
  <2>3. Cardinality(upTo(l)) # 0
    BY <2>1, LeavesCount, FS_EmptySet
  <2> QED BY <2>2, <2>3 DEF Ranked
<1>2. ASSUME NEW l \in S, NEW m \in S, Cardinality(upTo(l)) = Cardinality(upTo(m))
      PROVE  l = m
  <2>1. CASE q[l] <= q[m]
    <3>1. upTo(l) \in SUBSET upTo(m) /\ upTo(m) \in SUBSET Leaves /\ m \in upTo(m)
      BY <2>1
    <3>2. upTo(l) = upTo(m)
      BY <1>2, <3>1, LeavesCount
    <3> QED BY <2>1, <3>1, <3>2
  <2>2. CASE q[m] <= q[l]
    <3>1. upTo(m) \in SUBSET upTo(l) /\ upTo(l) \in SUBSET Leaves /\ l \in upTo(l)
      BY <2>2
    <3>2. upTo(l) = upTo(m)
      BY <1>2, <3>1, LeavesCount
    <3> QED BY <2>2, <3>1, <3>2
  <2> QED BY <2>1, <2>2
<1>3. DOMAIN Ranked(q, S) = S /\ Ranked(q, S) = [l \in S |-> Cardinality(upTo(l))]
  BY DEF Ranked
<1> HIDE DEF upTo
<1> QED BY <1>1, <1>2, <1>3

\* A queue of leaves: the part of GateTypeOK that speaks of line.
IsQueue(q) ==
    /\ DOMAIN q \subseteq Leaves /\ q \in [DOMAIN q -> 1 .. Cardinality(DOMAIN q)]
    /\ \A l, m \in DOMAIN q : q[l] = q[m] => l = m

\* What stays of a queue is a queue.
LEMMA QueueOfRanked ==
    ASSUME NEW q, IsQueue(q), NEW S \in SUBSET DOMAIN q
    PROVE  IsQueue(Ranked(q, S)) /\ DOMAIN Ranked(q, S) = S
<1>1. Cardinality(DOMAIN q) \in Nat /\ DOMAIN q \in SUBSET Leaves
  BY LeavesCount DEF IsQueue
<1>2. \A l \in DOMAIN q : q[l] \in Nat
  BY <1>1 DEF IsQueue
<1> QED BY <1>1, <1>2, RankedIsQueue DEF IsQueue

\* The queue with the leaf that asks is a queue.
LEMMA QueueOfEnqueued ==
    ASSUME IsQueue(line), NEW l \in Leaves
    PROVE  IsQueue(Retained) /\ IsQueue(Enqueued(l)) /\ l \in DOMAIN Enqueued(l)
<1>1. IsQueue(Retained)
  BY QueueOfRanked DEF Retained
<1> DEFINE D == DOMAIN Retained
           n == Cardinality(D)
<1>2. D \in SUBSET Leaves /\ n \in Nat /\ Retained \in [D -> 1 .. n]
      /\ \A a, b \in D : Retained[a] = Retained[b] => a = b
  BY <1>1, LeavesCount DEF IsQueue
<1>3. /\ DOMAIN Enqueued(l) = D \cup {l}
      /\ \A m \in D \cup {l} : Enqueued(l)[m] = IF m \in D THEN Retained[m] ELSE n + 1
  BY DEF Enqueued
<1>4. CASE l \in D
  <2>1. D \cup {l} = D
    BY <1>4
  <2>2. DOMAIN Enqueued(l) = D /\ \A m \in D : Enqueued(l)[m] = Retained[m]
    BY <1>3, <2>1
  <2>3. Enqueued(l) = [m \in D \cup {l} |-> IF m \in D THEN Retained[m] ELSE n + 1]
    BY DEF Enqueued
  <2>4. Enqueued(l) = Retained
    BY <1>2, <2>1, <2>3
  <2> QED BY <1>1, <1>4, <2>2, <2>4
<1>5. CASE l \notin D
  <2>1. Cardinality(D \cup {l}) = n + 1
    BY <1>2, <1>5, LeavesCount, FS_AddElement
  <2>2. Cardinality(DOMAIN Enqueued(l)) = n + 1
    BY <1>3, <2>1, Zenon
  <2>3. Enqueued(l) = [m \in D \cup {l} |-> IF m \in D THEN Retained[m] ELSE n + 1]
    BY DEF Enqueued
  <2> HIDE DEF n, D
  <2>4. Enqueued(l) \in [D \cup {l} -> 1 .. n + 1]
    BY <1>2, <2>3
  <2>5. \A a, b \in D \cup {l} : Enqueued(l)[a] = Enqueued(l)[b] => a = b
    BY <1>2, <1>3, <1>5
  <2> QED BY <1>1, <1>2, <1>3, <2>2, <2>4, <2>5 DEF IsQueue
<1> QED BY <1>4, <1>5

-----------------------------------------------------------------------------
Entries == [seen : 0 .. QueueTTL + WokenTTL + PollTTL, class : Classes,
            cap : Nat \cup {NoCap}, woken : BOOLEAN]

\* The catalog's cap is a number or unset, and a requeue is after some time.
LEMMA AskTypes ==
    ASSUME NEW work \in Works, NEW s \in Scopes
    PROVE  /\ CatalogCap[s] \in Nat \cup {NoCap}
           /\ Requeue(work) \in Nat
<1>1. CatalogCap[s] \in Nat \cup {NoCap}
  BY GateAssumption
<1>2. Requeue(work) \in Nat
  BY CapTypes DEF Requeue
<1> QED BY <1>1, <1>2

\* KeptEntries entries are entries.
LEMMA KeptTypes ==
    ASSUME NEW q, NEW e \in [Leaves -> Entries]
    PROVE  KeptEntries(q, e) \in [Leaves -> Entries]
BY CapTypes DEF KeptEntries, Blank, Entries, Classes

\* Every step keeps the types.
LEMMA TypeStep ==
    ASSUME GateTypeOK, MixInv, [GateNext]_gateVars PROVE GateTypeOK' /\ MixInv'
<1> USE GateAssumption DEF MixInv
<1>0. /\ IsQueue(line) /\ entry \in [Leaves -> Entries]
      /\ slots \subseteq Leaves /\ creds \subseteq Leaves /\ drifts \subseteq Leaves
      /\ treeCap \in [Scopes -> Nat \cup {NoCap}]
      /\ run \in [Leaves -> Runs] /\ due \in [Leaves -> Nat]
      /\ blocked \subseteq Leaves /\ want \in [Leaves -> Works]
  BY DEF GateTypeOK, IsQueue, Entries
<1>a. SUFFICES /\ IsQueue(line') /\ entry' \in [Leaves -> Entries]
               /\ slots' \subseteq Leaves /\ creds' \subseteq Leaves /\ drifts' \subseteq Leaves
               /\ treeCap' \in [Scopes -> Nat \cup {NoCap}]
               /\ run' \in [Leaves -> Runs] /\ due' \in [Leaves -> Nat]
               /\ blocked' \subseteq Leaves /\ want' \in [Leaves -> Works]
               /\ mix' \in Mixes
  BY DEF GateTypeOK, IsQueue, Entries
<1>1. CASE GateTick
  <2>1. entry' \in [Leaves -> Entries]
    <3> SUFFICES ASSUME NEW l \in Leaves
                 PROVE (IF l \in DOMAIN line /\ Live(entry[l])
                        THEN [entry[l] EXCEPT !.seen = @ + 1] ELSE entry[l]) \in Entries
      BY <1>1 DEF GateTick
    <3>1. entry[l] \in Entries
      BY <1>0
    <3>2. Live(entry[l]) => entry[l].seen + 1 \in 0 .. QueueTTL + WokenTTL + PollTTL
      BY <3>1, CapTypes DEF Live, Entries
    <3> QED BY <3>1, <3>2 DEF Entries
  <2>2. due' \in [Leaves -> Nat]
    BY <1>0, <1>1 DEF GateTick
  <2> QED BY <1>0, <1>1, <2>1, <2>2 DEF GateTick
<1>2. ASSUME NEW l \in Leaves, Ask(l) PROVE <1>a!1
  <2> DEFINE work == want[l]
             q == Enqueued(l)
             class == ClassOf(work, l \in blocked)
             cap == IF work = "DriftCheck" THEN NoCap ELSE CatalogCap[Scope[l]]
             e == [entry EXCEPT ![l] = Inserted(l, class, cap)]
             picked == l \in Admitted(q, e)
             granted == picked /\ Allocates(q, e, l)
  <2>1. work \in Works /\ Scope[l] \in Scopes
    BY <1>0
  <2>2. class \in Classes /\ cap \in Nat \cup {NoCap} /\ Requeue(work) \in Nat
    <3>1. class \in Classes
      BY <2>1 DEF ClassOf, Works, Classes
    <3> QED BY <2>1, <3>1, AskTypes, CapTypes
  <2>3. e \in [Leaves -> Entries]
    BY <1>0, <2>2, CapTypes DEF Inserted, Entries
  <2>4. IsQueue(q)
    BY <1>0, QueueOfEnqueued
  <2>5. IsQueue(Ranked(q, DOMAIN q \ {l}))
    BY <2>4, QueueOfRanked
  <2>6. Registered(Scope[l], cap) \in Nat \cup {NoCap}
    BY <1>0, <2>1, <2>2, CapTypes DEF Registered
  <2> HIDE DEF work, q, class, cap, e, picked, granted
  <2>7. /\ entry' = KeptEntries(q, e)
        /\ line' = IF granted THEN Ranked(q, DOMAIN q \ {l}) ELSE q
        /\ slots' = IF granted THEN slots \cup {l} ELSE slots
        /\ creds' = IF granted /\ WantsCred(l) THEN creds \cup {l} ELSE creds
        /\ drifts' = IF granted /\ WantsDrift(class) THEN drifts \cup {l} ELSE drifts
        /\ treeCap' = IF picked
                      THEN [treeCap EXCEPT ![Scope[l]] = Registered(Scope[l], cap)]
                      ELSE treeCap
        /\ run' = [run EXCEPT ![l] = IF granted THEN "running" ELSE "idle"]
        /\ due' = [due EXCEPT ![l] = IF granted THEN 0 ELSE Requeue(work)]
        /\ blocked' = IF work = "DriftCheck" THEN blocked ELSE blocked \ {l}
        /\ want' = want /\ mix' = mix
    BY <1>2 DEF Ask, work, q, class, cap, e, picked, granted
  <2>8. entry' \in [Leaves -> Entries]
    BY <2>3, <2>7, KeptTypes
  <2>9. IsQueue(line')
    BY <2>4, <2>5, <2>7
  <2>10. run' \in [Leaves -> Runs] /\ due' \in [Leaves -> Nat]
    BY <1>0, <2>2, <2>7 DEF Runs
  <2>11. treeCap' \in [Scopes -> Nat \cup {NoCap}]
    BY <1>0, <2>6, <2>7
  <2> QED BY <1>0, <2>7, <2>8, <2>9, <2>10, <2>11
<1>3. ASSUME NEW l \in Leaves, NEW missing \in BOOLEAN, Defer(l, missing) PROVE <1>a!1
  BY <1>0, <1>3, CapTypes DEF Defer
<1>4. ASSUME NEW l \in Leaves, Trigger(l) PROVE <1>a!1
  BY <1>0, <1>4 DEF Trigger, Works
<1>5. ASSUME NEW l \in Leaves, DropScope(l) PROVE <1>a!1
  BY <1>0, <1>5 DEF DropScope, Runs
<1>6. ASSUME NEW l \in Leaves, DropCredential(l) PROVE <1>a!1
  BY <1>0, <1>6 DEF DropCredential, Runs
<1>7. ASSUME NEW l \in Leaves, DropDrift(l) PROVE <1>a!1
  BY <1>0, <1>7 DEF DropDrift, Runs
<1>8. ASSUME NEW l \in Leaves, Wake(l) PROVE <1>a!1
  <2> DEFINE q == IF Park THEN Retained ELSE line
             chosen == IF Park THEN Chosen(q, Scope[l]) ELSE {}
             e == [m \in Leaves |-> IF m \in chosen
                                    THEN [entry[m] EXCEPT !.woken = TRUE, !.seen = 0]
                                    ELSE entry[m]]
  <2>1. IsQueue(q)
    BY <1>0, QueueOfEnqueued
  <2> HIDE DEF q, chosen
  <2>2. e \in [Leaves -> Entries]
    <3>1. ASSUME NEW m \in Leaves
          PROVE  /\ entry[m] \in Entries
                 /\ [entry[m] EXCEPT !.woken = TRUE, !.seen = 0] \in Entries
      <4>1. entry[m] \in Entries
        BY <1>0
      <4>2. 0 \in 0 .. QueueTTL + WokenTTL + PollTTL
        BY CapTypes
      <4> QED BY <4>1, <4>2 DEF Entries
    <3> QED BY <3>1
  <2> HIDE DEF e
  <2>3. /\ run' = [run EXCEPT ![l] = "idle"]
        /\ \E d \in {0, Fallback} :
             due' = [m \in Leaves |-> IF m = l THEN d ELSE IF m \in chosen THEN 0 ELSE due[m]]
        /\ line' = q /\ entry' = KeptEntries(q, e)
        /\ \E w \in mix[l] : want' = [want EXCEPT ![l] = w]
        /\ UNCHANGED <<slots, creds, drifts, treeCap, blocked, mix>>
    BY <1>8 DEF Wake, q, chosen, e
  <2>4. due' \in [Leaves -> Nat]
    <3>1. PICK d \in {0, Fallback} :
            due' = [m \in Leaves |-> IF m = l THEN d ELSE IF m \in chosen THEN 0 ELSE due[m]]
      BY <2>3
    <3>2. d \in Nat
      BY CapTypes
    <3> QED BY <1>0, <3>1, <3>2
  <2>5. want' \in [Leaves -> Works]
    <3>1. mix[l] \subseteq Works
      BY DEF Works
    <3> QED BY <1>0, <2>3, <3>1
  <2>6. entry' \in [Leaves -> Entries]
    BY <2>2, <2>3, KeptTypes
  <2> QED BY <1>0, <2>1, <2>3, <2>4, <2>5, <2>6 DEF Runs
<1>9. CASE UNCHANGED gateVars
  BY <1>0, <1>9 DEF gateVars
<1> QED BY <1>1, <1>2, <1>3, <1>4, <1>5, <1>6, <1>7, <1>8, <1>9 DEF GateNext

-----------------------------------------------------------------------------
\* The cap the waiting leaves of a scope carry, or the uniform one.
LEMMA ScopeCapIsOne ==
    ASSUME NEW q, DOMAIN q \subseteq Leaves, NEW e, NEW s,
           \A l \in Leaves : e[l].cap \in {NoCap, CatalogCap[Scope[l]]}
    PROVE  ScopeCap(q, e, s) \in {PerScope, CatalogCap[s]} /\ ScopeCap(q, e, s) # NoCap
<1> DEFINE caps == {e[l].cap : l \in In(DOMAIN q, s)} \ {NoCap}
<1>1. \A n \in caps : n = CatalogCap[s] /\ n # NoCap
  BY DEF In
<1>2. ScopeCap(q, e, s) = IF caps = {} THEN PerScope ELSE CHOOSE n \in caps : TRUE
  BY DEF ScopeCap
<1> HIDE DEF caps
<1>3. CASE caps = {}
  BY <1>2, <1>3, CapTypes
<1>4. CASE caps # {}
  <2>1. (CHOOSE n \in caps : TRUE) \in caps
    BY <1>4
  <2> QED BY <1>1, <1>2, <1>4, <2>1
<1> QED BY <1>3, <1>4

\* LeafGate::admit refuses l, whose entry is then the new one and whose scope
\* may have been registered with the cap.
Refused(l) == UNCHANGED <<slots, creds, drifts, run>>

\* LeafGate::admit takes the three permits for l.
Granted(l, class, cap) ==
    /\ slots' = slots \cup {l} /\ Cardinality(slots) < Global
    /\ Cardinality(In(slots, Scope[l])) < Registered(Scope[l], cap)
    /\ creds' = IF WantsCred(l) THEN creds \cup {l} ELSE creds
    /\ WantsCred(l) => Cardinality(Using(creds, Cred[l])) < PerCredential
    /\ drifts' = IF WantsDrift(class) THEN drifts \cup {l} ELSE drifts
    /\ WantsDrift(class) =>
         \E n \in {PerScope, CatalogCap[Scope[l]]} :
             n # NoCap /\ Cardinality(In(drifts, Scope[l])) < DriftSlots(n)
    /\ run' = [run EXCEPT ![l] = "running"]

\* What an ask does to the permits, the entries and the registered caps.
LEMMA AskEffect ==
    ASSUME GateTypeOK, CapsInv, NEW l \in Leaves, Ask(l)
    PROVE  \E class \in Classes, cap \in {NoCap, CatalogCap[Scope[l]]} :
             /\ run[l] = "idle"
             /\ entry'[l] = Inserted(l, class, cap)
             /\ \A m \in Leaves \ {l} : \/ entry'[m] = entry[m]
                                        \/ run[m] = "idle" /\ entry'[m] = Blank
             /\ \/ treeCap' = treeCap
                \/ treeCap' = [treeCap EXCEPT ![Scope[l]] = Registered(Scope[l], cap)]
             /\ Refused(l) \/ Granted(l, class, cap)
<1> DEFINE work == want[l]
           q == Enqueued(l)
           class == ClassOf(work, l \in blocked)
           cap == IF work = "DriftCheck" THEN NoCap ELSE CatalogCap[Scope[l]]
           e == [entry EXCEPT ![l] = Inserted(l, class, cap)]
           picked == l \in Admitted(q, e)
           granted == picked /\ Allocates(q, e, l)
<1>1. want[l] \in Works /\ run \in [Leaves -> Runs] /\ IsQueue(line)
      /\ entry \in [Leaves -> Entries]
  BY DEF GateTypeOK, IsQueue, Entries
<1>2. class \in Classes
  BY <1>1 DEF ClassOf, Works, Classes
<1>3. cap \in {NoCap, CatalogCap[Scope[l]]}
  OBVIOUS
<1>4. DOMAIN q \subseteq Leaves /\ l \in DOMAIN q
  BY <1>1, QueueOfEnqueued DEF IsQueue
<1> HIDE DEF work, q, class, cap
<1>5. /\ e \in [Leaves -> Entries \cup {Inserted(l, class, cap)}]
      /\ e[l] = Inserted(l, class, cap) /\ \A m \in Leaves \ {l} : e[m] = entry[m]
  BY <1>1
<1> HIDE DEF e, picked, granted
<1>6. /\ run[l] = "idle" /\ entry' = KeptEntries(q, e)
      /\ slots' = IF granted THEN slots \cup {l} ELSE slots
      /\ creds' = IF granted /\ WantsCred(l) THEN creds \cup {l} ELSE creds
      /\ drifts' = IF granted /\ WantsDrift(class) THEN drifts \cup {l} ELSE drifts
      /\ treeCap' = IF picked
                    THEN [treeCap EXCEPT ![Scope[l]] = Registered(Scope[l], cap)]
                    ELSE treeCap
      /\ run' = [run EXCEPT ![l] = IF granted THEN "running" ELSE "idle"]
  BY DEF Ask, Starts, work, q, class, cap, e, picked, granted
<1>7. entry'[l] = Inserted(l, class, cap)
  BY <1>4, <1>5, <1>6 DEF KeptEntries
<1>8. ASSUME NEW m \in Leaves \ {l}
      PROVE  entry'[m] = entry[m] \/ (run[m] = "idle" /\ entry'[m] = Blank)
  BY <1>5, <1>6 DEF KeptEntries
<1>9. ASSUME ~granted PROVE Refused(l)
  BY <1>1, <1>6, <1>9 DEF Refused
<1>10. ASSUME granted PROVE Granted(l, class, cap)
  <2>1. Allocates(q, e, l)
    BY <1>10 DEF granted
  <2>2. e[l].class = class /\ e[l].cap = cap
    BY <1>5 DEF Inserted
  <2>3. \A m \in Leaves : e[m].cap \in {NoCap, CatalogCap[Scope[m]]}
    BY <1>3, <1>5, <2>2 DEF CapsInv
  <2>4. /\ ScopeCap(q, e, Scope[l]) \in {PerScope, CatalogCap[Scope[l]]}
        /\ ScopeCap(q, e, Scope[l]) # NoCap
    BY <1>4, <2>3, ScopeCapIsOne
  <2> QED BY <1>6, <1>10, <2>1, <2>2, <2>4 DEF Allocates, Granted
<1>11. Refused(l) \/ Granted(l, class, cap)
  BY <1>9, <1>10
<1>12. \/ treeCap' = treeCap
       \/ treeCap' = [treeCap EXCEPT ![Scope[l]] = Registered(Scope[l], cap)]
  BY <1>6
<1> QED BY <1>2, <1>3, <1>6, <1>7, <1>8, <1>11, <1>12, Zenon

\* The release of a permit and the passing of time change no class and no cap
\* of a leaf under way, and a leaf at rest at most loses its entry.
LEMMA EntryEffect ==
    ASSUME GateTypeOK, NEW m \in Leaves, GateTick \/ \E l \in Leaves : Wake(l)
    PROVE  /\ entry'[m].cap \in {NoCap, entry[m].cap}
           /\ run[m] # "idle" => entry'[m].class = entry[m].class
<1>0. entry \in [Leaves -> Entries]
  BY DEF GateTypeOK, Entries
<1>1. CASE GateTick
  BY <1>0, <1>1 DEF GateTick, Entries
<1>2. ASSUME NEW l \in Leaves, Wake(l)
      PROVE  /\ entry'[m].cap \in {NoCap, entry[m].cap}
             /\ run[m] # "idle" => entry'[m].class = entry[m].class
  <2> DEFINE q == IF Park THEN Retained ELSE line
             chosen == IF Park THEN Chosen(q, Scope[l]) ELSE {}
             e == [k \in Leaves |-> IF k \in chosen
                                    THEN [entry[k] EXCEPT !.woken = TRUE, !.seen = 0]
                                    ELSE entry[k]]
  <2>1. entry' = KeptEntries(q, e)
    BY <1>2 DEF Wake
  <2> HIDE DEF q, chosen
  <2>2. e[m].cap = entry[m].cap /\ e[m].class = entry[m].class
    BY <1>0 DEF Entries
  <2> HIDE DEF e
  <2>3. entry'[m] = e[m] \/ (run[m] = "idle" /\ entry'[m] = Blank)
    BY <2>1 DEF KeptEntries
  <2> QED BY <2>2, <2>3 DEF Blank
<1> QED BY <1>1, <1>2

\* Scopes and entries only ever get the two caps.
LEMMA CapsStep ==
    ASSUME GateTypeOK, CapsInv, [GateNext]_gateVars PROVE CapsInv'
<1>0. treeCap \in [Scopes -> Nat \cup {NoCap}] /\ Scope \in [Leaves -> Scopes]
  BY GateAssumption DEF GateTypeOK
<1>1. ASSUME GateTick \/ \E l \in Leaves : Wake(l) PROVE CapsInv'
  <2>1. treeCap' = treeCap
    BY <1>1 DEF GateTick, Wake
  <2>2. \A m \in Leaves : entry'[m].cap \in {NoCap, entry[m].cap}
    BY <1>1, EntryEffect
  <2> QED BY <2>1, <2>2 DEF CapsInv
<1>2. ASSUME NEW l \in Leaves, Ask(l) PROVE CapsInv'
  <2>1. PICK class \in Classes, cap \in {NoCap, CatalogCap[Scope[l]]} :
             /\ entry'[l] = Inserted(l, class, cap)
             /\ \A m \in Leaves \ {l} : entry'[m] = entry[m] \/ entry'[m] = Blank
             /\ \/ treeCap' = treeCap
                \/ treeCap' = [treeCap EXCEPT ![Scope[l]] = Registered(Scope[l], cap)]
    BY <1>2, AskEffect
  <2>2. \A m \in Leaves : entry'[m].cap \in {NoCap, CatalogCap[Scope[m]]}
    BY <2>1 DEF Inserted, Blank, CapsInv
  <2>3. Registered(Scope[l], cap) \in {NoCap, PerScope, CatalogCap[Scope[l]]}
    BY <1>0 DEF Registered, CapsInv
  <2> QED BY <1>0, <2>1, <2>2, <2>3 DEF CapsInv
<1>3. ASSUME NEW l \in Leaves,
             \/ \E missing \in BOOLEAN : Defer(l, missing)
             \/ Trigger(l) \/ DropScope(l) \/ DropCredential(l) \/ DropDrift(l)
      PROVE  CapsInv'
  BY <1>3 DEF Defer, Trigger, DropScope, DropCredential, DropDrift, CapsInv
<1>4. CASE UNCHANGED gateVars
  BY <1>4 DEF gateVars, CapsInv
<1> QED BY <1>1, <1>2, <1>3, <1>4 DEF GateNext

\* A handler at work keeps the permits it was started with: they are dropped
\* only once it has returned.
LEMMA HoldStep ==
    ASSUME GateTypeOK, CapsInv, HoldInv, [GateNext]_gateVars PROVE HoldInv'
<1>0. run \in [Leaves -> Runs] /\ slots \subseteq Leaves
  BY DEF GateTypeOK
<1> USE DEF AtWork
<1>1. ASSUME GateTick \/ \E l \in Leaves : Wake(l) PROVE HoldInv'
  <2>1. \A m \in Leaves : run[m] = "running" => entry'[m].class = entry[m].class
    BY <1>1, EntryEffect
  <2>2. slots' = slots /\ creds' = creds /\ drifts' = drifts
    BY <1>1 DEF GateTick, Wake
  <2>3. AtWork' = AtWork
    BY <1>0, <1>1 DEF GateTick, Wake
  <2> QED BY <2>1, <2>2, <2>3 DEF HoldInv, WantsCred
<1>2. ASSUME NEW l \in Leaves, Ask(l) PROVE HoldInv'
  <2>1. PICK class \in Classes, cap \in {NoCap, CatalogCap[Scope[l]]} :
             /\ run[l] = "idle"
             /\ entry'[l] = Inserted(l, class, cap)
             /\ \A m \in Leaves \ {l} : \/ entry'[m] = entry[m]
                                        \/ run[m] = "idle" /\ entry'[m] = Blank
             /\ Refused(l) \/ Granted(l, class, cap)
    BY <1>2, AskEffect
  <2>2. CASE Refused(l)
    <3>1. AtWork' = AtWork /\ \A m \in AtWork : entry'[m] = entry[m]
      BY <2>1, <2>2 DEF Refused
    <3> QED BY <2>2, <3>1 DEF Refused, HoldInv, WantsCred
  <2>3. CASE Granted(l, class, cap)
    <3>1. AtWork' = AtWork \cup {l} /\ \A m \in AtWork : m # l /\ entry'[m] = entry[m]
      BY <1>0, <2>1, <2>3 DEF Granted
    <3>2. entry'[l].class = class
      BY <2>1 DEF Inserted
    <3> QED BY <2>3, <3>1, <3>2 DEF Granted, HoldInv, WantsCred
  <2> QED BY <2>1, <2>2, <2>3
<1>3. ASSUME NEW l \in Leaves, \E missing \in BOOLEAN : Defer(l, missing) PROVE HoldInv'
  BY <1>3 DEF Defer, HoldInv, WantsCred
<1>4. ASSUME NEW l \in Leaves, Trigger(l) PROVE HoldInv'
  BY <1>4 DEF Trigger, HoldInv, WantsCred
<1>5. ASSUME NEW l \in Leaves, DropScope(l) PROVE HoldInv'
  <2>1. AtWork' = AtWork \ {l}
    BY <1>0, <1>5 DEF DropScope
  <2> QED BY <1>5, <2>1 DEF DropScope, HoldInv, WantsCred
<1>6. ASSUME NEW l \in Leaves, DropCredential(l) PROVE HoldInv'
  <2>1. AtWork' = AtWork /\ l \notin AtWork
    BY <1>0, <1>6 DEF DropCredential
  <2> QED BY <1>6, <2>1 DEF DropCredential, HoldInv, WantsCred
<1>7. ASSUME NEW l \in Leaves, DropDrift(l) PROVE HoldInv'
  <2>1. AtWork' = AtWork /\ l \notin AtWork
    BY <1>0, <1>7 DEF DropDrift
  <2> QED BY <1>7, <2>1 DEF DropDrift, HoldInv, WantsCred
<1>8. CASE UNCHANGED gateVars
  BY <1>8 DEF gateVars, HoldInv, WantsCred
<1> QED BY <1>1, <1>2, <1>3, <1>4, <1>5, <1>6, <1>7, <1>8 DEF GateNext

\* Dropped permits leave the budgets within their caps.
LEMMA BudgetShrinks ==
    ASSUME GateTypeOK, BudgetInv, slots' \subseteq slots, creds' \subseteq creds,
           drifts' \subseteq drifts
    PROVE  BudgetInv'
<1>0. slots \in SUBSET Leaves /\ creds \in SUBSET Leaves /\ drifts \in SUBSET Leaves
  BY DEF GateTypeOK
<1>1. Cardinality(slots') \in Nat /\ Cardinality(slots) \in Nat
      /\ Cardinality(slots') <= Cardinality(slots)
  BY <1>0, FewerHolders
<1>2. \A s : /\ Cardinality(In(slots', s)) \in Nat /\ Cardinality(In(slots, s)) \in Nat
             /\ Cardinality(In(slots', s)) <= Cardinality(In(slots, s))
  BY <1>0, FewerHolders
<1>3. \A s : /\ Cardinality(In(drifts', s)) \in Nat /\ Cardinality(In(drifts, s)) \in Nat
             /\ Cardinality(In(drifts', s)) <= Cardinality(In(drifts, s))
  BY <1>0, FewerHolders
<1>4. \A c : /\ Cardinality(Using(creds', c)) \in Nat /\ Cardinality(Using(creds, c)) \in Nat
             /\ Cardinality(Using(creds', c)) <= Cardinality(Using(creds, c))
  BY <1>0, FewerHolders
<1>5. \A n \in Nat : DriftSlots(n) \in Int
  BY CapTypes DEF DriftSlots
<1>6. \A s \in Scopes : CatalogCap[s] \in Nat \cup {NoCap}
  BY GateAssumption
<1>7. Cardinality(slots') <= Global
  BY <1>1, CapTypes DEF BudgetInv
<1>8. PerCredential > 0 => \A c \in Creds : Cardinality(Using(creds', c)) <= PerCredential
  BY <1>4, CapTypes DEF BudgetInv
<1>9. ASSUME NEW s \in Scopes
      PROVE  \E n \in {PerScope, CatalogCap[s]} :
                n # NoCap /\ Cardinality(In(slots', s)) <= n
  <2>1. PICK n \in {PerScope, CatalogCap[s]} : n # NoCap /\ Cardinality(In(slots, s)) <= n
    BY DEF BudgetInv
  <2>2. n \in Nat
    BY <1>6, <2>1, CapTypes
  <2> QED BY <1>2, <2>1, <2>2
<1>10. ASSUME Share > 0, NEW s \in Scopes
       PROVE  \E n \in {PerScope, CatalogCap[s]} :
                 n # NoCap /\ Cardinality(In(drifts', s)) <= DriftSlots(n)
  <2>1. PICK n \in {PerScope, CatalogCap[s]} :
               n # NoCap /\ Cardinality(In(drifts, s)) <= DriftSlots(n)
    BY <1>10 DEF BudgetInv
  <2>2. DriftSlots(n) \in Int
    BY <1>5, <1>6, <2>1, CapTypes
  <2> QED BY <1>3, <2>1, <2>2
<1> QED BY <1>7, <1>8, <1>9, <1>10 DEF BudgetInv

\* The permits an admitted leaf takes are within the caps it was admitted
\* under, whatever other permits are half dropped.
LEMMA BudgetGrows ==
    ASSUME GateTypeOK, CapsInv, BudgetInv, NEW l \in Leaves, NEW class \in Classes,
           NEW cap \in {NoCap, CatalogCap[Scope[l]]}, Granted(l, class, cap)
    PROVE  BudgetInv'
<1>0. /\ slots \in SUBSET Leaves /\ creds \in SUBSET Leaves /\ drifts \in SUBSET Leaves
      /\ Scope[l] \in Scopes /\ \A s \in Scopes : CatalogCap[s] \in Nat \cup {NoCap}
      /\ \A s \in Scopes : treeCap[s] \in {NoCap, PerScope, CatalogCap[s]}
  BY GateAssumption DEF GateTypeOK, CapsInv
<1>1. Cardinality(slots') <= Global
  <2>1. /\ Cardinality(slots \cup {l}) \in Nat /\ Cardinality(slots) \in Nat
        /\ Cardinality(slots \cup {l}) <= Cardinality(slots) + 1
    BY <1>0, LeavesCount
  <2>2. slots' = slots \cup {l} /\ Cardinality(slots) < Global
    BY DEF Granted
  <2>3. Cardinality(slots') = Cardinality(slots \cup {l})
    BY <2>2, Zenon
  <2> QED BY <2>1, <2>2, <2>3, CapTypes
<1>2. ASSUME PerCredential > 0, NEW c \in Creds
      PROVE  Cardinality(Using(creds', c)) <= PerCredential
  <2>1. /\ Cardinality(Using(creds, c)) \in Nat
        /\ Cardinality(Using(creds \cup {l}, c)) \in Nat
        /\ Cardinality(Using(creds \cup {l}, c)) <= Cardinality(Using(creds, c)) + 1
        /\ Cred[l] # c => Using(creds \cup {l}, c) = Using(creds, c)
    BY <1>0, OneMoreUser
  <2>2. Cardinality(Using(creds, c)) <= PerCredential
    BY <1>2 DEF BudgetInv
  <2>3. CASE WantsCred(l) /\ Cred[l] = c
    <3>1. creds' = creds \cup {l} /\ Cardinality(Using(creds, c)) < PerCredential
      BY <2>3 DEF Granted
    <3>2. Cardinality(Using(creds', c)) = Cardinality(Using(creds \cup {l}, c))
      BY <3>1, Zenon
    <3> QED BY <2>1, <3>1, <3>2, CapTypes
  <2>4. CASE ~(WantsCred(l) /\ Cred[l] = c)
    <3>1. creds' = creds \/ (creds' = creds \cup {l} /\ Cred[l] # c)
      BY <2>4 DEF Granted
    <3>2. Using(creds', c) = Using(creds, c)
      BY <2>1, <3>1, Zenon
    <3> QED BY <2>2, <3>2, Zenon
  <2> QED BY <2>3, <2>4
<1>3. ASSUME NEW s \in Scopes
      PROVE  \E n \in {PerScope, CatalogCap[s]} :
                n # NoCap /\ Cardinality(In(slots', s)) <= n
  <2>1. /\ Cardinality(In(slots, s)) \in Nat
        /\ Cardinality(In(slots \cup {l}, s)) \in Nat
        /\ Cardinality(In(slots \cup {l}, s)) <= Cardinality(In(slots, s)) + 1
        /\ Scope[l] # s => In(slots \cup {l}, s) = In(slots, s)
    BY <1>0, OneMoreInScope
  <2>2. slots' = slots \cup {l}
    BY DEF Granted
  <2>3. Cardinality(In(slots', s)) = Cardinality(In(slots \cup {l}, s))
    BY <2>2, Zenon
  <2>4. CASE Scope[l] = s
    <3> DEFINE n == Registered(s, cap)
    <3>1. Cardinality(In(slots, s)) < n
      BY <2>4 DEF Granted
    <3>2. n \in {PerScope, CatalogCap[s]} /\ n # NoCap
      BY <1>0, <2>4, CapTypes DEF Registered
    <3>3. n \in Nat
      BY <1>0, <3>2, CapTypes
    <3> HIDE DEF n
    <3> QED BY <2>1, <2>3, <3>1, <3>2, <3>3
  <2>5. CASE Scope[l] # s
    <3>1. Cardinality(In(slots', s)) = Cardinality(In(slots, s))
      BY <2>1, <2>3, <2>5, Zenon
    <3> QED BY <3>1 DEF BudgetInv
  <2> QED BY <2>4, <2>5
<1>4. ASSUME Share > 0, NEW s \in Scopes
      PROVE  \E n \in {PerScope, CatalogCap[s]} :
                n # NoCap /\ Cardinality(In(drifts', s)) <= DriftSlots(n)
  <2>1. /\ Cardinality(In(drifts, s)) \in Nat
        /\ Cardinality(In(drifts \cup {l}, s)) \in Nat
        /\ Cardinality(In(drifts \cup {l}, s)) <= Cardinality(In(drifts, s)) + 1
        /\ Scope[l] # s => In(drifts \cup {l}, s) = In(drifts, s)
    BY <1>0, OneMoreInScope
  <2>2. CASE WantsDrift(class) /\ Scope[l] = s
    <3>1. drifts' = drifts \cup {l}
      BY <2>2 DEF Granted
    <3>2. PICK n \in {PerScope, CatalogCap[s]} :
                 n # NoCap /\ Cardinality(In(drifts, s)) < DriftSlots(n)
      BY <2>2 DEF Granted
    <3>3. n \in Nat
      BY <1>0, <3>2, CapTypes
    <3>4. DriftSlots(n) \in Int
      BY <3>3, CapTypes DEF DriftSlots
    <3>5. Cardinality(In(drifts', s)) = Cardinality(In(drifts \cup {l}, s))
      BY <3>1, Zenon
    <3> QED BY <2>1, <3>2, <3>4, <3>5
  <2>3. CASE ~(WantsDrift(class) /\ Scope[l] = s)
    <3>1. drifts' = drifts \/ (drifts' = drifts \cup {l} /\ Scope[l] # s)
      BY <2>3 DEF Granted
    <3>2. Cardinality(In(drifts', s)) = Cardinality(In(drifts, s))
      BY <2>1, <3>1, Zenon
    <3> QED BY <1>4, <3>2 DEF BudgetInv
  <2> QED BY <2>2, <2>3
<1> QED BY <1>1, <1>2, <1>3, <1>4 DEF BudgetInv

\* Only an ask takes permits.
LEMMA BudgetStep ==
    ASSUME GateTypeOK, CapsInv, BudgetInv, [GateNext]_gateVars PROVE BudgetInv'
<1>1. ASSUME NEW l \in Leaves, Ask(l) PROVE BudgetInv'
  <2>1. PICK class \in Classes, cap \in {NoCap, CatalogCap[Scope[l]]} :
             Refused(l) \/ Granted(l, class, cap)
    BY <1>1, AskEffect
  <2>2. CASE Refused(l)
    BY <2>2, BudgetShrinks DEF Refused
  <2> QED BY <2>1, <2>2, BudgetGrows
<1>2. ASSUME \/ GateTick
             \/ \E l \in Leaves : \/ \E missing \in BOOLEAN : Defer(l, missing)
                                  \/ Trigger(l) \/ DropScope(l) \/ DropCredential(l)
                                  \/ DropDrift(l) \/ Wake(l)
             \/ UNCHANGED gateVars
      PROVE  BudgetInv'
  <2>1. slots' \subseteq slots /\ creds' \subseteq creds /\ drifts' \subseteq drifts
    BY <1>2 DEF GateTick, Defer, Trigger, DropScope, DropCredential, DropDrift, Wake, gateVars
  <2> QED BY <2>1, BudgetShrinks
<1> QED BY <1>1, <1>2 DEF GateNext

-----------------------------------------------------------------------------
\* The initial state satisfies the inductive invariant.
LEMMA InitInv == GateInit => IInv
<1> SUFFICES ASSUME GateInit PROVE IInv
  OBVIOUS
<1> USE GateAssumption, CapTypes
<1>1. GateTypeOK
  <2>1. DOMAIN line = {} /\ line = [l \in {} |-> 0]
    BY DEF GateInit
  <2>2. line \in [DOMAIN line -> 1 .. Cardinality(DOMAIN line)]
    BY <2>1
  <2>3. entry \in [Leaves -> Entries]
    BY DEF GateInit, Blank, Entries, Classes
  <2>4. want \in [Leaves -> Works] /\ mix \in Mixes
    BY DEF GateInit
  <2> QED BY <2>1, <2>2, <2>3, <2>4 DEF GateInit, GateTypeOK, Runs, Entries
<1>2. MixInv /\ CapsInv /\ HoldInv
  BY DEF GateInit, MixInv, CapsInv, HoldInv, AtWork, Blank
<1>3. BudgetInv
  <2>1. Cardinality({}) = 0 /\ slots = {} /\ creds = {} /\ drifts = {}
    BY FS_EmptySet DEF GateInit
  <2>2. \A x : In({}, x) = {} /\ Using({}, x) = {}
    BY DEF In, Using
  <2>3. \A x : Cardinality(In(slots, x)) = 0 /\ Cardinality(Using(creds, x)) = 0
               /\ Cardinality(In(drifts, x)) = 0
    BY <2>1, <2>2, Zenon
  <2>4. Cardinality(slots) = 0
    BY <2>1, Zenon
  <2>5. DriftSlots(PerScope) >= 0
    BY DEF DriftSlots
  <2> QED BY <2>3, <2>4, <2>5 DEF BudgetInv
<1> QED BY <1>1, <1>2, <1>3 DEF IInv

\* The gate's queue, its Waiting records and its permit sets stay well formed.
THEOREM TypeCorrect == GateSpec => []GateTypeOK
<1>1. GateInit => GateTypeOK /\ MixInv
  BY InitInv DEF IInv
<1>2. GateTypeOK /\ MixInv /\ [GateNext]_gateVars => GateTypeOK' /\ MixInv'
  BY TypeStep
<1> QED BY <1>1, <1>2, PTL DEF GateSpec

\* The inductive invariant behind the theorems that follow.
THEOREM InductiveInvariant == GateSpec => []IInv
<1>1. IInv /\ [GateNext]_gateVars => IInv'
  BY TypeStep, CapsStep, HoldStep, BudgetStep DEF IInv
<1> QED BY <1>1, InitInv, PTL DEF GateSpec

\* No interleaving of asks with permits that are dropped field by field takes
\* the handlers at work over the global pool, over a credential's cap or over
\* the larger of the two caps of a scope (LeafGate::admit, Drop for LeafPermit).
THEOREM WithinCapsCorrect == GateSpec => []WithinCaps
<1>1. IInv => WithinCaps
  <2> SUFFICES ASSUME IInv PROVE WithinCaps
    OBVIOUS
  <2>0. /\ slots = AtWork /\ slots \in SUBSET Leaves /\ creds \in SUBSET Leaves
        /\ \A l \in AtWork : WantsCred(l) => l \in creds
    BY DEF IInv, HoldInv, GateTypeOK
  <2>1. Cardinality(AtWork) <= Global
    BY <2>0 DEF IInv, BudgetInv
  <2>2. ASSUME NEW c \in Creds, PerCredential > 0
        PROVE  Cardinality(Using(AtWork, c)) <= PerCredential
    <3>1. Using(AtWork, c) \in SUBSET Using(creds, c) /\ Using(creds, c) \in SUBSET Leaves
      BY <2>0, <2>2, GateAssumption DEF Using, WantsCred
    <3>2. /\ Cardinality(Using(AtWork, c)) \in Nat /\ Cardinality(Using(creds, c)) \in Nat
          /\ Cardinality(Using(AtWork, c)) <= Cardinality(Using(creds, c))
      BY <3>1, LeavesCount
    <3> QED BY <2>2, <3>2, CapTypes DEF IInv, BudgetInv
  <2>3. ASSUME NEW s \in Scopes
        PROVE  \/ Cardinality(In(AtWork, s)) <= PerScope
               \/ Cardinality(In(AtWork, s)) <= CatalogCap[s]
    BY <2>0 DEF IInv, BudgetInv
  <2> QED BY <2>1, <2>2, <2>3 DEF WithinCaps
<1> QED BY <1>1, InductiveInvariant, PTL

\* A share of the slots is fewer than all of them, where there is more than one.
LEMMA DriftSlotsLeaveOne ==
    ASSUME NEW n \in Nat, NEW k \in Nat, k > 1, n <= k
    PROVE  DriftSlots(n) \in Int /\ DriftSlots(n) < k
BY CapTypes DEF DriftSlots

\* Drift work leaves a slot of its scope to a change, provided the catalog
\* does not narrow the scope below the uniform cap: admit_drift_check asks
\* without the catalog's cap, so a share is then one of the uniform cap.
THEOREM ChangeFindsSlotCorrect ==
    (\A s \in Scopes : SlotsOf(s) >= PerScope) => (GateSpec => []ChangeFindsSlot)
<1> SUFFICES ASSUME \A s \in Scopes : SlotsOf(s) >= PerScope
             PROVE  GateSpec => []ChangeFindsSlot
  OBVIOUS
<1>1. IInv => ChangeFindsSlot
  <2> SUFFICES ASSUME IInv, NEW s \in Scopes, Share > 0, SlotsOf(s) > 1
               PROVE  Cardinality(In(Drifting(AtWork, entry), s)) < SlotsOf(s)
    BY DEF ChangeFindsSlot
  <2>1. /\ In(Drifting(AtWork, entry), s) \in SUBSET In(drifts, s)
        /\ In(drifts, s) \in SUBSET Leaves
    BY DEF IInv, HoldInv, GateTypeOK, In, Drifting, WantsDrift
  <2>2. /\ Cardinality(In(Drifting(AtWork, entry), s)) \in Nat
        /\ Cardinality(In(drifts, s)) \in Nat
        /\ Cardinality(In(Drifting(AtWork, entry), s)) <= Cardinality(In(drifts, s))
    BY <2>1, LeavesCount
  <2>3. PICK n \in {PerScope, CatalogCap[s]} :
               n # NoCap /\ Cardinality(In(drifts, s)) <= DriftSlots(n)
    BY DEF IInv, BudgetInv
  <2>4. n \in Nat /\ SlotsOf(s) \in Nat /\ n <= SlotsOf(s)
    BY <2>3, CapTypes, GateAssumption DEF SlotsOf
  <2>5. DriftSlots(n) \in Int /\ DriftSlots(n) < SlotsOf(s)
    BY <2>4, DriftSlotsLeaveOne
  <2> QED BY <2>2, <2>3, <2>4, <2>5
<1> QED BY <1>1, InductiveInvariant, PTL

-----------------------------------------------------------------------------
\* The ranking of the queue.

\* A set of numbers that is not empty has a smallest one.
LEMMA SmallestNumber ==
    ASSUME NEW B \in SUBSET Nat, B # {}
    PROVE  \E m \in B : \A n \in B : m <= n
<1> DEFINE R == {ss \in Nat \X Nat : ss[1] < ss[2]}
<1>1. IsWellFoundedOn(R, Nat)
  BY NatLessThanWellFounded, Zenon DEF OpToRel
<1> HIDE DEF R
<1>2. PICK x \in B : \A y \in B : ~(<<y, x>> \in R)
  BY <1>1, WFMin
<1>3. ASSUME NEW y \in B PROVE x <= y
  <2>1. x \in Nat /\ y \in Nat /\ <<y, x>> \notin R
    BY <1>2
  <2>2. ~(y < x)
    BY <2>1 DEF R
  <2> QED BY <2>1, <2>2
<1> QED BY <1>3

\* Of sets of leaves there is one that contains no other of them.
LEMMA SmallestSet ==
    ASSUME NEW C \in SUBSET SUBSET Leaves, C # {}
    PROVE  \E t \in C : \A u \in C : u \subseteq t => u = t
<1>0. IsFiniteSet(Leaves)
  BY GateAssumption
<1>1. IsWellFoundedOn(StrictSubsetOrdering(Leaves), SUBSET Leaves)
  BY <1>0, FS_StrictSubsetOrderingWellFounded, FS_FiniteSubsetsOfFinite
<1>2. PICK t \in C : \A u \in C : ~(<<u, t>> \in StrictSubsetOrdering(Leaves))
  BY <1>1, WFMin
<1>3. ASSUME NEW u \in C, u \subseteq t PROVE u = t
  BY <1>2, <1>3 DEF StrictSubsetOrdering
<1> QED BY <1>3

\* The keys of two leaves, compared from the first number to the last.
Key(q, e, l, i) == SortKey(q, e, l)[i]

LEMMA KeyTypes ==
    ASSUME NEW q, IsQueue(q), NEW e \in [Leaves -> Entries], NEW l \in DOMAIN q
    PROVE  /\ Key(q, e, l, 1) \in Int /\ Key(q, e, l, 2) \in Int
           /\ Key(q, e, l, 3) \in Int /\ Key(q, e, l, 4) = l /\ l \in Int
<1>1. l \in Leaves /\ l \in Int /\ Depth[l] \in Int
  BY GateAssumption DEF IsQueue
<1>2. q[l] \in Int
  BY LeavesCount DEF IsQueue
<1>3. e[l].class \in Classes
  BY <1>1 DEF Entries
<1>4. ClassRank[e[l].class] \in Int
  BY <1>3 DEF Classes, ClassRank
<1> DEFINE r == ClassRank[e[l].class]
           d == IF e[l].class = "Drift" THEN q[l] ELSE 0
<1>5. r \in Int /\ d \in Int
  BY <1>2, <1>4
<1>6. SortKey(q, e, l) = IF Priority THEN <<r, d, Depth[l], l>> ELSE <<q[l], 0, 0, l>>
  BY DEF SortKey
<1> HIDE DEF r, d
<1>7. CASE Priority
  BY <1>1, <1>5, <1>6, <1>7 DEF Key
<1>8. CASE ~Priority
  BY <1>1, <1>2, <1>6, <1>8 DEF Key
<1> QED BY <1>7, <1>8

LEMMA BeforeIs ==
    ASSUME NEW q, NEW e, NEW l, NEW m
    PROVE  Before(q, e, l, m) <=>
             \/ Key(q, e, l, 1) < Key(q, e, m, 1)
             \/ /\ Key(q, e, l, 1) = Key(q, e, m, 1)
                /\ \/ Key(q, e, l, 2) < Key(q, e, m, 2)
                   \/ /\ Key(q, e, l, 2) = Key(q, e, m, 2)
                      /\ \/ Key(q, e, l, 3) < Key(q, e, m, 3)
                         \/ /\ Key(q, e, l, 3) = Key(q, e, m, 3)
                            /\ Key(q, e, l, 4) < Key(q, e, m, 4)
<1>1. Before(q, e, l, m) <=>
        \E i \in 1 .. 4 : /\ Key(q, e, l, i) < Key(q, e, m, i)
                          /\ \A j \in 1 .. i - 1 : Key(q, e, l, j) = Key(q, e, m, j)
  BY DEF Before, Key
<1>2. /\ 1 .. 4 = {1, 2, 3, 4} /\ 1 .. 1 - 1 = {} /\ 1 .. 2 - 1 = {1}
      /\ 1 .. 3 - 1 = {1, 2} /\ 1 .. 4 - 1 = {1, 2, 3}
  OBVIOUS
<1> QED BY <1>1, <1>2

\* The ranking is a strict total order of the leaves that wait.
LEMMA BeforeOrders ==
    ASSUME NEW q, IsQueue(q), NEW e \in [Leaves -> Entries]
    PROVE  /\ \A l \in DOMAIN q : ~Before(q, e, l, l)
           /\ \A l, m \in DOMAIN q : ~(Before(q, e, l, m) /\ Before(q, e, m, l))
           /\ \A l, m \in DOMAIN q : l = m \/ Before(q, e, l, m) \/ Before(q, e, m, l)
           /\ \A l, m, n \in DOMAIN q :
                Before(q, e, l, m) /\ Before(q, e, m, n) => Before(q, e, l, n)
<1>1. ASSUME NEW l \in DOMAIN q PROVE ~Before(q, e, l, l)
  BY KeyTypes, BeforeIs
<1>2. ASSUME NEW l \in DOMAIN q, NEW m \in DOMAIN q
      PROVE  /\ ~(Before(q, e, l, m) /\ Before(q, e, m, l))
             /\ l = m \/ Before(q, e, l, m) \/ Before(q, e, m, l)
  BY KeyTypes, BeforeIs
<1>3. ASSUME NEW l \in DOMAIN q, NEW m \in DOMAIN q, NEW n \in DOMAIN q,
             Before(q, e, l, m), Before(q, e, m, n)
      PROVE  Before(q, e, l, n)
  BY <1>3, KeyTypes, BeforeIs
<1> QED BY <1>1, <1>2, <1>3

\* Of leaves that wait one is the worst-ranked and one the best-ranked.
LEMMA WorstIs ==
    ASSUME NEW q, IsQueue(q), NEW e \in [Leaves -> Entries], NEW S \in SUBSET DOMAIN q, S # {}
    PROVE  /\ Worst(q, e, S) \in S
           /\ \A m \in S \ {Worst(q, e, S)} : Before(q, e, m, Worst(q, e, S))
<1> DEFINE W(t) == \E l \in t : \A m \in t \ {l} : Before(q, e, m, l)
           C == {t \in SUBSET DOMAIN q : t # {} /\ ~W(t)}
<1>1. C = {}
  <2> SUFFICES ASSUME C # {} PROVE FALSE
    OBVIOUS
  <2>0. C \in SUBSET SUBSET Leaves
    BY DEF IsQueue
  <2>a. \E t \in C : \A u \in C : u \subseteq t => u = t
    <3> HIDE DEF C
    <3> QED BY <2>0, SmallestSet
  <2>1. PICK t \in C : \A u \in C : u \subseteq t => u = t
    BY <2>a
  <2>2. PICK x \in t : TRUE
    OBVIOUS
  <2>3. t \ {x} \notin C /\ t \in SUBSET DOMAIN q /\ ~W(t)
    BY <2>1
  <2>4. CASE t \ {x} = {}
    <3>1. \A m \in t \ {x} : Before(q, e, m, x)
      BY <2>4
    <3> QED BY <2>3, <3>1
  <2>5. CASE t \ {x} # {}
    <3>1. PICK w \in t \ {x} : \A m \in (t \ {x}) \ {w} : Before(q, e, m, w)
      BY <2>3, <2>5
    <3>2. x \in DOMAIN q /\ w \in DOMAIN q /\ x # w
      BY <2>3
    <3>3. CASE Before(q, e, x, w)
      <4>1. \A m \in t \ {w} : Before(q, e, m, w)
        BY <3>1, <3>3
      <4> QED BY <2>3, <4>1
    <3>4. CASE Before(q, e, w, x)
      <4>1. \A m \in t \ {x} : Before(q, e, m, x)
        BY <2>3, <3>1, <3>2, <3>4, BeforeOrders
      <4> QED BY <2>3, <4>1
    <3> QED BY <3>2, <3>3, <3>4, BeforeOrders
  <2> QED BY <2>4, <2>5
<1>2. W(S)
  BY <1>1
<1> QED BY <1>2 DEF Worst

LEMMA BestExists ==
    ASSUME NEW q, IsQueue(q), NEW e \in [Leaves -> Entries], NEW S \in SUBSET DOMAIN q, S # {}
    PROVE  \E l \in S : \A m \in S \ {l} : Before(q, e, l, m)
<1> DEFINE W(t) == \E l \in t : \A m \in t \ {l} : Before(q, e, l, m)
           C == {t \in SUBSET DOMAIN q : t # {} /\ ~W(t)}
<1>1. C = {}
  <2> SUFFICES ASSUME C # {} PROVE FALSE
    OBVIOUS
  <2>0. C \in SUBSET SUBSET Leaves
    BY DEF IsQueue
  <2>a. \E t \in C : \A u \in C : u \subseteq t => u = t
    <3> HIDE DEF C
    <3> QED BY <2>0, SmallestSet
  <2>1. PICK t \in C : \A u \in C : u \subseteq t => u = t
    BY <2>a
  <2>2. PICK x \in t : TRUE
    OBVIOUS
  <2>3. t \ {x} \notin C /\ t \in SUBSET DOMAIN q /\ ~W(t)
    BY <2>1
  <2>4. CASE t \ {x} = {}
    <3>1. \A m \in t \ {x} : Before(q, e, x, m)
      BY <2>4
    <3> QED BY <2>3, <3>1
  <2>5. CASE t \ {x} # {}
    <3>1. PICK w \in t \ {x} : \A m \in (t \ {x}) \ {w} : Before(q, e, w, m)
      BY <2>3, <2>5
    <3>2. x \in DOMAIN q /\ w \in DOMAIN q /\ x # w
      BY <2>3
    <3>3. CASE Before(q, e, w, x)
      <4>1. \A m \in t \ {w} : Before(q, e, w, m)
        BY <3>1, <3>3
      <4> QED BY <2>3, <4>1
    <3>4. CASE Before(q, e, x, w)
      <4>1. \A m \in t \ {x} : Before(q, e, x, m)
        BY <2>3, <3>1, <3>2, <3>4, BeforeOrders
      <4> QED BY <2>3, <4>1
    <3> QED BY <3>2, <3>3, <3>4, BeforeOrders
  <2> QED BY <2>4, <2>5
<1> QED BY <1>1

-----------------------------------------------------------------------------
\* The admission loop, given the permits that are out.
FitsIn(sl, cr, dr, q, e, A, l) ==
    LET cap == ScopeCap(q, e, Scope[l]) IN
    /\ Cardinality(sl) + Cardinality(A) < EngineGlobal
    /\ Cardinality(In(sl, Scope[l])) + Cardinality(In(A, Scope[l])) < cap
    /\ e[l].class = "Drift" /\ Share > 0 =>
         Cardinality(In(dr, Scope[l])) + Cardinality(In(Drifting(A, e), Scope[l]))
            < DriftSlots(cap)
    /\ Cred[l] # NoCred /\ PerCredential > 0 =>
         Cardinality(Using(cr, Cred[l])) + Cardinality(Using(A, Cred[l]))
            < PerCredential

Taken(sl, cr, dr, q, e, A, l) ==
    IF FitsIn(sl, cr, dr, q, e, A, l) THEN A \cup {l} ELSE A

Turns(sl, cr, dr, q, e, f) ==
    [s \in SUBSET DOMAIN q |->
        IF s = {} THEN {}
        ELSE Taken(sl, cr, dr, q, e, f[s \ {Worst(q, e, s)}], Worst(q, e, s))]

Loop(sl, cr, dr, q, e) == CHOOSE f : f = Turns(sl, cr, dr, q, e, f)

AdmittedIn(sl, cr, dr, q, e) == Loop(sl, cr, dr, q, e)[DOMAIN q]

LEMMA AdmittedIsLoop ==
    ASSUME NEW q, NEW e
    PROVE  Admitted(q, e) = AdmittedIn(slots, creds, drifts, q, e)
BY DEF Admitted, MapThenFoldSet, AdmittedIn, Loop, Turns, Taken, Fits, FitsIn

LEMMA CountWaiting ==
    ASSUME NEW q, IsQueue(q), NEW e \in [Leaves -> Entries], NEW s \in SUBSET DOMAIN q
    PROVE  /\ Cardinality(s) \in Nat /\ Cardinality(DOMAIN q) \in Nat
           /\ Cardinality(s) <= Cardinality(DOMAIN q)
           /\ s # {} => /\ Worst(q, e, s) \in s
                        /\ Cardinality(s \ {Worst(q, e, s)}) \in Nat
                        /\ Cardinality(s) = Cardinality(s \ {Worst(q, e, s)}) + 1
<1>1. DOMAIN q \in SUBSET Leaves
  BY DEF IsQueue
<1>2. IsFiniteSet(s) /\ Cardinality(s) \in Nat /\ Cardinality(DOMAIN q) \in Nat
      /\ Cardinality(s) <= Cardinality(DOMAIN q)
  BY <1>1, LeavesCount
<1>3. ASSUME s # {} PROVE Worst(q, e, s) \in s
  BY <1>3, WorstIs
<1>4. ASSUME s # {}
      PROVE  /\ Cardinality(s \ {Worst(q, e, s)}) \in Nat
             /\ Cardinality(s) = Cardinality(s \ {Worst(q, e, s)}) + 1
  <2>1. /\ IsFiniteSet(s \ {Worst(q, e, s)})
        /\ Cardinality(s \ {Worst(q, e, s)}) = Cardinality(s) - 1
    BY <1>2, <1>3, <1>4, FS_RemoveElement
  <2>2. Cardinality(s \ {Worst(q, e, s)}) \in Nat
    BY <2>1, FS_CardinalityType
  <2> QED BY <1>2, <2>1, <2>2
<1> QED BY <1>2, <1>3, <1>4

\* The fold chooses a function that satisfies its equation; there is one:
\* turns on the sets of up to k leaves make one that is right for k + 1.
LEMMA LoopIsTurns ==
    ASSUME NEW sl, NEW cr, NEW dr, NEW q, IsQueue(q), NEW e \in [Leaves -> Entries]
    PROVE  Loop(sl, cr, dr, q, e) = Turns(sl, cr, dr, q, e, Loop(sl, cr, dr, q, e))
<1> DEFINE D == DOMAIN q
           T(f) == Turns(sl, cr, dr, q, e, f)
           F == [SUBSET D -> SUBSET D]
           Right(f, k) == \A s \in SUBSET D : Cardinality(s) < k => f[s] = T(f)[s]
           B == {k \in Nat : ~\E f \in F : Right(f, k)}
<1>0. /\ Cardinality(D) + 1 \in Nat
      /\ \A s \in SUBSET D : /\ Cardinality(s) \in Nat
                             /\ ~(Cardinality(s) < 0)
                             /\ Cardinality(s) < Cardinality(D) + 1
  <2>1. ASSUME NEW s \in SUBSET D
        PROVE  /\ Cardinality(s) \in Nat /\ Cardinality(D) \in Nat
               /\ Cardinality(s) <= Cardinality(D)
    BY CountWaiting
  <2>2. D \in SUBSET D
    OBVIOUS
  <2>3. Cardinality(D) \in Nat
    BY <2>1, <2>2
  <2> QED BY <2>1, <2>3
<1>1. ASSUME NEW f \in F PROVE T(f) \in F
  <2>1. ASSUME NEW s \in SUBSET D
        PROVE  (IF s = {} THEN {}
                ELSE Taken(sl, cr, dr, q, e, f[s \ {Worst(q, e, s)}], Worst(q, e, s)))
                  \in SUBSET D
    <3>1. CASE s = {}
      BY <3>1
    <3>2. CASE s # {}
      <4>1. s \ {Worst(q, e, s)} \in SUBSET D /\ Worst(q, e, s) \in D
        BY <3>2, WorstIs
      <4>2. f[s \ {Worst(q, e, s)}] \in SUBSET D
        BY <4>1
      <4> QED BY <3>2, <4>1, <4>2 DEF Taken
    <3> QED BY <3>1, <3>2
  <2> QED BY <2>1 DEF Turns
<1>2. ASSUME NEW k \in Nat, NEW f \in F, Right(f, k) PROVE Right(T(f), k + 1)
  <2> SUFFICES ASSUME NEW s \in SUBSET D, Cardinality(s) < k + 1
               PROVE  T(f)[s] = T(T(f))[s]
    OBVIOUS
  <2>1. CASE s = {}
    BY <2>1 DEF Turns
  <2>2. CASE s # {}
    <3> DEFINE w == Worst(q, e, s)
               u == s \ {w}
    <3>1. u \in SUBSET D /\ Cardinality(u) < k
      BY <2>2, CountWaiting
    <3>2. f[u] = T(f)[u]
      BY <1>2, <3>1
    <3>3. \A h : T(h)[s] = Taken(sl, cr, dr, q, e, h[u], w)
      BY <2>2 DEF Turns
    <3> QED BY <3>2, <3>3
  <2> QED BY <2>1, <2>2
<1>3. B = {}
  <2> SUFFICES ASSUME B # {} PROVE FALSE
    OBVIOUS
  <2>1. PICK m \in B : \A n \in B : m <= n
    BY SmallestNumber
  <2>2. m # 0
    <3>1. [s \in SUBSET D |-> {}] \in F
      OBVIOUS
    <3>2. Right([s \in SUBSET D |-> {}], 0)
      BY <1>0
    <3> QED BY <3>1, <3>2
  <2>3. m - 1 \in Nat /\ m - 1 \notin B
    <3>1. m \in Nat /\ m - 1 \in Nat /\ ~(m <= m - 1)
      BY <2>2
    <3> HIDE DEF B
    <3> QED BY <2>1, <3>1
  <2>4. PICK f \in F : Right(f, m - 1)
    BY <2>3
  <2> HIDE DEF F, Right
  <2>5. T(f) \in F /\ Right(T(f), (m - 1) + 1)
    BY <1>1, <1>2, <2>3, <2>4
  <2>6. (m - 1) + 1 = m
    BY <2>3
  <2>7. Right(T(f), m)
    BY <2>5, <2>6
  <2> QED BY <2>5, <2>7
<1>5. PICK f \in F : Right(f, Cardinality(D) + 1)
  BY <1>0, <1>3
<1>6. f = T(f)
  <2>1. \A s \in SUBSET D : f[s] = T(f)[s]
    BY <1>0, <1>5
  <2>2. T(f) \in F
    BY <1>1
  <2> HIDE DEF Right, T
  <2> QED BY <2>1, <2>2
<1> QED BY <1>6, Zenon DEF Loop

\* What the turns for the leaves s have admitted: those that fit beside the
\* better-ranked ones admitted before them.
GreedyOn(sl, cr, dr, q, e, s, A) ==
    /\ A \subseteq s
    /\ \A l \in s : l \in A <=>
         FitsIn(sl, cr, dr, q, e, {m \in A : Before(q, e, m, l)}, l)

LEMMA LoopGreedy ==
    ASSUME NEW sl, NEW cr, NEW dr, NEW q, IsQueue(q), NEW e \in [Leaves -> Entries],
           NEW s \in SUBSET DOMAIN q
    PROVE  GreedyOn(sl, cr, dr, q, e, s, Loop(sl, cr, dr, q, e)[s])
<1> DEFINE P(t) == GreedyOn(sl, cr, dr, q, e, t, Loop(sl, cr, dr, q, e)[t])
           C == {t \in SUBSET DOMAIN q : ~P(t)}
<1> SUFFICES ASSUME C # {} PROVE FALSE
  OBVIOUS
<1>0. C \in SUBSET SUBSET Leaves
  BY DEF IsQueue
<1>a. \E t \in C : \A u \in C : u \subseteq t => u = t
  <2> HIDE DEF C
  <2> QED BY <1>0, SmallestSet
<1>1. PICK t \in C : \A u \in C : u \subseteq t => u = t
  BY <1>a
<1>2. t \in SUBSET DOMAIN q /\ ~P(t)
  OBVIOUS
<1>3. CASE t = {}
  <2>1. Loop(sl, cr, dr, q, e)[t] = {}
    <3> DEFINE L == Loop(sl, cr, dr, q, e)
    <3>1. L = Turns(sl, cr, dr, q, e, L)
      BY LoopIsTurns
    <3>2. \A h : Turns(sl, cr, dr, q, e, h)[t] = {}
      BY <1>2, <1>3 DEF Turns
    <3> HIDE DEF L
    <3>3. L[t] = Turns(sl, cr, dr, q, e, L)[t]
      BY <3>1, Zenon
    <3>4. L[t] = {}
      BY <3>2, <3>3
    <3> QED BY <3>4 DEF L
  <2>2. P(t)
    BY <1>3, <2>1 DEF GreedyOn
  <2> QED BY <1>2, <2>2
<1>4. CASE t # {}
  <2> DEFINE w == Worst(q, e, t)
             u == t \ {w}
             A == Loop(sl, cr, dr, q, e)[u]
             B == Loop(sl, cr, dr, q, e)[t]
  <2>1. w \in t /\ \A m \in u : Before(q, e, m, w)
    BY <1>2, <1>4, WorstIs
  <2>2. P(u)
    <3>1. u \subseteq t /\ u # t /\ u \in SUBSET DOMAIN q
      BY <1>2, <2>1
    <3>2. u \notin C
      <4> HIDE DEF C, u
      <4> QED BY <1>1, <3>1
    <3> HIDE DEF P, u
    <3> QED BY <3>1, <3>2
  <2>3. B = Taken(sl, cr, dr, q, e, A, w)
    <3> DEFINE L == Loop(sl, cr, dr, q, e)
    <3>1. L = Turns(sl, cr, dr, q, e, L)
      BY LoopIsTurns
    <3>2. \A h : Turns(sl, cr, dr, q, e, h)[t] = Taken(sl, cr, dr, q, e, h[u], w)
      BY <1>2, <1>4 DEF Turns
    <3> HIDE DEF L, u, w
    <3>3. L[t] = Turns(sl, cr, dr, q, e, L)[t]
      BY <3>1, Zenon
    <3>4. L[t] = Taken(sl, cr, dr, q, e, L[u], w)
      BY <3>2, <3>3
    <3> QED BY <3>4 DEF L
  <2>4. GreedyOn(sl, cr, dr, q, e, u, A)
    BY <2>2
  <2> HIDE DEF w, A, B
  <2>5. A \subseteq u /\ w \notin A /\ (B = A \/ B = A \cup {w})
        /\ (w \in B <=> FitsIn(sl, cr, dr, q, e, A, w))
    BY <2>3, <2>4 DEF GreedyOn, Taken
  <2>6. {m \in B : Before(q, e, m, w)} = A
    BY <1>2, <2>1, <2>5, BeforeOrders
  <2>7. ASSUME NEW l \in u
        PROVE  l \in B <=> FitsIn(sl, cr, dr, q, e, {m \in B : Before(q, e, m, l)}, l)
    <3>1. ~Before(q, e, w, l)
      BY <1>2, <2>1, BeforeOrders
    <3>2. {m \in B : Before(q, e, m, l)} = {m \in A : Before(q, e, m, l)}
      BY <2>5, <3>1
    <3>3. l \in B <=> l \in A
      BY <2>5
    <3> QED BY <2>4, <3>2, <3>3 DEF GreedyOn
  <2>8. GreedyOn(sl, cr, dr, q, e, t, B)
    <3>1. B \subseteq t
      BY <2>1, <2>5
    <3>2. ASSUME NEW l \in t
          PROVE  l \in B <=> FitsIn(sl, cr, dr, q, e, {m \in B : Before(q, e, m, l)}, l)
      <4>1. CASE l = w
        BY <2>5, <2>6, <4>1
      <4>2. CASE l # w
        BY <2>7, <4>2
      <4> QED BY <4>1, <4>2
    <3> QED BY <3>1, <3>2 DEF GreedyOn
  <2> QED BY <1>2, <2>8 DEF B
<1> QED BY <1>3, <1>4

\* admit: of the leaves that wait it takes those that fit beside the better-
\* ranked ones it takes.
LEMMA AdmittedGreedy ==
    ASSUME NEW sl, NEW cr, NEW dr, NEW q, IsQueue(q), NEW e \in [Leaves -> Entries]
    PROVE  GreedyOn(sl, cr, dr, q, e, DOMAIN q, AdmittedIn(sl, cr, dr, q, e))
<1>1. DOMAIN q \in SUBSET DOMAIN q
  OBVIOUS
<1> QED BY <1>1, LoopGreedy DEF AdmittedIn

-----------------------------------------------------------------------------
\* A grant and the better classes.

\* What a leaf that is not drift work needs: the scope's cap is the one the
\* leaf itself carries, and the drift share does not bind it.
FitsBeside(sl, cr, A, l) ==
    /\ Cardinality(sl) + Cardinality(A) < EngineGlobal
    /\ Cardinality(In(sl, Scope[l])) + Cardinality(In(A, Scope[l])) < SlotsOf(Scope[l])
    /\ Cred[l] # NoCred /\ PerCredential > 0 =>
         Cardinality(Using(cr, Cred[l])) + Cardinality(Using(A, Cred[l])) < PerCredential

\* The entries of a queue that carry the caps the code gives them.
CapsOf(q, e) ==
    \A k \in DOMAIN q : /\ e[k].cap \in {NoCap, CatalogCap[Scope[k]]}
                        /\ e[k].class # "Drift" => e[k].cap = CatalogCap[Scope[k]]

LEMMA ScopeCapIsSlots ==
    ASSUME NEW q, NEW e, CapsOf(q, e), NEW k \in DOMAIN q, e[k].class # "Drift"
    PROVE  ScopeCap(q, e, Scope[k]) = SlotsOf(Scope[k])
<1> DEFINE s == Scope[k]
           caps == {e[l].cap : l \in In(DOMAIN q, s)} \ {NoCap}
<1>1. e[k].cap = CatalogCap[s] /\ k \in In(DOMAIN q, s)
  BY DEF CapsOf, In
<1>2. \A n \in caps : n = CatalogCap[s]
  BY DEF CapsOf, In
<1>3. CASE CatalogCap[s] = NoCap
  <2>1. caps = {}
    BY <1>2, <1>3
  <2> QED BY <1>3, <2>1 DEF ScopeCap, SlotsOf
<1>4. CASE CatalogCap[s] # NoCap
  <2>1. caps = {CatalogCap[s]}
    BY <1>1, <1>2, <1>4
  <2> HIDE DEF caps
  <2>2. caps # {} /\ (CHOOSE n \in caps : TRUE) = CatalogCap[s]
    BY <2>1
  <2> QED BY <1>4, <2>2 DEF ScopeCap, SlotsOf, caps
<1> QED BY <1>3, <1>4

LEMMA FitsIsBeside ==
    ASSUME NEW sl, NEW cr, NEW dr, NEW q, NEW e, CapsOf(q, e),
           NEW k \in DOMAIN q, e[k].class # "Drift", NEW A
    PROVE  FitsIn(sl, cr, dr, q, e, A, k) <=> FitsBeside(sl, cr, A, k)
BY ScopeCapIsSlots DEF FitsIn, FitsBeside

\* A better class ranks before, and a leaf that ranks before is not of a
\* worse class.
LEMMA ClassRanks ==
    ASSUME Priority, NEW q, IsQueue(q), NEW e \in [Leaves -> Entries],
           NEW k \in DOMAIN q, NEW m \in DOMAIN q
    PROVE  /\ ClassRank[e[k].class] \in 1 .. 5
           /\ ClassRank[e[k].class] < 5 => e[k].class # "Drift"
           /\ ClassRank[e[k].class] < ClassRank[e[m].class] => Before(q, e, k, m)
           /\ Before(q, e, k, m) => ClassRank[e[k].class] <= ClassRank[e[m].class]
<1>0. k \in Leaves /\ m \in Leaves
  BY DEF IsQueue
<1>1. e[k].class \in Classes /\ e[m].class \in Classes
  BY <1>0 DEF Entries
<1>2. /\ ClassRank[e[k].class] \in 1 .. 5 /\ ClassRank[e[m].class] \in 1 .. 5
      /\ ClassRank[e[k].class] < 5 => e[k].class # "Drift"
  BY <1>1 DEF Classes, ClassRank
<1>3. \A l : Key(q, e, l, 1) = ClassRank[e[l].class]
  BY DEF Key, SortKey
<1>4. ClassRank[e[k].class] < ClassRank[e[m].class] => Before(q, e, k, m)
  BY <1>3, BeforeIs
<1>5. Before(q, e, k, m) =>
        Key(q, e, k, 1) < Key(q, e, m, 1) \/ Key(q, e, k, 1) = Key(q, e, m, 1)
  BY BeforeIs
<1> QED BY <1>2, <1>3, <1>4, <1>5

\* Leaves that are not drift work rank alike in any queue they are in.
LEMMA SameOrder ==
    ASSUME Priority, NEW q, NEW e, NEW q1, NEW e1, NEW k, NEW m,
           e1[k] = e[k], e1[m] = e[m], e[k].class # "Drift", e[m].class # "Drift"
    PROVE  Before(q1, e1, k, m) <=> Before(q, e, k, m)
<1>1. SortKey(q1, e1, k) = SortKey(q, e, k) /\ SortKey(q1, e1, m) = SortKey(q, e, m)
  BY DEF SortKey
<1> QED BY <1>1 DEF Before

\* One leaf more in a count, where its place is the one counted.
LEMMA OneMore ==
    ASSUME NEW Y \in SUBSET Leaves, NEW X \in SUBSET Y, NEW k \in Y, k \notin X, NEW s, NEW c
    PROVE  /\ Cardinality(X) + 1 <= Cardinality(Y)
           /\ Scope[k] = s => Cardinality(In(X, s)) + 1 <= Cardinality(In(Y, s))
           /\ Cred[k] = c => Cardinality(Using(X, c)) + 1 <= Cardinality(Using(Y, c))
           /\ Cardinality(X) \in Nat /\ Cardinality(Y) \in Nat
           /\ Cardinality(In(X, s)) \in Nat /\ Cardinality(In(Y, s)) \in Nat
           /\ Cardinality(Using(X, c)) \in Nat /\ Cardinality(Using(Y, c)) \in Nat
<1>1. ASSUME NEW V \in SUBSET Leaves, NEW U \in SUBSET V, k \in V, k \notin U
      PROVE  Cardinality(U) + 1 <= Cardinality(V)
  <2>1. U \cup {k} \in SUBSET V /\ IsFiniteSet(U)
    BY <1>1, LeavesCount
  <2>2. Cardinality(U \cup {k}) = Cardinality(U) + 1
    BY <1>1, <2>1, FS_AddElement
  <2> QED BY <2>1, <2>2, LeavesCount
<1>2. /\ In(X, s) \in SUBSET In(Y, s) /\ In(Y, s) \in SUBSET Leaves /\ k \notin In(X, s)
      /\ Scope[k] = s => k \in In(Y, s)
  BY DEF In
<1>3. /\ Using(X, c) \in SUBSET Using(Y, c) /\ Using(Y, c) \in SUBSET Leaves
      /\ k \notin Using(X, c)
      /\ Cred[k] = c => k \in Using(Y, c)
  BY DEF Using
<1>4. /\ Cardinality(X) \in Nat /\ Cardinality(Y) \in Nat
      /\ Cardinality(In(X, s)) \in Nat /\ Cardinality(In(Y, s)) \in Nat
      /\ Cardinality(Using(X, c)) \in Nat /\ Cardinality(Using(Y, c)) \in Nat
  BY FewerHolders
<1>5. Cardinality(X) + 1 <= Cardinality(Y)
  BY <1>1
<1>6. Scope[k] = s => Cardinality(In(X, s)) + 1 <= Cardinality(In(Y, s))
  BY <1>1, <1>2
<1>7. Cred[k] = c => Cardinality(Using(X, c)) + 1 <= Cardinality(Using(Y, c))
  BY <1>1, <1>3
<1> QED BY <1>4, <1>5, <1>6, <1>7

\* The permits that are out once l has been granted one.
WithGrant(sl, cr, l, sl1, cr1) ==
    /\ sl1 = sl \cup {l}
    /\ cr1 = IF WantsCred(l) THEN cr \cup {l} ELSE cr

\* A grant takes nothing from a leaf k counted before it: l fitted beside k.
LEMMA StillFits ==
    ASSUME NEW sl \in SUBSET Leaves, NEW cr \in SUBSET Leaves, NEW dr,
           NEW l \in Leaves, NEW k \in Leaves, NEW sl1, NEW cr1, WithGrant(sl, cr, l, sl1, cr1),
           NEW q, NEW e, NEW Y \in SUBSET Leaves, FitsIn(sl, cr, dr, q, e, Y, l),
           Scope[k] = Scope[l] => ScopeCap(q, e, Scope[l]) = SlotsOf(Scope[l]),
           NEW X \in SUBSET Y, k \in Y, k \notin X, FitsBeside(sl, cr, X, k)
    PROVE  FitsBeside(sl1, cr1, X, k)
<1> DEFINE s == Scope[k]
           c == Cred[k]
<1>0. SlotsOf(s) \in Int /\ EngineGlobal \in Int /\ PerCredential \in Int
  BY GateAssumption, CapTypes DEF SlotsOf, EngineGlobal
<1>1. sl1 \in SUBSET Leaves /\ cr1 \in SUBSET Leaves
  BY DEF WithGrant
<1>2. /\ Cardinality(sl) \in Nat /\ Cardinality(sl1) \in Nat
      /\ Cardinality(sl1) <= Cardinality(sl) + 1
  BY LeavesCount DEF WithGrant
<1>3. /\ Cardinality(In(sl, s)) \in Nat /\ Cardinality(In(sl1, s)) \in Nat
      /\ Cardinality(In(sl1, s)) <= Cardinality(In(sl, s)) + 1
      /\ Scope[l] # s => In(sl1, s) = In(sl, s)
  BY OneMoreInScope DEF WithGrant
<1>4. /\ Cardinality(Using(cr, c)) \in Nat /\ Cardinality(Using(cr1, c)) \in Nat
      /\ Cardinality(Using(cr1, c)) <= Cardinality(Using(cr, c)) + 1
      /\ Cred[l] # c => Using(cr1, c) = Using(cr, c)
  <2>1. cr1 = cr \/ cr1 = cr \cup {l}
    BY DEF WithGrant
  <2>2. /\ Cardinality(Using(cr, c)) \in Nat /\ Cardinality(Using(cr \cup {l}, c)) \in Nat
        /\ Cardinality(Using(cr \cup {l}, c)) <= Cardinality(Using(cr, c)) + 1
        /\ Cred[l] # c => Using(cr \cup {l}, c) = Using(cr, c)
    BY OneMoreUser
  <2>3. CASE cr1 = cr
    BY <2>2, <2>3
  <2>4. CASE cr1 = cr \cup {l}
    BY <2>2, <2>4
  <2> QED BY <2>1, <2>3, <2>4
<1>5. /\ Cardinality(X) + 1 <= Cardinality(Y)
      /\ Cardinality(In(X, s)) + 1 <= Cardinality(In(Y, s))
      /\ Cardinality(Using(X, c)) + 1 <= Cardinality(Using(Y, c))
      /\ Cardinality(X) \in Nat /\ Cardinality(Y) \in Nat
      /\ Cardinality(In(X, s)) \in Nat /\ Cardinality(In(Y, s)) \in Nat
      /\ Cardinality(Using(X, c)) \in Nat /\ Cardinality(Using(Y, c)) \in Nat
  BY OneMore
<1>6. /\ Cardinality(sl) + Cardinality(Y) < EngineGlobal
      /\ Cardinality(In(sl, Scope[l])) + Cardinality(In(Y, Scope[l])) < ScopeCap(q, e, Scope[l])
      /\ Cred[l] # NoCred /\ PerCredential > 0 =>
           Cardinality(Using(cr, Cred[l])) + Cardinality(Using(Y, Cred[l])) < PerCredential
  BY DEF FitsIn
<1>7. /\ Cardinality(sl) + Cardinality(X) < EngineGlobal
      /\ Cardinality(In(sl, s)) + Cardinality(In(X, s)) < SlotsOf(s)
      /\ c # NoCred /\ PerCredential > 0 =>
           Cardinality(Using(cr, c)) + Cardinality(Using(X, c)) < PerCredential
  BY DEF FitsBeside
<1>8. Cardinality(sl1) + Cardinality(X) < EngineGlobal
  BY <1>0, <1>2, <1>5, <1>6
<1>9. Cardinality(In(sl1, s)) + Cardinality(In(X, s)) < SlotsOf(s)
  <2>1. CASE Scope[l] = s
    <3>1. Cardinality(In(sl, s)) + Cardinality(In(Y, s)) < SlotsOf(s)
      BY <1>6, <2>1
    <3> QED BY <1>0, <1>3, <1>5, <3>1
  <2>2. CASE Scope[l] # s
    <3>1. Cardinality(In(sl1, s)) = Cardinality(In(sl, s))
      BY <1>3, <2>2, Zenon
    <3> QED BY <1>7, <3>1
  <2> QED BY <2>1, <2>2
<1>10. ASSUME c # NoCred, PerCredential > 0
       PROVE  Cardinality(Using(cr1, c)) + Cardinality(Using(X, c)) < PerCredential
  <2>1. CASE Cred[l] = c
    <3>1. Cardinality(Using(cr, c)) + Cardinality(Using(Y, c)) < PerCredential
      BY <1>6, <1>10, <2>1
    <3> QED BY <1>0, <1>4, <1>5, <3>1
  <2>2. CASE Cred[l] # c
    <3>1. Cardinality(Using(cr1, c)) = Cardinality(Using(cr, c))
      BY <1>4, <2>2, Zenon
    <3> QED BY <1>7, <1>10, <3>1
  <2> QED BY <2>1, <2>2
<1> QED BY <1>8, <1>9, <1>10 DEF FitsBeside

\* More permits out never make a leaf fit.
LEMMA FitsWithFewer ==
    ASSUME NEW sl \in SUBSET Leaves, NEW cr \in SUBSET Leaves, NEW l \in Leaves, NEW k \in Leaves,
           NEW sl1, NEW cr1, WithGrant(sl, cr, l, sl1, cr1), NEW X \in SUBSET Leaves,
           FitsBeside(sl1, cr1, X, k)
    PROVE  FitsBeside(sl, cr, X, k)
<1>0. SlotsOf(Scope[k]) \in Int /\ EngineGlobal \in Int /\ PerCredential \in Int
  BY GateAssumption, CapTypes DEF SlotsOf, EngineGlobal
<1>1. /\ sl1 \in SUBSET Leaves /\ cr1 \in SUBSET Leaves
      /\ sl \in SUBSET sl1 /\ cr \in SUBSET cr1
  BY DEF WithGrant
<1>2. /\ Cardinality(sl) \in Nat /\ Cardinality(sl1) \in Nat /\ Cardinality(sl) <= Cardinality(sl1)
      /\ Cardinality(In(sl, Scope[k])) \in Nat /\ Cardinality(In(sl1, Scope[k])) \in Nat
      /\ Cardinality(In(sl, Scope[k])) <= Cardinality(In(sl1, Scope[k]))
  BY <1>1, FewerHolders
<1>3. /\ Cardinality(Using(cr, Cred[k])) \in Nat /\ Cardinality(Using(cr1, Cred[k])) \in Nat
      /\ Cardinality(Using(cr, Cred[k])) <= Cardinality(Using(cr1, Cred[k]))
  BY <1>1, FewerHolders
<1>4. X \in SUBSET X /\ X \in SUBSET Leaves
  OBVIOUS
<1>5. /\ Cardinality(X) \in Nat /\ Cardinality(In(X, Scope[k])) \in Nat
      /\ Cardinality(Using(X, Cred[k])) \in Nat
  BY <1>4, FewerHolders
<1> QED BY <1>0, <1>2, <1>3, <1>5 DEF FitsBeside

\* Before the grant, with l still in the queue (q, e), after it (q1, e1): the
\* leaves of better classes than l are admitted by the permits out before
\* the grant exactly if they are by those out after it.
LEMMA BetterStay ==
    ASSUME Priority,
           NEW sl \in SUBSET Leaves, NEW cr \in SUBSET Leaves, NEW dr,
           NEW q, IsQueue(q), NEW e \in [Leaves -> Entries], CapsOf(q, e), NEW l \in DOMAIN q,
           l \in AdmittedIn(sl, cr, dr, q, e),
           NEW q1, IsQueue(q1), DOMAIN q1 = DOMAIN q \ {l},
           NEW e1 \in [Leaves -> Entries], \A k \in DOMAIN q : e1[k] = e[k],
           NEW sl1, NEW cr1, NEW dr1, WithGrant(sl, cr, l, sl1, cr1),
           NEW m \in AdmittedIn(sl, cr, dr, q1, e1),
           ClassRank[e1[m].class] < ClassRank[e1[l].class]
    PROVE  m \in AdmittedIn(sl1, cr1, dr1, q1, e1)
<1> DEFINE A0 == AdmittedIn(sl, cr, dr, q, e)
           A1 == AdmittedIn(sl, cr, dr, q1, e1)
           A2 == AdmittedIn(sl1, cr1, dr1, q1, e1)
           Better == {k \in DOMAIN q1 : ClassRank[e[k].class] < ClassRank[e[l].class]}
           Bad == {k \in Better : ~((k \in A0 <=> k \in A1) /\ (k \in A0 <=> k \in A2))}
<1>1. /\ GreedyOn(sl, cr, dr, q, e, DOMAIN q, A0)
      /\ GreedyOn(sl, cr, dr, q1, e1, DOMAIN q1, A1)
      /\ GreedyOn(sl1, cr1, dr1, q1, e1, DOMAIN q1, A2)
  BY AdmittedGreedy
<1> HIDE DEF A0, A1, A2
<1>2. CapsOf(q1, e1) /\ DOMAIN q \subseteq Leaves /\ DOMAIN q1 \subseteq Leaves
  BY DEF CapsOf, IsQueue
<1>3. ASSUME NEW k \in Better
      PROVE  /\ k \in DOMAIN q /\ k \in DOMAIN q1 /\ k # l /\ k \in Leaves /\ e1[k] = e[k]
             /\ e[k].class # "Drift" /\ e1[k].class # "Drift"
             /\ Before(q, e, k, l)
  <2>1. k \in DOMAIN q /\ k \in DOMAIN q1 /\ k # l /\ k \in Leaves /\ e1[k] = e[k]
    BY <1>2
  <2>2. ClassRank[e[l].class] \in 1 .. 5 /\ ClassRank[e[k].class] \in 1 .. 5
    BY <2>1, ClassRanks
  <2>3. ClassRank[e[k].class] < 5
    BY <2>2
  <2> QED BY <2>1, <2>3, ClassRanks
<1>4. ASSUME NEW k \in Better, NEW n \in DOMAIN q, Before(q, e, n, k) PROVE n \in Better
  <2>1. k \in DOMAIN q
    BY <1>3
  <2>2. /\ ClassRank[e[n].class] <= ClassRank[e[k].class]
        /\ ClassRank[e[l].class] \in 1 .. 5 /\ ClassRank[e[k].class] \in 1 .. 5
        /\ ClassRank[e[n].class] \in 1 .. 5
    BY <1>4, <2>1, ClassRanks
  <2>3. ClassRank[e[n].class] < ClassRank[e[l].class]
    BY <2>2
  <2>4. n # l
    BY <2>2, <2>3
  <2> QED BY <2>3, <2>4
<1>5. ASSUME NEW k \in Better, NEW n \in DOMAIN q1, Before(q1, e1, n, k) PROVE n \in Better
  <2>1. k \in DOMAIN q1 /\ e1[k] = e[k] /\ e1[n] = e[n] /\ n \in DOMAIN q
    BY <1>3
  <2>2. /\ ClassRank[e1[n].class] <= ClassRank[e1[k].class]
        /\ ClassRank[e1[k].class] \in 1 .. 5 /\ ClassRank[e1[n].class] \in 1 .. 5
    BY <1>5, <2>1, ClassRanks
  <2>3. ClassRank[e[l].class] \in 1 .. 5
    BY ClassRanks
  <2> QED BY <2>1, <2>2, <2>3
<1>6. ASSUME NEW k \in Better, NEW n \in Better
      PROVE  Before(q1, e1, n, k) <=> Before(q, e, n, k)
  BY <1>3, SameOrder
<1>7. Bad = {}
  <2> SUFFICES ASSUME Bad # {} PROVE FALSE
    OBVIOUS
  <2>1. Bad \in SUBSET DOMAIN q1 /\ Bad \in SUBSET Better
    OBVIOUS
  <2>2. PICK k \in Bad : \A n \in Bad \ {k} : Before(q1, e1, k, n)
    <3> HIDE DEF Bad
    <3> QED BY <2>1, BestExists
  <2>3. k \in Better /\ ~((k \in A0 <=> k \in A1) /\ (k \in A0 <=> k \in A2))
    OBVIOUS
  <2> DEFINE X == {n \in A0 : Before(q, e, n, k)}
  <2>4. ASSUME NEW n \in Better, Before(q1, e1, n, k)
        PROVE  (n \in A0 <=> n \in A1) /\ (n \in A0 <=> n \in A2)
    <3>1. n \in DOMAIN q1 /\ k \in DOMAIN q1
      BY <1>3, <2>3
    <3>a. /\ \A x \in DOMAIN q1 : ~Before(q1, e1, x, x)
          /\ \A x, y \in DOMAIN q1 : ~(Before(q1, e1, x, y) /\ Before(q1, e1, y, x))
      BY BeforeOrders
    <3>2. n # k /\ ~Before(q1, e1, k, n)
      BY <2>4, <3>1, <3>a, Zenon
    <3>3. n \notin Bad
      <4> HIDE DEF Bad
      <4> QED BY <2>2, <3>2
    <3> QED BY <3>3
  <2> HIDE DEF Bad, Better
  <2>5. A0 \subseteq DOMAIN q /\ A1 \subseteq DOMAIN q1 /\ A2 \subseteq DOMAIN q1
    BY <1>1 DEF GreedyOn
  <2>6. X = {n \in A1 : Before(q1, e1, n, k)}
    <3>1. ASSUME NEW n \in A0, Before(q, e, n, k) PROVE n \in A1 /\ Before(q1, e1, n, k)
      BY <1>4, <1>6, <2>3, <2>4, <2>5, <3>1
    <3>2. ASSUME NEW n \in A1, Before(q1, e1, n, k) PROVE n \in A0 /\ Before(q, e, n, k)
      BY <1>5, <1>6, <2>3, <2>4, <2>5, <3>2
    <3> QED BY <3>1, <3>2
  <2>7. X = {n \in A2 : Before(q1, e1, n, k)}
    <3>1. ASSUME NEW n \in A0, Before(q, e, n, k) PROVE n \in A2 /\ Before(q1, e1, n, k)
      BY <1>4, <1>6, <2>3, <2>4, <2>5, <3>1
    <3>2. ASSUME NEW n \in A2, Before(q1, e1, n, k) PROVE n \in A0 /\ Before(q, e, n, k)
      BY <1>5, <1>6, <2>3, <2>4, <2>5, <3>2
    <3> QED BY <3>1, <3>2
  <2>8. /\ k \in DOMAIN q /\ k \in DOMAIN q1 /\ k # l /\ k \in Leaves
        /\ e[k].class # "Drift" /\ e1[k].class # "Drift" /\ Before(q, e, k, l)
    BY <1>3, <2>3
  <2>9. /\ k \in A0 <=> FitsIn(sl, cr, dr, q, e, X, k)
        /\ k \in A1 <=> FitsIn(sl, cr, dr, q1, e1, X, k)
        /\ k \in A2 <=> FitsIn(sl1, cr1, dr1, q1, e1, X, k)
    <3>1. k \in A0 <=> FitsIn(sl, cr, dr, q, e, X, k)
      BY <1>1, <2>8 DEF GreedyOn
    <3>2. k \in A1 <=> FitsIn(sl, cr, dr, q1, e1, {n \in A1 : Before(q1, e1, n, k)}, k)
      BY <1>1, <2>8 DEF GreedyOn
    <3>3. k \in A2 <=> FitsIn(sl1, cr1, dr1, q1, e1, {n \in A2 : Before(q1, e1, n, k)}, k)
      BY <1>1, <2>8 DEF GreedyOn
    <3> HIDE DEF X
    <3> QED BY <2>6, <2>7, <3>1, <3>2, <3>3
  <2>10. X \in SUBSET Leaves
    BY <1>2, <2>5
  <2>11. /\ k \in A0 <=> FitsBeside(sl, cr, X, k)
         /\ k \in A1 <=> FitsBeside(sl, cr, X, k)
         /\ k \in A2 <=> FitsBeside(sl1, cr1, X, k)
    <3> HIDE DEF X
    <3>1. FitsIn(sl, cr, dr, q, e, X, k) <=> FitsBeside(sl, cr, X, k)
      BY <2>8, FitsIsBeside
    <3>2. FitsIn(sl, cr, dr, q1, e1, X, k) <=> FitsBeside(sl, cr, X, k)
      BY <1>2, <2>8, FitsIsBeside
    <3>3. FitsIn(sl1, cr1, dr1, q1, e1, X, k) <=> FitsBeside(sl1, cr1, X, k)
      BY <1>2, <2>8, FitsIsBeside
    <3> QED BY <2>9, <3>1, <3>2, <3>3
  <2>12. l \in Leaves
    BY <1>2
  <2>13. CASE k \notin A0
    <3>1. ~FitsBeside(sl, cr, X, k)
      BY <2>11, <2>13
    <3>2. ~FitsBeside(sl1, cr1, X, k)
      <4> HIDE DEF X
      <4> QED BY <2>8, <2>10, <2>12, <3>1, FitsWithFewer
    <3> QED BY <2>3, <2>11, <3>1, <3>2
  <2>14. CASE k \in A0
    <3> DEFINE Y == {n \in A0 : Before(q, e, n, l)}
    <3>1. FitsIn(sl, cr, dr, q, e, Y, l)
      BY <1>1 DEF GreedyOn, A0
    <3>2. X \subseteq Y /\ k \in Y /\ k \notin X /\ Y \in SUBSET Leaves
      BY <1>2, <2>5, <2>8, <2>14, BeforeOrders
    <3>3. Scope[k] = Scope[l] => ScopeCap(q, e, Scope[l]) = SlotsOf(Scope[l])
      <4>1. ScopeCap(q, e, Scope[k]) = SlotsOf(Scope[k])
        BY <2>8, ScopeCapIsSlots
      <4> QED BY <4>1
    <3>4. FitsBeside(sl, cr, X, k)
      BY <2>11, <2>14
    <3> HIDE DEF X, Y
    <3>5. FitsBeside(sl1, cr1, X, k)
      BY <2>8, <2>12, <3>1, <3>2, <3>3, <3>4, StillFits
    <3> QED BY <2>3, <2>11, <3>4, <3>5
  <2> QED BY <2>13, <2>14
<1>8. m \in Better
  <2>1. m \in DOMAIN q1
    BY <1>1 DEF GreedyOn, A1
  <2>2. e1[m] = e[m] /\ e1[l] = e[l]
    BY <2>1
  <2> QED BY <2>1, <2>2
<1>9. m \in A1 => m \in A2
  BY <1>7, <1>8
<1> QED BY <1>9 DEF A1, A2

\* Leaves that are not drift work wait with the catalog's cap.
ClassCapInv ==
    \A l \in Leaves : entry[l].class # "Drift" => entry[l].cap = CatalogCap[Scope[l]]

LEMMA ClassCapStep ==
    ASSUME GateTypeOK, ClassCapInv, [GateNext]_gateVars PROVE ClassCapInv'
<1>0. entry \in [Leaves -> Entries] /\ want \in [Leaves -> Works]
  BY DEF GateTypeOK, Entries
<1>b. Blank.class = "Drift"
  BY DEF Blank
<1>1. CASE GateTick
  <2>1. ASSUME NEW l \in Leaves PROVE entry'[l].class = entry[l].class /\ entry'[l].cap = entry[l].cap
    BY <1>0, <1>1 DEF GateTick, Entries
  <2> QED BY <2>1 DEF ClassCapInv
<1>2. ASSUME NEW w \in Leaves, Wake(w) PROVE ClassCapInv'
  <2>1. ASSUME NEW l \in Leaves
        PROVE  \/ entry'[l].class = entry[l].class /\ entry'[l].cap = entry[l].cap
               \/ entry'[l] = Blank
    <3>1. PICK q, chosen :
            entry' = KeptEntries(q, [m \in Leaves |->
                               IF m \in chosen
                               THEN [entry[m] EXCEPT !.woken = TRUE, !.seen = 0]
                               ELSE entry[m]])
      BY <1>2 DEF Wake
    <3>2. [entry[l] EXCEPT !.woken = TRUE, !.seen = 0].class = entry[l].class
          /\ [entry[l] EXCEPT !.woken = TRUE, !.seen = 0].cap = entry[l].cap
      BY <1>0 DEF Entries
    <3> QED BY <1>0, <3>1, <3>2 DEF KeptEntries
  <2> QED BY <1>b, <2>1 DEF ClassCapInv
<1>3. ASSUME NEW l \in Leaves, Ask(l) PROVE ClassCapInv'
  <2> DEFINE work == want[l]
             class == ClassOf(work, l \in blocked)
             cap == IF work = "DriftCheck" THEN NoCap ELSE CatalogCap[Scope[l]]
  <2>1. class # "Drift" => cap = CatalogCap[Scope[l]]
    BY DEF ClassOf
  <2> HIDE DEF class, cap
  <2>2. PICK q : entry' = KeptEntries(q, [entry EXCEPT ![l] = Inserted(l, class, cap)])
    BY <1>3 DEF Ask, class, cap
  <2>3. Inserted(l, class, cap).class = class /\ Inserted(l, class, cap).cap = cap
    BY DEF Inserted
  <2> DEFINE i == Inserted(l, class, cap)
  <2> HIDE DEF i
  <2>4. \A m \in Leaves : \/ entry'[m] = Blank \/ entry'[m] = entry[m]
                          \/ m = l /\ entry'[m] = i
    BY <1>0, <2>2 DEF KeptEntries, i
  <2>5. i.class # "Drift" => i.cap = CatalogCap[Scope[l]]
    BY <2>1, <2>3 DEF i
  <2> QED BY <1>b, <2>4, <2>5 DEF ClassCapInv
<1>4. CASE UNCHANGED entry
  BY <1>4 DEF ClassCapInv
<1>5. [GateNext]_gateVars => GateTick \/ (\E l \in Leaves : Wake(l) \/ Ask(l)) \/ UNCHANGED entry
  BY DEF GateNext, gateVars, Defer, Trigger, DropScope, DropCredential, DropDrift
<1> QED BY <1>1, <1>2, <1>3, <1>4, <1>5

\* The gate as it is before and after the step.
LEMMA AdmittedNow == Admitted(line, entry) = AdmittedIn(slots, creds, drifts, line, entry)
BY AdmittedIsLoop

\* Only an ask that is granted sets a handler to work.
LEMMA GrantTakesNothing ==
    ASSUME Priority, IInv, ClassCapInv, GateNext, NEW l \in Leaves,
           run[l] = "idle", run'[l] = "running",
           NEW m \in Admitted(line', entry'),
           ClassRank[entry'[m].class] < ClassRank[entry'[l].class]
    PROVE  m \in AdmittedIn(slots', creds', drifts', line', entry')
<1>0. /\ IsQueue(line) /\ entry \in [Leaves -> Entries] /\ run \in [Leaves -> Runs]
      /\ slots \in SUBSET Leaves /\ creds \in SUBSET Leaves
      /\ want \in [Leaves -> Works]
  BY DEF IInv, GateTypeOK, IsQueue, Entries
<1>1. Ask(l)
  <2>1. ASSUME run' = run PROVE FALSE
    BY <2>1
  <2>2. ASSUME NEW k \in Leaves, NEW r, run' = [run EXCEPT ![k] = r]
        PROVE  k = l /\ r = "running"
    BY <1>0, <2>2
  <2>3. CASE GateTick
    BY <2>1, <2>3 DEF GateTick
  <2>4. ASSUME NEW k \in Leaves, Ask(k) PROVE Ask(l)
    <3>1. \E r : run' = [run EXCEPT ![k] = r]
      BY <2>4 DEF Ask
    <3>2. k = l
      BY <2>2, <3>1
    <3> QED BY <2>4, <3>2
  <2>5. ASSUME NEW k \in Leaves, NEW missing \in BOOLEAN, Defer(k, missing) PROVE FALSE
    BY <2>1, <2>5 DEF Defer
  <2>6. ASSUME NEW k \in Leaves, Trigger(k) PROVE FALSE
    BY <2>1, <2>6 DEF Trigger
  <2>7. ASSUME NEW k \in Leaves, DropScope(k) \/ DropCredential(k) \/ DropDrift(k) \/ Wake(k)
        PROVE  FALSE
    <3>1. \E r \in {"credential", "drift", "wake", "idle"} : run' = [run EXCEPT ![k] = r]
      BY <2>7 DEF DropScope, DropCredential, DropDrift, Wake
    <3> QED BY <2>2, <3>1
  <2> QED BY <2>3, <2>4, <2>5, <2>6, <2>7 DEF GateNext
<1> DEFINE work == want[l]
           q == Enqueued(l)
           class == ClassOf(work, l \in blocked)
           cap == IF work = "DriftCheck" THEN NoCap ELSE CatalogCap[Scope[l]]
           e == [entry EXCEPT ![l] = Inserted(l, class, cap)]
           picked == l \in Admitted(q, e)
           granted == picked /\ Allocates(q, e, l)
<1>2. IsQueue(q) /\ l \in DOMAIN q
  BY <1>0, QueueOfEnqueued
<1>3. class \in Classes /\ cap \in Nat \cup {NoCap} /\ (class # "Drift" => cap = CatalogCap[Scope[l]])
      /\ cap \in {NoCap, CatalogCap[Scope[l]]}
  <2>1. work \in Works /\ Scope[l] \in Scopes
    BY <1>0, GateAssumption
  <2>2. class \in Classes /\ (class # "Drift" => cap = CatalogCap[Scope[l]])
    BY <2>1 DEF ClassOf, Works, Classes
  <2>3. cap \in Nat \cup {NoCap} /\ cap \in {NoCap, CatalogCap[Scope[l]]}
    BY <2>1, AskTypes
  <2> QED BY <2>2, <2>3
<1>4. e \in [Leaves -> Entries]
  BY <1>0, <1>3, CapTypes DEF Inserted, Entries
<1>5. CapsOf(q, e)
  <2>1. DOMAIN q \subseteq Leaves
    BY <1>2 DEF IsQueue
  <2> DEFINE i == Inserted(l, class, cap)
  <2>2. i.class = class /\ i.cap = cap
    BY DEF Inserted
  <2> HIDE DEF q, class, cap, i
  <2>3. \A k \in Leaves : e[k] = IF k = l THEN i ELSE entry[k]
    BY <1>0 DEF i
  <2> QED BY <1>3, <2>1, <2>2, <2>3 DEF CapsOf, IInv, CapsInv, ClassCapInv
<1> HIDE DEF work, q, class, cap, e, picked, granted
<1>6. granted
  <2>1. run' = [run EXCEPT ![l] = IF granted THEN "running" ELSE "idle"]
    BY <1>1 DEF Ask, work, q, class, cap, e, picked, granted
  <2> QED BY <1>0, <2>1
<1>7. /\ entry' = KeptEntries(q, e) /\ line' = Ranked(q, DOMAIN q \ {l})
      /\ slots' = slots \cup {l} /\ creds' = IF WantsCred(l) THEN creds \cup {l} ELSE creds
  BY <1>1, <1>6 DEF Ask, work, q, class, cap, e, picked, granted
<1>8. IsQueue(line') /\ DOMAIN line' = DOMAIN q \ {l}
  BY <1>2, <1>7, QueueOfRanked
<1>9. entry' \in [Leaves -> Entries] /\ \A k \in DOMAIN q : entry'[k] = e[k]
  <2>1. entry' \in [Leaves -> Entries]
    BY <1>4, <1>7, KeptTypes
  <2>2. DOMAIN q \subseteq Leaves
    BY <1>2 DEF IsQueue
  <2> QED BY <1>7, <2>1, <2>2 DEF KeptEntries
<1>10. l \in AdmittedIn(slots, creds, drifts, q, e)
  BY <1>6, AdmittedIsLoop DEF granted, picked
<1>11. m \in AdmittedIn(slots, creds, drifts, line', entry')
  BY AdmittedIsLoop
<1>12. WithGrant(slots, creds, l, slots', creds')
  BY <1>7 DEF WithGrant
<1> QED BY <1>0, <1>2, <1>4, <1>5, <1>8, <1>9, <1>10, <1>11, <1>12, BetterStay,
       SMTT(30)

\* With priorities on, a permit is never taken from a better class, for any
\* leaves, scopes, credentials and caps: a waiting leaf of a better class that
\* could have been admitted just before the grant still can be after it, although
\* the grant takes a slot of its scope, its credential and the pool
\* (LeafGate::admit, order and admit of pangea-leaf).
THEOREM PriorityRespectedCorrect == Priority => (GateSpec => PriorityRespected)
<1> SUFFICES ASSUME Priority PROVE GateSpec => PriorityRespected
  OBVIOUS
<1> DEFINE A == \A l \in Leaves : run[l] = "idle" /\ run'[l] = "running" =>
                  \A m \in Admitted(line', entry') :
                      ClassRank[entry'[m].class] < ClassRank[entry'[l].class]
                      => m \in Admitted(line, entry)'
<1>1. GateInit => ClassCapInv
  BY DEF GateInit, ClassCapInv, Blank
<1>2. IInv /\ ClassCapInv /\ [GateNext]_gateVars => ClassCapInv'
  BY ClassCapStep DEF IInv
<1>3. GateSpec => []ClassCapInv
  BY <1>1, <1>2, InductiveInvariant, PTL DEF GateSpec
<1>4. (Admitted(line, entry) = AdmittedIn(slots, creds, drifts, line, entry))'
  BY AdmittedNow, PTL
<1>5. IInv /\ ClassCapInv /\ [GateNext]_gateVars => [A]_gateVars
  <2> SUFFICES ASSUME IInv, ClassCapInv, GateNext, NEW l \in Leaves,
                      run[l] = "idle", run'[l] = "running",
                      NEW m \in Admitted(line', entry'),
                      ClassRank[entry'[m].class] < ClassRank[entry'[l].class]
               PROVE  m \in Admitted(line, entry)'
    BY DEF A
  <2>1. m \in AdmittedIn(slots', creds', drifts', line', entry')
    BY GrantTakesNothing
  <2>2. Admitted(line, entry)' = AdmittedIn(slots', creds', drifts', line', entry')
    BY <1>4
  <2> QED BY <2>1, <2>2
<1>6. PriorityRespected <=> [][A]_gateVars
  BY DEF PriorityRespected
<1> QED BY <1>3, <1>5, <1>6, InductiveInvariant, PTL DEF GateSpec

-----------------------------------------------------------------------------
\* Room for the leaves that wait, where leaves only sweep for drift.

\* A drift leaf finds room beside k others: the pool, the scope and the drift
\* share have a place left.
Room(k) == k < EngineGlobal /\ k < PerScope /\ (Share > 0 => k < DriftSlots(PerScope))

\* All leaves draw on one scope, which its slots bound before a credential does;
\* waiters are parked, and come promptly when they are woken.
SharedPool ==
    /\ Park /\ Prompt /\ WokenTTL > 0
    /\ Calibrate => Global > 0
    /\ \A l, m \in Leaves : Scope[l] = Scope[m]
    /\ PerCredential > 0 => \A k \in Nat : Room(k) => k < PerCredential

\* Handlers under way, their permits dropped or not.
Busy == {l \in Leaves : run[l] # "idle"}

\* The waiters that count, and those of them that were woken ahead of l.
Waiting(q, e) == {l \in DOMAIN q : Live(e[l])}
WokenAhead(q, e, l) == {m \in Waiting(q, e) : e[m].woken /\ q[m] < q[l]}

\* Permits are held by handlers under way, as far as they are not dropped; a
\* leaf that waits has no handler.
StageInv ==
    /\ \A l \in creds : run[l] \in {"running", "credential"}
    /\ \A l \in drifts : run[l] \in {"running", "credential", "drift"}
    /\ \A l \in DOMAIN line : run[l] = "idle"

\* Leaves that only sweep for drift wait without a cap, and one that was
\* woken has not been seen since and is due.
DriftInv ==
    DriftOnly =>
        /\ \A l \in Leaves : entry[l].class = "Drift" /\ entry[l].cap = NoCap
        /\ \A l \in Leaves : want[l] = "DriftCheck"
        /\ \A s \in Scopes : treeCap[s] \in {NoCap, PerScope}
        /\ \A l \in DOMAIN line : entry[l].woken => due[l] = 0 /\ entry[l].seen = 0

\* A waiter is left parked only where the handlers under way and the waiters
\* woken ahead of it leave no room for it.
ParkInv ==
    DriftOnly =>
        \A l \in Waiting(line, entry) : ~entry[l].woken =>
            ~Room(Cardinality(Busy) + Cardinality(WokenAhead(line, entry, l)))

\* Where there is room beside many there is room beside fewer.
LEMMA RoomBesideFewer ==
    ASSUME NEW j \in Nat, NEW k \in Nat, j <= k, Room(k)
    PROVE  Room(j)
<1>1. EngineGlobal \in Int /\ PerScope \in Int /\ DriftSlots(PerScope) \in Int
  BY CapTypes DEF EngineGlobal, DriftSlots
<1> QED BY <1>1 DEF Room

\* What stays of a queue stays in its order.
LEMMA RankedOrder ==
    ASSUME NEW q, IsQueue(q), NEW S \in SUBSET DOMAIN q, NEW l \in S, NEW m \in S
    PROVE  Ranked(q, S)[m] < Ranked(q, S)[l] <=> q[m] < q[l]
<1> DEFINE upTo(k) == {n \in S : q[n] <= q[k]}
<1>1. DOMAIN q \in SUBSET Leaves /\ \A k \in DOMAIN q : q[k] \in Int
  BY LeavesCount DEF IsQueue
<1>2. /\ Ranked(q, S)[l] = Cardinality(upTo(l)) /\ Ranked(q, S)[m] = Cardinality(upTo(m))
      /\ upTo(l) \in SUBSET Leaves /\ upTo(m) \in SUBSET Leaves
  BY <1>1 DEF Ranked
<1>3. CASE q[m] < q[l]
  <2>1. upTo(m) \in SUBSET upTo(l) /\ l \in upTo(l) /\ l \notin upTo(m)
    BY <1>1, <1>3
  <2> HIDE DEF upTo
  <2>2. /\ Cardinality(upTo(m)) + 1 <= Cardinality(upTo(l))
        /\ Cardinality(upTo(m)) \in Nat /\ Cardinality(upTo(l)) \in Nat
    BY <1>2, <2>1, OneMore
  <2> QED BY <1>2, <1>3, <2>2
<1>4. CASE ~(q[m] < q[l])
  <2>1. upTo(l) \in SUBSET upTo(m)
    BY <1>1, <1>4
  <2> HIDE DEF upTo
  <2>2. /\ Cardinality(upTo(l)) <= Cardinality(upTo(m))
        /\ Cardinality(upTo(m)) \in Nat /\ Cardinality(upTo(l)) \in Nat
    BY <1>2, <2>1, LeavesCount
  <2> QED BY <1>2, <1>4, <2>2
<1> QED BY <1>3, <1>4

\* waiting.retain keeps the waiters that count, in their order.
LEMMA RetainedOrder ==
    ASSUME IsQueue(line)
    PROVE  /\ DOMAIN Retained = Waiting(line, entry)
           /\ \A l, m \in DOMAIN Retained : Retained[m] < Retained[l] <=> line[m] < line[l]
<1>1. Waiting(line, entry) \in SUBSET DOMAIN line
  BY DEF Waiting
<1>2. Retained = Ranked(line, Waiting(line, entry))
  BY DEF Retained, Waiting
<1>3. DOMAIN Retained = Waiting(line, entry)
  BY <1>1, <1>2, QueueOfRanked
<1>4. \A l, m \in Waiting(line, entry) :
        Ranked(line, Waiting(line, entry))[m] < Ranked(line, Waiting(line, entry))[l]
          <=> line[m] < line[l]
  BY <1>1, RankedOrder
<1> QED BY <1>2, <1>3, <1>4

\* A leaf that asks joins them at its old place, or at the end.
LEMMA EnqueuedOrder ==
    ASSUME IsQueue(line), NEW l \in Leaves
    PROVE  /\ DOMAIN Enqueued(l) = Waiting(line, entry) \cup {l}
           /\ \A k, m \in Waiting(line, entry) :
                Enqueued(l)[m] < Enqueued(l)[k] <=> line[m] < line[k]
<1>1. /\ DOMAIN Retained = Waiting(line, entry)
      /\ \A k, m \in DOMAIN Retained : Retained[m] < Retained[k] <=> line[m] < line[k]
  BY RetainedOrder
<1>2. /\ DOMAIN Enqueued(l) = DOMAIN Retained \cup {l}
      /\ \A m \in DOMAIN Retained : Enqueued(l)[m] = Retained[m]
  BY DEF Enqueued
<1> QED BY <1>1, <1>2

\* Drift leaves are ranked as they are queued, with priorities on and off.
LEMMA DriftOrder ==
    ASSUME NEW q, IsQueue(q), NEW e \in [Leaves -> Entries],
           \A k \in DOMAIN q : e[k].class = "Drift",
           NEW l \in DOMAIN q, NEW m \in DOMAIN q
    PROVE  Before(q, e, m, l) <=> q[m] < q[l]
<1>1. q[l] \in Int /\ q[m] \in Int /\ (q[l] = q[m] => l = m) /\ l \in Int /\ m \in Int
  BY LeavesCount, GateAssumption DEF IsQueue
<1>2. CASE Priority
  <2>1. \A k \in {l, m} : SortKey(q, e, k) = <<5, q[k], Depth[k], k>>
    BY <1>2 DEF SortKey, ClassRank
  <2>2. \A k \in {l, m} : Key(q, e, k, 1) = 5 /\ Key(q, e, k, 2) = q[k]
                          /\ Key(q, e, k, 3) = Depth[k] /\ Key(q, e, k, 4) = k
    BY <2>1 DEF Key
  <2>3. Depth[l] \in Int /\ Depth[m] \in Int
    BY GateAssumption DEF IsQueue
  <2> QED BY <1>1, <2>2, <2>3, BeforeIs
<1>3. CASE ~Priority
  <2>1. \A k \in {l, m} : SortKey(q, e, k) = <<q[k], 0, 0, k>>
    BY <1>3 DEF SortKey
  <2>2. \A k \in {l, m} : Key(q, e, k, 1) = q[k] /\ Key(q, e, k, 2) = 0
                          /\ Key(q, e, k, 3) = 0 /\ Key(q, e, k, 4) = k
    BY <2>1 DEF Key
  <2> QED BY <1>1, <2>2, BeforeIs
<1> QED BY <1>2, <1>3

\* Without a catalog cap among the waiters a scope has the uniform one.
LEMMA ScopeCapIsUniform ==
    ASSUME NEW q, NEW e, \A k \in DOMAIN q : e[k].cap = NoCap, NEW s
    PROVE  ScopeCap(q, e, s) = PerScope
<1>1. {e[l].cap : l \in In(DOMAIN q, s)} \ {NoCap} = {}
  BY DEF In
<1> QED BY <1>1 DEF ScopeCap


\* What LeafGate::admit works with: the class and the cap of the leaf that
\* asks, and the entries with its own.
AskClass(l) == ClassOf(want[l], l \in blocked)
AskCap(l) == IF want[l] = "DriftCheck" THEN NoCap ELSE CatalogCap[Scope[l]]
AskEntry(l) == Inserted(l, AskClass(l), AskCap(l))
AskEntries(l) == [entry EXCEPT ![l] = AskEntry(l)]

\* The leaf is picked and takes its permits, or waits.
AskGrants(l) ==
    l \in Admitted(Enqueued(l), AskEntries(l)) /\ Allocates(Enqueued(l), AskEntries(l), l)
AskGranted(l) ==
    /\ line' = Ranked(Enqueued(l), DOMAIN Enqueued(l) \ {l})
    /\ creds' \subseteq creds \cup {l} /\ drifts' \subseteq drifts \cup {l}
    /\ run' = [run EXCEPT ![l] = "running"]
    /\ due' = [due EXCEPT ![l] = 0]
AskRefused(l) ==
    /\ line' = Enqueued(l) /\ creds' = creds /\ drifts' = drifts /\ run' = run
    /\ due' = [due EXCEPT ![l] = Requeue(want[l])]

\* An ask, its effect on the queue and the permits.
LEMMA AskQueue ==
    ASSUME GateTypeOK, NEW l \in Leaves, Ask(l)
    PROVE  /\ Starts(l) /\ want' = want /\ mix' = mix
           /\ IsQueue(Enqueued(l)) /\ DOMAIN Enqueued(l) = Waiting(line, entry) \cup {l}
           /\ AskEntries(l) \in [Leaves -> Entries] /\ AskEntries(l)[l] = AskEntry(l)
           /\ \A m \in Leaves \ {l} : AskEntries(l)[m] = entry[m]
           /\ \A m \in DOMAIN Enqueued(l) : entry'[m] = AskEntries(l)[m]
           /\ \A m \in Leaves \ DOMAIN Enqueued(l) : entry'[m] = Blank \/ entry'[m] = entry[m]
           /\ \/ treeCap' = treeCap
              \/ treeCap' = [treeCap EXCEPT ![Scope[l]] = Registered(Scope[l], AskCap(l))]
           /\ (AskGrants(l) /\ AskGranted(l)) \/ (~AskGrants(l) /\ AskRefused(l))
<1> DEFINE q == Enqueued(l)
           class == AskClass(l)
           cap == AskCap(l)
           i == AskEntry(l)
           e == AskEntries(l)
           granted == AskGrants(l)
<1>0. /\ IsQueue(line) /\ entry \in [Leaves -> Entries] /\ run \in [Leaves -> Runs]
      /\ want[l] \in Works /\ Scope[l] \in Scopes
  BY GateAssumption DEF GateTypeOK, IsQueue, Entries
<1>1. IsQueue(q) /\ DOMAIN q = Waiting(line, entry) \cup {l} /\ DOMAIN q \subseteq Leaves
  <2>1. IsQueue(q) /\ DOMAIN q = Waiting(line, entry) \cup {l}
    BY <1>0, QueueOfEnqueued, EnqueuedOrder
  <2> QED BY <2>1 DEF IsQueue
<1>2. class \in Classes /\ cap \in Nat \cup {NoCap}
  <2>1. class \in Classes
    BY <1>0 DEF AskClass, ClassOf, Works, Classes
  <2> QED BY <1>0, <2>1, AskTypes DEF AskCap
<1>3. i \in Entries
  BY <1>2, CapTypes DEF AskEntry, Inserted, Entries
<1>4. e \in [Leaves -> Entries] /\ e[l] = i /\ \A m \in Leaves \ {l} : e[m] = entry[m]
  <2> HIDE DEF i
  <2>1. e = [entry EXCEPT ![l] = i]
    BY DEF AskEntries, i
  <2> HIDE DEF e
  <2> QED BY <1>0, <1>3, <2>1
<1>5. /\ Starts(l) /\ entry' = KeptEntries(q, e) /\ want' = want /\ mix' = mix
      /\ line' = IF granted THEN Ranked(q, DOMAIN q \ {l}) ELSE q
      /\ creds' = IF granted /\ WantsCred(l) THEN creds \cup {l} ELSE creds
      /\ drifts' = IF granted /\ WantsDrift(class) THEN drifts \cup {l} ELSE drifts
      /\ treeCap' = IF l \in Admitted(q, e)
                    THEN [treeCap EXCEPT ![Scope[l]] = Registered(Scope[l], cap)]
                    ELSE treeCap
      /\ run' = [run EXCEPT ![l] = IF granted THEN "running" ELSE "idle"]
      /\ due' = [due EXCEPT ![l] = IF granted THEN 0 ELSE Requeue(want[l])]
  BY DEF Ask, AskClass, AskCap, AskEntry, AskEntries, AskGrants
<1> HIDE DEF q, class, cap, i, e, granted
<1>6. ASSUME NEW m \in Leaves
      PROVE  /\ m \in DOMAIN q => entry'[m] = e[m]
             /\ m \notin DOMAIN q => entry'[m] = Blank \/ entry'[m] = entry[m]
  <2>1. m \notin DOMAIN q => m # l
    BY <1>1
  <2> QED BY <1>4, <1>5, <2>1 DEF KeptEntries
<1>7. ASSUME granted PROVE AskGranted(l)
  BY <1>5, <1>7 DEF AskGranted, q
<1>8. ASSUME ~granted PROVE AskRefused(l)
  <2>1. run' = run
    BY <1>0, <1>5, <1>8 DEF Starts
  <2> QED BY <1>5, <1>8, <2>1 DEF AskRefused, q
<1>9. (granted /\ AskGranted(l)) \/ (~granted /\ AskRefused(l))
  BY <1>7, <1>8
<1>10. \/ treeCap' = treeCap
       \/ treeCap' = [treeCap EXCEPT ![Scope[l]] = Registered(Scope[l], cap)]
  BY <1>5
<1> QED BY <1>1, <1>4, <1>5, <1>6, <1>9, <1>10, Zenon DEF q, class, cap, i, e, granted

\* Permits are dropped in the order of the stages, and a leaf starts its
\* handler as it leaves the queue.
LEMMA StageStep ==
    ASSUME GateTypeOK, StageInv, [GateNext]_gateVars PROVE StageInv'
<1>0. /\ IsQueue(line) /\ run \in [Leaves -> Runs]
      /\ creds \subseteq Leaves /\ drifts \subseteq Leaves
  BY DEF GateTypeOK, IsQueue
<1>1. CASE GateTick
  BY <1>1 DEF GateTick, StageInv
<1>2. ASSUME NEW l \in Leaves, Ask(l) PROVE StageInv'
  <2> DEFINE q == Enqueued(l)
  <2>1. /\ run[l] = "idle" /\ IsQueue(q) /\ DOMAIN q = Waiting(line, entry) \cup {l}
        /\ \/ /\ line' = Ranked(q, DOMAIN q \ {l})
              /\ creds' \subseteq creds \cup {l} /\ drifts' \subseteq drifts \cup {l}
              /\ run' = [run EXCEPT ![l] = "running"]
           \/ line' = q /\ creds' = creds /\ drifts' = drifts /\ run' = run
    BY <1>2, AskQueue DEF Starts, AskGranted, AskRefused
  <2>2. Waiting(line, entry) \subseteq DOMAIN line /\ DOMAIN q \subseteq Leaves
    BY <2>1 DEF Waiting, IsQueue
  <2>3. DOMAIN Ranked(q, DOMAIN q \ {l}) = DOMAIN q \ {l}
    BY <2>1, QueueOfRanked
  <2> HIDE DEF q
  <2>4. CASE /\ line' = Ranked(q, DOMAIN q \ {l})
             /\ creds' \subseteq creds \cup {l} /\ drifts' \subseteq drifts \cup {l}
             /\ run' = [run EXCEPT ![l] = "running"]
    <3>1. \A m \in DOMAIN line' : run'[m] = "idle"
      BY <1>0, <2>1, <2>2, <2>3, <2>4 DEF StageInv
    <3>2. /\ \A m \in creds' : run'[m] \in {"running", "credential"}
          /\ \A m \in drifts' : run'[m] \in {"running", "credential", "drift"}
      BY <1>0, <2>4 DEF StageInv
    <3> QED BY <3>1, <3>2 DEF StageInv
  <2>5. CASE line' = q /\ creds' = creds /\ drifts' = drifts /\ run' = run
    BY <2>1, <2>2, <2>5 DEF StageInv
  <2> QED BY <2>1, <2>4, <2>5
<1>3. ASSUME NEW l \in Leaves, NEW missing \in BOOLEAN, Defer(l, missing) PROVE StageInv'
  BY <1>3 DEF Defer, StageInv
<1>4. ASSUME NEW l \in Leaves, Trigger(l) PROVE StageInv'
  BY <1>4 DEF Trigger, StageInv
<1>5. ASSUME NEW l \in Leaves, DropScope(l) PROVE StageInv'
  BY <1>0, <1>5 DEF DropScope, StageInv, IsQueue
<1>6. ASSUME NEW l \in Leaves, DropCredential(l) PROVE StageInv'
  BY <1>0, <1>6 DEF DropCredential, StageInv, IsQueue
<1>7. ASSUME NEW l \in Leaves, DropDrift(l) PROVE StageInv'
  BY <1>0, <1>7 DEF DropDrift, StageInv, IsQueue
<1>8. ASSUME NEW l \in Leaves, Wake(l) PROVE StageInv'
  <2>1. /\ run[l] = "wake" /\ run' = [run EXCEPT ![l] = "idle"]
        /\ line' \in {line, Retained} /\ creds' = creds /\ drifts' = drifts
    BY <1>8 DEF Wake
  <2>2. DOMAIN line' \subseteq DOMAIN line
    <3>1. DOMAIN Retained \subseteq DOMAIN line
      BY <1>0, RetainedOrder DEF Waiting
    <3> QED BY <2>1, <3>1
  <2> QED BY <1>0, <2>1, <2>2 DEF StageInv, IsQueue
<1>9. CASE UNCHANGED gateVars
  BY <1>9 DEF gateVars, StageInv
<1> QED BY <1>1, <1>2, <1>3, <1>4, <1>5, <1>6, <1>7, <1>8, <1>9 DEF GateNext

\* A released permit wakes waiters: those stay in the queue, with the others.
Awake(m) == [entry[m] EXCEPT !.woken = TRUE, !.seen = 0]

LEMMA WakeQueue ==
    ASSUME Park, GateTypeOK, NEW l \in Leaves, Wake(l)
    PROVE  /\ run[l] = "wake" /\ run' = [run EXCEPT ![l] = "idle"]
           /\ line' = Retained /\ treeCap' = treeCap /\ mix' = mix
           /\ \A m \in Leaves \ {l} : IF m \in Chosen(Retained, Scope[l]) THEN due'[m] = 0
                                      ELSE due'[m] = due[m]
           /\ \A m \in DOMAIN Retained :
                IF m \in Chosen(Retained, Scope[l]) THEN entry'[m] = Awake(m)
                ELSE entry'[m] = entry[m]
           /\ \A m \in Leaves : entry'[m] \in {Blank, entry[m], Awake(m)}
           /\ \E w \in mix[l] : want' = [want EXCEPT ![l] = w]
<1> DEFINE chosen == Chosen(Retained, Scope[l])
           e == [m \in Leaves |-> IF m \in chosen THEN Awake(m) ELSE entry[m]]
<1>1. IsQueue(line)
  BY DEF GateTypeOK, IsQueue
<1>2. DOMAIN Retained \subseteq Leaves
  BY <1>1, QueueOfEnqueued DEF IsQueue
<1>3. /\ run[l] = "wake" /\ run' = [run EXCEPT ![l] = "idle"]
      /\ line' = Retained /\ treeCap' = treeCap /\ mix' = mix
      /\ entry' = KeptEntries(Retained, e)
      /\ \E d \in {0, Fallback} :
            due' = [m \in Leaves |-> IF m = l THEN d ELSE IF m \in chosen THEN 0 ELSE due[m]]
      /\ \E w \in mix[l] : want' = [want EXCEPT ![l] = w]
  BY DEF Wake, Awake
<1> HIDE DEF chosen
<1>4. \A m \in Leaves \ {l} : IF m \in chosen THEN due'[m] = 0 ELSE due'[m] = due[m]
  BY <1>3
<1>5. \A m \in Leaves : e[m] = IF m \in chosen THEN Awake(m) ELSE entry[m]
  OBVIOUS
<1> HIDE DEF e
<1>6. /\ \A m \in DOMAIN Retained : entry'[m] = e[m]
      /\ \A m \in Leaves : entry'[m] \in {Blank, e[m]}
  BY <1>2, <1>3 DEF KeptEntries
<1>7. \A m \in DOMAIN Retained : IF m \in chosen THEN entry'[m] = Awake(m)
                                 ELSE entry'[m] = entry[m]
  BY <1>2, <1>5, <1>6
<1>8. \A m \in Leaves : entry'[m] \in {Blank, entry[m], Awake(m)}
  BY <1>5, <1>6
<1> QED BY <1>3, <1>4, <1>7, <1>8, Zenon DEF chosen

LEMMA AwakeIs ==
    ASSUME GateTypeOK, NEW m \in Leaves
    PROVE  /\ Awake(m).woken = TRUE /\ Awake(m).seen = 0
           /\ Awake(m).class = entry[m].class /\ Awake(m).cap = entry[m].cap
<1>1. entry[m] \in Entries
  BY DEF GateTypeOK, Entries
<1> QED BY <1>1 DEF Awake, Entries

\* Leaves that only sweep for drift go on doing so; one that is woken is due
\* until it asks.
LEMMA DriftStep ==
    ASSUME SharedPool, GateTypeOK, StageInv, DriftInv, [GateNext]_gateVars PROVE DriftInv'
<1>0. /\ IsQueue(line) /\ entry \in [Leaves -> Entries] /\ due \in [Leaves -> Nat]
      /\ want \in [Leaves -> Works] /\ run \in [Leaves -> Runs]
      /\ treeCap \in [Scopes -> Nat \cup {NoCap}]
      /\ DOMAIN line \subseteq Leaves /\ Scope \in [Leaves -> Scopes]
  BY GateAssumption DEF GateTypeOK, IsQueue, Entries
<1>a. mix' = mix
  BY DEF GateNext, gateVars, GateTick, Ask, Defer, Trigger, DropScope, DropCredential, DropDrift, Wake
<1> DEFINE Goal == /\ \A l \in Leaves : entry'[l].class = "Drift" /\ entry'[l].cap = NoCap
                   /\ \A l \in Leaves : want'[l] = "DriftCheck"
                   /\ \A s \in Scopes : treeCap'[s] \in {NoCap, PerScope}
                   /\ \A l \in DOMAIN line' :
                        entry'[l].woken => due'[l] = 0 /\ entry'[l].seen = 0
<1>b. SUFFICES ASSUME DriftOnly PROVE Goal
  BY <1>a DEF DriftInv, DriftOnly
<1>c. /\ \A l \in Leaves : entry[l].class = "Drift" /\ entry[l].cap = NoCap
      /\ \A l \in Leaves : want[l] = "DriftCheck" /\ mix[l] = {"DriftCheck"}
      /\ \A s \in Scopes : treeCap[s] \in {NoCap, PerScope}
      /\ \A l \in DOMAIN line : entry[l].woken => due[l] = 0 /\ entry[l].seen = 0
  BY <1>b DEF DriftInv, DriftOnly
<1>d. Blank.class = "Drift" /\ Blank.cap = NoCap /\ Blank.woken = FALSE
  BY DEF Blank
<1>1. CASE GateTick
  <2>1. ASSUME NEW l \in Leaves
        PROVE  entry'[l].class = "Drift" /\ entry'[l].cap = NoCap /\ entry'[l].woken = entry[l].woken
    BY <1>0, <1>1, <1>c DEF GateTick, Entries
  <2>2. ASSUME NEW l \in DOMAIN line, entry[l].woken PROVE FALSE
    <3>1. Starts(l)
      BY <2>2, <1>c DEF Starts, StageInv
    <3> QED BY <1>0, <1>1, <3>1 DEF GateTick, SharedPool
  <2>3. line' = line /\ want' = want /\ treeCap' = treeCap
    BY <1>1 DEF GateTick
  <2> QED BY <1>0, <1>c, <2>1, <2>2, <2>3
<1>2. ASSUME NEW l \in Leaves, Ask(l) PROVE Goal
  <2> DEFINE q == Enqueued(l)
             i == AskEntry(l)
  <2>1. /\ want' = want /\ IsQueue(q) /\ DOMAIN q = Waiting(line, entry) \cup {l}
        /\ AskEntries(l)[l] = i
        /\ \A m \in Leaves \ {l} : AskEntries(l)[m] = entry[m]
        /\ \A m \in DOMAIN q : entry'[m] = AskEntries(l)[m]
        /\ \A m \in Leaves \ DOMAIN q : entry'[m] = Blank \/ entry'[m] = entry[m]
        /\ \/ treeCap' = treeCap
           \/ treeCap' = [treeCap EXCEPT ![Scope[l]] = Registered(Scope[l], AskCap(l))]
        /\ AskGranted(l) \/ AskRefused(l)
    BY <1>2, AskQueue
  <2>2. AskClass(l) = "Drift" /\ AskCap(l) = NoCap
    BY <1>c DEF AskClass, ClassOf, AskCap
  <2>3. i.class = "Drift" /\ i.cap = NoCap /\ i.woken = FALSE
    BY <2>2 DEF AskEntry, Inserted
  <2>4. DOMAIN line' \subseteq DOMAIN q /\ \A m \in Leaves \ {l} : due'[m] = due[m]
    <3>1. DOMAIN Ranked(q, DOMAIN q \ {l}) = DOMAIN q \ {l}
      BY <2>1, QueueOfRanked
    <3> QED BY <1>0, <2>1, <3>1 DEF AskGranted, AskRefused
  <2>5. Waiting(line, entry) \subseteq DOMAIN line
    BY DEF Waiting
  <2>6. Registered(Scope[l], AskCap(l)) \in {NoCap, PerScope}
    BY <1>0, <1>c, <2>2 DEF Registered
  <2> HIDE DEF q, i
  <2>7. \A m \in Leaves : entry'[m] = entry[m] \/ entry'[m] = Blank \/ (m = l /\ entry'[m] = i)
    BY <2>1
  <2>8. ASSUME NEW m \in DOMAIN line', entry'[m].woken PROVE due'[m] = 0 /\ entry'[m].seen = 0
    <3>1. m \in DOMAIN q /\ m \in Leaves
      BY <1>0, <2>1, <2>4, <2>5
    <3>2. m # l
      BY <2>1, <2>3, <2>8, <3>1
    <3>3. entry'[m] = entry[m] /\ m \in DOMAIN line /\ due'[m] = due[m]
      BY <2>1, <2>4, <2>5, <3>1, <3>2
    <3> QED BY <1>c, <2>8, <3>3
  <2>9. \A s \in Scopes : treeCap'[s] \in {NoCap, PerScope}
    BY <1>0, <1>c, <2>1, <2>6
  <2>10. \A m \in Leaves : entry'[m].class = "Drift" /\ entry'[m].cap = NoCap
    BY <1>c, <1>d, <2>3, <2>7
  <2> QED BY <1>c, <2>1, <2>8, <2>9, <2>10
<1>3. ASSUME NEW l \in Leaves, NEW missing \in BOOLEAN, Defer(l, missing) PROVE Goal
  <2>1. l \notin DOMAIN line
    BY <1>b, <1>3 DEF Defer
  <2>2. \A m \in Leaves \ {l} : due'[m] = due[m]
    BY <1>0, <1>3 DEF Defer
  <2>3. line' = line /\ entry' = entry /\ want' = want /\ treeCap' = treeCap
    BY <1>3 DEF Defer
  <2> QED BY <1>0, <1>c, <2>1, <2>2, <2>3
<1>4. ASSUME NEW l \in Leaves, Trigger(l) PROVE Goal
  <2>1. line' = line /\ entry' = entry /\ treeCap' = treeCap /\ due' = [due EXCEPT ![l] = 0]
    BY <1>4 DEF Trigger
  <2>2. \A m \in Leaves : want'[m] = "DriftCheck"
    BY <1>0, <1>4, <1>c DEF Trigger
  <2> QED BY <1>0, <1>c, <2>1, <2>2
<1>5. ASSUME NEW l \in Leaves, DropScope(l) \/ DropCredential(l) \/ DropDrift(l) PROVE Goal
  BY <1>5, <1>c DEF DropScope, DropCredential, DropDrift
<1>6. ASSUME NEW l \in Leaves, Wake(l) PROVE Goal
  <2> DEFINE chosen == Chosen(Retained, Scope[l])
  <2>1. /\ run[l] = "wake" /\ line' = Retained /\ treeCap' = treeCap
        /\ \A m \in Leaves \ {l} : IF m \in chosen THEN due'[m] = 0 ELSE due'[m] = due[m]
        /\ \A m \in DOMAIN Retained :
                IF m \in chosen THEN entry'[m] = Awake(m) ELSE entry'[m] = entry[m]
        /\ \A m \in Leaves : entry'[m] \in {Blank, entry[m], Awake(m)}
        /\ \E w \in mix[l] : want' = [want EXCEPT ![l] = w]
    BY <1>6, WakeQueue DEF SharedPool
  <2> HIDE DEF chosen
  <2>2. \A m \in Leaves : /\ Awake(m).woken = TRUE /\ Awake(m).seen = 0
                          /\ Awake(m).class = entry[m].class /\ Awake(m).cap = entry[m].cap
    BY AwakeIs
  <2>3. DOMAIN Retained \subseteq DOMAIN line /\ l \notin DOMAIN line
    BY <1>0, <2>1, RetainedOrder DEF Waiting, StageInv
  <2>4. \A m \in Leaves : entry'[m].class = "Drift" /\ entry'[m].cap = NoCap
    BY <1>c, <1>d, <2>1, <2>2
  <2>5. \A m \in Leaves : want'[m] = "DriftCheck"
    BY <1>0, <1>c, <2>1
  <2>6. ASSUME NEW m \in DOMAIN Retained, entry'[m].woken
        PROVE  due'[m] = 0 /\ entry'[m].seen = 0
    <3>1. m \in Leaves \ {l} /\ m \in DOMAIN line
      BY <1>0, <2>3
    <3>2. CASE m \in chosen
      BY <2>1, <2>2, <3>1, <3>2
    <3>3. CASE m \notin chosen
      BY <1>c, <2>1, <2>6, <3>1, <3>3
    <3> QED BY <3>2, <3>3
  <2> QED BY <1>c, <2>1, <2>4, <2>5, <2>6
<1>7. CASE UNCHANGED gateVars
  BY <1>7, <1>c DEF gateVars
<1> QED BY <1>1, <1>2, <1>3, <1>4, <1>5, <1>6, <1>7 DEF GateNext

\* Where there is room beside the handlers under way and the leaves ahead of l,
\* l fits beside those of them that are admitted.
LEMMA RoomFits ==
    ASSUME SharedPool, NEW b \in SUBSET Leaves, NEW sl \in SUBSET b, NEW cr \in SUBSET b,
           NEW dr \in SUBSET b, NEW q, NEW e, \A k \in DOMAIN q : e[k].cap = NoCap,
           NEW T \in SUBSET Leaves, NEW A \in SUBSET T, NEW l \in Leaves,
           Room(Cardinality(b) + Cardinality(T))
    PROVE  FitsIn(sl, cr, dr, q, e, A, l)
<1> DEFINE s == Scope[l]
           c == Cred[l]
<1>1. ScopeCap(q, e, s) = PerScope
  BY ScopeCapIsUniform
<1>2. /\ In(sl, s) \in SUBSET b /\ In(dr, s) \in SUBSET b /\ Using(cr, c) \in SUBSET b
      /\ In(A, s) \in SUBSET T /\ In(Drifting(A, e), s) \in SUBSET T /\ Using(A, c) \in SUBSET T
  BY DEF In, Using, Drifting
<1>3. /\ Cardinality(b) \in Nat /\ Cardinality(T) \in Nat
      /\ \A X \in SUBSET b : Cardinality(X) \in Nat /\ Cardinality(X) <= Cardinality(b)
      /\ \A X \in SUBSET T : Cardinality(X) \in Nat /\ Cardinality(X) <= Cardinality(T)
  BY LeavesCount
<1>4. \A X \in SUBSET b, Y \in SUBSET T, n \in Int :
         Cardinality(b) + Cardinality(T) < n => Cardinality(X) + Cardinality(Y) < n
  BY <1>3
<1>5. /\ EngineGlobal \in Int /\ PerScope \in Int /\ PerCredential \in Int
      /\ DriftSlots(PerScope) \in Int /\ Cardinality(b) + Cardinality(T) \in Nat
  BY <1>3, CapTypes DEF EngineGlobal, DriftSlots
<1> HIDE DEF s, c
<1>6. Cardinality(sl) + Cardinality(A) < EngineGlobal
  BY <1>4, <1>5 DEF Room
<1>7. Cardinality(In(sl, s)) + Cardinality(In(A, s)) < PerScope
  BY <1>2, <1>4, <1>5 DEF Room
<1>8. Share > 0 => Cardinality(In(dr, s)) + Cardinality(In(Drifting(A, e), s)) < DriftSlots(PerScope)
  BY <1>2, <1>4, <1>5 DEF Room
<1>9. PerCredential > 0 => Cardinality(Using(cr, c)) + Cardinality(Using(A, c)) < PerCredential
  BY <1>2, <1>4, <1>5 DEF SharedPool
<1> QED BY <1>1, <1>6, <1>7, <1>8, <1>9 DEF FitsIn, s, c

\* The permits of the engine's plan are there when they are taken.
LEMMA PickedAllocates ==
    ASSUME SharedPool, GateTypeOK, NEW q, NEW e, NEW l \in Leaves, NEW A \in SUBSET Leaves,
           \A k \in DOMAIN q : e[k].cap = NoCap, e[l].cap = NoCap, e[l].class = "Drift",
           treeCap[Scope[l]] \in {NoCap, PerScope},
           FitsIn(slots, creds, drifts, q, e, A, l)
    PROVE  Allocates(q, e, l)
<1> DEFINE s == Scope[l]
           c == Cred[l]
<1>1. ScopeCap(q, e, s) = PerScope /\ Registered(s, e[l].cap) = PerScope
  BY ScopeCapIsUniform DEF Registered
<1>2. slots \in SUBSET Leaves /\ creds \in SUBSET Leaves /\ drifts \in SUBSET Leaves
      /\ Drifting(A, e) \in SUBSET Leaves
  BY DEF GateTypeOK, Drifting
<1>3. /\ Cardinality(slots) \in Nat /\ Cardinality(A) \in Nat
      /\ Cardinality(In(slots, s)) \in Nat /\ Cardinality(In(A, s)) \in Nat
      /\ Cardinality(In(drifts, s)) \in Nat /\ Cardinality(In(Drifting(A, e), s)) \in Nat
      /\ Cardinality(Using(creds, c)) \in Nat /\ Cardinality(Using(A, c)) \in Nat
  BY <1>2, FewerHolders
<1>4. EngineGlobal \in Int /\ EngineGlobal <= Global /\ Global \in Int
      /\ PerScope \in Int /\ PerCredential \in Int /\ DriftSlots(PerScope) \in Int
  BY CapTypes DEF EngineGlobal, DriftSlots, SharedPool
<1>5. /\ Cardinality(slots) + Cardinality(A) < EngineGlobal
      /\ Cardinality(In(slots, s)) + Cardinality(In(A, s)) < PerScope
      /\ Share > 0 => Cardinality(In(drifts, s)) + Cardinality(In(Drifting(A, e), s))
                         < DriftSlots(PerScope)
      /\ WantsCred(l) => Cardinality(Using(creds, c)) + Cardinality(Using(A, c)) < PerCredential
  BY <1>1 DEF FitsIn, WantsCred
<1> HIDE DEF s, c
<1>6. /\ Cardinality(slots) < Global
      /\ Cardinality(In(slots, s)) < PerScope
      /\ Share > 0 => Cardinality(In(drifts, s)) < DriftSlots(PerScope)
      /\ WantsCred(l) => Cardinality(Using(creds, c)) < PerCredential
  BY <1>3, <1>4, <1>5
<1> QED BY <1>1, <1>6 DEF Allocates, WantsDrift, s, c

\* More handlers under way, or more waiters woken ahead, leave no more room.
LEMMA NoMoreRoom ==
    ASSUME NEW b \in SUBSET Leaves, NEW a \in SUBSET Leaves,
           NEW b1 \in SUBSET Leaves, NEW a1 \in SUBSET Leaves,
           Cardinality(b) + Cardinality(a) <= Cardinality(b1) + Cardinality(a1),
           ~Room(Cardinality(b) + Cardinality(a))
    PROVE  ~Room(Cardinality(b1) + Cardinality(a1))
<1>1. /\ Cardinality(b) + Cardinality(a) \in Nat
      /\ Cardinality(b1) + Cardinality(a1) \in Nat
  BY LeavesCount
<1> QED BY <1>1, RoomBesideFewer

\* A leaf that asks and is refused finds no room beside the handlers under way
\* and the leaves ahead of it in the queue.
LEMMA RefusedNoRoom ==
    ASSUME SharedPool, IInv, StageInv, DriftInv, DriftOnly, NEW l \in Leaves, Ask(l),
           ~AskGrants(l),
           NEW T, T = {m \in DOMAIN Enqueued(l) : Enqueued(l)[m] < Enqueued(l)[l]}
    PROVE  ~Room(Cardinality(Busy) + Cardinality(T))
<1> DEFINE q == Enqueued(l)
           e == AskEntries(l)
           A == {m \in AdmittedIn(slots, creds, drifts, q, e) : Before(q, e, m, l)}
<1>1. /\ GateTypeOK /\ IsQueue(q) /\ DOMAIN q = Waiting(line, entry) \cup {l}
      /\ e \in [Leaves -> Entries] /\ e[l] = AskEntry(l)
      /\ \A m \in Leaves \ {l} : e[m] = entry[m]
  BY AskQueue DEF IInv
<1>2. DOMAIN q \subseteq Leaves
  BY <1>1 DEF IsQueue
<1>3. AskEntry(l).class = "Drift" /\ AskEntry(l).cap = NoCap
  BY DEF AskEntry, Inserted, AskClass, AskCap, ClassOf, DriftInv
<1>4. \A m \in Leaves : e[m].class = "Drift" /\ e[m].cap = NoCap
  BY <1>1, <1>3 DEF DriftInv
<1>5. GreedyOn(slots, creds, drifts, q, e, DOMAIN q, AdmittedIn(slots, creds, drifts, q, e))
  BY <1>1, AdmittedGreedy
<1>6. Admitted(q, e) = AdmittedIn(slots, creds, drifts, q, e)
  BY AdmittedIsLoop
<1>7. l \in DOMAIN q
  BY <1>1
<1> HIDE DEF q, e
<1>8. A \in SUBSET T /\ T \in SUBSET Leaves
  <2>1. \A m \in DOMAIN q : Before(q, e, m, l) => q[m] < q[l]
    BY <1>1, <1>2, <1>4, <1>7, DriftOrder
  <2> QED BY <1>2, <1>5, <2>1 DEF GreedyOn, q
<1>9. l \in Admitted(q, e) <=> FitsIn(slots, creds, drifts, q, e, A, l)
  BY <1>5, <1>6, <1>7 DEF GreedyOn
<1> HIDE DEF A
<1>10. \A k \in DOMAIN q : e[k].cap = NoCap
  BY <1>2, <1>4
<1>11. FitsIn(slots, creds, drifts, q, e, A, l) => Allocates(q, e, l)
  <2>1. treeCap[Scope[l]] \in {NoCap, PerScope}
    BY GateAssumption DEF DriftInv
  <2> QED BY <1>1, <1>4, <1>8, <1>10, <2>1, PickedAllocates
<1>12. ~FitsIn(slots, creds, drifts, q, e, A, l)
  BY <1>9, <1>11 DEF AskGrants, q, e
<1>13. Busy \in SUBSET Leaves /\ slots \in SUBSET Busy /\ creds \in SUBSET Busy
       /\ drifts \in SUBSET Busy
  BY DEF Busy, StageInv, IInv, HoldInv, AtWork, GateTypeOK
<1> QED BY <1>8, <1>10, <1>12, <1>13, RoomFits

\* What ParkInv says of one waiter k.
NoRoomFor(k) == ~Room(Cardinality(Busy) + Cardinality(WokenAhead(line, entry, k)))

LEMMA ParkOne ==
    ASSUME NEW b1, NEW q1, NEW e1, b1 = Busy, IsQueue(line), IsQueue(q1),
           NEW k, NEW j, NoRoomFor(j),
           WokenAhead(line, entry, j) \subseteq WokenAhead(q1, e1, k)
    PROVE  ~Room(Cardinality(b1) + Cardinality(WokenAhead(q1, e1, k)))
<1>1. /\ b1 \in SUBSET Leaves /\ WokenAhead(q1, e1, k) \in SUBSET Leaves
      /\ WokenAhead(line, entry, j) \in SUBSET WokenAhead(q1, e1, k)
  BY DEF Busy, WokenAhead, Waiting, IsQueue
<1>2. /\ Cardinality(WokenAhead(line, entry, j)) <= Cardinality(WokenAhead(q1, e1, k))
      /\ Cardinality(WokenAhead(line, entry, j)) \in Nat
      /\ Cardinality(WokenAhead(q1, e1, k)) \in Nat /\ Cardinality(b1) \in Nat
  BY <1>1, LeavesCount
<1>3. Cardinality(b1) + Cardinality(WokenAhead(line, entry, j))
        <= Cardinality(b1) + Cardinality(WokenAhead(q1, e1, k))
  BY <1>2
<1>4. ~Room(Cardinality(b1) + Cardinality(WokenAhead(line, entry, j)))
  BY DEF NoRoomFor
<1>5. WokenAhead(line, entry, j) \in SUBSET Leaves
  BY <1>1
<1> HIDE DEF Busy
<1> QED BY <1>1, <1>3, <1>4, <1>5, NoMoreRoom

\* A refused leaf joins the queue, or keeps its place, without being woken.
LEMMA ParkRefused ==
    ASSUME SharedPool, IInv, StageInv, DriftInv, ParkInv, DriftOnly,
           NEW l \in Leaves, Ask(l), ~AskGrants(l),
           NEW k \in Waiting(line', entry'), ~entry'[k].woken
    PROVE  ~Room(Cardinality(Busy') + Cardinality(WokenAhead(line', entry', k)))
<1> DEFINE q == Enqueued(l)
           W == Waiting(line, entry)
           T == {m \in DOMAIN q : q[m] < q[l]}
<1>1. /\ IsQueue(line) /\ IsQueue(q) /\ DOMAIN q = W \cup {l} /\ line' = q /\ run' = run
      /\ \A m \in W \ {l} : entry'[m] = entry[m]
  <2>1. GateTypeOK /\ IsQueue(line)
    BY DEF IInv, GateTypeOK, IsQueue
  <2>2. /\ IsQueue(q) /\ DOMAIN q = W \cup {l} /\ AskRefused(l)
        /\ \A m \in Leaves \ {l} : AskEntries(l)[m] = entry[m]
        /\ \A m \in DOMAIN q : entry'[m] = AskEntries(l)[m]
    BY <2>1, AskQueue
  <2>3. W \subseteq Leaves
    BY <2>1 DEF Waiting, IsQueue
  <2> QED BY <2>1, <2>2, <2>3 DEF AskRefused
<1>2. \A a, b \in W : q[a] < q[b] <=> line[a] < line[b]
  BY <1>1, EnqueuedOrder
<1>3. \A a \in DOMAIN q : q[a] \in Int
  BY <1>1, LeavesCount DEF IsQueue
<1>4. \A a, b \in DOMAIN q : q[a] = q[b] => a = b
  BY <1>1 DEF IsQueue
<1>5. /\ \A m \in W : m \in DOMAIN line /\ Live(entry[m])
      /\ \A m : m \in W /\ ~entry[m].woken => NoRoomFor(m)
  BY DEF Waiting, ParkInv, NoRoomFor
<1>6. ~Room(Cardinality(Busy) + Cardinality(T))
  BY RefusedNoRoom
<1>7. k \in DOMAIN q
  BY <1>1 DEF Waiting
<1>8. Busy' = Busy
  BY <1>1 DEF Busy
<1> HIDE DEF q, W
<1>9. \A j : WokenAhead(line, entry, j) \subseteq W
  BY DEF WokenAhead, W
<1>10. \A j \in W : \A m : m \in WokenAhead(line, entry, j) <=>
                             m \in W /\ entry[m].woken /\ q[m] < q[j]
  BY <1>2 DEF WokenAhead, W
<1>11. \A m \in W \ {l} : entry[m].woken /\ q[m] < q[k] => m \in WokenAhead(line', entry', k)
  BY <1>1, <1>5 DEF WokenAhead, Waiting
<1>12. CASE q[k] < q[l]
  <2>1. k \in W /\ k # l
    BY <1>1, <1>3, <1>7, <1>12
  <2>2. NoRoomFor(k)
    BY <1>1, <1>5, <2>1
  <2>3. WokenAhead(line, entry, k) \subseteq WokenAhead(line', entry', k)
    <3> SUFFICES ASSUME NEW m \in WokenAhead(line, entry, k)
                 PROVE  m \in WokenAhead(line', entry', k)
      OBVIOUS
    <3>1. m \in W /\ entry[m].woken /\ q[m] < q[k]
      BY <1>10, <2>1
    <3>2. m # l
      BY <1>1, <1>3, <1>7, <1>12, <3>1
    <3> QED BY <1>11, <3>1, <3>2
  <2> QED BY <1>1, <1>8, <2>2, <2>3, ParkOne
<1>13. CASE ~(q[k] < q[l])
  <2>0. \A m \in T : m \in W \ {l} /\ q[m] < q[k]
    BY <1>1, <1>3, <1>7, <1>13
  <2>1. CASE \A m \in T : entry[m].woken
    <3>1. T \subseteq WokenAhead(line', entry', k)
      BY <1>11, <2>0, <2>1
    <3>2. WokenAhead(line', entry', k) \in SUBSET Leaves /\ Busy \in SUBSET Leaves
      BY <1>1 DEF WokenAhead, Waiting, IsQueue, Busy
    <3>3. T \in SUBSET WokenAhead(line', entry', k) /\ T \in SUBSET Leaves
      BY <3>1, <3>2
    <3> HIDE DEF T
    <3>4. /\ Cardinality(T) <= Cardinality(WokenAhead(line', entry', k))
          /\ Cardinality(T) \in Nat /\ Cardinality(Busy) \in Nat
          /\ Cardinality(WokenAhead(line', entry', k)) \in Nat
      BY <3>2, <3>3, LeavesCount
    <3>5. Cardinality(Busy) + Cardinality(T)
            <= Cardinality(Busy) + Cardinality(WokenAhead(line', entry', k))
      BY <3>4
    <3>6. ~Room(Cardinality(Busy) + Cardinality(WokenAhead(line', entry', k)))
      BY <1>6, <3>2, <3>3, <3>5, NoMoreRoom
    <3> QED BY <1>8, <3>6
  <2>2. ASSUME NEW p \in T, ~entry[p].woken
        PROVE  ~Room(Cardinality(Busy') + Cardinality(WokenAhead(line', entry', k)))
    <3>1. p \in W /\ p # l /\ q[p] < q[l] /\ q[p] < q[k] /\ NoRoomFor(p)
      BY <1>5, <2>0, <2>2
    <3>2. WokenAhead(line, entry, p) \subseteq WokenAhead(line', entry', k)
      <4> SUFFICES ASSUME NEW m \in WokenAhead(line, entry, p)
                   PROVE  m \in WokenAhead(line', entry', k)
        OBVIOUS
      <4>1. m \in W /\ entry[m].woken /\ q[m] < q[p]
        BY <1>10, <3>1
      <4>2. q[m] < q[k] /\ m # l
        BY <1>1, <1>3, <1>7, <3>1, <4>1
      <4> QED BY <1>11, <4>1, <4>2
    <3> QED BY <1>1, <1>8, <3>1, <3>2, ParkOne
  <2> QED BY <2>1, <2>2
<1> QED BY <1>12, <1>13

\* A granted leaf leaves the queue and is under way instead.
LEMMA ParkGranted ==
    ASSUME IInv, ParkInv, DriftOnly, NEW l \in Leaves, Ask(l), AskGrants(l),
           NEW k \in Waiting(line', entry'), ~entry'[k].woken
    PROVE  ~Room(Cardinality(Busy') + Cardinality(WokenAhead(line', entry', k)))
<1> DEFINE q == Enqueued(l)
           W == Waiting(line, entry)
           a == WokenAhead(line, entry, k)
           a1 == WokenAhead(line', entry', k)
<1>0. GateTypeOK /\ IsQueue(line) /\ run \in [Leaves -> Runs]
  BY DEF IInv, GateTypeOK, IsQueue
<1>1. /\ IsQueue(q) /\ DOMAIN q = W \cup {l} /\ line' = Ranked(q, DOMAIN q \ {l})
      /\ run[l] = "idle" /\ run' = [run EXCEPT ![l] = "running"]
      /\ \A m \in W \ {l} : entry'[m] = entry[m]
  <2>1. /\ IsQueue(q) /\ DOMAIN q = W \cup {l} /\ AskGranted(l) /\ Starts(l)
        /\ \A m \in Leaves \ {l} : AskEntries(l)[m] = entry[m]
        /\ \A m \in DOMAIN q : entry'[m] = AskEntries(l)[m]
    BY <1>0, AskQueue
  <2>2. W \subseteq Leaves
    BY <1>0 DEF Waiting, IsQueue
  <2> QED BY <2>1, <2>2 DEF AskGranted, Starts
<1>2. \A m, j \in W : q[m] < q[j] <=> line[m] < line[j]
  BY <1>0, EnqueuedOrder
<1>3. DOMAIN line' = W \ {l} /\ IsQueue(line')
  BY <1>1, QueueOfRanked
<1> HIDE DEF q
<1>4. \A m, j \in W \ {l} : line'[m] < line'[j] <=> line[m] < line[j]
  <2>1. DOMAIN q \ {l} = W \ {l}
    BY <1>1
  <2>2. \A m, j \in DOMAIN q \ {l} :
           Ranked(q, DOMAIN q \ {l})[m] < Ranked(q, DOMAIN q \ {l})[j] <=> q[m] < q[j]
    BY <1>1, RankedOrder
  <2> QED BY <1>1, <1>2, <2>1, <2>2
<1>5. k \in W \ {l} /\ ~entry[k].woken
  BY <1>1, <1>3 DEF Waiting
<1>6. ~Room(Cardinality(Busy) + Cardinality(a))
  BY <1>5 DEF ParkInv
<1>7. a \ {l} \in SUBSET a1
  BY <1>1, <1>3, <1>4, <1>5 DEF WokenAhead, Waiting
<1>8. a \in SUBSET Leaves /\ a1 \in SUBSET Leaves
  BY <1>0, <1>3 DEF WokenAhead, Waiting, IsQueue
<1>9. Busy' = Busy \cup {l} /\ l \notin Busy /\ Busy \in SUBSET Leaves /\ Busy' \in SUBSET Leaves
  BY <1>0, <1>1 DEF Busy
<1> HIDE DEF a, a1, W
<1>10. Cardinality(Busy) + 1 <= Cardinality(Busy') /\ Cardinality(Busy) \in Nat
       /\ Cardinality(Busy') \in Nat
  <2> DEFINE b == Busy
             b1 == Busy'
  <2>1. b1 \in SUBSET Leaves /\ b \in SUBSET b1 /\ l \in b1 /\ l \notin b
    BY <1>9
  <2> HIDE DEF b, b1
  <2>2. Cardinality(b) + 1 <= Cardinality(b1) /\ Cardinality(b) \in Nat
        /\ Cardinality(b1) \in Nat
    BY <2>1, OneMore
  <2> QED BY <2>2 DEF b, b1
<1>11. Cardinality(a) <= Cardinality(a1) + 1 /\ Cardinality(a) \in Nat /\ Cardinality(a1) \in Nat
  <2>1. a \in SUBSET (a1 \cup {l}) /\ a1 \cup {l} \in SUBSET Leaves
    BY <1>7, <1>8
  <2>2. Cardinality(a) <= Cardinality(a1 \cup {l}) /\ Cardinality(a) \in Nat
    BY <2>1, LeavesCount
  <2>3. Cardinality(a1 \cup {l}) <= Cardinality(a1) + 1 /\ Cardinality(a1 \cup {l}) \in Nat
        /\ Cardinality(a1) \in Nat
    BY <1>8, LeavesCount
  <2> QED BY <2>2, <2>3
<1>12. Cardinality(Busy) + Cardinality(a) <= Cardinality(Busy') + Cardinality(a1)
  BY <1>10, <1>11
<1>13. ~Room(Cardinality(Busy') + Cardinality(a1))
  BY <1>6, <1>8, <1>9, <1>12, NoMoreRoom
<1> QED BY <1>13 DEF a1

\* A release wakes the first of the waiters that are parked.
LEMMA ChosenFirst ==
    ASSUME NEW q, IsQueue(q), entry \in [Leaves -> Entries],
           \A m \in DOMAIN q : entry[m].class = "Drift",
           NEW s, \A m \in DOMAIN q : Scope[m] = s,
           NEW k \in DOMAIN q, ~entry[k].woken, k \notin Chosen(q, s)
    PROVE  \E c \in Chosen(q, s) : c \in DOMAIN q /\ ~entry[c].woken /\ q[c] < q[k]
<1> DEFINE parked == {l \in DOMAIN q : ~entry[l].woken}
           c == Best(q, entry, parked)
<1>1. In(parked, s) = parked /\ k \in parked /\ parked \in SUBSET DOMAIN q
  BY DEF In
<1>2. c \in parked /\ \A m \in parked \ {c} : Before(q, entry, c, m)
  <2> HIDE DEF parked
  <2>1. \E l \in parked : \A m \in parked \ {l} : Before(q, entry, l, m)
    BY <1>1, BestExists
  <2> QED BY <2>1 DEF Best
<1>3. c \in Chosen(q, s)
  <2> DEFINE first == IF In(parked, s) = {} THEN {} ELSE {Best(q, entry, In(parked, s))}
             second(S) == IF S = {} THEN {} ELSE {Best(q, entry, S)}
             one == first \cup second(parked \ first)
  <2>1. Chosen(q, s) = IF Cardinality(one) < 2 THEN one \cup second(parked \ one) ELSE one
    BY DEF Chosen
  <2>2. first = {c}
    BY <1>1
  <2> HIDE DEF first, second, parked, c
  <2>3. c \in one
    BY <2>2
  <2> HIDE DEF one
  <2> QED BY <2>1, <2>3
<1> HIDE DEF c, parked
<1>4. c # k /\ Before(q, entry, c, k)
  BY <1>1, <1>2, <1>3
<1>5. c \in DOMAIN q /\ ~entry[c].woken
  BY <1>2 DEF parked
<1>6. q[c] < q[k]
  BY <1>4, <1>5, DriftOrder
<1> QED BY <1>3, <1>5, <1>6

\* A released permit is passed on: what it leaves free, a waiter is woken for.
LEMMA ParkWake ==
    ASSUME SharedPool, IInv, StageInv, DriftInv, ParkInv, DriftOnly,
           NEW l \in Leaves, Wake(l),
           NEW k \in Waiting(line', entry'), ~entry'[k].woken
    PROVE  ~Room(Cardinality(Busy') + Cardinality(WokenAhead(line', entry', k)))
<1> DEFINE W == Waiting(line, entry)
           chosen == Chosen(Retained, Scope[l])
           a == WokenAhead(line, entry, k)
           a1 == WokenAhead(line', entry', k)
<1>0. GateTypeOK /\ IsQueue(line) /\ run \in [Leaves -> Runs] /\ entry \in [Leaves -> Entries]
  BY DEF IInv, GateTypeOK, IsQueue, Entries
<1>1. /\ run[l] = "wake" /\ run' = [run EXCEPT ![l] = "idle"] /\ line' = Retained
      /\ \A m \in DOMAIN Retained : IF m \in chosen THEN entry'[m] = Awake(m)
                                    ELSE entry'[m] = entry[m]
  BY <1>0, WakeQueue DEF SharedPool
<1>2. /\ DOMAIN Retained = W /\ IsQueue(Retained)
      /\ \A m, j \in W : Retained[m] < Retained[j] <=> line[m] < line[j]
  BY <1>0, RetainedOrder, QueueOfEnqueued
<1>3. W \subseteq Leaves /\ \A m \in W : m \in DOMAIN line /\ Live(entry[m])
  BY <1>0 DEF Waiting, IsQueue
<1>4. \A m \in Leaves : Awake(m).woken = TRUE /\ Live(Awake(m))
  <2>1. \A m \in Leaves : Awake(m).woken = TRUE /\ Awake(m).seen = 0
    BY <1>0, AwakeIs
  <2> QED BY <2>1, CapTypes DEF Live, SharedPool
<1>5. k \in W
  BY <1>1, <1>2 DEF Waiting
<1> HIDE DEF W, chosen
<1>6. k \notin chosen /\ ~entry[k].woken
  BY <1>1, <1>2, <1>3, <1>4, <1>5
<1>7. ~Room(Cardinality(Busy) + Cardinality(a))
  BY <1>5, <1>6 DEF ParkInv, W
<1>8. PICK c \in chosen : c \in W /\ ~entry[c].woken /\ Retained[c] < Retained[k]
  <2>1. /\ \A m \in DOMAIN Retained : entry[m].class = "Drift" /\ Scope[m] = Scope[l]
        /\ k \in DOMAIN Retained
    BY <1>2, <1>3, <1>5 DEF DriftInv, SharedPool
  <2>2. \E c \in Chosen(Retained, Scope[l]) :
           c \in DOMAIN Retained /\ ~entry[c].woken /\ Retained[c] < Retained[k]
    BY <1>0, <1>2, <1>6, <2>1, ChosenFirst DEF chosen
  <2> QED BY <1>2, <2>2 DEF chosen
<1>9. a \cup {c} \in SUBSET a1 /\ c \notin a
  <2>1. \A m : m \in a <=> m \in W /\ entry[m].woken /\ line[m] < line[k]
    BY DEF WokenAhead, W
  <2>2. \A m \in W : (entry[m].woken \/ m \in chosen) => Live(entry'[m]) /\ entry'[m].woken
    BY <1>1, <1>2, <1>3, <1>4
  <2>3. \A m \in W : m \in a1 <=> Live(entry'[m]) /\ entry'[m].woken /\ Retained[m] < Retained[k]
    BY <1>1, <1>2 DEF WokenAhead, Waiting
  <2> HIDE DEF a, a1
  <2> QED BY <1>2, <1>5, <1>8, <2>1, <2>2, <2>3
<1>10. a \in SUBSET Leaves /\ a1 \in SUBSET Leaves
  BY <1>0, <1>1, <1>2 DEF WokenAhead, Waiting, IsQueue
<1>11. Busy = Busy' \cup {l} /\ Busy \in SUBSET Leaves /\ Busy' \in SUBSET Leaves
  BY <1>0, <1>1 DEF Busy
<1> HIDE DEF a, a1
<1>12. Cardinality(Busy) <= Cardinality(Busy') + 1 /\ Cardinality(Busy') \in Nat
       /\ Cardinality(Busy) \in Nat
  BY <1>11, LeavesCount
<1>13. Cardinality(a) + 1 <= Cardinality(a1) /\ Cardinality(a) \in Nat /\ Cardinality(a1) \in Nat
  <2>1. a \in SUBSET a1 /\ c \in a1
    BY <1>9
  <2> QED BY <1>9, <1>10, <2>1, OneMore
<1>14. Cardinality(Busy) + Cardinality(a) <= Cardinality(Busy') + Cardinality(a1)
  BY <1>12, <1>13
<1>15. ~Room(Cardinality(Busy') + Cardinality(a1))
  BY <1>7, <1>10, <1>11, <1>14, NoMoreRoom
<1> QED BY <1>15 DEF a1

\* Time passes only while no waiter that was woken is on its way.
LEMMA ParkTick ==
    ASSUME SharedPool, IInv, StageInv, DriftInv, ParkInv, DriftOnly, GateTick,
           NEW k \in Waiting(line', entry'), ~entry'[k].woken
    PROVE  ~Room(Cardinality(Busy') + Cardinality(WokenAhead(line', entry', k)))
<1>0. /\ IsQueue(line) /\ DOMAIN line \subseteq Leaves /\ entry \in [Leaves -> Entries]
  BY DEF IInv, GateTypeOK, IsQueue, Entries
<1>1. line' = line /\ run' = run
  BY DEF GateTick
<1>2. \A m \in DOMAIN line : ~entry[m].woken
  BY <1>0 DEF GateTick, SharedPool, Starts, StageInv, DriftInv
<1>3. \A m \in DOMAIN line : ~Live(entry[m]) => entry'[m] = entry[m]
  BY <1>0 DEF GateTick
<1>4. k \in Waiting(line, entry) /\ ~entry[k].woken
  BY <1>1, <1>2, <1>3 DEF Waiting
<1>5. NoRoomFor(k)
  BY <1>4 DEF ParkInv, NoRoomFor
<1>6. WokenAhead(line, entry, k) \subseteq WokenAhead(line', entry', k)
  BY <1>2 DEF WokenAhead, Waiting
<1>7. Busy' = Busy /\ IsQueue(line')
  BY <1>0, <1>1 DEF Busy
<1> QED BY <1>0, <1>5, <1>6, <1>7, ParkOne

\* Every step leaves a waiter parked only where there is no room for it.
LEMMA ParkStep ==
    ASSUME SharedPool, IInv, StageInv, DriftInv, ParkInv, [GateNext]_gateVars PROVE ParkInv'
<1>0. GateTypeOK /\ run \in [Leaves -> Runs]
  BY DEF IInv, GateTypeOK
<1>1. mix' = mix
  BY DEF GateNext, gateVars, GateTick, Ask, Defer, Trigger, DropScope, DropCredential, DropDrift, Wake
<1>2. SUFFICES ASSUME DriftOnly, NEW k \in Waiting(line', entry'), ~entry'[k].woken
               PROVE  ~Room(Cardinality(Busy') + Cardinality(WokenAhead(line', entry', k)))
  BY <1>1 DEF ParkInv, DriftOnly
<1>3. CASE GateTick
  BY <1>2, <1>3, ParkTick
<1>4. ASSUME NEW l \in Leaves, Ask(l)
      PROVE  ~Room(Cardinality(Busy') + Cardinality(WokenAhead(line', entry', k)))
  BY <1>2, <1>4, ParkGranted, ParkRefused
<1>5. ASSUME NEW l \in Leaves, Wake(l)
      PROVE  ~Room(Cardinality(Busy') + Cardinality(WokenAhead(line', entry', k)))
  BY <1>2, <1>5, ParkWake
<1>6. CASE line' = line /\ entry' = entry /\ Busy' = Busy
  BY <1>2, <1>6 DEF ParkInv
<1>7. ASSUME NEW l \in Leaves, DropScope(l) \/ DropCredential(l) \/ DropDrift(l)
      PROVE  line' = line /\ entry' = entry /\ Busy' = Busy
  BY <1>0, <1>7 DEF DropScope, DropCredential, DropDrift, Busy
<1>8. ASSUME NEW l \in Leaves, Trigger(l) \/ \E missing \in BOOLEAN : Defer(l, missing)
      PROVE  line' = line /\ entry' = entry /\ Busy' = Busy
  BY <1>8 DEF Trigger, Defer, Busy
<1>9. UNCHANGED gateVars => line' = line /\ entry' = entry /\ Busy' = Busy
  BY DEF gateVars, Busy
<1> QED BY <1>3, <1>4, <1>5, <1>6, <1>7, <1>8, <1>9 DEF GateNext

\* Where the leaves share one pool, "parked until a slot frees" needs no
\* fallback: among leaves that only sweep for drift, whenever a waiting leaf
\* could be admitted, a waiter is on its way or a release is about to wake one,
\* however many leaves there are, whatever the caps and however asks,
\* releases and wakes interleave (LeafGate::admit, Drop for WakeOnRelease).
THEOREM NoIdleSlotCorrect == SharedPool => (GateSpec => []NoIdleSlot)
<1> SUFFICES ASSUME SharedPool PROVE GateSpec => []NoIdleSlot
  OBVIOUS
<1>1. GateInit => StageInv /\ DriftInv /\ ParkInv
  <2> SUFFICES ASSUME GateInit PROVE StageInv /\ DriftInv /\ ParkInv
    OBVIOUS
  <2>1. DOMAIN line = {} /\ creds = {} /\ drifts = {}
    BY DEF GateInit
  <2>2. Waiting(line, entry) = {}
    BY <2>1 DEF Waiting
  <2>3. StageInv /\ ParkInv
    BY <2>1, <2>2 DEF StageInv, ParkInv
  <2>4. DriftInv
    BY <2>1 DEF GateInit, DriftInv, DriftOnly, Blank
  <2> QED BY <2>3, <2>4
<1>2. IInv /\ StageInv /\ DriftInv /\ ParkInv /\ [GateNext]_gateVars
        => StageInv' /\ DriftInv' /\ ParkInv'
  BY StageStep, DriftStep, ParkStep DEF IInv
<1>3. IInv /\ StageInv /\ DriftInv /\ ParkInv => NoIdleSlot
  <2> SUFFICES ASSUME IInv, StageInv, DriftInv, ParkInv, DriftOnly,
                      NEW m \in Admitted(Retained, entry),
                      \A l \in Leaves : ~Starts(l) /\ run[l] \notin {"credential", "drift", "wake"}
               PROVE  FALSE
    BY DEF NoIdleSlot
  <2> DEFINE X == {k \in AdmittedIn(slots, creds, drifts, Retained, entry) :
                      Before(Retained, entry, k, m)}
             s == Scope[m]
  <2>0. /\ IsQueue(line) /\ entry \in [Leaves -> Entries] /\ run \in [Leaves -> Runs]
        /\ DOMAIN line \subseteq Leaves
        /\ slots \in SUBSET Leaves /\ drifts \in SUBSET Leaves
    BY DEF IInv, GateTypeOK, IsQueue, Entries
  <2>1. IsQueue(Retained) /\ DOMAIN Retained = Waiting(line, entry)
    BY <2>0, RetainedOrder, QueueOfRanked DEF Retained, Waiting
  <2>2. GreedyOn(slots, creds, drifts, Retained, entry, DOMAIN Retained,
                 AdmittedIn(slots, creds, drifts, Retained, entry))
    BY <2>0, <2>1, AdmittedGreedy
  <2>3. m \in AdmittedIn(slots, creds, drifts, Retained, entry)
    BY AdmittedIsLoop
  <2>4. /\ m \in Waiting(line, entry) /\ X \in SUBSET Waiting(line, entry)
        /\ FitsIn(slots, creds, drifts, Retained, entry, X, m)
    BY <2>1, <2>2, <2>3 DEF GreedyOn
  <2>5. Waiting(line, entry) \subseteq DOMAIN line /\ m \in Leaves /\ X \in SUBSET Leaves
    BY <2>0, <2>4 DEF Waiting
  <2> HIDE DEF X
  <2>6. \A k \in DOMAIN line : ~entry[k].woken
    BY <2>0 DEF DriftInv, StageInv, Starts
  <2>7. Busy = slots
    BY <2>0 DEF Busy, IInv, HoldInv, AtWork, Runs
  <2>8. In(slots, s) = slots /\ In(drifts, s) = drifts
    BY <2>0, <2>5 DEF In, SharedPool
  <2>9. entry[m].class = "Drift" /\ ScopeCap(Retained, entry, s) = PerScope
    <3>1. \A k \in DOMAIN Retained : entry[k].cap = NoCap
      BY <2>0, <2>1, <2>5 DEF DriftInv
    <3>2. ScopeCap(Retained, entry, s) = PerScope
      BY <3>1, ScopeCapIsUniform
    <3>3. entry[m].class = "Drift"
      BY <2>5 DEF DriftInv
    <3> QED BY <3>2, <3>3
  <2>10. /\ Cardinality(slots) + Cardinality(X) < EngineGlobal
         /\ Cardinality(In(slots, s)) + Cardinality(In(X, s)) < PerScope
         /\ Share > 0 => Cardinality(In(drifts, s)) + Cardinality(In(Drifting(X, entry), s))
                           < DriftSlots(PerScope)
    BY <2>4, <2>9 DEF FitsIn
  <2>11. /\ Cardinality(slots) \in Nat /\ Cardinality(X) \in Nat /\ Cardinality(drifts) \in Nat
         /\ Cardinality(In(X, s)) \in Nat /\ Cardinality(In(Drifting(X, entry), s)) \in Nat
    <3>1. Drifting(X, entry) \in SUBSET Leaves
      BY <2>5 DEF Drifting
    <3> QED BY <2>0, <2>5, <3>1, FewerHolders
  <2>12. Share > 0 => Cardinality(slots) <= Cardinality(drifts)
    <3>1. Share > 0 => slots \in SUBSET drifts
      BY <2>0 DEF IInv, HoldInv, WantsDrift, DriftInv
    <3> QED BY <2>0, <3>1, LeavesCount
  <2>13. /\ Cardinality(In(slots, s)) = Cardinality(slots)
         /\ Cardinality(In(drifts, s)) = Cardinality(drifts)
    BY <2>8, Zenon
  <2>14. Room(Cardinality(slots))
    <3>1. EngineGlobal \in Int /\ PerScope \in Int /\ DriftSlots(PerScope) \in Int
      BY CapTypes DEF EngineGlobal, DriftSlots
    <3> HIDE DEF s
    <3> QED BY <2>10, <2>11, <2>12, <2>13, <3>1 DEF Room
  <2>15. WokenAhead(line, entry, m) = {}
    BY <2>5, <2>6 DEF WokenAhead
  <2>16. Cardinality(WokenAhead(line, entry, m)) = 0
    BY <2>15, FS_EmptySet, Zenon
  <2>17. Cardinality(Busy) + Cardinality(WokenAhead(line, entry, m)) = Cardinality(slots)
    BY <2>7, <2>11, <2>16
  <2>18. ~Room(Cardinality(Busy) + Cardinality(WokenAhead(line, entry, m)))
    BY <2>4, <2>5, <2>6 DEF ParkInv
  <2> QED BY <2>14, <2>17, <2>18
<1> QED BY <1>1, <1>2, <1>3, InductiveInvariant, PTL DEF GateSpec
=============================================================================
