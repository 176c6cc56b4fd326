---------------------------- MODULE LeafQueueProofs ----------------------------
(* Proofs about LeafQueue for any works, credentials, deadlines and bounds: its   *)
(* types, the cap of a credential, the one holder of work that is on time, and    *)
(* that every step of the queue is a step of AtLeastOnce or leaves it alone.      *)
EXTENDS LeafQueue, FiniteSetTheorems, SequenceTheorems, TLAPS

--------------------------------------------------------------------------------
(* Queues and positions. *)

Entries(q) == {q[i] : i \in DOMAIN q}
SeqsOf(E)  == {e.seq : e \in E}
Distinct(q) == \A i, j \in DOMAIN q : q[i].seq = q[j].seq => i = j

(* The places of a finite set of numbers number it from 1 on without gaps.        *)
LEMMA NthIs ==
  ASSUME NEW S \in SUBSET Nat, IsFiniteSet(S)
  PROVE  /\ Cardinality(S) \in Nat
         /\ \A n \in 1 .. Cardinality(S) : Nth(S, n) \in S
         /\ \A n, m \in 1 .. Cardinality(S) : Nth(S, n) = Nth(S, m) => n = m
         /\ \A i \in S : \E n \in 1 .. Cardinality(S) : Nth(S, n) = i
         /\ \A n \in 1 .. Cardinality(S) : Cardinality({j \in S : j <= Nth(S, n)}) = n
<1> DEFINE Upto(i) == {j \in S : j <= i}
           place == [i \in S |-> Cardinality(Upto(i))]
           N == Cardinality(S)
<1>1. N \in Nat
  BY FS_CardinalityType
<1>2. ASSUME NEW i \in S
      PROVE  IsFiniteSet(Upto(i)) /\ Cardinality(Upto(i)) \in 1 .. N
  <2>1. Upto(i) \in SUBSET S /\ i \in Upto(i)
    OBVIOUS
  <2> HIDE DEF Upto
  <2>2. IsFiniteSet(Upto(i)) /\ Cardinality(Upto(i)) <= N
    BY <2>1, FS_Subset
  <2>3. Cardinality(Upto(i)) \in Nat /\ Cardinality(Upto(i)) # 0
    BY <2>1, <2>2, FS_CardinalityType, FS_EmptySet
  <2> HIDE DEF N
  <2> QED BY <1>1, <2>2, <2>3
<1>3. ASSUME NEW i \in S, NEW j \in S, i < j
      PROVE  Cardinality(Upto(i)) # Cardinality(Upto(j))
  <2>1. Upto(i) \in SUBSET Upto(j) /\ Upto(i) # Upto(j)
    <3>1. j \in Upto(j) /\ j \notin Upto(i)
      BY <1>3
    <3>2. ASSUME NEW x \in Upto(i) PROVE x \in Upto(j)
      BY <1>3
    <3> QED BY <3>1, <3>2
  <2>2. IsFiniteSet(Upto(j))
    BY <1>2
  <2> HIDE DEF Upto
  <2> QED BY <2>1, <2>2, FS_Subset
<1>4. place \in Injection(S, 1 .. N)
  <2>1. place \in [S -> 1 .. N]
    BY <1>2
  <2>2. ASSUME NEW i \in S, NEW j \in S, place[i] = place[j] PROVE i = j
    <3>1. Cardinality(Upto(i)) = Cardinality(Upto(j))
      BY <2>2
    <3> HIDE DEF Upto
    <3>2. ~(i < j) /\ ~(j < i)
      BY <1>3, <3>1
    <3> QED BY <3>2
  <2> HIDE DEF place, N
  <2> QED BY <2>1, <2>2 DEF Injection, IsInjective
<1>5. IsFiniteSet(1 .. N) /\ Cardinality(1 .. N) = N
  <2> HIDE DEF N
  <2> QED BY <1>1, FS_Interval
<1>6. place \in Surjection(S, 1 .. N)
  <2> HIDE DEF place
  <2> QED BY <1>4, <1>5, FS_Injection
<1>7. \A n \in 1 .. N : \E i \in S : place[i] = n
  BY <1>6 DEF Surjection
<1>8. ASSUME NEW n \in 1 .. N
      PROVE  /\ Nth(S, n) \in S /\ place[Nth(S, n)] = n
             /\ Cardinality({j \in S : j <= Nth(S, n)}) = n
  <2>1. \E i \in S : Cardinality({j \in S : j <= i}) = n
    BY <1>7
  <2>2. Nth(S, n) \in S /\ Cardinality({j \in S : j <= Nth(S, n)}) = n
    BY <2>1, Zenon DEF Nth
  <2> QED BY <2>2
<1>9. ASSUME NEW i \in S PROVE \E n \in 1 .. N : Nth(S, n) = i
  <2>1. place[i] \in 1 .. N
    BY <1>2
  <2>2. Nth(S, place[i]) \in S /\ place[Nth(S, place[i])] = place[i]
    BY <1>8, <2>1
  <2> HIDE DEF place, N
  <2>3. Nth(S, place[i]) = i
    BY <1>4, <2>2 DEF Injection, IsInjective
  <2> QED BY <2>1, <2>3
<1> HIDE DEF place, N
<1> QED BY <1>1, <1>8, <1>9 DEF N

(* The entries of a queue at some positions: the ones there, none twice.          *)
LEMMA AtIs ==
  ASSUME NEW E, NEW q \in Seq(E), NEW S \in SUBSET (DOMAIN q)
  PROVE  /\ At(q, S) \in Seq(E)
         /\ Entries(At(q, S)) = {q[i] : i \in S}
         /\ Distinct(q) => Distinct(At(q, S))
<1>1. Len(q) \in Nat /\ DOMAIN q = 1 .. Len(q) /\ \A i \in DOMAIN q : q[i] \in E
  BY LenProperties, ElementOfSeq
<1>2. S \in SUBSET Nat /\ IsFiniteSet(S)
  <2>1. IsFiniteSet(DOMAIN q)
    BY <1>1, FS_Interval
  <2> QED BY <1>1, <2>1, FS_Subset
<1> DEFINE N == Cardinality(S)
<1>3. /\ N \in Nat /\ \A n \in 1 .. N : Nth(S, n) \in S
      /\ \A n, m \in 1 .. N : Nth(S, n) = Nth(S, m) => n = m
      /\ \A i \in S : \E n \in 1 .. N : Nth(S, n) = i
  BY <1>2, NthIs
<1>4. At(q, S) = [n \in 1 .. N |-> q[Nth(S, n)]]
  BY DEF At
<1> HIDE DEF N
<1>5. At(q, S) \in [1 .. N -> E]
  BY <1>1, <1>3, <1>4
<1>6. At(q, S) \in Seq(E)
  BY <1>3, <1>5, SeqDef
<1>7. Entries(At(q, S)) = {q[i] : i \in S}
  BY <1>3, <1>4 DEF Entries
<1>8. Distinct(q) => Distinct(At(q, S))
  BY <1>3, <1>4 DEF Distinct
<1> QED BY <1>6, <1>7, <1>8

(* Two queues one behind the other. *)
LEMMA ConcatIs ==
  ASSUME NEW E, NEW q \in Seq(E), NEW r \in Seq(E)
  PROVE  /\ q \o r \in Seq(E)
         /\ Entries(q \o r) = Entries(q) \cup Entries(r)
         /\ Distinct(q) /\ Distinct(r) /\ SeqsOf(Entries(q)) \cap SeqsOf(Entries(r)) = {}
              => Distinct(q \o r)
<1> DEFINE p == q \o r
<1>1. /\ p \in Seq(E) /\ Len(p) = Len(q) + Len(r) /\ Len(q) \in Nat /\ Len(r) \in Nat
      /\ DOMAIN q = 1 .. Len(q) /\ DOMAIN r = 1 .. Len(r) /\ DOMAIN p = 1 .. Len(p)
  BY ConcatProperties, LenProperties
<1>2. \A i \in 1 .. Len(q) + Len(r) : p[i] = IF i <= Len(q) THEN q[i] ELSE r[i - Len(q)]
  BY ConcatProperties
<1> HIDE DEF p
<1>3. \A i \in DOMAIN q : i \in DOMAIN p /\ p[i] = q[i]
  BY <1>1, <1>2
<1>4. \A i \in DOMAIN r : Len(q) + i \in DOMAIN p /\ p[Len(q) + i] = r[i]
  BY <1>1, <1>2
<1>5. ASSUME NEW i \in DOMAIN p
      PROVE  \/ i \in DOMAIN q /\ p[i] = q[i]
             \/ \E j \in DOMAIN r : i = Len(q) + j /\ p[i] = r[j]
  <2>1. CASE i <= Len(q)
    BY <1>1, <1>2, <1>5, <2>1
  <2>2. CASE i > Len(q)
    <3>1. i - Len(q) \in DOMAIN r /\ i = Len(q) + (i - Len(q)) /\ p[i] = r[i - Len(q)]
      BY <1>1, <1>2, <1>5, <2>2
    <3> QED BY <3>1
  <2> QED BY <1>1, <1>5, <2>1, <2>2
<1>6. Entries(p) = Entries(q) \cup Entries(r)
  <2>1. ASSUME NEW e \in Entries(p) PROVE e \in Entries(q) \cup Entries(r)
    BY <1>5, <2>1 DEF Entries
  <2>2. ASSUME NEW e \in Entries(q) \cup Entries(r) PROVE e \in Entries(p)
    BY <1>3, <1>4, <2>2 DEF Entries
  <2> QED BY <2>1, <2>2
<1>7. ASSUME Distinct(q), Distinct(r), SeqsOf(Entries(q)) \cap SeqsOf(Entries(r)) = {},
             NEW i \in DOMAIN p, NEW j \in DOMAIN p, p[i].seq = p[j].seq
      PROVE  i = j
  <2>1. ASSUME NEW k \in DOMAIN q, NEW l \in DOMAIN r PROVE q[k].seq # r[l].seq
    BY <1>7, <2>1 DEF SeqsOf, Entries
  <2>2. CASE i \in DOMAIN q /\ p[i] = q[i] /\ j \in DOMAIN q /\ p[j] = q[j]
    BY <1>7, <2>2 DEF Distinct
  <2>3. CASE i \in DOMAIN q /\ p[i] = q[i] /\ \E l \in DOMAIN r : j = Len(q) + l /\ p[j] = r[l]
    BY <1>7, <2>1, <2>3
  <2>4. CASE j \in DOMAIN q /\ p[j] = q[j] /\ \E k \in DOMAIN r : i = Len(q) + k /\ p[i] = r[k]
    BY <1>7, <2>1, <2>4
  <2>5. ASSUME NEW k \in DOMAIN r, NEW l \in DOMAIN r, i = Len(q) + k, p[i] = r[k],
               j = Len(q) + l, p[j] = r[l]
        PROVE  i = j
    BY <1>7, <2>5 DEF Distinct
  <2> QED BY <1>5, <2>2, <2>3, <2>4, <2>5
<1> QED BY <1>1, <1>6, <1>7 DEF p, Distinct

(* One entry at the back. *)
LEMMA AppendIs ==
  ASSUME NEW E, NEW q \in Seq(E), NEW e \in E
  PROVE  /\ Append(q, e) \in Seq(E)
         /\ Entries(Append(q, e)) = Entries(q) \cup {e}
         /\ Distinct(q) /\ e.seq \notin SeqsOf(Entries(q)) => Distinct(Append(q, e))
<1> DEFINE p == Append(q, e)
<1>1. /\ p \in Seq(E) /\ Len(p) = Len(q) + 1 /\ Len(q) \in Nat
      /\ \A i \in 1 .. Len(q) : p[i] = q[i]
      /\ p[Len(q) + 1] = e
  BY AppendProperties, LenProperties
<1>2. DOMAIN q = 1 .. Len(q) /\ DOMAIN p = 1 .. Len(q) + 1
  BY <1>1, LenProperties
<1> HIDE DEF p
<1>3. Entries(p) = Entries(q) \cup {e}
  BY <1>1, <1>2 DEF Entries
<1>4. ASSUME Distinct(q), e.seq \notin SeqsOf(Entries(q)) PROVE Distinct(p)
  <2>1. \A i \in DOMAIN q : q[i].seq # e.seq
    BY <1>4 DEF SeqsOf, Entries
  <2> QED BY <1>1, <1>2, <1>4, <2>1 DEF Distinct
<1> QED BY <1>1, <1>3, <1>4 DEF p

--------------------------------------------------------------------------------
(* The inductive invariant. *)

(* Every sequence number given out is in exactly one place.                       *)
Parted(R, F, D, A, P, n) ==
  /\ R \cup F \cup D \cup A \cup P = 1 .. n - 1
  /\ R \cap F = {} /\ (R \cup F) \cap D = {}
  /\ (R \cup F \cup D) \cap A = {} /\ (R \cup F \cup D \cup A) \cap P = {}

(* Entries under their own number, none twice; what is out was delivered.         *)
QueueOK(q, fl, dd) ==
  /\ q \in Seq(Entry) /\ Distinct(q)
  /\ DOMAIN fl \subseteq Seqs
  /\ \A s \in DOMAIN fl : /\ fl[s] \in [entry : Entry, left : 0 .. AckWait]
                          /\ fl[s].entry.seq = s /\ fl[s].entry.delivered >= 1
  /\ dd \subseteq Entry /\ \A d, e \in dd : d.seq = e.seq => d = e

PlaceInv ==
  /\ QueueOK(ready, inflight, dead)
  /\ Parted(SeqsOf(Entries(ready)), DOMAIN inflight, SeqsOf(dead), acked, reported, next)

(* What is past its deadline is known to be late, and who holds work that is not   *)
(* late holds something that is not waiting for another worker.                   *)
LateInv ==
  /\ \A s \in DOMAIN inflight : inflight[s].left = 0 => s \in late
  /\ \A c \in claims : c.seq < next /\ (c.seq \in SeqsOf(Entries(ready)) => c.seq \in late)

(* The types of the rest. *)
RestOK ==
  /\ seen \in [Ids -> 0 .. DupWindow] /\ next \in 1 .. (MaxPublish + 1)
  /\ claims \subseteq [seq : Seqs, delivered : Nat]
  /\ acked \subseteq Seqs /\ reported \subseteq Seqs /\ late \subseteq Seqs

IInv == RestOK /\ PlaceInv /\ LateInv /\ WithinAckPending /\ OneHolderUnlessLate

(* The entries that wait or are out. *)
Open(q, fl) == Entries(q) \cup {fl[s].entry : s \in DOMAIN fl}

(* The sequence numbers are finitely many numbers. *)
LEMMA SeqsFinite == Seqs \subseteq Nat /\ IsFiniteSet(Seqs) /\ MaxPublish \in Nat
<1>1. MaxPublish \in Nat
  BY QueueAssumption
<1>2. IsFiniteSet(1 .. MaxPublish)
  BY <1>1, FS_Interval
<1> QED BY <1>1, <1>2 DEF Seqs

(* expire: entries past their deadline go to the back of the queue or to the dead, *)
(* and what stays out is as it was.                                               *)
LEMMA Expires ==
  ASSUME PlaceInv, next \in Nat
  PROVE  /\ QueueOK(ExpiredReady, ExpiredInflight, ExpiredDead)
         /\ Spent \subseteq Due /\ Due \subseteq DOMAIN inflight
         /\ Entries(ExpiredReady) = Entries(ready) \cup {inflight[s].entry : s \in Due \ Spent}
         /\ SeqsOf(Entries(ExpiredReady)) = SeqsOf(Entries(ready)) \cup (Due \ Spent)
         /\ DOMAIN ExpiredInflight = DOMAIN inflight \ Due
         /\ \A s \in DOMAIN ExpiredInflight : ExpiredInflight[s] = inflight[s]
         /\ SeqsOf(ExpiredDead) = SeqsOf(dead) \cup Spent
         /\ Parted(SeqsOf(Entries(ExpiredReady)), DOMAIN ExpiredInflight, SeqsOf(ExpiredDead),
                   acked, reported, next)
<1> DEFINE back == Due \ Spent
<1>1. /\ ready \in Seq(Entry) /\ Distinct(ready) /\ DOMAIN inflight \subseteq Seqs
      /\ \A s \in DOMAIN inflight :
           /\ inflight[s] \in [entry : Entry, left : 0 .. AckWait]
           /\ inflight[s].entry.seq = s /\ inflight[s].entry.delivered >= 1
      /\ dead \subseteq Entry /\ \A d, e \in dead : d.seq = e.seq => d = e
  BY DEF PlaceInv, QueueOK
<1>2. Spent \subseteq Due /\ Due \subseteq DOMAIN inflight /\ back \subseteq DOMAIN inflight
  BY DEF Spent, Due
<1>3. back \in SUBSET Nat /\ IsFiniteSet(back)
  <2> QED BY <1>1, <1>2, SeqsFinite, FS_Subset
<1> DEFINE N == Cardinality(back)
<1>4. /\ N \in Nat /\ \A n \in 1 .. N : Nth(back, n) \in back
      /\ \A n, m \in 1 .. N : Nth(back, n) = Nth(back, m) => n = m
      /\ \A i \in back : \E n \in 1 .. N : Nth(back, n) = i
  BY <1>3, NthIs
<1>5. Requeued = [n \in 1 .. N |-> inflight[Nth(back, n)].entry]
  BY DEF Requeued
<1> HIDE DEF N, back
<1>6. Requeued \in Seq(Entry)
  <2>1. Requeued \in [1 .. N -> Entry]
    BY <1>1, <1>2, <1>4, <1>5
  <2> QED BY <1>4, <2>1, SeqDef
<1>7. Entries(Requeued) = {inflight[s].entry : s \in back}
  BY <1>4, <1>5 DEF Entries
<1>8. Distinct(Requeued)
  BY <1>1, <1>2, <1>4, <1>5 DEF Distinct
<1>9. SeqsOf(Entries(Requeued)) = back
  BY <1>1, <1>2, <1>7 DEF SeqsOf
<1>10. SeqsOf(Entries(ready)) \cap back = {} /\ SeqsOf(dead) \cap DOMAIN inflight = {}
  BY <1>2 DEF PlaceInv, Parted
<1>a. SeqsOf(Entries(ready)) \cap SeqsOf(Entries(Requeued)) = {}
  BY <1>9, <1>10
<1>b. /\ ready \o Requeued \in Seq(Entry) /\ Distinct(ready \o Requeued)
      /\ Entries(ready \o Requeued) = Entries(ready) \cup Entries(Requeued)
  BY <1>1, <1>6, <1>8, <1>a, ConcatIs
<1>11. /\ ExpiredReady \in Seq(Entry) /\ Distinct(ExpiredReady)
       /\ Entries(ExpiredReady) = Entries(ready) \cup {inflight[s].entry : s \in back}
  BY <1>7, <1>b DEF ExpiredReady
<1>12. SeqsOf(Entries(ExpiredReady)) = SeqsOf(Entries(ready)) \cup back
  BY <1>7, <1>9, <1>11 DEF SeqsOf
<1>13. /\ DOMAIN ExpiredInflight = DOMAIN inflight \ Due
       /\ \A s \in DOMAIN ExpiredInflight : ExpiredInflight[s] = inflight[s]
  BY DEF ExpiredInflight, Without
<1>14. SeqsOf(ExpiredDead) = SeqsOf(dead) \cup Spent
  BY <1>1, <1>2 DEF ExpiredDead, SeqsOf
<1>15. ExpiredDead \subseteq Entry
  BY <1>1, <1>2 DEF ExpiredDead
<1>16. ASSUME NEW d \in ExpiredDead, NEW e \in ExpiredDead, d.seq = e.seq PROVE d = e
  <2>1. ASSUME NEW f \in dead, NEW s \in Spent PROVE f.seq # inflight[s].entry.seq
    BY <1>1, <1>2, <1>10 DEF SeqsOf
  <2>2. ASSUME NEW s \in Spent, NEW t \in Spent, inflight[s].entry.seq = inflight[t].entry.seq
        PROVE  s = t
    BY <1>1, <1>2, <2>2
  <2> QED BY <1>1, <1>16, <2>1, <2>2 DEF ExpiredDead
<1>17. Parted(SeqsOf(Entries(ExpiredReady)), DOMAIN ExpiredInflight, SeqsOf(ExpiredDead),
              acked, reported, next)
  BY <1>2, <1>12, <1>13, <1>14 DEF PlaceInv, Parted, back
<1> QED BY <1>1, <1>2, <1>11, <1>12, <1>13, <1>14, <1>15, <1>16, <1>17 DEF QueueOK, back

--------------------------------------------------------------------------------
(* What a step does to the work: how AtLeastOnce sees it. *)

(* An open entry stays open, as it is or delivered once more, or it is acked after *)
(* a delivery, or given up after its last one; dead work is kept or reported.     *)
Fated(e) ==
  \/ e \in Open(ready', inflight') \/ Delivery(e) \in Open(ready', inflight')
  \/ e.delivered >= 1 /\ e.seq \in acked'
  \/ e.delivered >= MaxDeliver /\ e.seq \in SeqsOf(dead') \cup reported'

StepOK ==
  /\ acked \subseteq acked' /\ \A s, t \in acked' \ acked : s = t
  /\ reported \subseteq reported' /\ SeqsOf(dead) \subseteq SeqsOf(dead') \cup reported'
  /\ next' = next \/ (next' = next + 1
                      /\ \E e \in Open(ready', inflight') : e.seq = next /\ e.delivered = 0)
  /\ \A e \in Open(ready, inflight) : Fated(e)

(* PlaceInv of the next state, over its variables. *)
LEMMA PlaceNext ==
  ASSUME QueueOK(ready', inflight', dead'),
         Parted(SeqsOf(Entries(ready')), DOMAIN inflight', SeqsOf(dead'), acked', reported', next')
  PROVE  PlaceInv'
BY DEF PlaceInv, QueueOK, Entry, Seqs, Distinct, Entries, SeqsOf, Parted

(* LateInv of the next state, over its variables. *)
LEMMA LateNext ==
  ASSUME \A s \in DOMAIN inflight' : inflight'[s].left = 0 => s \in late',
         \A c \in claims' : c.seq < next' /\ (c.seq \in SeqsOf(Entries(ready')) => c.seq \in late')
  PROVE  LateInv'
BY DEF LateInv, SeqsOf, Entries

(* Fewer entries out, of the same work: no credential has more of them.           *)
LEMMA HeldShrinks ==
  ASSUME NEW fl, NEW gl, DOMAIN fl \subseteq Seqs, DOMAIN gl \subseteq DOMAIN fl,
         \A s \in DOMAIN gl : gl[s].entry.work = fl[s].entry.work, NEW c
  PROVE  /\ Cardinality(Held(fl, c)) \in Nat /\ Cardinality(Held(gl, c)) \in Nat
         /\ IsFiniteSet(Held(gl, c))
         /\ Cardinality(Held(gl, c)) <= Cardinality(Held(fl, c))
<1>1. Held(gl, c) \in SUBSET Held(fl, c) /\ Held(fl, c) \in SUBSET Seqs
  BY DEF Held
<1>2. IsFiniteSet(Held(fl, c))
  BY <1>1, SeqsFinite, FS_Subset
<1>3. IsFiniteSet(Held(gl, c)) /\ Cardinality(Held(gl, c)) <= Cardinality(Held(fl, c))
  BY <1>1, <1>2, FS_Subset
<1> QED BY <1>2, <1>3, FS_CardinalityType

(* The cap of a credential survives a step that takes nothing more out. *)
LEMMA CapKeeps ==
  ASSUME PlaceInv, WithinAckPending, DOMAIN inflight' \subseteq DOMAIN inflight,
         \A s \in DOMAIN inflight' : inflight'[s].entry.work = inflight[s].entry.work
  PROVE  WithinAckPending'
<1>1. DOMAIN inflight \subseteq Seqs /\ MaxAckPending \in Nat
  BY QueueAssumption DEF PlaceInv, QueueOK
<1>2. ASSUME NEW c \in Creds
      PROVE  Cardinality(Held(inflight', c)) <= MaxAckPending
  <2> DEFINE a == Cardinality(Held(inflight', c))
             b == Cardinality(Held(inflight, c))
  <2>1. a \in Nat /\ b \in Nat /\ a <= b
    BY <1>1, HeldShrinks
  <2>2. b <= MaxAckPending
    BY <1>2 DEF WithinAckPending
  <2> HIDE DEF a, b
  <2>3. a <= MaxAckPending
    BY <1>1, <2>1, <2>2
  <2> QED BY <2>3 DEF a
<1>3. Creds' = Creds /\ \A c \in Creds : Held(inflight, c)' = Held(inflight', c)
  BY DEF Creds, Held
<1> QED BY <1>2, <1>3, Zenon DEF WithinAckPending

(* What every operation that expires leaves behind before it does its own work.   *)
LEMMA ExpireKeeps ==
  ASSUME IInv
  PROVE  /\ next \in Nat /\ next \in 1 .. (MaxPublish + 1)
         /\ Due \subseteq late
         /\ \A c \in claims : c.seq \in SeqsOf(Entries(ExpiredReady)) => c.seq \in late
         /\ \A s \in DOMAIN ExpiredInflight : ExpiredInflight[s].left # 0
         /\ \A e \in Open(ready, inflight) :
              \/ e \in Open(ExpiredReady, ExpiredInflight)
              \/ e.delivered >= MaxDeliver /\ e.seq \in Spent
<1>1. next \in Nat /\ next \in 1 .. (MaxPublish + 1)
  BY SeqsFinite DEF IInv, RestOK
<1>2. Due \subseteq late
  BY DEF IInv, LateInv, Due
<1>3. \A c \in claims : c.seq \in SeqsOf(Entries(ExpiredReady)) => c.seq \in late
  BY <1>1, <1>2, Expires DEF IInv, LateInv
<1>4. \A s \in DOMAIN ExpiredInflight : ExpiredInflight[s].left # 0
  BY <1>1, Expires DEF IInv, Due
<1>5. ASSUME NEW e \in Open(ready, inflight)
      PROVE  \/ e \in Open(ExpiredReady, ExpiredInflight)
             \/ e.delivered >= MaxDeliver /\ e.seq \in Spent
  <2>1. CASE e \in Entries(ready)
    BY <1>1, <2>1, Expires DEF IInv, Open
  <2>2. ASSUME NEW s \in DOMAIN inflight, e = inflight[s].entry
        PROVE  \/ e \in Open(ExpiredReady, ExpiredInflight)
               \/ e.delivered >= MaxDeliver /\ e.seq \in Spent
    <3>1. CASE s \in Spent
      BY <2>2, <3>1 DEF Spent, IInv, PlaceInv, QueueOK
    <3>2. CASE s \in Due \ Spent
      BY <1>1, <2>2, <3>2, Expires DEF IInv, Open
    <3>3. CASE s \notin Due
      <4>1. s \in DOMAIN ExpiredInflight /\ e = ExpiredInflight[s].entry
        BY <1>1, <2>2, <3>3, Expires DEF IInv
      <4> QED BY <4>1 DEF Open
    <3> QED BY <3>1, <3>2, <3>3
  <2> QED BY <1>5, <2>1, <2>2 DEF Open
<1> QED BY <1>1, <1>2, <1>3, <1>4, <1>5

(* publish: expiry, and a new number for what is not a duplicate. *)
LEMMA PublishKeeps ==
  ASSUME IInv, NEW w \in Works, Publish(w)
  PROVE  IInv' /\ StepOK
<1> DEFINE id == IdOf[w]
           new == [seq |-> next, work |-> w, delivered |-> 0]
<1>1. /\ next <= MaxPublish /\ inflight' = ExpiredInflight /\ dead' = ExpiredDead
      /\ claims' = claims /\ acked' = acked /\ reported' = reported /\ late' = late
      /\ \/ ready' = ExpiredReady /\ seen' = seen /\ next' = next
         \/ /\ seen' = [seen EXCEPT ![id] = DupWindow]
            /\ ready' = Append(ExpiredReady, new) /\ next' = next + 1
  BY DEF Publish
<1> HIDE DEF id
<1>2. /\ QueueOK(ExpiredReady, ExpiredInflight, ExpiredDead)
      /\ DOMAIN ExpiredInflight = DOMAIN inflight \ Due
      /\ \A s \in DOMAIN ExpiredInflight : ExpiredInflight[s] = inflight[s]
      /\ SeqsOf(ExpiredDead) = SeqsOf(dead) \cup Spent
      /\ Parted(SeqsOf(Entries(ExpiredReady)), DOMAIN ExpiredInflight, SeqsOf(ExpiredDead),
                acked, reported, next)
  BY ExpireKeeps, Expires DEF IInv
<1>3. next \in 1 .. MaxPublish /\ next \in Seqs /\ MaxPublish \in Nat
  BY <1>1, ExpireKeeps, SeqsFinite DEF Seqs
<1>4. new \in Entry /\ new.seq = next /\ new.delivered = 0
  BY <1>3 DEF Entry
<1> HIDE DEF new
<1>5. next \notin SeqsOf(Entries(ExpiredReady))
  BY <1>2, <1>3 DEF Parted
<1>6. ExpiredReady \in Seq(Entry) /\ Distinct(ExpiredReady)
  BY <1>2 DEF QueueOK
<1>7. /\ Append(ExpiredReady, new) \in Seq(Entry) /\ Distinct(Append(ExpiredReady, new))
      /\ Entries(Append(ExpiredReady, new)) = Entries(ExpiredReady) \cup {new}
  BY <1>4, <1>5, <1>6, AppendIs
<1>8. SeqsOf(Entries(Append(ExpiredReady, new))) = SeqsOf(Entries(ExpiredReady)) \cup {next}
  BY <1>4, <1>7 DEF SeqsOf
<1>9. RestOK'
  <2>1. id \in Ids /\ DupWindow \in Nat
    BY QueueAssumption DEF id, Ids
  <2>2. seen' \in [Ids -> 0 .. DupWindow]
    BY <1>1, <2>1 DEF IInv, RestOK
  <2>3. next' \in 1 .. (MaxPublish + 1)
    BY <1>1, <1>3
  <2> QED BY <1>1, <2>2, <2>3 DEF IInv, RestOK, Ids, Seqs
<1>10. PlaceInv'
  <2>1. CASE ready' = ExpiredReady /\ next' = next
    BY <1>1, <1>2, <2>1, PlaceNext
  <2>2. CASE ready' = Append(ExpiredReady, new) /\ next' = next + 1
    <3>1. QueueOK(ready', inflight', dead')
      BY <1>1, <1>2, <1>7, <2>2 DEF QueueOK
    <3>2. 1 .. next' - 1 = (1 .. next - 1) \cup {next}
      BY <1>3, <2>2
    <3>3. next \notin 1 .. next - 1
      BY <1>3
    <3>4. Parted(SeqsOf(Entries(ready')), DOMAIN inflight', SeqsOf(dead'), acked', reported', next')
      BY <1>1, <1>2, <1>8, <2>2, <3>2, <3>3 DEF Parted
    <3> QED BY <3>1, <3>4, PlaceNext
  <2> QED BY <1>1, <2>1, <2>2
<1>11. LateInv'
  <2>1. \A s \in DOMAIN inflight' : inflight'[s].left # 0
    BY <1>1, ExpireKeeps
  <2>2. ASSUME NEW c \in claims
        PROVE  c.seq < next' /\ (c.seq \in SeqsOf(Entries(ready')) => c.seq \in late)
    <3>1. c.seq \in Nat /\ c.seq < next
      BY SeqsFinite DEF IInv, LateInv, RestOK
    <3>2. c.seq \in SeqsOf(Entries(ExpiredReady)) => c.seq \in late
      BY ExpireKeeps
    <3>3. CASE ready' = ExpiredReady /\ next' = next
      BY <3>1, <3>2, <3>3
    <3>4. CASE ready' = Append(ExpiredReady, new) /\ next' = next + 1
      <4>1. SeqsOf(Entries(ready')) = SeqsOf(Entries(ExpiredReady)) \cup {next}
        BY <1>8, <3>4
      <4>2. c.seq < next' /\ c.seq # next
        BY <1>3, <3>1, <3>4
      <4> QED BY <3>2, <4>1, <4>2
    <3> QED BY <1>1, <3>3, <3>4
  <2> QED BY <1>1, <2>1, <2>2, LateNext
<1>12. WithinAckPending'
  BY <1>1, <1>2, CapKeeps DEF IInv
<1>13. OneHolderUnlessLate'
  BY <1>1 DEF IInv, OneHolderUnlessLate
<1>14. Entries(ExpiredReady) \subseteq Entries(ready')
  BY <1>1, <1>7
<1>15. StepOK
  <2>1. Open(ExpiredReady, ExpiredInflight) \subseteq Open(ready', inflight')
    BY <1>1, <1>14 DEF Open
  <2>2. \A e \in Open(ready, inflight) : Fated(e)
    BY <1>1, <1>2, <2>1, ExpireKeeps DEF Fated
  <2>3. ASSUME next' # next PROVE next' = next + 1 /\ new \in Open(ready', inflight')
    <3>1. next' = next + 1 /\ ready' = Append(ExpiredReady, new)
      BY <1>1, <2>3
    <3>2. new \in Entries(ready')
      BY <1>7, <3>1
    <3> QED BY <3>1, <3>2 DEF Open
  <2> QED BY <1>1, <1>2, <1>3, <1>4, <2>2, <2>3 DEF StepOK
<1> QED BY <1>9, <1>10, <1>11, <1>12, <1>13, <1>15 DEF IInv

(* exhausted: expiry, and all that is dead is handed out at once. *)
LEMMA ExhaustedKeeps ==
  ASSUME IInv, Exhausted
  PROVE  IInv' /\ StepOK
<1>1. /\ ready' = ExpiredReady /\ inflight' = ExpiredInflight /\ dead' = {}
      /\ reported' = reported \cup SeqsOf(ExpiredDead)
      /\ seen' = seen /\ next' = next /\ claims' = claims /\ acked' = acked /\ late' = late
  BY DEF Exhausted, SeqsOf
<1>2. /\ QueueOK(ExpiredReady, ExpiredInflight, ExpiredDead)
      /\ DOMAIN ExpiredInflight = DOMAIN inflight \ Due
      /\ \A s \in DOMAIN ExpiredInflight : ExpiredInflight[s] = inflight[s]
      /\ SeqsOf(ExpiredDead) = SeqsOf(dead) \cup Spent
      /\ Parted(SeqsOf(Entries(ExpiredReady)), DOMAIN ExpiredInflight, SeqsOf(ExpiredDead),
                acked, reported, next)
  BY ExpireKeeps, Expires DEF IInv
<1>3. SeqsOf(dead') = {}
  BY <1>1 DEF SeqsOf
<1>4. RestOK'
  <2>1. SeqsOf(ExpiredDead) \subseteq Seqs
    BY <1>2 DEF QueueOK, SeqsOf, Entry
  <2> QED BY <1>1, <2>1 DEF IInv, RestOK, Ids, Seqs
<1>5. PlaceInv'
  <2>1. QueueOK(ready', inflight', dead')
    BY <1>1, <1>2 DEF QueueOK
  <2>2. Parted(SeqsOf(Entries(ready')), DOMAIN inflight', SeqsOf(dead'), acked', reported', next')
    BY <1>1, <1>2, <1>3 DEF Parted
  <2> QED BY <2>1, <2>2, PlaceNext
<1>6. LateInv'
  BY <1>1, ExpireKeeps, LateNext DEF IInv, LateInv
<1>7. WithinAckPending'
  BY <1>1, <1>2, CapKeeps DEF IInv
<1>8. OneHolderUnlessLate'
  BY <1>1 DEF IInv, OneHolderUnlessLate
<1>9. StepOK
  <2>1. \A e \in Open(ready, inflight) : Fated(e)
    BY <1>1, <1>2, ExpireKeeps DEF Fated
  <2> QED BY <1>1, <1>2, <2>1 DEF StepOK
<1> QED BY <1>4, <1>5, <1>6, <1>7, <1>8, <1>9 DEF IInv

(* A claim that is taken from the workers leaves the others as they were.         *)
LEMMA ClaimsKeep ==
  ASSUME OneHolderUnlessLate, claims' \subseteq claims, late \subseteq late'
  PROVE  OneHolderUnlessLate'
BY DEF OneHolderUnlessLate

(* A step that changes deadlines only, to ones that are past only where known.    *)
LEMMA DeadlinesKeep ==
  ASSUME IInv, DOMAIN inflight' = DOMAIN inflight,
         \A s \in DOMAIN inflight : inflight'[s] \in [entry : {inflight[s].entry}, left : 0 .. AckWait],
         \A s \in DOMAIN inflight : inflight'[s].left = 0 => s \in late',
         seen' \in [Ids -> 0 .. DupWindow], late \subseteq late', late' \subseteq Seqs,
         UNCHANGED <<ready, dead, next, claims, acked, reported>>
  PROVE  IInv' /\ StepOK
<1>1. \A s \in DOMAIN inflight : inflight'[s].entry = inflight[s].entry
  OBVIOUS
<1>2. QueueOK(ready, inflight, dead)
  BY DEF IInv, PlaceInv
<1>3. QueueOK(ready', inflight', dead')
  <2>1. \A s \in DOMAIN inflight :
          /\ inflight'[s] \in [entry : Entry, left : 0 .. AckWait]
          /\ inflight'[s].entry.seq = s /\ inflight'[s].entry.delivered >= 1
    BY <1>1, <1>2 DEF QueueOK
  <2> QED BY <1>2, <2>1 DEF QueueOK
<1>4. RestOK'
  BY DEF IInv, RestOK, Ids, Seqs
<1>5. PlaceInv'
  <2>1. Parted(SeqsOf(Entries(ready')), DOMAIN inflight', SeqsOf(dead'), acked', reported', next')
    BY DEF IInv, PlaceInv
  <2> QED BY <1>3, <2>1, PlaceNext
<1>6. LateInv'
  <2>1. \A c \in claims' : c.seq < next' /\ (c.seq \in SeqsOf(Entries(ready')) => c.seq \in late')
    BY DEF IInv, LateInv
  <2> QED BY <2>1, LateNext
<1>7. WithinAckPending'
  BY <1>1, CapKeeps DEF IInv
<1>8. OneHolderUnlessLate'
  BY ClaimsKeep DEF IInv
<1>9. StepOK
  <2>1. ASSUME NEW e \in Open(ready, inflight) PROVE e \in Open(ready', inflight')
    BY <1>1, <2>1 DEF Open
  <2> QED BY <2>1 DEF StepOK, Fated
<1> QED BY <1>4, <1>5, <1>6, <1>7, <1>8, <1>9 DEF IInv

(* progress: whoever sends it, the present delivery gets its full time again. *)
LEMMA ProgressKeeps ==
  ASSUME IInv, NEW c \in claims, Progress(c)
  PROVE  IInv' /\ StepOK
<1>1. AckWait \in Nat \ {0}
  BY QueueAssumption
<1>2. QueueOK(ready, inflight, dead)
  BY DEF IInv, PlaceInv
<1>3. /\ c.seq \in DOMAIN inflight
      /\ inflight' = [inflight EXCEPT ![c.seq] = [inflight[c.seq] EXCEPT !.left = AckWait]]
  BY Zenon DEF Progress
<1>4. DOMAIN inflight' = DOMAIN inflight
  BY <1>3
<1>5. ASSUME NEW s \in DOMAIN inflight
      PROVE  /\ inflight'[s] \in [entry : {inflight[s].entry}, left : 0 .. AckWait]
             /\ inflight'[s].left = 0 => inflight[s].left = 0
  <2>1. inflight[s] \in [entry : Entry, left : 0 .. AckWait]
    BY <1>2 DEF QueueOK
  <2>2. inflight'[s] = IF s = c.seq THEN [inflight[s] EXCEPT !.left = AckWait] ELSE inflight[s]
    BY <1>3
  <2> QED BY <1>1, <2>1, <2>2
<1>6. /\ seen' = seen /\ late' = late
      /\ UNCHANGED <<ready, dead, next, claims, acked, reported>>
  BY DEF Progress
<1>7. /\ seen' \in [Ids -> 0 .. DupWindow] /\ late' \subseteq Seqs
      /\ \A s \in DOMAIN inflight : inflight'[s].left = 0 => s \in late'
  BY <1>5, <1>6 DEF IInv, RestOK, LateInv
<1> QED BY <1>4, <1>5, <1>6, <1>7, DeadlinesKeep

(* Time passes: what meets its deadline now is late from now on. *)
LEMMA TickKeeps ==
  ASSUME IInv, Tick
  PROVE  IInv' /\ StepOK
<1>1. AckWait \in Nat /\ DupWindow \in Nat
  BY QueueAssumption
<1>2. QueueOK(ready, inflight, dead)
  BY DEF IInv, PlaceInv
<1>3. ASSUME NEW s \in DOMAIN inflight
      PROVE  /\ inflight'[s] \in [entry : {inflight[s].entry}, left : 0 .. AckWait]
             /\ inflight'[s].left = 0 => s \in late'
  <2>1. inflight[s] \in [entry : Entry, left : 0 .. AckWait]
    BY <1>2 DEF QueueOK
  <2>2. inflight'[s] = [inflight[s] EXCEPT !.left = IF @ > 0 THEN @ - 1 ELSE 0]
    BY DEF Tick
  <2>3. inflight'[s] = [entry |-> inflight[s].entry,
                        left |-> IF inflight[s].left > 0 THEN inflight[s].left - 1 ELSE 0]
    BY <2>1, <2>2
  <2>4. inflight[s].left \in 0 .. AckWait
    BY <2>1
  <2>5. inflight'[s] \in [entry : {inflight[s].entry}, left : 0 .. AckWait]
    BY <1>1, <2>3, <2>4
  <2>6. inflight'[s].left = 0 => inflight[s].left \in {0, 1}
    BY <1>1, <2>3, <2>4
  <2> QED BY <2>5, <2>6 DEF Tick, IInv, LateInv
<1>4. DOMAIN inflight' = DOMAIN inflight
  BY DEF Tick
<1>5. seen' \in [Ids -> 0 .. DupWindow]
  BY <1>1 DEF Tick, IInv, RestOK
<1>6. late \subseteq late' /\ late' \subseteq Seqs
  BY <1>2 DEF Tick, IInv, RestOK, QueueOK
<1>7. UNCHANGED <<ready, dead, next, claims, acked, reported>>
  BY DEF Tick
<1> QED BY <1>3, <1>4, <1>5, <1>6, <1>7, DeadlinesKeep

(* A worker that vanishes leaves the queue as it was. *)
LEMMA VanishKeeps ==
  ASSUME IInv, NEW c \in claims, Vanish(c)
  PROVE  IInv' /\ StepOK
<1>1. /\ claims' \subseteq claims
      /\ UNCHANGED <<seen, ready, inflight, dead, next, acked, reported, late>>
  BY DEF Vanish
<1>2. RestOK' /\ PlaceInv' /\ LateInv'
  <2>1. RestOK'
    BY <1>1 DEF IInv, RestOK, Ids, Seqs
  <2>2. PlaceInv'
    BY <1>1, PlaceNext DEF IInv, PlaceInv
  <2>3. LateInv'
    BY <1>1, LateNext DEF IInv, LateInv
  <2> QED BY <2>1, <2>2, <2>3
<1>3. WithinAckPending'
  BY <1>1, CapKeeps DEF IInv
<1>4. OneHolderUnlessLate'
  BY <1>1, ClaimsKeep DEF IInv
<1>5. StepOK
  BY <1>1 DEF StepOK, Fated
<1> QED BY <1>2, <1>3, <1>4, <1>5 DEF IInv

(* A number that moves from one place to another stays in one place.              *)
LEMMA PartedMoves ==
  ASSUME NEW R, NEW F, NEW D, NEW A, NEW P, NEW n, Parted(R, F, D, A, P, n), NEW s \in F
  PROVE  /\ Parted(R \cup {s}, F \ {s}, D, A, P, n)
         /\ Parted(R, F \ {s}, D, A \cup {s}, P, n)
<1>1. s \notin R /\ s \notin D /\ s \notin A /\ s \notin P
  BY DEF Parted
<1> QED BY <1>1 DEF Parted

(* An ack or a nak takes the entry of its sequence number out of inflight.        *)
LEMMA TakenOut ==
  ASSUME IInv, NEW s, inflight' = Without(inflight, {s})
  PROVE  /\ DOMAIN inflight' = DOMAIN inflight \ {s}
         /\ \A t \in DOMAIN inflight' : inflight'[t] = inflight[t]
         /\ \A t \in DOMAIN inflight' : inflight'[t].left = 0 => t \in late
         /\ \A q \in Seq(Entry) : Distinct(q) => QueueOK(q, inflight', dead)
         /\ WithinAckPending'
<1>1. /\ DOMAIN inflight' = DOMAIN inflight \ {s}
      /\ \A t \in DOMAIN inflight' : inflight'[t] = inflight[t]
  BY DEF Without
<1>2. \A t \in DOMAIN inflight' : inflight'[t].left = 0 => t \in late
  BY <1>1 DEF IInv, LateInv
<1>3. ASSUME NEW q \in Seq(Entry), Distinct(q) PROVE QueueOK(q, inflight', dead)
  BY <1>1, <1>3 DEF IInv, PlaceInv, QueueOK
<1>4. WithinAckPending'
  BY <1>1, CapKeeps DEF IInv
<1> QED BY <1>1, <1>2, <1>3, <1>4

(* ack: the entry is gone for good, if it was out. *)
LEMMA AckKeeps ==
  ASSUME IInv, NEW c \in claims, Ack(c)
  PROVE  IInv' /\ StepOK
<1>1. /\ claims' = claims \ {c} /\ inflight' = Without(inflight, {c.seq})
      /\ acked' = IF c.seq \in DOMAIN inflight THEN acked \cup {c.seq} ELSE acked
      /\ seen' = seen /\ ready' = ready /\ dead' = dead /\ next' = next
      /\ reported' = reported /\ late' = late
  BY DEF Ack
<1>2. /\ DOMAIN inflight' = DOMAIN inflight \ {c.seq}
      /\ \A t \in DOMAIN inflight' : inflight'[t] = inflight[t]
      /\ \A t \in DOMAIN inflight' : inflight'[t].left = 0 => t \in late
      /\ WithinAckPending'
  BY <1>1, TakenOut
<1>3. QueueOK(ready, inflight, dead)
  BY DEF IInv, PlaceInv
<1>4. QueueOK(ready', inflight', dead')
  BY <1>1, <1>3, TakenOut DEF QueueOK
<1>5. RestOK'
  <2>1. acked' \subseteq Seqs
    BY <1>1, <1>3 DEF IInv, RestOK, QueueOK
  <2> QED BY <1>1, <2>1 DEF IInv, RestOK, Ids, Seqs
<1>6. PlaceInv'
  <2>1. Parted(SeqsOf(Entries(ready')), DOMAIN inflight', SeqsOf(dead'), acked', reported', next')
    <3>1. Parted(SeqsOf(Entries(ready)), DOMAIN inflight, SeqsOf(dead), acked, reported, next)
      BY DEF IInv, PlaceInv
    <3>2. CASE c.seq \in DOMAIN inflight
      <4>1. Parted(SeqsOf(Entries(ready)), DOMAIN inflight \ {c.seq}, SeqsOf(dead),
                   acked \cup {c.seq}, reported, next)
        BY <3>1, <3>2, PartedMoves, Zenon
      <4>2. acked' = acked \cup {c.seq}
        BY <1>1, <3>2
      <4> QED BY <1>1, <1>2, <4>1, <4>2
    <3>3. CASE c.seq \notin DOMAIN inflight
      <4>1. DOMAIN inflight \ {c.seq} = DOMAIN inflight
        BY <3>3
      <4> QED BY <1>1, <1>2, <3>1, <3>3, <4>1
    <3> QED BY <3>2, <3>3
  <2> QED BY <1>4, <2>1, PlaceNext
<1>7. LateInv'
  BY <1>1, <1>2, LateNext DEF IInv, LateInv
<1>8. OneHolderUnlessLate'
  BY <1>1, ClaimsKeep DEF IInv
<1>9. StepOK
  <2>1. ASSUME NEW e \in Open(ready, inflight) PROVE Fated(e)
    <3>1. CASE e \in Entries(ready)
      BY <1>1, <3>1 DEF Fated, Open
    <3>2. ASSUME NEW s \in DOMAIN inflight, e = inflight[s].entry PROVE Fated(e)
      <4>1. CASE s = c.seq
        BY <1>1, <1>3, <3>2, <4>1 DEF Fated, QueueOK
      <4>2. CASE s # c.seq
        BY <1>2, <3>2, <4>2 DEF Fated, Open
      <4> QED BY <4>1, <4>2
    <3> QED BY <2>1, <3>1, <3>2 DEF Open
  <2> QED BY <1>1, <2>1 DEF StepOK
<1> QED BY <1>2, <1>5, <1>6, <1>7, <1>8, <1>9 DEF IInv

(* nak: the entry waits again, and nobody else holds it unless it is late. *)
LEMMA NakKeeps ==
  ASSUME IInv, NEW c \in claims, Nak(c)
  PROVE  IInv' /\ StepOK
<1> DEFINE e0 == inflight[c.seq].entry
<1>1. /\ claims' = claims \ {c} /\ inflight' = Without(inflight, {c.seq})
      /\ ready' = IF c.seq \in DOMAIN inflight THEN Append(ready, e0) ELSE ready
      /\ seen' = seen /\ acked' = acked /\ dead' = dead /\ next' = next
      /\ reported' = reported /\ late' = late
  BY DEF Nak
<1>2. /\ DOMAIN inflight' = DOMAIN inflight \ {c.seq}
      /\ \A t \in DOMAIN inflight' : inflight'[t] = inflight[t]
      /\ \A t \in DOMAIN inflight' : inflight'[t].left = 0 => t \in late
      /\ WithinAckPending'
  BY <1>1, TakenOut
<1>3. QueueOK(ready, inflight, dead) /\ ready \in Seq(Entry) /\ Distinct(ready)
  BY DEF IInv, PlaceInv, QueueOK
<1>4. Parted(SeqsOf(Entries(ready)), DOMAIN inflight, SeqsOf(dead), acked, reported, next)
  BY DEF IInv, PlaceInv
<1>5. ASSUME c.seq \in DOMAIN inflight
      PROVE  /\ ready' \in Seq(Entry) /\ Distinct(ready') /\ Entries(ready') = Entries(ready) \cup {e0}
             /\ SeqsOf(Entries(ready')) = SeqsOf(Entries(ready)) \cup {c.seq}
  <2>1. e0 \in Entry /\ e0.seq = c.seq
    BY <1>3, <1>5 DEF QueueOK
  <2>2. e0.seq \notin SeqsOf(Entries(ready))
    BY <1>4, <1>5, <2>1 DEF Parted
  <2> HIDE DEF e0
  <2>3. /\ Append(ready, e0) \in Seq(Entry) /\ Distinct(Append(ready, e0))
        /\ Entries(Append(ready, e0)) = Entries(ready) \cup {e0}
    BY <1>3, <2>1, <2>2, AppendIs
  <2>4. ready' = Append(ready, e0)
    BY <1>1, <1>5
  <2> QED BY <2>1, <2>3, <2>4 DEF SeqsOf
<1> HIDE DEF e0
<1>6. ready' \in Seq(Entry) /\ Distinct(ready') /\ Entries(ready) \subseteq Entries(ready')
  BY <1>1, <1>3, <1>5
<1>7. RestOK'
  BY <1>1 DEF IInv, RestOK, Ids, Seqs
<1>8. PlaceInv'
  <2>1. QueueOK(ready', inflight', dead')
    BY <1>1, <1>6, TakenOut
  <2>2. Parted(SeqsOf(Entries(ready')), DOMAIN inflight', SeqsOf(dead'), acked', reported', next')
    <3>1. CASE c.seq \in DOMAIN inflight
      <4>1. SeqsOf(Entries(ready')) = SeqsOf(Entries(ready)) \cup {c.seq}
        BY <1>5, <3>1
      <4>2. Parted(SeqsOf(Entries(ready)) \cup {c.seq}, DOMAIN inflight \ {c.seq}, SeqsOf(dead),
                   acked, reported, next)
        BY <1>4, <3>1, PartedMoves, Zenon
      <4> QED BY <1>1, <1>2, <4>1, <4>2
    <3>2. CASE c.seq \notin DOMAIN inflight
      BY <1>1, <1>2, <1>4, <3>2, ZenonT(30) DEF Parted
    <3> QED BY <3>1, <3>2
  <2> QED BY <2>1, <2>2, PlaceNext
<1>9. LateInv'
  <2>1. ASSUME NEW d \in claims'
        PROVE  d.seq < next' /\ (d.seq \in SeqsOf(Entries(ready')) => d.seq \in late')
    <3>1. d \in claims /\ d # c
      BY <1>1, <2>1
    <3>2. d.seq < next /\ (d.seq \in SeqsOf(Entries(ready)) => d.seq \in late)
      BY <3>1 DEF IInv, LateInv
    <3>3. d.seq = c.seq => c.seq \in late
      BY <3>1 DEF IInv, OneHolderUnlessLate
    <3>4. SeqsOf(Entries(ready')) \subseteq SeqsOf(Entries(ready)) \cup {c.seq}
      BY <1>1, <1>5
    <3> QED BY <1>1, <3>2, <3>3, <3>4
  <2> QED BY <1>1, <1>2, <2>1, LateNext
<1>10. OneHolderUnlessLate'
  BY <1>1, ClaimsKeep DEF IInv
<1>11. StepOK
  <2>1. ASSUME NEW e \in Open(ready, inflight) PROVE Fated(e)
    <3>1. CASE e \in Entries(ready)
      BY <1>6, <3>1 DEF Fated, Open
    <3>2. ASSUME NEW s \in DOMAIN inflight, e = inflight[s].entry PROVE Fated(e)
      <4>1. CASE s = c.seq
        BY <1>5, <3>2, <4>1 DEF Fated, Open, e0
      <4>2. CASE s # c.seq
        BY <1>2, <3>2, <4>2 DEF Fated, Open
      <4> QED BY <4>1, <4>2
    <3> QED BY <2>1, <3>1, <3>2 DEF Open
  <2> QED BY <1>1, <2>1 DEF StepOK
<1> QED BY <1>2, <1>7, <1>8, <1>9, <1>10, <1>11 DEF IInv

--------------------------------------------------------------------------------
(* pull. *)

(* No more entries are taken than there is room for: the last one taken has fewer  *)
(* than that before it.                                                           *)
LEMMA TakenFew ==
  ASSUME NEW q \in Seq(Entry), NEW c, NEW room \in Nat
  PROVE  /\ Taken(q, c, room) \subseteq DOMAIN q
         /\ \A i \in Taken(q, c, room) : CredOf[q[i].work] = c
         /\ IsFiniteSet(Taken(q, c, room)) /\ Cardinality(Taken(q, c, room)) \in 0 .. room
<1> DEFINE mine == {i \in DOMAIN q : CredOf[q[i].work] = c}
           Below(i) == {j \in mine : j < i}
           T == Taken(q, c, room)
           N == Cardinality(T)
<1>1. T = {i \in mine : Cardinality(Below(i)) < room}
  BY DEF Taken
<1>2. DOMAIN q \subseteq Nat /\ IsFiniteSet(DOMAIN q)
  <2>1. Len(q) \in Nat /\ DOMAIN q = 1 .. Len(q)
    BY LenProperties
  <2>2. IsFiniteSet(1 .. Len(q))
    BY <2>1, FS_Interval
  <2> QED BY <2>1, <2>2
<1>3. T \subseteq DOMAIN q /\ \A i \in T : CredOf[q[i].work] = c
  BY <1>1
<1>4. IsFiniteSet(T) /\ N \in Nat
  BY <1>2, <1>3, FS_Subset, FS_CardinalityType
<1>5. N <= room
  <2> SUFFICES ASSUME N > 0 PROVE N <= room
    BY <1>4
  <2> DEFINE m == Nth(T, N)
  <2>1. m \in T /\ Cardinality({j \in T : j <= m}) = N
    BY <1>2, <1>3, <1>4, NthIs
  <2> HIDE DEF m
  <2>2. {j \in T : j <= m} \in SUBSET T
    OBVIOUS
  <2>3. {j \in T : j <= m} = T
    BY <1>4, <2>1, <2>2, FS_Subset
  <2>4. m \in mine /\ Cardinality(Below(m)) < room /\ m \in Nat
    BY <1>1, <1>2, <2>1
  <2>5. T \in SUBSET (Below(m) \cup {m})
    BY <1>1, <1>2, <2>3, <2>4
  <2>6. Below(m) \in SUBSET (DOMAIN q) /\ m \notin Below(m)
    BY <2>4
  <2> HIDE DEF T, mine, Below
  <2>7. IsFiniteSet(Below(m)) /\ Cardinality(Below(m)) \in Nat
    BY <1>2, <2>6, FS_Subset, FS_CardinalityType
  <2>8. IsFiniteSet(Below(m) \cup {m}) /\ Cardinality(Below(m) \cup {m}) = Cardinality(Below(m)) + 1
    BY <2>6, <2>7, FS_AddElement
  <2>9. N <= Cardinality(Below(m) \cup {m})
    BY <2>5, <2>8, FS_Subset
  <2> HIDE DEF N
  <2> QED BY <1>4, <2>4, <2>7, <2>8, <2>9
<1> HIDE DEF T, N
<1> QED BY <1>3, <1>4, <1>5 DEF T, N

(* A delivery is the entry with its count one higher.                             *)
LEMMA DeliveryIs ==
  ASSUME NEW e \in Entry
  PROVE  /\ Delivery(e) \in Entry /\ Delivery(e).seq = e.seq /\ Delivery(e).work = e.work
         /\ Delivery(e).delivered = e.delivered + 1 /\ e.delivered \in Nat
BY DEF Delivery, Entry

(* A whole set of numbers that moves stays in one place.                          *)
LEMMA PartedShifts ==
  ASSUME NEW R, NEW F, NEW D, NEW A, NEW P, NEW n, Parted(R, F, D, A, P, n), NEW T \in SUBSET R
  PROVE  Parted(R \ T, F \cup T, D, A, P, n)
<1>1. \A s \in T : s \in R /\ s \notin F /\ s \notin D /\ s \notin A /\ s \notin P
  BY DEF Parted
<1>2. (R \ T) \cup (F \cup T) = R \cup F
  BY <1>1
<1>3. (R \ T) \cap (F \cup T) = {}
  BY <1>1 DEF Parted
<1> QED BY <1>2, <1>3 DEF Parted

(* What a pull takes and what it leaves. *)
LEMMA PullTakes ==
  ASSUME IInv, NEW c \in Creds, NEW max \in 1 .. MaxBatch, Pull(c, max)
  PROVE  \E taken \in SUBSET (DOMAIN ExpiredReady) :
           LET T == {ExpiredReady[i].seq : i \in taken} IN
           /\ \A i \in taken : CredOf[ExpiredReady[i].work] = c
           /\ IsFiniteSet(taken)
           /\ Cardinality(taken) + Cardinality(Held(ExpiredInflight, c)) <= MaxAckPending
           /\ ready' = At(ExpiredReady, DOMAIN ExpiredReady \ taken)
           /\ DOMAIN inflight' = DOMAIN ExpiredInflight \cup T
           /\ \A i \in taken :
                inflight'[ExpiredReady[i].seq] = [entry |-> Delivery(ExpiredReady[i]), left |-> AckWait]
           /\ \A s \in DOMAIN ExpiredInflight \ T : inflight'[s] = ExpiredInflight[s]
           /\ claims' = claims \cup {[seq |-> ExpiredReady[i].seq,
                                      delivered |-> ExpiredReady[i].delivered + 1] : i \in taken}
<1> DEFINE q == ExpiredReady
           fl == ExpiredInflight
           room == Room(fl, c, max)
           taken == Taken(q, c, room)
           out == {Delivery(q[i]) : i \in taken}
           outOf(s) == CHOOSE e \in out : e.seq = s
           T == {q[i].seq : i \in taken}
           held == Cardinality(Held(fl, c))
<1>1. /\ ready' = At(q, DOMAIN q \ taken)
      /\ inflight' = [s \in DOMAIN fl \cup {e.seq : e \in out} |->
                        IF s \in {e.seq : e \in out}
                          THEN [entry |-> outOf(s), left |-> AckWait] ELSE fl[s]]
      /\ claims' = claims \cup {[seq |-> e.seq, delivered |-> e.delivered] : e \in out}
  BY DEF Pull
<1>2. /\ q \in Seq(Entry) /\ Distinct(q) /\ DOMAIN fl = DOMAIN inflight \ Due
      /\ \A s \in DOMAIN fl : fl[s] = inflight[s]
      /\ DOMAIN inflight \subseteq Seqs
  BY ExpireKeeps, Expires DEF IInv, QueueOK, PlaceInv
<1>3. MaxAckPending \in Nat /\ max \in Nat
  BY QueueAssumption
<1>4. held \in Nat /\ held <= MaxAckPending
  <2>1. held \in Nat /\ Cardinality(Held(inflight, c)) \in Nat
        /\ held <= Cardinality(Held(inflight, c))
    BY <1>2, HeldShrinks
  <2>2. Cardinality(Held(inflight, c)) <= MaxAckPending
    BY DEF IInv, WithinAckPending
  <2> HIDE DEF held
  <2> QED BY <1>3, <2>1, <2>2
<1>5. room \in Nat /\ room + held <= MaxAckPending
  <2>1. room = LET left == IF held >= MaxAckPending THEN 0 ELSE MaxAckPending - held
               IN IF left < max THEN left ELSE max
    BY DEF Room
  <2> HIDE DEF room, held
  <2> QED BY <1>3, <1>4, <2>1
<1> HIDE DEF q, fl, room, held
<1>6. /\ taken \in SUBSET (DOMAIN q) /\ \A i \in taken : CredOf[q[i].work] = c
      /\ IsFiniteSet(taken) /\ Cardinality(taken) \in 0 .. room
  BY <1>2, <1>5, TakenFew
<1>7. Cardinality(taken) + held <= MaxAckPending
  BY <1>3, <1>4, <1>5, <1>6
<1> HIDE DEF taken
<1>8. \A i \in DOMAIN q : q[i] \in Entry
  BY <1>2, LenProperties, ElementOfSeq
<1>9. \A i \in taken : /\ Delivery(q[i]).seq = q[i].seq
                       /\ Delivery(q[i]).delivered = q[i].delivered + 1
  BY <1>6, <1>8, DeliveryIs
<1>10. {e.seq : e \in out} = T
  BY <1>9
<1>11. \A i \in taken : outOf(q[i].seq) = Delivery(q[i])
  <2> SUFFICES ASSUME NEW i \in taken PROVE outOf(q[i].seq) = Delivery(q[i])
    OBVIOUS
  <2>1. Delivery(q[i]) \in out /\ Delivery(q[i]).seq = q[i].seq
    BY <1>9
  <2>2. ASSUME NEW e \in out, e.seq = q[i].seq PROVE e = Delivery(q[i])
    <3>1. PICK j \in taken : e = Delivery(q[j])
      BY <2>2
    <3>2. q[j].seq = q[i].seq
      BY <1>9, <2>2, <3>1
    <3>3. i = j
      BY <1>2, <1>6, <3>2 DEF Distinct
    <3> QED BY <3>1, <3>3
  <2> HIDE DEF out
  <2> QED BY <2>1, <2>2
<1>12. {[seq |-> e.seq, delivered |-> e.delivered] : e \in out}
         = {[seq |-> q[i].seq, delivered |-> q[i].delivered + 1] : i \in taken}
  BY <1>9
<1> HIDE DEF out, outOf
<1>13. DOMAIN inflight' = DOMAIN fl \cup T
  BY <1>1, <1>10
<1>14. /\ \A i \in taken : inflight'[q[i].seq] = [entry |-> Delivery(q[i]), left |-> AckWait]
       /\ \A s \in DOMAIN fl \ T : inflight'[s] = fl[s]
  BY <1>1, <1>10, <1>11
<1> QED BY <1>1, <1>6, <1>7, <1>12, <1>13, <1>14 DEF q, fl, held

(* pull: what is taken is out with one more delivery, and no credential has more out
   than its cap. *)
LEMMA PullKeeps ==
  ASSUME IInv, NEW c \in Creds, NEW max \in 1 .. MaxBatch, Pull(c, max)
  PROVE  IInv' /\ StepOK
<1> DEFINE q == ExpiredReady
           fl == ExpiredInflight
<1>1. PICK taken \in SUBSET (DOMAIN q) :
        LET T == {q[i].seq : i \in taken} IN
        /\ \A i \in taken : CredOf[q[i].work] = c
        /\ IsFiniteSet(taken)
        /\ Cardinality(taken) + Cardinality(Held(fl, c)) <= MaxAckPending
        /\ ready' = At(q, DOMAIN q \ taken)
        /\ DOMAIN inflight' = DOMAIN fl \cup T
        /\ \A i \in taken : inflight'[q[i].seq] = [entry |-> Delivery(q[i]), left |-> AckWait]
        /\ \A s \in DOMAIN fl \ T : inflight'[s] = fl[s]
        /\ claims' = claims \cup {[seq |-> q[i].seq, delivered |-> q[i].delivered + 1] : i \in taken}
  BY PullTakes
<1> DEFINE T == {q[i].seq : i \in taken}
<1>2. /\ dead' = ExpiredDead /\ seen' = seen /\ next' = next /\ acked' = acked
      /\ reported' = reported /\ late' = late
  BY DEF Pull
<1>3. /\ QueueOK(q, fl, ExpiredDead) /\ q \in Seq(Entry) /\ Distinct(q)
      /\ DOMAIN fl = DOMAIN inflight \ Due /\ DOMAIN fl \subseteq Seqs
      /\ \A s \in DOMAIN fl : fl[s] = inflight[s]
      /\ SeqsOf(ExpiredDead) = SeqsOf(dead) \cup Spent
      /\ Parted(SeqsOf(Entries(q)), DOMAIN fl, SeqsOf(ExpiredDead), acked, reported, next)
  BY ExpireKeeps, Expires DEF IInv, QueueOK
<1>4. /\ \A a \in claims : a.seq \in SeqsOf(Entries(q)) => a.seq \in late
      /\ \A s \in DOMAIN fl : fl[s].left # 0
      /\ \A e \in Open(ready, inflight) :
           e \in Open(q, fl) \/ (e.delivered >= MaxDeliver /\ e.seq \in Spent)
  BY ExpireKeeps
<1> HIDE DEF q, fl
<1>5. AckWait \in Nat \ {0}
  BY QueueAssumption
<1>6. /\ \A i \in DOMAIN q : q[i] \in Entry /\ q[i].seq \in Seqs /\ q[i].delivered \in Nat
      /\ \A i \in DOMAIN q : /\ Delivery(q[i]) \in Entry /\ Delivery(q[i]).seq = q[i].seq
                             /\ Delivery(q[i]).work = q[i].work
                             /\ Delivery(q[i]).delivered = q[i].delivered + 1
  <2>1. \A i \in DOMAIN q : q[i] \in Entry
    BY <1>3, LenProperties, ElementOfSeq
  <2>2. \A i \in DOMAIN q : q[i].seq \in Seqs /\ q[i].delivered \in Nat
    BY <2>1 DEF Entry
  <2> QED BY <2>1, <2>2, DeliveryIs
<1>7. T \subseteq SeqsOf(Entries(q)) /\ T \subseteq Seqs
  BY <1>6 DEF SeqsOf, Entries
<1>8. T \cap DOMAIN fl = {}
  BY <1>3, <1>7 DEF Parted
<1>9. /\ ready' \in Seq(Entry) /\ Distinct(ready')
      /\ Entries(ready') = {q[i] : i \in DOMAIN q \ taken}
  BY <1>1, <1>3, AtIs
<1>10. SeqsOf(Entries(ready')) = SeqsOf(Entries(q)) \ T
  <2>1. ASSUME NEW i \in DOMAIN q \ taken PROVE q[i].seq \notin T
    BY <1>3, <2>1 DEF Distinct
  <2>2. SeqsOf(Entries(ready')) = {q[i].seq : i \in DOMAIN q \ taken}
    BY <1>9 DEF SeqsOf
  <2>3. SeqsOf(Entries(q)) = {q[i].seq : i \in DOMAIN q}
    BY DEF SeqsOf, Entries
  <2> QED BY <2>1, <2>2, <2>3
<1>11. /\ DOMAIN inflight' = DOMAIN fl \cup T
       /\ \A i \in taken : inflight'[q[i].seq] = [entry |-> Delivery(q[i]), left |-> AckWait]
       /\ \A s \in DOMAIN fl : inflight'[s] = fl[s]
  BY <1>1, <1>8
<1>a. ASSUME NEW i \in taken
      PROVE  /\ q[i].seq \in DOMAIN inflight' /\ i \in DOMAIN q
             /\ inflight'[q[i].seq] = [entry |-> Delivery(q[i]), left |-> AckWait]
             /\ inflight'[q[i].seq].entry = Delivery(q[i]) /\ inflight'[q[i].seq].left = AckWait
  <2>1. q[i].seq \in T /\ i \in DOMAIN q
    BY <1>1
  <2>2. inflight'[q[i].seq] = [entry |-> Delivery(q[i]), left |-> AckWait]
    BY <1>11
  <2> QED BY <1>11, <2>1, <2>2
<1>12. RestOK'
  <2>1. claims' \subseteq [seq : Seqs, delivered : Nat]
    BY <1>1, <1>6 DEF IInv, RestOK
  <2> QED BY <1>2, <2>1 DEF IInv, RestOK, Ids, Seqs
<1>13. PlaceInv'
  <2>1. ASSUME NEW s \in DOMAIN inflight'
        PROVE  /\ inflight'[s] \in [entry : Entry, left : 0 .. AckWait]
               /\ inflight'[s].entry.seq = s /\ inflight'[s].entry.delivered >= 1
    <3>1. CASE s \in DOMAIN fl
      BY <1>3, <1>11, <3>1 DEF QueueOK
    <3>2. ASSUME NEW i \in taken, s = q[i].seq
          PROVE  /\ inflight'[s] \in [entry : Entry, left : 0 .. AckWait]
                 /\ inflight'[s].entry.seq = s /\ inflight'[s].entry.delivered >= 1
      <4>1. i \in DOMAIN q /\ inflight'[s] = [entry |-> Delivery(q[i]), left |-> AckWait]
            /\ inflight'[s].entry = Delivery(q[i])
        BY <1>a, <3>2
      <4>2. Delivery(q[i]) \in Entry /\ Delivery(q[i]).seq = s /\ Delivery(q[i]).delivered >= 1
        BY <1>6, <3>2, <4>1
      <4> QED BY <1>5, <4>1, <4>2
    <3> QED BY <1>11, <2>1, <3>1, <3>2
  <2>2. QueueOK(ready', inflight', dead')
    BY <1>2, <1>3, <1>7, <1>9, <1>11, <2>1 DEF QueueOK
  <2>3. Parted(SeqsOf(Entries(q)) \ T, DOMAIN fl \cup T, SeqsOf(ExpiredDead), acked, reported, next)
    BY <1>3, <1>7, PartedShifts
  <2>4. Parted(SeqsOf(Entries(ready')), DOMAIN inflight', SeqsOf(dead'), acked', reported', next')
    BY <1>2, <1>10, <1>11, <2>3
  <2> QED BY <2>2, <2>4, PlaceNext
<1>14. ASSUME NEW a \in claims'
       PROVE  a \in claims \/ \E i \in taken :
                a = [seq |-> q[i].seq, delivered |-> q[i].delivered + 1]
  BY <1>1, <1>14
<1>15. LateInv'
  <2>1. ASSUME NEW s \in DOMAIN inflight' PROVE inflight'[s].left # 0
    <3>1. CASE s \in DOMAIN fl
      BY <1>4, <1>11, <3>1
    <3>2. ASSUME NEW i \in taken, s = q[i].seq PROVE inflight'[s].left # 0
      BY <1>5, <1>a, <3>2
    <3> QED BY <1>11, <2>1, <3>1, <3>2
  <2>2. ASSUME NEW a \in claims'
        PROVE  a.seq < next' /\ (a.seq \in SeqsOf(Entries(ready')) => a.seq \in late')
    <3>1. CASE a \in claims
      BY <1>2, <1>4, <1>10, <3>1 DEF IInv, LateInv
    <3>2. ASSUME NEW i \in taken, a = [seq |-> q[i].seq, delivered |-> q[i].delivered + 1]
          PROVE  a.seq < next' /\ a.seq \notin SeqsOf(Entries(ready'))
      <4>1. a.seq \in T
        BY <3>2
      <4>2. a.seq \in 1 .. next - 1 /\ next \in Nat
        BY <1>3, <1>7, <4>1, ExpireKeeps DEF Parted
      <4> QED BY <1>2, <1>10, <4>1, <4>2
    <3> QED BY <1>14, <2>2, <3>1, <3>2
  <2> QED BY <2>1, <2>2, LateNext
<1>16. WithinAckPending'
  <2>1. ASSUME NEW d \in Creds PROVE Cardinality(Held(inflight', d)) <= MaxAckPending
    <3>0. MaxAckPending \in Nat
      BY QueueAssumption
    <3>1. /\ IsFiniteSet(Held(fl, d)) /\ Cardinality(Held(fl, d)) \in Nat
          /\ Cardinality(Held(fl, d)) <= MaxAckPending
      <4>1. /\ IsFiniteSet(Held(fl, d)) /\ Cardinality(Held(fl, d)) \in Nat
            /\ Cardinality(Held(inflight, d)) \in Nat
            /\ Cardinality(Held(fl, d)) <= Cardinality(Held(inflight, d))
        BY <1>3, HeldShrinks DEF IInv, PlaceInv, QueueOK
      <4>2. Cardinality(Held(inflight, d)) <= MaxAckPending
        BY DEF IInv, WithinAckPending
      <4> QED BY <3>0, <4>1, <4>2
    <3>2. CASE d # c
      <4>1. Held(inflight', d) \in SUBSET Held(fl, d)
        <5> SUFFICES ASSUME NEW s \in Held(inflight', d) PROVE s \in Held(fl, d)
          OBVIOUS
        <5>1. s \in DOMAIN fl \cup T /\ CredOf[inflight'[s].entry.work] = d
          BY <1>11 DEF Held
        <5>2. CASE s \in DOMAIN fl
          BY <1>11, <5>1, <5>2 DEF Held
        <5>3. ASSUME NEW i \in taken, s = q[i].seq PROVE FALSE
          <6>1. i \in DOMAIN q /\ inflight'[s].entry.work = q[i].work
            BY <1>6, <1>a, <5>3
          <6> QED BY <1>1, <3>2, <5>1, <6>1
        <5> QED BY <5>1, <5>2, <5>3
      <4> QED BY <3>0, <3>1, <4>1, FS_Subset, FS_CardinalityType
    <3>3. CASE d = c
      <4>1. Held(inflight', c) \in SUBSET (Held(fl, c) \cup T)
        <5> SUFFICES ASSUME NEW s \in Held(inflight', c), s \notin T PROVE s \in Held(fl, c)
          OBVIOUS
        <5> QED BY <1>11 DEF Held
      <4>2. IsFiniteSet(T) /\ Cardinality(T) \in Nat /\ Cardinality(T) <= Cardinality(taken)
            /\ Cardinality(taken) \in Nat
        <5> DEFINE f == [i \in taken |-> q[i].seq]
        <5>1. f \in Surjection(taken, T)
          BY DEF Surjection
        <5> HIDE DEF f, T
        <5>2. IsFiniteSet(T) /\ Cardinality(T) <= Cardinality(taken)
          BY <1>1, <5>1, FS_Surjection
        <5> QED BY <1>1, <5>2, FS_CardinalityType
      <4> HIDE DEF T
      <4> DEFINE both == Held(fl, c) \cup T
                 common == Held(fl, c) \cap T
      <4>3. /\ IsFiniteSet(both)
            /\ Cardinality(both) = Cardinality(Held(fl, c)) + Cardinality(T) - Cardinality(common)
        BY <3>1, <3>3, <4>2, FS_Union
      <4>4. Cardinality(common) \in Nat
        BY <3>1, <3>3, FS_Intersection, FS_CardinalityType
      <4>5. IsFiniteSet(Held(inflight', c)) /\ Cardinality(Held(inflight', c)) <= Cardinality(both)
        BY <4>1, <4>3, FS_Subset
      <4>6. Cardinality(Held(inflight', c)) \in Nat
        BY <4>5, FS_CardinalityType
      <4>7. Cardinality(taken) + Cardinality(Held(fl, c)) <= MaxAckPending
        BY <1>1
      <4> HIDE DEF both, common
      <4> QED BY <3>0, <3>1, <3>3, <4>2, <4>3, <4>4, <4>5, <4>6, <4>7
    <3> QED BY <3>2, <3>3
  <2>2. Creds' = Creds /\ \A d \in Creds : Held(inflight, d)' = Held(inflight', d)
    BY DEF Creds, Held
  <2> QED BY <2>1, <2>2, Zenon DEF WithinAckPending
<1>17. OneHolderUnlessLate'
  <2> SUFFICES ASSUME NEW a \in claims', NEW b \in claims', a.seq = b.seq, a.seq \notin late
               PROVE  a = b
    BY <1>2 DEF OneHolderUnlessLate
  <2>1. CASE a \in claims /\ b \in claims
    BY <2>1 DEF IInv, OneHolderUnlessLate
  <2>2. ASSUME NEW x \in claims, NEW i \in taken, x.seq = q[i].seq, x.seq \notin late PROVE FALSE
    BY <1>4, <1>7, <2>2
  <2>3. ASSUME NEW i \in taken, NEW j \in taken, q[i].seq = q[j].seq PROVE i = j
    BY <1>3, <2>3 DEF Distinct
  <2>4. ASSUME NEW i \in taken, a = [seq |-> q[i].seq, delivered |-> q[i].delivered + 1]
        PROVE  a = b
    <3>1. b \notin claims
      BY <2>2, <2>4
    <3>2. PICK j \in taken : b = [seq |-> q[j].seq, delivered |-> q[j].delivered + 1]
      BY <1>14, <3>1
    <3> QED BY <2>3, <2>4, <3>2
  <2>5. ASSUME NEW i \in taken, b = [seq |-> q[i].seq, delivered |-> q[i].delivered + 1],
               a \in claims
        PROVE  FALSE
    BY <2>2, <2>5
  <2> QED BY <1>14, <2>1, <2>4, <2>5
<1>18. StepOK
  <2>1. ASSUME NEW e \in Open(ready, inflight) PROVE Fated(e)
    <3>1. CASE e.delivered >= MaxDeliver /\ e.seq \in Spent
      BY <1>2, <1>3, <3>1 DEF Fated
    <3>2. ASSUME NEW s \in DOMAIN fl, e = fl[s].entry PROVE Fated(e)
      <4>1. s \in DOMAIN inflight' /\ inflight'[s].entry = e
        BY <1>11, <3>2
      <4> QED BY <4>1 DEF Fated, Open
    <3>3. ASSUME NEW i \in DOMAIN q, e = q[i] PROVE Fated(e)
      <4>1. CASE i \in taken
        <5>1. q[i].seq \in DOMAIN inflight' /\ inflight'[q[i].seq].entry = Delivery(e)
          BY <1>a, <3>3, <4>1
        <5> QED BY <5>1 DEF Fated, Open
      <4>2. CASE i \notin taken
        BY <1>9, <3>3, <4>2 DEF Fated, Open
      <4> QED BY <4>1, <4>2
    <3> QED BY <1>4, <2>1, <3>1, <3>2, <3>3 DEF Open, Entries
  <2> QED BY <1>2, <1>3, <2>1 DEF StepOK
<1> QED BY <1>12, <1>13, <1>15, <1>16, <1>17, <1>18 DEF IInv

--------------------------------------------------------------------------------
(* The initial states satisfy the inductive invariant. *)
LEMMA InitHolds == Init => IInv
<1> SUFFICES ASSUME Init PROVE IInv
  OBVIOUS
<1>1. /\ seen = [id \in Ids |-> 0] /\ ready = <<>> /\ inflight = <<>> /\ dead = {} /\ next = 1
      /\ claims = {} /\ acked = {} /\ reported = {} /\ late = {}
  BY DEF Init
<1>2. {MaxPublish, DupWindow, MaxAckPending} \subseteq Nat
  BY QueueAssumption
<1>3. DOMAIN ready = {} /\ DOMAIN inflight = {} /\ ready \in Seq(Entry)
  BY <1>1, EmptySeq
<1>4. SeqsOf(Entries(ready)) = {} /\ SeqsOf(dead) = {} /\ Distinct(ready)
  BY <1>1, <1>3 DEF SeqsOf, Entries, Distinct
<1>5. RestOK
  BY <1>1, <1>2 DEF RestOK
<1>6. PlaceInv
  <2>1. 1 .. next - 1 = {}
    BY <1>1
  <2> QED BY <1>1, <1>3, <1>4, <2>1 DEF PlaceInv, QueueOK, Parted
<1>7. LateInv /\ OneHolderUnlessLate
  BY <1>1, <1>3 DEF LateInv, OneHolderUnlessLate
<1>8. WithinAckPending
  <2>1. ASSUME NEW c \in Creds PROVE Held(inflight, c) = {}
    BY <1>3 DEF Held
  <2>2. Cardinality({}) <= MaxAckPending
    BY <1>2, FS_EmptySet
  <2> QED BY <2>1, <2>2, Zenon DEF WithinAckPending
<1> QED BY <1>5, <1>6, <1>7, <1>8 DEF IInv

(* Every step keeps the inductive invariant and moves work only as Fated says.    *)
LEMMA NextKeeps ==
  ASSUME IInv, Next
  PROVE  IInv' /\ StepOK
<1>1. ASSUME NEW w \in Works, Publish(w) PROVE IInv' /\ StepOK
  BY <1>1, PublishKeeps
<1>2. ASSUME NEW c \in Creds, NEW max \in 1 .. MaxBatch, Pull(c, max) PROVE IInv' /\ StepOK
  BY <1>2, PullKeeps
<1>3. CASE Exhausted
  BY <1>3, ExhaustedKeeps
<1>4. ASSUME NEW c \in claims, Progress(c) \/ Ack(c) \/ Nak(c) \/ Vanish(c)
      PROVE  IInv' /\ StepOK
  BY <1>4, ProgressKeeps, AckKeeps, NakKeeps, VanishKeeps
<1>5. CASE Tick
  BY <1>5, TickKeeps
<1> QED BY <1>1, <1>2, <1>3, <1>4, <1>5 DEF Next

(* A step that changes nothing keeps the invariant. *)
LEMMA StutterKeeps ==
  ASSUME IInv, UNCHANGED vars
  PROVE  IInv'
<1>1. RestOK'
  BY DEF IInv, RestOK, vars, Ids, Seqs
<1>2. PlaceInv'
  BY PlaceNext DEF IInv, PlaceInv, vars
<1>3. LateInv'
  BY LateNext DEF IInv, LateInv, vars
<1>4. WithinAckPending'
  BY CapKeeps DEF IInv, vars
<1>5. OneHolderUnlessLate'
  BY ClaimsKeep DEF IInv, vars
<1> QED BY <1>1, <1>2, <1>3, <1>4, <1>5 DEF IInv

(* The inductive invariant holds in every reachable state. *)
THEOREM InductiveInvariant == Spec => []IInv
<1>1. IInv /\ [Next]_vars => IInv'
  BY NextKeeps, StutterKeeps
<1> QED BY <1>1, InitHolds, PTL DEF Spec

(* Entries sit under their own number with a deadline within ack_wait, and ids are
   remembered no longer than the duplicate window (State in leaf_queue.rs). *)
THEOREM TypeCorrect == Spec => []TypeOK
<1>1. IInv => TypeOK
  BY DEF IInv, RestOK, PlaceInv, QueueOK, TypeOK
<1> QED BY <1>1, InductiveInvariant, PTL

(* No credential has more entries out than max_ack_pending, whatever expires, is naked or
   is redelivered (InProcessQueue::pull). *)
THEOREM WithinAckPendingCorrect == Spec => []WithinAckPending
<1>1. IInv => WithinAckPending
  BY DEF IInv
<1> QED BY <1>1, InductiveInvariant, PTL

(* Two workers hold the same piece of work only if one of its deliveries overran its
   deadline (pull, Claim::ack, Claim::nak, State::expire). *)
THEOREM OneHolderUnlessLateCorrect == Spec => []OneHolderUnlessLate
<1>1. IInv => OneHolderUnlessLate
  BY DEF IInv
<1> QED BY <1>1, InductiveInvariant, PTL

--------------------------------------------------------------------------------
(* The refinement. *)

(* What AtLeastOnce sees of the work. *)
FateFacts ==
  \A s \in Seqs :
    /\ s >= next => FateOf(s) = "none" /\ TriesOf(s) = 0
    /\ s \in acked => FateOf(s) = "done" /\ TriesOf(s) = 0
    /\ s \in reported => FateOf(s) = "reported" /\ TriesOf(s) = 0
    /\ s \in SeqsOf(dead) => FateOf(s) = "failed" /\ TriesOf(s) = 0
    /\ \A e \in Open(ready, inflight) :
         e.seq = s => FateOf(s) = "open" /\ TriesOf(s) = e.delivered

(* While the invariant holds, where a number is decides its fate, and its entry the tries. *)
LEMMA FatesKnown == IInv => FateFacts
<1> SUFFICES ASSUME IInv, NEW s \in Seqs
             PROVE  /\ s >= next => FateOf(s) = "none" /\ TriesOf(s) = 0
                    /\ s \in acked => FateOf(s) = "done" /\ TriesOf(s) = 0
                    /\ s \in reported => FateOf(s) = "reported" /\ TriesOf(s) = 0
                    /\ s \in SeqsOf(dead) => FateOf(s) = "failed" /\ TriesOf(s) = 0
                    /\ \A e \in Open(ready, inflight) :
                         e.seq = s => FateOf(s) = "open" /\ TriesOf(s) = e.delivered
  BY DEF FateFacts
<1>1. /\ QueueOK(ready, inflight, dead)
      /\ Parted(SeqsOf(Entries(ready)), DOMAIN inflight, SeqsOf(dead), acked, reported, next)
      /\ next \in Nat /\ s \in Nat
  BY SeqsFinite DEF IInv, PlaceInv, RestOK
<1>2. InReady = SeqsOf(Entries(ready)) /\ InDead = SeqsOf(dead)
  BY DEF InReady, InDead, SeqsOf, Entries
<1> DEFINE R == InReady
           F == DOMAIN inflight
           D == InDead
<1>3. /\ R \cap F = {} /\ (R \cup F) \cap D = {} /\ (R \cup F \cup D) \cap acked = {}
      /\ (R \cup F \cup D \cup acked) \cap reported = {}
      /\ R \cup F \cup D \cup acked \cup reported = 1 .. next - 1
  BY <1>1, <1>2 DEF Parted
<1>4. /\ \A i, j \in DOMAIN ready : ready[i].seq = ready[j].seq => i = j
      /\ \A d, e \in dead : d.seq = e.seq => d = e
  BY <1>1 DEF QueueOK, Distinct
<1> DEFINE A1 == {<<"ready", i>> : i \in {i \in DOMAIN ready : ready[i].seq = s}}
           A2 == {<<"dead", e>> : e \in {e \in dead : e.seq = s}}
           A3 == {<<"inflight", t>> : t \in DOMAIN inflight \cap {s}}
           A4 == {<<"acked", t>> : t \in acked \cap {s}}
           A5 == {<<"reported", t>> : t \in reported \cap {s}}
<1>5. EntriesOf(s) = A1 \cup A2 \cup A3 \cup A4 \cup A5
  BY DEF EntriesOf
<1>6. /\ s \notin R => A1 = {}
      /\ s \notin D => A2 = {}
      /\ s \notin F => A3 = {}
      /\ s \notin acked => A4 = {}
      /\ s \notin reported => A5 = {}
  BY DEF InReady, InDead
<1>7. ASSUME s \in R PROVE \E x : A1 = {x}
  <2>1. PICK i \in DOMAIN ready : ready[i].seq = s
    BY <1>7 DEF InReady
  <2>2. A1 = {<<"ready", i>>}
    BY <1>4, <2>1
  <2> QED BY <2>2
<1>8. ASSUME s \in D PROVE \E x : A2 = {x}
  <2>1. PICK e \in dead : e.seq = s
    BY <1>8 DEF InDead
  <2>2. A2 = {<<"dead", e>>}
    BY <1>4, <2>1
  <2> QED BY <2>2
<1>9. /\ s \in F => A3 = {<<"inflight", s>>}
      /\ s \in acked => A4 = {<<"acked", s>>}
      /\ s \in reported => A5 = {<<"reported", s>>}
  OBVIOUS
<1> HIDE DEF A1, A2, A3, A4, A5
<1>10. ASSUME s \in R \cup F \cup D \cup acked \cup reported PROVE Cardinality(EntriesOf(s)) = 1
  <2>1. \E x : EntriesOf(s) = {x}
    <3>1. CASE s \in R
      BY <1>3, <1>5, <1>6, <1>7, <3>1
    <3>2. CASE s \in F
      BY <1>3, <1>5, <1>6, <1>9, <3>2
    <3>3. CASE s \in D
      BY <1>3, <1>5, <1>6, <1>8, <3>3
    <3>4. CASE s \in acked
      BY <1>3, <1>5, <1>6, <1>9, <3>4
    <3>5. CASE s \in reported
      BY <1>3, <1>5, <1>6, <1>9, <3>5
    <3> QED BY <1>10, <3>1, <3>2, <3>3, <3>4, <3>5
  <2> QED BY <2>1, FS_Singleton
<1>11. s \in R \cup F \cup D \cup acked \cup reported <=> s < next
  BY <1>1, <1>3 DEF Seqs
<1>12. ASSUME s < next
       PROVE  FateOf(s) = CASE s \in acked -> "done"
                            [] s \in reported -> "reported"
                            [] s \in InDead -> "failed"
                            [] s \in InReady \cup DOMAIN inflight -> "open"
  <2>1. Cardinality(EntriesOf(s)) = 1 /\ ~(s >= next)
    BY <1>1, <1>10, <1>11, <1>12
  <2> QED BY <1>12, <2>1 DEF FateOf
<1>13. s >= next => FateOf(s) = "none" /\ TriesOf(s) = 0
  <2> SUFFICES ASSUME s >= next PROVE FateOf(s) = "none" /\ TriesOf(s) = 0
    OBVIOUS
  <2>1. ~(s < next) /\ s \notin R /\ s \notin F
    BY <1>1, <1>11
  <2> QED BY <2>1 DEF FateOf, TriesOf
<1>14. /\ s \in acked => FateOf(s) = "done" /\ TriesOf(s) = 0
       /\ s \in reported => FateOf(s) = "reported" /\ TriesOf(s) = 0
       /\ s \in D => FateOf(s) = "failed" /\ TriesOf(s) = 0
  BY <1>3, <1>11, <1>12 DEF TriesOf
<1>15. s \in R \cup F => FateOf(s) = "open"
  BY <1>3, <1>11, <1>12
<1>16. ASSUME NEW e \in Open(ready, inflight), e.seq = s
       PROVE  s \in R \cup F /\ TriesOf(s) = e.delivered
  <2>1. ASSUME NEW t \in F, e = inflight[t].entry PROVE s \in R \cup F /\ TriesOf(s) = e.delivered
    <3>1. t = s
      BY <1>1, <1>16, <2>1 DEF QueueOK
    <3> QED BY <2>1, <3>1 DEF TriesOf
  <2>2. ASSUME NEW i \in DOMAIN ready, e = ready[i] PROVE s \in R \cup F /\ TriesOf(s) = e.delivered
    <3>1. s \in R
      BY <1>16, <2>2 DEF InReady
    <3>2. s \notin F
      BY <1>3, <3>1
    <3>3. (CHOOSE j \in DOMAIN ready : ready[j].seq = s) = i
      BY <1>4, <1>16, <2>2
    <3> QED BY <2>2, <3>1, <3>2, <3>3 DEF TriesOf
  <2> QED BY <1>16, <2>1, <2>2 DEF Open, Entries
<1> QED BY <1>2, <1>13, <1>14, <1>15, <1>16

(* The same of the next state. *)
LEMMA FatesKnownNext == IInv' => FateFacts'
BY FatesKnown, PTL

(* Each sequence number not given out, in one of the places, or of an open entry.  *)
LEMMA Somewhere ==
  ASSUME IInv, NEW s \in Seqs
  PROVE  \/ s >= next \/ s \in acked \/ s \in reported \/ s \in SeqsOf(dead)
         \/ \E e \in Open(ready, inflight) : e.seq = s
<1>1. /\ QueueOK(ready, inflight, dead)
      /\ Parted(SeqsOf(Entries(ready)), DOMAIN inflight, SeqsOf(dead), acked, reported, next)
      /\ next \in Nat /\ s \in Nat
  BY SeqsFinite DEF IInv, PlaceInv, RestOK
<1>2. CASE s \in SeqsOf(Entries(ready))
  BY <1>2 DEF SeqsOf, Open
<1>3. CASE s \in DOMAIN inflight
  <2>1. inflight[s].entry \in Open(ready, inflight) /\ inflight[s].entry.seq = s
    BY <1>1, <1>3 DEF QueueOK, Open
  <2> QED BY <2>1
<1>4. s < next => s \in 1 .. next - 1
  BY <1>1 DEF Seqs
<1> QED BY <1>1, <1>2, <1>3, <1>4 DEF Parted

(* The fate of one sequence number in one step: a step of AtLeastOnce for it.      *)
LEMMA OneFate ==
  ASSUME IInv, IInv', StepOK, NEW s \in Seqs
  PROVE  /\ \/ FateOf(s)' = FateOf(s) /\ TriesOf(s)' = TriesOf(s)
            \/ FateOf(s) = "none" /\ FateOf(s)' = "open" /\ TriesOf(s)' = 0
            \/ FateOf(s) = "open" /\ FateOf(s)' = "open" /\ TriesOf(s)' = TriesOf(s) + 1
            \/ FateOf(s) = "open" /\ TriesOf(s) > 0 /\ FateOf(s)' = "done" /\ TriesOf(s)' = 0
            \/ /\ FateOf(s) = "open" /\ TriesOf(s) >= MaxDeliver
               /\ FateOf(s)' \in {"failed", "reported"} /\ TriesOf(s)' = 0
            \/ FateOf(s) = "failed" /\ FateOf(s)' = "reported" /\ TriesOf(s)' = 0
         /\ FateOf(s)' \in {"none", "open", "done", "failed", "reported"}
         /\ FateOf(s) = "none" /\ FateOf(s)' = "open" => s = next
         /\ FateOf(s) = "open" /\ FateOf(s)' = "done" => s \in acked' \ acked
<1>1. FateFacts /\ FateFacts' /\ s \in Seqs'
  BY FatesKnown, FatesKnownNext DEF Seqs
<1>2. /\ s >= next => FateOf(s) = "none" /\ TriesOf(s) = 0
      /\ s \in acked => FateOf(s) = "done" /\ TriesOf(s) = 0
      /\ s \in reported => FateOf(s) = "reported" /\ TriesOf(s) = 0
      /\ s \in SeqsOf(dead) => FateOf(s) = "failed" /\ TriesOf(s) = 0
      /\ \A e \in Open(ready, inflight) :
           e.seq = s => FateOf(s) = "open" /\ TriesOf(s) = e.delivered
  BY <1>1 DEF FateFacts
<1>3. /\ s >= next' => FateOf(s)' = "none" /\ TriesOf(s)' = 0
      /\ s \in acked' => FateOf(s)' = "done" /\ TriesOf(s)' = 0
      /\ s \in reported' => FateOf(s)' = "reported" /\ TriesOf(s)' = 0
      /\ s \in SeqsOf(dead') => FateOf(s)' = "failed" /\ TriesOf(s)' = 0
      /\ \A e \in Open(ready', inflight') :
           e.seq = s => FateOf(s)' = "open" /\ TriesOf(s)' = e.delivered
  BY <1>1 DEF FateFacts, SeqsOf, Open, Entries
<1>4. next \in Nat /\ s \in Nat /\ MaxDeliver \in Nat \ {0}
  BY SeqsFinite, QueueAssumption DEF IInv, RestOK
<1>5. CASE s >= next
  <2>1. CASE next' = next
    BY <1>2, <1>3, <1>5, <2>1
  <2>2. CASE next' = next + 1 /\ s > next
    BY <1>2, <1>3, <1>4, <1>5, <2>2
  <2>3. CASE next' = next + 1 /\ s = next
    <3>1. PICK e \in Open(ready', inflight') : e.seq = next /\ e.delivered = 0
      BY <1>4, <2>3 DEF StepOK
    <3> QED BY <1>2, <1>3, <1>5, <2>3, <3>1
  <2> QED BY <1>4, <1>5, <2>1, <2>2, <2>3 DEF StepOK
<1>6. CASE s \in acked \/ s \in reported
  BY <1>2, <1>3, <1>6 DEF StepOK
<1>7. CASE s \in SeqsOf(dead)
  BY <1>2, <1>3, <1>7 DEF StepOK
<1>8. ASSUME NEW e \in Open(ready, inflight), e.seq = s
      PROVE  /\ \/ FateOf(s)' = "open" /\ TriesOf(s)' \in {TriesOf(s), TriesOf(s) + 1}
                \/ TriesOf(s) > 0 /\ FateOf(s)' = "done" /\ TriesOf(s)' = 0
                \/ /\ TriesOf(s) >= MaxDeliver
                   /\ FateOf(s)' \in {"failed", "reported"} /\ TriesOf(s)' = 0
             /\ FateOf(s) = "open" /\ (FateOf(s)' = "done" => s \in acked')
  <2>1. FateOf(s) = "open" /\ TriesOf(s) = e.delivered
    BY <1>2, <1>8
  <2>2. e \in Entry /\ e.delivered \in Nat
    <3>1. e \in Entry
      BY <1>8, LenProperties, ElementOfSeq DEF IInv, PlaceInv, QueueOK, Open, Entries
    <3> QED BY <3>1 DEF Entry
  <2>3. Fated(e)
    BY <1>8 DEF StepOK
  <2>4. CASE e \in Open(ready', inflight')
    BY <1>3, <1>8, <2>1, <2>4
  <2>5. CASE Delivery(e) \in Open(ready', inflight')
    BY <1>3, <1>8, <2>1, <2>2, <2>5, DeliveryIs
  <2>6. CASE e.delivered >= 1 /\ e.seq \in acked'
    BY <1>3, <1>8, <2>1, <2>2, <2>6
  <2>7. CASE e.delivered >= MaxDeliver /\ e.seq \in SeqsOf(dead') \cup reported'
    BY <1>3, <1>8, <2>1, <2>7
  <2> QED BY <2>3, <2>4, <2>5, <2>6, <2>7 DEF Fated
<1>9. s \in acked => FateOf(s) # "open"
  BY <1>2
<1> QED BY <1>5, <1>6, <1>7, <1>8, <1>9, Somewhere

(* A step of the queue is a step of AtLeastOnce. *)
LEMMA StepPromised ==
  ASSUME IInv, IInv', StepOK
  PROVE  Promise!Next
<1> DEFINE fate == [s \in Seqs |-> FateOf(s)]
           tries == [s \in Seqs |-> TriesOf(s)]
<1>1. ASSUME NEW s \in Seqs
      PROVE  /\ fate[s] = FateOf(s) /\ tries[s] = TriesOf(s)
             /\ fate'[s] = FateOf(s)' /\ tries'[s] = TriesOf(s)'
  BY DEF Seqs
<1>2. fate' \in [Seqs -> Promise!Fates] /\ DOMAIN tries' = Seqs
  <2>1. fate' = [s \in Seqs |-> FateOf(s)'] /\ DOMAIN tries' = Seqs
    BY DEF Seqs
  <2>2. \A s \in Seqs : FateOf(s)' \in Promise!Fates
    BY OneFate DEF Promise!Fates
  <2> QED BY <2>1, <2>2
<1> HIDE DEF fate, tries
<1>3. ASSUME NEW s \in Seqs
      PROVE  \/ Promise!Same(s) \/ Promise!Submit(s) \/ Promise!Deliver(s)
             \/ Promise!Complete(s) \/ Promise!GiveUp(s) \/ Promise!Report(s)
  BY <1>1, OneFate
     DEF Promise!Same, Promise!Submit, Promise!Deliver, Promise!Complete, Promise!GiveUp,
         Promise!Report, fate, tries
<1>4. ASSUME NEW s \in Seqs, NEW t \in Seqs,
             (Promise!Submit(s) /\ Promise!Submit(t)) \/ (Promise!Complete(s) /\ Promise!Complete(t))
      PROVE  s = t
  <2>1. CASE Promise!Submit(s) /\ Promise!Submit(t)
    <3>1. s = next /\ t = next
      BY <1>1, <2>1, OneFate DEF Promise!Submit, fate, tries
    <3> QED BY <3>1
  <2>2. CASE Promise!Complete(s) /\ Promise!Complete(t)
    <3>1. s \in acked' \ acked /\ t \in acked' \ acked
      BY <1>1, <2>2, OneFate DEF Promise!Complete, fate, tries
    <3> QED BY <3>1 DEF StepOK
  <2> QED BY <1>4, <2>1, <2>2
<1> QED BY <1>2, <1>3, <1>4 DEF Promise!Next, fate, tries

(* The queue implements the at-least-once queue, as far as its steps go: no         *)
(* interleaving of expiry, late acks, late naks and crashes loses a piece of work,  *)
(* doubles it, completes one nobody was given or gives up on one early.            *)
THEOREM ImplementsPromiseSafe == Spec => Promise!Safe
<1>1. Init => Promise!Init
  <2> SUFFICES ASSUME Init PROVE Promise!Init
    OBVIOUS
  <2>1. ASSUME NEW s \in Seqs PROVE FateOf(s) = "none" /\ TriesOf(s) = 0
    <3>1. s >= next
      BY SeqsFinite DEF Init, Seqs
    <3> QED BY <3>1, InitHolds, FatesKnown DEF FateFacts
  <2> QED BY <2>1 DEF Promise!Init
<1>2. IInv /\ IInv' /\ [Next]_vars => [Promise!Next]_(Promise!vars)
  <2>1. ASSUME IInv, IInv', Next PROVE Promise!Next
    BY <2>1, NextKeeps, StepPromised
  <2>2. ASSUME UNCHANGED vars PROVE UNCHANGED Promise!vars
    BY <2>2 DEF vars, Promise!vars, FateOf, TriesOf, EntriesOf, InReady, InDead, Seqs
  <2> QED BY <2>1, <2>2
<1> QED BY <1>1, <1>2, InductiveInvariant, PTL DEF Spec, Promise!Safe
================================================================================
