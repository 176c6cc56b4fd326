------------------------------- MODULE LeafQueue -------------------------------
(* The in-process leaf queue (leaf_queue.rs): publishers, workers that hold     *)
(* claims and send in-progress acks, and the caller that collects exhausted     *)
(* work. Every operation runs under one mutex and so is one step. Instants are  *)
(* kept as the time left until them: an inflight entry with left = 0 is past    *)
(* its deadline, and an id with seen = 0 is out of the duplicate window.        *)
(* A claim is the value a pull returns: it names the queue's sequence number,   *)
(* not the delivery, so what an old holder sends reaches the present delivery.  *)
EXTENDS Naturals, FiniteSets, Sequences

CONSTANTS
  Works,          \* LeafWork values
  CredOf,         \* the credential of a work
  IdOf,           \* its msg_id: leaf, action and input digest
  AckWait,        \* time a claim may stay silent
  MaxDeliver,
  DupWindow,
  MaxAckPending,  \* claims out at once for one credential
  MaxBatch,       \* bound: the `max` of a pull
  MaxPublish,     \* bound: pieces of work accepted
  NakBound        \* bound: a nak of this delivery or a later one does not happen

ASSUME QueueAssumption ==
  /\ {AckWait, MaxDeliver, DupWindow, MaxAckPending, MaxBatch} \subseteq Nat \ {0}
  /\ {MaxPublish, NakBound} \subseteq Nat

VARIABLES
  seen,       \* id -> time it stays remembered
  ready,      \* entries waiting, in order
  inflight,   \* seq -> entry out with a worker, and the time to its deadline
  dead,       \* entries that used up their deliveries
  next,       \* the next sequence number
  claims,     \* claims workers hold
  acked,      \* history: seqs taken out by an ack
  reported,   \* history: seqs handed out by exhausted
  late        \* history: seqs some delivery of which overran its deadline

vars == <<seen, ready, inflight, dead, next, claims, acked, reported, late>>

Ids   == {IdOf[w] : w \in Works}
Creds == {CredOf[w] : w \in Works}
Seqs  == 1..MaxPublish
Entry == [seq : Seqs, work : Works, delivered : Nat]

(* Remembered, queued and running nothing: InProcessQueue::new. *)
Init ==
  /\ seen = [id \in Ids |-> 0]
  /\ ready = <<>>
  /\ inflight = <<>>
  /\ dead = {}
  /\ next = 1
  /\ claims = {}
  /\ acked = {}
  /\ reported = {}
  /\ late = {}

Without(f, S) == [s \in DOMAIN f \ S |-> f[s]]

(* The n-th smallest of a finite set of numbers, and the entries of a queue at a  *)
(* set of positions, in their order.                                             *)
Nth(S, n) == CHOOSE i \in S : Cardinality({j \in S : j <= i}) = n
At(q, S) == [n \in 1..Cardinality(S) |-> q[Nth(S, n)]]

--------------------------------------------------------------------------------
(* expire: what is past its deadline is given up after its last delivery and     *)
(* goes to the back of the queue otherwise, in sequence order.                   *)
\* Mutant: a claim is taken back one unit before its deadline.
DueEarly == {s \in DOMAIN inflight : inflight[s].left <= 1}

Due == {s \in DOMAIN inflight : inflight[s].left = 0}
Spent == {s \in Due : inflight[s].entry.delivered >= MaxDeliver}
Requeued ==
  LET back == Due \ Spent
  IN [n \in 1..Cardinality(back) |-> inflight[Nth(back, n)].entry]

ExpiredReady == ready \o Requeued
ExpiredInflight == Without(inflight, Due)

\* Mutant: work that used up its deliveries is dropped.
ExpiredDeadLost == dead

ExpiredDead == dead \cup {inflight[s].entry : s \in Spent}

(* publish: an id inside the window is a duplicate and only expiry happens.      *)
Publish(w) ==
  LET id == IdOf[w] IN
  /\ next <= MaxPublish
  /\ inflight' = ExpiredInflight
  /\ dead' = ExpiredDead
  /\ IF seen[id] > 0
       THEN ready' = ExpiredReady /\ UNCHANGED <<seen, next>>
       ELSE /\ seen' = [seen EXCEPT ![id] = DupWindow]
            /\ ready' = Append(ExpiredReady, [seq |-> next, work |-> w, delivered |-> 0])
            /\ next' = next + 1
  /\ UNCHANGED <<claims, acked, reported, late>>

(* pull: the first entries of the credential, as many as its cap leaves room.    *)
Held(fl, c) == {s \in DOMAIN fl : CredOf[fl[s].entry.work] = c}

\* Mutant: the claims already out are not counted.
RoomOfCap(fl, c, max) == IF MaxAckPending < max THEN MaxAckPending ELSE max

Room(fl, c, max) ==
  LET held == Cardinality(Held(fl, c))
      left == IF held >= MaxAckPending THEN 0 ELSE MaxAckPending - held
  IN IF left < max THEN left ELSE max
Taken(q, c, room) ==
  LET mine == {i \in DOMAIN q : CredOf[q[i].work] = c}
  IN {i \in mine : Cardinality({j \in mine : j < i}) < room}
Delivery(e) == [e EXCEPT !.delivered = @ + 1]

Pull(c, max) ==
  LET taken == Taken(ExpiredReady, c, Room(ExpiredInflight, c, max))
      out   == {Delivery(ExpiredReady[i]) : i \in taken}
      outOf(s) == CHOOSE e \in out : e.seq = s
  IN
  /\ ready' = At(ExpiredReady, DOMAIN ExpiredReady \ taken)
  /\ inflight' = [s \in DOMAIN ExpiredInflight \cup {e.seq : e \in out} |->
                    IF s \in {e.seq : e \in out}
                      THEN [entry |-> outOf(s), left |-> AckWait]
                      ELSE ExpiredInflight[s]]
  /\ claims' = claims \cup {[seq |-> e.seq, delivered |-> e.delivered] : e \in out}
  /\ dead' = ExpiredDead
  /\ UNCHANGED <<seen, next, acked, reported, late>>

(* exhausted: expires, then hands out everything that is dead.                   *)
Exhausted ==
  /\ ready' = ExpiredReady
  /\ inflight' = ExpiredInflight
  /\ dead' = {}
  /\ reported' = reported \cup {e.seq : e \in ExpiredDead}
  /\ UNCHANGED <<seen, next, claims, acked, late>>

--------------------------------------------------------------------------------
(* The worker's side: work_on sends an in-progress ack per heartbeat, then acks   *)
(* or naks. None of them calls expire, and each finds the entry by its seq only.  *)

\* Mutant: an in-progress ack adds to the deadline.
ProgressAdds(c) ==
  /\ c.seq \in DOMAIN inflight
  /\ inflight' = [inflight EXCEPT ![c.seq].left = @ + AckWait]
  /\ UNCHANGED <<seen, ready, dead, next, claims, acked, reported, late>>

Progress(c) ==
  /\ c.seq \in DOMAIN inflight
  /\ inflight' = [inflight EXCEPT ![c.seq].left = AckWait]
  /\ UNCHANGED <<seen, ready, dead, next, claims, acked, reported, late>>

Ack(c) ==
  /\ claims' = claims \ {c}
  /\ inflight' = Without(inflight, {c.seq})
  /\ acked' = IF c.seq \in DOMAIN inflight THEN acked \cup {c.seq} ELSE acked
  /\ UNCHANGED <<seen, ready, dead, next, reported, late>>

Nak(c) ==
  /\ claims' = claims \ {c}
  /\ c.seq \in DOMAIN inflight => inflight[c.seq].entry.delivered < NakBound
  /\ inflight' = Without(inflight, {c.seq})
  /\ ready' = IF c.seq \in DOMAIN inflight
                THEN Append(ready, inflight[c.seq].entry) ELSE ready
  /\ UNCHANGED <<seen, dead, next, acked, reported, late>>

(* The worker dies or its future is dropped: nothing is sent.                    *)
Vanish(c) ==
  /\ claims' = claims \ {c}
  /\ UNCHANGED <<seen, ready, inflight, dead, next, acked, reported, late>>

Tick ==
  /\ seen' = [id \in Ids |-> IF seen[id] > 0 THEN seen[id] - 1 ELSE 0]
  /\ inflight' = [s \in DOMAIN inflight |->
                    [inflight[s] EXCEPT !.left = IF @ > 0 THEN @ - 1 ELSE 0]]
  /\ late' = late \cup {s \in DOMAIN inflight : inflight[s].left = 1}
  /\ UNCHANGED <<ready, dead, next, claims, acked, reported>>

Settle(c) == Ack(c) \/ Nak(c) \/ Vanish(c)

Next ==
  \/ \E w \in Works : Publish(w)
  \/ \E c \in Creds, max \in 1..MaxBatch : Pull(c, max)
  \/ Exhausted
  \/ \E c \in claims : Progress(c) \/ Ack(c) \/ Nak(c) \/ Vanish(c)
  \/ Tick

Spec == Init /\ [][Next]_vars

(* Time passes, a worker that holds a claim ends some day, one way or another,   *)
(* each credential has a worker that pulls, and the caller collects the dead.    *)
Fairness ==
  /\ WF_vars(Tick)
  /\ WF_vars(Exhausted)
  /\ \A c \in Creds : WF_vars(\E max \in 1..MaxBatch : Pull(c, max))
  /\ \A s \in Seqs : WF_vars(\E c \in claims : c.seq = s /\ Settle(c))

FairSpec == Spec /\ Fairness

--------------------------------------------------------------------------------
InReady == {ready[i].seq : i \in DOMAIN ready}
InDead  == {e.seq : e \in dead}

(* Entries sit under their own sequence number with a deadline within ack_wait,   *)
(* ids are remembered no longer than the duplicate window (State).               *)
TypeOK ==
  /\ seen \in [Ids -> 0..DupWindow]
  /\ ready \in Seq(Entry)
  /\ DOMAIN inflight \subseteq Seqs
  /\ \A s \in DOMAIN inflight :
       /\ inflight[s] \in [entry : Entry, left : 0..AckWait]
       /\ inflight[s].entry.seq = s
  /\ dead \subseteq Entry
  /\ next \in 1..(MaxPublish + 1)
  /\ claims \subseteq [seq : Seqs, delivered : Nat]
  /\ acked \subseteq Seqs /\ reported \subseteq Seqs /\ late \subseteq Seqs

(* The cap of a credential (max_ack_pending): whatever expires, is naked or is   *)
(* redelivered, no more entries of a credential are out than its cap.            *)
WithinAckPending ==
  \A c \in Creds : Cardinality(Held(inflight, c)) <= MaxAckPending

(* Two workers hold the same piece of work only if one of its deliveries overran *)
(* its deadline: acks, naks, crashes and full batches never hand it out twice.   *)
OneHolderUnlessLate ==
  \A a, b \in claims : a.seq = b.seq /\ a.seq \notin late => a = b

(* Where the entries of a sequence number are; FateOf is "torn" when there is    *)
(* not exactly one while the work is neither acked nor reported.                 *)
EntriesOf(s) ==
  {<<"ready", i>> : i \in {i \in DOMAIN ready : ready[i].seq = s}}
    \cup {<<"dead", e>> : e \in {e \in dead : e.seq = s}}
    \cup {<<"inflight", t>> : t \in DOMAIN inflight \cap {s}}
    \cup {<<"acked", t>> : t \in acked \cap {s}}
    \cup {<<"reported", t>> : t \in reported \cap {s}}

FateOf(s) ==
  CASE s >= next -> "none"
    [] s < next /\ Cardinality(EntriesOf(s)) # 1 -> "torn"
    [] s < next /\ Cardinality(EntriesOf(s)) = 1 ->
         CASE s \in acked -> "done"
           [] s \in reported -> "reported"
           [] s \in InDead -> "failed"
           [] s \in InReady \cup DOMAIN inflight -> "open"

TriesOf(s) ==
  IF s \in DOMAIN inflight THEN inflight[s].entry.delivered
  ELSE IF s \in InReady THEN ready[CHOOSE i \in DOMAIN ready : ready[i].seq = s].delivered
  ELSE 0

Promise == INSTANCE AtLeastOnce WITH
  Items <- Seqs,
  fate  <- [s \in Seqs |-> FateOf(s)],
  tries <- [s \in Seqs |-> TriesOf(s)]

(* The queue implements the at-least-once queue: no interleaving of expiry, late *)
(* acks, late naks and crashes loses a piece of work, doubles it, completes one  *)
(* nobody was given, or gives up on one early; and all work is settled.          *)
ImplementsPromise == Promise!Spec
=============================================================================
