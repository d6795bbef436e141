------------------------- MODULE JitSchedulerProofs -------------------------
(***************************************************************************)
(* Proofs about JitScheduler, for every value of its constants.            *)
(***************************************************************************)
EXTENDS JitScheduler, SequenceTheorems, FiniteSetTheorems, WellFoundedInduction, TLAPS

(* Inserting into a sequence: length and elements (the "append and sort" of
   jit_enqueue).                                                            *)
LEMMA InsertAtLemma ==
    ASSUME NEW S, NEW q \in Seq(S), NEW x \in S, NEW k \in 1 .. Len(q) + 1
    PROVE  /\ InsertAt(q, k, x) \in Seq(S)
           /\ Len(InsertAt(q, k, x)) = Len(q) + 1
           /\ \A i \in 1 .. Len(q) + 1 :
                InsertAt(q, k, x)[i] = IF i < k THEN q[i] ELSE IF i = k THEN x ELSE q[i - 1]
<1> DEFINE a == SubSeq(q, 1, k - 1)
           b == SubSeq(q, k, Len(q))
           c == <<x>>
<1>1. /\ a \in Seq(S) /\ Len(a) = k - 1
      /\ \A i \in 1 .. k - 1 : a[i] = q[i]
  BY SubSeqProperties
<1>2. /\ b \in Seq(S) /\ Len(b) = Len(q) - k + 1
      /\ \A i \in 1 .. Len(q) - k + 1 : b[i] = q[k + i - 1]
  BY SubSeqProperties
<1>3. c \in Seq(S) /\ Len(c) = 1 /\ c[1] = x
  OBVIOUS
<1>4. InsertAt(q, k, x) = a \o c \o b
  BY DEF InsertAt
<1> HIDE DEF a, b, c
<1> DEFINE d == a \o c
<1>5. /\ d \in Seq(S) /\ Len(d) = Len(a) + Len(c)
      /\ \A i \in 1 .. Len(a) + Len(c) : d[i] = IF i <= Len(a) THEN a[i] ELSE c[i - Len(a)]
  BY <1>1, <1>3, ConcatProperties, Zenon
<1> HIDE DEF d
<1>6. Len(d) = k /\ \A i \in 1 .. k : d[i] = IF i < k THEN q[i] ELSE x
  BY <1>1, <1>3, <1>5
<1>7. /\ d \o b \in Seq(S)
      /\ Len(d \o b) = Len(d) + Len(b)
      /\ \A i \in 1 .. Len(d) + Len(b) : (d \o b)[i] = IF i <= Len(d) THEN d[i] ELSE b[i - Len(d)]
  <2>1. b \in Seq(S) /\ d \in Seq(S)
    BY <1>2, <1>5
  <2> QED
    BY <2>1, ConcatProperties, Zenon
<1>8. /\ Len(d \o b) = Len(q) + 1
      /\ \A i \in 1 .. Len(q) + 1 :
        (d \o b)[i] = IF i < k THEN q[i] ELSE IF i = k THEN x ELSE q[i - 1]
  BY <1>2, <1>6, <1>7
<1> QED
  BY <1>4, <1>7, <1>8 DEF d

(* Removing from a sequence (the "move the last one in and sort" of
   jit_dequeue and jit_peek).                                               *)
LEMMA RemoveAtLemma ==
    ASSUME NEW S, NEW q \in Seq(S), NEW k \in 1 .. Len(q)
    PROVE  /\ RemoveAt(q, k) \in Seq(S)
           /\ Len(RemoveAt(q, k)) = Len(q) - 1
           /\ \A i \in 1 .. Len(q) - 1 :
                RemoveAt(q, k)[i] = IF i < k THEN q[i] ELSE q[i + 1]
<1> DEFINE a == SubSeq(q, 1, k - 1)
           b == SubSeq(q, k + 1, Len(q))
<1>1. /\ a \in Seq(S) /\ Len(a) = k - 1
      /\ \A i \in 1 .. k - 1 : a[i] = q[i]
  BY SubSeqProperties
<1>2. /\ b \in Seq(S) /\ Len(b) = Len(q) - k
      /\ \A i \in 1 .. Len(q) - k : b[i] = q[k + i]
  BY SubSeqProperties
<1> HIDE DEF a, b
<1>3. RemoveAt(q, k) = a \o b
  BY DEF RemoveAt, a, b
<1>5. /\ a \o b \in Seq(S) /\ Len(a \o b) = Len(a) + Len(b)
      /\ \A i \in 1 .. Len(a) + Len(b) : (a \o b)[i] = IF i <= Len(a) THEN a[i] ELSE b[i - Len(a)]
  BY <1>1, <1>2, ConcatProperties, Zenon
<1>6. /\ Len(a \o b) = Len(q) - 1
      /\ \A i \in 1 .. Len(q) - 1 : (a \o b)[i] = IF i < k THEN q[i] ELSE q[i + 1]
  BY <1>1, <1>2, <1>5
<1> QED
  BY <1>3, <1>5, <1>6

(* The packets of the queue after an insertion and after a removal. *)
LEMMA InsertAtElements ==
    ASSUME NEW S, NEW q \in Seq(S), NEW x \in S, NEW k \in 1 .. Len(q) + 1
    PROVE  ToSet(InsertAt(q, k, x)) = ToSet(q) \cup {x}
<1> DEFINE r == InsertAt(q, k, x)
<1>1. /\ r \in Seq(S) /\ Len(r) = Len(q) + 1
      /\ \A i \in 1 .. Len(q) + 1 : r[i] = IF i < k THEN q[i] ELSE IF i = k THEN x ELSE q[i - 1]
  BY InsertAtLemma
<1> HIDE DEF r
<1>2. DOMAIN r = 1 .. Len(q) + 1 /\ DOMAIN q = 1 .. Len(q)
  BY <1>1
<1>3. ASSUME NEW n \in ToSet(r) PROVE n \in ToSet(q) \cup {x}
  <2>1. PICK i \in 1 .. Len(q) + 1 : n = r[i]
    BY <1>2 DEF ToSet
  <2>2. CASE i < k
    BY <1>1, <1>2, <2>1, <2>2 DEF ToSet
  <2>3. CASE i = k
    BY <1>1, <2>1, <2>3
  <2>4. CASE i > k
    <3>1. i - 1 \in DOMAIN q /\ n = q[i - 1]
      BY <1>1, <1>2, <2>1, <2>4
    <3> QED
      BY <3>1 DEF ToSet
  <2> QED
    BY <2>2, <2>3, <2>4
<1>4. x \in ToSet(r)
  BY <1>1, <1>2 DEF ToSet
<1>5. ASSUME NEW n \in ToSet(q) PROVE n \in ToSet(r)
  <2>1. PICK i \in 1 .. Len(q) : n = q[i]
    BY <1>2 DEF ToSet
  <2>2. n = IF i < k THEN r[i] ELSE r[i + 1]
    BY <1>1, <2>1
  <2> QED
    BY <1>2, <2>1, <2>2 DEF ToSet
<1> QED
  BY <1>3, <1>4, <1>5 DEF r

LEMMA RemoveAtElements ==
    ASSUME NEW S, NEW q \in Seq(S), NEW k \in 1 .. Len(q),
           \A i, j \in DOMAIN q : i # j => q[i] # q[j]
    PROVE  ToSet(RemoveAt(q, k)) = ToSet(q) \ {q[k]}
<1> DEFINE r == RemoveAt(q, k)
<1>1. /\ r \in Seq(S) /\ Len(r) = Len(q) - 1
      /\ \A i \in 1 .. Len(q) - 1 : r[i] = IF i < k THEN q[i] ELSE q[i + 1]
  BY RemoveAtLemma
<1> HIDE DEF r
<1>2. DOMAIN r = 1 .. Len(q) - 1 /\ DOMAIN q = 1 .. Len(q)
  BY <1>1
<1>3. ASSUME NEW n \in ToSet(r) PROVE n \in ToSet(q) \ {q[k]}
  BY <1>1, <1>2, <1>3 DEF ToSet
<1>4. ASSUME NEW n \in ToSet(q) \ {q[k]} PROVE n \in ToSet(r)
  <2>1. PICK i \in 1 .. Len(q) : n = q[i] /\ i # k
    BY <1>2 DEF ToSet
  <2>2. IF i < k THEN i \in 1 .. Len(q) - 1 /\ n = r[i]
                 ELSE i - 1 \in 1 .. Len(q) - 1 /\ n = r[i - 1]
    BY <1>1, <2>1
  <2> QED
    BY <1>2, <2>1, <2>2 DEF ToSet
<1> QED
  BY <1>3, <1>4 DEF r

(* Counter arithmetic stays in the counter's range. *)
LEMMA SubType == \A a, b \in Int : Sub(a, b) \in Time
  BY JitConstants DEF Sub, Time

LEMMA PlusType == \A a, d \in Int : Plus(a, d) \in Time
  BY JitConstants DEF Plus, Time

LEMMA TimeIsInt == Time \subseteq Int
  BY DEF Time

LEMMA SubSelf == \A a \in Int : Sub(a, a) = 0
  BY JitConstants DEF Sub

LEMMA PreDelayType == \A type : PreDelay(type) \in Nat
  BY JitConstants DEF PreDelay

LEMMA LeastNat ==
    ASSUME NEW T, T \subseteq Nat, T # {}
    PROVE  \E x \in T : \A y \in T : x <= y
<1> DEFINE R == {ss \in Nat \X Nat : ss[1] < ss[2]}
<1>1. IsWellFoundedOn(R, Nat)
  BY NatLessThanWellFounded DEF OpToRel
<1>2. PICK x \in T : \A y \in T : <<y, x>> \notin R
  <2> HIDE DEF R
  <2> QED
    BY <1>1, WFMin
<1>3. ASSUME NEW y \in T, y < x PROVE FALSE
  <2>1. <<y, x>> \in R
    BY <1>3
  <2> QED
    BY <1>2, <2>1
<1> QED
  BY <1>2, <1>3

(* The ASAP search always ends at a slot: the loop of jit_enqueue accepts the
   place behind the last node if it accepts no other.                       *)
LEMMA AsapCountType ==
    ASSUME NEW q \in Seq(Node), NEW t \in Time, NEW post \in Nat
    PROVE  AsapCount(q, t, post) \in Time
<1>1. CASE \A i \in DOMAIN q : ~InTheWay(Plus(t, ASAP_DELAY), post, q[i])
  <2>1. Plus(t, ASAP_DELAY) \in Time
    BY PlusType, TimeIsInt, JitConstants
  <2> QED
    BY <1>1, <2>1 DEF AsapCount
<1>2. CASE \E i \in DOMAIN q : InTheWay(Plus(t, ASAP_DELAY), post, q[i])
  <2> DEFINE T == {i \in DOMAIN q : RoomBehind(q, i, post)}
  <2>1. DOMAIN q = 1 .. Len(q) /\ Len(q) \in Nat
    OBVIOUS
  <2>2. Len(q) \in T
    BY <1>2, <2>1 DEF RoomBehind
  <2>3. PICK i \in T : \A j \in T : i <= j
    <3>1. T \subseteq Nat /\ T # {}
      BY <2>1, <2>2
    <3> HIDE DEF T
    <3> QED
      BY <3>1, LeastNat
  <2>4. \A j \in 1 .. i - 1 : ~RoomBehind(q, j, post)
    BY <2>1, <2>3
  <2> DEFINE c == CHOOSE k \in DOMAIN q :
                    /\ RoomBehind(q, k, post)
                    /\ \A j \in 1 .. k - 1 : ~RoomBehind(q, j, post)
  <2>5. c \in DOMAIN q
    BY <2>3, <2>4
  <2> HIDE DEF c
  <2>6. q[c] \in Node
    BY <2>5
  <2>7. SlotBehind(q[c]) \in Time
    <3>1. q[c].count \in Int /\ q[c].post \in Int
      BY <2>6 DEF Node, Time
    <3>2. q[c].post + PreDelay(ClassC) + TX_JIT_DELAY + TX_MARGIN_DELAY \in Int
      BY <3>1, PreDelayType, JitConstants
    <3> QED
      BY <3>1, <3>2, PlusType DEF SlotBehind
  <2> QED
    BY <1>2, <2>7 DEF AsapCount, c
<1> QED
  BY <1>1, <1>2

LEMMA NewNodeType ==
    ASSUME NEW q \in Seq(Node), NEW t \in Time, NEW type \in PktTypes,
           NEW count \in Time, NEW toa \in Nat
    PROVE  NewNode(q, t, type, count, toa) \in Node
  BY AsapCountType, PreDelayType, JitConstants DEF NewNode, Node, PostDelay

-----------------------------------------------------------------------------
(* A packet that passed criterion 3 against a node keeps apart from it, seen
   from either side, and differs from it.                                   *)
LEMMA AcceptedIsApart ==
    ASSUME NEW x \in Node, NEW n \in Node,
           x.pre = PreDelay(x.type),
           ~Overlaps(x, n)
    PROVE  KeepApart(x, n) /\ KeepApart(n, x)
<1>1. /\ x.count \in Int /\ n.count \in Int
      /\ x.pre \in Nat /\ x.post \in Nat /\ n.pre \in Nat /\ n.post \in Nat
  BY TimeIsInt DEF Node
<1> DEFINE d1 == Sub(x.count, n.count)
           d2 == Sub(n.count, x.count)
           px == PreTowards(x, n)
           pn == PreTowards(n, x)
<1>2. d1 \in Int /\ d2 \in Int
  BY <1>1, SubType, TimeIsInt
<1>3. pn = TargetPre(x.type, n) /\ pn \in Nat
  BY <1>1, JitConstants DEF PreTowards, TargetPre, IsBeacon
<1>4. px \in Nat /\ px <= x.pre
  BY <1>1, JitConstants DEF PreTowards, PreDelay, IsBeacon
<1>5. /\ ~(d1 <= x.pre + n.post + TX_MARGIN_DELAY)
      /\ ~(d2 <= pn + x.post + TX_MARGIN_DELAY)
  BY <1>3 DEF Overlaps, Collision
<1> HIDE DEF px, pn
<1>6. ~(d1 <= px + n.post + TX_MARGIN_DELAY)
  <2> HIDE DEF d1
  <2> QED
    BY <1>1, <1>2, <1>4, <1>5, JitConstants
<1>7. x # n
  <2>1. SUFFICES ASSUME x = n PROVE FALSE
    OBVIOUS
  <2>2. d1 = 0
    BY <1>1, <2>1, SubSelf
  <2> QED
    BY <1>1, <1>5, <2>2, JitConstants
<1> QED
  BY <1>5, <1>6, <1>7 DEF KeepApart, Collision, px, pn

LEMMA InsertKeepsApart ==
    ASSUME NEW q \in Seq(Node), NEW x \in Node, NEW k \in 1 .. Len(q) + 1,
           AllApart(q), x.pre = PreDelay(x.type),
           \A i \in DOMAIN q : ~Overlaps(x, q[i])
    PROVE  AllApart(InsertAt(q, k, x))
<1> DEFINE r == InsertAt(q, k, x)
<1>1. /\ r \in Seq(Node) /\ Len(r) = Len(q) + 1
      /\ \A i \in 1 .. Len(q) + 1 : r[i] = IF i < k THEN q[i] ELSE IF i = k THEN x ELSE q[i - 1]
  BY InsertAtLemma
<1> HIDE DEF r
<1>2. DOMAIN r = 1 .. Len(q) + 1 /\ DOMAIN q = 1 .. Len(q)
  BY <1>1
<1>3. \A i \in DOMAIN q : KeepApart(x, q[i]) /\ KeepApart(q[i], x)
  BY AcceptedIsApart
<1> DEFINE old(i) == IF i < k THEN i ELSE i - 1
<1>4. \A i \in DOMAIN r : i # k => old(i) \in DOMAIN q /\ r[i] = q[old(i)]
  BY <1>1, <1>2
<1>5. \A i, j \in DOMAIN r : i # k /\ j # k /\ i # j => old(i) # old(j)
  BY <1>2
<1>6. r[k] = x
  BY <1>1
<1> HIDE DEF old
<1>7. ASSUME NEW i \in DOMAIN r, NEW j \in DOMAIN r, i # j
      PROVE  KeepApart(r[i], r[j])
  <2>1. CASE i = k
    BY <1>3, <1>4, <1>6, <1>7, <2>1
  <2>2. CASE j = k
    BY <1>3, <1>4, <1>6, <1>7, <2>2
  <2>3. CASE i # k /\ j # k
    BY <1>4, <1>5, <1>7, <2>3 DEF AllApart
  <2> QED
    BY <2>1, <2>2, <2>3
<1> QED
  BY <1>7 DEF AllApart, r

LEMMA RemoveKeepsApart ==
    ASSUME NEW q \in Seq(Node), NEW k \in 1 .. Len(q), AllApart(q)
    PROVE  AllApart(RemoveAt(q, k))
<1> DEFINE r == RemoveAt(q, k)
<1>1. /\ r \in Seq(Node) /\ Len(r) = Len(q) - 1
      /\ \A i \in 1 .. Len(q) - 1 : r[i] = IF i < k THEN q[i] ELSE q[i + 1]
  BY RemoveAtLemma
<1> HIDE DEF r
<1>2. DOMAIN r = 1 .. Len(q) - 1 /\ DOMAIN q = 1 .. Len(q)
  BY <1>1
<1> DEFINE old(i) == IF i < k THEN i ELSE i + 1
<1>3. \A i \in DOMAIN r : old(i) \in DOMAIN q /\ r[i] = q[old(i)]
  BY <1>1, <1>2
<1>4. \A i, j \in DOMAIN r : i # j => old(i) # old(j)
  BY <1>2
<1> HIDE DEF old
<1> QED
  BY <1>3, <1>4 DEF AllApart, r

-----------------------------------------------------------------------------
(* What holds of the shared queue whenever its lock is free. *)
QueueInv(q, nb) ==
    /\ q \in Seq(Node)
    /\ AllApart(q)
    /\ IsFiniteSet(BeaconsOf(q))
    /\ nb = Cardinality(BeaconsOf(q))

LEMMA InsertKeepsQueueInv ==
    ASSUME NEW q, NEW nb, QueueInv(q, nb),
           NEW x \in Node, NEW k \in 1 .. Len(q) + 1,
           x.pre = PreDelay(x.type),
           \A i \in DOMAIN q : ~Overlaps(x, q[i])
    PROVE  QueueInv(InsertAt(q, k, x), nb + (IF IsBeacon(x) THEN 1 ELSE 0))
<1>1. q \in Seq(Node) /\ AllApart(q)
  BY DEF QueueInv
<1>2. InsertAt(q, k, x) \in Seq(Node)
  BY <1>1, InsertAtLemma
<1>3. AllApart(InsertAt(q, k, x))
  BY <1>1, InsertKeepsApart
<1>4. x \notin ToSet(q)
  BY <1>1, AcceptedIsApart DEF KeepApart, ToSet
<1>5. ToSet(InsertAt(q, k, x)) = ToSet(q) \cup {x}
  BY <1>1, InsertAtElements
<1>6. BeaconsOf(InsertAt(q, k, x)) = IF IsBeacon(x) THEN BeaconsOf(q) \cup {x} ELSE BeaconsOf(q)
  BY <1>5 DEF BeaconsOf
<1>7. x \notin BeaconsOf(q)
  BY <1>4 DEF BeaconsOf
<1>8. IsFiniteSet(BeaconsOf(q)) /\ nb = Cardinality(BeaconsOf(q)) /\ nb \in Nat
  BY FS_CardinalityType DEF QueueInv
<1>9. CASE IsBeacon(x)
  <2>1. /\ IsFiniteSet(BeaconsOf(q) \cup {x})
        /\ Cardinality(BeaconsOf(q) \cup {x}) = nb + 1
    BY <1>7, <1>8, FS_AddElement
  <2> QED
    BY <1>2, <1>3, <1>6, <1>9, <2>1 DEF QueueInv
<1>10. CASE ~IsBeacon(x)
  BY <1>2, <1>3, <1>6, <1>8, <1>10 DEF QueueInv
<1> QED
  BY <1>9, <1>10

LEMMA RemoveKeepsQueueInv ==
    ASSUME NEW q, NEW nb, QueueInv(q, nb), NEW k \in 1 .. Len(q)
    PROVE  /\ QueueInv(RemoveAt(q, k), nb - (IF IsBeacon(q[k]) THEN 1 ELSE 0))
           /\ ToSet(RemoveAt(q, k)) = ToSet(q) \ {q[k]}
<1>1. q \in Seq(Node) /\ AllApart(q)
  BY DEF QueueInv
<1>2. RemoveAt(q, k) \in Seq(Node)
  BY <1>1, RemoveAtLemma
<1>3. AllApart(RemoveAt(q, k))
  BY <1>1, RemoveKeepsApart
<1>4. \A i, j \in DOMAIN q : i # j => q[i] # q[j]
  BY <1>1 DEF AllApart, KeepApart
<1>5. ToSet(RemoveAt(q, k)) = ToSet(q) \ {q[k]}
  BY <1>1, <1>4, RemoveAtElements
<1>6. BeaconsOf(RemoveAt(q, k)) = IF IsBeacon(q[k]) THEN BeaconsOf(q) \ {q[k]} ELSE BeaconsOf(q)
  BY <1>5 DEF BeaconsOf
<1>7. IsFiniteSet(BeaconsOf(q)) /\ nb = Cardinality(BeaconsOf(q)) /\ nb \in Nat
  BY FS_CardinalityType DEF QueueInv
<1>8. CASE IsBeacon(q[k])
  <2>1. q[k] \in BeaconsOf(q)
    BY <1>1, <1>8 DEF BeaconsOf, ToSet
  <2>2. /\ IsFiniteSet(BeaconsOf(q) \ {q[k]})
        /\ Cardinality(BeaconsOf(q) \ {q[k]}) = nb - 1
    BY <1>7, <2>1, FS_RemoveElement
  <2> QED
    BY <1>2, <1>3, <1>5, <1>6, <1>8, <2>2 DEF QueueInv
<1>9. CASE ~IsBeacon(q[k])
  BY <1>2, <1>3, <1>5, <1>6, <1>7, <1>9 DEF QueueInv
<1> QED
  BY <1>8, <1>9

-----------------------------------------------------------------------------
(* The inductive invariant: the queue's, and that the index thread_jit holds
   between peek and dequeue still names a node, and that it holds a packet
   exactly between dequeue and send.                                        *)
JitInv ==
    /\ jit.pc = "dequeue" => jit.idx \in 1 .. Len(queue)
    /\ jit.pc = "send" => jit.pkt \in Node
    /\ jit.pc # "send" => jit.pkt = NoNode

IInv == TypeOK /\ QueueInv(queue, num_beacon) /\ JitInv

LEMMA CandidateType ==
    ASSUME TypeOK, NEW s \in Servers
    PROVE  Candidate(s) \in Node /\ Candidate(s).pre = PreDelay(Candidate(s).type)
<1>1. /\ down[s].time \in Time /\ down[s].type \in PktTypes
      /\ down[s].count \in Time /\ down[s].toa \in Nat /\ queue \in Seq(Node)
  BY DEF TypeOK
<1>2. Candidate(s) \in Node
  BY <1>1, NewNodeType DEF Candidate
<1>3. Candidate(s).pre = PreDelay(Candidate(s).type)
  BY DEF Candidate, NewNode
<1> QED
  BY <1>2, <1>3

LEMMA AcceptIsClear ==
    ASSUME NEW q, NEW t, NEW x, Verdict(q, t, x) = OK
    PROVE  \A i \in DOMAIN q : ~Overlaps(x, q[i])
  BY DEF Verdict, OK, TooLate, TooEarly, CollisionBeacon, CollisionPacket

LEMMA InitIInv == Init => IInv
<1> SUFFICES ASSUME Init PROVE IInv
  OBVIOUS
<1>1. queue = <<>> /\ queue \in Seq(Node) /\ Len(queue) = 0
  BY DEF Init
<1>2. BeaconsOf(queue) = {}
  BY <1>1 DEF BeaconsOf, ToSet
<1>3. QueueInv(queue, num_beacon)
  <2>1. AllApart(queue)
    BY <1>1 DEF AllApart
  <2>2. IsFiniteSet(BeaconsOf(queue)) /\ num_beacon = Cardinality(BeaconsOf(queue))
    BY <1>2, FS_EmptySet DEF Init
  <2> QED
    BY <1>1, <2>1, <2>2 DEF QueueInv
<1>4. 0 \in Time
  BY JitConstants DEF Time
<1>5. TypeOK
  BY <1>1, <1>4, SchedulerConstants DEF TypeOK, Init, Idle, PktTypes
<1>6. JitInv
  BY DEF JitInv, Init
<1> QED
  BY <1>3, <1>5, <1>6 DEF IInv

(* Every step of the server threads keeps the invariant: only Accept touches
   the queue.                                                               *)
LEMMA ServerStep ==
    ASSUME IInv, NEW s \in Servers, ReadTime(s) \/ Enqueue(s)
    PROVE  IInv'
<1> USE DEF IInv
<1>0. Idle \in [pc : {"idle", "check", "insert"}, time : Time,
                type : PktTypes, count : Time, toa : Nat]
  BY JitConstants DEF Idle, Time, PktTypes
<1>1. CASE ReadTime(s)
  <2>1. PICK r \in Requests :
          down' = [down EXCEPT ![s] = [pc |-> "check", time |-> now, type |-> r.type,
                                       count |-> Plus(now, r.lead), toa |-> r.toa]]
    BY <1>1 DEF ReadTime
  <2>2. r.type \in PktTypes /\ r.lead \in Int /\ r.toa \in Nat
    BY SchedulerConstants
  <2>3. Plus(now, r.lead) \in Time
    BY <2>2, PlusType, TimeIsInt DEF TypeOK
  <2>4. requests' \in 0 .. MaxRequests
    BY <1>1, SchedulerConstants DEF ReadTime, TypeOK
  <2>5. TypeOK'
    BY <1>1, <2>1, <2>2, <2>3, <2>4 DEF ReadTime, TypeOK
  <2> QED
    BY <1>1, <2>5 DEF ReadTime, QueueInv, JitInv
<1>2. CASE RejectFull(s)
  BY <1>0, <1>2 DEF RejectFull, TypeOK, QueueInv, JitInv
<1>3. CASE PassFull(s)
  BY <1>3 DEF PassFull, TypeOK, QueueInv, JitInv
<1>4. CASE Reject(s)
  BY <1>0, <1>4 DEF Reject, TypeOK, QueueInv, JitInv
<1>5. CASE Accept(s)
  <2> DEFINE x == Candidate(s)
  <2>1. PICK k \in Places(queue, x) : queue' = InsertAt(queue, k, x)
    BY <1>5 DEF Accept
  <2>2. k \in 1 .. Len(queue) + 1
    BY <2>1 DEF Places
  <2>3. x \in Node /\ x.pre = PreDelay(x.type)
    BY CandidateType
  <2>4. \A i \in DOMAIN queue : ~Overlaps(x, queue[i])
    BY <1>5, AcceptIsClear DEF Accept
  <2>5. num_beacon' = num_beacon + (IF IsBeacon(x) THEN 1 ELSE 0)
    BY <1>5 DEF Accept, Counted
  <2> HIDE DEF x
  <2>6. QueueInv(queue', num_beacon')
    BY <2>1, <2>2, <2>3, <2>4, <2>5, InsertKeepsQueueInv
  <2>7. queue' \in Seq(Node) /\ Len(queue') = Len(queue) + 1
    BY <2>1, <2>2, <2>3, InsertAtLemma DEF TypeOK
  <2>8. num_beacon' \in Int
    BY <2>5 DEF TypeOK
  <2>9. TypeOK'
    BY <1>0, <1>5, <2>7, <2>8 DEF Accept, TypeOK
  <2>10. JitInv'
    BY <1>5, <2>7 DEF Accept, TypeOK, JitInv
  <2> QED
    BY <2>6, <2>9, <2>10
<1> QED
  BY <1>1, <1>2, <1>3, <1>4, <1>5 DEF Enqueue

(* Taking node i out of the queue, as Purge and Dequeue do. *)
LEMMA TakeOut ==
    ASSUME IInv, NEW i \in 1 .. Len(queue),
           queue' = RemoveAt(queue, i),
           num_beacon' = num_beacon - (IF IsBeacon(queue[i]) THEN 1 ELSE 0)
    PROVE  /\ QueueInv(queue', num_beacon')
           /\ queue' \in Seq(Node)
           /\ num_beacon' \in Int
           /\ ToSet(queue') = ToSet(queue) \ {queue[i]}
<1>1. /\ QueueInv(queue', num_beacon')
      /\ ToSet(queue') = ToSet(queue) \ {queue[i]}
  BY RemoveKeepsQueueInv DEF IInv
<1>2. queue' \in Seq(Node)
  BY <1>1 DEF QueueInv
<1>3. num_beacon' \in Int
  BY DEF IInv, TypeOK
<1> QED
  BY <1>1, <1>2, <1>3

LEMMA JitDoneType ==
    ASSUME TypeOK
    PROVE  JitDone \in [pc : {"wait", "scan", "dequeue", "send"}, time : Time,
                        skipped : BOOLEAN, idx : Nat,
                        peeked : Node \cup {NoNode}, pkt : Node \cup {NoNode}]
  BY DEF TypeOK, JitDone

(* Every step of thread_jit keeps the invariant. *)
LEMMA JitStep ==
    ASSUME IInv, JitThread
    PROVE  IInv'
<1> USE DEF IInv
<1>1. CASE Poll
  BY <1>1 DEF Poll, TypeOK, QueueInv, JitInv
<1>2. CASE Purge
  <2>1. PICK i \in OutdatedAt :
          /\ queue' = RemoveAt(queue, i)
          /\ num_beacon' = num_beacon - (IF IsBeacon(queue[i]) THEN 1 ELSE 0)
          /\ jit' = [jit EXCEPT !.skipped = @ \/ i = 1]
    BY <1>2 DEF Purge, Uncounted
  <2>2. i \in 1 .. Len(queue)
    BY DEF OutdatedAt, ScanFrom, TypeOK
  <2>3. QueueInv(queue', num_beacon') /\ queue' \in Seq(Node) /\ num_beacon' \in Int
    BY <2>1, <2>2, TakeOut
  <2>4. (jit.skipped \/ i = 1) \in BOOLEAN
    BY DEF TypeOK
  <2>5. TypeOK'
    BY <1>2, <2>1, <2>3, <2>4 DEF Purge, TypeOK
  <2>6. JitInv'
    BY <1>2, <2>1 DEF Purge, JitInv, TypeOK
  <2> QED
    BY <2>3, <2>5, <2>6
<1>3. CASE PeekDue
  <2>1. PICK i \in DOMAIN queue :
          jit' = [jit EXCEPT !.pc = "dequeue", !.idx = i, !.peeked = queue[i]]
    BY <1>3 DEF PeekDue
  <2>2. i \in 1 .. Len(queue) /\ i \in Nat /\ queue[i] \in Node
    BY DEF TypeOK
  <2>3. TypeOK'
    BY <1>3, <2>1, <2>2 DEF PeekDue, TypeOK
  <2>4. JitInv'
    BY <1>3, <2>1, <2>2 DEF PeekDue, TypeOK, JitInv
  <2> QED
    BY <1>3, <2>3, <2>4 DEF PeekDue, QueueInv
<1>4. CASE PeekNothing
  BY <1>4 DEF PeekNothing, TypeOK, QueueInv, JitInv
<1>5. CASE Dequeue
  <2>1. jit.idx \in 1 .. Len(queue) /\ queue[jit.idx] \in Node
    BY <1>5 DEF Dequeue, JitInv, TypeOK
  <2>2. QueueInv(queue', num_beacon') /\ queue' \in Seq(Node) /\ num_beacon' \in Int
    BY <1>5, <2>1, TakeOut DEF Dequeue, Uncounted
  <2>3. TypeOK'
    BY <1>5, <2>1, <2>2 DEF Dequeue, TypeOK
  <2>4. JitInv'
    BY <1>5, <2>1 DEF Dequeue, TypeOK, JitInv
  <2> QED
    BY <2>2, <2>3, <2>4
<1>6. CASE SendLost \/ SendFails
  <2>1. jit' = JitDone /\ UNCHANGED <<now, queue, num_beacon, down, radio, requests>>
    BY <1>6 DEF SendLost, SendFails
  <2>2. TypeOK'
    BY <2>1, JitDoneType DEF TypeOK
  <2>3. JitInv'
    BY <2>1 DEF JitDone, JitInv, TypeOK
  <2> QED
    BY <2>1, <2>2, <2>3 DEF QueueInv
<1>7. CASE Send
  <2>1. /\ jit' = JitDone /\ UNCHANGED <<now, queue, num_beacon, down, requests>>
        /\ radio' = [status |-> "SCHEDULED", pkt |-> jit.pkt]
    BY <1>7 DEF Send
  <2>2. TypeOK'
    BY <2>1, JitDoneType DEF TypeOK
  <2>3. JitInv'
    BY <2>1 DEF JitDone, JitInv, TypeOK
  <2> QED
    BY <2>1, <2>2, <2>3 DEF QueueInv
<1> QED
  BY <1>1, <1>2, <1>3, <1>4, <1>5, <1>6, <1>7 DEF JitThread

LEMMA TickStep ==
    ASSUME IInv, Tick
    PROVE  IInv'
<1>1. now' \in Time
  BY PlusType, TimeIsInt DEF IInv, TypeOK, Tick
<1>2. radio' \in [status : {"FREE", "SCHEDULED", "EMITTING"}, pkt : Node \cup {NoNode}]
  BY DEF IInv, TypeOK, Tick, RadioAt
<1>3. TypeOK'
  BY <1>1, <1>2 DEF IInv, TypeOK, Tick
<1> QED
  BY <1>3 DEF IInv, Tick, QueueInv, JitInv

LEMMA NextIInv == IInv /\ [Next]_vars => IInv'
<1> SUFFICES ASSUME IInv, [Next]_vars PROVE IInv'
  OBVIOUS
<1>1. CASE UNCHANGED vars
  BY <1>1 DEF vars, IInv, TypeOK, QueueInv, JitInv
<1> QED
  BY <1>1, ServerStep, JitStep, TickStep DEF Next

THEOREM Invariance == Spec => []IInv
  BY InitIInv, NextIInv, PTL DEF Spec

(* Type correctness of the scheduler. *)
THEOREM TypeCorrect == Spec => []TypeOK
<1>1. IInv => TypeOK
  BY DEF IInv
<1> QED
  BY <1>1, Invariance, PTL

(* Whatever the delays, however many server threads and in whatever order
   they run: no two packets in the queue claim the same air time.           *)
THEOREM QueueNeverOverlaps == Spec => []NoOverlap
<1>1. IInv => NoOverlap
  BY DEF IInv, QueueInv, NoOverlap
<1> QED
  BY <1>1, Invariance, PTL

(* The count the beacon allocator works from is always right. *)
THEOREM BeaconsAreCounted == Spec => []BeaconCount
<1>1. IInv => BeaconCount
  BY DEF IInv, QueueInv, BeaconCount
<1> QED
  BY <1>1, Invariance, PTL

-----------------------------------------------------------------------------
(* One server thread alone never overruns the nodes array: between its test
   for a full queue and its insertion the queue can only shrink.  (Two threads
   do: see the run that refutes QueueFits.)                                 *)
RoomInv ==
    /\ QueueFits
    /\ \A s \in Servers : down[s].pc = "insert" => Len(queue) < JIT_QUEUE_MAX

LEMMA RoomStep ==
    ASSUME \A s, t \in Servers : s = t,
           IInv, RoomInv, [Next]_vars
    PROVE  RoomInv'
<1> USE DEF IInv, RoomInv, QueueFits
<1>0. queue \in Seq(Node) /\ Len(queue) \in Nat
  BY DEF TypeOK
<1>1. ASSUME NEW s \in Servers, ReadTime(s) \/ RejectFull(s) \/ Reject(s)
      PROVE  RoomInv'
  BY <1>1 DEF ReadTime, RejectFull, Reject, TypeOK, Idle
<1>2. ASSUME NEW s \in Servers, PassFull(s)
      PROVE  RoomInv'
  <2>1. Len(queue) < JIT_QUEUE_MAX
    BY <1>0, <1>2, JitConstants DEF PassFull, IsFull
  <2> QED
    BY <1>2, <2>1 DEF PassFull, TypeOK
<1>3. ASSUME NEW s \in Servers, Accept(s)
      PROVE  RoomInv'
  <2>1. Len(queue) < JIT_QUEUE_MAX
    BY <1>3 DEF Accept
  <2>2. PICK k \in Places(queue, Candidate(s)) : queue' = InsertAt(queue, k, Candidate(s))
    BY <1>3 DEF Accept
  <2>3. k \in 1 .. Len(queue) + 1
    BY <2>2 DEF Places
  <2>4. Len(queue') = Len(queue) + 1
    BY <1>0, <2>2, <2>3, CandidateType, InsertAtLemma
  <2>5. \A t \in Servers : down'[t].pc # "insert"
    BY <1>3 DEF Accept, TypeOK, Idle
  <2> QED
    BY <1>0, <2>1, <2>4, <2>5, JitConstants
<1>4. ASSUME NEW i \in 1 .. Len(queue), queue' = RemoveAt(queue, i), UNCHANGED down
      PROVE  RoomInv'
  <2>1. Len(queue') = Len(queue) - 1
    BY <1>0, <1>4, RemoveAtLemma
  <2> QED
    BY <1>0, <1>4, <2>1, JitConstants
<1>5. CASE Purge
  <2>1. PICK i \in OutdatedAt : queue' = RemoveAt(queue, i)
    BY <1>5 DEF Purge
  <2>2. i \in 1 .. Len(queue)
    BY <1>0 DEF OutdatedAt, ScanFrom
  <2> QED
    BY <1>4, <1>5, <2>1, <2>2 DEF Purge
<1>6. CASE Dequeue
  BY <1>4, <1>6 DEF Dequeue, JitInv
<1>7. CASE UNCHANGED <<queue, down>>
  BY <1>7
<1>8. CASE Poll \/ PeekDue \/ PeekNothing \/ SendLost \/ SendFails \/ Send \/ Tick \/ UNCHANGED vars
  BY <1>7, <1>8 DEF Poll, PeekDue, PeekNothing, SendLost, SendFails, Send, Tick, vars
<1> QED
  BY <1>1, <1>2, <1>3, <1>5, <1>6, <1>8 DEF Next, Enqueue, JitThread

THEOREM LoneServerFits ==
    ASSUME \A s, t \in Servers : s = t
    PROVE  Spec => []QueueFits
<1>1. Init => RoomInv
  BY JitConstants DEF Init, RoomInv, QueueFits, Idle
<1>2. IInv /\ RoomInv /\ [Next]_vars => RoomInv'
  BY RoomStep
<1>3. RoomInv => QueueFits
  BY DEF RoomInv
<1> QED
  BY <1>1, <1>2, <1>3, Invariance, PTL DEF Spec

-----------------------------------------------------------------------------
(* The detailed scheduler implements the book of reservations. *)
LEMMA BookInit == Init => Book!Init
  BY DEF Init, Book!Init, ToSet

LEMMA AcceptBooks ==
    ASSUME IInv, NEW s \in Servers, Accept(s)
    PROVE  Book!Next
<1> DEFINE x == Candidate(s)
<1>1. PICK k \in Places(queue, x) : queue' = InsertAt(queue, k, x)
  BY DEF Accept
<1>2. k \in 1 .. Len(queue) + 1 /\ queue \in Seq(Node)
  BY <1>1 DEF Places, IInv, TypeOK
<1>3. x \in Node /\ x.pre = PreDelay(x.type)
  BY CandidateType DEF IInv
<1>4. \A i \in DOMAIN queue : ~Overlaps(x, queue[i])
  BY AcceptIsClear DEF Accept
<1> HIDE DEF x
<1>5. \A n \in ToSet(queue) : KeepApart(x, n)
  BY <1>2, <1>3, <1>4, AcceptedIsApart DEF ToSet
<1>6. x \notin ToSet(queue)
  BY <1>5 DEF KeepApart
<1>7. ToSet(queue') = ToSet(queue) \cup {x}
  BY <1>1, <1>2, <1>3, InsertAtElements
<1>8. UNCHANGED jit
  BY DEF Accept
<1>9. Book!Book(x)
  BY <1>3, <1>5, <1>6, <1>7, <1>8 DEF Book!Book
<1> QED
  BY <1>7, <1>9 DEF Book!Next

LEMMA StepIsABookStep ==
    ASSUME IInv, [Next]_vars
    PROVE  [Book!Next]_<<ToSet(queue), jit.pkt>>
<1> USE DEF IInv
<1>0. NoNode \notin Node
  BY SchedulerConstants
<1>1. CASE UNCHANGED <<queue, jit>>
  BY <1>1
<1>2. ASSUME NEW s \in Servers, ReadTime(s) \/ RejectFull(s) \/ PassFull(s) \/ Reject(s)
      PROVE  UNCHANGED <<queue, jit>>
  BY <1>2 DEF ReadTime, RejectFull, PassFull, Reject
<1>3. ASSUME NEW s \in Servers, Accept(s)
      PROVE  Book!Next
  BY <1>3, AcceptBooks
<1>4. CASE Poll \/ PeekDue \/ PeekNothing
  <2>1. jit'.pkt = jit.pkt /\ queue' = queue
    BY <1>4 DEF Poll, PeekDue, PeekNothing, TypeOK
  <2> QED
    BY <2>1
<1>5. CASE Purge
  <2>1. PICK i \in OutdatedAt :
          /\ queue' = RemoveAt(queue, i)
          /\ num_beacon' = num_beacon - (IF IsBeacon(queue[i]) THEN 1 ELSE 0)
          /\ jit' = [jit EXCEPT !.skipped = @ \/ i = 1]
    BY <1>5 DEF Purge, Uncounted
  <2>2. i \in 1 .. Len(queue)
    BY DEF OutdatedAt, ScanFrom, TypeOK
  <2>3. ToSet(queue') = ToSet(queue) \ {queue[i]}
    BY <2>1, <2>2, TakeOut
  <2>4. queue[i] \in ToSet(queue)
    BY <2>2 DEF ToSet, TypeOK
  <2>5. jit.pkt = NoNode /\ jit'.pkt = jit.pkt
    BY <1>5, <2>1 DEF Purge, JitInv, TypeOK
  <2>6. Book!GiveUp(queue[i])
    BY <2>3, <2>5 DEF Book!GiveUp
  <2> QED
    BY <2>4, <2>6 DEF Book!Next
<1>6. CASE Dequeue
  <2>1. jit.idx \in 1 .. Len(queue)
    BY <1>6 DEF Dequeue, JitInv
  <2>2. ToSet(queue') = ToSet(queue) \ {queue[jit.idx]}
    BY <1>6, <2>1, TakeOut DEF Dequeue, Uncounted
  <2>3. queue[jit.idx] \in ToSet(queue)
    BY <2>1 DEF ToSet, TypeOK
  <2>4. jit.pkt = NoNode /\ jit'.pkt = queue[jit.idx]
    BY <1>6 DEF Dequeue, JitInv, TypeOK
  <2>5. Book!Take(queue[jit.idx])
    BY <2>2, <2>4 DEF Book!Take
  <2> QED
    BY <2>3, <2>5 DEF Book!Next
<1>7. CASE SendLost \/ SendFails \/ Send
  <2>1. jit' = JitDone /\ queue' = queue /\ jit.pc = "send"
    BY <1>7 DEF SendLost, SendFails, Send
  <2>2. jit.pkt # NoNode
    BY <1>0, <2>1 DEF JitInv
  <2>3. jit'.pkt = NoNode
    BY <2>1 DEF JitDone, TypeOK
  <2>4. Book!Finish
    BY <2>1, <2>2, <2>3 DEF Book!Finish
  <2> QED
    BY <2>4 DEF Book!Next
<1>8. CASE Tick \/ UNCHANGED vars
  BY <1>1, <1>8 DEF Tick, vars
<1> QED
  BY <1>1, <1>2, <1>3, <1>4, <1>5, <1>6, <1>7, <1>8 DEF Next, Enqueue, JitThread

THEOREM ScheduleIsABook == Spec => ImplementsBook
  BY BookInit, StepIsABookStep, Invariance, PTL DEF Spec, ImplementsBook, Book!Spec

-----------------------------------------------------------------------------
(* Counter arithmetic, as distances along the counter. *)
LEMMA SubCases ==
    ASSUME NEW a \in Time, NEW b \in Time
    PROVE  Sub(a, b) = IF a >= b THEN a - b ELSE a - b + Wrap
<1>1. a \in Int /\ b \in Int /\ Wrap \in Nat \ {0} /\ a - b < Wrap /\ a - b + Wrap >= 0
  BY JitConstants DEF Time
<1>2. CASE a >= b
  BY <1>1, <1>2 DEF Sub
<1>3. CASE a < b
  BY <1>1, <1>3 DEF Sub
<1> QED
  BY <1>1, <1>2, <1>3

LEMMA PlusCases ==
    ASSUME NEW a \in Time, NEW d \in Time
    PROVE  Plus(a, d) = IF a + d < Wrap THEN a + d ELSE a + d - Wrap
<1>1. a \in Int /\ d \in Int /\ Wrap \in Nat \ {0} /\ a + d >= 0 /\ a + d < 2 * Wrap
  BY JitConstants DEF Time
<1>2. CASE a + d < Wrap
  BY <1>1, <1>2 DEF Plus
<1>3. CASE a + d >= Wrap
  BY <1>1, <1>3 DEF Plus
<1> QED
  BY <1>1, <1>2, <1>3

(* Distances add up along the counter ... *)
LEMMA SubChain ==
    ASSUME NEW c \in Time, NEW b \in Time, NEW a \in Time,
           Sub(c, b) + Sub(b, a) < Wrap
    PROVE  Sub(c, a) = Sub(c, b) + Sub(b, a)
<1>1. a \in Int /\ b \in Int /\ c \in Int /\ Wrap \in Nat
  BY JitConstants DEF Time
<1>2. /\ Sub(c, b) = IF c >= b THEN c - b ELSE c - b + Wrap
      /\ Sub(b, a) = IF b >= a THEN b - a ELSE b - a + Wrap
      /\ Sub(c, a) = IF c >= a THEN c - a ELSE c - a + Wrap
  BY SubCases
<1>3. a < Wrap /\ b < Wrap /\ c < Wrap /\ a >= 0 /\ b >= 0 /\ c >= 0
  BY JitConstants DEF Time
<1> QED
  BY <1>1, <1>2, <1>3

(* ... and of two times seen from a third, the distance is the difference. *)
LEMMA SubApart ==
    ASSUME NEW c \in Time, NEW b \in Time, NEW a \in Time,
           Sub(c, a) >= Sub(b, a)
    PROVE  /\ Sub(c, b) = Sub(c, a) - Sub(b, a)
           /\ Sub(c, a) > Sub(b, a) => Sub(b, c) = Wrap - (Sub(c, a) - Sub(b, a))
<1>1. a \in Int /\ b \in Int /\ c \in Int /\ Wrap \in Nat
  BY JitConstants DEF Time
<1>2. a < Wrap /\ b < Wrap /\ c < Wrap /\ a >= 0 /\ b >= 0 /\ c >= 0
  BY JitConstants DEF Time
<1>3. /\ Sub(c, b) = IF c >= b THEN c - b ELSE c - b + Wrap
      /\ Sub(b, c) = IF b >= c THEN b - c ELSE b - c + Wrap
      /\ Sub(c, a) = IF c >= a THEN c - a ELSE c - a + Wrap
      /\ Sub(b, a) = IF b >= a THEN b - a ELSE b - a + Wrap
  BY SubCases
<1> QED
  BY <1>1, <1>2, <1>3

LEMMA SubPlus ==
    ASSUME NEW c \in Time, NEW a \in Time, NEW d \in Nat,
           Sub(c, a) + d < Wrap
    PROVE  Sub(Plus(c, d), a) = Sub(c, a) + d
<1>1. a \in Int /\ c \in Int /\ Wrap \in Nat
  BY JitConstants DEF Time
<1>2. Sub(c, a) \in 0 .. Wrap - 1
  BY SubType, TimeIsInt DEF Time
<1>3. d \in Time
  BY <1>1, <1>2 DEF Time
<1>4. Plus(c, d) \in Time
  BY <1>1, PlusType
<1>5. /\ Plus(c, d) = IF c + d < Wrap THEN c + d ELSE c + d - Wrap
      /\ Sub(Plus(c, d), a) = IF Plus(c, d) >= a THEN Plus(c, d) - a ELSE Plus(c, d) - a + Wrap
      /\ Sub(c, a) = IF c >= a THEN c - a ELSE c - a + Wrap
  BY <1>3, <1>4, SubCases, PlusCases
<1>6. a < Wrap /\ c < Wrap /\ a >= 0 /\ c >= 0 /\ Plus(c, d) \in Int
  BY <1>4, JitConstants DEF Time
<1> QED
  BY <1>1, <1>5, <1>6

(* A tick brings what lies ahead closer, and takes what has passed further. *)
LEMMA SubTick ==
    ASSUME NEW c \in Time, NEW t \in Time
    PROVE  /\ Plus(t, 1) \in Time
           /\ Sub(c, t) >= 1 => Sub(c, Plus(t, 1)) = Sub(c, t) - 1
           /\ Sub(t, c) + 1 < Wrap => Sub(Plus(t, 1), c) = Sub(t, c) + 1
<1>1. t \in Int /\ c \in Int /\ Wrap \in Nat
  BY JitConstants DEF Time
<1>2. Plus(t, 1) \in Time
  BY <1>1, PlusType
<1>3. ASSUME Sub(c, t) >= 1 PROVE Sub(c, Plus(t, 1)) = Sub(c, t) - 1
  <2>1. 1 \in Time
    BY <1>1, <1>3, SubCases DEF Time
  <2>2. /\ Plus(t, 1) = IF t + 1 < Wrap THEN t + 1 ELSE t + 1 - Wrap
        /\ Sub(c, t) = IF c >= t THEN c - t ELSE c - t + Wrap
        /\ Sub(c, Plus(t, 1)) = IF c >= Plus(t, 1) THEN c - Plus(t, 1) ELSE c - Plus(t, 1) + Wrap
    BY <1>2, <2>1, SubCases, PlusCases
  <2>3. t < Wrap /\ c < Wrap /\ t >= 0 /\ c >= 0 /\ Plus(t, 1) \in Int
    BY <1>2, JitConstants DEF Time
  <2> QED
    BY <1>1, <1>3, <2>2, <2>3
<1>4. Sub(t, c) + 1 < Wrap => Sub(Plus(t, 1), c) = Sub(t, c) + 1
  BY SubPlus
<1> QED
  BY <1>2, <1>3, <1>4

LEMMA SubZero ==
    ASSUME NEW a \in Time, NEW b \in Time
    PROVE  Sub(a, b) = 0 <=> a = b
<1>1. a \in Int /\ b \in Int /\ Wrap \in Nat
  BY JitConstants DEF Time
<1>2. a < Wrap /\ b < Wrap /\ a >= 0 /\ b >= 0
  BY JitConstants DEF Time
<1>3. CASE a >= b
  <2>1. Sub(a, b) = a - b
    BY <1>3, SubCases
  <2> QED
    BY <1>1, <2>1
<1>4. CASE a < b
  <2>1. Sub(a, b) = a - b + Wrap
    BY <1>1, <1>4, SubCases
  <2>2. Sub(a, b) >= 1
    BY <1>1, <1>2, <2>1
  <2> QED
    BY <1>1, <1>4, <2>1, <2>2
<1> QED
  BY <1>1, <1>3, <1>4

LEMMA SubNat == \A a, b \in Time : Sub(a, b) \in Nat /\ Sub(a, b) < Wrap
  BY SubType, TimeIsInt, JitConstants DEF Time
-----------------------------------------------------------------------------
(* How far from a server's clock reading a slot can be, before the horizon is
   enforced: still less than the turn minus what two packets claim.          *)
Far(T) == Horizon + MaxStall + TX_JIT_DELAY + Claim(T)

LEMMA ProductStep ==
    ASSUME NEW k \in Nat, NEW g \in Nat
    PROVE  (k + 1) * g = k * g + g /\ k * g \in Nat
OBVIOUS

LEMMA ProductMonotone ==
    ASSUME NEW k \in Nat, NEW m \in Nat, NEW g \in Nat, k <= m
    PROVE  k * g <= m * g
<1>1. (m - k) * g >= 0
  OBVIOUS
<1>2. (m - k) * g = m * g - k * g
  OBVIOUS
<1>3. m * g \in Nat /\ k * g \in Nat
  OBVIOUS
<1> QED
  BY <1>1, <1>2, <1>3

LEMMA PacedFacts ==
    ASSUME NEW T, Paced(T)
    PROVE  /\ T \in Nat /\ Wrap \in Nat /\ Horizon \in Nat /\ ASAP_DELAY \in Nat
           /\ TX_START_DELAY \in Nat /\ TX_MARGIN_DELAY \in Nat /\ TX_JIT_DELAY \in Nat
           /\ JitLag \in Nat /\ MaxStall \in Nat /\ JitLag >= 1
           /\ Claim(T) \in Nat /\ SlotGap(T) \in Nat /\ Far(T) \in Nat
           /\ TX_START_DELAY + 2 * JitLag <= TX_JIT_DELAY
           /\ 2 * JitLag + MaxStall <= TX_MARGIN_DELAY + TX_JIT_DELAY + 1
           /\ TX_START_DELAY + TX_MARGIN_DELAY + TX_JIT_DELAY < ASAP_DELAY
           /\ ASAP_DELAY + SlotGap(T) < Horizon
           /\ 2 * Horizon <= Wrap
           /\ Far(T) + Claim(T) < Wrap /\ Far(T) < Wrap
           /\ Claim(T) = TX_START_DELAY + TX_JIT_DELAY + T + TX_MARGIN_DELAY
           /\ SlotGap(T) = Claim(T) + TX_JIT_DELAY + Claim(T)
           /\ Far(T) = Horizon + MaxStall + TX_JIT_DELAY + Claim(T)
           /\ TX_JIT_DELAY >= 2 /\ ASAP_DELAY < Horizon /\ MaxStall < Horizon
<1>1. /\ T \in Nat /\ Wrap \in Nat /\ Horizon \in Nat /\ ASAP_DELAY \in Nat
      /\ TX_START_DELAY \in Nat /\ TX_MARGIN_DELAY \in Nat /\ TX_JIT_DELAY \in Nat
      /\ JitLag \in Nat /\ MaxStall \in Nat /\ JitLag >= 1
      /\ JIT_QUEUE_MAX \in Nat /\ 1 <= JIT_QUEUE_MAX
  BY JitConstants, SchedulerConstants DEF Paced, Horizon
<1>2. Claim(T) \in Nat /\ SlotGap(T) \in Nat /\ Far(T) \in Nat
  BY <1>1 DEF Claim, SlotGap, Far
<1>3. SlotGap(T) <= JIT_QUEUE_MAX * SlotGap(T)
  <2>1. 1 * SlotGap(T) <= JIT_QUEUE_MAX * SlotGap(T)
    BY <1>1, <1>2, ProductMonotone
  <2> QED
    BY <1>2, <2>1
<1>4. ASAP_DELAY + SlotGap(T) < Horizon
  <2>1. JIT_QUEUE_MAX * SlotGap(T) \in Nat
    BY <1>1, <1>2
  <2> QED
    BY <1>1, <1>2, <1>3, <2>1 DEF Paced
<1>5. /\ TX_START_DELAY + 2 * JitLag <= TX_JIT_DELAY
      /\ 2 * JitLag + MaxStall <= TX_MARGIN_DELAY + TX_JIT_DELAY + 1
      /\ TX_START_DELAY + TX_MARGIN_DELAY + TX_JIT_DELAY < ASAP_DELAY
      /\ 2 * Horizon <= Wrap
  BY DEF Paced
<1>6. /\ Claim(T) = TX_START_DELAY + TX_JIT_DELAY + T + TX_MARGIN_DELAY
      /\ SlotGap(T) = Claim(T) + TX_JIT_DELAY + Claim(T)
      /\ Far(T) = Horizon + MaxStall + TX_JIT_DELAY + Claim(T)
  BY DEF Claim, SlotGap, Far
<1>7. TX_JIT_DELAY >= 2 /\ ASAP_DELAY < Horizon /\ MaxStall < Horizon
  BY <1>1, <1>2, <1>4, <1>5
<1>8. Far(T) + Claim(T) < Wrap /\ Far(T) < Wrap
  BY <1>1, <1>2, <1>4, <1>5, <1>6
<1> QED
  BY <1>1, <1>2, <1>4, <1>5, <1>6, <1>7, <1>8
-----------------------------------------------------------------------------
(* Data packets in the queue, and where they lie seen from a time t. *)
Air(n) == n.post
DataNode(n, T) ==
    /\ n \in Node
    /\ n.type # Beacon
    /\ n.pre = TX_START_DELAY + TX_JIT_DELAY
    /\ Air(n) \in 1 .. T

From(n, t) == Sub(n.count, t)
InOrder(q, t) == \A i, j \in DOMAIN q : i < j => From(q[i], t) < From(q[j], t)
Within(q, t, b) == \A i \in DOMAIN q : From(q[i], t) < b
DataQueue(q, T) == q \in Seq(Node) /\ \A i \in DOMAIN q : DataNode(q[i], T)

LEMMA NodeTypes ==
    ASSUME NEW n \in Node
    PROVE  n.count \in Time /\ n.type \in PktTypes /\ n.pre \in Nat /\ Air(n) \in Nat
BY DEF Node, Air

LEMMA DataPre ==
    ASSUME NEW type \in PktTypes, type # Beacon
    PROVE  PreDelay(type) = TX_START_DELAY + TX_JIT_DELAY
BY DEF PreDelay

(* The collision test between data packets, as a test on how far they are from
   a third time: no wrap of the counter comes between them.                  *)
LEMMA CollisionFrom ==
    ASSUME NEW T, Paced(T), NEW t \in Time,
           NEW c1 \in Time, NEW c2 \in Time, NEW p1 \in 0 .. T, NEW p2 \in 0 .. T,
           Sub(c1, t) < Far(T), Sub(c2, t) < Far(T)
    PROVE  LET P == TX_START_DELAY + TX_JIT_DELAY
               a == Sub(c1, t)
               b == Sub(c2, t)
           IN  Collision(c1, P, p1, c2, P, p2) <=>
                 /\ a <= b + P + p2 + TX_MARGIN_DELAY
                 /\ b <= a + P + p1 + TX_MARGIN_DELAY
<1> DEFINE P == TX_START_DELAY + TX_JIT_DELAY
           a == Sub(c1, t)
           b == Sub(c2, t)
<1>1. /\ T \in Nat /\ Wrap \in Nat /\ TX_MARGIN_DELAY \in Nat /\ P \in Nat
      /\ Claim(T) = P + T + TX_MARGIN_DELAY
      /\ Far(T) + Claim(T) < Wrap /\ Far(T) \in Nat
  BY PacedFacts DEF Claim
<1>2. a \in Nat /\ b \in Nat /\ a < Far(T) /\ b < Far(T)
  BY SubNat
<1>3. /\ a >= b => Sub(c1, c2) = a - b
      /\ b >= a => Sub(c2, c1) = b - a
      /\ a > b => Sub(c2, c1) = Wrap - (a - b)
      /\ b > a => Sub(c1, c2) = Wrap - (b - a)
  <2>1. a >= b => /\ Sub(c1, c2) = a - b
                  /\ a > b => Sub(c2, c1) = Wrap - (a - b)
    BY SubApart
  <2>2. b >= a => /\ Sub(c2, c1) = b - a
                  /\ b > a => Sub(c1, c2) = Wrap - (b - a)
    BY SubApart
  <2> QED
    BY <1>2, <2>1, <2>2
<1> HIDE DEF P, a, b
<1>4. p1 \in Nat /\ p2 \in Nat /\ p1 <= T /\ p2 <= T
  BY <1>1
<1>5. Collision(c1, P, p1, c2, P, p2) <=>
        \/ Sub(c1, c2) <= P + p2 + TX_MARGIN_DELAY
        \/ Sub(c2, c1) <= P + p1 + TX_MARGIN_DELAY
  BY DEF Collision
<1> DEFINE Close == a <= b + P + p2 + TX_MARGIN_DELAY /\ b <= a + P + p1 + TX_MARGIN_DELAY
<1>6. ASSUME a > b PROVE Collision(c1, P, p1, c2, P, p2) <=> Close
  BY <1>1, <1>2, <1>3, <1>4, <1>5, <1>6
<1>7. ASSUME b > a PROVE Collision(c1, P, p1, c2, P, p2) <=> Close
  BY <1>1, <1>2, <1>3, <1>4, <1>5, <1>7
<1>8. ASSUME a = b PROVE Collision(c1, P, p1, c2, P, p2) <=> Close
  BY <1>1, <1>2, <1>3, <1>4, <1>5, <1>8
<1>9. Collision(c1, P, p1, c2, P, p2) <=> Close
  BY <1>2, <1>6, <1>7, <1>8
<1> QED
  BY <1>9 DEF P, a, b

(* Two queued data packets: the later one is programmed after the earlier one
   has been sent.                                                           *)
LEMMA QueueGap ==
    ASSUME NEW T, Paced(T), NEW t \in Time, NEW q, DataQueue(q, T), AllApart(q),
           InOrder(q, t), Within(q, t, Far(T)),
           NEW i \in DOMAIN q, NEW j \in DOMAIN q, i < j
    PROVE  From(q[j], t) > From(q[i], t) + TX_START_DELAY + TX_JIT_DELAY + Air(q[i])
                              + TX_MARGIN_DELAY
<1> DEFINE m == q[j]
           n == q[i]
<1>1. DataNode(m, T) /\ DataNode(n, T)
  BY DEF DataQueue
<1>2. i # j
  BY DEF DataQueue
<1>3. KeepApart(m, n)
  BY <1>2 DEF AllApart
<1>4. From(n, t) < From(m, t) /\ From(m, t) < Far(T) /\ From(n, t) < Far(T)
  BY DEF InOrder, Within
<1> HIDE DEF m, n
<1>5. ~Collision(m.count, m.pre, Air(m), n.count, n.pre, Air(n))
  BY <1>1, <1>3 DEF KeepApart, PreTowards, DataNode, IsBeacon, Air
<1>6. m.count \in Time /\ n.count \in Time /\ Air(m) \in 0 .. T /\ Air(n) \in 0 .. T
  BY <1>1, NodeTypes DEF DataNode
<1> DEFINE P == TX_START_DELAY + TX_JIT_DELAY
<1>7. m.pre = P /\ n.pre = P
  BY <1>1 DEF DataNode
<1>8. ~(/\ From(m, t) <= From(n, t) + P + Air(n) + TX_MARGIN_DELAY
        /\ From(n, t) <= From(m, t) + P + Air(m) + TX_MARGIN_DELAY)
  BY <1>4, <1>5, <1>6, <1>7, CollisionFrom DEF From
<1>9. /\ From(m, t) \in Nat /\ From(n, t) \in Nat /\ P \in Nat /\ TX_MARGIN_DELAY \in Nat
      /\ Air(m) \in Nat /\ Air(n) \in Nat /\ TX_START_DELAY \in Nat /\ TX_JIT_DELAY \in Nat
  BY <1>6, SubNat, PacedFacts DEF From
<1>10. From(m, t) > From(n, t) + TX_START_DELAY + TX_JIT_DELAY + Air(n) + TX_MARGIN_DELAY
  BY <1>4, <1>8, <1>9
<1> QED
  BY <1>10 DEF m, n
-----------------------------------------------------------------------------
(* The ASAP search: what it returns, and that the slot behind the first node
   that leaves room is in nobody's way.                                     *)
LEMMA AsapChoice ==
    ASSUME NEW q \in Seq(Node), NEW t, NEW post
    PROVE  \/ /\ AsapCount(q, t, post) = Plus(t, ASAP_DELAY)
              /\ \A i \in DOMAIN q : ~InTheWay(Plus(t, ASAP_DELAY), post, q[i])
           \/ \E c, b \in DOMAIN q :
                /\ AsapCount(q, t, post) = SlotBehind(q[c])
                /\ RoomBehind(q, c, post)
                /\ \A j \in 1 .. c - 1 : ~RoomBehind(q, j, post)
                /\ InTheWay(Plus(t, ASAP_DELAY), post, q[b])
<1>1. CASE \A i \in DOMAIN q : ~InTheWay(Plus(t, ASAP_DELAY), post, q[i])
  BY <1>1 DEF AsapCount
<1>2. ASSUME NEW b \in DOMAIN q, InTheWay(Plus(t, ASAP_DELAY), post, q[b])
      PROVE  \E c \in DOMAIN q :
                /\ AsapCount(q, t, post) = SlotBehind(q[c])
                /\ RoomBehind(q, c, post)
                /\ \A j \in 1 .. c - 1 : ~RoomBehind(q, j, post)
  <2> DEFINE R == {i \in DOMAIN q : RoomBehind(q, i, post)}
             First(i) == RoomBehind(q, i, post) /\ \A j \in 1 .. i - 1 : ~RoomBehind(q, j, post)
  <2>1. DOMAIN q = 1 .. Len(q) /\ Len(q) \in Nat
    OBVIOUS
  <2>2. Len(q) \in R
    BY <1>2, <2>1 DEF RoomBehind
  <2>3. PICK i \in R : \A j \in R : i <= j
    <3>1. R \subseteq Nat /\ R # {}
      BY <2>1, <2>2
    <3> HIDE DEF R
    <3> QED
      BY <3>1, LeastNat
  <2>4. i \in DOMAIN q /\ First(i)
    BY <2>1, <2>3
  <2> DEFINE c == CHOOSE k \in DOMAIN q : First(k)
  <2>5. c \in DOMAIN q /\ First(c)
    BY <2>4, Zenon
  <2>6. AsapCount(q, t, post) = SlotBehind(q[c])
    BY <1>2 DEF AsapCount
  <2> HIDE DEF c
  <2> QED
    BY <2>5, <2>6
<1> QED
  BY <1>1, <1>2

LEMMA SlotFrom ==
    ASSUME NEW T, Paced(T), NEW t \in Time, NEW n, DataNode(n, T),
           From(n, t) < Horizon + MaxStall
    PROVE  /\ SlotBehind(n) \in Time
           /\ Sub(SlotBehind(n), t) = From(n, t) + Air(n) + TX_START_DELAY + TX_JIT_DELAY + TX_JIT_DELAY
                                        + TX_MARGIN_DELAY
           /\ Sub(SlotBehind(n), t) < Far(T)
<1> DEFINE d == Air(n) + PreDelay(ClassC) + TX_JIT_DELAY + TX_MARGIN_DELAY
<1>1. /\ n.count \in Time /\ Air(n) \in Nat /\ Air(n) <= T
  BY NodeTypes, PacedFacts DEF DataNode
<1>2. PreDelay(ClassC) = TX_START_DELAY + TX_JIT_DELAY
  BY DataPre DEF PktTypes, ClassC, Beacon, ClassA, ClassB
<1>3. /\ d = Air(n) + TX_START_DELAY + TX_JIT_DELAY + TX_JIT_DELAY + TX_MARGIN_DELAY
      /\ d \in Nat /\ d <= TX_JIT_DELAY + Claim(T)
  BY <1>1, <1>2, PacedFacts DEF Claim
<1>4. Sub(n.count, t) + d < Far(T) /\ Far(T) < Wrap
  BY <1>1, <1>3, SubNat, PacedFacts DEF From, Far
<1>5. SlotBehind(n) = Plus(n.count, d)
  BY DEF SlotBehind, Air
<1> HIDE DEF d
<1>6. Sub(Plus(n.count, d), t) = Sub(n.count, t) + d
  <2>1. Sub(n.count, t) + d < Wrap
    BY <1>1, <1>3, <1>4, SubNat, PacedFacts
  <2> QED
    BY <1>1, <1>3, <2>1, SubPlus
<1>7. SlotBehind(n) \in Time
  <2>1. n.count \in Int /\ d \in Int
    BY <1>1, <1>3 DEF Time
  <2> QED
    BY <1>5, <2>1, PlusType
<1> QED
  BY <1>1, <1>3, <1>4, <1>5, <1>6, <1>7, SubNat, PacedFacts DEF From

(* A slot in the way of a node, seen from t. *)
LEMMA InTheWayFrom ==
    ASSUME NEW T, Paced(T), NEW t \in Time, NEW n, DataNode(n, T), NEW post \in 1 .. T,
           NEW c \in Time, Sub(c, t) < Far(T), From(n, t) < Far(T)
    PROVE  InTheWay(c, post, n) <=>
             /\ Sub(c, t) <= From(n, t) + TX_START_DELAY + TX_JIT_DELAY + Air(n) + TX_MARGIN_DELAY
             /\ From(n, t) <= Sub(c, t) + TX_START_DELAY + TX_JIT_DELAY + post + TX_MARGIN_DELAY
<1>1. /\ n.count \in Time /\ Air(n) \in 0 .. T /\ post \in 0 .. T
      /\ n.pre = TX_START_DELAY + TX_JIT_DELAY
  BY NodeTypes, PacedFacts DEF DataNode
<1>2. PreDelay(ClassC) = TX_START_DELAY + TX_JIT_DELAY
  BY DataPre DEF PktTypes, ClassC, Beacon, ClassA, ClassB
<1> DEFINE P == TX_START_DELAY + TX_JIT_DELAY
<1>3. InTheWay(c, post, n) <=> Collision(c, P, post, n.count, P, Air(n))
  BY <1>1, <1>2 DEF InTheWay, Air
<1>4. Collision(c, P, post, n.count, P, Air(n)) <=>
        /\ Sub(c, t) <= Sub(n.count, t) + P + Air(n) + TX_MARGIN_DELAY
        /\ Sub(n.count, t) <= Sub(c, t) + P + post + TX_MARGIN_DELAY
  BY <1>1, CollisionFrom DEF From
<1>5. /\ TX_START_DELAY \in Nat /\ TX_JIT_DELAY \in Nat /\ TX_MARGIN_DELAY \in Nat
      /\ Air(n) \in Nat /\ post \in Nat /\ Sub(c, t) \in Nat /\ Sub(n.count, t) \in Nat
  BY <1>1, SubNat, PacedFacts
<1> QED
  BY <1>3, <1>4, <1>5 DEF From
(* Up to the node the search stops at, each node lies close behind the one
   before it: there was no room.                                            *)
LEMMA CrowdedUpTo ==
    ASSUME NEW T, Paced(T), NEW t \in Time, NEW q, DataQueue(q, T),
           InOrder(q, t), Within(q, t, Horizon + MaxStall),
           NEW post \in 1 .. T,
           NEW c \in DOMAIN q, \A j \in 1 .. c - 1 : ~RoomBehind(q, j, post),
           NEW b \in DOMAIN q, InTheWay(Plus(t, ASAP_DELAY), post, q[b])
    PROVE  \A k \in 1 .. c : From(q[k], t) <= ASAP_DELAY + Claim(T) + (k - 1) * SlotGap(T)
<1> DEFINE Bound(k) == ASAP_DELAY + Claim(T) + (k - 1) * SlotGap(T)
           Bad == {k \in 1 .. c : ~(From(q[k], t) <= Bound(k))}
<1>0. /\ ASAP_DELAY \in Nat /\ Claim(T) \in Nat /\ SlotGap(T) \in Nat /\ T \in Nat
      /\ TX_START_DELAY \in Nat /\ TX_JIT_DELAY \in Nat /\ TX_MARGIN_DELAY \in Nat
      /\ post \in Nat /\ post <= T
      /\ Claim(T) = TX_START_DELAY + TX_JIT_DELAY + T + TX_MARGIN_DELAY
      /\ SlotGap(T) = Claim(T) + TX_JIT_DELAY + Claim(T)
      /\ Horizon + MaxStall <= Far(T) /\ Horizon \in Nat /\ MaxStall \in Nat /\ Far(T) \in Nat
      /\ ASAP_DELAY < Far(T) /\ ASAP_DELAY < Wrap /\ Wrap \in Nat
  BY PacedFacts DEF Claim, SlotGap, Far
<1>1. DOMAIN q = 1 .. Len(q) /\ Len(q) \in Nat /\ c \in Nat
  BY DEF DataQueue
<1>2. ASSUME NEW i \in DOMAIN q
      PROVE  /\ DataNode(q[i], T) /\ q[i].count \in Time
             /\ From(q[i], t) \in Nat /\ From(q[i], t) < Horizon + MaxStall
             /\ From(q[i], t) < Far(T)
             /\ Air(q[i]) \in Nat /\ Air(q[i]) <= T
  <2>1. DataNode(q[i], T) /\ From(q[i], t) < Horizon + MaxStall
    BY DEF DataQueue, Within
  <2>2. q[i].count \in Time /\ Air(q[i]) \in Nat /\ Air(q[i]) <= T
    BY <1>0, <2>1, NodeTypes DEF DataNode
  <2>3. From(q[i], t) \in Nat
    BY <2>2, SubNat DEF From
  <2> QED
    BY <1>0, <2>1, <2>2, <2>3
<1>3. From(q[1], t) <= ASAP_DELAY + Claim(T)
  <2>1. 1 \in DOMAIN q /\ (b = 1 \/ 1 < b)
    BY <1>1
  <2>2. From(q[1], t) <= From(q[b], t)
    BY <1>2, <2>1 DEF InOrder
  <2>3. Plus(t, ASAP_DELAY) \in Time /\ Sub(Plus(t, ASAP_DELAY), t) = ASAP_DELAY
    <3>1. Sub(t, t) = 0 /\ t \in Int
      BY SubSelf, TimeIsInt
    <3>2. Sub(t, t) + ASAP_DELAY < Wrap
      BY <1>0, <3>1
    <3>3. Sub(Plus(t, ASAP_DELAY), t) = Sub(t, t) + ASAP_DELAY
      BY <1>0, <3>2, SubPlus
    <3> QED
      BY <1>0, <3>1, <3>3, PlusType
  <2>4. From(q[b], t) <= ASAP_DELAY + TX_START_DELAY + TX_JIT_DELAY + post + TX_MARGIN_DELAY
    <3>1. Sub(Plus(t, ASAP_DELAY), t) < Far(T)
      BY <1>0, <2>3
    <3> QED
      BY <1>2, <2>3, <3>1, InTheWayFrom
  <2> QED
    BY <1>0, <1>2, <2>1, <2>2, <2>4
<1>4. ASSUME NEW k \in 1 .. c, k > 1, From(q[k - 1], t) <= Bound(k - 1)
      PROVE  From(q[k], t) <= Bound(k)
  <2>1. k - 1 \in DOMAIN q /\ k \in DOMAIN q /\ k - 1 \in 1 .. c - 1 /\ k \in Nat
    BY <1>1, <1>4
  <2> DEFINE m == q[k - 1]
             n == q[k]
  <2>2. InTheWay(SlotBehind(m), post, n)
    <3>1. ~RoomBehind(q, k - 1, post)
      BY <2>1
    <3>2. k - 1 # Len(q) /\ (k - 1) + 1 = k
      BY <1>1, <2>1
    <3> QED
      BY <3>1, <3>2 DEF RoomBehind
  <2>3. DataNode(m, T) /\ DataNode(n, T) /\ From(m, t) < Horizon + MaxStall /\ From(n, t) < Far(T)
        /\ From(m, t) \in Nat /\ From(n, t) \in Nat /\ Air(m) \in Nat /\ Air(m) <= T
    BY <1>2, <2>1
  <2> HIDE DEF m, n
  <2>4. /\ SlotBehind(m) \in Time
        /\ Sub(SlotBehind(m), t) = From(m, t) + Air(m) + TX_START_DELAY + TX_JIT_DELAY + TX_JIT_DELAY
                                     + TX_MARGIN_DELAY
        /\ Sub(SlotBehind(m), t) < Far(T)
    BY <2>3, SlotFrom
  <2>5. From(n, t) <= Sub(SlotBehind(m), t) + TX_START_DELAY + TX_JIT_DELAY + post
                       + TX_MARGIN_DELAY
    BY <2>2, <2>3, <2>4, InTheWayFrom
  <2>6. From(n, t) <= From(m, t) + SlotGap(T)
    BY <1>0, <2>3, <2>4, <2>5
  <2>7. (k - 1) * SlotGap(T) = ((k - 1) - 1) * SlotGap(T) + SlotGap(T)
        /\ (k - 1) * SlotGap(T) \in Nat /\ ((k - 1) - 1) * SlotGap(T) \in Nat
    <3>1. k - 2 \in Nat /\ (k - 2) + 1 = k - 1 /\ (k - 1) - 1 = k - 2
      BY <1>4, <2>1
    <3>2. ((k - 2) + 1) * SlotGap(T) = (k - 2) * SlotGap(T) + SlotGap(T)
          /\ (k - 2) * SlotGap(T) \in Nat
      BY <1>0, <3>1, ProductStep
    <3> QED
      BY <1>0, <3>1, <3>2
  <2>8. From(m, t) <= ASAP_DELAY + Claim(T) + ((k - 1) - 1) * SlotGap(T)
    BY <1>4 DEF m
  <2>9. From(n, t) <= ASAP_DELAY + Claim(T) + (k - 1) * SlotGap(T)
    BY <1>0, <2>3, <2>6, <2>7, <2>8
  <2> QED
    BY <2>9 DEF n
<1>5. ASSUME NEW x \in Bad, \A y \in Bad : x <= y PROVE FALSE
  <2>1. x \in 1 .. c /\ x \in Nat
    OBVIOUS
  <2>2. CASE x = 1
    <3>1. (1 - 1) * SlotGap(T) = 0
      BY <1>0
    <3> QED
      BY <1>0, <1>3, <2>2, <3>1
  <2>3. CASE x > 1
    <3>1. x - 1 \in 1 .. c /\ ~(x <= x - 1)
      BY <1>1, <2>1, <2>3
    <3>2. x - 1 \notin Bad
      BY <1>5, <3>1, Zenon
    <3>3. From(q[x - 1], t) <= Bound(x - 1)
      BY <3>1, <3>2
    <3> QED
      BY <1>4, <2>1, <2>3, <3>3
  <2> QED
    BY <2>1, <2>2, <2>3
<1>6. Bad = {}
  <2>1. Bad \subseteq Nat
    OBVIOUS
  <2> HIDE DEF Bad
  <2> QED
    BY <1>5, <2>1, LeastNat
<1> QED
  BY <1>6
(* What the ASAP search finds for a data packet: a slot that is neither too
   late nor beyond the horizon, at least a second from now or behind a queued
   packet, and in nobody's way.                                             *)
LEMMA AsapSlot ==
    ASSUME NEW T, Paced(T), NEW t \in Time, NEW q, DataQueue(q, T), AllApart(q),
           InOrder(q, t), Within(q, t, Horizon + MaxStall), Len(q) <= JIT_QUEUE_MAX,
           NEW post \in 1 .. T
    PROVE  LET c == AsapCount(q, t, post) IN
             /\ c \in Time
             /\ TX_START_DELAY + TX_MARGIN_DELAY + TX_JIT_DELAY < Sub(c, t)
             /\ Sub(c, t) < Horizon
             /\ Sub(c, t) >= ASAP_DELAY \/ \E i \in DOMAIN q : Sub(c, t) > From(q[i], t)
             /\ \A i \in DOMAIN q : ~InTheWay(c, post, q[i])
<1> DEFINE a == AsapCount(q, t, post)
<1>0. /\ TX_START_DELAY \in Nat /\ TX_JIT_DELAY \in Nat /\ TX_MARGIN_DELAY \in Nat
      /\ TX_JIT_DELAY >= 2
  BY PacedFacts
<1>01. T \in Nat /\ post \in Nat /\ post >= 1 /\ post <= T
  BY PacedFacts
<1>02. /\ ASAP_DELAY \in Nat /\ Wrap \in Nat /\ Horizon \in Nat /\ Far(T) \in Nat
       /\ ASAP_DELAY < Horizon /\ ASAP_DELAY < Wrap
       /\ TX_START_DELAY + TX_MARGIN_DELAY + TX_JIT_DELAY < ASAP_DELAY
  <2>1. /\ ASAP_DELAY \in Nat /\ Wrap \in Nat /\ Horizon \in Nat /\ Far(T) \in Nat
        /\ ASAP_DELAY < Horizon /\ 2 * Horizon <= Wrap
        /\ TX_START_DELAY + TX_MARGIN_DELAY + TX_JIT_DELAY < ASAP_DELAY
    BY PacedFacts, Zenon
  <2> QED
    BY <2>1
<1>03. /\ MaxStall \in Nat /\ Horizon + MaxStall <= Far(T)
  <2>1. /\ MaxStall \in Nat /\ Horizon \in Nat /\ TX_JIT_DELAY \in Nat /\ Claim(T) \in Nat
        /\ Far(T) = Horizon + MaxStall + TX_JIT_DELAY + Claim(T)
    BY PacedFacts, Zenon
  <2> QED
    BY <2>1
<1>04. /\ Claim(T) \in Nat /\ SlotGap(T) \in Nat
       /\ Claim(T) = TX_START_DELAY + TX_JIT_DELAY + T + TX_MARGIN_DELAY
       /\ SlotGap(T) = Claim(T) + TX_JIT_DELAY + Claim(T)
  BY PacedFacts
<1>1. q \in Seq(Node) /\ DOMAIN q = 1 .. Len(q) /\ Len(q) \in Nat
  BY DEF DataQueue
<1>2. ASSUME NEW i \in DOMAIN q
      PROVE  /\ DataNode(q[i], T) /\ q[i].count \in Time
             /\ From(q[i], t) \in Nat /\ From(q[i], t) < Horizon + MaxStall
             /\ From(q[i], t) < Far(T)
             /\ Air(q[i]) \in Nat /\ Air(q[i]) <= T
  <2>1. DataNode(q[i], T) /\ From(q[i], t) < Horizon + MaxStall
    BY DEF DataQueue, Within
  <2>2. q[i].count \in Time /\ Air(q[i]) \in Nat /\ Air(q[i]) <= T
    <3>1. T \in Nat
      BY <1>01
    <3> QED
      BY <2>1, <3>1, NodeTypes DEF DataNode
  <2>3. From(q[i], t) \in Nat
    BY <2>2, SubNat DEF From
  <2> QED
    BY <1>02, <1>03, <2>1, <2>2, <2>3
<1>3. CASE a = Plus(t, ASAP_DELAY) /\ \A i \in DOMAIN q : ~InTheWay(Plus(t, ASAP_DELAY), post, q[i])
  <2>1. Sub(t, t) = 0 /\ t \in Int
    BY SubSelf, TimeIsInt
  <2>2. Sub(t, t) + ASAP_DELAY < Wrap
    BY <1>02, <2>1
  <2>3. Sub(Plus(t, ASAP_DELAY), t) = Sub(t, t) + ASAP_DELAY
    BY <1>02, <2>2, SubPlus
  <2>4. Sub(a, t) = ASAP_DELAY /\ a \in Time
    BY <1>02, <1>3, <2>1, <2>3, PlusType
  <2> HIDE DEF a
  <2>5. \A i \in DOMAIN q : ~InTheWay(a, post, q[i])
    BY <1>3
  <2> QED
    BY <1>02, <2>4, <2>5 DEF a
<1>4. ASSUME NEW c \in DOMAIN q, NEW b \in DOMAIN q,
             a = SlotBehind(q[c]), RoomBehind(q, c, post),
             \A j \in 1 .. c - 1 : ~RoomBehind(q, j, post),
             InTheWay(Plus(t, ASAP_DELAY), post, q[b])
      PROVE  /\ a \in Time
             /\ TX_START_DELAY + TX_MARGIN_DELAY + TX_JIT_DELAY < Sub(a, t)
             /\ Sub(a, t) < Horizon
             /\ Sub(a, t) > From(q[c], t)
             /\ \A i \in DOMAIN q : ~InTheWay(a, post, q[i])
  <2> DEFINE m == q[c]
  <2>1. a \in Time /\ Sub(a, t) < Far(T)
    BY <1>2, <1>4, SlotFrom
  <2>10. Sub(a, t) = From(m, t) + Air(m) + TX_START_DELAY + TX_JIT_DELAY + TX_JIT_DELAY + TX_MARGIN_DELAY
    BY <1>2, <1>4, SlotFrom
  <2>11. Sub(a, t) \in Nat
    BY <2>1, SubNat
  <2>2. From(m, t) \in Nat /\ Air(m) \in Nat
    BY <1>2
  <2>20. Air(m) <= T
    BY <1>2
  <2>21. Sub(a, t) > From(m, t)
    <3> HIDE DEF a, m
    <3> QED
      BY <1>0, <2>10, <2>2
  <2>3. Sub(a, t) < Horizon
    <3>1. From(m, t) <= ASAP_DELAY + Claim(T) + (c - 1) * SlotGap(T)
      <4>1. c \in 1 .. c
        BY <1>1
      <4> QED
        BY <1>4, <4>1, CrowdedUpTo
    <3>2. c * SlotGap(T) <= JIT_QUEUE_MAX * SlotGap(T)
      BY <1>04, <1>1, JitConstants, ProductMonotone
    <3>3. (c - 1) * SlotGap(T) + SlotGap(T) = c * SlotGap(T)
          /\ (c - 1) * SlotGap(T) \in Nat /\ c * SlotGap(T) \in Nat
      <4>1. c - 1 \in Nat /\ (c - 1) + 1 = c
        BY <1>1
      <4>2. ((c - 1) + 1) * SlotGap(T) = (c - 1) * SlotGap(T) + SlotGap(T)
            /\ (c - 1) * SlotGap(T) \in Nat
        BY <1>04, <4>1, ProductStep
      <4> QED
        BY <1>04, <1>1, <4>1, <4>2
    <3>4. JIT_QUEUE_MAX * SlotGap(T) \in Nat
      BY <1>04, JitConstants
    <3>5. ASAP_DELAY + JIT_QUEUE_MAX * SlotGap(T) < Horizon
      BY DEF Paced
    <3> HIDE DEF m, a
    <3>6. Sub(a, t) <= ASAP_DELAY + c * SlotGap(T)
      <4>1. From(m, t) + Claim(T) + TX_JIT_DELAY <= ASAP_DELAY + c * SlotGap(T)
        <5> DEFINE u == (c - 1) * SlotGap(T)
                   v == c * SlotGap(T)
        <5>1. u + SlotGap(T) = v /\ u \in Nat /\ v \in Nat
          BY <3>3
        <5>2. From(m, t) <= ASAP_DELAY + Claim(T) + u
          BY <3>1
        <5> HIDE DEF u, v
        <5>3. From(m, t) + Claim(T) + TX_JIT_DELAY <= ASAP_DELAY + v
          <6>1. /\ From(m, t) \in Nat /\ ASAP_DELAY \in Nat /\ TX_JIT_DELAY \in Nat
                /\ Claim(T) \in Nat /\ SlotGap(T) = Claim(T) + TX_JIT_DELAY + Claim(T)
            BY <1>0, <1>02, <1>04, <2>2, Zenon
          <6> QED
            BY <5>1, <5>2, <6>1
        <5> QED
          BY <5>3 DEF v
      <4>2. Sub(a, t) <= From(m, t) + Claim(T) + TX_JIT_DELAY
        BY <1>0, <1>01, <1>04, <2>10, <2>2, <2>20
      <4>3. c * SlotGap(T) \in Nat
        BY <3>3
      <4> DEFINE w == From(m, t) + Claim(T) + TX_JIT_DELAY
                 z == ASAP_DELAY + c * SlotGap(T)
      <4>4. w \in Nat /\ z \in Nat
        <5>1. /\ From(m, t) \in Nat /\ ASAP_DELAY \in Nat /\ TX_JIT_DELAY \in Nat
              /\ Claim(T) \in Nat
          BY <1>0, <1>02, <1>04, <2>2, Zenon
        <5> QED
          BY <4>3, <5>1
      <4>5. w <= z /\ Sub(a, t) <= w
        BY <4>1, <4>2
      <4> HIDE DEF w, z
      <4>6. Sub(a, t) <= z
        BY <2>11, <4>4, <4>5
      <4> QED
        BY <4>6 DEF z
    <3> QED
      BY <1>02, <1>04, <2>11, <3>2, <3>3, <3>4, <3>5, <3>6
  <2>4. ASSUME NEW i \in DOMAIN q PROVE ~InTheWay(a, post, q[i])
    <3> DEFINE n == q[i]
    <3> SUFFICES ~InTheWay(a, post, n)
      OBVIOUS
    <3>1. From(n, t) \in Nat /\ Air(n) \in Nat
      BY <1>2
    <3>0. InTheWay(a, post, n) <=>
            /\ Sub(a, t) <= From(n, t) + TX_START_DELAY + TX_JIT_DELAY + Air(n) + TX_MARGIN_DELAY
            /\ From(n, t) <= Sub(a, t) + TX_START_DELAY + TX_JIT_DELAY + post + TX_MARGIN_DELAY
      <4>1. DataNode(n, T) /\ From(n, t) < Far(T)
        BY <1>2
      <4> HIDE DEF a, n
      <4> QED
        BY <2>1, <4>1, InTheWayFrom
    <3>2. Within(q, t, Far(T))
      BY <1>2 DEF Within
    <3>3. CASE i = c
      <4> HIDE DEF a
      <4>1. Sub(a, t) > From(n, t) + TX_START_DELAY + TX_JIT_DELAY + Air(n) + TX_MARGIN_DELAY
        BY <1>0, <2>10, <2>2, <3>3
      <4> HIDE DEF a, m, n
      <4> QED
        BY <1>0, <1>01, <2>11, <3>0, <3>1, <4>1
    <3>4. CASE i < c
      <4>1. From(m, t) > From(n, t) + TX_START_DELAY + TX_JIT_DELAY + Air(n) + TX_MARGIN_DELAY
        BY <3>2, <3>4, QueueGap
      <4> HIDE DEF a, m
      <4>2. Sub(a, t) > From(n, t) + TX_START_DELAY + TX_JIT_DELAY + Air(n) + TX_MARGIN_DELAY
        <5> DEFINE u == From(n, t) + TX_START_DELAY + TX_JIT_DELAY + Air(n) + TX_MARGIN_DELAY
        <5>1. u \in Nat /\ From(m, t) > u
          BY <1>0, <3>1, <4>1
        <5> HIDE DEF u, n
        <5>2. Sub(a, t) > u
          BY <2>11, <2>2, <2>21, <5>1
        <5> QED
          BY <5>2 DEF u
      <4> HIDE DEF a, m, n
      <4> QED
        BY <1>0, <1>01, <2>11, <3>0, <3>1, <4>2
    <3>5. CASE i > c
      <4>1. c + 1 \in DOMAIN q /\ c # Len(q)
        BY <1>1, <3>5
      <4> DEFINE next == q[c + 1]
      <4>2. ~InTheWay(a, post, next)
        BY <1>4, <4>1 DEF RoomBehind
      <4>3. From(next, t) \in Nat /\ Air(next) \in Nat
        BY <1>2, <4>1
      <4>30. DataNode(next, T) /\ From(next, t) < Far(T)
        BY <1>2, <4>1
      <4>4. From(next, t) > From(m, t) + TX_START_DELAY + TX_JIT_DELAY + Air(m) + TX_MARGIN_DELAY
        <5>1. c < c + 1
          BY <1>1
        <5> QED
          BY <3>2, <4>1, <5>1, QueueGap
      <4>5. From(next, t) <= From(n, t)
        <5>1. i = c + 1 \/ c + 1 < i
          BY <1>1, <3>5
        <5> QED
          BY <3>1, <4>1, <4>3, <5>1 DEF InOrder
      <4> HIDE DEF a, m, next
      <4>6. From(next, t) > Sub(a, t) + TX_START_DELAY + TX_JIT_DELAY + post + TX_MARGIN_DELAY
        <5>1. Sub(a, t) <= From(next, t) + TX_START_DELAY + TX_JIT_DELAY + Air(next) + TX_MARGIN_DELAY
          <6> DEFINE u == From(m, t) + TX_START_DELAY + TX_JIT_DELAY + Air(m) + TX_MARGIN_DELAY
          <6>1. Sub(a, t) = u + TX_JIT_DELAY /\ u \in Nat
            BY <1>0, <2>10, <2>2
          <6>2. From(next, t) > u
            BY <4>4
          <6> HIDE DEF u
          <6>3. Sub(a, t) < From(next, t) + TX_JIT_DELAY
            BY <1>0, <4>3, <6>1, <6>2
          <6> QED
            BY <1>0, <2>11, <4>3, <6>3
        <5>2. ~(From(next, t) <= Sub(a, t) + TX_START_DELAY + TX_JIT_DELAY + post + TX_MARGIN_DELAY)
          BY <2>1, <4>2, <4>30, <5>1, InTheWayFrom
        <5> QED
          BY <1>0, <1>01, <2>11, <4>3, <5>2
      <4>7. From(n, t) > Sub(a, t) + TX_START_DELAY + TX_JIT_DELAY + post + TX_MARGIN_DELAY
        BY <1>0, <1>01, <2>11, <3>1, <4>3, <4>5, <4>6
      <4> HIDE DEF a, m, n
      <4> QED
        BY <1>0, <1>01, <2>11, <3>0, <3>1, <4>7
    <3> QED
      BY <1>1, <3>3, <3>4, <3>5
  <2> HIDE DEF a, m
  <2>6. TX_START_DELAY + TX_MARGIN_DELAY + TX_JIT_DELAY < Sub(a, t)
    BY <1>0, <2>10, <2>2
  <2> QED
    BY <2>1, <2>21, <2>3, <2>4, <2>6 DEF m
<1> HIDE DEF a
<1>5. \/ a = Plus(t, ASAP_DELAY) /\ \A i \in DOMAIN q : ~InTheWay(Plus(t, ASAP_DELAY), post, q[i])
      \/ \E c, b \in DOMAIN q :
           /\ a = SlotBehind(q[c])
           /\ RoomBehind(q, c, post)
           /\ \A j \in 1 .. c - 1 : ~RoomBehind(q, j, post)
           /\ InTheWay(Plus(t, ASAP_DELAY), post, q[b])
  BY <1>1, AsapChoice DEF a
<1>6. CASE \E c, b \in DOMAIN q :
           /\ a = SlotBehind(q[c])
           /\ RoomBehind(q, c, post)
           /\ \A j \in 1 .. c - 1 : ~RoomBehind(q, j, post)
           /\ InTheWay(Plus(t, ASAP_DELAY), post, q[b])
  <2>1. PICK c \in DOMAIN q : \E b \in DOMAIN q :
           /\ a = SlotBehind(q[c])
           /\ RoomBehind(q, c, post)
           /\ \A j \in 1 .. c - 1 : ~RoomBehind(q, j, post)
           /\ InTheWay(Plus(t, ASAP_DELAY), post, q[b])
    BY <1>6
  <2>2. /\ a \in Time
        /\ TX_START_DELAY + TX_MARGIN_DELAY + TX_JIT_DELAY < Sub(a, t)
        /\ Sub(a, t) < Horizon
        /\ Sub(a, t) > From(q[c], t)
        /\ \A i \in DOMAIN q : ~InTheWay(a, post, q[i])
    BY <1>4, <2>1
  <2> QED
    BY <2>2 DEF a
<1> QED
  BY <1>3, <1>5, <1>6
-----------------------------------------------------------------------------
(* What the timing theorems rest on, with a the ticks since thread_jit read the
   counter: the queue is in order of transmission, within the horizon, and a
   queued packet comes due only while thread_jit can still see it.           *)
Booked(q, t, T) == DataQueue(q, T) /\ InOrder(q, t) /\ Within(q, t, Horizon)

Reach == TX_START_DELAY + JitLag
Soon == TX_START_DELAY + 2 * JitLag

Ahead(n, t, a, b) == From(n, t) + a >= b
AllAhead(q, t, a, b) == \A i \in DOMAIN q : Ahead(q[i], t, a, b)

JitTimes(q, j, t, a, T) ==
    /\ a <= JitLag
    /\ AllAhead(q, t, a, Reach)
    /\ j.pc \in {"wait", "send"} => AllAhead(q, t, a, Soon)
    /\ j.pc = "scan" => ~j.skipped /\ \A i \in DOMAIN q : ~Ahead(q[i], t, a, Horizon)
    /\ j.pc = "dequeue" =>
         /\ j.idx = 1
         /\ q[1] = j.peeked
         /\ ~Ahead(q[1], t, a, TX_JIT_DELAY)
         /\ \A i \in DOMAIN q : i > 1 => Ahead(q[i], t, a, Soon)
    /\ j.pc = "send" =>
         /\ j.pkt = j.peeked
         /\ DataNode(j.pkt, T)
         /\ Ahead(j.pkt, t, a, Reach)
         /\ ~Ahead(j.pkt, t, a, TX_JIT_DELAY)

ServerTimes(d, t) ==
    d.pc # "idle" =>
        /\ Sub(t, d.time) <= MaxStall
        /\ \E r \in Requests :
             d.type = r.type /\ d.toa = r.toa /\ d.count = Plus(d.time, r.lead)

TimeInv(T) ==
    /\ IInv
    /\ Booked(queue, now, T)
    /\ JitTimes(queue, jit, now, Sub(now, jit.time), T)
    /\ \A s \in Servers : ServerTimes(down[s], now)

LEMMA BookedFacts ==
    ASSUME NEW T, Paced(T), NEW q, NEW t \in Time, Booked(q, t, T), NEW i \in DOMAIN q
    PROVE  /\ DOMAIN q = 1 .. Len(q) /\ Len(q) \in Nat /\ q \in Seq(Node)
           /\ DataNode(q[i], T) /\ q[i] \in Node /\ q[i].count \in Time
           /\ From(q[i], t) \in Nat /\ From(q[i], t) < Horizon
<1>1. q \in Seq(Node) /\ DataNode(q[i], T) /\ From(q[i], t) < Horizon
  BY DEF Booked, DataQueue, Within
<1>2. q[i] \in Node /\ q[i].count \in Time
  BY <1>1, NodeTypes DEF DataNode
<1>3. From(q[i], t) \in Nat
  BY <1>2, SubNat DEF From
<1> QED
  BY <1>1, <1>2, <1>3

(* The queue as a server sees it that read the counter at t0. *)
LEMMA LookBack ==
    ASSUME NEW T, Paced(T), NEW q, NEW t \in Time, Booked(q, t, T),
           NEW t0 \in Time, Sub(t, t0) <= MaxStall
    PROVE  /\ \A i \in DOMAIN q : From(q[i], t0) = From(q[i], t) + Sub(t, t0)
           /\ InOrder(q, t0)
           /\ Within(q, t0, Horizon + MaxStall)
<1>1. Horizon \in Nat /\ MaxStall \in Nat /\ Wrap \in Nat /\ MaxStall < Horizon /\ 2 * Horizon <= Wrap
  BY PacedFacts, Zenon
<1>2. Sub(t, t0) \in Nat
  BY SubNat
<1>3. ASSUME NEW i \in DOMAIN q
      PROVE  /\ From(q[i], t0) = From(q[i], t) + Sub(t, t0)
             /\ From(q[i], t) \in Nat /\ From(q[i], t) < Horizon
  <2>1. q[i].count \in Time /\ From(q[i], t) \in Nat /\ From(q[i], t) < Horizon
    BY BookedFacts
  <2>2. Sub(q[i].count, t) + Sub(t, t0) < Wrap
    BY <1>1, <1>2, <2>1 DEF From
  <2> QED
    BY <2>1, <2>2, SubChain DEF From
<1>4. InOrder(q, t0)
  <2>1. InOrder(q, t)
    BY DEF Booked
  <2> QED
    BY <1>2, <1>3, <2>1 DEF InOrder
<1>5. Within(q, t0, Horizon + MaxStall)
  BY <1>1, <1>2, <1>3 DEF Within
<1> QED
  BY <1>3, <1>4, <1>5

LEMMA BookedTick ==
    ASSUME NEW T, Paced(T), NEW q, NEW t \in Time, Booked(q, t, T),
           \A i \in DOMAIN q : From(q[i], t) >= 1
    PROVE  /\ Booked(q, Plus(t, 1), T)
           /\ \A i \in DOMAIN q : From(q[i], Plus(t, 1)) = From(q[i], t) - 1
<1>1. ASSUME NEW i \in DOMAIN q
      PROVE  /\ From(q[i], Plus(t, 1)) = From(q[i], t) - 1
             /\ From(q[i], t) \in Nat /\ From(q[i], t) < Horizon
  <2>1. q[i].count \in Time /\ From(q[i], t) \in Nat /\ From(q[i], t) < Horizon
    BY BookedFacts
  <2> QED
    BY <2>1, SubTick DEF From
<1>2. Horizon \in Nat
  BY PacedFacts
<1>3. DataQueue(q, T) /\ InOrder(q, t)
  BY DEF Booked
<1>4. InOrder(q, Plus(t, 1))
  BY <1>1, <1>3 DEF InOrder
<1>5. Within(q, Plus(t, 1), Horizon)
  BY <1>1, <1>2 DEF Within
<1> QED
  BY <1>1, <1>3, <1>4, <1>5 DEF Booked

(* compare() orders two packets within the horizon as a reader of the counter
   would: this is what half a turn of the counter is for.                   *)
LEMMA LaterFrom ==
    ASSUME NEW T, Paced(T), NEW t \in Time, NEW m \in Node, NEW n \in Node,
           From(m, t) < Horizon, From(n, t) < Horizon
    PROVE  Later(m, n) <=> From(m, t) > From(n, t)
<1>1. Horizon \in Nat /\ Wrap \in Nat /\ 2 * Horizon <= Wrap /\ Wrap > 0
  BY PacedFacts, JitConstants
<1>2. m.count \in Time /\ n.count \in Time
  BY NodeTypes
<1> DEFINE a == Sub(m.count, t)
           b == Sub(n.count, t)
<1>3. a \in Nat /\ b \in Nat /\ a < Horizon /\ b < Horizon
  BY <1>2, SubNat DEF From
<1>4. CASE a >= b
  <2>1. Sub(m.count, n.count) = a - b
    BY <1>2, <1>4, SubApart
  <2> HIDE DEF a, b
  <2>2. Later(m, n) <=> a - b \in 1 .. (Wrap - 1) \div 2
    BY <2>1 DEF Later
  <2>3. a - b <= (Wrap - 1) \div 2
    BY <1>1, <1>3, <1>4
  <2> QED
    BY <1>1, <1>3, <1>4, <2>2, <2>3 DEF a, b, From
<1>5. CASE b > a
  <2>1. Sub(m.count, n.count) = Wrap - (b - a)
    BY <1>2, <1>3, <1>5, SubApart
  <2> HIDE DEF a, b
  <2>2. Later(m, n) <=> Wrap - (b - a) \in 1 .. (Wrap - 1) \div 2
    BY <2>1 DEF Later
  <2>3. Wrap - (b - a) > (Wrap - 1) \div 2
    BY <1>1, <1>3, <1>5
  <2>4. (Wrap - 1) \div 2 \in Int
    BY <1>1
  <2> QED
    BY <1>1, <1>3, <1>5, <2>2, <2>3, <2>4 DEF a, b, From
<1> QED
  BY <1>3, <1>4, <1>5

(* Packets that keep apart have different times. *)
LEMMA ApartDiffer ==
    ASSUME NEW T, Paced(T), NEW t \in Time, NEW m, NEW n, DataNode(m, T), DataNode(n, T),
           KeepApart(m, n), From(m, t) < Horizon, From(n, t) < Horizon
    PROVE  From(m, t) # From(n, t)
<1>1. m \in Node /\ n \in Node /\ m.count \in Time /\ n.count \in Time /\ m.pre \in Nat /\ Air(n) \in Nat
  BY NodeTypes DEF DataNode
<1>2. ~(Sub(m.count, n.count) <= m.pre + Air(n) + TX_MARGIN_DELAY)
  BY DEF KeepApart, PreTowards, DataNode, IsBeacon, Air, Collision
<1>3. Sub(m.count, n.count) # 0
  BY <1>1, <1>2, JitConstants
<1> SUFFICES ASSUME Sub(m.count, t) = Sub(n.count, t) PROVE FALSE
  BY DEF From
<1>4. Sub(m.count, n.count) = Sub(m.count, t) - Sub(n.count, t) /\ Sub(m.count, t) \in Nat
  BY <1>1, SubApart, SubNat
<1> QED
  BY <1>3, <1>4

(* Sorting a packet in, and taking one out, keeps the queue in order. *)
LEMMA BookedInsert ==
    ASSUME NEW T, Paced(T), NEW q, NEW t \in Time, Booked(q, t, T),
           NEW x, DataNode(x, T), From(x, t) < Horizon,
           NEW k \in Places(q, x), AllApart(InsertAt(q, k, x))
    PROVE  Booked(InsertAt(q, k, x), t, T)
<1> DEFINE r == InsertAt(q, k, x)
<1>1. q \in Seq(Node) /\ DOMAIN q = 1 .. Len(q) /\ Len(q) \in Nat
  BY DEF Booked, DataQueue
<1>2. x \in Node
  BY DEF DataNode
<1>3. k \in 1 .. Len(q) + 1 /\ k \in Nat
  BY <1>1 DEF Places
<1>4. /\ r \in Seq(Node) /\ Len(r) = Len(q) + 1
      /\ \A i \in 1 .. Len(q) + 1 : r[i] = IF i < k THEN q[i] ELSE IF i = k THEN x ELSE q[i - 1]
  BY <1>1, <1>2, <1>3, InsertAtLemma
<1>5. AllApart(r)
  OBVIOUS
<1>6. (k > 1 => ~Later(q[k - 1], x)) /\ (k <= Len(q) => ~Later(x, q[k]))
  BY DEF Places
<1> HIDE DEF r
<1>7. DOMAIN r = 1 .. Len(q) + 1
  BY <1>1, <1>4
<1>8. ASSUME NEW i \in DOMAIN q
      PROVE  DataNode(q[i], T) /\ q[i] \in Node /\ From(q[i], t) \in Nat /\ From(q[i], t) < Horizon
  BY BookedFacts
<1>9. From(x, t) \in Nat
  BY <1>2, NodeTypes, SubNat DEF From
<1>10. ASSUME NEW i \in DOMAIN r
       PROVE  DataNode(r[i], T) /\ From(r[i], t) \in Nat /\ From(r[i], t) < Horizon
  <2>1. CASE i < k
    BY <1>1, <1>3, <1>4, <1>7, <1>8, <2>1
  <2>2. CASE i = k
    BY <1>4, <1>7, <1>9, <2>2
  <2>3. CASE i > k
    <3>1. i - 1 \in DOMAIN q /\ r[i] = q[i - 1]
      BY <1>1, <1>3, <1>4, <1>7, <2>3
    <3> QED
      BY <1>8, <3>1
  <2> QED
    BY <1>3, <1>7, <2>1, <2>2, <2>3
<1>11. k > 1 => From(q[k - 1], t) <= From(x, t)
  <2> SUFFICES ASSUME k > 1 PROVE From(q[k - 1], t) <= From(x, t)
    OBVIOUS
  <2>1. k - 1 \in DOMAIN q
    BY <1>1, <1>3
  <2>2. ~(From(q[k - 1], t) > From(x, t))
    BY <1>2, <1>6, <1>8, <2>1, LaterFrom
  <2> QED
    BY <1>8, <1>9, <2>1, <2>2
<1>12. k <= Len(q) => From(x, t) <= From(q[k], t)
  <2> SUFFICES ASSUME k <= Len(q) PROVE From(x, t) <= From(q[k], t)
    OBVIOUS
  <2>1. k \in DOMAIN q
    BY <1>1, <1>3
  <2>2. ~(From(x, t) > From(q[k], t))
    BY <1>2, <1>6, <1>8, <2>1, LaterFrom
  <2> QED
    BY <1>8, <1>9, <2>1, <2>2
<1>13. InOrder(q, t)
  BY DEF Booked
<1>14. ASSUME NEW i \in DOMAIN r, NEW j \in DOMAIN r, i < j
       PROVE  From(r[i], t) < From(r[j], t)
  <2>0. i \in Nat /\ j \in Nat
    BY <1>7
  <2>1. From(r[i], t) # From(r[j], t)
    BY <1>5, <1>10, <1>14, <2>0, ApartDiffer DEF AllApart
  <2>2. CASE j < k
    <3>1. i \in DOMAIN q /\ j \in DOMAIN q /\ r[i] = q[i] /\ r[j] = q[j]
      BY <1>1, <1>3, <1>4, <1>7, <1>14, <2>0, <2>2
    <3> QED
      BY <1>13, <1>14, <3>1 DEF InOrder
  <2>3. CASE j = k
    <3>1. i \in DOMAIN q /\ k - 1 \in DOMAIN q /\ r[i] = q[i] /\ r[j] = x /\ (i = k - 1 \/ i < k - 1) /\ k > 1
      BY <1>1, <1>3, <1>4, <1>7, <1>14, <2>0, <2>3
    <3>2. From(q[i], t) <= From(q[k - 1], t)
      BY <1>8, <1>13, <3>1 DEF InOrder
    <3> QED
      BY <1>8, <1>9, <1>11, <2>1, <3>1, <3>2
  <2>4. CASE i = k
    <3>1. j - 1 \in DOMAIN q /\ k \in DOMAIN q /\ r[i] = x /\ r[j] = q[j - 1] /\ (k = j - 1 \/ k < j - 1) /\ k <= Len(q)
      BY <1>1, <1>3, <1>4, <1>7, <1>14, <2>0, <2>4
    <3>2. From(q[k], t) <= From(q[j - 1], t)
      BY <1>8, <1>13, <3>1 DEF InOrder
    <3> QED
      BY <1>8, <1>9, <1>12, <2>1, <3>1, <3>2
  <2>5. CASE i > k
    <3>1. i - 1 \in DOMAIN q /\ j - 1 \in DOMAIN q /\ r[i] = q[i - 1] /\ r[j] = q[j - 1] /\ i - 1 < j - 1
      BY <1>1, <1>3, <1>4, <1>7, <1>14, <2>0, <2>5
    <3> QED
      BY <1>13, <3>1 DEF InOrder
  <2>6. CASE i < k /\ j > k
    <3>1. i \in DOMAIN q /\ j - 1 \in DOMAIN q /\ r[i] = q[i] /\ r[j] = q[j - 1] /\ i < j - 1
      BY <1>1, <1>3, <1>4, <1>7, <1>14, <2>0, <2>6
    <3> QED
      BY <1>13, <3>1 DEF InOrder
  <2> QED
    BY <1>3, <2>0, <2>2, <2>3, <2>4, <2>5, <2>6
<1>15. DataQueue(r, T) /\ InOrder(r, t) /\ Within(r, t, Horizon)
  BY <1>4, <1>10, <1>14 DEF DataQueue, InOrder, Within
<1> QED
  BY <1>15 DEF Booked, r

LEMMA BookedRemove ==
    ASSUME NEW T, Paced(T), NEW q, NEW t \in Time, Booked(q, t, T), NEW k \in 1 .. Len(q)
    PROVE  Booked(RemoveAt(q, k), t, T)
<1> DEFINE r == RemoveAt(q, k)
<1>1. q \in Seq(Node) /\ DOMAIN q = 1 .. Len(q) /\ Len(q) \in Nat
  BY DEF Booked, DataQueue
<1>2. /\ r \in Seq(Node) /\ Len(r) = Len(q) - 1
      /\ \A i \in 1 .. Len(q) - 1 : r[i] = IF i < k THEN q[i] ELSE q[i + 1]
  BY <1>1, RemoveAtLemma
<1> HIDE DEF r
<1>3. DOMAIN r = 1 .. Len(q) - 1
  BY <1>1, <1>2
<1> DEFINE old(i) == IF i < k THEN i ELSE i + 1
<1>4. \A i \in DOMAIN r : old(i) \in DOMAIN q /\ r[i] = q[old(i)]
  BY <1>1, <1>2, <1>3
<1>5. \A i, j \in DOMAIN r : i < j => old(i) < old(j)
  BY <1>3
<1> HIDE DEF old
<1>6. DataQueue(r, T) /\ InOrder(r, t) /\ Within(r, t, Horizon)
  BY <1>2, <1>4, <1>5 DEF Booked, DataQueue, InOrder, Within
<1> QED
  BY <1>6 DEF Booked, r

(* A queue without the packet at its head: the rest is as it was. *)
LEMMA RemoveHead ==
    ASSUME NEW q \in Seq(Node), Len(q) >= 1, NEW i \in DOMAIN RemoveAt(q, 1)
    PROVE  i + 1 \in DOMAIN q /\ i + 1 > 1 /\ RemoveAt(q, 1)[i] = q[i + 1]
<1> DEFINE r == RemoveAt(q, 1)
<1>1. 1 \in 1 .. Len(q) /\ DOMAIN q = 1 .. Len(q) /\ Len(q) \in Nat
  OBVIOUS
<1>2. /\ r \in Seq(Node) /\ Len(r) = Len(q) - 1
      /\ \A j \in 1 .. Len(q) - 1 : r[j] = IF j < 1 THEN q[j] ELSE q[j + 1]
  BY <1>1, RemoveAtLemma
<1> HIDE DEF r
<1>3. i \in DOMAIN r /\ DOMAIN r = 1 .. Len(q) - 1
  BY <1>1, <1>2 DEF r
<1> QED
  BY <1>1, <1>2, <1>3 DEF r

-----------------------------------------------------------------------------
(* The packet a server is about to insert, and the queue it inserts it in, as
   seen from the server's reading of the counter.                           *)
LEMMA CandidateData ==
    ASSUME NEW T, Paced(T), TimeInv(T), NEW s \in Servers, down[s].pc = "insert"
    PROVE  /\ down[s].time \in Time /\ now \in Time
           /\ Sub(now, down[s].time) <= MaxStall
           /\ InOrder(queue, down[s].time)
           /\ Within(queue, down[s].time, Horizon + MaxStall)
           /\ DataNode(Candidate(s), T)
           /\ down[s].toa \in 1 .. T
           /\ Candidate(s).type = down[s].type
           /\ down[s].type \in {ClassA, ClassB, ClassC}
           /\ down[s].type # ClassC =>
                \E lead \in Nat : /\ lead < Wrap /\ lead # Horizon
                                  /\ Candidate(s).count = Plus(down[s].time, lead)
<1> DEFINE d == down[s]
<1>1. /\ d.time \in Time /\ now \in Time
      /\ d.type \in PktTypes /\ d.toa \in Nat /\ d.pc # "idle"
  BY DEF TimeInv, IInv, TypeOK
<1>2. ServerTimes(d, now) /\ Booked(queue, now, T)
  BY DEF TimeInv
<1>3. PICK r \in Requests : d.type = r.type /\ d.toa = r.toa /\ d.count = Plus(d.time, r.lead)
  BY <1>1, <1>2 DEF ServerTimes
<1>4. Sub(now, d.time) <= MaxStall
  BY <1>1, <1>2 DEF ServerTimes
<1>5. InOrder(queue, d.time) /\ Within(queue, d.time, Horizon + MaxStall)
  BY <1>1, <1>2, <1>4, LookBack
<1>6. /\ d.type # Beacon /\ d.toa \in 1 .. T
      /\ r.lead \in Nat /\ r.lead < Wrap /\ (d.type # ClassC => r.lead # Horizon)
  BY <1>3, SchedulerConstants DEF Paced
<1>7. d.type \in {ClassA, ClassB, ClassC}
  BY <1>1, <1>6 DEF PktTypes
<1>8. /\ Candidate(s).type = d.type
      /\ Candidate(s).pre = PreDelay(d.type)
      /\ Air(Candidate(s)) = d.toa
      /\ d.type # ClassC => Candidate(s).count = d.count
  BY <1>6 DEF Candidate, NewNode, PostDelay, Air
<1>9. Candidate(s) \in Node
  BY CandidateType DEF TimeInv, IInv
<1>10. DataNode(Candidate(s), T)
  BY <1>1, <1>6, <1>8, <1>9, DataPre DEF DataNode
<1>11. d.type # ClassC =>
         \E lead \in Nat : lead < Wrap /\ lead # Horizon /\ Candidate(s).count = Plus(d.time, lead)
  BY <1>3, <1>6, <1>8
<1> QED
  BY <1>1, <1>4, <1>5, <1>6, <1>7, <1>8, <1>10, <1>11

(* An immediate packet: the slot the search gives it passes all criteria. *)
LEMMA ImmediateSlot ==
    ASSUME NEW T, Paced(T), TimeInv(T), QueueFits, NEW s \in Servers,
           down[s].pc = "insert", down[s].type = ClassC
    PROVE  /\ Verdict(queue, down[s].time, Candidate(s)) = OK
           /\ Sub(Candidate(s).count, down[s].time) < Horizon
<1> DEFINE d == down[s]
           x == Candidate(s)
           c == AsapCount(queue, d.time, d.toa)
<1>1. /\ d.time \in Time /\ d.toa \in 1 .. T
      /\ InOrder(queue, d.time) /\ Within(queue, d.time, Horizon + MaxStall)
  BY CandidateData
<1>2. DataQueue(queue, T) /\ AllApart(queue) /\ Len(queue) <= JIT_QUEUE_MAX
  BY DEF TimeInv, Booked, IInv, QueueInv, QueueFits
<1>3. /\ TX_START_DELAY + TX_MARGIN_DELAY + TX_JIT_DELAY < Sub(c, d.time)
      /\ Sub(c, d.time) < Horizon
      /\ \A i \in DOMAIN queue : ~InTheWay(c, d.toa, queue[i])
  BY <1>1, <1>2, AsapSlot
<1>4. c \in Time
  BY <1>1, <1>2, AsapSlot
<1> HIDE DEF c
<1>5. x.type = ClassC /\ x.count = c /\ x.pre = PreDelay(ClassC) /\ x.post = d.toa
  BY DEF Candidate, NewNode, PostDelay, c, ClassC, Beacon
<1> HIDE DEF x, d
<1>6. \A i \in DOMAIN queue : ~Overlaps(x, queue[i])
  <2>1. \A i \in DOMAIN queue : queue[i].type # Beacon
    BY <1>2 DEF DataQueue, DataNode
  <2> QED
    BY <1>3, <1>5, <2>1 DEF Overlaps, InTheWay, TargetPre
<1>7. ~IsTooLate(x, d.time)
  <2>1. /\ TX_START_DELAY \in Nat /\ TX_MARGIN_DELAY \in Nat /\ TX_JIT_DELAY \in Nat
    BY PacedFacts, Zenon
  <2>2. Sub(c, d.time) \in Nat
    BY <1>1, <1>4, SubNat
  <2> QED
    BY <1>3, <1>5, <2>1, <2>2 DEF IsTooLate
<1>8. ~IsTooEarly(x, d.time)
  BY <1>5 DEF IsTooEarly, ClassA, ClassB, ClassC
<1>9. Verdict(queue, d.time, x) = OK
  BY <1>6, <1>7, <1>8 DEF Verdict
<1> QED
  BY <1>3, <1>5, <1>9 DEF x, d

(* Every packet that is accepted is within the horizon, and leaves thread_jit
   the time to see it.                                                      *)
LEMMA AcceptedLead ==
    ASSUME NEW T, Paced(T), TimeInv(T), QueueFits, NEW s \in Servers,
           down[s].pc = "insert", Verdict(queue, down[s].time, Candidate(s)) = OK
    PROVE  /\ From(Candidate(s), now) \in Nat
           /\ From(Candidate(s), now) < Horizon
           /\ From(Candidate(s), now) >= Soon
<1> DEFINE d == down[s]
           x == Candidate(s)
<1>1. /\ d.time \in Time /\ now \in Time /\ x.count \in Time
      /\ Sub(now, d.time) <= MaxStall /\ x.type = d.type
      /\ d.type \in {ClassA, ClassB, ClassC}
  BY CandidateData, NodeTypes DEF DataNode
<1>2. ~IsTooLate(x, d.time) /\ ~IsTooEarly(x, d.time)
  BY DEF Verdict, OK, TooLate, TooEarly
<1>3. /\ Horizon \in Nat /\ MaxStall \in Nat /\ Wrap \in Nat /\ JitLag \in Nat
      /\ TX_START_DELAY \in Nat /\ TX_MARGIN_DELAY \in Nat /\ TX_JIT_DELAY \in Nat
      /\ 2 * JitLag + MaxStall <= TX_MARGIN_DELAY + TX_JIT_DELAY + 1
  BY PacedFacts, Zenon
<1>30. JitLag >= 1
  BY PacedFacts, Zenon
<1>4. Sub(x.count, d.time) < Horizon
  <2>1. CASE d.type = ClassC
    BY <2>1, ImmediateSlot
  <2>2. CASE d.type # ClassC
    <3>1. PICK lead \in Nat : lead < Wrap /\ lead # Horizon /\ x.count = Plus(d.time, lead)
      BY <2>2, CandidateData
    <3>2. Sub(d.time, d.time) = 0
      BY <1>1, SubSelf, TimeIsInt
    <3> HIDE DEF x, d
    <3>3. Sub(x.count, d.time) = lead
      <4>1. Sub(d.time, d.time) + lead < Wrap
        BY <3>1, <3>2
      <4>2. Sub(Plus(d.time, lead), d.time) = Sub(d.time, d.time) + lead
        BY <1>1, <4>1, SubPlus
      <4> QED
        BY <3>1, <3>2, <4>2
    <3>4. x.type \in {ClassA, ClassB}
      BY <1>1, <2>2
    <3>5. ~(lead > Horizon)
      BY <1>2, <3>3, <3>4 DEF IsTooEarly, Horizon
    <3> QED
      BY <1>3, <3>1, <3>3, <3>5
  <2> QED
    BY <2>1, <2>2
<1> HIDE DEF x, d
<1>5. Sub(x.count, d.time) > TX_START_DELAY + TX_MARGIN_DELAY + TX_JIT_DELAY
      /\ Sub(x.count, d.time) \in Nat /\ Sub(now, d.time) \in Nat
  <2>1. Sub(x.count, d.time) \in Nat /\ Sub(now, d.time) \in Nat
    BY <1>1, SubNat
  <2> QED
    BY <1>2, <1>3, <2>1 DEF IsTooLate
<1>6. Sub(x.count, d.time) >= Sub(now, d.time)
  BY <1>1, <1>3, <1>30, <1>5
<1>7. Sub(x.count, now) = Sub(x.count, d.time) - Sub(now, d.time)
  BY <1>1, <1>6, SubApart
<1>8. /\ From(x, now) \in Nat
      /\ From(x, now) < Horizon
      /\ From(x, now) >= Soon
  BY <1>1, <1>3, <1>4, <1>5, <1>6, <1>7 DEF From, Soon
<1> QED
  BY <1>8 DEF x

-----------------------------------------------------------------------------
(* Insertion does not come before the packet thread_jit has chosen: there is
   no room between it and the present.                                      *)
LEMMA InsertTimes ==
    ASSUME NEW T, Paced(T), NEW q, NEW t \in Time, Booked(q, t, T), NEW j, NEW a \in Nat,
           JitTimes(q, j, t, a, T), j.pc # "scan", j.pc = "dequeue" => 1 \in DOMAIN q,
           NEW x, DataNode(x, T), From(x, t) < Horizon, From(x, t) >= Soon,
           NEW k \in Places(q, x), AllApart(InsertAt(q, k, x))
    PROVE  JitTimes(InsertAt(q, k, x), j, t, a, T)
<1> DEFINE r == InsertAt(q, k, x)
<1>0. /\ TX_START_DELAY \in Nat /\ TX_MARGIN_DELAY \in Nat /\ TX_JIT_DELAY \in Nat
      /\ JitLag \in Nat /\ Horizon \in Nat /\ MaxStall \in Nat /\ Far(T) \in Nat
      /\ Claim(T) \in Nat
      /\ Far(T) = Horizon + MaxStall + TX_JIT_DELAY + Claim(T)
  BY PacedFacts, Zenon
<1>1. q \in Seq(Node) /\ DOMAIN q = 1 .. Len(q) /\ Len(q) \in Nat
  BY DEF Booked, DataQueue
<1>2. x \in Node /\ From(x, t) \in Nat
  BY NodeTypes, SubNat DEF DataNode, From
<1>3. k \in 1 .. Len(q) + 1 /\ k \in Nat
  BY <1>1 DEF Places
<1>4. /\ r \in Seq(Node) /\ Len(r) = Len(q) + 1
      /\ \A i \in 1 .. Len(q) + 1 : r[i] = IF i < k THEN q[i] ELSE IF i = k THEN x ELSE q[i - 1]
  BY <1>1, <1>2, <1>3, InsertAtLemma
<1>5. Booked(r, t, T) /\ AllApart(r)
  BY BookedInsert
<1> HIDE DEF r
<1>6. DOMAIN r = 1 .. Len(q) + 1
  BY <1>1, <1>4
<1>7. Ahead(x, t, a, Soon) /\ Ahead(x, t, a, Reach)
  BY <1>0, <1>2 DEF Ahead, Soon, Reach
<1>8. ASSUME NEW i \in DOMAIN r, r[i] # x
      PROVE  \E h \in DOMAIN q : r[i] = q[h] /\ (k # 1 /\ i > 1 => h > 1)
  <2>1. i < k \/ i > k
    BY <1>3, <1>4, <1>6, <1>8
  <2>2. CASE i < k
    BY <1>1, <1>3, <1>4, <1>6, <2>2
  <2>3. CASE i > k
    <3>1. i - 1 \in DOMAIN q /\ r[i] = q[i - 1] /\ (k # 1 => i - 1 > 1)
      BY <1>1, <1>3, <1>4, <1>6, <2>3
    <3> QED
      BY <3>1
  <2> QED
    BY <2>1, <2>2, <2>3
<1>9. \A b : AllAhead(q, t, a, b) /\ Ahead(x, t, a, b) => AllAhead(r, t, a, b)
  BY <1>8 DEF AllAhead
<1>10. ASSUME j.pc = "dequeue"
       PROVE  k # 1 /\ r[1] = q[1]
  <2>1. 1 \in DOMAIN q /\ ~Ahead(q[1], t, a, TX_JIT_DELAY)
    BY <1>10 DEF JitTimes
  <2>2. ASSUME k = 1 PROVE FALSE
    <3>1. 1 \in DOMAIN r /\ 2 \in DOMAIN r /\ r[1] = x /\ r[2] = q[1]
      BY <1>1, <1>4, <1>6, <2>1, <2>2
    <3>2. DataQueue(r, T) /\ InOrder(r, t) /\ Within(r, t, Horizon)
      BY <1>5 DEF Booked
    <3>3. Within(r, t, Far(T))
      <4>1. \A i \in DOMAIN r : From(r[i], t) \in Nat /\ From(r[i], t) < Horizon
        BY <1>5, BookedFacts
      <4> QED
        BY <1>0, <4>1 DEF Within
    <3>4. From(r[2], t) > From(r[1], t) + TX_START_DELAY + TX_JIT_DELAY + Air(r[1]) + TX_MARGIN_DELAY
      BY <1>5, <3>1, <3>2, <3>3, QueueGap
    <3>5. Air(x) \in Nat
      BY <1>2, NodeTypes
    <3>6. From(q[1], t) \in Nat
      BY <2>1, BookedFacts
    <3>7. From(q[1], t) > From(x, t) + TX_START_DELAY + TX_JIT_DELAY + Air(x) + TX_MARGIN_DELAY
      BY <3>1, <3>4
    <3> QED
      BY <1>0, <1>2, <2>1, <3>5, <3>6, <3>7 DEF Ahead
  <2>3. k # 1
    BY <2>2
  <2> QED
    BY <1>1, <1>3, <1>4, <1>6, <2>1, <2>3
<1>11. AllAhead(r, t, a, Reach)
  BY <1>7, <1>9 DEF JitTimes
<1>12. j.pc \in {"wait", "send"} => AllAhead(r, t, a, Soon)
  BY <1>7, <1>9 DEF JitTimes
<1>13. j.pc = "dequeue" => \A i \in DOMAIN r : i > 1 => Ahead(r[i], t, a, Soon)
  BY <1>7, <1>8, <1>10 DEF JitTimes
<1>14. j.pc = "dequeue" => j.idx = 1 /\ r[1] = j.peeked /\ ~Ahead(r[1], t, a, TX_JIT_DELAY)
  BY <1>10 DEF JitTimes
<1>15. JitTimes(r, j, t, a, T)
  BY <1>11, <1>12, <1>13, <1>14 DEF JitTimes
<1> QED
  BY <1>15 DEF r

LEMMA TimeServer ==
    ASSUME NEW T, Paced(T), TimeInv(T), QueueFits, NEW s \in Servers, ReadTime(s) \/ Enqueue(s)
    PROVE  TimeInv(T)'
<1>0. IInv /\ IInv' /\ now \in Time
  BY ServerStep DEF TimeInv, IInv, TypeOK
<1>1. now' = now /\ jit' = jit
  BY DEF ReadTime, Enqueue, RejectFull, PassFull, Reject, Accept
<1>2. \A u \in Servers : ServerTimes(down[u], now)
  BY DEF TimeInv
<1>3. ASSUME down' = [down EXCEPT ![s] = Idle]
      PROVE  \A u \in Servers : ServerTimes(down'[u], now)
  BY <1>0, <1>2, <1>3 DEF IInv, TypeOK, ServerTimes, Idle
<1>4. CASE ReadTime(s)
  <2>1. PICK r \in Requests :
          down' = [down EXCEPT ![s] = [pc |-> "check", time |-> now, type |-> r.type,
                                       count |-> Plus(now, r.lead), toa |-> r.toa]]
    BY <1>4 DEF ReadTime
  <2>2. Sub(now, now) = 0 /\ MaxStall \in Nat
    BY <1>0, SubSelf, TimeIsInt, PacedFacts
  <2>3. ServerTimes(down'[s], now)
    BY <1>0, <2>1, <2>2 DEF IInv, TypeOK, ServerTimes
  <2>4. \A u \in Servers : u # s => down'[u] = down[u]
    BY <1>0, <2>1 DEF IInv, TypeOK
  <2>5. \A u \in Servers : ServerTimes(down'[u], now)
    BY <1>2, <2>3, <2>4
  <2>6. queue' = queue
    BY <1>4 DEF ReadTime
  <2> QED
    BY <1>0, <1>1, <2>5, <2>6 DEF TimeInv
<1>5. CASE RejectFull(s) \/ Reject(s)
  BY <1>0, <1>1, <1>3, <1>5 DEF TimeInv, RejectFull, Reject
<1>6. CASE PassFull(s)
  <2>1. \A u \in Servers : ServerTimes(down'[u], now)
    BY <1>0, <1>2, <1>6 DEF PassFull, IInv, TypeOK, ServerTimes
  <2> QED
    BY <1>0, <1>1, <1>6, <2>1 DEF TimeInv, PassFull
<1>7. CASE Accept(s)
  <2> DEFINE x == Candidate(s)
  <2>1. PICK k \in Places(queue, x) : queue' = InsertAt(queue, k, x)
    BY <1>7 DEF Accept
  <2>2. DataNode(x, T)
    BY <1>7, CandidateData DEF Accept
  <2>3. From(x, now) \in Nat /\ From(x, now) < Horizon /\ From(x, now) >= Soon
    BY <1>7, AcceptedLead DEF Accept
  <2>4. Booked(queue, now, T) /\ JitTimes(queue, jit, now, Sub(now, jit.time), T)
    BY DEF TimeInv
  <2>5. AllApart(queue')
    BY <1>0 DEF IInv, QueueInv
  <2>6. jit.pc # "scan"
    BY <1>7 DEF Accept, QueueUnlocked
  <2>7. jit.pc = "dequeue" => 1 \in DOMAIN queue
    <3>1. jit.pc = "dequeue" => 1 \in 1 .. Len(queue)
      BY <1>0, <2>4 DEF JitTimes, IInv, JitInv
    <3> QED
      BY <1>0, <3>1 DEF IInv, TypeOK
  <2>8. Sub(now, jit.time) \in Nat
    BY <1>0, SubNat DEF IInv, TypeOK
  <2> HIDE DEF x
  <2>9. Booked(queue', now, T)
    BY <1>0, <2>1, <2>2, <2>3, <2>4, <2>5, BookedInsert
  <2>10. JitTimes(queue', jit, now, Sub(now, jit.time), T)
    BY <1>0, <2>1, <2>2, <2>3, <2>4, <2>5, <2>6, <2>7, <2>8, InsertTimes
  <2>11. \A u \in Servers : ServerTimes(down'[u], now)
    BY <1>3, <1>7 DEF Accept
  <2> QED
    BY <1>0, <1>1, <2>9, <2>10, <2>11 DEF TimeInv
<1> QED
  BY <1>4, <1>5, <1>6, <1>7 DEF Enqueue

(* A tick: what lies ahead comes closer, and the reading of the counter gets
   older, by the same amount.                                               *)
LEMMA TimeTick ==
    ASSUME NEW T, Paced(T), TimeInv(T), Tick
    PROVE  TimeInv(T)'
<1> DEFINE a == Sub(now, jit.time)
           b == Sub(now', jit.time)
<1>0. /\ IInv /\ IInv' /\ now \in Time /\ jit.time \in Time
      /\ now' = Plus(now, 1) /\ queue' = queue /\ jit' = jit /\ down' = down
      /\ a < JitLag
      /\ \A s \in Servers : down[s].pc # "idle" => Sub(now, down[s].time) < MaxStall
  BY TickStep DEF TimeInv, IInv, TypeOK, Tick
<1>1. /\ Horizon \in Nat /\ MaxStall \in Nat /\ Wrap \in Nat /\ JitLag \in Nat
      /\ TX_START_DELAY \in Nat /\ TX_JIT_DELAY \in Nat
      /\ TX_START_DELAY + 2 * JitLag <= TX_JIT_DELAY /\ 2 * Horizon <= Wrap
      /\ MaxStall < Horizon
  BY PacedFacts, Zenon
<1>2. TX_JIT_DELAY < Horizon
  <2>1. /\ TX_START_DELAY + TX_MARGIN_DELAY + TX_JIT_DELAY < ASAP_DELAY /\ ASAP_DELAY < Horizon
        /\ TX_MARGIN_DELAY \in Nat /\ ASAP_DELAY \in Nat
    BY PacedFacts, Zenon
  <2> QED
    BY <1>1, <2>1
<1>3. a \in Nat /\ b \in Nat /\ b = a + 1
  <2>1. a \in Nat
    BY <1>0, SubNat
  <2>2. a + 1 < Wrap
    BY <1>0, <1>1, <1>2, <2>1
  <2>3. b = a + 1
    BY <1>0, <2>2, SubTick
  <2> QED
    BY <2>1, <2>3
<1>4. Booked(queue, now, T) /\ JitTimes(queue, jit, now, a, T)
  BY DEF TimeInv
<1> HIDE DEF a, b
<1>5. ASSUME NEW i \in DOMAIN queue
      PROVE  From(queue[i], now) >= 1 /\ From(queue[i], now) \in Nat
  <2>1. From(queue[i], now) \in Nat
    BY <1>0, <1>4, BookedFacts
  <2>2. From(queue[i], now) + a >= TX_START_DELAY + JitLag
    BY <1>4 DEF JitTimes, AllAhead, Ahead, Reach
  <2> QED
    BY <1>0, <1>1, <1>3, <2>1, <2>2
<1>6. /\ Booked(queue, now', T)
      /\ \A i \in DOMAIN queue : From(queue[i], now') = From(queue[i], now) - 1
  BY <1>0, <1>4, <1>5, BookedTick
<1>7. \A c : \A i \in DOMAIN queue : Ahead(queue[i], now', b, c) <=> Ahead(queue[i], now, a, c)
  <2> SUFFICES ASSUME NEW i \in DOMAIN queue
               PROVE  From(queue[i], now') + b = From(queue[i], now) + a
    BY DEF Ahead
  <2> QED
    BY <1>3, <1>5, <1>6
<1>8. jit.pc = "send" => \A c : Ahead(jit.pkt, now', b, c) <=> Ahead(jit.pkt, now, a, c)
  <2> SUFFICES ASSUME jit.pc = "send"
               PROVE  From(jit.pkt, now') + b = From(jit.pkt, now) + a
    BY DEF Ahead
  <2>1. DataNode(jit.pkt, T) /\ From(jit.pkt, now) + a >= TX_START_DELAY + JitLag
    BY <1>4 DEF JitTimes, Ahead, Reach
  <2>2. jit.pkt.count \in Time
    BY <2>1, NodeTypes DEF DataNode
  <2>3. Sub(jit.pkt.count, now) \in Nat
    BY <1>0, <2>2, SubNat
  <2>4. Sub(jit.pkt.count, now) >= 1
    BY <1>0, <1>1, <1>3, <2>1, <2>3 DEF From
  <2>5. Sub(jit.pkt.count, now') = Sub(jit.pkt.count, now) - 1
    BY <1>0, <2>2, <2>4, SubTick
  <2> QED
    BY <1>3, <2>3, <2>5 DEF From
<1>9. b <= JitLag
  BY <1>0, <1>1, <1>3
<1>10. \A c : AllAhead(queue, now', b, c) <=> AllAhead(queue, now, a, c)
  BY <1>7 DEF AllAhead
<1>11. jit.pc = "dequeue" => 1 \in DOMAIN queue
  <2>1. jit.pc = "dequeue" => 1 \in 1 .. Len(queue)
    BY <1>0, <1>4 DEF JitTimes, IInv, JitInv
  <2> QED
    BY <1>0, <2>1 DEF IInv, TypeOK
<1>12. JitTimes(queue, jit, now', b, T)
  BY <1>4, <1>7, <1>8, <1>9, <1>10, <1>11, Zenon DEF JitTimes
<1>13. ASSUME NEW s \in Servers PROVE ServerTimes(down[s], now')
  <2>1. ServerTimes(down[s], now) /\ down[s].time \in Time
    BY <1>0 DEF TimeInv, IInv, TypeOK
  <2>2. CASE down[s].pc # "idle"
    <3>1. Sub(now, down[s].time) < MaxStall /\ Sub(now, down[s].time) \in Nat
      BY <1>0, <2>1, <2>2, SubNat
    <3>2. Sub(now, down[s].time) + 1 < Wrap
      BY <1>1, <3>1
    <3>3. Sub(now', down[s].time) = Sub(now, down[s].time) + 1
      BY <1>0, <2>1, <3>2, SubTick
    <3>4. Sub(now', down[s].time) <= MaxStall
      BY <1>1, <3>1, <3>3
    <3> QED
      BY <2>1, <2>2, <3>4 DEF ServerTimes
  <2> QED
    BY <2>2 DEF ServerTimes
<1> QED
  BY <1>0, <1>6, <1>12, <1>13 DEF TimeInv, b

-----------------------------------------------------------------------------
(* How a queued packet looks to jit_peek, which goes by thread_jit's reading of
   the counter.                                                             *)
LEMMA PeekFrom ==
    ASSUME NEW T, Paced(T), TimeInv(T), jit.pc = "scan", NEW i \in DOMAIN queue
    PROVE  /\ Sub(queue[i].count, jit.time) = From(queue[i], now) + Sub(now, jit.time)
           /\ From(queue[i], now) + Sub(now, jit.time) < Horizon
           /\ Sub(now, jit.time) \in Nat /\ From(queue[i], now) \in Nat
<1>0. now \in Time /\ jit.time \in Time
  BY DEF TimeInv, IInv, TypeOK
<1>1. Horizon \in Nat /\ Wrap \in Nat /\ 2 * Horizon <= Wrap
  BY PacedFacts, Zenon
<1>2. Booked(queue, now, T) /\ JitTimes(queue, jit, now, Sub(now, jit.time), T)
  BY DEF TimeInv
<1>3. queue[i].count \in Time /\ From(queue[i], now) \in Nat
  BY <1>0, <1>2, BookedFacts
<1>4. Sub(now, jit.time) \in Nat
  BY <1>0, SubNat
<1>5. ~(From(queue[i], now) + Sub(now, jit.time) >= Horizon)
  BY <1>2 DEF JitTimes, Ahead
<1>6. From(queue[i], now) + Sub(now, jit.time) < Horizon
  BY <1>1, <1>3, <1>4, <1>5
<1>7. Sub(queue[i].count, now) + Sub(now, jit.time) < Wrap
  BY <1>1, <1>3, <1>4, <1>6 DEF From
<1>8. Sub(queue[i].count, jit.time) = Sub(queue[i].count, now) + Sub(now, jit.time)
  BY <1>0, <1>3, <1>7, SubChain
<1> QED
  BY <1>3, <1>4, <1>6, <1>8 DEF From

(* Nothing looks outdated, so the purge loop drops nothing ... *)
LEMMA NothingOutdated ==
    ASSUME NEW T, Paced(T), TimeInv(T), jit.pc = "scan"
    PROVE  OutdatedAt = {}
<1> SUFFICES ASSUME NEW i \in OutdatedAt PROVE FALSE
  OBVIOUS
<1>1. ~jit.skipped /\ queue \in Seq(Node)
  BY DEF TimeInv, JitTimes, IInv, TypeOK
<1>2. i \in DOMAIN queue /\ IsOutdated(queue[i], jit.time)
  BY <1>1 DEF OutdatedAt, ScanFrom
<1>3. /\ From(queue[i], now) + Sub(now, jit.time) < Horizon
      /\ Sub(now, jit.time) \in Nat /\ From(queue[i], now) \in Nat
  BY <1>2, PeekFrom
<1>4. Sub(queue[i].count, jit.time) = From(queue[i], now) + Sub(now, jit.time)
  BY <1>2, PeekFrom
<1>5. Sub(queue[i].count, jit.time) >= Horizon
  BY <1>2 DEF IsOutdated, Horizon
<1>6. Horizon \in Nat
  BY PacedFacts, Zenon
<1> QED
  BY <1>3, <1>4, <1>5, <1>6

(* ... and the packet of highest priority is the one at the head. *)
LEMMA HeadIsFirst ==
    ASSUME NEW T, Paced(T), TimeInv(T), jit.pc = "scan", NEW i \in DOMAIN queue
    PROVE  IsHighestPriority(i) <=> i = 1
<1>1. /\ ~jit.skipped /\ queue \in Seq(Node)
      /\ DOMAIN queue = 1 .. Len(queue) /\ Len(queue) \in Nat
  BY DEF TimeInv, JitTimes, IInv, TypeOK
<1>2. ScanFrom .. Len(queue) = DOMAIN queue
  BY <1>1 DEF ScanFrom
<1>3. InOrder(queue, now)
  BY DEF TimeInv, Booked
<1>4. \A j \in DOMAIN queue :
        /\ Sub(queue[j].count, jit.time) = From(queue[j], now) + Sub(now, jit.time)
        /\ Sub(now, jit.time) \in Nat /\ From(queue[j], now) \in Nat
  BY PeekFrom
<1>5. ASSUME NEW h \in DOMAIN queue, NEW j \in DOMAIN queue, h < j
      PROVE  Sub(queue[h].count, jit.time) < Sub(queue[j].count, jit.time)
  <2>1. From(queue[h], now) < From(queue[j], now)
    BY <1>3, <1>5 DEF InOrder
  <2> QED
    BY <1>4, <2>1
<1>6. \A j \in DOMAIN queue : Sub(queue[j].count, jit.time) \in Nat
  BY <1>4
<1>7. 1 \in DOMAIN queue /\ i \in Nat /\ i >= 1
  BY <1>1
<1>8. CASE i = 1
  <2>1. \A j \in DOMAIN queue : j = 1 \/ 1 < j
    BY <1>1
  <2>2. \A j \in DOMAIN queue : Sub(queue[1].count, jit.time) <= Sub(queue[j].count, jit.time)
    BY <1>5, <1>6, <1>7, <2>1
  <2>3. \A j \in DOMAIN queue : ~(j < 1)
    BY <1>1
  <2> QED
    BY <1>2, <1>8, <2>2, <2>3 DEF IsHighestPriority
<1>9. CASE i # 1
  <2>1. 1 < i
    BY <1>7, <1>9
  <2>2. Sub(queue[1].count, jit.time) < Sub(queue[i].count, jit.time)
    BY <1>5, <1>7, <2>1
  <2>3. ~(Sub(queue[i].count, jit.time) <= Sub(queue[1].count, jit.time))
    BY <1>6, <1>7, <2>2
  <2> QED
    BY <1>2, <1>7, <1>9, <2>3 DEF IsHighestPriority
<1> QED
  BY <1>8, <1>9

LEMMA TimePoll ==
    ASSUME NEW T, Paced(T), TimeInv(T), Poll
    PROVE  JitTimes(queue', jit', now', Sub(now', jit'.time), T)
<1>0. /\ now \in Time /\ jit.time \in Time
      /\ jit' = [jit EXCEPT !.time = now, !.pc = IF queue = <<>> THEN "wait" ELSE "scan",
                            !.skipped = FALSE]
      /\ queue' = queue /\ now' = now /\ jit.pc = "wait"
  BY DEF TimeInv, IInv, TypeOK, Poll
<1>1. jit'.time = now /\ jit'.skipped = FALSE
      /\ jit'.pc = IF queue = <<>> THEN "wait" ELSE "scan"
  BY <1>0 DEF TimeInv, IInv, TypeOK
<1>2. Sub(now', jit'.time) = 0
  BY <1>0, <1>1, SubSelf, TimeIsInt
<1>3. Booked(queue, now, T) /\ JitTimes(queue, jit, now, Sub(now, jit.time), T)
  BY DEF TimeInv
<1>4. /\ Horizon \in Nat /\ JitLag \in Nat /\ TX_START_DELAY \in Nat
  BY PacedFacts, Zenon
<1>5. ASSUME NEW i \in DOMAIN queue
      PROVE  Ahead(queue[i], now, 0, Reach) /\ ~Ahead(queue[i], now, 0, Horizon)
  <2>1. From(queue[i], now) \in Nat /\ From(queue[i], now) < Horizon
    BY <1>0, <1>3, BookedFacts
  <2>2. From(queue[i], now) + Sub(now, jit.time) >= Soon /\ Sub(now, jit.time) <= JitLag
    BY <1>0, <1>3 DEF JitTimes, AllAhead, Ahead
  <2>3. Sub(now, jit.time) \in Nat
    BY <1>0, SubNat
  <2> QED
    BY <1>4, <2>1, <2>2, <2>3 DEF Ahead, Reach, Soon
<1>6. queue = <<>> => AllAhead(queue, now, 0, Soon)
  BY DEF AllAhead
<1> QED
  BY <1>0, <1>1, <1>2, <1>4, <1>5, <1>6 DEF JitTimes, AllAhead

LEMMA TimePeekDue ==
    ASSUME NEW T, Paced(T), TimeInv(T), PeekDue
    PROVE  JitTimes(queue', jit', now', Sub(now', jit'.time), T)
<1> DEFINE a == Sub(now, jit.time)
<1>0. /\ now \in Time /\ jit.pc = "scan"
      /\ queue' = queue /\ now' = now /\ DOMAIN queue = 1 .. Len(queue) /\ Len(queue) \in Nat
  BY DEF TimeInv, IInv, TypeOK, PeekDue
<1>1. PICK i \in DOMAIN queue :
        /\ IsHighestPriority(i)
        /\ IsDue(queue[i], jit.time)
        /\ jit' = [jit EXCEPT !.pc = "dequeue", !.idx = i, !.peeked = queue[i]]
  BY DEF PeekDue
<1>2. i = 1
  BY <1>0, <1>1, HeadIsFirst
<1>3. /\ jit'.time = jit.time /\ jit'.pc = "dequeue" /\ jit'.idx = 1 /\ jit'.peeked = queue[1]
  BY <1>1, <1>2 DEF TimeInv, IInv, TypeOK
<1>4. Booked(queue, now, T) /\ JitTimes(queue, jit, now, a, T) /\ AllApart(queue)
  BY DEF TimeInv, IInv, QueueInv
<1>5. /\ Horizon \in Nat /\ JitLag \in Nat /\ TX_START_DELAY \in Nat /\ TX_JIT_DELAY \in Nat
      /\ TX_START_DELAY + 2 * JitLag <= TX_JIT_DELAY /\ TX_MARGIN_DELAY \in Nat
      /\ MaxStall \in Nat /\ Far(T) \in Nat /\ Claim(T) \in Nat
      /\ Far(T) = Horizon + MaxStall + TX_JIT_DELAY + Claim(T)
  BY PacedFacts, Zenon
<1>6. From(queue[1], now) \in Nat /\ a \in Nat
      /\ Sub(queue[1].count, jit.time) = From(queue[1], now) + a
  BY <1>0, <1>1, <1>2, PeekFrom
<1>7. Sub(queue[1].count, jit.time) < TX_JIT_DELAY
  BY <1>1, <1>2 DEF IsDue
<1> HIDE DEF a
<1>8. ~Ahead(queue[1], now, a, TX_JIT_DELAY)
  BY <1>5, <1>6, <1>7 DEF Ahead
<1>9. ASSUME NEW k \in DOMAIN queue, k > 1 PROVE Ahead(queue[k], now, a, Soon)
  <2>1. Within(queue, now, Far(T))
    <3>1. \A h \in DOMAIN queue : From(queue[h], now) \in Nat /\ From(queue[h], now) < Horizon
      BY <1>0, <1>4, BookedFacts
    <3> QED
      BY <1>5, <3>1 DEF Within
  <2>2. 1 \in DOMAIN queue /\ 1 < k
    BY <1>1, <1>2, <1>9
  <2>3. DataQueue(queue, T) /\ InOrder(queue, now)
    BY <1>4 DEF Booked
  <2>4. From(queue[k], now) > From(queue[1], now) + TX_START_DELAY + TX_JIT_DELAY + Air(queue[1])
                              + TX_MARGIN_DELAY
    BY <1>0, <1>4, <2>1, <2>2, <2>3, QueueGap
  <2>5. Air(queue[1]) \in Nat /\ From(queue[k], now) \in Nat
    BY <1>0, <1>4, <2>2, BookedFacts, NodeTypes
  <2> QED
    BY <1>5, <1>6, <2>4, <2>5 DEF Ahead, Soon
<1>10. JitTimes(queue, jit', now, a, T)
  BY <1>3, <1>4, <1>8, <1>9 DEF JitTimes
<1> QED
  BY <1>0, <1>3, <1>10 DEF a

LEMMA TimePeekNothing ==
    ASSUME NEW T, Paced(T), TimeInv(T), PeekNothing
    PROVE  JitTimes(queue', jit', now', Sub(now', jit'.time), T)
<1> DEFINE a == Sub(now, jit.time)
<1>0. /\ now \in Time /\ jit.pc = "scan" /\ jit' = [jit EXCEPT !.pc = "wait"]
      /\ queue' = queue /\ now' = now /\ DOMAIN queue = 1 .. Len(queue) /\ Len(queue) \in Nat
      /\ ~\E i \in DOMAIN queue : IsHighestPriority(i) /\ IsDue(queue[i], jit.time)
  BY DEF TimeInv, IInv, TypeOK, PeekNothing
<1>1. jit'.time = jit.time /\ jit'.pc = "wait"
  BY <1>0 DEF TimeInv, IInv, TypeOK
<1>2. Booked(queue, now, T) /\ JitTimes(queue, jit, now, a, T)
  BY DEF TimeInv
<1>3. /\ JitLag \in Nat /\ TX_START_DELAY \in Nat /\ TX_JIT_DELAY \in Nat
      /\ TX_START_DELAY + 2 * JitLag <= TX_JIT_DELAY
  BY PacedFacts, Zenon
<1>4. ASSUME NEW k \in DOMAIN queue PROVE Ahead(queue[k], now, a, Soon)
  <2>1. 1 \in DOMAIN queue /\ (k = 1 \/ 1 < k)
    BY <1>0
  <2>2. ~IsDue(queue[1], jit.time)
    BY <1>0, <2>1, HeadIsFirst
  <2>3. From(queue[1], now) \in Nat /\ a \in Nat /\ From(queue[k], now) \in Nat
        /\ Sub(queue[1].count, jit.time) = From(queue[1], now) + a
    BY <1>0, <2>1, PeekFrom
  <2>4. From(queue[1], now) <= From(queue[k], now)
    BY <1>2, <2>1, <2>3 DEF Booked, InOrder
  <2> HIDE DEF a
  <2>5. From(queue[1], now) + a >= TX_JIT_DELAY
    BY <1>3, <2>2, <2>3 DEF IsDue
  <2> QED
    BY <1>3, <2>3, <2>4, <2>5 DEF Ahead, Soon
<1>5. AllAhead(queue, now, a, Soon)
  BY <1>4 DEF AllAhead
<1> HIDE DEF a
<1>6. JitTimes(queue, jit', now, a, T)
  BY <1>1, <1>2, <1>5 DEF JitTimes
<1> QED
  BY <1>0, <1>1, <1>6 DEF a

LEMMA TimeDequeue ==
    ASSUME NEW T, Paced(T), TimeInv(T), Dequeue
    PROVE  JitTimes(queue', jit', now', Sub(now', jit'.time), T)
<1> DEFINE a == Sub(now, jit.time)
<1>0. /\ now \in Time /\ jit.pc = "dequeue" /\ now' = now
      /\ jit' = [jit EXCEPT !.pc = "send", !.pkt = queue[jit.idx]]
      /\ queue' = RemoveAt(queue, jit.idx)
      /\ queue \in Seq(Node)
  BY DEF TimeInv, IInv, TypeOK, Dequeue
<1>1. Booked(queue, now, T) /\ JitTimes(queue, jit, now, a, T)
  BY DEF TimeInv
<1>2. /\ jit.idx = 1 /\ queue[1] = jit.peeked /\ ~Ahead(queue[1], now, a, TX_JIT_DELAY)
      /\ \A i \in DOMAIN queue : i > 1 => Ahead(queue[i], now, a, Soon)
      /\ AllAhead(queue, now, a, Reach) /\ a <= JitLag
  BY <1>0, <1>1 DEF JitTimes
<1>3. 1 \in 1 .. Len(queue) /\ 1 \in DOMAIN queue /\ Len(queue) >= 1
  BY <1>0, <1>2 DEF TimeInv, IInv, JitInv
<1>4. /\ jit'.time = jit.time /\ jit'.pc = "send" /\ jit'.peeked = jit.peeked
      /\ jit'.pkt = queue[1] /\ queue' = RemoveAt(queue, 1)
  BY <1>0, <1>2 DEF TimeInv, IInv, TypeOK
<1>5. AllAhead(queue', now, a, Soon) /\ AllAhead(queue', now, a, Reach)
  <2> SUFFICES ASSUME NEW i \in DOMAIN queue'
               PROVE  Ahead(queue'[i], now, a, Soon) /\ Ahead(queue'[i], now, a, Reach)
    BY DEF AllAhead
  <2>1. i + 1 \in DOMAIN queue /\ i + 1 > 1 /\ queue'[i] = queue[i + 1]
    BY <1>0, <1>3, <1>4, RemoveHead
  <2> HIDE DEF a
  <2> QED
    BY <1>2, <2>1 DEF AllAhead
<1>6. DataNode(queue[1], T)
  BY <1>0, <1>1, <1>3, BookedFacts
<1> HIDE DEF a
<1>7. Ahead(queue[1], now, a, Reach)
  BY <1>2, <1>3 DEF AllAhead
<1>8. JitTimes(queue', jit', now, a, T)
  BY <1>2, <1>4, <1>5, <1>6, <1>7 DEF JitTimes
<1> QED
  BY <1>0, <1>4, <1>8 DEF a

LEMMA TimeJitThread ==
    ASSUME NEW T, Paced(T), TimeInv(T), JitThread
    PROVE  TimeInv(T)'
<1>0. IInv /\ IInv' /\ now \in Time
  BY JitStep DEF TimeInv, IInv, TypeOK
<1>1. /\ now' = now /\ down' = down
  BY DEF JitThread, Poll, Purge, PeekDue, PeekNothing, Dequeue, SendLost, SendFails, Send
<1>2. Booked(queue, now, T) /\ JitTimes(queue, jit, now, Sub(now, jit.time), T)
      /\ \A s \in Servers : ServerTimes(down[s], now)
  BY DEF TimeInv
<1>3. ASSUME queue' = queue, JitTimes(queue', jit', now', Sub(now', jit'.time), T)
      PROVE  TimeInv(T)'
  BY <1>0, <1>1, <1>2, <1>3 DEF TimeInv
<1>4. CASE Poll
  BY <1>3, <1>4, TimePoll DEF Poll
<1>5. CASE Purge
  BY <1>5, NothingOutdated DEF Purge
<1>6. CASE PeekDue
  BY <1>3, <1>6, TimePeekDue DEF PeekDue
<1>7. CASE PeekNothing
  BY <1>3, <1>7, TimePeekNothing DEF PeekNothing
<1>8. CASE Dequeue
  <2>1. jit.idx \in 1 .. Len(queue) /\ queue' = RemoveAt(queue, jit.idx)
    BY <1>0, <1>8 DEF Dequeue, IInv, JitInv
  <2>2. Booked(queue', now, T)
    BY <1>0, <1>2, <2>1, BookedRemove
  <2> QED
    BY <1>0, <1>1, <1>2, <1>8, <2>2, TimeDequeue DEF TimeInv
<1>9. CASE SendLost \/ SendFails \/ Send
  <2>1. jit.pc = "send" /\ jit' = JitDone /\ queue' = queue
    BY <1>9 DEF SendLost, SendFails, Send
  <2>2. jit'.pc = "wait" /\ jit'.time = jit.time
    BY <1>0, <2>1 DEF JitDone, IInv, TypeOK
  <2>3. JitTimes(queue', jit', now', Sub(now', jit'.time), T)
    BY <1>1, <1>2, <2>1, <2>2 DEF JitTimes
  <2> QED
    BY <1>3, <2>1, <2>3
<1> QED
  BY <1>4, <1>5, <1>6, <1>7, <1>8, <1>9 DEF JitThread

LEMMA TimeInit ==
    ASSUME NEW T, Paced(T), Init
    PROVE  TimeInv(T)
<1>1. IInv
  BY InitIInv
<1>2. queue = <<>> /\ DOMAIN queue = {} /\ queue \in Seq(Node)
  BY DEF Init
<1>3. Booked(queue, now, T)
  BY <1>2 DEF Booked, DataQueue, InOrder, Within
<1>4. Sub(now, jit.time) = 0 /\ jit.pc = "wait"
  BY SchedulerConstants, SubSelf, TimeIsInt DEF Init
<1>5. JitTimes(queue, jit, now, Sub(now, jit.time), T)
  BY <1>2, <1>4, PacedFacts DEF JitTimes, AllAhead
<1>6. \A s \in Servers : ServerTimes(down[s], now)
  BY DEF Init, Idle, ServerTimes
<1> QED
  BY <1>1, <1>3, <1>5, <1>6 DEF TimeInv

LEMMA TimeStep ==
    ASSUME NEW T, Paced(T), TimeInv(T), QueueFits, [Next]_vars
    PROVE  TimeInv(T)'
<1>1. CASE UNCHANGED vars
  <2>1. IInv'
    BY <1>1, NextIInv DEF TimeInv
  <2>2. /\ queue' = queue /\ now' = now /\ jit' = jit /\ down' = down
    BY <1>1 DEF vars
  <2> QED
    BY <2>1, <2>2 DEF TimeInv
<1>2. ASSUME NEW s \in Servers, ReadTime(s) \/ Enqueue(s) PROVE TimeInv(T)'
  BY <1>2, TimeServer
<1>3. CASE JitThread
  BY <1>3, TimeJitThread
<1>4. CASE Tick
  BY <1>4, TimeTick
<1> QED
  BY <1>1, <1>2, <1>3, <1>4 DEF Next

(* While the queue fits its array, the timing invariant holds. *)
THEOREM OnTime ==
    ASSUME NEW T, Paced(T)
    PROVE  Spec /\ []QueueFits => []TimeInv(T)
<1>1. Init => TimeInv(T)
  BY TimeInit
<1>2. TimeInv(T) /\ QueueFits /\ [Next]_vars => TimeInv(T)'
  BY TimeStep
<1> QED
  BY <1>1, <1>2, PTL DEF Spec

(* The queue stays sorted by time of transmission, through every insertion,
   removal and wrap of the counter.                                         *)
THEOREM QueueStaysSorted ==
    ASSUME NEW T, Paced(T)
    PROVE  Spec /\ []QueueFits => []QueueSorted
<1>1. TimeInv(T) => QueueSorted
  <2> SUFFICES ASSUME TimeInv(T), NEW i \in 1 .. Len(queue) - 1
               PROVE  ~Later(queue[i], queue[i + 1])
    BY DEF QueueSorted
  <2>1. now \in Time /\ queue \in Seq(Node) /\ Booked(queue, now, T)
    BY DEF TimeInv, IInv, TypeOK
  <2>2. i \in DOMAIN queue /\ i + 1 \in DOMAIN queue /\ i < i + 1
    BY <2>1
  <2>3. /\ From(queue[i], now) \in Nat /\ From(queue[i], now) < Horizon /\ queue[i] \in Node
        /\ From(queue[i + 1], now) \in Nat /\ From(queue[i + 1], now) < Horizon
        /\ queue[i + 1] \in Node
    BY <2>1, <2>2, BookedFacts
  <2>4. From(queue[i], now) < From(queue[i + 1], now)
    BY <2>1, <2>2 DEF Booked, InOrder
  <2>5. ~(From(queue[i], now) > From(queue[i + 1], now))
    BY <2>3, <2>4
  <2> QED
    BY <2>1, <2>3, <2>5, LaterFrom
<1> QED
  BY <1>1, OnTime, PTL

(* Between jit_peek and jit_dequeue, with the lock free, no insertion changes
   what lies at the index thread_jit remembers.                             *)
THEOREM DequeuesWhatItPeeked ==
    ASSUME NEW T, Paced(T)
    PROVE  Spec /\ []QueueFits => []PeekedIsDequeued
<1>1. TimeInv(T) => PeekedIsDequeued
  BY DEF TimeInv, JitTimes, PeekedIsDequeued
<1> QED
  BY <1>1, OnTime, PTL

(* When thread_jit programs a packet, the radio has the time to ramp up, and
   does not wait longer than the JIT delay.                                 *)
THEOREM ProgramsInTime ==
    ASSUME NEW T, Paced(T)
    PROVE  Spec /\ []QueueFits => []ProgrammedInTime
<1>1. TimeInv(T) => ProgrammedInTime
  <2> SUFFICES ASSUME TimeInv(T), jit.pc = "send"
               PROVE  Sub(jit.pkt.count, now) \in TX_START_DELAY .. TX_JIT_DELAY
    BY DEF ProgrammedInTime
  <2> DEFINE a == Sub(now, jit.time)
  <2>1. /\ a <= JitLag /\ DataNode(jit.pkt, T)
        /\ From(jit.pkt, now) + a >= TX_START_DELAY + JitLag
        /\ ~(From(jit.pkt, now) + a >= TX_JIT_DELAY)
    BY DEF TimeInv, JitTimes, Ahead, Reach
  <2>2. now \in Time /\ jit.time \in Time
    BY DEF TimeInv, IInv, TypeOK
  <2>3. a \in Nat /\ Sub(jit.pkt.count, now) \in Nat
    BY <2>1, <2>2, NodeTypes, SubNat DEF DataNode
  <2>4. TX_START_DELAY \in Nat /\ TX_JIT_DELAY \in Nat /\ JitLag \in Nat
    BY PacedFacts, Zenon
  <2> HIDE DEF a
  <2> QED
    BY <2>1, <2>3, <2>4 DEF From
<1> QED
  BY <1>1, OnTime, PTL

(* An immediate packet is never refused: the slot the ASAP search finds is
   neither too late nor taken, whatever was queued before.                  *)
THEOREM ImmediateIsPlaced ==
    ASSUME NEW T, Paced(T)
    PROVE  Spec /\ []QueueFits => ClassCPlaced
<1>1. TimeInv(T) /\ QueueFits /\ [Next]_vars =>
        [\A s \in Servers : Reject(s) => down[s].type # ClassC]_vars
  BY ImmediateSlot DEF Reject
<1> QED
  BY <1>1, OnTime, PTL DEF Spec, ClassCPlaced

(* jit_peek never gives up on an accepted packet: each one is handed to the
   transmitter.                                                             *)
THEOREM NothingIsPurged ==
    ASSUME NEW T, Paced(T)
    PROVE  Spec /\ []QueueFits => [][~Purge]_vars
<1>1. TimeInv(T) => ~Purge
  BY NothingOutdated DEF Purge
<1> QED
  BY <1>1, OnTime, PTL DEF Spec

-----------------------------------------------------------------------------
(* How long the radio is taken from t on, and that this leaves thread_jit the
   time to program packet n.                                                *)
EndOf(n) == Plus(n.count, Air(n))
Left(r, t) ==
    IF r.status = "SCHEDULED" THEN From(r.pkt, t) + Air(r.pkt) ELSE Sub(EndOf(r.pkt), t)
Clear(r, n, t) == r.status # "FREE" => Left(r, t) + TX_JIT_DELAY <= From(n, t) + 1

RadioTimes(r, q, j, t, T) ==
    /\ r.status # "FREE" => DataNode(r.pkt, T)
    /\ r.status = "SCHEDULED" => From(r.pkt, t) \in 1 .. TX_JIT_DELAY - 1
    /\ r.status = "EMITTING" => Left(r, t) \in 1 .. Air(r.pkt)
    /\ \A i \in DOMAIN q : Clear(r, q[i], t)
    /\ j.pc = "send" =>
         /\ Clear(r, j.pkt, t)
         /\ \A i \in DOMAIN q : From(j.pkt, t) + Air(j.pkt) + TX_JIT_DELAY <= From(q[i], t) + 1

RadioInv(T) == TimeInv(T) /\ RadioTimes(radio, queue, jit, now, T)

LEMMA RadioLeft ==
    ASSUME NEW T, Paced(T), NEW r, NEW q, NEW j, NEW t \in Time, RadioTimes(r, q, j, t, T),
           r.status \in {"SCHEDULED", "EMITTING"}
    PROVE  /\ Left(r, t) \in Nat /\ Left(r, t) >= 1 /\ Left(r, t) + 1 <= TX_JIT_DELAY + T
           /\ r.pkt.count \in Time /\ Air(r.pkt) \in Nat /\ Air(r.pkt) >= 1 /\ Air(r.pkt) <= T
           /\ From(r.pkt, t) \in Nat
<1>1. DataNode(r.pkt, T)
  BY DEF RadioTimes
<1>2. T \in Nat /\ TX_JIT_DELAY \in Nat /\ TX_JIT_DELAY >= 2
  BY PacedFacts, Zenon
<1>3. r.pkt.count \in Time /\ Air(r.pkt) \in Nat /\ Air(r.pkt) >= 1 /\ Air(r.pkt) <= T
  BY <1>1, <1>2, NodeTypes DEF DataNode
<1>4. From(r.pkt, t) \in Nat
  BY <1>3, SubNat DEF From
<1>5. CASE r.status = "SCHEDULED"
  <2>1. Left(r, t) = From(r.pkt, t) + Air(r.pkt) /\ From(r.pkt, t) \in 1 .. TX_JIT_DELAY - 1
    BY <1>5 DEF Left, RadioTimes
  <2> QED
    BY <1>2, <1>3, <1>4, <2>1
<1>6. CASE r.status = "EMITTING"
  <2>1. Left(r, t) \in 1 .. Air(r.pkt)
    BY <1>6 DEF RadioTimes
  <2> QED
    BY <1>2, <1>3, <1>4, <2>1
<1> QED
  BY <1>5, <1>6

(* A packet that is accepted is far enough from what the radio may be doing, or
   behind a packet that is.                                                 *)
LEMMA AcceptedBehind ==
    ASSUME NEW T, Paced(T), Quiet(T), TimeInv(T), QueueFits, NEW s \in Servers,
           down[s].pc = "insert", Verdict(queue, down[s].time, Candidate(s)) = OK
    PROVE  \/ 2 * TX_JIT_DELAY + T <= From(Candidate(s), now) + 2
           \/ \E i \in DOMAIN queue : From(queue[i], now) < From(Candidate(s), now)
<1> DEFINE d == down[s]
           x == Candidate(s)
<1>1. /\ d.time \in Time /\ now \in Time /\ x.count \in Time
      /\ Sub(now, d.time) <= MaxStall /\ x.type = d.type
      /\ d.toa \in 1 .. T
      /\ InOrder(queue, d.time) /\ Within(queue, d.time, Horizon + MaxStall)
      /\ d.pc # "idle"
  BY CandidateData, NodeTypes DEF DataNode
<1>2. /\ MaxStall \in Nat /\ Wrap \in Nat /\ JitLag \in Nat /\ JitLag >= 1 /\ T \in Nat
      /\ TX_START_DELAY \in Nat /\ TX_MARGIN_DELAY \in Nat /\ TX_JIT_DELAY \in Nat
      /\ 2 * JitLag + MaxStall <= TX_MARGIN_DELAY + TX_JIT_DELAY + 1
      /\ ASAP_DELAY \in Nat
  BY PacedFacts, Zenon
<1>3. ~IsTooLate(x, d.time)
  BY DEF Verdict, OK, TooLate
<1>4. Sub(x.count, d.time) \in Nat /\ Sub(now, d.time) \in Nat
  BY <1>1, SubNat
<1>5. Sub(x.count, d.time) > TX_START_DELAY + TX_MARGIN_DELAY + TX_JIT_DELAY
  BY <1>2, <1>3, <1>4 DEF IsTooLate
<1>6. Sub(x.count, d.time) >= Sub(now, d.time)
  <2> HIDE DEF x, d
  <2> QED
    BY <1>1, <1>2, <1>4, <1>5
<1>7. From(x, now) = Sub(x.count, d.time) - Sub(now, d.time) /\ From(x, now) \in Nat
  <2>1. Sub(x.count, now) = Sub(x.count, d.time) - Sub(now, d.time)
    BY <1>1, <1>6, SubApart
  <2> HIDE DEF x, d
  <2> QED
    BY <1>1, <1>4, <1>6, <2>1, SubNat DEF From
<1>8. ASSUME 2 * TX_JIT_DELAY + MaxStall + T <= Sub(x.count, d.time) + 2
      PROVE  2 * TX_JIT_DELAY + T <= From(x, now) + 2
  <2> HIDE DEF x, d
  <2> QED
    BY <1>1, <1>2, <1>4, <1>7, <1>8
<1>9. CASE d.type # ClassC
  <2>1. PICK r \in Requests : d.type = r.type /\ d.count = Plus(d.time, r.lead)
    BY <1>1 DEF TimeInv, ServerTimes
  <2>2. r.lead \in Nat /\ r.lead < Wrap
    BY SchedulerConstants DEF Paced
  <2>3. Sub(d.time, d.time) = 0
    BY <1>1, SubSelf, TimeIsInt
  <2>4. x.count = Plus(d.time, r.lead)
    BY <1>9, <2>1 DEF Candidate, NewNode
  <2> HIDE DEF x, d
  <2>5. Sub(x.count, d.time) = r.lead
    <3>1. Sub(d.time, d.time) + r.lead < Wrap
      BY <2>2, <2>3
    <3>2. Sub(Plus(d.time, r.lead), d.time) = Sub(d.time, d.time) + r.lead
      BY <1>1, <2>2, <3>1, SubPlus
    <3> QED
      BY <2>2, <2>3, <2>4, <3>2
  <2>6. r.type # ClassC /\ r.lead > TX_START_DELAY + TX_MARGIN_DELAY + TX_JIT_DELAY
    BY <1>5, <1>9, <2>1, <2>5
  <2>7. 2 * TX_JIT_DELAY + MaxStall + T <= r.lead + 2
    BY <2>6 DEF Quiet
  <2>8. 2 * TX_JIT_DELAY + T <= From(x, now) + 2
    BY <1>8, <2>5, <2>7
  <2> QED
    BY <2>8 DEF x
<1>10. CASE d.type = ClassC
  <2> DEFINE c == AsapCount(queue, d.time, d.toa)
  <2>1. DataQueue(queue, T) /\ AllApart(queue) /\ Len(queue) <= JIT_QUEUE_MAX
        /\ Booked(queue, now, T)
    BY DEF TimeInv, Booked, IInv, QueueInv, QueueFits
  <2>2. Sub(c, d.time) >= ASAP_DELAY \/ \E i \in DOMAIN queue : Sub(c, d.time) > From(queue[i], d.time)
    BY <1>1, <2>1, AsapSlot
  <2>3. x.count = c
    BY <1>10 DEF Candidate, NewNode
  <2> HIDE DEF c, x, d
  <2>4. CASE Sub(x.count, d.time) >= ASAP_DELAY
    <3>1. 2 * TX_JIT_DELAY + MaxStall + T <= ASAP_DELAY + 2
      BY DEF Quiet
    <3>2. 2 * TX_JIT_DELAY + MaxStall + T <= Sub(x.count, d.time) + 2
      BY <1>2, <1>4, <2>4, <3>1
    <3> QED
      BY <1>8, <3>2 DEF x
  <2>5. CASE \E i \in DOMAIN queue : Sub(x.count, d.time) > From(queue[i], d.time)
    <3>1. PICK i \in DOMAIN queue : Sub(x.count, d.time) > From(queue[i], d.time)
      BY <2>5
    <3>2. From(queue[i], d.time) = From(queue[i], now) + Sub(now, d.time)
      BY <1>1, <2>1, LookBack
    <3>3. From(queue[i], now) \in Nat
      BY <1>1, <2>1, BookedFacts
    <3>4. From(queue[i], now) < From(x, now)
      BY <1>4, <1>7, <3>1, <3>2, <3>3
    <3> QED
      BY <3>4 DEF x
  <2> QED
    BY <2>2, <2>3, <2>4, <2>5
<1> QED
  BY <1>9, <1>10

LEMMA RadioAccept ==
    ASSUME NEW T, Paced(T), Quiet(T), RadioInv(T), QueueFits, NEW s \in Servers, Accept(s)
    PROVE  RadioTimes(radio', queue', jit', now', T)
<1> DEFINE x == Candidate(s)
<1>0. /\ now \in Time /\ TimeInv(T) /\ RadioTimes(radio, queue, jit, now, T)
      /\ Booked(queue, now, T) /\ queue \in Seq(Node)
      /\ radio' = radio /\ jit' = jit /\ now' = now
      /\ down[s].pc = "insert" /\ Verdict(queue, down[s].time, Candidate(s)) = OK
      /\ radio.status \in {"FREE", "SCHEDULED", "EMITTING"}
  BY DEF RadioInv, TimeInv, IInv, TypeOK, Accept
<1>1. PICK k \in Places(queue, x) : queue' = InsertAt(queue, k, x)
  BY DEF Accept
<1>2. DataNode(x, T)
  BY <1>0, CandidateData
<1>3. From(x, now) \in Nat
  BY <1>0, AcceptedLead
<1>4. \/ 2 * TX_JIT_DELAY + T <= From(x, now) + 2
      \/ \E i \in DOMAIN queue : From(queue[i], now) < From(x, now)
  BY <1>0, AcceptedBehind
<1> HIDE DEF x
<1>5. /\ T \in Nat /\ TX_JIT_DELAY \in Nat
  BY PacedFacts, Zenon
<1>6. Clear(radio, x, now)
  <2> SUFFICES ASSUME radio.status # "FREE"
               PROVE  Left(radio, now) + TX_JIT_DELAY <= From(x, now) + 1
    BY DEF Clear
  <2>1. Left(radio, now) \in Nat /\ Left(radio, now) + 1 <= TX_JIT_DELAY + T
    BY <1>0, RadioLeft
  <2>2. CASE 2 * TX_JIT_DELAY + T <= From(x, now) + 2
    BY <1>3, <1>5, <2>1, <2>2
  <2>3. ASSUME NEW i \in DOMAIN queue, From(queue[i], now) < From(x, now)
        PROVE  Left(radio, now) + TX_JIT_DELAY <= From(x, now) + 1
    <3>1. From(queue[i], now) \in Nat
      BY <1>0, BookedFacts
    <3>2. Left(radio, now) + TX_JIT_DELAY <= From(queue[i], now) + 1
      BY <1>0 DEF RadioTimes, Clear
    <3> QED
      BY <1>3, <1>5, <2>1, <2>3, <3>1, <3>2
  <2> QED
    BY <1>4, <2>2, <2>3
<1>7. ASSUME jit.pc = "send"
      PROVE  From(jit.pkt, now) + Air(jit.pkt) + TX_JIT_DELAY <= From(x, now) + 1
  <2>1. DataNode(jit.pkt, T) /\ ~(From(jit.pkt, now) + Sub(now, jit.time) >= TX_JIT_DELAY)
    BY <1>0, <1>7 DEF TimeInv, JitTimes, Ahead
  <2>2. From(jit.pkt, now) \in Nat /\ Air(jit.pkt) \in Nat /\ Air(jit.pkt) <= T
    BY <1>0, <1>5, <2>1, NodeTypes, SubNat DEF DataNode, From
  <2>3. Sub(now, jit.time) \in Nat
    BY <1>0, SubNat DEF TimeInv, IInv, TypeOK
  <2>4. From(jit.pkt, now) < TX_JIT_DELAY
    BY <1>5, <2>1, <2>2, <2>3
  <2>5. CASE 2 * TX_JIT_DELAY + T <= From(x, now) + 2
    BY <1>3, <1>5, <2>2, <2>4, <2>5
  <2>6. ASSUME NEW i \in DOMAIN queue, From(queue[i], now) < From(x, now)
        PROVE  From(jit.pkt, now) + Air(jit.pkt) + TX_JIT_DELAY <= From(x, now) + 1
    <3>1. From(queue[i], now) \in Nat
      BY <1>0, BookedFacts
    <3>2. From(jit.pkt, now) + Air(jit.pkt) + TX_JIT_DELAY <= From(queue[i], now) + 1
      BY <1>0, <1>7 DEF RadioTimes
    <3> QED
      BY <1>3, <1>5, <2>2, <2>6, <3>1, <3>2
  <2> QED
    BY <1>4, <2>5, <2>6
<1>8. ToSet(queue') = ToSet(queue) \cup {x}
  <2>1. k \in 1 .. Len(queue) + 1 /\ x \in Node
    BY <1>2 DEF Places, DataNode
  <2> QED
    BY <1>0, <1>1, <2>1, InsertAtElements
<1>9. \A i \in DOMAIN queue' : queue'[i] = x \/ \E h \in DOMAIN queue : queue'[i] = queue[h]
  BY <1>8 DEF ToSet
<1> QED
  BY <1>0, <1>6, <1>7, <1>9 DEF RadioTimes

(* What the radio does in a tick: the time it is taken shrinks with the others,
   and it is free when that time is over.                                   *)
LEMMA RadioTick ==
    ASSUME NEW T, Paced(T), RadioInv(T), Tick
    PROVE  RadioTimes(radio', queue', jit', now', T)
<1>0. /\ now \in Time /\ TimeInv(T) /\ RadioTimes(radio, queue, jit, now, T)
      /\ TimeInv(T)' /\ Booked(queue, now, T)
      /\ now' = Plus(now, 1) /\ queue' = queue /\ jit' = jit /\ radio' = RadioAt(now')
      /\ radio \in [status : {"FREE", "SCHEDULED", "EMITTING"}, pkt : Node \cup {NoNode}]
      /\ radio.status \in {"FREE", "SCHEDULED", "EMITTING"}
  BY TimeTick DEF RadioInv, TimeInv, IInv, TypeOK, Tick
<1>00. now' \in Time
  BY <1>0 DEF TimeInv, IInv, TypeOK
<1>1. /\ T \in Nat /\ TX_JIT_DELAY \in Nat /\ TX_JIT_DELAY >= 2
      /\ TX_START_DELAY \in Nat /\ JitLag \in Nat /\ Wrap \in Nat
  BY PacedFacts, Zenon
<1>2. T < Wrap
  <2>1. /\ Claim(T) = TX_START_DELAY + TX_JIT_DELAY + T + TX_MARGIN_DELAY /\ Far(T) + Claim(T) < Wrap
        /\ TX_MARGIN_DELAY \in Nat /\ Far(T) \in Nat
    BY PacedFacts, Zenon
  <2> QED
    BY <1>1, <2>1
<1>3. ASSUME NEW c \in Time, Sub(c, now) >= 1
      PROVE  Sub(c, now') = Sub(c, now) - 1 /\ Sub(c, now) \in Nat
  BY <1>0, <1>3, SubTick, SubNat
<1>4. ASSUME NEW c \in Time PROVE Sub(c, now') = 0 <=> c = now'
  BY <1>00, SubZero
<1>5. ASSUME NEW i \in DOMAIN queue
      PROVE  /\ From(queue[i], now') = From(queue[i], now) - 1
             /\ From(queue[i], now) \in Nat /\ From(queue[i], now) >= 1
  <2>1. queue[i].count \in Time /\ From(queue[i], now) \in Nat
    BY <1>0, BookedFacts
  <2>2. /\ From(queue[i], now) + Sub(now, jit.time) >= TX_START_DELAY + JitLag
        /\ Sub(now, jit.time) < JitLag /\ Sub(now, jit.time) \in Nat
    BY <1>0, SubNat DEF TimeInv, JitTimes, AllAhead, Ahead, Reach, Tick, IInv, TypeOK
  <2>3. From(queue[i], now) >= 1
    BY <1>1, <2>1, <2>2
  <2> QED
    BY <1>3, <2>1, <2>3 DEF From
<1>6. ASSUME jit.pc = "send"
      PROVE  /\ From(jit.pkt, now') = From(jit.pkt, now) - 1
             /\ From(jit.pkt, now) \in Nat /\ From(jit.pkt, now) >= 1 /\ Air(jit.pkt) \in Nat
  <2>1. /\ DataNode(jit.pkt, T)
        /\ From(jit.pkt, now) + Sub(now, jit.time) >= TX_START_DELAY + JitLag
        /\ Sub(now, jit.time) < JitLag /\ Sub(now, jit.time) \in Nat
    BY <1>0, <1>6, SubNat DEF TimeInv, JitTimes, Ahead, Reach, Tick, IInv, TypeOK
  <2>2. jit.pkt.count \in Time /\ Air(jit.pkt) \in Nat
    BY <2>1, NodeTypes DEF DataNode
  <2>3. From(jit.pkt, now) \in Nat
    BY <1>0, <2>2, SubNat DEF From
  <2>4. From(jit.pkt, now) >= 1
    BY <1>1, <2>1, <2>3
  <2> QED
    BY <1>3, <2>2, <2>4 DEF From
<1> DEFINE p == radio.pkt
<1>7. ASSUME radio.status = "SCHEDULED"
      PROVE  /\ radio'.status \in {"SCHEDULED", "EMITTING"} /\ radio'.pkt = p
             /\ radio'.status = "SCHEDULED" => From(p, now') \in 1 .. TX_JIT_DELAY - 1
             /\ radio'.status = "EMITTING" => Left(radio', now') \in 1 .. Air(p)
             /\ Left(radio', now') = Left(radio, now) - 1
  <2>1. /\ p.count \in Time /\ Air(p) \in Nat /\ Air(p) >= 1 /\ Air(p) <= T
        /\ From(p, now) \in Nat /\ From(p, now) \in 1 .. TX_JIT_DELAY - 1
        /\ Left(radio, now) = From(p, now) + Air(p)
    BY <1>0, <1>7, RadioLeft DEF RadioTimes, Left
  <2>2. From(p, now') = From(p, now) - 1
    <3>1. From(p, now) >= 1
      BY <1>1, <2>1
    <3> QED
      BY <1>3, <2>1, <3>1 DEF From
  <2>3. CASE now' = p.count
    <3>1. radio' = [radio EXCEPT !.status = "EMITTING"]
      BY <1>0, <1>7, <2>3 DEF RadioAt
    <3>2. radio'.status = "EMITTING" /\ radio'.pkt = p
      BY <1>0, <3>1
    <3>3. From(p, now') = 0
      BY <1>4, <2>1, <2>3 DEF From
    <3>4. Left(radio', now') = Air(p)
      <4>1. Sub(p.count, p.count) = 0
        BY <2>1, SubSelf, TimeIsInt
      <4>2. Sub(p.count, p.count) + Air(p) < Wrap
        BY <1>1, <1>2, <2>1, <4>1
      <4>3. Sub(Plus(p.count, Air(p)), p.count) = Sub(p.count, p.count) + Air(p)
        BY <2>1, <4>2, SubPlus
      <4> QED
        BY <2>1, <2>3, <3>2, <4>1, <4>3 DEF Left, EndOf
    <3> HIDE DEF p
    <3> QED
      BY <1>1, <2>1, <2>2, <3>2, <3>3, <3>4 DEF p
  <2>4. CASE now' # p.count
    <3>1. radio' = radio
      BY <1>0, <1>7, <2>4 DEF RadioAt
    <3>2. From(p, now') # 0
      BY <1>4, <2>1, <2>4 DEF From
    <3>3. Left(radio', now') = From(p, now') + Air(p)
      BY <1>7, <3>1 DEF Left
    <3> HIDE DEF p
    <3>4. From(p, now') \in 1 .. TX_JIT_DELAY - 1 /\ Left(radio', now') = Left(radio, now) - 1
      BY <1>1, <2>1, <2>2, <3>2, <3>3
    <3> QED
      BY <1>7, <3>1, <3>4 DEF p
  <2> QED
    BY <2>3, <2>4
<1>8. ASSUME radio.status = "EMITTING"
      PROVE  \/ radio'.status = "FREE"
             \/ /\ radio'.status = "EMITTING" /\ radio'.pkt = p
                /\ Left(radio', now') \in 1 .. Air(p)
                /\ Left(radio', now') = Left(radio, now) - 1
  <2>1. /\ p.count \in Time /\ Air(p) \in Nat /\ Left(radio, now) \in 1 .. Air(p)
        /\ Left(radio, now) = Sub(EndOf(p), now) /\ Left(radio, now) \in Nat
        /\ Left(radio, now) >= 1
    BY <1>0, <1>8, RadioLeft DEF RadioTimes, Left
  <2>2. EndOf(p) \in Time
    <3>1. p.count \in Int /\ Air(p) \in Int
      BY <2>1 DEF Time
    <3> QED
      BY <3>1, PlusType DEF EndOf
  <2>3. Sub(EndOf(p), now') = Sub(EndOf(p), now) - 1
    BY <1>3, <2>1, <2>2
  <2>4. CASE now' = EndOf(p)
    <3>1. radio' = [status |-> "FREE", pkt |-> NoNode]
      BY <1>0, <1>8, <2>4 DEF RadioAt, EndOf, Air
    <3> QED
      BY <3>1
  <2>5. CASE now' # EndOf(p)
    <3>1. radio' = radio
      BY <1>0, <1>8, <2>5 DEF RadioAt, EndOf, Air
    <3>2. Sub(EndOf(p), now') # 0
      BY <1>4, <2>2, <2>5
    <3>3. Left(radio', now') = Sub(EndOf(p), now')
      BY <1>8, <3>1 DEF Left
    <3> HIDE DEF p
    <3>4. Left(radio', now') \in 1 .. Air(p) /\ Left(radio', now') = Left(radio, now) - 1
      BY <2>1, <2>3, <3>2, <3>3
    <3> QED
      BY <1>8, <3>1, <3>4 DEF p
  <2> QED
    BY <2>4, <2>5
<1>9. ASSUME radio.status = "FREE" PROVE radio'.status = "FREE"
  BY <1>0, <1>9 DEF RadioAt
<1>10. radio'.status # "FREE" =>
         /\ radio.status \in {"SCHEDULED", "EMITTING"}
         /\ radio'.status \in {"SCHEDULED", "EMITTING"}
         /\ radio'.pkt = p /\ DataNode(p, T)
         /\ Left(radio', now') = Left(radio, now) - 1
         /\ Left(radio, now) \in Nat /\ Left(radio, now) >= 1
  <2> SUFFICES ASSUME radio'.status # "FREE"
               PROVE  /\ radio.status \in {"SCHEDULED", "EMITTING"}
                      /\ radio'.status \in {"SCHEDULED", "EMITTING"}
                      /\ radio'.pkt = p /\ DataNode(p, T)
                      /\ Left(radio', now') = Left(radio, now) - 1
                      /\ Left(radio, now) \in Nat /\ Left(radio, now) >= 1
    OBVIOUS
  <2>1. radio.status \in {"SCHEDULED", "EMITTING"}
    BY <1>0, <1>9
  <2>2. DataNode(p, T)
    BY <1>0, <2>1 DEF RadioTimes
  <2>3. Left(radio, now) \in Nat /\ Left(radio, now) >= 1
    BY <1>0, <2>1, RadioLeft
  <2>4. /\ radio'.status \in {"SCHEDULED", "EMITTING"}
        /\ radio'.pkt = p
        /\ Left(radio', now') = Left(radio, now) - 1
    BY <1>7, <1>8, <2>1
  <2> QED
    BY <2>1, <2>2, <2>3, <2>4
<1>11. radio'.status = "SCHEDULED" => From(radio'.pkt, now') \in 1 .. TX_JIT_DELAY - 1
  BY <1>7, <1>8, <1>10
<1>12. radio'.status = "EMITTING" => Left(radio', now') \in 1 .. Air(radio'.pkt)
  BY <1>7, <1>8, <1>10
<1>13. ASSUME NEW i \in DOMAIN queue PROVE Clear(radio', queue[i], now')
  <2> SUFFICES ASSUME radio'.status # "FREE"
               PROVE  Left(radio', now') + TX_JIT_DELAY <= From(queue[i], now') + 1
    BY DEF Clear
  <2>1. Left(radio, now) + TX_JIT_DELAY <= From(queue[i], now) + 1
    BY <1>0, <1>10 DEF RadioTimes, Clear
  <2> QED
    BY <1>1, <1>5, <1>10, <2>1
<1>14. ASSUME jit.pc = "send"
       PROVE  /\ Clear(radio', jit.pkt, now')
              /\ \A i \in DOMAIN queue :
                   From(jit.pkt, now') + Air(jit.pkt) + TX_JIT_DELAY <= From(queue[i], now') + 1
  <2>1. Clear(radio', jit.pkt, now')
    <3> SUFFICES ASSUME radio'.status # "FREE"
                 PROVE  Left(radio', now') + TX_JIT_DELAY <= From(jit.pkt, now') + 1
      BY DEF Clear
    <3>1. Left(radio, now) + TX_JIT_DELAY <= From(jit.pkt, now) + 1
      BY <1>0, <1>10, <1>14 DEF RadioTimes, Clear
    <3> QED
      BY <1>1, <1>6, <1>10, <1>14, <3>1
  <2>2. ASSUME NEW i \in DOMAIN queue
        PROVE  From(jit.pkt, now') + Air(jit.pkt) + TX_JIT_DELAY <= From(queue[i], now') + 1
    <3>1. From(jit.pkt, now) + Air(jit.pkt) + TX_JIT_DELAY <= From(queue[i], now) + 1
      BY <1>0, <1>14 DEF RadioTimes
    <3> QED
      BY <1>1, <1>5, <1>6, <1>14, <3>1
  <2> QED
    BY <2>1, <2>2
<1>15. radio'.status # "FREE" => DataNode(radio'.pkt, T)
  BY <1>10
<1> QED
  BY <1>0, <1>11, <1>12, <1>13, <1>14, <1>15 DEF RadioTimes

LEMMA RadioDequeue ==
    ASSUME NEW T, Paced(T), RadioInv(T), Dequeue
    PROVE  RadioTimes(radio', queue', jit', now', T)
<1>0. /\ now \in Time /\ jit.pc = "dequeue" /\ now' = now /\ radio' = radio
      /\ jit' = [jit EXCEPT !.pc = "send", !.pkt = queue[jit.idx]]
      /\ queue' = RemoveAt(queue, jit.idx)
      /\ queue \in Seq(Node)
      /\ RadioTimes(radio, queue, jit, now, T)
      /\ Booked(queue, now, T) /\ AllApart(queue) /\ jit.idx = 1
      /\ 1 \in 1 .. Len(queue)
  BY DEF RadioInv, TimeInv, JitTimes, IInv, QueueInv, JitInv, TypeOK, Dequeue
<1>1. /\ jit'.pc = "send" /\ jit'.pkt = queue[1] /\ queue' = RemoveAt(queue, 1)
      /\ 1 \in DOMAIN queue /\ Len(queue) >= 1
  BY <1>0 DEF RadioInv, TimeInv, IInv, TypeOK
<1>2. \A i \in DOMAIN queue' : i + 1 \in DOMAIN queue /\ i + 1 > 1 /\ queue'[i] = queue[i + 1]
  BY <1>0, <1>1, RemoveHead
<1>3. /\ Horizon \in Nat /\ TX_START_DELAY \in Nat /\ TX_JIT_DELAY \in Nat
      /\ TX_MARGIN_DELAY \in Nat /\ MaxStall \in Nat /\ Far(T) \in Nat /\ Claim(T) \in Nat
      /\ Far(T) = Horizon + MaxStall + TX_JIT_DELAY + Claim(T)
  BY PacedFacts, Zenon
<1>4. Within(queue, now, Far(T))
  <2>1. \A h \in DOMAIN queue : From(queue[h], now) \in Nat /\ From(queue[h], now) < Horizon
    BY <1>0, BookedFacts
  <2> QED
    BY <1>3, <2>1 DEF Within
<1>5. ASSUME NEW k \in DOMAIN queue, k > 1
      PROVE  From(queue[1], now) + Air(queue[1]) + TX_JIT_DELAY <= From(queue[k], now) + 1
  <2>1. DataQueue(queue, T) /\ InOrder(queue, now) /\ 1 < k
    BY <1>0, <1>5 DEF Booked
  <2>2. From(queue[k], now) > From(queue[1], now) + TX_START_DELAY + TX_JIT_DELAY + Air(queue[1])
                              + TX_MARGIN_DELAY
    BY <1>0, <1>1, <1>4, <2>1, QueueGap
  <2>3. From(queue[1], now) \in Nat /\ From(queue[k], now) \in Nat /\ Air(queue[1]) \in Nat
    BY <1>0, <1>1, BookedFacts, NodeTypes
  <2> QED
    BY <1>3, <2>2, <2>3
<1>6. \A i \in DOMAIN queue : Clear(radio, queue[i], now)
  BY <1>0 DEF RadioTimes
<1>7. /\ \A i \in DOMAIN queue' : Clear(radio, queue'[i], now)
      /\ Clear(radio, jit'.pkt, now)
      /\ \A i \in DOMAIN queue' :
           From(jit'.pkt, now) + Air(jit'.pkt) + TX_JIT_DELAY <= From(queue'[i], now) + 1
  BY <1>1, <1>2, <1>5, <1>6
<1> QED
  BY <1>0, <1>7 DEF RadioTimes

(* When a packet is sent the radio is free: were it not, the packet would still
   be further away than the JIT delay.                                      *)
LEMMA FreeAtSend ==
    ASSUME NEW T, Paced(T), RadioInv(T), jit.pc = "send"
    PROVE  /\ radio.status = "FREE"
           /\ DataNode(jit.pkt, T)
           /\ From(jit.pkt, now) \in TX_START_DELAY .. TX_JIT_DELAY - 1
<1>1. /\ now \in Time /\ jit.time \in Time /\ RadioTimes(radio, queue, jit, now, T)
      /\ radio.status \in {"FREE", "SCHEDULED", "EMITTING"}
  BY DEF RadioInv, TimeInv, IInv, TypeOK
<1>2. /\ DataNode(jit.pkt, T)
      /\ Sub(now, jit.time) <= JitLag
      /\ From(jit.pkt, now) + Sub(now, jit.time) >= TX_START_DELAY + JitLag
      /\ ~(From(jit.pkt, now) + Sub(now, jit.time) >= TX_JIT_DELAY)
  BY DEF RadioInv, TimeInv, JitTimes, Ahead, Reach
<1>3. From(jit.pkt, now) \in Nat /\ Sub(now, jit.time) \in Nat
  BY <1>1, <1>2, NodeTypes, SubNat DEF DataNode, From
<1>4. TX_START_DELAY \in Nat /\ TX_JIT_DELAY \in Nat /\ JitLag \in Nat
  BY PacedFacts, Zenon
<1>5. From(jit.pkt, now) \in TX_START_DELAY .. TX_JIT_DELAY - 1
  BY <1>2, <1>3, <1>4
<1>6. ASSUME radio.status # "FREE" PROVE FALSE
  <2>1. Left(radio, now) \in Nat /\ Left(radio, now) >= 1
    BY <1>1, <1>6, RadioLeft
  <2>2. Left(radio, now) + TX_JIT_DELAY <= From(jit.pkt, now) + 1
    BY <1>1, <1>6 DEF RadioTimes, Clear
  <2> QED
    BY <1>3, <1>4, <1>5, <2>1, <2>2
<1> QED
  BY <1>2, <1>5, <1>6

LEMMA RadioSend ==
    ASSUME NEW T, Paced(T), Quiet(T), RadioInv(T), SendLost \/ SendFails \/ Send
    PROVE  RadioTimes(radio', queue', jit', now', T)
<1>0. /\ jit.pc = "send" /\ jit' = JitDone /\ queue' = queue /\ now' = now
      /\ radio' = radio \/ radio' = [status |-> "SCHEDULED", pkt |-> jit.pkt]
      /\ RadioTimes(radio, queue, jit, now, T)
  BY DEF SendLost, SendFails, Send, RadioInv
<1>1. /\ radio.status = "FREE" /\ DataNode(jit.pkt, T)
      /\ From(jit.pkt, now) \in TX_START_DELAY .. TX_JIT_DELAY - 1
  BY <1>0, FreeAtSend
<1>2. jit'.pc = "wait"
  BY <1>0 DEF JitDone, RadioInv, TimeInv, IInv, TypeOK
<1>3. CASE radio' = radio
  BY <1>0, <1>2, <1>3 DEF RadioTimes
<1>4. CASE radio' = [status |-> "SCHEDULED", pkt |-> jit.pkt]
  <2>1. TX_START_DELAY >= 1 /\ TX_START_DELAY \in Nat /\ TX_JIT_DELAY \in Nat
    BY PacedFacts, Zenon DEF Quiet
  <2>2. From(jit.pkt, now) \in 1 .. TX_JIT_DELAY - 1
    BY <1>1, <2>1
  <2>3. radio'.status = "SCHEDULED" /\ radio'.pkt = jit.pkt
    BY <1>4
  <2>4. Left(radio', now) = From(jit.pkt, now) + Air(jit.pkt)
    BY <2>3 DEF Left
  <2>5. \A i \in DOMAIN queue : Clear(radio', queue[i], now)
    BY <1>0, <2>4 DEF RadioTimes, Clear
  <2> QED
    BY <1>0, <1>1, <1>2, <2>2, <2>3, <2>5 DEF RadioTimes
<1> QED
  BY <1>0, <1>3, <1>4

LEMMA RadioStep ==
    ASSUME NEW T, Paced(T), Quiet(T), RadioInv(T), QueueFits, [Next]_vars
    PROVE  RadioInv(T)'
<1>1. TimeInv(T) /\ TimeInv(T)' /\ RadioTimes(radio, queue, jit, now, T)
  BY TimeStep DEF RadioInv
<1> SUFFICES RadioTimes(radio', queue', jit', now', T)
  BY <1>1 DEF RadioInv
<1>2. ASSUME queue' = queue, radio' = radio, now' = now, jit'.pc # "send" \/ jit' = jit
      PROVE  RadioTimes(radio', queue', jit', now', T)
  BY <1>1, <1>2 DEF RadioTimes
<1>3. ASSUME NEW s \in Servers, ReadTime(s) \/ RejectFull(s) \/ PassFull(s) \/ Reject(s)
      PROVE  RadioTimes(radio', queue', jit', now', T)
  <2>1. queue' = queue /\ radio' = radio /\ now' = now /\ jit' = jit
    BY <1>3 DEF ReadTime, RejectFull, PassFull, Reject
  <2> QED
    BY <1>2, <2>1
<1>4. ASSUME NEW s \in Servers, Accept(s)
      PROVE  RadioTimes(radio', queue', jit', now', T)
  BY <1>4, RadioAccept
<1>5. CASE Poll \/ PeekDue \/ PeekNothing
  <2>1. queue' = queue /\ radio' = radio /\ now' = now /\ jit'.pc # "send"
    BY <1>1, <1>5 DEF Poll, PeekDue, PeekNothing, TimeInv, IInv, TypeOK
  <2> QED
    BY <1>2, <2>1
<1>6. CASE Purge
  BY <1>1, <1>6, NothingOutdated DEF Purge
<1>7. CASE Dequeue
  BY <1>7, RadioDequeue
<1>8. CASE SendLost \/ SendFails \/ Send
  BY <1>8, RadioSend
<1>9. CASE Tick
  BY <1>9, RadioTick
<1>10. CASE UNCHANGED vars
  BY <1>2, <1>10 DEF vars
<1> QED
  BY <1>3, <1>4, <1>5, <1>6, <1>7, <1>8, <1>9, <1>10 DEF Next, Enqueue, JitThread

(* When thread_jit programs a packet the previous emission is over and nothing
   waits in the radio: no downlink is forgotten or overwritten, provided no
   packet is announced later than the longest emission takes.               *)
THEOREM RadioIsFreeAtSend ==
    ASSUME NEW T, Paced(T), Quiet(T)
    PROVE  Spec /\ []QueueFits => []RadioIsFree
<1>1. Init => RadioInv(T)
  <2> SUFFICES ASSUME Init PROVE RadioInv(T)
    OBVIOUS
  <2>1. TimeInv(T)
    BY TimeInit
  <2>2. queue = <<>> /\ DOMAIN queue = {} /\ jit.pc = "wait" /\ radio.status = "FREE"
    BY DEF Init
  <2> QED
    BY <2>1, <2>2 DEF RadioInv, RadioTimes
<1>2. RadioInv(T) /\ QueueFits /\ [Next]_vars => RadioInv(T)'
  BY RadioStep
<1>3. RadioInv(T) => RadioIsFree
  BY FreeAtSend DEF RadioIsFree
<1> QED
  BY <1>1, <1>2, <1>3, PTL DEF Spec

(* One server thread alone keeps the queue within its array, so that nothing
   more is asked than the pace of the threads and of the requests.          *)
THEOREM LoneServerOnTime ==
    ASSUME NEW T, Paced(T), Quiet(T), \A s, t \in Servers : s = t
    PROVE  Spec => /\ [](QueueSorted /\ PeekedIsDequeued /\ ProgrammedInTime /\ RadioIsFree)
                   /\ ClassCPlaced
<1>1. Spec => []QueueFits
  BY LoneServerFits
<1>2. Spec /\ []QueueFits => []QueueSorted
  BY QueueStaysSorted
<1>3. Spec /\ []QueueFits => []PeekedIsDequeued
  BY DequeuesWhatItPeeked
<1>4. Spec /\ []QueueFits => []ProgrammedInTime
  BY ProgramsInTime
<1>5. Spec /\ []QueueFits => []RadioIsFree
  BY RadioIsFreeAtSend
<1>6. Spec /\ []QueueFits => ClassCPlaced
  BY ImmediateIsPlaced
<1> QED
  BY <1>1, <1>2, <1>3, <1>4, <1>5, <1>6, PTL
=============================================================================
