----------------------- MODULE BeaconAllocatorProofs -----------------------
(***************************************************************************)
(* Proofs about BeaconAllocator, for every value of its constants.         *)
(***************************************************************************)
EXTENDS BeaconAllocator, FiniteSetTheorems, TLAPS

(* What the types depend on: time only goes on, the queue is finite, and a
   thread that is filling it still owes at least one beacon.               *)
Started == StartTime <= now
QueueFinite == IsFiniteSet(queue)
FillOwes == \A s \in Servers : pull[s].pc = "fill" => pull[s].loop > 0

TypeInv == TypeOK /\ Started /\ QueueFinite /\ FillOwes
-----------------------------------------------------------------------------
LEMMA ModType == \A a \in Int : a % Wrap \in Time
BY JitConstants DEF Time

LEMMA ByteType == \A a \in Int : a % Byte \in 0 .. Byte - 1
BY AllocatorConstants

LEMMA ByteSmall == \A a \in Nat : a < Byte => a % Byte = a
BY AllocatorConstants

LEMMA CountType == \A t \in Int : Count(t) \in Time
BY ModType DEF Count

(* jit_enqueue's node for a beacon or a class A downlink is well formed. *)
LEMMA NodeType ==
    ASSUME NEW t \in Time, NEW c \in Int, NEW type \in {ClassA, Beacon}
    PROVE  NewNode(<<>>, t, type, Count(c), 0) \in Node
<1>1. Count(c) \in Time
  BY CountType
<1>2. PreDelay(type) \in Nat /\ PostDelay(type, 0) \in Nat
  BY JitConstants DEF PreDelay, PostDelay
<1>3. type \in PktTypes /\ type # ClassC
  BY DEF PktTypes, ClassA, ClassB, ClassC, Beacon
<1>4. NewNode(<<>>, t, type, Count(c), 0) =
        [type |-> type, count |-> Count(c), pre |-> PreDelay(type), post |-> PostDelay(type, 0)]
  BY <1>3 DEF NewNode
<1> QED
  BY <1>1, <1>2, <1>3, <1>4 DEF Node

(* The next slot is a time, whether or not a beacon was queued before. *)
LEMMA SlotType ==
    ASSUME TypeOK, Started, NEW s \in Servers, NEW age \in 0 .. RefAge
    PROVE  NextSlot(s, now - age) \in Nat
<1> DEFINE ref == now - age
           retry == pull[s].retry
           last == pull[s].last
<1>1. retry \in Nat /\ last \in Nat /\ Period \in Nat \ {0}
  BY AllocatorConstants DEF TypeOK, Thread
<1>2. ref \in Nat
  BY AllocatorConstants DEF TypeOK, Started
<1> HIDE DEF ref, retry, last
<1>3. ref - (ref % Period) + Period \in Nat
  BY <1>1, <1>2
<1>4. retry * Period \in Nat
  BY <1>1
<1>5. NextSlot(s, ref) = (IF last = 0 THEN ref - (ref % Period) + Period ELSE last + Period)
                           + retry * Period
  BY DEF NextSlot, AfterReference, retry, last
<1> QED
  BY <1>1, <1>3, <1>4, <1>5 DEF ref

LEMMA BeaconsFinite == QueueFinite => IsFiniteSet(Beacons) /\ Cardinality(Beacons) \in Nat
BY FS_Subset, FS_CardinalityType DEF QueueFinite, Beacons

LEMMA MissingType == QueueFinite => Missing \in 0 .. Byte - 1
<1> SUFFICES ASSUME QueueFinite PROVE Missing \in 0 .. Byte - 1
  OBVIOUS
<1>1. JIT_NUM_BEACON_IN_QUEUE - Cardinality(Beacons) \in Int
  BY BeaconsFinite, AllocatorConstants
<1> QED
  BY <1>1, ByteType DEF Missing
-----------------------------------------------------------------------------
(* Every step keeps the types. *)
LEMMA TypeStep == TypeInv /\ [Next]_vars => TypeInv'
<1> SUFFICES ASSUME TypeInv, [Next]_vars PROVE TypeInv'
  OBVIOUS
<1> USE AllocatorConstants DEF TypeInv, TypeOK, Started, QueueFinite, FillOwes
<1>0. Count(now) \in Time
  BY CountType
<1>1. ASSUME NEW lead \in DownlinkLeads, Downlink(lead) PROVE TypeInv'
  <2> DEFINE x == NewNode(<<>>, Count(now), ClassA, Count(now + lead), 0)
             e == [node |-> x, slot |-> 0]
  <2>1. x \in Node
    <3>1. now + lead \in Int
      OBVIOUS
    <3> QED
      BY <1>0, <3>1, NodeType
  <2>2. queue' = (IF Fits(x) THEN queue \cup {e} ELSE queue)
    BY <1>1 DEF Downlink
  <2> HIDE DEF x
  <2>3. e \in Entry
    BY <2>1 DEF Entry
  <2> HIDE DEF e
  <2>4. queue' \in SUBSET Entry /\ IsFiniteSet(queue')
    BY <2>2, <2>3, FS_AddElement
  <2> QED
    BY <1>1, <2>4 DEF Downlink
<1>2. ASSUME NEW s \in Servers, Recv(s) PROVE TypeInv'
  <2>1. Missing \in 0 .. Byte - 1 /\ Missing # 0
    BY <1>2, MissingType DEF Recv
  <2> DEFINE loop == Missing
  <2>2. pull' = [pull EXCEPT ![s].pc = "fill", ![s].loop = loop, ![s].retry = 0]
    BY <1>2 DEF Recv
  <2> HIDE DEF loop
  <2>3. pull'[s] = [pc |-> "fill", loop |-> loop, retry |-> 0, last |-> pull[s].last]
    BY <2>2 DEF Thread
  <2>4. \A r \in Servers \ {s} : pull'[r] = pull[r]
    BY <2>2
  <2>5. pull' \in [Servers -> Thread] /\ FillOwes'
    BY <2>1, <2>2, <2>3, <2>4 DEF loop, Thread
  <2> QED
    BY <1>2, <2>5 DEF Recv
<1>3. ASSUME NEW s \in Servers, NoReference(s) PROVE TypeInv'
  BY <1>3 DEF NoReference, Thread
<1>4. ASSUME NEW s \in Servers, Queued(s) PROVE TypeInv'
  <2>1. PICK age \in 0 .. RefAge :
          /\ queue' = queue \cup {[node |-> BeaconAt(NextSlot(s, now - age)),
                                   slot |-> NextSlot(s, now - age)]}
          /\ pull' = [pull EXCEPT ![s] = WithOneQueued(pull[s], NextSlot(s, now - age))]
    BY <1>4 DEF Queued
  <2> DEFINE slot == NextSlot(s, now - age)
             e == [node |-> BeaconAt(slot), slot |-> slot]
             p == WithOneQueued(pull[s], slot)
  <2>2. slot \in Nat
    BY SlotType
  <2>3. queue' = queue \cup {e} /\ pull' = [pull EXCEPT ![s] = p]
    BY <2>1
  <2> HIDE DEF slot
  <2>4. BeaconAt(slot) \in Node
    BY <1>0, <2>2, NodeType DEF BeaconAt
  <2>5. e \in Entry
    BY <2>2, <2>4 DEF Entry
  <2> HIDE DEF e
  <2>6. queue' \in SUBSET Entry /\ IsFiniteSet(queue')
    BY <2>3, <2>5, FS_AddElement
  <2>7. pull[s].loop \in 0 .. Byte - 1 /\ pull[s].loop > 0
    BY <1>4 DEF Queued, Thread
  <2>8. p \in Thread /\ (p.pc = "fill" => p.loop > 0)
    BY <2>2, <2>7 DEF WithOneQueued, Thread
  <2> HIDE DEF p
  <2>9. pull' \in [Servers -> Thread] /\ FillOwes'
    BY <2>3, <2>8
  <2> QED
    BY <1>4, <2>6, <2>9 DEF Queued
<1>5. ASSUME NEW s \in Servers, Refused(s) PROVE TypeInv'
  <2>1. \A age \in 0 .. RefAge : NextSlot(s, now - age) \in Nat
    BY SlotType
  <2>2. refused' \in SUBSET Nat
    BY <1>5, <2>1 DEF Refused
  <2> DEFINE p == WithOneRefused(pull[s])
  <2>3. pull' = [pull EXCEPT ![s] = p]
    BY <1>5 DEF Refused
  <2>4. p \in Thread /\ p.pc = pull[s].pc /\ p.loop = pull[s].loop
    BY DEF WithOneRefused, Thread
  <2> HIDE DEF p
  <2>5. pull' \in [Servers -> Thread] /\ FillOwes'
    BY <2>3, <2>4
  <2> QED
    BY <1>5, <2>2, <2>5 DEF Refused
<1>6. CASE Drop
  BY <1>6, FS_RemoveElement DEF Drop
<1>7. CASE Take
  BY <1>7, FS_RemoveElement DEF Take
<1>8. CASE LoseReference
  BY <1>8 DEF LoseReference
<1>9. CASE RegainReference
  BY <1>9 DEF RegainReference
<1>10. CASE Tick
  BY <1>10 DEF Tick
<1>11. CASE UNCHANGED vars
  BY <1>11 DEF vars
<1> QED
  BY <1>1, <1>2, <1>3, <1>4, <1>5, <1>6, <1>7, <1>8, <1>9, <1>10, <1>11 DEF Next, Fill
-----------------------------------------------------------------------------
LEMMA TypeInit == Init => TypeInv
<1> SUFFICES ASSUME Init PROVE TypeInv
  OBVIOUS
<1>1. TypeOK /\ Started /\ FillOwes
  BY AllocatorConstants DEF Init, TypeOK, Thread, Started, FillOwes
<1>2. QueueFinite
  BY FS_EmptySet DEF Init, QueueFinite
<1> QED
  BY <1>1, <1>2 DEF TypeInv

LEMMA Typed == Spec => []TypeInv
BY TypeInit, TypeStep, PTL DEF Spec

(* Every variable of the allocator keeps its type, whatever the number of
   server threads; in particular beacon_loop, a uint8_t, is never decremented
   below zero.                                                              *)
THEOREM TypeCorrect == Spec => []TypeOK
<1>1. TypeInv => TypeOK
  BY DEF TypeInv
<1> QED
  BY <1>1, Typed, PTL
-----------------------------------------------------------------------------
(***************************************************************************)
(* The quota.  What a lone thread still owes is what it counted as missing *)
(* less what it has queued since, and only it queues beacons; with a       *)
(* second thread LoneAllocatorInv is lost, and the quota with it.          *)
(***************************************************************************)
IInv == TypeInv /\ LoneAllocatorInv

LEMMA OwedType == TypeInv => \A s \in Servers : Reserved(s) \in Nat
BY DEF TypeInv, TypeOK, Thread, Reserved

LEMMA LoneInit == Init => LoneAllocatorInv
<1> SUFFICES ASSUME Init PROVE LoneAllocatorInv
  OBVIOUS
<1>1. Beacons = {}
  BY DEF Init, Beacons
<1>2. Cardinality(Beacons) = 0
  BY <1>1, FS_EmptySet
<1>3. \A s \in Servers : Reserved(s) = 0
  BY DEF Init, Reserved
<1> QED
  BY <1>2, <1>3, AllocatorConstants DEF LoneAllocatorInv

(* Removing packets, or adding none that is a beacon, keeps the sum. *)
LEMMA NoMoreBeacons ==
    ASSUME IInv, NEW S, S \subseteq Beacons
    PROVE  Cardinality(S) <= Cardinality(Beacons) /\ Cardinality(S) \in Nat
BY BeaconsFinite, FS_Subset, FS_CardinalityType DEF IInv, TypeInv

LEMMA LoneKept ==
    ASSUME IInv, Beacons' \subseteq Beacons, \A s \in Servers : Reserved(s)' <= Reserved(s),
           TypeInv'
    PROVE  LoneAllocatorInv'
<1> SUFFICES ASSUME NEW s \in Servers
             PROVE  Cardinality(Beacons') + Reserved(s)' <= JIT_NUM_BEACON_IN_QUEUE
  BY DEF LoneAllocatorInv
<1>1. Cardinality(Beacons') <= Cardinality(Beacons) /\ Cardinality(Beacons') \in Nat
  BY NoMoreBeacons
<1>2. Cardinality(Beacons) + Reserved(s) <= JIT_NUM_BEACON_IN_QUEUE
  BY DEF IInv, LoneAllocatorInv
<1>3. Reserved(s) \in Nat /\ Reserved(s)' \in Nat /\ Cardinality(Beacons) \in Nat
  BY OwedType, BeaconsFinite DEF IInv, TypeInv, TypeOK, Thread, Reserved
<1> QED
  BY <1>1, <1>2, <1>3, AllocatorConstants

(* Every step of a system with one server thread keeps the sum. *)
LEMMA LoneStep ==
    ASSUME NEW s, Servers = {s}, IInv, [Next]_vars
    PROVE  LoneAllocatorInv'
<1>t. TypeInv'
  BY TypeStep DEF IInv
<1>f. /\ IsFiniteSet(Beacons) /\ Cardinality(Beacons) \in Nat
      /\ Cardinality(Beacons) + Reserved(s) <= JIT_NUM_BEACON_IN_QUEUE
      /\ Reserved(s) \in Nat
      /\ JIT_NUM_BEACON_IN_QUEUE \in Nat
  BY BeaconsFinite, OwedType, AllocatorConstants DEF IInv, TypeInv, LoneAllocatorInv
<1>p. pull \in [Servers -> Thread] /\ FillOwes
  BY DEF IInv, TypeInv, TypeOK
<1>1. ASSUME NEW lead \in DownlinkLeads, Downlink(lead) PROVE LoneAllocatorInv'
  <2>1. PICK e : queue' \subseteq queue \cup {e} /\ ~IsBeacon(e.node)
    <3> DEFINE x == NewNode(<<>>, Count(now), ClassA, Count(now + lead), 0)
               e == [node |-> x, slot |-> 0]
    <3>1. ~IsBeacon(x)
      BY DEF NewNode, IsBeacon, ClassA, ClassC, Beacon
    <3>2. queue' = (IF Fits(x) THEN queue \cup {e} ELSE queue)
      BY <1>1 DEF Downlink
    <3> HIDE DEF x
    <3>3. e.node = x
      OBVIOUS
    <3> QED
      BY <3>1, <3>2, <3>3
  <2>2. Beacons' \subseteq Beacons
    BY <2>1 DEF Beacons
  <2>3. \A r \in Servers : Reserved(r)' = Reserved(r)
    BY <1>1 DEF Downlink, Reserved
  <2>4. \A r \in Servers : Reserved(r)' <= Reserved(r)
    BY <2>3, OwedType DEF IInv
  <2> QED
    BY <1>t, <2>2, <2>4, LoneKept
<1>2. CASE Recv(s)
  <2>1. Missing = JIT_NUM_BEACON_IN_QUEUE - Cardinality(Beacons)
    <3>1. JIT_NUM_BEACON_IN_QUEUE - Cardinality(Beacons) \in Nat
      BY <1>f
    <3>2. JIT_NUM_BEACON_IN_QUEUE - Cardinality(Beacons) < Byte
      BY <1>f, AllocatorConstants
    <3> QED
      BY <3>1, <3>2, ByteSmall DEF Missing
  <2>2. Beacons' = Beacons
    BY <1>2 DEF Recv, Beacons
  <2>3. pull'[s].loop = Missing
    BY <1>2, <1>p DEF Recv, Thread
  <2>4. Reserved(s)' \in {0, JIT_NUM_BEACON_IN_QUEUE - Cardinality(Beacons)}
    BY <2>1, <2>3 DEF Reserved
  <2> QED
    BY <1>f, <2>2, <2>4 DEF LoneAllocatorInv
<1>3. CASE NoReference(s)
  <2>1. Beacons' = Beacons /\ Reserved(s)' = 0
    BY <1>3, <1>p DEF NoReference, Beacons, Reserved, Thread
  <2> QED
    BY <1>f, <2>1 DEF LoneAllocatorInv
<1>4. CASE Queued(s)
  <2>1. PICK age \in 0 .. RefAge :
          /\ queue' = queue \cup {[node |-> BeaconAt(NextSlot(s, now - age)),
                                   slot |-> NextSlot(s, now - age)]}
          /\ pull' = [pull EXCEPT ![s] = WithOneQueued(pull[s], NextSlot(s, now - age))]
    BY <1>4 DEF Queued
  <2> DEFINE slot == NextSlot(s, now - age)
             e == [node |-> BeaconAt(slot), slot |-> slot]
  <2>2. queue' = queue \cup {e}
    BY <2>1
  <2>3. pull'[s] = WithOneQueued(pull[s], slot)
    BY <1>p, <2>1
  <2> HIDE DEF slot, e
  <2>4. Beacons' \subseteq Beacons \cup {e}
    BY <2>2 DEF Beacons
  <2>5. Cardinality(Beacons') <= Cardinality(Beacons) + 1 /\ Cardinality(Beacons') \in Nat
    <3>1. /\ IsFiniteSet(Beacons \cup {e})
          /\ Cardinality(Beacons \cup {e}) <= Cardinality(Beacons) + 1
      BY <1>f, FS_AddElement
    <3>2. /\ IsFiniteSet(Beacons')
          /\ Cardinality(Beacons') <= Cardinality(Beacons \cup {e})
      BY <2>4, <3>1, FS_Subset
    <3>3. Cardinality(Beacons') \in Nat /\ Cardinality(Beacons \cup {e}) \in Nat
      BY <3>1, <3>2, FS_CardinalityType
    <3> QED
      BY <1>f, <3>1, <3>2, <3>3
  <2>6. pull[s].pc = "fill" /\ pull[s].loop \in Nat /\ pull[s].loop > 0
    BY <1>4, <1>p DEF Queued, Thread, FillOwes
  <2>7. Reserved(s) = pull[s].loop
    BY <2>6 DEF Reserved
  <2>8. pull'[s].loop = pull[s].loop - 1 /\ pull'[s].pc = IF pull[s].loop = 1 THEN "recv" ELSE "fill"
    BY <2>3 DEF WithOneQueued
  <2>9. Reserved(s)' = pull[s].loop - 1
    BY <2>6, <2>8 DEF Reserved
  <2> QED
    BY <1>f, <2>5, <2>6, <2>7, <2>9 DEF LoneAllocatorInv
<1>5. CASE Refused(s)
  <2>1. pull'[s] = WithOneRefused(pull[s])
    BY <1>5, <1>p DEF Refused
  <2>2. pull'[s].pc = pull[s].pc /\ pull'[s].loop = pull[s].loop
    BY <1>p, <2>1 DEF WithOneRefused, Thread
  <2>3. Beacons' = Beacons /\ Reserved(s)' = Reserved(s)
    BY <1>5, <2>2 DEF Refused, Beacons, Reserved
  <2> QED
    BY <1>f, <2>3 DEF LoneAllocatorInv
<1>6. ASSUME UNCHANGED pull, queue' \subseteq queue PROVE LoneAllocatorInv'
  <2>1. Beacons' \subseteq Beacons
    BY <1>6 DEF Beacons
  <2>2. \A r \in Servers : Reserved(r)' = Reserved(r)
    BY <1>6 DEF Reserved
  <2>3. \A r \in Servers : Reserved(r)' <= Reserved(r)
    BY <2>2, OwedType DEF IInv
  <2> QED
    BY <1>t, <2>1, <2>3, LoneKept
<1>7. CASE Drop \/ Take
  BY <1>6, <1>7 DEF Drop, Take
<1>8. CASE LoseReference \/ RegainReference \/ Tick
  BY <1>6, <1>8 DEF LoseReference, RegainReference, Tick
<1>9. CASE UNCHANGED vars
  BY <1>6, <1>9 DEF vars
<1> QED
  BY <1>1, <1>2, <1>3, <1>4, <1>5, <1>7, <1>8, <1>9 DEF Next, Fill

(* With a single server thread the queue never holds more beacons than the
   allocator means to keep in it.                                           *)
THEOREM LoneQuota ==
    ASSUME NEW s, Servers = {s}
    PROVE  Spec => []QuotaKept
<1>1. Init => IInv
  BY TypeInit, LoneInit DEF IInv
<1>2. IInv /\ [Next]_vars => IInv'
  BY TypeStep, LoneStep DEF IInv
<1>3. IInv => QuotaKept
  <2> SUFFICES ASSUME IInv PROVE QuotaKept
    OBVIOUS
  <2>1. Cardinality(Beacons) + Reserved(s) <= JIT_NUM_BEACON_IN_QUEUE
    BY DEF IInv, LoneAllocatorInv
  <2>2. Cardinality(Beacons) \in Nat /\ Reserved(s) \in Nat /\ JIT_NUM_BEACON_IN_QUEUE \in Nat
    BY BeaconsFinite, OwedType, AllocatorConstants DEF IInv, TypeInv
  <2> QED
    BY <2>1, <2>2 DEF QuotaKept
<1> QED
  BY <1>1, <1>2, <1>3, PTL DEF Spec
-----------------------------------------------------------------------------
(***************************************************************************)
(* The slots.  A lone allocator queues its beacons one period after the    *)
(* other; a packet in a beacon's way is never further than Blocked, so     *)
(* beyond that no slot has been refused, and the few beacons of the quota  *)
(* cannot reach the horizon: none is dropped whose time is yet to come.    *)
(***************************************************************************)
BeaconNode(t) ==
    [type |-> Beacon, count |-> Count(t), pre |-> PreDelay(Beacon), post |-> BEACON_RESERVED]

(* In queue q at time n, with last the time of the last beacon queued *)
BeaconEntries(q, n, last) ==
    \A e \in q : IsBeacon(e.node) =>
        /\ e.node = BeaconNode(e.slot)
        /\ last # 0
        /\ e.slot <= last
        /\ n <= e.slot + MaxOutage
        /\ e.slot < n + TX_MAX_ADVANCE_DELAY

OtherEntries(q, n, lead) ==
    \A e \in q : ~IsBeacon(e.node) =>
        /\ e.node.pre = PreDelay(ClassA)
        /\ e.node.post = 0
        /\ \E d \in 0 .. lead : e.node.count = Count(n + d)

Queues(q, t) == \E e \in q : IsBeacon(e.node) /\ e.slot = t

(* Every slot still to come, up to the last one queued, is queued or was refused. *)
Covered(q, ref, n, last, lead) ==
    \A k \in Nat :
        n + TX_JIT_DELAY <= last - k * Period =>
            \/ last - k * Period \in ref /\ last - k * Period <= n + Blocked(lead)
            \/ Queues(q, last - k * Period)

(* The slot before the first one a thread tries *)
Base(last, n) == IF last = 0 THEN n - (n % Period) ELSE last

Retried(ref, n, p, lead) ==
    \A k \in 1 .. p.retry :
        /\ Base(p.last, n) + k * Period \in ref
        /\ Base(p.last, n) + k * Period <= n + Blocked(lead)

LastInv(n, last, late) ==
    last # 0 => n <= last + late /\ \E m \in Nat : last = m * Period

SlotInv(s, lead) ==
    /\ BeaconEntries(queue, now, pull[s].last)
    /\ OtherEntries(queue, now, lead)
    /\ pull[s].last # 0 => Covered(queue, refused, now, pull[s].last, lead)
    /\ pull[s].pc = "fill" => Retried(refused, now, pull[s], lead)
    /\ LastInv(now, pull[s].last, behind)
-----------------------------------------------------------------------------
(* Counter values less than a turn apart are as far apart as their times. *)
LEMMA CountSub ==
    ASSUME NEW a \in Nat, NEW b \in Nat, a - b < Wrap, b - a < Wrap
    PROVE  Sub(Count(a), Count(b)) = IF a >= b THEN a - b ELSE a - b + Wrap
<1>1. Wrap \in Nat /\ Wrap > 0
  BY JitConstants
<1> DEFINE ra == a % Wrap
           rb == b % Wrap
           qa == a \div Wrap
           qb == b \div Wrap
<1>2. /\ a = Wrap * qa + ra /\ qa \in Int /\ ra \in Int /\ 0 <= ra /\ ra < Wrap
      /\ b = Wrap * qb + rb /\ qb \in Int /\ rb \in Int /\ 0 <= rb /\ rb < Wrap
  BY <1>1
<1>3. Sub(Count(a), Count(b)) = (ra - rb) % Wrap
  BY DEF Sub, Count
<1> HIDE DEF ra, rb, qa, qb
<1> DEFINE k == qa - qb
<1>4. k \in Int /\ a - b = Wrap * k + (ra - rb)
  BY <1>1, <1>2
<1> HIDE DEF k
<1>5. k \in {-1, 0, 1}
  <2>1. ASSUME k >= 2 PROVE FALSE
    <3>1. Wrap * k >= Wrap + Wrap
      BY <1>1, <1>4, <2>1
    <3> QED
      BY <1>1, <1>2, <1>4, <3>1
  <2>2. ASSUME k <= -2 PROVE FALSE
    <3>1. Wrap * k <= -(Wrap + Wrap)
      BY <1>1, <1>4, <2>2
    <3> QED
      BY <1>1, <1>2, <1>4, <3>1
  <2> QED
    BY <1>4, <2>1, <2>2
<1>6. a - b = ra - rb \/ a - b = ra - rb + Wrap \/ a - b = ra - rb - Wrap
  BY <1>1, <1>2, <1>4, <1>5
<1>7. (ra - rb) % Wrap = IF ra >= rb THEN ra - rb ELSE ra - rb + Wrap
  <2>1. CASE ra >= rb
    BY <1>1, <1>2, <2>1
  <2>2. CASE ra < rb
    BY <1>1, <1>2, <2>2
  <2> QED
    BY <1>2, <2>1, <2>2
<1> QED
  BY <1>1, <1>2, <1>3, <1>6, <1>7

LEMMA SpacedFacts ==
    ASSUME NEW lead, Spaced(lead)
    PROVE  /\ lead \in Nat /\ MaxOutage \in Nat /\ JIT_NUM_BEACON_IN_QUEUE \in Nat
           /\ JIT_NUM_BEACON_IN_QUEUE > 0
           /\ Period \in Nat /\ Period > 0 /\ Wrap \in Nat
           /\ TX_MAX_ADVANCE_DELAY \in Nat /\ TX_JIT_DELAY \in Nat /\ TX_JIT_DELAY > 0
           /\ TX_START_DELAY \in Nat /\ TX_MARGIN_DELAY \in Nat /\ BEACON_RESERVED \in Nat
           /\ PreDelay(Beacon) \in Nat /\ PreDelay(ClassA) \in Nat
           /\ PreDelay(ClassA) <= PreDelay(Beacon)
           /\ TX_START_DELAY + TX_JIT_DELAY <= PreDelay(Beacon)
           /\ Reach = PreDelay(Beacon) + BEACON_RESERVED + TX_MARGIN_DELAY
           /\ Blocked(lead) = lead + PreDelay(Beacon) + TX_MARGIN_DELAY
           /\ Reach \in Nat /\ Blocked(lead) \in Nat
           /\ Reach < Period
           /\ TX_MAX_ADVANCE_DELAY + MaxOutage + Reach < Wrap
           /\ Blocked(lead) + JIT_NUM_BEACON_IN_QUEUE * Period < TX_MAX_ADVANCE_DELAY
<1>1. PreDelay(ClassA) = TX_START_DELAY + TX_JIT_DELAY
  BY DEF PreDelay, ClassA, Beacon
<1>2. PreDelay(Beacon) = TX_START_DELAY + BEACON_GUARD + TX_JIT_DELAY
  BY DEF PreDelay
<1> QED
  BY <1>1, <1>2, JitConstants, AllocatorConstants DEF Spaced, Reach, Blocked

LEMMA BeaconAtIs ==
    ASSUME NEW t
    PROVE  BeaconAt(t) = BeaconNode(t)
BY DEF BeaconAt, NewNode, BeaconNode, PostDelay, Beacon, ClassC
-----------------------------------------------------------------------------
(* Beyond Blocked and within the horizon a beacon is never refused. *)
LEMMA FitsBeyond ==
    ASSUME NEW lead, Spaced(lead), TypeOK, HasRoom, NEW t \in Nat, NEW last \in Nat,
           BeaconEntries(queue, now, last), OtherEntries(queue, now, lead),
           last # 0 => last + Period <= t,
           now + Blocked(lead) < t, t < now + TX_MAX_ADVANCE_DELAY
    PROVE  Fits(BeaconAt(t))
<1> DEFINE x == BeaconNode(t)
           P == PreDelay(Beacon)
           M == TX_MARGIN_DELAY
           R == BEACON_RESERVED
           H == TX_MAX_ADVANCE_DELAY
<1>0. BeaconAt(t) = x
  BY BeaconAtIs
<1>1. x.type = Beacon /\ x.count = Count(t) /\ x.pre = P /\ x.post = R
  BY DEF BeaconNode
<1>2. now \in Nat /\ P \in Nat /\ M \in Nat /\ R \in Nat /\ H \in Nat /\ Wrap \in Nat /\ lead \in Nat
  BY SpacedFacts DEF TypeOK
<1>3. Blocked(lead) = lead + P + M /\ Reach = P + R + M /\ H + MaxOutage + Reach < Wrap
      /\ MaxOutage \in Nat /\ Blocked(lead) \in Nat
  BY SpacedFacts
<1>h. now + Blocked(lead) < t /\ t < now + H
  OBVIOUS
<1> HIDE DEF P, M, R, H
<1>b. now + lead + P + M < t
  BY <1>2, <1>3, <1>h
<1>r. t > now /\ t - now < Wrap /\ now - t < Wrap /\ Reach \in Nat
  BY <1>2, <1>3, <1>b, <1>h
<1>4. ~IsTooLate(x, Count(now))
  <2>1. Sub(Count(t), Count(now)) = t - now
    BY <1>2, <1>r, CountSub
  <2>2. TX_START_DELAY + TX_JIT_DELAY <= P /\ TX_START_DELAY \in Nat /\ TX_JIT_DELAY \in Nat
    BY SpacedFacts DEF P
  <2> HIDE DEF x
  <2>3. ~(t - now <= TX_START_DELAY + TX_MARGIN_DELAY + TX_JIT_DELAY)
    BY <1>2, <1>b, <2>2 DEF M
  <2> QED
    BY <1>1, <2>1, <2>3 DEF IsTooLate
<1>5. ~IsTooEarly(x, Count(now))
  BY <1>1 DEF IsTooEarly, ClassA, ClassB, Beacon
<1>6. ASSUME NEW e \in queue PROVE ~Overlaps(x, e.node)
  <2>1. Overlaps(x, e.node) <=>
          \/ Sub(Count(t), e.node.count) <= P + e.node.post + M
          \/ Sub(e.node.count, Count(t)) <= e.node.pre + R + M
    <3>1. TargetPre(Beacon, e.node) = e.node.pre
      BY DEF TargetPre, ClassA, ClassC, Beacon
    <3> QED
      BY <1>1, <3>1 DEF Overlaps, Collision, M
  <2>2. CASE IsBeacon(e.node)
    <3>1. /\ e.node.count = Count(e.slot) /\ e.node.pre = P /\ e.node.post = R
          /\ e.slot + Period <= t
          /\ now <= e.slot + MaxOutage
      <4>1. /\ e.node = BeaconNode(e.slot)
            /\ last # 0
            /\ e.slot <= last
            /\ now <= e.slot + MaxOutage
        BY <2>2 DEF BeaconEntries
      <4>2. e.slot \in Nat /\ Period \in Nat
        BY SpacedFacts DEF TypeOK, Entry
      <4> HIDE DEF x
      <4>3. e.slot + Period <= t
        BY <4>1, <4>2
      <4> QED
        BY <4>1, <4>3 DEF BeaconNode, P, R
    <3>2. e.slot \in Nat /\ Period \in Nat /\ Period > Reach
      BY SpacedFacts DEF TypeOK, Entry
    <3>3. t - e.slot > Reach /\ t - e.slot < Wrap - Reach /\ Reach \in Nat
      BY <1>2, <1>3, <1>h, <1>r, <3>1, <3>2
    <3>4. Sub(Count(t), Count(e.slot)) = t - e.slot /\ Sub(Count(e.slot), Count(t)) = Wrap - (t - e.slot)
      BY <1>2, <3>2, <3>3, CountSub
    <3> HIDE DEF x
    <3> QED
      BY <1>2, <1>3, <2>1, <3>1, <3>2, <3>3, <3>4
  <2>3. CASE ~IsBeacon(e.node)
    <3>1. PICK d \in 0 .. lead : e.node.count = Count(now + d)
      BY <2>3 DEF OtherEntries
    <3>2. e.node.pre = PreDelay(ClassA) /\ e.node.post = 0
      BY <2>3 DEF OtherEntries
    <3>3. PreDelay(ClassA) \in Nat /\ PreDelay(ClassA) <= P
      BY SpacedFacts DEF P
    <3> DEFINE u == now + d
    <3>4. u \in Nat /\ u >= now /\ u <= now + lead
      BY <1>2
    <3> HIDE DEF x, u
    <3>5. t - u > P + M /\ t - u < H
      BY <1>2, <1>b, <1>h, <3>4
    <3>6. t - u < Wrap /\ u - t < Wrap /\ t > u
      BY <1>2, <1>3, <3>4, <3>5
    <3>7. Sub(Count(t), Count(u)) = t - u /\ Sub(Count(u), Count(t)) = Wrap - (t - u)
      BY <1>2, <3>4, <3>6, CountSub
    <3> QED
      BY <1>2, <1>3, <2>1, <3>1, <3>2, <3>3, <3>4, <3>5, <3>7 DEF u
  <2> QED
    BY <2>2, <2>3
<1>7. Cardinality(queue) # JIT_QUEUE_MAX
  <2>1. JIT_QUEUE_MAX \in Nat
    BY JitConstants
  <2> QED
    BY <2>1 DEF HasRoom
<1> QED
  BY <1>0, <1>4, <1>5, <1>6, <1>7 DEF Fits

(* The last beacon is not further ahead than the quota allows: beyond Blocked
   every slot up to it holds a beacon of its own.                            *)
LEMMA LastIsNear ==
    ASSUME NEW lead, Spaced(lead), TypeInv, NEW last \in Nat,
           Covered(queue, refused, now, last, lead),
           Cardinality(Beacons) < JIT_NUM_BEACON_IN_QUEUE
    PROVE  last + Period <= now + Blocked(lead) + JIT_NUM_BEACON_IN_QUEUE * Period
<1> DEFINE N == JIT_NUM_BEACON_IN_QUEUE
           P == Period
           B == Blocked(lead)
<1>1. /\ N \in Nat /\ N > 0 /\ P \in Nat /\ P > 0 /\ B \in Nat /\ now \in Nat
      /\ TX_JIT_DELAY \in Nat /\ TX_JIT_DELAY <= B
  BY SpacedFacts DEF TypeInv, TypeOK
<1> HIDE DEF N, P, B
<1>2. N * P \in Nat
  BY <1>1
<1> SUFFICES ASSUME last + P > now + B + N * P PROVE FALSE
  BY <1>1, <1>2 DEF N, P, B
<1>3. ASSUME NEW k \in 0 .. N - 1 PROVE \E e \in Beacons : e.slot = last - k * P
  <2>1. (N - 1 - k) * P >= 0 /\ k * P \in Nat
    BY <1>1
  <2>2. N * P = k * P + P + (N - 1 - k) * P
    BY <1>1
  <2>3. last - k * P > now + B
    BY <1>1, <1>2, <2>1, <2>2
  <2>4. now + TX_JIT_DELAY <= last - k * P /\ ~(last - k * P <= now + B)
    BY <1>1, <2>1, <2>3
  <2>5. Queues(queue, last - k * P)
    BY <1>1, <2>4 DEF Covered, P, B
  <2> QED
    BY <2>5 DEF Queues, Beacons
<1> DEFINE f == [k \in 0 .. N - 1 |-> CHOOSE e \in Beacons : e.slot = last - k * P]
<1>4. \A k \in 0 .. N - 1 : f[k] \in Beacons /\ f[k].slot = last - k * P
  BY <1>3
<1>5. f \in [0 .. N - 1 -> Beacons]
  BY <1>4
<1> HIDE DEF f
<1>6. IsFiniteSet(0 .. N - 1) /\ Cardinality(0 .. N - 1) = N
  BY <1>1, FS_Interval
<1>7. IsFiniteSet(Beacons) /\ Cardinality(Beacons) < Cardinality(0 .. N - 1)
  BY <1>6, BeaconsFinite DEF TypeInv, N
<1>8. PICK j, k \in 0 .. N - 1 : j # k /\ f[j] = f[k]
  BY <1>5, <1>6, <1>7, FS_PigeonHole
<1>9. last - j * P = last - k * P
  BY <1>4, <1>8
<1>10. (j - k) * P = 0
  BY <1>1, <1>9
<1>11. j - k = 0
  BY <1>1, <1>10
<1> QED
  BY <1>8, <1>11
-----------------------------------------------------------------------------
(* jit_peek's tests, for a beacon of the queue, tell its time from now. *)
LEMMA BeaconLead ==
    ASSUME NEW lead, Spaced(lead), TypeOK, NEW last, BeaconEntries(queue, now, last),
           NEW e \in queue, IsBeacon(e.node)
    PROVE  /\ e.slot \in Nat
           /\ IsOutdated(e.node, Count(now)) <=> e.slot < now
           /\ IsDue(e.node, Count(now)) <=> e.slot - now \in 0 .. TX_JIT_DELAY - 1
<1> DEFINE H == TX_MAX_ADVANCE_DELAY
           J == TX_JIT_DELAY
<1>1. /\ e.node = BeaconNode(e.slot)
      /\ now <= e.slot + MaxOutage
      /\ e.slot < now + H
  BY DEF BeaconEntries
<1>2. e.slot \in Nat /\ now \in Nat
  BY DEF TypeOK, Entry
<1>3. /\ H \in Nat /\ MaxOutage \in Nat /\ Wrap \in Nat /\ J \in Nat /\ Reach \in Nat
      /\ H + MaxOutage + Reach < Wrap
  BY SpacedFacts
<1>4. J <= H
  <2>1. /\ J <= Blocked(lead) /\ Blocked(lead) \in Nat
        /\ JIT_NUM_BEACON_IN_QUEUE * Period \in Nat
        /\ Blocked(lead) + JIT_NUM_BEACON_IN_QUEUE * Period < H
    BY SpacedFacts
  <2> HIDE DEF J, H
  <2> QED
    BY <1>3, <2>1
<1> HIDE DEF H, J
<1>5. e.slot - now < Wrap /\ now - e.slot < Wrap
  BY <1>1, <1>2, <1>3
<1>6. Sub(e.node.count, Count(now)) = IF e.slot >= now THEN e.slot - now ELSE e.slot - now + Wrap
  <2>1. e.node.count = Count(e.slot)
    BY <1>1 DEF BeaconNode
  <2> QED
    BY <1>2, <1>5, <2>1, CountSub
<1>7. IsOutdated(e.node, Count(now)) <=> Sub(e.node.count, Count(now)) >= H
  BY DEF IsOutdated, H
<1>8. IsDue(e.node, Count(now)) <=> Sub(e.node.count, Count(now)) < J
  BY DEF IsDue, J
<1>9. IsOutdated(e.node, Count(now)) <=> e.slot < now
  BY <1>1, <1>2, <1>3, <1>5, <1>6, <1>7
<1>10. IsDue(e.node, Count(now)) <=> e.slot - now \in 0 .. J - 1
  BY <1>1, <1>2, <1>3, <1>4, <1>5, <1>6, <1>8
<1> QED
  BY <1>2, <1>9, <1>10 DEF J

(* While thread_jit has nothing to do every beacon of the queue lies ahead. *)
LEMMA IdleBeacons ==
    ASSUME NEW lead, Spaced(lead), TypeOK, NEW last, BeaconEntries(queue, now, last), JitIdle,
           NEW e \in queue, IsBeacon(e.node)
    PROVE  now + TX_JIT_DELAY <= e.slot
<1>1. ~IsOutdated(e.node, Count(now)) /\ ~IsDue(e.node, Count(now))
  BY DEF JitIdle, Outdated, Due
<1>2. e.slot \in Nat /\ now \in Nat /\ TX_JIT_DELAY \in Nat
  BY SpacedFacts DEF TypeOK, Entry
<1> QED
  BY <1>1, <1>2, BeaconLead

(* A settled lone allocator has its quota in the queue, and so is ahead. *)
LEMMA SettledAhead ==
    ASSUME NEW s, Servers = {s}, NEW lead, Spaced(lead), IInv, SlotInv(s, lead), Settled
    PROVE  now < pull[s].last
<1>1. Missing = 0 /\ JitIdle /\ TypeOK
  BY DEF Settled, IInv, TypeInv
<1>2. Beacons # {}
  <2> SUFFICES ASSUME Beacons = {} PROVE FALSE
    OBVIOUS
  <2>1. Missing = JIT_NUM_BEACON_IN_QUEUE % Byte
    BY FS_EmptySet, AllocatorConstants DEF Missing
  <2>2. JIT_NUM_BEACON_IN_QUEUE % Byte = JIT_NUM_BEACON_IN_QUEUE
    BY ByteSmall, AllocatorConstants
  <2> QED
    BY <1>1, <2>1, <2>2, SpacedFacts
<1>3. PICK e \in Beacons : TRUE
  BY <1>2
<1>4. e \in queue /\ IsBeacon(e.node)
  BY DEF Beacons
<1>5. BeaconEntries(queue, now, pull[s].last)
  BY DEF SlotInv
<1>6. now + TX_JIT_DELAY <= e.slot
  BY <1>1, <1>4, <1>5, IdleBeacons
<1>7. e.slot <= pull[s].last
  BY <1>4, <1>5 DEF BeaconEntries
<1>8. /\ e.slot \in Nat /\ now \in Nat /\ TX_JIT_DELAY \in Nat /\ TX_JIT_DELAY > 0
      /\ pull[s].last \in Nat
  BY <1>1, <1>4, SpacedFacts DEF TypeOK, Entry, Thread
<1> QED
  BY <1>6, <1>7, <1>8

(* What is covered stays so as time goes on and as packets come and go, but for
   the slots that time has come to.                                          *)
LEMMA CoveredOn ==
    ASSUME NEW lead, Spaced(lead), NEW q, NEW q2, NEW ref, NEW ref2, NEW n \in Nat, NEW n2 \in Nat,
           NEW last \in Nat,
           Covered(q, ref, n, last, lead), n <= n2, ref \subseteq ref2,
           \A t \in Int : n2 + TX_JIT_DELAY <= t /\ Queues(q, t) => Queues(q2, t)
    PROVE  Covered(q2, ref2, n2, last, lead)
<1> SUFFICES ASSUME NEW k \in Nat, n2 + TX_JIT_DELAY <= last - k * Period
             PROVE  \/ last - k * Period \in ref2 /\ last - k * Period <= n2 + Blocked(lead)
                    \/ Queues(q2, last - k * Period)
  BY DEF Covered
<1> DEFINE t == last - k * Period
<1>1. t \in Int /\ TX_JIT_DELAY \in Nat /\ Blocked(lead) \in Nat
  BY SpacedFacts
<1>2. n + TX_JIT_DELAY <= t => (t \in ref /\ t <= n + Blocked(lead)) \/ Queues(q, t)
  BY DEF Covered
<1>3. n2 + TX_JIT_DELAY <= t
  OBVIOUS
<1> HIDE DEF t
<1>4. (t \in ref2 /\ t <= n2 + Blocked(lead)) \/ Queues(q2, t)
  BY <1>1, <1>2, <1>3
<1> QED
  BY <1>4 DEF t
-----------------------------------------------------------------------------
(* The slot a lone thread tries: that many periods after its base. *)
Tried(p, n) == Base(p.last, n) + (p.retry + 1) * Period

LEMMA BaseFacts ==
    ASSUME NEW last \in Nat, NEW n \in Nat, last # 0 => \E m \in Nat : last = m * Period
    PROVE  /\ Base(last, n) \in Nat
           /\ \E m \in Nat : Base(last, n) = m * Period
           /\ last = 0 => Base(last, n) <= n /\ n < Base(last, n) + Period
<1>1. Period \in Nat /\ Period > 0
  BY AllocatorConstants
<1>2. CASE last # 0
  BY <1>2 DEF Base
<1>3. CASE last = 0
  <2>1. /\ n \div Period \in Nat /\ n % Period \in 0 .. Period - 1
        /\ n = Period * (n \div Period) + (n % Period)
    BY <1>1
  <2> DEFINE m == n \div Period
  <2>2. Base(last, n) = n - (n % Period)
    BY <1>3 DEF Base
  <2>3. m \in Nat /\ Base(last, n) = m * Period
    BY <1>1, <2>1, <2>2
  <2> HIDE DEF m
  <2>4. \E k \in Nat : Base(last, n) = k * Period
    BY <2>3, Zenon
  <2>5. n % Period \in Nat /\ n % Period < Period /\ n - (n % Period) \in Nat
    BY <1>1, <2>1, <2>2, <2>3
  <2>6. Base(last, n) \in Nat /\ Base(last, n) <= n /\ n < Base(last, n) + Period
    BY <1>1, <2>2, <2>5
  <2> QED
    BY <2>4, <2>6
<1> QED
  BY <1>2, <1>3

LEMMA TriedFacts ==
    ASSUME NEW s, Servers = {s}, NEW lead, Spaced(lead), IInv, SlotInv(s, lead),
           pull[s].pc = "fill"
    PROVE  LET last == pull[s].last
               t == Tried(pull[s], now)
           IN  /\ last \in Nat /\ t \in Nat
               /\ last < t
               /\ last # 0 => last + Period <= t
               /\ now <= t + MaxOutage
               /\ t < now + TX_MAX_ADVANCE_DELAY
               /\ \E m \in Nat : t = m * Period
<1> DEFINE last == pull[s].last
           r == pull[s].retry
           b == Base(last, now)
           t == Tried(pull[s], now)
           H == TX_MAX_ADVANCE_DELAY
           B == Blocked(lead)
           NP == JIT_NUM_BEACON_IN_QUEUE * Period
<1>1. last \in Nat /\ r \in Nat /\ now \in Nat /\ behind \in Nat /\ behind <= MaxOutage
  BY SpacedFacts DEF IInv, TypeInv, TypeOK, Thread
<1>2. /\ Period \in Nat /\ Period > 0 /\ B \in Nat /\ H \in Nat /\ MaxOutage \in Nat
      /\ B + NP < H
  BY SpacedFacts
<1>3. Period <= NP /\ NP \in Nat
  <2>1. JIT_NUM_BEACON_IN_QUEUE \in Nat /\ JIT_NUM_BEACON_IN_QUEUE >= 1
    BY SpacedFacts
  <2> QED
    BY <1>2, <2>1
<1>4. last # 0 => now <= last + behind /\ \E m \in Nat : last = m * Period
  BY DEF SlotInv, LastInv
<1>5. /\ b \in Nat /\ \E m \in Nat : b = m * Period
      /\ last = 0 => b <= now /\ now < b + Period
      /\ last # 0 => b = last
  BY <1>1, <1>4, BaseFacts DEF Base
<1>6. t = b + (r + 1) * Period
  BY DEF Tried
<1>7. Retried(refused, now, pull[s], lead)
  BY DEF SlotInv
<1>8. last # 0 => last + Period <= now + B + NP
  <2> SUFFICES ASSUME last # 0 PROVE last + Period <= now + B + NP
    OBVIOUS
  <2>1. Covered(queue, refused, now, last, lead)
    BY DEF SlotInv
  <2>2. Cardinality(Beacons) < JIT_NUM_BEACON_IN_QUEUE
    <3>1. Cardinality(Beacons) + Reserved(s) <= JIT_NUM_BEACON_IN_QUEUE
      BY DEF IInv, LoneAllocatorInv
    <3>2. Reserved(s) = pull[s].loop /\ pull[s].loop \in Nat /\ pull[s].loop > 0
      BY AllocatorConstants DEF Reserved, IInv, TypeInv, TypeOK, FillOwes, Thread
    <3>3. Cardinality(Beacons) \in Nat /\ JIT_NUM_BEACON_IN_QUEUE \in Nat
      BY BeaconsFinite, SpacedFacts DEF IInv, TypeInv
    <3> QED
      BY <3>1, <3>2, <3>3
  <2>3. TypeInv
    BY DEF IInv
  <2> QED
    BY <1>1, <2>1, <2>2, <2>3, LastIsNear
<1>9. r > 0 => b + r * Period <= now + B
  BY <1>1, <1>7 DEF Retried
<1> HIDE DEF last, r, b, t, H, B, NP
<1>10. (r + 1) * Period = r * Period + Period /\ r * Period \in Nat /\ r * Period >= 0
       /\ (r = 0 => r * Period = 0)
  BY <1>1, <1>2
<1>11. t = b + r * Period + Period /\ t \in Nat
  BY <1>2, <1>5, <1>6, <1>10
<1>12. t < now + H
  <2>1. CASE r > 0
    BY <1>1, <1>2, <1>3, <1>5, <1>9, <1>10, <1>11, <2>1
  <2>2. CASE r = 0 /\ last = 0
    BY <1>1, <1>2, <1>3, <1>5, <1>10, <1>11, <2>2
  <2>3. CASE r = 0 /\ last # 0
    BY <1>1, <1>2, <1>3, <1>5, <1>8, <1>10, <1>11, <2>3
  <2> QED
    BY <1>1, <2>1, <2>2, <2>3
<1>13. last < t /\ (last # 0 => last + Period <= t)
  BY <1>1, <1>2, <1>5, <1>10, <1>11
<1>14. now <= t + MaxOutage
  BY <1>1, <1>2, <1>4, <1>5, <1>10, <1>11
<1>15. \E m \in Nat : t = m * Period
  <2>1. PICK m \in Nat : b = m * Period
    BY <1>5
  <2>2. m + r + 1 \in Nat /\ t = (m + r + 1) * Period
    BY <1>1, <1>2, <1>6, <2>1
  <2> QED
    BY <2>2
<1> QED
  BY <1>1, <1>11, <1>12, <1>13, <1>14, <1>15 DEF last, t, H

LEMMA NextIsTried ==
    ASSUME NEW s \in Servers, NEW lead, Spaced(lead), TypeInv, NEW age \in 0 .. RefAge
    PROVE  NextSlot(s, now - age) = Tried(pull[s], now)
<1> DEFINE last == pull[s].last
           r == pull[s].retry
<1>1. age = 0 /\ now \in Nat /\ now - age = now
  BY DEF Spaced, TypeInv, TypeOK
<1>2. last \in Nat /\ r \in Nat /\ Period \in Nat /\ Period > 0
  BY AllocatorConstants DEF TypeInv, TypeOK, Thread
<1>3. now % Period \in Nat
  BY <1>1, <1>2
<1>4. NextSlot(s, now) = (IF last = 0 THEN now - (now % Period) + Period ELSE last + Period)
                           + r * Period
  BY DEF NextSlot, AfterReference
<1>5. Tried(pull[s], now) = (IF last = 0 THEN now - (now % Period) ELSE last) + (r + 1) * Period
  BY DEF Tried, Base
<1> HIDE DEF last, r
<1>6. (r + 1) * Period = r * Period + Period /\ r * Period \in Nat
  BY <1>2
<1> QED
  BY <1>1, <1>2, <1>3, <1>4, <1>5, <1>6
-----------------------------------------------------------------------------
(* A beacon is queued at the slot tried: every slot it went past was refused. *)
LEMMA SlotQueued ==
    ASSUME NEW s, Servers = {s}, NEW lead, Spaced(lead), IInv, SlotInv(s, lead), Queued(s)
    PROVE  SlotInv(s, lead)'
<1> DEFINE last == pull[s].last
           r == pull[s].retry
           b == Base(last, now)
           t == Tried(pull[s], now)
           e == [node |-> BeaconNode(t), slot |-> t]
<1>1. /\ pull[s].pc = "fill"
      /\ queue' = queue \cup {e} /\ pull'[s] = WithOneQueued(pull[s], t)
      /\ now' = now /\ behind' = behind /\ refused' = refused
  <2>1. PICK age \in 0 .. RefAge :
          LET slot == NextSlot(s, now - age)
          IN  /\ queue' = queue \cup {[node |-> BeaconAt(slot), slot |-> slot]}
              /\ pull' = [pull EXCEPT ![s] = WithOneQueued(pull[s], slot)]
    BY DEF Queued
  <2>2. NextSlot(s, now - age) = t
    BY NextIsTried DEF IInv
  <2>3. BeaconAt(t) = BeaconNode(t)
    BY BeaconAtIs
  <2> QED
    BY <2>1, <2>2, <2>3 DEF Queued, IInv, TypeInv, TypeOK
<1>2. /\ last \in Nat /\ t \in Nat /\ last < t /\ now <= t + MaxOutage
      /\ t < now + TX_MAX_ADVANCE_DELAY
      /\ \E m \in Nat : t = m * Period
  BY <1>1, TriedFacts
<1>3. r \in Nat /\ now \in Nat /\ behind \in Nat
  BY AllocatorConstants DEF IInv, TypeInv, TypeOK, Thread
<1>4. pull'[s].last = t /\ pull'[s].retry = 0
  BY <1>1 DEF WithOneQueued
<1>5. e.slot = t /\ e.node = BeaconNode(t) /\ IsBeacon(e.node)
  BY DEF BeaconNode, IsBeacon
<1>6. BeaconEntries(queue, now, last) /\ OtherEntries(queue, now, lead)
  BY DEF SlotInv
<1>t. /\ last # 0 => Covered(queue, refused, now, last, lead)
      /\ Retried(refused, now, pull[s], lead)
      /\ LastInv(now, last, behind)
  BY <1>1 DEF SlotInv
<1>7. b \in Nat /\ (last = 0 => b <= now) /\ (last # 0 => b = last)
  BY <1>2, <1>3, <1>t, BaseFacts DEF Base, LastInv
<1>8. t = b + (r + 1) * Period
  BY DEF Tried
<1>9. \A k \in 1 .. r : b + k * Period \in refused /\ b + k * Period <= now + Blocked(lead)
  BY <1>t DEF Retried
<1> HIDE DEF e, t, b, r, last
<1>10. BeaconEntries(queue', now, t)
  <2> SUFFICES ASSUME NEW f \in queue', IsBeacon(f.node)
               PROVE  /\ f.node = BeaconNode(f.slot) /\ t # 0 /\ f.slot <= t
                      /\ now <= f.slot + MaxOutage
                      /\ f.slot < now + TX_MAX_ADVANCE_DELAY
    BY DEF BeaconEntries
  <2>1. CASE f = e
    BY <1>2, <1>5, <2>1
  <2>2. CASE f \in queue
    <3>1. /\ f.node = BeaconNode(f.slot) /\ f.slot <= last
          /\ now <= f.slot + MaxOutage
          /\ f.slot < now + TX_MAX_ADVANCE_DELAY
      BY <1>6, <2>2 DEF BeaconEntries
    <3>2. f.slot \in Nat
      BY <2>2 DEF IInv, TypeInv, TypeOK, Entry
    <3> QED
      BY <1>2, <3>1, <3>2
  <2> QED
    BY <1>1, <2>1, <2>2
<1>11. OtherEntries(queue', now, lead)
  BY <1>1, <1>5, <1>6 DEF OtherEntries
<1>12. Covered(queue', refused, now, t, lead)
  <2> SUFFICES ASSUME NEW k \in Nat, now + TX_JIT_DELAY <= t - k * Period
               PROVE  \/ t - k * Period \in refused /\ t - k * Period <= now + Blocked(lead)
                      \/ Queues(queue', t - k * Period)
    BY DEF Covered
  <2>1. Period \in Nat /\ Period > 0 /\ TX_JIT_DELAY \in Nat /\ TX_JIT_DELAY > 0
    BY SpacedFacts
  <2>2. CASE k = 0
    <3>1. t - k * Period = t
      BY <1>2, <2>1, <2>2
    <3> QED
      BY <1>1, <1>5, <3>1 DEF Queues
  <2>3. CASE k \in 1 .. r
    <3> DEFINE j == r + 1 - k
    <3>1. j \in 1 .. r
      BY <1>3, <2>3
    <3>2. t - k * Period = b + j * Period
      BY <1>3, <1>7, <1>8, <2>1
    <3> QED
      BY <1>9, <3>1, <3>2
  <2>4. CASE k > r
    <3> DEFINE j == k - (r + 1)
    <3>1. j \in Nat
      BY <1>3, <2>4
    <3>2. t - k * Period = b - j * Period
      BY <1>3, <1>7, <1>8, <2>1
    <3>3. j * Period \in Nat
      BY <2>1, <3>1
    <3> HIDE DEF j
    <3>4. last # 0
      BY <1>3, <1>7, <2>1, <3>2, <3>3
    <3>5. now + TX_JIT_DELAY <= last - j * Period
      BY <1>7, <3>2, <3>4
    <3>6. \/ last - j * Period \in refused /\ last - j * Period <= now + Blocked(lead)
          \/ Queues(queue, last - j * Period)
      BY <1>t, <3>1, <3>4, <3>5 DEF Covered
    <3> QED
      BY <1>1, <1>7, <3>2, <3>4, <3>6 DEF Queues
  <2> QED
    BY <1>3, <2>2, <2>3, <2>4
<1>13. Retried(refused, now, pull'[s], lead)
  BY <1>4 DEF Retried
<1>14. LastInv(now, t, behind)
  <2>1. now <= t + behind
    <3>1. Period \in Nat /\ Period > 0 /\ (r + 1) * Period >= Period
      BY <1>3, SpacedFacts
    <3>2. last = 0 => now < b + Period
      BY <1>2, <1>3, BaseFacts DEF b
    <3>3. last # 0 => now <= last + behind
      BY <1>t DEF LastInv
    <3> QED
      BY <1>2, <1>3, <1>7, <1>8, <3>1, <3>2, <3>3
  <2> QED
    BY <1>2, <2>1 DEF LastInv
<1> QED
  BY <1>1, <1>4, <1>10, <1>11, <1>12, <1>13, <1>14 DEF SlotInv

(* A slot refused is no further than Blocked, and is remembered. *)
LEMMA SlotRefused ==
    ASSUME NEW s, Servers = {s}, NEW lead, Spaced(lead), IInv, HasRoom, SlotInv(s, lead),
           Refused(s)
    PROVE  SlotInv(s, lead)'
<1> DEFINE p == pull[s]
           t == Tried(p, now)
<1>1. /\ p.pc = "fill"
      /\ ~Fits(BeaconAt(t)) /\ refused' = refused \cup {t}
      /\ pull'[s] = [p EXCEPT !.retry = @ + 1]
      /\ queue' = queue /\ now' = now /\ behind' = behind
  <2>1. PICK age \in 0 .. RefAge :
          /\ ~Fits(BeaconAt(NextSlot(s, now - age)))
          /\ refused' = refused \cup {NextSlot(s, now - age)}
    BY DEF Refused
  <2>2. NextSlot(s, now - age) = t
    BY NextIsTried DEF IInv
  <2> QED
    BY <2>1, <2>2 DEF Refused, WithOneRefused, IInv, TypeInv, TypeOK
<1>2. /\ p.last \in Nat /\ t \in Nat /\ (p.last # 0 => p.last + Period <= t)
      /\ t < now + TX_MAX_ADVANCE_DELAY
  BY <1>1, TriedFacts
<1>3. p.retry \in Nat /\ now \in Nat /\ p \in Thread /\ TypeOK
  BY DEF IInv, TypeInv, TypeOK, Thread
<1>4. /\ BeaconEntries(queue, now, p.last) /\ OtherEntries(queue, now, lead)
      /\ p.last # 0 => Covered(queue, refused, now, p.last, lead)
      /\ Retried(refused, now, p, lead)
      /\ LastInv(now, p.last, behind)
  BY <1>1 DEF SlotInv
<1>5. t <= now + Blocked(lead)
  <2>1. Blocked(lead) \in Nat
    BY SpacedFacts
  <2>2. ~(now + Blocked(lead) < t)
    BY <1>1, <1>2, <1>3, <1>4, FitsBeyond
  <2> QED
    BY <1>2, <1>3, <2>1, <2>2
<1>6. pull'[s].retry = p.retry + 1 /\ pull'[s].last = p.last
  BY <1>1, <1>3 DEF Thread
<1>7. t = Base(p.last, now) + (p.retry + 1) * Period
  BY DEF Tried
<1> HIDE DEF t, p
<1>8. Retried(refused', now, pull'[s], lead)
  <2> SUFFICES ASSUME NEW k \in 1 .. p.retry + 1
               PROVE  /\ Base(p.last, now) + k * Period \in refused'
                      /\ Base(p.last, now) + k * Period <= now + Blocked(lead)
    BY <1>6 DEF Retried
  <2>1. CASE k = p.retry + 1
    BY <1>1, <1>5, <1>7, <2>1
  <2>2. CASE k \in 1 .. p.retry
    BY <1>1, <1>4, <2>2 DEF Retried
  <2> QED
    BY <1>3, <2>1, <2>2
<1>9. p.last # 0 => Covered(queue, refused', now, p.last, lead)
  BY <1>1, <1>4 DEF Covered
<1> QED
  BY <1>1, <1>4, <1>6, <1>8, <1>9 DEF SlotInv
-----------------------------------------------------------------------------
(* A downlink is not in the way of what is already queued. *)
LEMMA SlotDownlink ==
    ASSUME NEW s, NEW lead, Spaced(lead), SlotInv(s, lead),
           NEW ahead \in DownlinkLeads, Downlink(ahead)
    PROVE  SlotInv(s, lead)'
<1> DEFINE x == NewNode(<<>>, Count(now), ClassA, Count(now + ahead), 0)
           e == [node |-> x, slot |-> 0]
<1>1. /\ queue' \subseteq queue \cup {e} /\ queue \subseteq queue'
      /\ UNCHANGED <<now, behind, pull, refused>>
  BY DEF Downlink
<1>2. /\ ~IsBeacon(x) /\ x.pre = PreDelay(ClassA) /\ x.post = 0 /\ x.count = Count(now + ahead)
  BY DEF NewNode, IsBeacon, PostDelay, ClassA, ClassC, Beacon
<1>3. ahead \in 0 .. lead
  BY DEF Spaced
<1>4. e.node = x
  OBVIOUS
<1> HIDE DEF x, e
<1>5. BeaconEntries(queue', now, pull[s].last)
  BY <1>1, <1>2, <1>4 DEF SlotInv, BeaconEntries
<1>6. OtherEntries(queue', now, lead)
  <2> SUFFICES ASSUME NEW f \in queue', ~IsBeacon(f.node)
               PROVE  /\ f.node.pre = PreDelay(ClassA) /\ f.node.post = 0
                      /\ \E d \in 0 .. lead : f.node.count = Count(now + d)
    BY DEF OtherEntries
  <2>1. CASE f = e
    BY <1>2, <1>3, <1>4, <2>1
  <2>2. CASE f \in queue
    BY <2>2 DEF SlotInv, OtherEntries
  <2> QED
    BY <1>1, <2>1, <2>2
<1>7. pull[s].last # 0 => Covered(queue', refused, now, pull[s].last, lead)
  BY <1>1 DEF SlotInv, Covered, Queues
<1> QED
  BY <1>1, <1>5, <1>6, <1>7 DEF SlotInv

(* thread_jit removes only what is due or has passed. *)
LEMMA SlotRemoved ==
    ASSUME NEW s, NEW lead, Spaced(lead), TypeOK, s \in Servers, SlotInv(s, lead), Drop \/ Take
    PROVE  SlotInv(s, lead)'
<1>1. /\ UNCHANGED <<now, behind, pull, refused>>
      /\ \E e \in Outdated \cup Due : queue' = queue \ {e}
  BY DEF Drop, Take
<1>2. PICK e \in Outdated \cup Due : queue' = queue \ {e}
  BY <1>1
<1>3. BeaconEntries(queue, now, pull[s].last) /\ now \in Nat /\ pull[s].last \in Nat
  BY DEF SlotInv, TypeOK, Thread
<1>4. \A t \in Int : now + TX_JIT_DELAY <= t /\ Queues(queue, t) => Queues(queue', t)
  <2> SUFFICES ASSUME NEW t \in Int, now + TX_JIT_DELAY <= t,
                      NEW f \in queue, IsBeacon(f.node), f.slot = t
               PROVE  f \in queue'
    BY DEF Queues
  <2>1. f.slot \in Nat /\ (IsOutdated(f.node, Count(now)) <=> f.slot < now)
        /\ (IsDue(f.node, Count(now)) <=> f.slot - now \in 0 .. TX_JIT_DELAY - 1)
    BY <1>3, BeaconLead
  <2>2. TX_JIT_DELAY \in Nat
    BY SpacedFacts
  <2>3. f \notin Outdated \cup Due
    BY <1>3, <2>1, <2>2 DEF Outdated, Due
  <2> QED
    BY <1>2, <2>3
<1>5. pull[s].last # 0 => Covered(queue', refused, now, pull[s].last, lead)
  BY <1>3, <1>4, CoveredOn DEF SlotInv
<1>6. BeaconEntries(queue', now, pull[s].last) /\ OtherEntries(queue', now, lead)
  BY <1>2 DEF SlotInv, BeaconEntries, OtherEntries
<1> QED
  BY <1>1, <1>5, <1>6 DEF SlotInv

(* Time goes on when nothing in the queue is due, and never runs away from the
   last slot by more than the outage.                                        *)
LEMMA SlotTick ==
    ASSUME NEW s, Servers = {s}, NEW lead, Spaced(lead), IInv, SlotInv(s, lead), Tick
    PROVE  SlotInv(s, lead)'
<1> DEFINE last == pull[s].last
           J == TX_JIT_DELAY
<1>1. /\ now' = now + 1 /\ JitIdle /\ pull[s].pc = "recv"
      /\ UNCHANGED <<queue, pull, refused>>
      /\ \/ Settled /\ behind' = 0
         \/ behind' = behind + 1
  BY DEF Tick, PullIdle
<1>2. /\ TypeOK /\ now \in Nat /\ last \in Nat /\ behind \in Nat
      /\ J \in Nat /\ J > 0 /\ TX_MAX_ADVANCE_DELAY \in Nat /\ lead \in Nat /\ Wrap \in Nat
      /\ MaxOutage \in Nat
  BY SpacedFacts DEF IInv, TypeInv, TypeOK, Thread
<1>3. /\ BeaconEntries(queue, now, last) /\ OtherEntries(queue, now, lead)
      /\ last # 0 => Covered(queue, refused, now, last, lead)
      /\ LastInv(now, last, behind)
  BY DEF SlotInv
<1>4. Settled => now < last
  BY SettledAhead
<1> HIDE DEF last
<1>5. BeaconEntries(queue, now + 1, last)
  <2> SUFFICES ASSUME NEW e \in queue, IsBeacon(e.node)
               PROVE  /\ e.node = BeaconNode(e.slot) /\ last # 0 /\ e.slot <= last
                      /\ now + 1 <= e.slot + MaxOutage
                      /\ e.slot < now + 1 + TX_MAX_ADVANCE_DELAY
    BY DEF BeaconEntries
  <2>1. now + J <= e.slot /\ e.slot \in Nat
    BY <1>1, <1>2, <1>3, IdleBeacons DEF TypeOK, Entry
  <2>2. /\ e.node = BeaconNode(e.slot) /\ last # 0 /\ e.slot <= last
        /\ e.slot < now + TX_MAX_ADVANCE_DELAY
    BY <1>3 DEF BeaconEntries
  <2> QED
    BY <1>2, <2>1, <2>2
<1>6. OtherEntries(queue, now + 1, lead)
  <2> SUFFICES ASSUME NEW e \in queue, ~IsBeacon(e.node)
               PROVE  /\ e.node.pre = PreDelay(ClassA) /\ e.node.post = 0
                      /\ \E d \in 0 .. lead : e.node.count = Count(now + 1 + d)
    BY DEF OtherEntries
  <2>1. PICK d \in 0 .. lead : e.node.count = Count(now + d)
    BY <1>3 DEF OtherEntries
  <2>2. ~(Sub(Count(now + d), Count(now)) < J)
    BY <1>1, <2>1 DEF JitIdle, Due, IsDue
  <2>3. d # 0
    <3> SUFFICES ASSUME d = 0 PROVE FALSE
      OBVIOUS
    <3>1. Sub(Count(now), Count(now)) = 0
      <4>1. now - now < Wrap
        BY <1>2, JitConstants
      <4> QED
        BY <1>2, <4>1, CountSub
    <3>2. now + d = now
      BY <1>2
    <3> QED
      BY <1>2, <2>2, <3>1, <3>2
  <2>4. d - 1 \in 0 .. lead /\ now + 1 + (d - 1) = now + d
    BY <1>2, <2>3
  <2>5. e.node.count = Count(now + 1 + (d - 1))
    BY <2>1, <2>4
  <2>6. \E c \in 0 .. lead : e.node.count = Count(now + 1 + c)
    BY <2>4, <2>5
  <2> QED
    BY <1>3, <2>6 DEF OtherEntries
<1>7. last # 0 => Covered(queue, refused, now + 1, last, lead)
  <2>1. \A t \in Int : now + 1 + J <= t /\ Queues(queue, t) => Queues(queue, t)
    OBVIOUS
  <2>2. now + 1 \in Nat /\ now <= now + 1
    BY <1>2
  <2> QED
    BY <1>2, <1>3, <2>1, <2>2, CoveredOn
<1>8. LastInv(now + 1, last, behind')
  BY <1>1, <1>2, <1>3, <1>4 DEF LastInv
<1> QED
  BY <1>1, <1>5, <1>6, <1>7, <1>8 DEF SlotInv, last

LEMMA SlotStep ==
    ASSUME NEW s, Servers = {s}, NEW lead, Spaced(lead), IInv, HasRoom, SlotInv(s, lead),
           [Next]_vars
    PROVE  SlotInv(s, lead)'
<1>p. pull \in [Servers -> Thread] /\ s \in Servers /\ TypeOK
  BY DEF IInv, TypeInv, TypeOK
<1>1. ASSUME NEW ahead \in DownlinkLeads, Downlink(ahead) PROVE SlotInv(s, lead)'
  BY <1>1, SlotDownlink
<1>2. CASE Recv(s)
  <2>1. UNCHANGED <<now, behind, queue, refused>>
    BY <1>2 DEF Recv
  <2>2. pull'[s].last = pull[s].last /\ pull'[s].retry = 0
    BY <1>2, <1>p DEF Recv, Thread
  <2>3. Retried(refused, now, pull'[s], lead)
    BY <2>2 DEF Retried
  <2> QED
    BY <2>1, <2>2, <2>3 DEF SlotInv
<1>3. CASE NoReference(s)
  <2>1. UNCHANGED <<now, behind, queue, refused>>
    BY <1>3 DEF NoReference
  <2>2. pull'[s].last = pull[s].last /\ pull'[s].pc = "recv"
    BY <1>3, <1>p DEF NoReference, Thread
  <2> QED
    BY <2>1, <2>2 DEF SlotInv
<1>4. CASE Queued(s)
  BY <1>4, SlotQueued
<1>5. CASE Refused(s)
  BY <1>5, SlotRefused
<1>6. CASE Drop \/ Take
  BY <1>6, <1>p, SlotRemoved
<1>7. CASE LoseReference \/ RegainReference \/ UNCHANGED vars
  BY <1>7 DEF LoseReference, RegainReference, vars, SlotInv
<1>8. CASE Tick
  BY <1>8, SlotTick
<1> QED
  BY <1>1, <1>2, <1>3, <1>4, <1>5, <1>6, <1>7, <1>8 DEF Next, Fill

LEMMA SlotInit ==
    ASSUME NEW s, Servers = {s}, NEW lead, Init
    PROVE  SlotInv(s, lead)
<1>1. queue = {} /\ pull[s].last = 0 /\ pull[s].pc = "recv"
  BY DEF Init
<1> QED
  BY <1>1 DEF SlotInv, BeaconEntries, OtherEntries, LastInv
-----------------------------------------------------------------------------
(* A lone allocator under Spaced, whose queue is never full of other packets,
   keeps SlotInv.                                                            *)
LEMMA SlotsKept ==
    ASSUME NEW s, Servers = {s}, NEW lead, Spaced(lead)
    PROVE  Spec /\ []HasRoom => [](IInv /\ SlotInv(s, lead))
<1>1. Init => IInv /\ SlotInv(s, lead)
  BY TypeInit, LoneInit, SlotInit DEF IInv
<1>2. IInv /\ SlotInv(s, lead) /\ HasRoom /\ [Next]_vars => (IInv /\ SlotInv(s, lead))'
  BY TypeStep, LoneStep, SlotStep DEF IInv
<1> QED
  BY <1>1, <1>2, PTL DEF Spec

(* No beacon time is skipped, whatever outages the server has to catch up with:
   settled, it has queued every slot still to come up to its last one, but for
   those jit_enqueue refused.                                               *)
THEOREM NoSlotMissed ==
    ASSUME NEW s, Servers = {s}, NEW lead, Spaced(lead)
    PROVE  Spec /\ []HasRoom => []NoneMissing
<1>1. IInv /\ SlotInv(s, lead) => NoneMissing
  <2> SUFFICES ASSUME IInv, SlotInv(s, lead), Settled
               PROVE  /\ pull[s].last > now
                      /\ \A t \in now + TX_JIT_DELAY .. pull[s].last :
                           t % Period = 0 => t \in refused \/ \E e \in Beacons : e.slot = t
    BY DEF NoneMissing
  <2>1. /\ now \in Nat /\ pull[s].last \in Nat /\ TX_JIT_DELAY \in Nat
        /\ Period \in Nat /\ Period > 0
    BY SpacedFacts DEF IInv, TypeInv, TypeOK, Thread
  <2>2. pull[s].last > now
    BY <2>1, SettledAhead
  <2>3. ASSUME NEW t \in now + TX_JIT_DELAY .. pull[s].last, t % Period = 0
        PROVE  t \in refused \/ \E e \in Beacons : e.slot = t
    <3>l. LastInv(now, pull[s].last, behind) /\ pull[s].last # 0
      <4>1. pull[s].last # 0
        BY <2>1, <2>2
      <4> QED
        BY <4>1 DEF SlotInv
    <3>1. PICK m \in Nat : pull[s].last = m * Period
      BY <3>l DEF LastInv
    <3> DEFINE n == t \div Period
    <3>2. n \in Nat /\ t = n * Period /\ t \in Nat
      BY <2>1, <2>3
    <3> HIDE DEF n
    <3> DEFINE k == m - n
    <3>3. k \in Int /\ k * Period = m * Period - n * Period
      BY <2>1, <3>2
    <3>4. k * Period >= 0
      BY <2>1, <3>1, <3>2, <3>3
    <3> HIDE DEF k
    <3>5. k \in Nat
      <4>1. ASSUME k <= -1 PROVE k * Period <= -Period
        BY <2>1, <3>3, <4>1
      <4> QED
        BY <2>1, <3>3, <3>4, <4>1
    <3>6. t = pull[s].last - k * Period
      BY <2>1, <3>1, <3>2, <3>3
    <3>7. Covered(queue, refused, now, pull[s].last, lead)
      BY <2>1, <2>2 DEF SlotInv
    <3>8. t \in refused \/ Queues(queue, t)
      BY <3>5, <3>6, <3>7 DEF Covered
    <3> QED
      BY <3>8 DEF Queues, Beacons
  <2> QED
    BY <2>2, <2>3
<1> QED
  BY <1>1, SlotsKept, PTL

(* Every beacon is programmed for the time it carries, though the queue knows
   that time by the value of a counter only, which has it once a turn.      *)
THEOREM BeaconsKeepTheirTime ==
    ASSUME NEW s, Servers = {s}, NEW lead, Spaced(lead)
    PROVE  Spec /\ []HasRoom => SentOnItsSlot
<1> DEFINE OnSlot(e) == (Take /\ queue' = queue \ {e}) => e.slot - now \in 0 .. TX_JIT_DELAY - 1
<1>1. IInv /\ SlotInv(s, lead) /\ [Next]_vars => [\A e \in Beacons : OnSlot(e)]_vars
  <2> SUFFICES ASSUME IInv, SlotInv(s, lead), NEW e \in Beacons, Take, queue' = queue \ {e}
               PROVE  e.slot - now \in 0 .. TX_JIT_DELAY - 1
    OBVIOUS
  <2>1. PICK f \in Due : queue' = queue \ {f}
    BY DEF Take
  <2>2. e \in queue /\ IsBeacon(e.node) /\ f \in queue
    BY DEF Beacons, Due
  <2>3. e = f
    BY <2>1, <2>2
  <2>4. IsDue(e.node, Count(now))
    BY <2>3 DEF Due
  <2>5. BeaconEntries(queue, now, pull[s].last) /\ TypeOK
    BY DEF SlotInv, IInv, TypeInv
  <2> QED
    BY <2>2, <2>4, <2>5, BeaconLead
<1>2. Spec => [][Next]_vars
  BY PTL DEF Spec
<1>3. Spec /\ []HasRoom => [][\A e \in Beacons : OnSlot(e)]_vars
  BY <1>1, <1>2, SlotsKept, PTL
<1> QED
  BY <1>3 DEF SentOnItsSlot
=============================================================================
