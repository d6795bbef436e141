------------------------------ MODULE JitQueue ------------------------------
(***************************************************************************)
(* The just-in-time transmit queue of the forwarder (fwd/src/jitqueue.c):  *)
(* its nodes, its modular time arithmetic and the decisions its functions  *)
(* take.  Every operator here is pure; JitScheduler runs them from the     *)
(* threads that share the queue.                                           *)
(*                                                                         *)
(* Times are values of the concentrator's free-running counter, modulo     *)
(* Wrap (2^32 microseconds in the code; a small number of ticks in the     *)
(* model-checking instances).                                              *)
(***************************************************************************)
EXTENDS Integers, SequencesExt

CONSTANTS
    Wrap,                  \* modulus of the counter
    JIT_QUEUE_MAX,         \* slots of the nodes array
    TX_START_DELAY,        \* ramp-up the radio needs before a packet
    TX_MARGIN_DELAY,       \* margin between two packets
    TX_JIT_DELAY,          \* how early a packet is programmed
    TX_MAX_ADVANCE_DELAY,  \* furthest plausible packet
    ASAP_DELAY,            \* "now" for an immediate packet: 1E6 us
    BEACON_GUARD,          \* guard interval before a beacon
    BEACON_RESERVED        \* interval reserved after a beacon's start

ASSUME JitConstants ==
    /\ Wrap \in Nat \ {0}
    /\ JIT_QUEUE_MAX \in Nat \ {0}
    /\ TX_START_DELAY \in Nat
    /\ TX_MARGIN_DELAY \in Nat
    /\ TX_JIT_DELAY \in Nat
    /\ TX_MAX_ADVANCE_DELAY \in Nat
    /\ ASAP_DELAY \in Nat
    /\ BEACON_GUARD \in Nat
    /\ BEACON_RESERVED \in Nat

Time == 0 .. Wrap - 1

ClassA == "CLASS_A"
ClassB == "CLASS_B"
ClassC == "CLASS_C"
Beacon == "BEACON"
PktTypes == {ClassA, ClassB, ClassC, Beacon}

OK == "OK"
TooLate == "TOO_LATE"
TooEarly == "TOO_EARLY"
CollisionPacket == "COLLISION_PACKET"
CollisionBeacon == "COLLISION_BEACON"

Node == [type : PktTypes, count : Time, pre : Nat, post : Nat]

-----------------------------------------------------------------------------
(* uint32_t arithmetic *)
Sub(a, b) == (a - b) % Wrap
Plus(a, d) == (a + d) % Wrap

(* compare(): the difference of the two counts, read as a signed int, is positive *)
Earlier(m, n) == Sub(n.count, m.count) \in 1 .. (Wrap - 1) \div 2 \* mutant: swapped
Later(m, n) == Sub(m.count, n.count) \in 1 .. (Wrap - 1) \div 2

PreDelay(type) ==
    IF type = Beacon THEN TX_START_DELAY + BEACON_GUARD + TX_JIT_DELAY
                     ELSE TX_START_DELAY + TX_JIT_DELAY

PostDelay(type, toa) == IF type = Beacon THEN BEACON_RESERVED ELSE toa

CollisionBehind(c1, pre1, post1, c2, pre2, post2) ==  \* mutant: one side only
    Sub(c1, c2) <= pre1 + post2 + TX_MARGIN_DELAY
Collision(c1, pre1, post1, c2, pre2, post2) ==
    \/ Sub(c1, c2) <= pre1 + post2 + TX_MARGIN_DELAY
    \/ Sub(c2, c1) <= pre2 + post1 + TX_MARGIN_DELAY

-----------------------------------------------------------------------------
(***************************************************************************)
(* An immediate (class C) packet is given the first slot the search finds: *)
(* one second from now if nothing is in the way, else right behind the     *)
(* first queued node that leaves room before the next one.                 *)
(***************************************************************************)
SlotTooClose(n) == Plus(n.count, n.post + TX_JIT_DELAY + TX_MARGIN_DELAY) \* mutant
SlotBehind(n) ==
    Plus(n.count, n.post + PreDelay(ClassC) + TX_JIT_DELAY + TX_MARGIN_DELAY)

InTheWay(c, post, n) ==
    Collision(c, PreDelay(ClassC), post, n.count, n.pre, n.post)

RoomBehind(q, i, post) ==
    i = Len(q) \/ ~InTheWay(SlotBehind(q[i]), post, q[i + 1])

AsapCount(q, t, post) ==
    IF \A i \in DOMAIN q : ~InTheWay(Plus(t, ASAP_DELAY), post, q[i])
    THEN Plus(t, ASAP_DELAY)
    ELSE SlotBehind(q[CHOOSE i \in DOMAIN q :
                        /\ RoomBehind(q, i, post)
                        /\ \A j \in 1 .. i - 1 : ~RoomBehind(q, j, post)])

-----------------------------------------------------------------------------
(* The node jit_enqueue would queue at time t for a packet of this type *)
NewNode(q, t, type, count, toa) ==
    [type  |-> type,
     count |-> IF type = ClassC THEN AsapCount(q, t, toa) ELSE count,
     pre   |-> PreDelay(type),
     post  |-> PostDelay(type, toa)]

(* The pre-delay of queued node n that a packet of this type must respect: *)
(* class A and C packets ignore the beacon guard.                          *)
TargetPre(type, n) ==
    IF type \in {ClassA, ClassC} /\ n.type = Beacon THEN TX_START_DELAY ELSE n.pre

OverlapsNoAirtime(x, n) ==                            \* mutant: x lasts no time
    Collision(x.count, x.pre, 0, n.count, TargetPre(x.type, n), n.post)
Overlaps(x, n) ==
    Collision(x.count, x.pre, x.post, n.count, TargetPre(x.type, n), n.post)

IsTooLate(x, t) ==
    Sub(x.count, t) <= TX_START_DELAY + TX_MARGIN_DELAY + TX_JIT_DELAY

IsTooEarly(x, t) ==
    x.type \in {ClassA, ClassB} /\ Sub(x.count, t) > TX_MAX_ADVANCE_DELAY

(* The three criteria jit_enqueue applies, in its order *)
Verdict(q, t, x) ==
    IF IsTooLate(x, t) THEN TooLate
    ELSE IF IsTooEarly(x, t) THEN TooEarly
    ELSE IF \A i \in DOMAIN q : ~Overlaps(x, q[i]) THEN OK
    ELSE LET first == CHOOSE i \in DOMAIN q :
                        Overlaps(x, q[i]) /\ \A j \in 1 .. i - 1 : ~Overlaps(x, q[j])
         IN IF q[first].type = Beacon THEN CollisionBeacon ELSE CollisionPacket

IsOverfull(q) == Len(q) > JIT_QUEUE_MAX               \* mutant: off by one
IsFull(q) == Len(q) = JIT_QUEUE_MAX

PlacesLast(q, x) == {Len(q) + 1}                      \* mutant: no sort

(* Append and sort: the places in the sorted queue where qsort_r may put x *)
Places(q, x) ==
    {k \in 1 .. Len(q) + 1 :
        /\ k > 1 => ~Later(q[k - 1], x)
        /\ k <= Len(q) => ~Later(x, q[k])}

IsBeacon(n) == n.type = Beacon

(* jit_peek: what it drops, and what it hands to the transmitter *)
IsOutdatedSoon(n, t) == Sub(n.count, t) >= TX_MAX_ADVANCE_DELAY \div 4 \* mutant
IsOutdatedNever(n, t) == FALSE                        \* mutant: nothing dropped
IsOutdated(n, t) == Sub(n.count, t) >= TX_MAX_ADVANCE_DELAY
IsDueAtStart(n, t) == Sub(n.count, t) < TX_START_DELAY \* mutant: no JIT delay
IsDue(n, t) == Sub(n.count, t) < TX_JIT_DELAY
=============================================================================
