---------------------------- MODULE JitScheduler ----------------------------
(***************************************************************************)
(* One RF chain's downlink path: the server threads that put packets into  *)
(* the just-in-time queue, thread_jit (fwd/src/fwd.c) that polls it, and   *)
(* the radio that transmits what thread_jit programs.                      *)
(*                                                                         *)
(* An action is what a thread does between two accesses to shared state:   *)
(* reading the counter, the unlocked test for a full queue and the locked  *)
(* insertion are three steps of a server thread, so other threads (and the *)
(* counter) move between them.  The purge loop of jit_peek holds           *)
(* mx_jit_queue across several actions; no other action touches the queue  *)
(* while jit.pc = "scan".                                                  *)
(***************************************************************************)
EXTENDS JitQueue

CONSTANTS
    Servers,      \* threads that enqueue (semtech_pull_down, pkt_deal_up, ...)
    NoNode,       \* "no packet"
    Requests,     \* packets a server may ask for: [type, lead, toa]
    MaxRequests,  \* bound: requests in a behaviour
    Window,       \* bound: requests come in the first Window ticks of a counter cycle
    StartTime,    \* counter value at start
    JitLag,       \* bound: ticks from one poll of thread_jit to the end of the next
    MaxStall      \* bound: ticks a server thread takes from clock read to insertion

ASSUME SchedulerConstants ==
    /\ NoNode \notin Node
    /\ Requests \subseteq [type : PktTypes, lead : Nat, toa : Nat]
    /\ MaxRequests \in Nat
    /\ Window \in Nat
    /\ StartTime \in Time
    /\ JitLag \in Nat \ {0}
    /\ MaxStall \in Nat \ {0}

VARIABLES
    now,         \* the concentrator counter
    queue,       \* jit_queue.nodes[0 .. num_pkt-1]
    num_beacon,  \* jit_queue.num_beacon
    down,        \* the server threads
    jit,         \* thread_jit
    radio,       \* the RF chain's transmitter
    requests     \* requests made so far

vars == <<now, queue, num_beacon, down, jit, radio, requests>>

Idle == [pc |-> "idle", time |-> 0, type |-> ClassA, count |-> 0, toa |-> 0]

TypeOK ==
    /\ now \in Time
    /\ queue \in Seq(Node)
    /\ num_beacon \in Int
    /\ down \in [Servers -> [pc : {"idle", "check", "insert"}, time : Time,
                             type : PktTypes, count : Time, toa : Nat]]
    /\ jit \in [pc : {"wait", "scan", "dequeue", "send"}, time : Time,
                skipped : BOOLEAN, idx : Nat,
                peeked : Node \cup {NoNode}, pkt : Node \cup {NoNode}]
    /\ radio \in [status : {"FREE", "SCHEDULED", "EMITTING"}, pkt : Node \cup {NoNode}]
    /\ requests \in 0 .. MaxRequests

Init ==
    /\ now = StartTime
    /\ queue = <<>>
    /\ num_beacon = 0
    /\ down = [s \in Servers |-> Idle]
    /\ jit = [pc |-> "wait", time |-> StartTime, skipped |-> FALSE, idx |-> 0,
              peeked |-> NoNode, pkt |-> NoNode]
    /\ radio = [status |-> "FREE", pkt |-> NoNode]
    /\ requests = 0

QueueUnlocked == jit.pc # "scan"
-----------------------------------------------------------------------------
(* The server threads *)

(* A packet is to be queued: read the counter.  The lead is the packet's
   own timestamp relative to the counter (ignored for class C).            *)
ReadTime(s) ==
    /\ down[s].pc = "idle"
    /\ requests < MaxRequests
    /\ Sub(now, StartTime) < Window
    /\ requests' = requests + 1
    /\ \E r \in Requests :
         down' = [down EXCEPT ![s] = [pc |-> "check", time |-> now, type |-> r.type,
                                      count |-> Plus(now, r.lead), toa |-> r.toa]]
    /\ UNCHANGED <<now, queue, num_beacon, jit, radio>>

(* jit_queue_is_full: takes and releases the lock *)
RejectFull(s) ==
    /\ down[s].pc = "check"
    /\ QueueUnlocked
    /\ IsFull(queue)
    /\ down' = [down EXCEPT ![s] = Idle]
    /\ UNCHANGED <<now, queue, num_beacon, jit, radio, requests>>

PassFull(s) ==
    /\ down[s].pc = "check"
    /\ QueueUnlocked
    /\ ~IsFull(queue)
    /\ down' = [down EXCEPT ![s].pc = "insert"]
    /\ UNCHANGED <<now, queue, num_beacon, jit, radio, requests>>

(* num_beacon once node n has been added or taken away *)
Counted(n) == num_beacon + (IF IsBeacon(n) THEN 1 ELSE 0)
UncountedAlways(n) == num_beacon - 1                  \* mutant: whatever n is
Uncounted(n) == num_beacon - (IF IsBeacon(n) THEN 1 ELSE 0)

Candidate(s) == NewNode(queue, down[s].time, down[s].type, down[s].count, down[s].toa)

Reject(s) ==
    /\ down[s].pc = "insert"
    /\ QueueUnlocked
    /\ Verdict(queue, down[s].time, Candidate(s)) # OK
    /\ down' = [down EXCEPT ![s] = Idle]
    /\ UNCHANGED <<now, queue, num_beacon, jit, radio, requests>>

(* Append, count and sort under the lock *)
Accept(s) ==
    /\ down[s].pc = "insert"
    /\ QueueUnlocked
    /\ Verdict(queue, down[s].time, Candidate(s)) = OK
    /\ \E k \in Places(queue, Candidate(s)) : queue' = InsertAt(queue, k, Candidate(s))
    /\ num_beacon' = Counted(Candidate(s))
    /\ down' = [down EXCEPT ![s] = Idle]
    /\ UNCHANGED <<now, jit, radio, requests>>
-----------------------------------------------------------------------------
(* thread_jit *)

(* wait_ms(10), read the counter, jit_queue_is_empty *)
Poll ==
    /\ jit.pc = "wait"
    /\ jit.time # now
    /\ jit' = [jit EXCEPT !.time = now,
                          !.pc = IF queue = <<>> THEN "wait" ELSE "scan",
                          !.skipped = FALSE]
    /\ UNCHANGED <<now, queue, num_beacon, down, radio, requests>>

(* Where the purge loop of jit_peek is: after the first node has been
   dropped it goes on at the second, "i = 0; continue" being followed by
   the i++ of the for statement.                                            *)
ScanFromSecond == 2                                   \* mutant: loop from 1
ScanFrom == IF jit.skipped THEN 2 ELSE 1

OutdatedAt == {i \in ScanFrom .. Len(queue) : IsOutdated(queue[i], jit.time)}

(* Drop the first outdated node the loop meets: the last one takes its
   place and the queue is sorted.                                           *)
Purge ==
    /\ jit.pc = "scan"
    /\ \E i \in OutdatedAt :
         /\ \A j \in OutdatedAt : i <= j
         /\ queue' = RemoveAt(queue, i)
         /\ num_beacon' = Uncounted(queue[i])
         /\ jit' = [jit EXCEPT !.skipped = @ \/ i = 1]
    /\ UNCHANGED <<now, down, radio, requests>>

(* The earliest of the nodes the loop has looked at *)
IsHighestPriority(i) ==
    /\ i \in ScanFrom .. Len(queue)
    /\ \A j \in ScanFrom .. Len(queue) :
         /\ Sub(queue[i].count, jit.time) <= Sub(queue[j].count, jit.time)
         /\ j < i => Sub(queue[i].count, jit.time) < Sub(queue[j].count, jit.time)

PeekDue ==
    /\ jit.pc = "scan"
    /\ OutdatedAt = {}
    /\ \E i \in DOMAIN queue :
         /\ IsHighestPriority(i)
         /\ IsDue(queue[i], jit.time)
         /\ jit' = [jit EXCEPT !.pc = "dequeue", !.idx = i, !.peeked = queue[i]]
    /\ UNCHANGED <<now, queue, num_beacon, down, radio, requests>>

PeekNothing ==
    /\ jit.pc = "scan"
    /\ OutdatedAt = {}
    /\ ~\E i \in DOMAIN queue : IsHighestPriority(i) /\ IsDue(queue[i], jit.time)
    /\ jit' = [jit EXCEPT !.pc = "wait"]
    /\ UNCHANGED <<now, queue, num_beacon, down, radio, requests>>

(* jit_dequeue takes the index jit_peek returned; the lock was released
   in between.                                                              *)
Dequeue ==
    /\ jit.pc = "dequeue"
    /\ jit' = [jit EXCEPT !.pc = "send", !.pkt = queue[jit.idx]]
    /\ num_beacon' = Uncounted(queue[jit.idx])
    /\ queue' = RemoveAt(queue, jit.idx)
    /\ UNCHANGED <<now, down, radio, requests>>

JitDone == [jit EXCEPT !.pc = "wait", !.idx = 0, !.peeked = NoNode, !.pkt = NoNode]

(* lgw_status says the radio is emitting: the packet is forgotten *)
SendLost ==
    /\ jit.pc = "send"
    /\ radio.status = "EMITTING"
    /\ jit' = JitDone
    /\ UNCHANGED <<now, queue, num_beacon, down, radio, requests>>

(* lgw_send fails, or the channel is not free *)
SendFails ==
    /\ jit.pc = "send"
    /\ radio.status # "EMITTING"
    /\ jit' = JitDone
    /\ UNCHANGED <<now, queue, num_beacon, down, radio, requests>>

(* lgw_send; a packet already scheduled is overwritten *)
Send ==
    /\ jit.pc = "send"
    /\ radio.status # "EMITTING"
    /\ radio' = [status |-> "SCHEDULED", pkt |-> jit.pkt]
    /\ jit' = JitDone
    /\ UNCHANGED <<now, queue, num_beacon, down, requests>>
-----------------------------------------------------------------------------
(* The counter advances, and the radio with it *)
RadioAt(t) ==
    IF radio.status = "SCHEDULED" /\ t = radio.pkt.count
    THEN [radio EXCEPT !.status = "EMITTING"]
    ELSE IF radio.status = "EMITTING" /\ t = Plus(radio.pkt.count, radio.pkt.post)
    THEN [status |-> "FREE", pkt |-> NoNode]
    ELSE radio

Tick ==
    /\ Sub(now, jit.time) < JitLag
    /\ \A s \in Servers : down[s].pc # "idle" => Sub(now, down[s].time) < MaxStall
    /\ now' = Plus(now, 1)
    /\ radio' = RadioAt(now')
    /\ UNCHANGED <<queue, num_beacon, down, jit, requests>>

Enqueue(s) == RejectFull(s) \/ PassFull(s) \/ Reject(s) \/ Accept(s)
JitThread == Poll \/ Purge \/ PeekDue \/ PeekNothing \/ Dequeue \/ SendLost \/ SendFails \/ Send

Next ==
    \/ \E s \in Servers : ReadTime(s) \/ Enqueue(s)
    \/ JitThread
    \/ Tick

(* Every thread and the clock keep going; nobody has to send a request. *)
Spec == Init /\ [][Next]_vars
FairSpec ==
    /\ Spec
    /\ WF_vars(JitThread)
    /\ WF_vars(Tick)
    /\ \A s \in Servers : WF_vars(Enqueue(s))
-----------------------------------------------------------------------------
(* No two queued packets claim the same air time: whatever mix of threads
   queued them, each keeps its distance from the other (a class A or C packet
   may eat into a beacon's guard).                                          *)
PreTowards(m, n) ==
    IF IsBeacon(m) /\ n.type \in {ClassA, ClassC} THEN TX_START_DELAY ELSE m.pre

KeepApart(m, n) ==
    /\ m # n
    /\ ~Collision(m.count, PreTowards(m, n), m.post, n.count, PreTowards(n, m), n.post)

AllApart(q) == \A i, j \in DOMAIN q : i # j => KeepApart(q[i], q[j])
NoOverlap == AllApart(queue)

(* num_beacon, which tells the beacon allocator how many beacons are
   missing, is the number of beacons in the queue.                          *)
BeaconsOf(q) == {n \in ToSet(q) : IsBeacon(n)}
BeaconCount == num_beacon = Cardinality(BeaconsOf(queue))

(* The nodes fit the array of jit_queue_s. *)
QueueFits == Len(queue) <= JIT_QUEUE_MAX

(* Packets stay in transmission order through every insertion, removal and
   wrap of the counter.                                                     *)
QueueSorted == \A i \in 1 .. Len(queue) - 1 : ~Later(queue[i], queue[i + 1])

(* What jit_dequeue takes is what jit_peek chose, although the lock is
   released between the two calls.                                          *)
PeekedIsDequeued == jit.pc = "send" => jit.pkt = jit.peeked

(* When thread_jit is about to program a packet the previous emission is over
   and was not overwritten.                                                 *)
RadioIsFree == jit.pc = "send" => radio.status = "FREE"

(* A packet is handed to the radio early enough for its start. *)
ProgrammedInTime ==
    jit.pc = "send" => Sub(jit.pkt.count, now) \in TX_START_DELAY .. TX_JIT_DELAY

(* jit_peek only ever gives up on a packet whose time has passed, and never
   on a packet with a timestamp of its own other than a beacon: a class A or
   B downlink that was accepted is handed to the transmitter.               *)
IsPast(c, t) == Sub(t, c) \in 1 .. (Wrap - 1) \div 2

PurgedWasMissed ==
    [][\A i \in DOMAIN queue :
         (Purge /\ queue' = RemoveAt(queue, i)) =>
             queue[i].type \notin {ClassA, ClassB} /\ IsPast(queue[i].count, now)]_vars

(* The slot the ASAP search picks for a class C packet always passes the
   three criteria that follow it.                                           *)
ClassCPlaced ==
    [][\A s \in Servers : Reject(s) => down[s].type # ClassC]_vars

(* The queue is a book of reservations: every step of every thread is a
   booking, a hand-over, a cancellation or none of the book's business.     *)
Book == INSTANCE Reservations WITH
            Packets <- Node, NoPacket <- NoNode, Apart <- KeepApart,
            booked <- ToSet(queue), hand <- jit.pkt
ImplementsBook == Book!Spec

(* Once no more requests come the queue empties for good: no node, whatever
   its time, is skipped by the peek loop for ever.                          *)
Drains == (requests = MaxRequests) ~> [](queue = <<>>)
-----------------------------------------------------------------------------
(* What the timing theorems (JitSchedulerProofs) take of the constants, for
   data packets no longer than T.  The thresholds and the delays of the threads
   leave thread_jit the time to program each packet; an immediate packet's
   slot, which may lie behind every queued node, is within the horizon; the
   horizon is at most half a turn of the counter.  A packet exactly at the
   horizon is excepted: jit_enqueue accepts it (">"), and jit_peek drops it
   (">=") if it polls before the counter moves.                             *)
Claim(T) == TX_START_DELAY + TX_JIT_DELAY + T + TX_MARGIN_DELAY
SlotGap(T) == Claim(T) + TX_JIT_DELAY + Claim(T)
Horizon == TX_MAX_ADVANCE_DELAY

Paced(T) ==
    /\ T \in Nat
    /\ \A r \in Requests :
         /\ r.type # Beacon
         /\ r.toa \in 1 .. T
         /\ r.lead < Wrap
         /\ r.type # ClassC => r.lead # Horizon
    /\ TX_START_DELAY + 2 * JitLag <= TX_JIT_DELAY
    /\ 2 * JitLag + MaxStall <= TX_MARGIN_DELAY + TX_JIT_DELAY + 1
    /\ TX_START_DELAY + TX_MARGIN_DELAY + TX_JIT_DELAY < ASAP_DELAY
    /\ ASAP_DELAY + JIT_QUEUE_MAX * SlotGap(T) < Horizon
    /\ 2 * Horizon <= Wrap

(* What the radio theorem takes besides.  A packet in emission is no longer in
   the queue, so jit_enqueue does not compare a new one with it; what keeps
   them apart is that every packet jit_enqueue may accept is announced before
   the emission that precedes it can have begun.                            *)
Quiet(T) ==
    /\ TX_START_DELAY >= 1
    /\ 2 * TX_JIT_DELAY + MaxStall + T <= ASAP_DELAY + 2
    /\ \A r \in Requests :
         r.type # ClassC /\ r.lead > TX_START_DELAY + TX_MARGIN_DELAY + TX_JIT_DELAY =>
             2 * TX_JIT_DELAY + MaxStall + T <= r.lead + 2
=============================================================================
