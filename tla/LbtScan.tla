------------------------------ MODULE LbtScan ------------------------------
(***************************************************************************)
(* Listen before talk over a tty: lbt_enqueue gives a downlink one of the  *)
(* slots of lbt_stat, thread_lbt_scan has the modem listen on the channel  *)
(* of each slot whose packet comes up, and thread_jit sends the packet if  *)
(* the slot with its timestamp says that the channel is free.  The array   *)
(* has no lock: every store into it is a step, and so is every load of the *)
(* threads that write it.                                                  *)
(*                                                                         *)
(* Time is the counter of the concentrator between two of its wraps.  The  *)
(* jit queue is the set of the packets it has accepted (JitScheduler).     *)
(***************************************************************************)
EXTENDS Integers

CONSTANTS
    Servers,          \* the threads that queue downlinks, one of each server
    NB_LBT_QUEUE,     \* number of slots
    Freqs, NoFreq,    \* frequencies of downlinks; the 0 of an unused slot
    Leads,            \* how far ahead of the present a downlink may be
    WinLow, WinHigh,  \* a slot is scanned within this many units of its packet
    Keep,             \* a slot further away than this is cleared
    TX_JIT_DELAY,     \* thread_jit takes a packet this long before its time
    Wrap,             \* 2^32
    HalLag,           \* bound: oldest cur_hal_time a pass starts with
    MaxTime,          \* bound: end of a behaviour
    MaxRequests       \* bound: downlinks of a behaviour

ASSUME LbtAssumption ==
    /\ NB_LBT_QUEUE \in Nat \ {0} /\ NoFreq \notin Freqs /\ Leads \subseteq Nat
    /\ WinLow \in Nat /\ WinHigh \in Nat /\ Keep \in Nat /\ TX_JIT_DELAY \in Nat
    /\ HalLag \in Nat /\ MaxTime \in Nat \ {0} /\ MaxRequests \in Nat
    /\ Wrap \in Nat /\ Wrap > MaxTime + WinHigh

VARIABLES
    now,       \* the concentrator's counter
    slots,     \* GW.lbt.lbt_stat
    server,    \* of each thread in lbt_enqueue: its place, packet, reading and slot
    scan,      \* thread_lbt_scan: its place, slot, reading, and what it asked
    queue,     \* packets in the jit queue
    requests,  \* number of downlinks so far
    heard,     \* history: packets whose channel was free at the last answer
    sent,      \* history: packets sent
    asked,     \* history: timestamps requested so far
    twice,     \* history: timestamps requested more than once
    crossed,   \* history: timestamps of packets given one slot at the same time
    late       \* history: timestamps whose slot was given an older one's answer

hist == <<asked, twice, crossed, late>>
vars == <<now, slots, server, scan, queue, requests, heard, sent, hist>>

Slots == 1..NB_LBT_QUEUE
Packet == [count : Nat, freq : Freqs \cup {NoFreq}]
NoPacket == [count |-> 0, freq |-> NoFreq]
Slot == [count : Nat, freq : Freqs \cup {NoFreq}, free : BOOLEAN]

ServerPlaces == {"idle", "search", "freq", "count", "flag", "queue"}
Writing == {"freq", "count", "flag"}
ScanPlaces == {"pass", "test", "ask", "answer", "clear"}

Idle == [at |-> "idle", pkt |-> NoPacket, time |-> 0, slot |-> 1]
Waiting == [at |-> "pass", slot |-> 1, hal |-> 0, pkt |-> NoPacket]

(* Difference of two readings of a 32-bit counter. *)
Sub(a, b) == IF a >= b THEN a - b ELSE a - b + Wrap

-----------------------------------------------------------------------------
(* A server's thread has a downlink to queue and reads the counter.  The   *)
(* timestamp is the network server's: two servers may ask for the same,    *)
(* and one may ask again.                                                  *)
Request(s, lead, f) ==
    /\ server[s].at = "idle"
    /\ requests < MaxRequests
    /\ requests' = requests + 1
    /\ asked' = asked \cup {now + lead}
    /\ twice' = twice \cup ({now + lead} \cap asked)
    /\ server' = [server EXCEPT ![s] = [at |-> "search", time |-> now, slot |-> 1,
                                        pkt |-> [count |-> now + lead, freq |-> f]]]
    /\ UNCHANGED <<now, slots, scan, queue, heard, sent, crossed, late>>

(* lbt_enqueue: the first slot whose time has passed, if there is one.     *)
(* Nothing keeps two threads from choosing the same.                       *)
AnySlot(i, t) == TRUE                       \* mutant: no test
IsFreeSlot(i, t) == slots[i].count < t

ToPlace(s, place) == server' = [server EXCEPT ![s].at = place]

Rivals(s) == {r \in Servers \ {s} : server[r].at \in Writing
                                    /\ server[r].slot = server[s].slot}
Crossing(s) == IF Rivals(s) = {} THEN {}
               ELSE {server[r].pkt.count : r \in Rivals(s) \cup {s}}

Search(s) ==
    /\ server[s].at = "search"
    /\ \/ /\ IsFreeSlot(server[s].slot, server[s].time)
          /\ ToPlace(s, "freq")
          /\ crossed' = crossed \cup Crossing(s)
       \/ /\ ~IsFreeSlot(server[s].slot, server[s].time)
          /\ server[s].slot < NB_LBT_QUEUE
          /\ server' = [server EXCEPT ![s].slot = @ + 1]
          /\ UNCHANGED crossed
       \/ /\ ~IsFreeSlot(server[s].slot, server[s].time)
          /\ server[s].slot = NB_LBT_QUEUE
          /\ ToPlace(s, "queue")
          /\ UNCHANGED crossed
    /\ UNCHANGED <<now, slots, scan, queue, requests, heard, sent, asked, twice, late>>

WriteFreq(s) ==
    /\ server[s].at = "freq"
    /\ slots' = [slots EXCEPT ![server[s].slot].freq = server[s].pkt.freq]
    /\ ToPlace(s, "count")
    /\ UNCHANGED <<now, scan, queue, requests, heard, sent, hist>>

WriteCount(s) ==
    /\ server[s].at = "count"
    /\ slots' = [slots EXCEPT ![server[s].slot].count = server[s].pkt.count]
    /\ ToPlace(s, "flag")
    /\ UNCHANGED <<now, scan, queue, requests, heard, sent, hist>>

WriteFlag(s) ==
    /\ server[s].at = "flag"
    /\ slots' = [slots EXCEPT ![server[s].slot].free = FALSE]
    /\ ToPlace(s, "queue")
    /\ UNCHANGED <<now, scan, queue, requests, heard, sent, hist>>

(* jit_enqueue follows whatever lbt_enqueue has answered; it may refuse.   *)
Enqueue(s) ==
    /\ server[s].at = "queue"
    /\ \/ server[s].pkt.count > now /\ queue' = queue \cup {server[s].pkt}
       \/ UNCHANGED queue
    /\ server' = [server EXCEPT ![s] = Idle]
    /\ UNCHANGED <<now, slots, scan, requests, heard, sent, hist>>

-----------------------------------------------------------------------------
(* thread_lbt_scan.                                                        *)

(* A pass starts with the counter as thread_jit last read it.              *)
StartPass(hal) ==
    /\ scan.at = "pass"
    /\ scan' = [at |-> "test", slot |-> 1, hal |-> hal, pkt |-> NoPacket]
    /\ UNCHANGED <<now, slots, server, queue, requests, heard, sent, hist>>

(* The pass goes on with the next slot, or waits and starts again.         *)
After(i) == IF i < NB_LBT_QUEUE
            THEN [scan EXCEPT !.at = "test", !.slot = i + 1, !.pkt = NoPacket]
            ELSE Waiting

NoNearEdge(d) == d < WinHigh                \* mutant: past the near edge too
InWindow(d) == d > WinLow /\ d < WinHigh

(* The distance of the slot's packet is computed once and decides both     *)
(* whether to scan and whether to clear.                                   *)
Test ==
    /\ scan.at = "test"
    /\ LET c == slots[scan.slot].count
           d == Sub(c, scan.hal)
       IN  \/ /\ InWindow(d)
              /\ scan' = [scan EXCEPT !.at = "ask", !.pkt = [NoPacket EXCEPT !.count = c]]
           \/ /\ ~InWindow(d) /\ d > Keep
              /\ scan' = [scan EXCEPT !.at = "clear"]
           \/ /\ ~InWindow(d) /\ d <= Keep
              /\ scan' = After(scan.slot)
    /\ UNCHANGED <<now, slots, server, queue, requests, heard, sent, hist>>

Ask ==
    /\ scan.at = "ask"
    /\ scan' = [scan EXCEPT !.at = "answer", !.pkt.freq = slots[scan.slot].freq]
    /\ UNCHANGED <<now, slots, server, queue, requests, heard, sent, hist>>

(* The modem answers, or the read of its answer fails (not free): at once  *)
(* or up to a second later, when the slot may be another packet's.         *)
Answer(free) ==
    /\ scan.at = "answer"
    /\ slots' = [slots EXCEPT ![scan.slot].free = free]
    /\ heard' = IF free THEN heard \cup {scan.pkt} ELSE heard \ {scan.pkt}
    /\ late' = IF slots[scan.slot].count = scan.pkt.count THEN late
               ELSE late \cup {slots[scan.slot].count}
    /\ scan' = After(scan.slot)
    /\ UNCHANGED <<now, server, queue, requests, sent, asked, twice, crossed>>

Clear ==
    /\ scan.at = "clear"
    /\ slots' = [slots EXCEPT ![scan.slot].count = 0]
    /\ scan' = After(scan.slot)
    /\ UNCHANGED <<now, server, queue, requests, heard, sent, hist>>

-----------------------------------------------------------------------------
(* thread_jit: the first slot with the packet's timestamp tells whether    *)
(* its channel is free; without one it is not.                             *)
Matching(p) == {i \in Slots : slots[i].count = p.count}

ChanIsFree(p) ==
    \E i \in Matching(p) :
        /\ \A j \in Matching(p) : i <= j
        /\ slots[i].free

Take(p) ==
    /\ p.count - now <= TX_JIT_DELAY
    /\ queue' = queue \ {p}
    /\ sent' = IF ChanIsFree(p) THEN sent \cup {p} ELSE sent
    /\ UNCHANGED <<now, slots, server, scan, requests, heard, hist>>

(* Whatever the threads are at, time goes on.  A packet not taken in time  *)
(* is purged (JitScheduler).                                               *)
Tick ==
    /\ now < MaxTime
    /\ now' = now + 1
    /\ queue' = {p \in queue : p.count > now + 1}
    /\ UNCHANGED <<slots, server, scan, requests, heard, sent, hist>>

-----------------------------------------------------------------------------
Init ==
    /\ now = 1
    /\ slots = [i \in Slots |-> [count |-> 0, freq |-> NoFreq, free |-> FALSE]]
    /\ server = [s \in Servers |-> Idle]
    /\ scan = Waiting
    /\ queue = {} /\ requests = 0 /\ heard = {} /\ sent = {}
    /\ asked = {} /\ twice = {} /\ crossed = {} /\ late = {}

Next ==
    \/ \E s \in Servers :
         \/ \E lead \in Leads, f \in Freqs : Request(s, lead, f)
         \/ Search(s) \/ WriteFreq(s) \/ WriteCount(s) \/ WriteFlag(s) \/ Enqueue(s)
    \/ \E hal \in {t \in 0..now : now - t <= HalLag} : StartPass(hal)
    \/ Test \/ Ask \/ Clear
    \/ \E free \in BOOLEAN : Answer(free)
    \/ \E p \in queue : Take(p)
    \/ Tick

Spec == Init /\ [][Next]_vars

-----------------------------------------------------------------------------
(* The variables have their types: lbt_enqueue never leaves its array.     *)
TypeOK ==
    /\ now \in Nat /\ requests \in Nat
    /\ slots \in [Slots -> Slot]
    /\ server \in [Servers -> [at : ServerPlaces, pkt : Packet, time : Nat, slot : Slots]]
    /\ scan \in [at : ScanPlaces, slot : Slots, hal : Nat, pkt : Packet]
    /\ queue \subseteq Packet /\ heard \subseteq Packet /\ sent \subseteq Packet
    /\ asked \subseteq Nat /\ twice \subseteq Nat /\ crossed \subseteq Nat
    /\ late \subseteq Nat

(* A packet is sent only on a channel that was listened to for this very   *)
(* packet and was free at the last answer, or in one of three cases: its   *)
(* timestamp was asked for twice, its slot was chosen by two servers at    *)
(* once, or its slot got the answer for the packet it belonged to before.  *)
(* No flag, frequency or timestamp left in a slot lets any other through   *)
(* (thread_jit's test of lbt_stat before lgw_send).                        *)
Excused == twice \cup crossed \cup late
SentWasFree == [][\A p \in sent' \ sent : p \in heard \/ p.count \in Excused]_vars

(* The near edge of the window is what keeps answers out of slots given    *)
(* away: an answer is late only once that much time has gone by since the  *)
(* reading the pass started with, or in a slot two servers chose at once.  *)
LateIsSlow ==
    [][late' # late => now - scan.hal > WinLow \/ scan.pkt.count \in crossed]_vars

=============================================================================
