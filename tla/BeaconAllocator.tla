-------------------------- MODULE BeaconAllocator --------------------------
(***************************************************************************)
(* How the beacons get into the just-in-time queue (semtech_pull_down in   *)
(* fwd/src/semtech_serv.c): after every return from recv a server's        *)
(* downstream thread counts how many beacons the queue is short of, and    *)
(* queues as many, each one period after the last it queued and one more   *)
(* period later for every refusal.                                         *)
(*                                                                         *)
(* Time is GPS time in ticks; the concentrator's counter is that time      *)
(* modulo Wrap.  The queue is taken here as the set of packets booked in   *)
(* it, which is all Reservations says of it; jit_enqueue is one step.      *)
(***************************************************************************)
EXTENDS JitQueue

CONSTANTS
    Servers,                  \* semtech servers: one downstream thread each
    JIT_NUM_BEACON_IN_QUEUE,  \* beacons to keep in the queue
    Byte,                     \* modulus of beacon_loop, a uint8_t
    Period,                   \* GW.beacon.beacon_period
    RefAge,                   \* ticks the GPS reference may be behind
    StartTime,                \* GPS time at start
    DownlinkLeads,            \* how far ahead other packets are queued
    MaxDownlinks,             \* bound: other packets in a behaviour
    MaxTime,                  \* bound: GPS time
    MaxOutage,                \* bound: ticks without a GPS reference
    MaxRetry                  \* bound: consecutive refusals

ASSUME AllocatorConstants ==
    /\ JIT_NUM_BEACON_IN_QUEUE \in Nat
    /\ Byte \in Nat
    /\ JIT_NUM_BEACON_IN_QUEUE < Byte
    /\ Period \in Nat \ {0}
    /\ RefAge \in Nat
    /\ StartTime \in Nat
    /\ RefAge < StartTime
    /\ DownlinkLeads \subseteq Nat
    /\ MaxDownlinks \in Nat
    /\ MaxTime \in Nat
    /\ MaxOutage \in Nat
    /\ MaxRetry \in Nat

VARIABLES
    now,        \* GPS time
    gps_valid,  \* GW.gps.gps_ref_valid and GW.hal.xtal_correct_ok
    behind,     \* ticks passed without a reference since the allocator last caught up
    queue,      \* the packets in the queue, beacons with the time they carry
    pull,       \* the servers' downstream threads
    downlinks,  \* other packets queued so far
    refused     \* history: the beacon times refused

vars == <<now, gps_valid, behind, queue, pull, downlinks, refused>>

Entry == [node : Node, slot : Nat]

Thread == [pc : {"recv", "fill"}, loop : 0 .. Byte - 1, retry : Nat, last : Nat]

TypeOK ==
    /\ now \in Nat
    /\ gps_valid \in BOOLEAN
    /\ behind \in 0 .. MaxOutage
    /\ queue \in SUBSET Entry
    /\ pull \in [Servers -> Thread]
    /\ downlinks \in 0 .. MaxDownlinks
    /\ refused \in SUBSET Nat

Init ==
    /\ now = StartTime
    /\ gps_valid = TRUE
    /\ behind = 0
    /\ queue = {}
    /\ pull = [s \in Servers |-> [pc |-> "recv", loop |-> 0, retry |-> 0, last |-> 0]]
    /\ downlinks = 0
    /\ refused = {}

Count(t) == t % Wrap

Beacons == {e \in queue : IsBeacon(e.node)}
-----------------------------------------------------------------------------
(* jit_enqueue, with the counter read just before *)
Fits(x) ==
    /\ Cardinality(queue) # JIT_QUEUE_MAX
    /\ ~IsTooLate(x, Count(now))
    /\ ~IsTooEarly(x, Count(now))
    /\ \A e \in queue : ~Overlaps(x, e.node)

(* A class A downlink for some time ahead *)
Downlink(lead) ==
    /\ downlinks < MaxDownlinks
    /\ downlinks' = downlinks + 1
    /\ LET x == NewNode(<<>>, Count(now), ClassA, Count(now + lead), 0)
       IN  queue' = IF Fits(x) THEN queue \cup {[node |-> x, slot |-> 0]} ELSE queue
    /\ UNCHANGED <<now, gps_valid, behind, pull, refused>>
-----------------------------------------------------------------------------
(* recv returned or timed out: count the missing beacons *)
MissingOneMore == (JIT_NUM_BEACON_IN_QUEUE + 1 - Cardinality(Beacons)) % Byte \* mutant
Missing == (JIT_NUM_BEACON_IN_QUEUE - Cardinality(Beacons)) % Byte

Recv(s) ==
    /\ pull[s].pc = "recv"
    /\ Missing # 0
    /\ pull' = [pull EXCEPT ![s].pc = "fill", ![s].loop = Missing, ![s].retry = 0]
    /\ UNCHANGED <<now, gps_valid, behind, queue, downlinks, refused>>

(* No valid GPS reference: back to recv *)
NoReference(s) ==
    /\ pull[s].pc = "fill"
    /\ ~gps_valid
    /\ pull' = [pull EXCEPT ![s].pc = "recv"]
    /\ UNCHANGED <<now, gps_valid, behind, queue, downlinks, refused>>

(* The time of the beacon to queue, from a reference read at time ref *)
AfterReference(ref) == ref - (ref % Period) + Period
NextSlot(s, ref) ==
    (IF pull[s].last = 0 THEN AfterReference(ref) ELSE pull[s].last + Period)
        + pull[s].retry * Period

BeaconAt(slot) == NewNode(<<>>, Count(now), Beacon, Count(slot), 0)

(* A thread once its beacon is queued, or refused *)
WithOneQueuedNoReset(p, slot) ==                      \* mutant: retry kept
    [p EXCEPT !.pc = IF p.loop = 1 THEN "recv" ELSE "fill", !.loop = @ - 1, !.last = slot]
WithOneQueued(p, slot) ==
    [pc |-> IF p.loop = 1 THEN "recv" ELSE "fill",
     loop |-> p.loop - 1, retry |-> 0, last |-> slot]
WithOneRefusedSame(p) == p                            \* mutant: same slot again
WithOneRefused(p) == [p EXCEPT !.retry = @ + 1]

Queued(s) ==
    /\ pull[s].pc = "fill"
    /\ gps_valid
    /\ \E age \in 0 .. RefAge :
         LET slot == NextSlot(s, now - age)
         IN  /\ Fits(BeaconAt(slot))
             /\ queue' = queue \cup {[node |-> BeaconAt(slot), slot |-> slot]}
             /\ pull' = [pull EXCEPT ![s] = WithOneQueued(pull[s], slot)]
    /\ UNCHANGED <<now, gps_valid, behind, downlinks, refused>>

Refused(s) ==
    /\ pull[s].pc = "fill"
    /\ gps_valid
    /\ pull[s].retry < MaxRetry
    /\ \E age \in 0 .. RefAge :
         /\ ~Fits(BeaconAt(NextSlot(s, now - age)))
         /\ refused' = refused \cup {NextSlot(s, now - age)}
    /\ pull' = [pull EXCEPT ![s] = WithOneRefused(pull[s])]
    /\ UNCHANGED <<now, gps_valid, behind, queue, downlinks>>
-----------------------------------------------------------------------------
(* thread_jit: drop what is outdated, program what is due *)
Outdated == {e \in queue : IsOutdated(e.node, Count(now))}
Due == {e \in queue : IsDue(e.node, Count(now))}

Drop ==
    /\ \E e \in Outdated : queue' = queue \ {e}
    /\ UNCHANGED <<now, gps_valid, behind, pull, downlinks, refused>>

Take ==
    /\ Outdated = {}
    /\ \E e \in Due : queue' = queue \ {e}
    /\ UNCHANGED <<now, gps_valid, behind, pull, downlinks, refused>>
-----------------------------------------------------------------------------
(* thread_valid *)
LoseReference ==
    /\ gps_valid
    /\ gps_valid' = FALSE
    /\ UNCHANGED <<now, behind, queue, pull, downlinks, refused>>

RegainReference ==
    /\ ~gps_valid
    /\ gps_valid' = TRUE
    /\ UNCHANGED <<now, behind, queue, pull, downlinks, refused>>

(* A tick is long: thread_jit polls every 10 ms and a server's recv returns
   every pull timeout, so neither has anything left to do in it.             *)
JitIdle == Outdated = {} /\ Due = {}
PullIdle == \A s \in Servers : pull[s].pc = "recv"
Settled == gps_valid /\ JitIdle /\ PullIdle /\ Missing = 0

Tick ==
    /\ now < MaxTime
    /\ JitIdle /\ PullIdle
    /\ \/ Settled /\ behind' = 0
       \/ ~gps_valid /\ behind < MaxOutage /\ behind' = behind + 1
    /\ now' = now + 1
    /\ UNCHANGED <<gps_valid, queue, pull, downlinks, refused>>

Fill(s) == Recv(s) \/ NoReference(s) \/ Queued(s) \/ Refused(s)

Next ==
    \/ \E lead \in DownlinkLeads : Downlink(lead)
    \/ \E s \in Servers : Fill(s)
    \/ Drop \/ Take
    \/ LoseReference \/ RegainReference
    \/ Tick

Spec == Init /\ [][Next]_vars

(* The threads keep running; the GPS reference need not come back. *)
FairSpec ==
    /\ Spec
    /\ \A s \in Servers : WF_vars(Fill(s))
    /\ WF_vars(Drop \/ Take)
-----------------------------------------------------------------------------
(* No more beacons are in the queue than the allocator means to keep in it:
   its threads never queue the same missing beacon twice.                   *)
QuotaKept == Cardinality(Beacons) <= JIT_NUM_BEACON_IN_QUEUE

(* The same of those a lone thread is still about to queue: the strengthening
   that makes the quota inductive.                                          *)
Reserved(s) == IF pull[s].pc = "fill" THEN pull[s].loop ELSE 0
LoneAllocatorInv ==
    \A s \in Servers : Cardinality(Beacons) + Reserved(s) <= JIT_NUM_BEACON_IN_QUEUE

(* A beacon is programmed for the very time it carries, whatever outages the
   server has had to catch up with and however the counter has wrapped: that
   time is the next one at which the counter has the packet's value.        *)
SentOnItsSlot ==
    [][\A e \in Beacons :
         (Take /\ queue' = queue \ {e}) => e.slot - now \in 0 .. TX_JIT_DELAY - 1]_vars

(* Once settled, the server is not behind: of all the beacon times not yet
   programmed, up to the last one it queued, none is missing, unless it was
   refused.                                                                 *)
NoneMissing ==
    Settled =>
      \A s \in Servers :
        /\ pull[s].last > now
        /\ \A t \in now + TX_JIT_DELAY .. pull[s].last :
             t % Period = 0 => t \in refused \/ \E e \in Beacons : e.slot = t

(* After every outage the allocator catches up. *)
CatchesUp == gps_valid ~> (Settled \/ ~gps_valid)
-----------------------------------------------------------------------------
(* The queue has room for a beacon. *)
HasRoom == Cardinality(queue) < JIT_QUEUE_MAX

(* What the theorems about slots take of the constants (BeaconAllocatorProofs),
   for downlinks at most lead ahead.  The GPS reference is of the present tick,
   or the slot of a server's first beacon might move between two tries.  The
   reserved time of two beacons never collides, and beyond Blocked no downlink
   is in a beacon's way.  The beacons to keep are within the horizon of
   jit_peek, and an outage ends before a slot missed in it looks like one
   within the horizon again.                                                *)
Blocked(lead) == lead + PreDelay(Beacon) + TX_MARGIN_DELAY
Reach == PreDelay(Beacon) + BEACON_RESERVED + TX_MARGIN_DELAY

Spaced(lead) ==
    /\ lead \in Nat
    /\ DownlinkLeads \subseteq 0 .. lead
    /\ JIT_NUM_BEACON_IN_QUEUE > 0
    /\ TX_JIT_DELAY > 0
    /\ RefAge = 0
    /\ Reach < Period
    /\ Blocked(lead) + JIT_NUM_BEACON_IN_QUEUE * Period < TX_MAX_ADVANCE_DELAY
    /\ TX_MAX_ADVANCE_DELAY + MaxOutage + Reach < Wrap
=============================================================================
