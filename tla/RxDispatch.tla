----------------------------- MODULE RxDispatch -----------------------------
(***************************************************************************)
(* How received packets reach the services (fwd/src/fwd.c).  thread_up     *)
(* puts every batch of packets the radio hands over into the list          *)
(* GW.rxpkts_list and posts the semaphore of every service; a service's    *)
(* upstream thread waits for its semaphore and copies the first batch that *)
(* does not carry its stamp (get_rxpkt); thread_rxpkt_recycle frees the    *)
(* batches that every service has read or that have grown old, judging age *)
(* by the counter value thread_jit last read.                              *)
(*                                                                         *)
(* Batches are numbered in the order they are inserted, always at the head *)
(* of the list: the list is its set of numbers, the greatest one first.    *)
(***************************************************************************)
EXTENDS Integers, FiniteSetsExt

CONSTANTS
    N,            \* number of services in GW.serv_list
    Readers,      \* the services whose upstream thread runs
    Wrap,         \* modulus of the concentrator counter
    LIST_SIZE,    \* DEFAULT_RXPKTS_LIST_SIZE: recycling starts above it
    MAX_AGE,      \* 3000000 us
    MaxBatches,   \* bound: batches in a behaviour
    MaxTokens,    \* bound: posts that the recycle and report threads pile up
    FetchLag,     \* bound: ticks from a packet's reception to its insertion
    HalLag,       \* bound: ticks between two readings of the counter by thread_jit
    RoundLag      \* bound: ticks between two rounds of the recycle thread

Services == 1 .. N
Batches == 1 .. MaxBatches
Time == 0 .. Wrap - 1

ASSUME DispatchConstants ==
    /\ N \in 0 .. 8         \* the stamps are the bits of a uint8_t
    /\ Readers \subseteq Services
    /\ Wrap \in Nat \ {0}
    /\ LIST_SIZE \in Nat
    /\ MAX_AGE \in Nat
    /\ MaxBatches \in Nat
    /\ MaxTokens \in Nat
    /\ FetchLag \in Nat
    /\ HalLag \in Nat \ {0}
    /\ RoundLag \in Nat \ {0}

VARIABLES
    now,       \* the concentrator counter
    hal_time,  \* cur_hal_time
    list,      \* GW.rxpkts_list
    rx,        \* the entries: entry_us, stamps, bind
    batches,   \* number of batches inserted so far
    up,        \* thread_up: 0, or the service whose semaphore it posts next
    recycle,   \* thread_rxpkt_recycle, likewise; N + 1 is the locked traversal
    idle,      \* ticks since the recycle thread ended its last round
    sema,      \* the readers' semaphores
    awake,     \* the readers that have returned from sem_wait
    got        \* history: the batches each service has copied

vars == <<now, hal_time, list, rx, batches, up, recycle, idle, sema, awake, got>>

TypeOK ==
    /\ now \in Time
    /\ hal_time \in Time
    /\ list \in SUBSET Batches
    /\ rx \in [Batches -> [us : Time, stamps : SUBSET Services, bind : Int]]
    /\ batches \in 0 .. MaxBatches
    /\ up \in 0 .. N
    /\ recycle \in 0 .. N + 1
    /\ idle \in 0 .. RoundLag
    /\ sema \in [Readers -> Nat]
    /\ awake \in SUBSET Readers
    /\ got \in [Services -> SUBSET Batches]

NoEntry == [us |-> 0, stamps |-> {}, bind |-> 0]

Init ==
    /\ now = 0
    /\ hal_time = 0
    /\ list = {}
    /\ rx = [b \in Batches |-> NoEntry]
    /\ batches = 0
    /\ up = 0
    /\ recycle = 0
    /\ idle = 0
    /\ sema = [s \in Readers |-> 0]
    /\ awake = {}
    /\ got = [s \in Services |-> {}]

Sub(a, b) == (a - b) % Wrap

(* The batches in the list that service s has not read *)
Unread(s) == {b \in list : s \notin rx[b].stamps}
-----------------------------------------------------------------------------
(* thread_up *)

(* lgw_receive has returned packets, the first of them received at entry_us:
   insert them at the head under the lock.                                  *)
Insert ==
    /\ up = 0
    /\ batches < MaxBatches
    /\ batches' = batches + 1
    /\ list' = list \cup {batches + 1}
    /\ \E d \in 0 .. FetchLag :
         rx' = [rx EXCEPT ![batches + 1] =
                  [us |-> Sub(now, d), stamps |-> {}, bind |-> N]]
    /\ up' = IF N = 0 THEN 0 ELSE 1
    /\ UNCHANGED <<now, hal_time, recycle, idle, sema, awake, got>>

(* sem_post of the n-th service; nobody waits for one without a thread *)
PostAsFlag(n) == [s \in Readers |-> IF s = n THEN 1 ELSE sema[s]]  \* mutant: no counting
Posted(n) == [s \in Readers |-> IF s = n THEN sema[s] + 1 ELSE sema[s]]

PostUp ==
    /\ up # 0
    /\ sema' = Posted(up)
    /\ up' = IF up = N THEN 0 ELSE up + 1
    /\ UNCHANGED <<now, hal_time, list, rx, batches, recycle, idle, awake, got>>
-----------------------------------------------------------------------------
(* A service's upstream thread *)

HasToken(s) == sema[s] > 0

(* sem_wait returns *)
Wake(s) ==
    /\ s \notin awake
    /\ HasToken(s)
    /\ sema' = [sema EXCEPT ![s] = @ - 1]
    /\ awake' = awake \cup {s}
    /\ UNCHANGED <<now, hal_time, list, rx, batches, up, recycle, idle, got>>

(* The bound on the posts of the report and recycle threads *)
TokensWithinBound == \A s \in Readers : sema[s] < MaxTokens

(* semtech_report posts the service's own semaphore when a report is ready *)
Report(s) ==
    /\ TokensWithinBound
    /\ sema' = Posted(s)
    /\ UNCHANGED <<now, hal_time, list, rx, batches, up, recycle, idle, awake, got>>

(* An entry once service s has copied it *)
BindOnly(e, s) == [e EXCEPT !.bind = @ - 1]            \* mutant: no stamp
StampedOnly(e, s) == [e EXCEPT !.stamps = @ \cup {s}]  \* mutant: bind kept
Stamped(e, s) == [e EXCEPT !.stamps = @ \cup {s}, !.bind = @ - 1]

IsFirst(b, S) == b \in S /\ \A c \in S : c <= b

(* The batch get_rxpkt copies *)
HeadOnly(s) == {b \in Unread(s) : IsFirst(b, list)}    \* mutant: the head or nothing
FirstUnread(s) == {b \in Unread(s) : IsFirst(b, Unread(s))}

GetRxpkt(s) ==
    /\ s \in awake
    /\ \E b \in FirstUnread(s) :
         /\ rx' = [rx EXCEPT ![b] = Stamped(rx[b], s)]
         /\ got' = [got EXCEPT ![s] = @ \cup {b}]
    /\ awake' = awake \ {s}
    /\ UNCHANGED <<now, hal_time, list, batches, up, recycle, idle, sema>>

GetNothing(s) ==
    /\ s \in awake
    /\ FirstUnread(s) = {}
    /\ awake' = awake \ {s}
    /\ UNCHANGED <<now, hal_time, list, rx, batches, up, recycle, idle, sema, got>>
-----------------------------------------------------------------------------
(* thread_rxpkt_recycle, after each wait_ms *)

(* More than one entry: have every service look at the list again *)
StartRound ==
    /\ recycle = 0
    /\ TokensWithinBound
    /\ recycle' = IF Cardinality(list) > 1 /\ N > 0 THEN 1 ELSE N + 1
    /\ UNCHANGED <<now, hal_time, list, rx, batches, up, idle, sema, awake, got>>

PostRecycle ==
    /\ recycle \in Services
    /\ sema' = Posted(recycle)
    /\ recycle' = recycle + 1
    /\ UNCHANGED <<now, hal_time, list, rx, batches, up, idle, awake, got>>

IsReadByAll(b) == rx[b].bind < 1                       \* mutant: age ignored
IsRecyclable(b) ==
    \/ Sub(hal_time, rx[b].us) > MAX_AGE
    \/ rx[b].bind < 1

(* Above LIST_SIZE entries, free those that can be: their data is gone *)
Recyclable == {b \in list : Cardinality(list) > LIST_SIZE /\ IsRecyclable(b)}

Recycle ==
    /\ recycle = N + 1
    /\ list' = list \ Recyclable
    /\ rx' = [b \in Batches |-> IF b \in Recyclable THEN NoEntry ELSE rx[b]]
    /\ recycle' = 0
    /\ idle' = 0
    /\ UNCHANGED <<now, hal_time, batches, up, sema, awake, got>>
-----------------------------------------------------------------------------
(* thread_jit reads the counter, every 10 ms *)
ReadHalTime ==
    /\ hal_time # now
    /\ hal_time' = now
    /\ UNCHANGED <<now, list, rx, batches, up, recycle, idle, sema, awake, got>>

Tick ==
    /\ Sub(now, hal_time) < HalLag
    /\ idle < RoundLag
    /\ now' = (now + 1) % Wrap
    /\ idle' = idle + 1
    /\ UNCHANGED <<hal_time, list, rx, batches, up, recycle, sema, awake, got>>

Reader(s) == Wake(s) \/ GetRxpkt(s) \/ GetNothing(s)
RecycleThread == StartRound \/ PostRecycle \/ Recycle

Next ==
    \/ Insert \/ PostUp
    \/ \E s \in Readers : Reader(s) \/ Report(s)
    \/ RecycleThread
    \/ ReadHalTime \/ Tick

Spec == Init /\ [][Next]_vars

(* Every thread is scheduled and the counter runs; the radio need not
   receive anything.  Fairness of the recycle thread is strong because the
   bound on tokens may stop its round again and again; the code does not.   *)
FairSpec ==
    /\ Spec
    /\ WF_vars(PostUp)
    /\ \A s \in Readers : WF_vars(Reader(s))
    /\ SF_vars(RecycleThread)
    /\ WF_vars(ReadHalTime)
    /\ WF_vars(Tick)
-----------------------------------------------------------------------------
(* bind, which decides when a batch may be freed, is the number of services
   that have not read it.                                                   *)
BindCountsUnread ==
    \A b \in list : rx[b].bind = Cardinality(Services \ rx[b].stamps)

(* No wakeup is lost: every batch a service has not read is matched by a
   token of its semaphore, by its having just returned from sem_wait, or by
   the post that thread_up is about to make - although tokens are also spent on
   batches that came with another token, and added by the recycle and report
   threads on their own account.                                            *)
Pending(s) ==
    sema[s] + (IF s \in awake THEN 1 ELSE 0) + (IF up \in 1 .. s THEN 1 ELSE 0)

NoLostWakeup == \A s \in Readers : Cardinality(Unread(s)) <= Pending(s)

(* A service is handed each batch at most once, and only batches that were
   not recycled: the list implements the abstract fan-out.                  *)
Waiting(s) == Unread(s)
Abstract == INSTANCE Fanout WITH
                published <- 1 .. batches,
                waiting <- [s \in Services |-> Waiting(s)]
ImplementsFanout == Abstract!Spec

(* Every batch is in the end read by a running service or recycled. *)
ReadOrRecycled ==
    \A s \in Readers : \A b \in Batches : (b \in Unread(s)) ~> (b \notin Unread(s))

(* Once nothing more is received the backlog shrinks below the threshold for
   good, even if some service never reads.                                  *)
BacklogShrinks ==
    (batches = MaxBatches) ~> [](Cardinality(list) <= LIST_SIZE)
=============================================================================
