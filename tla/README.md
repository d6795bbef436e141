# A verification project for the Dragino packet forwarder

TLA+ models of the packet forwarder in `src/src/fwd` (`dragino_gw_fwd`), the
TLC runs that check them on small instances and TLAPS proofs of what holds for
every value of their constants. The rest of the repository is Semtech's
(the two concentrator libraries, Basic Station), third-party libraries, board
configurations and tools; of these only the GPS reference of
`src/src/sx1302hal/src/loragw_gps.c`, which the forwarder's threads drive, is
modelled.

Paths below are relative to `src/src/fwd/` unless they start with `src/`.

## 1. The system

The forwarder connects one LoRa concentrator with several *services* (servers):
Semtech UDP network servers, MQTT brokers, a traffic server, and a local packet
decoder. It is one process with a dozen threads that share the structure `GW`
(`inc/gwcfg.h`).

| Component | State | Operations | Interacts with |
|---|---|---|---|
| **Just-in-time queue** `src/jitqueue.c` | `nodes[32]`, `num_pkt`, `num_beacon`, kept sorted by counter value; lock `mx_jit_queue` | `jit_enqueue` (three criteria, ASAP search), `jit_dequeue`, `jit_peek` (with purge), full and empty tests | downstream threads, packet service, `thread_jit` |
| **Transmission thread** `thread_jit`, `src/fwd.c` 896-1013 | last counter value `cur_hal_time`, packet in hand | poll every 10 ms, peek, dequeue, `lgw_status`, `lgw_send` | queue, radio, LBT; publishes `cur_hal_time` to others |
| **Beacon allocation** in `semtech_pull_down`, `src/semtech_serv.c` 849-956 | `last_beacon_gps_time`, `beacon_loop`, `retry`, per server | count missing beacons, choose the next slot, enqueue, retry | GPS reference, queue |
| **Uplink dispatch** `thread_up`, `get_rxpkt`, `thread_rxpkt_recycle`, `src/fwd.c` 417-440, 780-892 | `GW.rxpkts_list`: batches with `entry_us`, `stamps`, `bind`; a semaphore per service | insert and post; copy the first unread batch; free what all have read or what is old | radio, services, report thread |
| **Semtech service, upstream** `semtech_push_up` | tokens, counters of the report | PUSH_DATA, wait for PUSH_ACK | list, UDP |
| **Semtech service, downstream** `semtech_pull_down` | socket, `pull_send`, `pull_ack`, `autoquit_cnt` | PULL_DATA, PULL_ACK, PULL_RESP, TX_ACK, reconnect, auto-quit | queue, UDP |
| **Packet service and custom downlink** `src/pkt_serv.c` | `dn_list` of pending downlinks | decode uplinks; read downlink files; answer a device's uplink with its pending downlink | list, database, queue |
| **MQTT service** `src/mqtt_serv.c`, **traffic service** `src/gwtraf_serv.c` | session, connection state | publish, reconnect | list |
| **Services' life cycle** `src/service.c`, **start, shutdown, watchdog** in `src/fwd.c` | threads, `exit_sig`, `stop_sig`, `last_loop` | start, stop, cancel, join, free | everything |
| **Statistics** `src/stats.c` | counters under `mx_report`, `report_ready` | build a report, post the service's semaphore | services |
| **GPS** `thread_gps`, `gps_process_sync`, `lgw_gps_sync`, `thread_valid` | time reference and its validity, crystal correction | synchronise, validate | beacons, class B, time stamps |
| **Database** `src/db.c` | an open transaction, `dosync`, `doexit`; lock `mx_dblock` | put, delete, commit once a second, exit | packet service, every thread that stores a state, other processes |
| **Timer synchronisation** `src/timersync.c` | offset of the unix clock and the counter | set every minute, convert | ghost stream, sx1302 library |
| **Listen before talk** `lbt_enqueue`, `thread_lbt_scan`, `src/uart.c` | `lbt_stat[]`, no lock | register, scan, test before sending | downstream threads, `thread_jit` |
| **Ghost stream** `src/ghost.c`, **spectral scan**, **configuration**, **utilities**, **MAC decoding**, **crypto and parsers** | circular buffer; configuration read once | see `PROJECT.json` | |

What is hard here:

- the downlink queue is used by several threads whose lock does not cover what a
  caller decides from it (the full test, the index a peek returns, the number of
  beacons missing);
- time is a 32-bit microsecond counter that wraps every 71 minutes, compared by
  unsigned differences;
- a semaphore that counts batches is posted by three threads and spent on
  whichever batch comes first;
- the packet service's two threads share static buffers, and pointers into a
  list, without a lock;
- `lbt_stat` is written field by field by one thread, cleared by another and read
  by a third, with no lock at all;
- the two threads of a semtech service share sockets that one of them closes and
  reopens;
- the GPS reference is a pair (counter, time) taken from a latch and from
  messages that come later, may be lost, or belong to another pulse;
- puts are acknowledged before they are committed.

Section 3 lists the properties that make each component correct;
`PROJECT.json` lists every hazard with its line.

## 2. The modules

    Reservations (abstract)     Fanout (abstract)       Mailbox (abstract)
         ^ implements                ^ implements            ^ implements
    JitQueue -> JitScheduler    RxDispatch              CustomDownlink
        \-> BeaconAllocator
    SemtechLink      GpsReference      LbtScan      Database

Each of the eight components in the lower rows has a module `MC...` for TLC and a
module `...Proofs` that EXTENDS it.

| Module | What it models |
|---|---|
| `JitQueue` | `jitqueue.c` without its state: counter arithmetic, the collision test, the criteria of `jit_enqueue`, the ASAP search, the tests of `jit_peek`. Pure operators. |
| `JitScheduler` | One RF chain: server threads, `thread_jit`, the radio, the counter. |
| `Reservations` | What the queue promises: a book of air-time reservations. |
| `BeaconAllocator` | The allocation loop of a server's downstream thread, over the queue taken as the set of its packets. |
| `RxDispatch` | The uplink list with its producer, readers and recycler. |
| `Fanout` | What the list promises each service. |
| `CustomDownlink` | The packet service: the decoder and the thread that reads downlink files, over `dn_list`, the shared buffers and the frame counters. |
| `Mailbox` | What the packet service promises: one message waits per address, each is sent at most once, a replaced one only if it was out already. |
| `SemtechLink` | One semtech service: `semtech_push_up`, `semtech_pull_down`, the reports and the stop, over a network that loses, repeats and delays. |
| `GpsReference` | `thread_gps` with `lgw_gps_sync`, and `thread_valid`, against a receiver with faults. |
| `LbtScan` | `lbt_enqueue`, `thread_lbt_scan` and the test of `thread_jit` over `lbt_stat`. |
| `Database` | `db.c`: the open transaction, the sync thread, exit, crash and start. |
| `MC*` | Instances for TLC: request mixes, reader sets, files, descriptors. |
| `*Proofs` | Theorems and their proofs. |

How they compose: `JitScheduler` and `BeaconAllocator` are both built on the
operators of `JitQueue`. `BeaconAllocator` takes from `GpsReference` only whether a
reference is valid and how old it may be (`RefAge`), which is what `ValidIsFresh`
bounds. `SemtechLink` receives batches as `RxDispatch` hands them on (`Receive`,
`Recycle`). `CustomDownlink` and `LbtScan` hand a packet to `jit_enqueue` and go on
from either answer; `LbtScan`'s queue is the set of packets accepted.

Operators with a comment `mutant:` are not part of a model. Each is the
operator it precedes, changed the way a slip in the code would change it; they
show that the property a run checks does depend on that line (substituting one
for the original makes the run fail).

### JitScheduler

| Variable | Code |
|---|---|
| `now` | the concentrator's counter, modulo `Wrap` (2^32 us) |
| `queue`, `num_beacon` | `jit_queue.nodes[0 .. num_pkt-1]`, `num_beacon` |
| `down` | a server thread between its reading of the counter and the end of `jit_enqueue` |
| `jit` | `thread_jit`: its reading of the counter, the index peeked, the packet dequeued; `skipped` is the position of the peek loop |
| `radio` | what `lgw_status` answers: free, scheduled, emitting |

The reading of the counter (`ReadTime`), the unlocked full test (`RejectFull`,
`PassFull`) and the locked insertion (`Accept`, `Reject`) are separate steps,
and so are the peek (`Purge`, `PeekDue`, `PeekNothing`) and the dequeue: these
are the places where the lock is not held. The sort of `jit_enqueue` leaves a
packet after those before it and before those after it, in any order among
equals (`Places`), as `qsort` is not stable. `SendFails` stands for every reason
for which `thread_jit` does not program a packet when the radio is not emitting.
The RSSI branch before `lgw_send` ends the same way and is left out as such; the
listen-before-talk branch is in `LbtScan`.

Timing assumptions, all named: `JitLag`, one tick between two polls (10 ms
against a lead of 30 ms, `TX_JIT_DELAY` = 3 ticks); `MaxStall`, two ticks
between the reading of the counter and the insertion (20 ms for the wait for
the lock). Bounds: `MaxRequests`, and requests come within `Window` ticks of the
start of a counter cycle. `StartTime` lies just before the wrap, so the counter
wraps with packets in the queue; `Wrap` is at least twice the horizon, as
2^32 us is against 512 s. `Paced` and `Quiet`, at the end of the module, gather what
the timing theorems take of these constants (section 4); they are no part of
the model.

### BeaconAllocator

Time is GPS time in thirds of a beacon period (128 s in practice), the counter
is that time modulo `Wrap`. A packet carries a counter value only; a beacon
also carries the GPS time in its payload (`slot`), which is what
`SentOnItsSlot` compares with the next time the counter has the packet's value:
a beacon programmed at `now` must leave within `TX_JIT_DELAY` of `now`, at its slot. `Recv` is the return
of `recv` and the count of the missing beacons (a `uint8_t`); `Queued` and
`Refused` are one iteration of the loop; `NoReference` its `break`. `Downlink` puts
another packet in the way. Here `jit_enqueue` is one step, `Drop` and `Take` are
`thread_jit`. A tick is 43 s: `Tick` waits until `thread_jit` and the server
threads have nothing to do, as both poll at least every second.

Constants keep the proportions of the code: three beacons, a horizon
(`TX_MAX_ADVANCE_DELAY` = 512 s) of 12 ticks = four periods, a counter cycle
longer than twice the horizon. `MaxOutage` bounds the time without a GPS
reference (and `MaxRetry` the refusals to catch up after it, enough for that
outage). A longer outage does matter: see section 5. `RefAge`: the reference
the next slot is computed from may be that old; at a tick of 43 s it is of the
present tick (`ValidIsFresh` bounds its age by 30 s), hence 0 in the run.

### RxDispatch

A batch is a number; since insertions are at the head, the list is its set of
numbers and its order is theirs. `rx` holds `entry_us`, `stamps` (a set of services
for the bit mask, which has room for eight: hence `N \in 0 .. 8`) and `bind`. Every step of the two posting loops is an action,
so a service may run between the insertion and its own post, on a token meant
for another batch. `Report` is the post that `semtech_report` does. The recycle
thread's traversal is one action, made under the list's lock. A service outside
`Readers` has no thread (an MQTT service whose first connection failed): it is
posted and bound like any other. What is received, the filters and the copying
are data. Left out: a failed `malloc` in `thread_up` (the batch is dropped before
it is in the list), and time stamps from the ghost stream.

### CustomDownlink

`pc` says where `pkt_deal_up` ("up") and `pkt_prepare_downlink` ("dn") are. A step is
what a thread does between two points at which the other can change what it
uses: the shared static buffers `db_family` and `tmpstr`, the list under its lock
(`Search`, `Post`, `RemoveSent`), the database. Entries are numbered as they are
allocated and only appended, so `dn_list` is the set of its numbers, the smallest
at its head; `live` are those not freed. An address formatted in `tmpstr` is a
value tagged with what it was written as, so that a mode or a counter read where
an address is expected is what it is in the code (`Strtoul`, `Atol`). The loop
variable `i` of the decoder is the one its dump of a payload uses again, so a
short payload makes packets come again; `MaxPackets` bounds how many are handled.

`custom_rx2dn` reads its entry in two places, at its beginning (`StartFrame`) and
when `prepare_frame` copies the payload (`MakeFrame`, `pkt_serv.c` 143), and
`pkt_deal_up` unlinks and frees it (`RemoveSent`). An entry freed by then is used all
the same, which is undefined: `Misuse` sets `undefined` and the behaviour ends. From
`MakeFrame` to the answer of `jit_enqueue` (`Accepted`, `Refused`, 162) nothing of the
entry is used. It may be replaced and freed there, and its frame goes out, or is
refused, all the same. `frames` is a history.

`Mailbox` has that case: a message that was picked keeps its place while it is out,
from which it may be replaced; it is then delivered or not, that one time. What the
service implements is that nothing else happens to a replaced message. `out` is the
entry `pkt_deal_up` has in hand between `Search` and the answer.

Left out: the fields of a file (they only go through `tmpstr`), the bytes of a
frame, the decoding of a payload.

### SemtechLink

`up`, `down` and `main` say where the three threads are; `fds` is the process's table
of descriptors, and `init_sock` takes the lowest free one, fails for want of one,
or fails and leaves it open. The network is the free choice of what is received:
`RecvAck` or `RecvOther` after each push, `PullAck` or nothing while the downstream
thread listens. `AutoQuit`, `Top` (the ratio test and the closing), `OpenDown`,
`OpenUp`, `Request` are one iteration of `semtech_pull_down`; `Offline` is the
`continue` of an iteration without a socket. `mx_report` is held from `Send` to the end of
the receptions (`ReportFree`). A report is represented by the count of packets
forwarded it carries: copied and reset (`ReportCopy`), written (`ReportWrite`),
taken (`AddReport`). `StopAsk`, `StopPost`, `StopJoin` are `semtech_stop`; the cancelled
downstream thread makes no step after it, since the code does not say where the
cancellation reaches it.

Left out: the fields of packets, PULL_RESP and its TX_ACK (the entry into the
queue is `JitScheduler`'s), beacons (`BeaconAllocator`'s).

### GpsReference

Time is in seconds; UTC and GPS time of a second are the same number, as the leap
seconds between them are constant. The counter latched at the pulse of second `s`
is `s % W`. `Pulse` is one second of the receiver: the pulse may be missed, each of
NAV-TIMEGPS and RMC may be lost or come without a fix, and messages wait in
`inbox` until `Handle` takes them, possibly after the next pulse. `Handle` is the
parser, which stores its static fields, followed by `gps_process_sync` and
`lgw_gps_sync` with its two flags of aberrant measures. The slope test within
10 ppm is the equality of the two differences. `Check` is one round of
`thread_valid`, at least every `CheckLag` seconds. `good`, `strikes`, `lapse` are
histories. Left out: coordinates, the value of the crystal error, conversions.

### LbtScan

Every access to a slot another thread can come between is a step: `Search` reads
one slot, `WriteFreq`, `WriteCount`, `WriteFlag` are the three stores of
`lbt_enqueue`; `Test` computes the distance of one slot from the reading taken at
the start of the pass (`StartPass`, whose value may be `HalLag` old), `Ask`, `Answer`,
`Clear` follow from it. `Take` is `thread_jit` with `ChanIsFree`. Any number of server
threads queue, with the timestamps their network servers like, the same ones if
they like, and time goes on whatever a thread is doing: a pass over several slots
or an answer of the modem may take any time. Three histories name what then goes
wrong. `twice` are the timestamps asked for more than once; `crossed`, those of packets
given the same slot by two threads at once; `late`, those whose slot received an
answer meant for the packet it had before. `SentWasFree` says that these are the
only ways for a packet to leave on a channel not heard free for it, and
`LateIsSlow` when the last can happen.

Left out: the time around a wrap of the counter. The dialogue over the tty is
one answer, at any time: one that comes after the time-out of its question (1 s,
`fwd.c` 1395) is taken for lost, where the code could read it as the answer to the
next question if it came between the flush of the line and the next reading. The
search of `thread_jit` over the slots is one step.

### Database

`mem` is what this process reads (file and open transaction), `disk` what is
committed; a value is the number of the change that made it. `Change` is
`lgw_db_put`, `lgw_db_putpkt`, `lgw_db_del` or `lgw_db_deltree`, with the call of `db_sync`;
it may fail. `Test` .. `EndSleep` are the loop of `db_sync_thread`, whose wait gives the
lock away and may end without a signal (`Spurious`). A commit may fail, and is
then rolled back. `AskToExit`, `Join`, `Close` are `gwdb_atexit`. `Die` and `Start` are a
crash and `lgw_db_init`, which empties one of the tables.

## 3. The runs

| Run | Question | Result |
|---|---|---|
| `jit_downlinks` | two servers, downlinks of classes A, B, C, a wrap | packets never overlap (`NoOverlap`), stay sorted, are dequeued as peeked, programmed in time, find the radio free; the slot of the ASAP search is always accepted (`ClassCPlaced`) |
| `jit_lone` | one server, a queue of two, downlinks and beacons ahead, just past, long past | the unlocked full test suffices; `num_beacon` is right; the purge gives up only packets whose time has passed, and no class A or B downlink; the queue implements `Reservations` and empties once requests stop |
| `rx_fanout` | one service running, one without a thread, all posting threads | `bind` counts those who have not read; no service sleeps on a batch it has not read; the list implements `Fanout`; every batch is read or recycled; the backlog falls to the threshold for good |
| `beacon_lone` | one server, downlinks in the way, outages, a wrap | the quota is kept, no slot is skipped without a refusal, each beacon leaves at the time it carries, the allocator catches up |
| `custom_pending` | uplinks, one of which comes again, against three files, for two devices | no entry leaks and the list holds none that was freed, it is bounded and its size is its length, none is sent twice; the service implements `Mailbox` |
| `custom_device` | the same, shared buffers | **violated** (`SentToItsDevice`): the decoder searches the list for the address the other thread has just formatted, and sends one device's downlink to another |
| `database_sync` | puts, failed commits, exit, a crash and a start | no change is left that nobody will commit, the exit follows the last commit, readers only go forward, what is open is settled, the exit ends |
| `semtech_link` | pushes, reports, polls, renewals, auto-quit, stop | no answer is counted twice, the sockets in use are open and distinct, a forwarded packet is accounted exactly once, a report is taken, a stop ends |
| `semtech_polls` | a renewal that fails | **violated** (`PollsAgain`): without a socket no request is counted, so the test that would renew it never holds again, and the service neither polls nor quits |
| `gps_reference` | lost and late messages, missed pulses, no fix, a wrap | a valid reference is recent and was measured; two good seconds bring its GPS time back; only the third outlier in a row counts; the correction restarts after an outage |
| `gps_rmc` | a receiver that sends RMC first, without any fault | **violated** (`GpsRecovers`): the second of the two syncs of a pulse is always aberrant, so the reference is set by every third one, with the GPS time of the second before |
| `lbt_scan` | two servers, the scan thread, a modem of any speed and `thread_jit` over two slots | a packet leaves on a channel not heard free for it only in one of three cases (`SentWasFree`); an answer is late only past the near edge of the window, or on a slot chosen twice (`LateIsSlow`) |

The nine passing runs reach between three thousand (`database_sync`) and 3.5
million (`lbt_scan`) distinct states and fire every action. Each module has one type
invariant, `TypeOK`; it is proved in every case (section 4), as is `OnePerAddress`, and
so not repeated in the configurations: to check one while changing a model, add it to
the `INVARIANTS` of its component's configuration.

### Bounds, and why they are enough

- `jit_*`: two threads are enough for a race between two of them; three requests
  let two packets be queued around a third. The queue of four (32 in the code) is
  never full in `jit_downlinks`; `jit_lone` has a queue of two, which fills. In
  `jit_downlinks` the horizon is long enough for an immediate packet behind a
  full queue, one request asks for a tick beyond it, none for exactly the
  horizon, and the time on air is shorter than the smallest notice; see section
  5 for what happens otherwise. These are the hypotheses of the timing theorems:
  TLC checks that the instance meets them (`DownlinksArePaced`), so that theorem and
  run speak of the same system. `jit_lone` does not check `RadioIsFree` or
  `ProgrammedInTime`: with beacons they need not hold.
- `rx_fanout`: two batches and two tokens above them let tokens be spent on
  another's batch; the threshold is one batch (8 in the code), the age one tick
  (3 s), and the counter wraps. What two services running at once add is covered
  by the proofs, which hold for any number.
- `beacon_lone`: see `BeaconAllocator` above. The bounds on time, outages and
  refusals only end the run: what it checks is proved without them, but for
  `CatchesUp`. The instance meets the hypotheses of the theorems about slots
  (`SoonIsSpaced`).
- `custom_pending`: a limit of one pending downlink (16), so that the third file
  evicts; three files for two devices and two packets handled (`MaxPackets`), so that
  replacement, eviction, refusal and an answer meet. In one of the batches the
  loop ends; in the other a packet that is skipped precedes one with an empty
  payload, which comes again. An entry freed before its frame is queued is among
  the states reached. The frame counter wraps after two, as no property reads it.
- `database_sync`: a kept table and an emptied one, three changes (one before, one
  during and one after a commit), one crash.
- `semtech_link`: two descriptors, so that a renewal may find none left; ratio 1 and
  two requests make a renewal happen; auto-quit after two; two reports, so that
  one can be overwritten.
- `gps_reference`: seven seconds after the start, three of them disturbed; a counter
  that wraps after five; a maximum age of one second and an average over two.
  Three aberrant measures and the two good seconds fit.
- `lbt_scan`: two servers, two slots and two packets, each inside the next pass or
  later, for the same timestamp or not, and time enough for a slot to be given away
  under the modem's hands. Each of the three cases of `SentWasFree` occurs: leaving
  out any of them makes the run fail. Time ends before the counter wraps.

### Fairness

`Drains`: weak fairness of `thread_jit`, of each server thread inside `jit_enqueue`,
and of the counter. The threads are loops without a blocking call other than
the locks and bounded waits; the counter is hardware. New requests are not fair.

`ReadOrRecycled`, `BacklogShrinks`: weak fairness of the posting loop, of the
readers (their work on a batch is bounded), of the poll and the counter. The
radio need not receive. The recycle thread has strong fairness only because the
model's bound on tokens may disable its first step again and again; the code has
no such bound and weak fairness would do.

`CatchesUp`: weak fairness of each downstream thread and of `thread_jit`. The GPS
reference is not fair: it may stay away for ever, and the property allows for it.
`Tick` is not fair either; it is not needed.

`EventuallySettled`, `ExitEnds`: weak fairness of the sync thread (a wait that was
signalled returns, a sleep ends) and of the joining thread. Changes, the exit
and crashes are not fair, and changes may go on for ever.

`ReportTaken`, `StopEnds`, `PollsAgain`: weak fairness of the upstream thread, of the
downstream thread's own steps and of the main thread's, once begun: receptions
have a time-out. The server owes nothing: `PullAck` is not fair, and that a socket
can be opened is not assumed. `PollsAgain` fails all the same where the code
would never try.

## 4. What is proved

All theorems hold for every value of the constants that the modules' `ASSUME`
admits (any sizes, delays, any number of servers, up to eight services, any mix
of requests). Most need no more than that. Those about time take a named
hypothesis in their statement, explained below with what it means for the
code's own constants: `Paced` and `Quiet` for the queue, `Spaced` for beacon slots,
`UbxFirst` for the GPS time. Those whose proof needs
room in the queue say so as `[]QueueFits` or `[]HasRoom`.

`JitSchedulerProofs`:
- `TypeCorrect`, `QueueNeverOverlaps` (`NoOverlap`), `BeaconsAreCounted`
  (`BeaconCount`), and `LoneServerFits` (`QueueFits`, for one server).
- `ScheduleIsABook`: the scheduler implements `Reservations`.
- Under `Paced(T)` and `[]QueueFits`: `QueueStaysSorted` (`QueueSorted`), `DequeuesWhatItPeeked`
  (`PeekedIsDequeued`), `ProgramsInTime` (`ProgrammedInTime`), `ImmediateIsPlaced`
  (`ClassCPlaced`), `NothingIsPurged` (every packet accepted is handed to
  `thread_jit`).
- Under `Quiet(T)` besides: `RadioIsFreeAtSend` (`RadioIsFree`).
- `LoneServerOnTime`: for one server `QueueFits` is a theorem, so all of these hold under
  `Paced(T)` and `Quiet(T)` alone.

The inductive invariant is the type, `QueueInv` and `JitInv`. `NoOverlap` is not
inductive alone: `Accept` establishes it for the new packet because criterion 3
compares it with each queued one, *in the direction of the new packet's type*;
that the same distance holds in the other direction (`KeepApart` is symmetric)
is a lemma. Counting beacons by a set needs that two nodes are never equal,
which in turn is a consequence of their being apart. `JitInv` says that what
`thread_jit` holds is consistent with its control state: the index peeked is
within the queue, since only insertions happen until the dequeue. For one server
thread, nothing is inserted between its full test and its insertion.

The timing theorems rest on one invariant more (`TimeInv`, theorem `OnTime`), and on
`RadioInv` for the radio. Counter values have no order, so nothing about the queue
can be said of them directly: the invariant speaks of distances ahead of `now`,
and says that every queued packet lies within half a turn of the present.
On such packets the comparison of `qsort` is the order of the distances
(`LaterFrom`), which is why the queue stays sorted through the wrap. None of the
properties is inductive alone, as each depends on the others through the delays:
- The first packet is never nearer than `TX_START_DELAY` plus a poll's lag when
  `thread_jit` has read the counter: it entered with more than `TX_START_DELAY` +
  `TX_MARGIN_DELAY` + `TX_JIT_DELAY` to go, less `MaxStall` for the server's own delay,
  and time does not pass by more than `JitLag` between two polls. Each poll takes
  what is within `TX_JIT_DELAY`. So nothing becomes outdated, nothing is purged, and
  what is taken is programmed in time.
- An index peeked is the first node's. An insertion before it would have to fit
  between the present and a packet less than `TX_JIT_DELAY` ahead, which criteria 1
  and 3 refuse; the index is then still right after the lock was given away.
- The slot of the ASAP search is at most `JIT_QUEUE_MAX` gaps behind
  `ASAP_DELAY`, and so within the horizon, where criterion 2 and `jit_peek` accept it.
- What the radio has left of an emission ends before the first queued packet is
  due. Between packets queued together this is criterion 3; a packet already
  programmed is no longer in the queue to be compared with, and there the
  notice of the new packet must do (`Quiet`).

With the code's constants (`jitqueue.c` 35-44, `jitqueue.h` 30-31: 1.5 ms of start, 1 ms of
margin, 30 ms of JIT delay, 1 s of ASAP delay, 512 s of horizon, 32 packets, 2^32
us) `Paced(T)` holds for data packets of up to 7.9 s on air if two polls are
at most 14.25 ms apart (the loop waits 10 ms, `fwd.c` 910) and a server's delay from
the reading to the insertion is at most 31 ms less two polls, that is 11 ms for
polls of 10 ms (the runs, whose margin is one tick of 10 ms in place of 1 ms,
allow two ticks). It has no beacons among the requests, no packet without any time on air, and none announced for exactly
the horizon. `Quiet(T)` holds only for packets of up to about 0.93 s announced as
early as that: a longer emission can still be under way when a packet announced
late is due. That is a limit of the code and not of the proof (section 5).

`RxDispatchProofs`:
- `TypeCorrect`, `BindIsAccurate` (`BindCountsUnread`), `WakeupsSuffice`
  (`NoLostWakeup`).
- `ListIsAFanout`: the dispatcher implements `Fanout`.

`NoLostWakeup` becomes inductive with the facts that tokens are naturals, that
numbers beyond `batches` are neither in the list nor stamped, and that the number
of unread batches of a service is a cardinality of a finite set: an insertion
adds one to both sides, a copy takes one from both, a failed look
(`GetNothing`) happens only when there is none left.

`BeaconAllocatorProofs`:
- `TypeCorrect`, for any number of servers: in particular `beacon_loop`, a
  `uint8_t`, is never decremented below zero, as a thread in the loop still owes
  a beacon (`FillOwes`).
- `LoneQuota` (`QuotaKept`, for one server): the beacons queued and those the
  thread still owes (`LoneAllocatorInv`) never exceed three together. This is the
  invariant that a second server breaks.
- For one server, under `Spaced(lead)` and `[]HasRoom`: `NoSlotMissed` (`NoneMissing`) and
  `BeaconsKeepTheirTime` (`SentOnItsSlot`).

The last two share `SlotInv`. Its core is `Covered`: from the first slot `thread_jit` could
still program to `last_beacon_gps_time`, every multiple of the period is queued or was
refused. `Queued` keeps it because the next slot tried is always `last` plus a
period; `Refused`, because a slot refused is recorded before `retry` moves on; and
`Drop`, because a purge takes only beacons of the past, which is the hard part. A
queued beacon whose slot lies beyond the horizon would be purged as well. Slots
are skipped only past a downlink in the way, and no downlink is further than
`Blocked(lead)`; so all slots from there to `last` are in the queue, and, as the
quota bounds their number (a pigeonhole argument, `LastIsNear`), `last` is never
further than `Blocked(lead)` plus three periods. `Spaced` says that this is within
the horizon. A slot missed in an outage is in the past by at most `MaxOutage`, and does
not look like one to come as long as that is less than a counter cycle, less the
horizon.

For the code's constants (period 128 s, three beacons, guard 3 s, reserved 2.12 s)
`Spaced` asks for downlinks announced less than 124.9 s ahead, outages shorter than 62.9
minutes, and a reference of the tick in which it is used (`RefAge` = 0): the loop reads
the reference anew in each iteration (`semtech_serv.c` 863-876), so that the first slot
it tries, computed from the present time, could move by a period between two
tries. `HasRoom` is that the queue has a place for the beacon whenever one is
tried. A downlink announced further ahead is legal for the queue; two of them in the way
of consecutive slots push the last of the three beacons beyond the horizon,
where it is purged (section 5).

`CustomDownlinkProofs`:
- `TypeCorrect`, `NoEntryLost` (`NoLeakNoDangling`), `MailboxBounded` (`OnePerAddress`,
  `Bounded`), `NeverSentTwice` (`SentOnce`).
- `Implements`: the service implements `Mailbox`.

`HeapInv` joins the heap to the control state: an entry in the list was posted, the
list is what is live but for the entry in the hands of the thread that reads files. `SentOnce` needs `SentGone`, that an entry once sent is no longer
in the list unless the decoder is about to remove it; the refinement needs it
too, as such an entry waits no longer, and `Unsent`, that the entry `pkt_deal_up` has in
hand was not sent before, even if a file replaced it meanwhile.

`DatabaseProofs`: `TypeCorrect`, `SyncNotLost` (`NoLostSync`), `ExitSettles`
(`SettledAtExit`), `NothingTakenBack` (`ReadersGoForward`). `PlaceInv` says at which places the
lock is held and a transaction open; `SettledAtExit` follows with `Settled`, that
without a transaction nothing is left to commit. Readers go forward by `Ahead`: a
value is never larger than the number of changes, and `mem` is never behind
`disk`.

`SemtechLinkProofs`: `TypeCorrect`, `AnswersCountedOnce` (`AckLedger`), `SocketsUsable`
(`SocketsOpen`), `ReportsAddUp` (`CountedOnce`). The ledger needs `Asked`: the request that waits for its
answer is counted in `autoquit_cnt` and not yet in `pull_ack`. `SocketsOpen` needs
`HalfRenewed`, what holds between the two halves of a renewal while the upstream
thread goes on. `CountedOnce` needs `HandsEmpty`: no thread holds a report but at
the places where it handles one.

`GpsReferenceProofs`: `TypeCorrect`, `ValidReferenceIsFresh`, `CorrectionSettles`,
`ThirdOutlierOnly`, and `GpsTimeRecovers` **under the assumption `UbxFirst`** that
NAV-TIMEGPS precedes RMC in each second, without which `gps_rmc` refutes it. Its
invariant (`RecoverInv`) follows the two messages of each good second through the
inbox: both carry this second, so either the reference is right already, or
every measure is aberrant and the third in a row is reached in the second good
second. `ValidIsFresh` and `XtalSettled` follow from `SeenInv`, `OutliersIgnored` from
`FlagsInv`, which reads the number of aberrant measures off the two flags.

`LbtScanProofs`: `TypeCorrect`, `ListensBeforeItTalks` (`SentWasFree`) and `LateOnlyIfSlow`
(`LateIsSlow`), for any number of servers and without any assumption on time. The
invariant follows a timestamp from the request through the three stores to the
queue. A slot that is given away has a timestamp of the past (`Past`), a slot has
the frequency of the packet with its timestamp (`Given`, `Queued`), no two slots the
same timestamp to come (`Apart`), what was asked of the modem is what the slot said
(`Scanned`), and so a flag that says free belongs to the packet of its slot, or is
about to be reset (`Flags`): each unless one of the three cases has occurred for that
timestamp. `Near` gives `LateOnlyIfSlow`: a packet in the window is more than its near
edge ahead of the reading, and its slot not given away before its time.

Model-checked only: liveness (`Drains`, `ReadOrRecycled`, `BacklogShrinks`, `CatchesUp`,
`EventuallySettled`, `ExitEnds`, `ReportTaken`, `StopEnds`), which is out of the prover's reach,
and `PurgedWasMissed`. Without beacons the latter follows from `NothingIsPurged`; with
beacons, which `jit_enqueue` accepts in the past, it depends on how many past ones are
inserted, each of which may take the place of the packet that was peeked until
that packet is too late. The run bounds them by its requests.

## 5. What the models showed

The three disagreements with a comment or a document of the repository are the
runs marked *violated* above, quoted in `PROJECT.json`. The observations below
are of behaviours the models have, or that the constants of the runs exclude,
without a run of their own.

### Downlink queue and beacons

- With two server threads, both may pass the unlocked test for a full queue
  (`jitqueue.c` 145): the queue outgrows its array by one. `QueueFits` is checked and
  proved for one server.
- A class A or C downlink is accepted in the guard of a queued beacon
  (`jitqueue.c` 262-264); it may be still on the air when the beacon is to be
  programmed, and the beacon is lost.
- `thread_jit` uses the index a peek returned after the lock was released
  (`fwd.c` 924). A beacon whose time has passed sorts first when it is inserted in
  between, and is taken in place of the packet that was due.
- With two servers both count the same shortage of beacons (`semtech_serv.c` 850);
  the next count, a `uint8_t`, is then 255.
- A beacon refused makes the next one be placed a period further, possibly beyond
  the horizon: it is accepted, as criterion 2 is not applied to beacons, counted,
  and purged by the next peek.
- After an outage the allocator tries every slot it missed, one period at a time
  from the last one. Those in the past are accepted: criterion 1 takes a time in
  the past for one far ahead, and criterion 2 is not applied to beacons. They
  occupy a place and are counted until the next peek purges them.
- A packet being emitted is no longer in the queue, so `jit_enqueue` compares no new
  packet with it. A downlink announced less ahead than the emission before it
  lasts, plus some 60 ms and the server's delay, may be accepted and find the
  radio emitting: `thread_jit` drops it (`continue`, `fwd.c` 951). `Quiet` excludes it.
- A lead of exactly `TX_MAX_ADVANCE_DELAY` is accepted (`>` in `jit_enqueue`) and
  dropped by the next peek (`>=`).
- After a purge of the first node the peek loop goes on at the second
  (`i = 0; continue` before `i++`, `jitqueue.c` 406-408): the new first node is
  not looked at until the next poll, 10 ms later. `jit_downlinks` shows the lead
  of 30 ms absorbs it, `jit_lone` that no node is skipped for ever.
- If the loop of the peek looks at no node (the purge emptied the queue, or left
  only the node it skips), the index is still -1 and `nodes[-1]` is compared with
  the time after the loop. Whatever it holds, the index returned is -1: no packet
  is due, which is what `PeekNothing` does.
- A downlink whose timestamp has passed is answered `TOO_EARLY`, as its unsigned
  lead is large; `src/src/doc/semtech_protocol.txt` 421 defines that answer as "too
  much in advance".
- The ASAP search also considers the slot behind a beacon whose time has passed.
  That slot may be past too: criterion 1 does not see it and criterion 2 is not
  applied to class C, so the downlink is acknowledged and then purged.
- A GPS outage longer than a counter cycle less the horizon (63 minutes) leaves
  the allocator trying slots so far back that their counter value appears to be
  in the future: such a beacon is transmitted at the wrong time. `MaxOutage`
  excludes it from `beacon_lone`.
- With the queue full of other packets the allocation loop refuses and retries
  without returning to `recv`; and a beacon period above 170 s puts the third
  beacon beyond the horizon.

### Uplinks

- The age of a batch is taken against the counter value `thread_jit` read last
  (`fwd.c` 880). A batch received after that reading looks a whole counter cycle
  old and is freed, unread, if the list is long enough for the recycler to run.
- `stamps` is a `uint8_t` with one bit per service: a ninth service has the stamp
  0, which every batch carries, and never receives one. `src/gwcfg.c` 1590 asks
  for fewer than eight servers and does not test it.

### Packet service

- `search_dn_list` compares addresses with `strcasecmp` (`pkt_serv.c` 225), the
  replacement of an older entry with `strcmp` (781): two files that write one
  address in different cases both wait. The models have one case.
- The dump of a payload uses the loop variable of the packets (455): after a
  payload of n bytes the packet at index n + 1 comes next, so that others are
  skipped or handled again. If the packet at index 1 has an empty payload the loop
  never ends.
- `search_dn_list` returns an entry after it releases the lock (220). A file for the
  same address, or a full list, frees it while the decoder uses it.
- A downlink replaced between the making of its frame (143) and the answer of
  `jit_enqueue` (162) is sent although a newer one was posted; so is one replaced
  earlier, if the memory freed happens to be intact. Removing it then
  unlinks and frees an entry that was freed already.
- The size of a file of up to 512 bytes is kept in a `uint8_t` (521).
- An urgent downlink the queue refuses is freed, one that waits for an uplink
  goes on waiting.
- The first downlink of a device stores the counter 1 and uses it; the second
  reads 1 and uses it again (132-137): a frame counter is used twice. Counters
  are deleted when the database's state table is emptied at the start.

### Database

- A failed commit rolls back up to a second of puts (`db.c` 615-617), frame counters
  among them; `lgw_db_put` had answered success, and callers ignore its answer.
- Paths that call `exit(EXIT_FAILURE)` do not run the at-exit handlers.

### Semtech service

- The report's comment says "copy and reset them" of all counters; `dgram_sent`, `ack_rcv` of
  the upstream, and the counts of PULL_DATA and of datagrams received are copied
  and never reset, so ratios are taken over the whole run, and a rejection may be
  counted in another report than its request.
- A report is lost when there is no socket; one that was not taken yet is
  overwritten, with its counts. A `send` that fails is counted as sent.
- A renewal opens `sock_up` on the downstream port with the downstream time-out, and
  `init_sock` leaks the descriptor when the server cannot be reached. Both threads
  may open `sock_up` at once, and between closing and reopening a number may
  already be the other thread's new socket.
- The renewal needs ten requests since the last one; without a socket the
  downstream loop does not wait at all.
- Auto-quit logs that the application exits (`semtech_serv.c` 803) but ends only this
  service, and does not wake the upstream thread.
- A PULL_RESP with a bad `rf_chain`, or JSON that does not parse, gets no TX_ACK, and
  the TX_ACK is sent on the upstream socket.
- `semtech_push_up` looks at `report_ready` twice without the lock (`semtech_serv.c`
  536 or 547, then 554): a report that becomes ready in between is appended
  without its comma. `CloseArray` and `AddReport` are these two looks.
- `semtech_stop` cancels the downstream thread without joining it, and the service's memory
  is freed next (`fwd.c` 216-237).

### GPS

- With NAV-TIMEGPS first and no fault, the first of the two syncs of a pulse has
  its own pulse and the old UTC, and the second a time difference of zero: no
  measure is ever smoothed, the crystal error stays 1.0 and a glitch is adopted
  by the reset at once. One late message can keep `ref.utc` a second behind.
- If the pulse stops and the messages go on, the reference goes on being reset
  with the same counter value and stays valid.

### Listen before talk

- A slot is free when its count is below the present one, whatever the wrap
  (`semtech_serv.c` 1364): near a wrap a pending slot is given away. Its packet is
  not sent, or, scanned between two stores, on the verdict of the new frequency.
- The distance is computed from a reading at the start of the pass. With several
  packets in one window (each takes 18 ms and more), or a slow tty (up to 1 s,
  `fwd.c` 1395), a pass lasts longer than the near edge of the window: the answer
  then comes after the slot was given to another packet, and the flag lets that one
  through unheard (`late`; `LateIsSlow` says that nothing else does it).
- Two server threads may choose the same slot. As they store field by field, the
  timestamp of one may stay with the frequency of the other, and a packet leave on the
  verdict of another channel (`crossed`).
- Two downlinks with the same timestamp, of two servers, or one that was refused and
  asked for again, are one to the slots: either is sent on the verdict of the other's
  frequency, if they differ (`twice`).
- `Clear` may zero a slot that was just given away: its packet is not sent.
- That no slot was free is overwritten by the answer of `jit_enqueue`
  (`semtech_serv.c` 1319-1323): the server is told that all is well.
- Beacons, custom downlinks and class C packets never have a slot: under listen
  before talk they are never sent.

### Start and shutdown, mqtt (read, not modelled)

- `main` cancels `thread_jit` and the downstream threads wherever the system lets it, possibly under
  `mx_concent`, `mx_jit_queue` or `mx_dblock` (`fwd.c` 706-775). The joins after that
  may wait for ever, and the watchdog is cancelled by then.
- `mqtt_stop` joins a thread that was not created if the first connection failed;
  a publication that fails loses its packet.

## 6. Not modelled

- *The shutdown, the start and the watchdog.* They run once; what matters in them
  is at which library calls a thread may be cancelled, which this code does not
  determine.
- *PULL_RESP, TX_ACK and the text of datagrams, reports, files and frames.* The
  formats are data; the verdicts they carry are the ones of `JitScheduler`. What
  the models keep of a packet is what the control depends on.
- *The mqtt and traffic services.* They read the uplink list like the modelled
  ones (`RxDispatch` has any number of readers); the session is a library's.
- *The ghost stream* (no longer started by `main`), *timer synchronisation* (one offset,
  set anew every minute), *spectral scan* (hardware calls without a state).
- *Configuration, logging, memory, MAC decoding, ciphers, JSON and base64*: data
  without state, read once, or third-party code.
- *The rest of the repository*: the concentrator libraries, two copies of Basic
  Station, vendored libraries, generated code and command-line tools. They are
  nearly nine tenths of its C code. The forwarder has some thirteen thousand lines,
  of which the ciphers, parsers and the configuration are two fifths; the modules cover
  the state and the control of the remainder that is shared between threads. This
  is why the part of the whole repository that is covered is small, and would stay small
  if every function of the forwarder were modelled.

Inside the modelled parts, what is left out or taken as one step, and why nothing
checked depends on it:

- `lgw_status` returning an error (`fwd.c` 945-946) is logged and the packet sent all the
  same; `JitScheduler` has no failing status.
- `Filter` of `SemtechLink` counts a batch in one step, the code each packet under the
  lock; `Connect` creates a socket and stores its descriptor in one.
- A failed `lgw_get_trigcnt` (`fwd.c` 1035-1037) leaves `GpsReference` with a message that
  was parsed and no synchronisation.
- A failed ROLLBACK or BEGIN (`db.c` 605, 616, 622) is ignored by the code; in `Database`
  both succeed.
- Each listed hazard that no property covers, or only in part, has a note in
  `PROJECT.json` that says so: among them the two-server races of the full test and of
  the beacon count, the entries the decoder uses after they are freed, the descriptor
  a renewal loses, and the service freed under its cancelled thread. `OutliersIgnored`
  says of a receiver with faults only that no single aberrant measure is adopted.

What would come next: the timing theorems with beacons among the requests, whose
three-second guard changes which packets may lie before the one peeked; the
TX_ACK of each PULL_RESP in `SemtechLink` (exactly one per request, with the queue's
verdict); and the composition of `GpsReference` with `BeaconAllocator` in place of its
two environment actions.
