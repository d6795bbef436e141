----------------------------- MODULE SemtechLink -----------------------------
(***************************************************************************)
(* The link of a semtech service to its server (fwd/src/semtech_serv.c,    *)
(* stats.c).  One thread, semtech_push_up, sends the packets received and  *)
(* the reports; another, semtech_pull_down, polls the server, renews the   *)
(* sockets of both when too few requests are answered and ends the service *)
(* when none is; the main thread makes the reports and stops the service.  *)
(*                                                                         *)
(* Datagrams are lost, repeated and late: what a thread receives, or that  *)
(* it receives nothing, is chosen freely.  A report is represented by the  *)
(* number of packets it counts as forwarded; a datagram by the packets and *)
(* the report in it.  The lock mx_report is free but while push_up waits   *)
(* for its acknowledgement: every other use of it is within a step.        *)
(***************************************************************************)
EXTENDS Integers

CONSTANTS
    Fds,           \* the file descriptors the process can have
    Ratio,         \* the sockets are renewed when fewer than 1 in Ratio is answered
    Threshold,     \* autoquit_threshold, 0: never
    MaxBatches,    \* bound: batches of packets received
    MaxReports,    \* bound: reports
    MaxRequests    \* bound: PULL_DATA

ASSUME LinkConstants ==
    /\ Fds \subseteq Nat /\ Fds # {}
    /\ Ratio \in Nat \ {0}
    /\ {Threshold, MaxBatches, MaxReports, MaxRequests} \subseteq Nat

VARIABLES
    up,            \* where push_up is
    down,          \* where pull_down is
    main,          \* where the main thread is
    sema,          \* the semaphore that wakes push_up
    batches,       \* batches that wait for this service
    fetched,       \* packets of the batch in hand
    packets,       \* packets in the datagram in hand
    taken,         \* the report in it
    left,          \* receptions left
    ready, status, \* report_ready, status_report
    copied,        \* the main thread's copy of pkt_fwd
    fds,           \* what the descriptors are open on
    sock_up, sock_down,
    pull_send, pull_ack, req_ack, autoquit_cnt, stop_sig,
    pkt_fwd, dgram_sent, ack_rcv, pull_sent, dw_ack_rcv,  \* meas_up_..., meas_dw_...
    received,      \* number of batches received so far
    reports,       \* number of reports so far
    forwarded,     \* history: packets forwarded so far
    handed,        \* history: of these, those in reports given to the network
    lost           \* history: and in reports dropped or overwritten

feed == <<batches, received>>
datagram == <<fetched, packets, taken, left>>
report == <<ready, status, copied, reports>>
sockets == <<fds, sock_up, sock_down>>
polls == <<pull_send, pull_ack, req_ack, autoquit_cnt, pull_sent, dw_ack_rcv>>
pushes == <<dgram_sent, ack_rcv>>
history == <<forwarded, handed, lost>>
vars == <<up, down, main, sema, feed, datagram, report, sockets, polls, pushes,
          pkt_fwd, stop_sig, history>>

NoSock == -1
NoReport == -1
Ports == {"port_up", "port_down"}
-----------------------------------------------------------------------------
(* init_sock: a socket on the lowest free descriptor; or none, because the
   server's name is unknown, no descriptor is left, or the server cannot be
   reached: then the socket stays open.                                      *)
init_sock(f, port) ==
    LET free == {d \in Fds : f[d] = "closed"}
        lowest == {d \in free : \A e \in free : d <= e}
    IN  {[fds |-> f, sock |-> NoSock]}
        \cup {[fds |-> [f EXCEPT ![d] = port], sock |-> d] : d \in lowest}
        \cup {[fds |-> [f EXCEPT ![d] = port], sock |-> NoSock] : d \in lowest}

Closed(f, d) == IF d = NoSock THEN f ELSE [f EXCEPT ![d] = "closed"]

(* semtech_start *)
Init ==
    /\ up = "wait" /\ down = "top" /\ main = "idle"
    /\ sema = 0 /\ batches = 0 /\ received = 0
    /\ fetched = 0 /\ packets = 0 /\ taken = NoReport /\ left = 0
    /\ ready = FALSE /\ status = 0 /\ copied = 0 /\ reports = 0
    /\ \E u \in init_sock([d \in Fds |-> "closed"], "port_up") :
         \E v \in init_sock(u.fds, "port_down") :
           fds = v.fds /\ sock_up = u.sock /\ sock_down = v.sock
    /\ pull_send = 0 /\ pull_ack = 0 /\ req_ack = FALSE /\ autoquit_cnt = 0
    /\ stop_sig = FALSE
    /\ pkt_fwd = 0 /\ dgram_sent = 0 /\ ack_rcv = 0 /\ pull_sent = 0 /\ dw_ack_rcv = 0
    /\ forwarded = 0 /\ handed = 0 /\ lost = 0

ReportFree == up # "recv"
Live == main # "stopped"
-----------------------------------------------------------------------------
(* thread_up hands on a batch of packets (see RxDispatch), or it is recycled *)
Receive ==
    /\ Live
    /\ received < MaxBatches
    /\ received' = received + 1
    /\ batches' = batches + 1
    /\ sema' = sema + 1
    /\ UNCHANGED <<up, down, main, datagram, report, sockets, polls, pushes, pkt_fwd,
                   stop_sig, history>>

Recycle ==
    /\ batches > 0
    /\ batches' = batches - 1
    /\ UNCHANGED <<up, down, main, sema, received, datagram, report, sockets, polls,
                   pushes, pkt_fwd, stop_sig, history>>
-----------------------------------------------------------------------------
(* semtech_push_up *)

LoopEnd == IF stop_sig THEN "done" ELSE "wait"

BatchesOnly == batches = 0             \* mutant: a report alone does not make a datagram
NothingToSend == batches = 0 /\ ~ready

Fetch ==
    /\ up = "wait"
    /\ sema > 0
    /\ sema' = sema - 1
    /\ fetched' = IF batches > 0 THEN 1 ELSE 0
    /\ batches' = batches - fetched'
    /\ up' = IF NothingToSend THEN LoopEnd ELSE "filter"
    /\ UNCHANGED <<down, main, received, packets, taken, left, report, sockets,
                   polls, pushes, pkt_fwd, stop_sig, history>>

Filter ==
    /\ up = "filter"
    /\ \E n \in 0 .. fetched :
         /\ packets' = n
         /\ pkt_fwd' = pkt_fwd + n
         /\ forwarded' = forwarded + n
    /\ fetched' = 0
    /\ up' = "close"
    /\ UNCHANGED <<down, main, sema, feed, taken, left, report, sockets,
                   polls, pushes, stop_sig, handed, lost>>

(* The array of packets is closed, or removed; with no report now that is all *)
CloseArray ==
    /\ up = "close"
    /\ up' = IF packets = 0 /\ ~ready THEN LoopEnd ELSE "report"
    /\ UNCHANGED <<down, main, sema, feed, datagram, report, sockets, polls, pushes,
                   pkt_fwd, stop_sig, history>>

AddReport ==
    /\ up = "report"
    /\ taken' = IF ready THEN status ELSE NoReport
    /\ ready' = FALSE
    /\ status' = 0
    /\ up' = "connect"
    /\ UNCHANGED <<down, main, sema, feed, fetched, packets, left, copied, reports,
                   sockets, polls, pushes, pkt_fwd, stop_sig, history>>

Counts(r) == IF r = NoReport THEN 0 ELSE r

NoDatagram == packets' = 0 /\ taken' = NoReport

Connect ==
    /\ up = "connect"
    /\ IF sock_up = NoSock
       THEN \E s \in init_sock(fds, "port_up") : fds' = s.fds /\ sock_up' = s.sock
       ELSE UNCHANGED <<fds, sock_up>>
    /\ IF sock_up' = NoSock
       THEN up' = LoopEnd /\ lost' = lost + Counts(taken) /\ NoDatagram
       ELSE up' = "send" /\ UNCHANGED <<lost, packets, taken>>
    /\ UNCHANGED <<down, main, sema, feed, fetched, left, report, sock_down, polls,
                   pushes, pkt_fwd, stop_sig, forwarded, handed>>

Receptions == 2

Send ==
    /\ up = "send"
    /\ handed' = handed + Counts(taken)
    /\ NoDatagram
    /\ dgram_sent' = dgram_sent + 1
    /\ left' = Receptions
    /\ up' = "recv"
    /\ UNCHANGED <<down, main, sema, feed, fetched, report, sockets, polls,
                   ack_rcv, pkt_fwd, stop_sig, forwarded, lost>>

(* Nothing, or not the acknowledgement: the second time, or on an error, it is
   given up                                                                  *)
RecvOther ==
    /\ up = "recv"
    /\ \/ left > 1 /\ left' = left - 1 /\ up' = up
       \/ left' = 0 /\ up' = LoopEnd
    /\ UNCHANGED <<down, main, sema, feed, fetched, packets, taken, report, sockets,
                   polls, pushes, pkt_fwd, stop_sig, history>>

RecvAck ==
    /\ up = "recv"
    /\ ack_rcv' = ack_rcv + 1
    /\ left' = 0 /\ up' = LoopEnd
    /\ UNCHANGED <<down, main, sema, feed, fetched, packets, taken, report, sockets,
                   polls, dgram_sent, pkt_fwd, stop_sig, history>>

PushUp ==
    Fetch \/ Filter \/ CloseArray \/ AddReport \/ Connect \/ Send \/ RecvOther \/ RecvAck
-----------------------------------------------------------------------------
(* semtech_pull_down *)

TooFewAnswered == pull_ack < pull_send \div Ratio

AutoQuit ==
    /\ down = "top" /\ Live
    /\ stop_sig \/ (Threshold > 0 /\ autoquit_cnt >= Threshold)
    /\ stop_sig' = TRUE
    /\ down' = "done"
    /\ UNCHANGED <<up, main, sema, feed, datagram, report, sockets, polls, pushes,
                   pkt_fwd, history>>

Top ==
    /\ down = "top" /\ Live
    /\ ~stop_sig
    /\ Threshold > 0 => autoquit_cnt < Threshold
    /\ IF TooFewAnswered
       THEN /\ pull_send' = 0 /\ pull_ack' = 0
            /\ fds' = Closed(Closed(fds, sock_down), sock_up)
            /\ down' = "open_down"
       ELSE /\ down' = "request"
            /\ UNCHANGED <<pull_send, pull_ack, fds>>
    /\ UNCHANGED <<up, main, sema, feed, datagram, report, sock_up, sock_down, req_ack,
                   autoquit_cnt, pull_sent, dw_ack_rcv, pushes, pkt_fwd, stop_sig, history>>

(* Until this is done, and the next, the variables hold closed descriptors *)
OpenDown ==
    /\ down = "open_down" /\ Live
    /\ \E s \in init_sock(fds, "port_down") : fds' = s.fds /\ sock_down' = s.sock
    /\ down' = "open_up"
    /\ UNCHANGED <<up, main, sema, feed, datagram, report, sock_up, polls, pushes, pkt_fwd,
                   stop_sig, history>>

(* The socket for upstream is opened on the downstream port *)
KeepsUp(s) == fds' = fds /\ sock_up' = sock_up         \* mutant: sock_up not renewed
RenewsUp(s) == fds' = s.fds /\ sock_up' = s.sock

OpenUp ==
    /\ down = "open_up" /\ Live
    /\ \E s \in init_sock(fds, "port_down") : RenewsUp(s)
    /\ down' = "request"
    /\ UNCHANGED <<up, main, sema, feed, datagram, report, sock_down, polls, pushes,
                   pkt_fwd, stop_sig, history>>

Offline ==
    /\ down = "request" /\ Live
    /\ sock_down = NoSock
    /\ down' = "top"
    /\ UNCHANGED <<up, main, sema, feed, datagram, report, sockets, polls, pushes, pkt_fwd,
                   stop_sig, history>>

Request ==
    /\ down = "request" /\ Live
    /\ sock_down # NoSock
    /\ ReportFree
    /\ pull_sent < MaxRequests
    /\ pull_send' = pull_send + 1
    /\ pull_sent' = pull_sent + 1
    /\ autoquit_cnt' = autoquit_cnt + 1
    /\ req_ack' = FALSE
    /\ down' = "listen"
    /\ UNCHANGED <<up, main, sema, feed, datagram, report, sockets, pull_ack, dw_ack_rcv,
                   pushes, pkt_fwd, stop_sig, history>>

AnyAck == TRUE                         \* mutant: a repeated PULL_ACK is counted again
FirstAck == ~req_ack

PullAck ==
    /\ down = "listen" /\ Live
    /\ FirstAck
    /\ ReportFree
    /\ req_ack' = TRUE
    /\ pull_ack' = pull_ack + 1
    /\ autoquit_cnt' = 0
    /\ dw_ack_rcv' = dw_ack_rcv + 1
    /\ UNCHANGED <<up, down, main, sema, feed, datagram, report, sockets, pull_send,
                   pull_sent, pushes, pkt_fwd, stop_sig, history>>

KeepaliveOver ==
    /\ down = "listen" /\ Live
    /\ down' = "top"
    /\ UNCHANGED <<up, main, sema, feed, datagram, report, sockets, polls, pushes, pkt_fwd,
                   stop_sig, history>>

Poll == AutoQuit \/ Top \/ OpenDown \/ OpenUp \/ Offline \/ Request \/ KeepaliveOver
PullDown == Poll \/ PullAck
-----------------------------------------------------------------------------
(* The main thread: semtech_report *)

NotReset == pkt_fwd                    \* mutant: copied but not reset
Reset == 0

ReportCopy ==
    /\ main = "idle"
    /\ reports < MaxReports
    /\ ReportFree
    /\ reports' = reports + 1
    /\ copied' = pkt_fwd
    /\ pkt_fwd' = Reset
    /\ main' = "copied"
    /\ UNCHANGED <<up, down, sema, feed, datagram, ready, status, sockets, polls, pushes,
                   stop_sig, history>>

(* A report that push_up has not taken is overwritten *)
ReportWrite ==
    /\ main = "copied"
    /\ ReportFree
    /\ lost' = lost + IF ready THEN status ELSE 0
    /\ status' = copied
    /\ copied' = 0
    /\ ready' = TRUE
    /\ main' = "written"
    /\ UNCHANGED <<up, down, sema, feed, datagram, reports, sockets, polls, pushes, pkt_fwd,
                   stop_sig, forwarded, handed>>

ReportPost ==
    /\ main = "written"
    /\ sema' = sema + 1
    /\ main' = "idle"
    /\ UNCHANGED <<up, down, feed, datagram, report, sockets, polls, pushes, pkt_fwd,
                   stop_sig, history>>
-----------------------------------------------------------------------------
(* The main thread: semtech_stop.  pull_down is cancelled, not waited for: that
   it may still run when the service's memory is freed is not modelled.      *)

StopAsk ==
    /\ main = "idle"
    /\ stop_sig' = TRUE
    /\ main' = "asked"
    /\ UNCHANGED <<up, down, sema, feed, datagram, report, sockets, polls, pushes, pkt_fwd,
                   history>>

NotPosted == sema                      \* mutant: push_up is not woken
Posted == sema + 1

StopPost ==
    /\ main = "asked"
    /\ sema' = Posted
    /\ main' = "join"
    /\ UNCHANGED <<up, down, feed, datagram, report, sockets, polls, pushes, pkt_fwd,
                   stop_sig, history>>

StopJoin ==
    /\ main = "join"
    /\ up = "done"
    /\ main' = "stopped"
    /\ fds' = Closed(Closed(fds, sock_up), sock_down)
    /\ sock_up' = NoSock
    /\ sock_down' = NoSock
    /\ UNCHANGED <<up, down, sema, feed, datagram, report, polls, pushes, pkt_fwd, stop_sig,
                   history>>

MainStep == ReportWrite \/ ReportPost \/ StopPost \/ StopJoin
-----------------------------------------------------------------------------
Next ==
    \/ Receive
    \/ Recycle
    \/ PushUp
    \/ PullDown
    \/ ReportCopy
    \/ MainStep
    \/ StopAsk

(* The threads are scheduled and their calls return: receptions have a time-out *)
Spec == Init /\ [][Next]_vars
FairSpec ==
    Spec /\ WF_vars(PushUp) /\ WF_vars(Poll) /\ WF_vars(MainStep)
-----------------------------------------------------------------------------
TypeOK ==
    /\ up \in {"wait", "filter", "close", "report", "connect", "send", "recv", "done"}
    /\ down \in {"top", "open_down", "open_up", "request", "listen", "done"}
    /\ main \in {"idle", "copied", "written", "asked", "join", "stopped"}
    /\ sema \in Nat
    /\ batches \in Nat /\ received \in 0 .. MaxBatches
    /\ fetched \in 0 .. 1 /\ packets \in 0 .. 1
    /\ taken \in Nat \cup {NoReport}
    /\ left \in 0 .. 2
    /\ ready \in BOOLEAN /\ status \in Nat /\ copied \in Nat
    /\ reports \in 0 .. MaxReports
    /\ fds \in [Fds -> Ports \cup {"closed"}]
    /\ sock_up \in Fds \cup {NoSock} /\ sock_down \in Fds \cup {NoSock}
    /\ pull_send \in Nat /\ pull_ack \in Nat
    /\ req_ack \in BOOLEAN
    /\ autoquit_cnt \in Nat
    /\ stop_sig \in BOOLEAN
    /\ pkt_fwd \in Nat
    /\ dgram_sent \in Nat /\ ack_rcv \in Nat
    /\ pull_sent \in 0 .. MaxRequests /\ dw_ack_rcv \in Nat
    /\ forwarded \in Nat /\ handed \in Nat /\ lost \in Nat

(* No answer is counted twice, however often the network repeats it: what was
   acknowledged and what is counted as missing since make at most what was sent,
   on both links, over renewals and reports.                                 *)
AckLedger ==
    /\ dw_ack_rcv + autoquit_cnt <= pull_sent
    /\ pull_ack <= pull_send
    /\ ack_rcv + (IF up = "recv" THEN 1 ELSE 0) <= dgram_sent

(* Outside a renewal what the threads send on is open, the downstream socket is
   on its port, and the two are not the same.                                *)
SocketsOpen ==
    down \notin {"open_down", "open_up"} =>
        /\ sock_up # NoSock => fds[sock_up] # "closed"
        /\ sock_down # NoSock => fds[sock_down] = "port_down"
        /\ sock_up = sock_down => sock_up = NoSock

(* A packet counted as forwarded is in one place: not yet reported, in the hands
   of the main thread, in the report that waits or in the datagram, given to the
   network, or lost with a report.                                           *)
CountedOnce ==
    forwarded = pkt_fwd + copied + (IF ready THEN status ELSE 0) + Counts(taken)
                + handed + lost

(* A report that is ready is taken, packets or not. *)
ReportTaken == ready ~> (~ready \/ stop_sig)

(* The service's stop ends, whatever the server does. *)
StopEnds == (main = "asked") ~> (main = "stopped")

(* A service without a downstream socket gets one again. *)
PollsAgain == (sock_down = NoSock) ~> (sock_down # NoSock \/ stop_sig)
=============================================================================
