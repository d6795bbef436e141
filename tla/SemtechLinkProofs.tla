------------------------- MODULE SemtechLinkProofs -------------------------
(***************************************************************************)
(* Proofs about SemtechLink, for every value of its constants.             *)
(***************************************************************************)
EXTENDS SemtechLink, TLAPS

(* A request that was not answered yet is counted as missing, and is one more
   than the answers since the sockets were renewed.                          *)
Asked == down = "listen" /\ ~req_ack => autoquit_cnt >= 1 /\ pull_ack < pull_send

(* After the first half of a renewal the downstream socket is open, or there is
   none.                                                                     *)
HalfRenewed == down = "open_up" /\ sock_down # NoSock => fds[sock_down] = "port_down"

(* No report is in the hands of a thread that is not at it. *)
HandsEmpty ==
    /\ up \notin {"connect", "send"} => taken = NoReport
    /\ main # "copied" => copied = 0

Inv == TypeOK /\ AckLedger /\ Asked /\ SocketsOpen /\ HalfRenewed /\ CountedOnce /\ HandsEmpty

LEMMA Bounds == /\ Fds \subseteq Nat /\ Ratio \in Nat \ {0} /\ Threshold \in Nat
                /\ MaxBatches \in Nat /\ MaxReports \in Nat /\ MaxRequests \in Nat
BY LinkConstants

(* What init_sock does to the descriptors: the ones that are open stay so, and
   the socket it returns is a descriptor that was closed.                    *)
LEMMA InitSock ==
    ASSUME NEW f \in [Fds -> Ports \cup {"closed"}], NEW port \in Ports,
           NEW s \in init_sock(f, port)
    PROVE  /\ s.fds \in [Fds -> Ports \cup {"closed"}]
           /\ s.sock \in Fds \cup {NoSock}
           /\ \A d \in Fds : f[d] # "closed" => s.fds[d] = f[d]
           /\ s.sock # NoSock => f[s.sock] = "closed" /\ s.fds[s.sock] = port
<1> DEFINE free == {d \in Fds : f[d] = "closed"}
           lowest == {d \in free : \A e \in free : d <= e}
<1>1. NoSock \notin Fds
  BY LinkConstants DEF NoSock
<1>2. CASE s = [fds |-> f, sock |-> NoSock]
  BY <1>2
<1>3. CASE \E d \in lowest : s = [fds |-> [f EXCEPT ![d] = port], sock |-> d]
  BY <1>1, <1>3
<1>4. CASE \E d \in lowest : s = [fds |-> [f EXCEPT ![d] = port], sock |-> NoSock]
  BY <1>4
<1> QED
  BY <1>2, <1>3, <1>4 DEF init_sock

LEMMA InitInv == Init => Inv
<1> SUFFICES ASSUME Init PROVE Inv
  OBVIOUS
<1> DEFINE none == [d \in Fds |-> "closed"]
<1>1. none \in [Fds -> Ports \cup {"closed"}]
  OBVIOUS
<1>2. PICK u \in init_sock(none, "port_up") : \E v \in init_sock(u.fds, "port_down") :
           fds = v.fds /\ sock_up = u.sock /\ sock_down = v.sock
  BY DEF Init
<1>3. PICK v \in init_sock(u.fds, "port_down") :
           fds = v.fds /\ sock_up = u.sock /\ sock_down = v.sock
  BY <1>2
<1>4. /\ u.fds \in [Fds -> Ports \cup {"closed"}]
      /\ u.sock \in Fds \cup {NoSock}
      /\ u.sock # NoSock => u.fds[u.sock] = "port_up"
  BY <1>1, <1>2, InitSock DEF Ports
<1>5. /\ v.fds \in [Fds -> Ports \cup {"closed"}]
      /\ v.sock \in Fds \cup {NoSock}
      /\ \A d \in Fds : u.fds[d] # "closed" => v.fds[d] = u.fds[d]
      /\ v.sock # NoSock => u.fds[v.sock] = "closed" /\ v.fds[v.sock] = "port_down"
  <2> HIDE DEF none
  <2> QED
    BY <1>4, <1>3, InitSock DEF Ports
<1>6. /\ fds \in [Fds -> Ports \cup {"closed"}]
      /\ sock_up \in Fds \cup {NoSock} /\ sock_down \in Fds \cup {NoSock}
  BY <1>3, <1>4, <1>5
<1>7. TypeOK
  <2>1. 0 \in 0 .. MaxBatches /\ 0 \in 0 .. MaxReports /\ 0 \in 0 .. MaxRequests
    BY Bounds
  <2>2. received \in 0 .. MaxBatches /\ reports \in 0 .. MaxReports /\ pull_sent \in 0 .. MaxRequests
    BY <2>1 DEF Init
  <2>3. taken \in Nat \cup {NoReport}
    BY DEF Init
  <2>4. ready \in BOOLEAN /\ req_ack \in BOOLEAN /\ stop_sig \in BOOLEAN
    BY DEF Init
  <2> QED
    BY <1>6, <2>2, <2>3, <2>4 DEF Init, TypeOK
<1>8. SocketsOpen /\ HalfRenewed
  BY <1>3, <1>4, <1>5 DEF Init, SocketsOpen, HalfRenewed
<1>9. AckLedger /\ Asked /\ CountedOnce /\ HandsEmpty
  BY DEF Init, AckLedger, Asked, CountedOnce, HandsEmpty, Counts, NoReport
<1> QED
  BY <1>7, <1>8, <1>9 DEF Inv

(* Every step keeps the variables in their types. *)
LEMMA TypeInv ==
    ASSUME TypeOK, Next
    PROVE  TypeOK'
<1> USE DEF TypeOK, feed, datagram, report, sockets, polls, pushes, history
<1>1. CASE Receive
  BY <1>1, Bounds DEF Receive
<1>2. CASE Recycle
  BY <1>2 DEF Recycle
<1>3. CASE Fetch
  BY <1>3 DEF Fetch, NothingToSend, LoopEnd
<1>4. CASE Filter
  BY <1>4 DEF Filter
<1>5. CASE CloseArray
  BY <1>5 DEF CloseArray, LoopEnd
<1>6. CASE AddReport
  <2>1. taken' \in Nat \cup {NoReport} /\ status' \in Nat /\ ready' \in BOOLEAN
    BY <1>6 DEF AddReport
  <2> QED
    BY <1>6, <2>1 DEF AddReport
<1>7. CASE Connect
  <2>1. fds' \in [Fds -> Ports \cup {"closed"}] /\ sock_up' \in Fds \cup {NoSock}
    <3>1. CASE sock_up = NoSock
      <4>1. PICK s \in init_sock(fds, "port_up") : fds' = s.fds /\ sock_up' = s.sock
        BY <1>7, <3>1 DEF Connect
      <4> QED
        BY <4>1, InitSock DEF Ports
    <3>2. CASE sock_up # NoSock
      BY <1>7, <3>2 DEF Connect
    <3> QED
      BY <3>1, <3>2
  <2>2. lost' \in Nat /\ taken' \in Nat \cup {NoReport} /\ packets' \in 0 .. 1
    <3>1. Counts(taken) \in Nat
      BY DEF Counts
    <3>2. (lost' = lost + Counts(taken) /\ NoDatagram) \/ UNCHANGED <<lost, packets, taken>>
      BY <1>7 DEF Connect
    <3> QED
      <4>1. CASE lost' = lost + Counts(taken) /\ NoDatagram
        <5>1. lost' \in Nat
          BY <4>1, <3>1
        <5>2. taken' = NoReport /\ packets' = 0
          BY <4>1 DEF NoDatagram
        <5>3. packets' \in 0 .. 1
          BY <5>2
        <5>4. taken' \in Nat \cup {NoReport}
          BY <5>2, Zenon
        <5> QED
          BY <5>1, <5>3, <5>4
      <4>2. CASE UNCHANGED <<lost, packets, taken>>
        BY <4>2
      <4> QED
        BY <3>2, <4>1, <4>2
  <2>3. up' \in {"wait", "filter", "close", "report", "connect", "send", "recv", "done"}
    BY <1>7 DEF Connect, LoopEnd
  <2> QED
    BY <1>7, <2>1, <2>2, <2>3 DEF Connect
<1>8. CASE Send
  <2>1. Counts(taken) \in Nat
    BY DEF Counts
  <2>2. handed' \in Nat /\ dgram_sent' \in Nat /\ left' \in 0 .. 2
    BY <1>8, <2>1 DEF Send, Receptions
  <2>3. taken' = NoReport /\ packets' = 0 /\ up' = "recv"
    BY <1>8 DEF Send, NoDatagram
  <2> QED
    <3>1. UNCHANGED <<down, main, sema, feed, fetched, report, sockets, polls,
                      ack_rcv, pkt_fwd, stop_sig, forwarded, lost>>
      BY <1>8 DEF Send
    <3>2. packets' \in 0 .. 1
      BY <2>3
    <3>3. taken' \in Nat \cup {NoReport}
      BY <2>3, Zenon
    <3> QED
      BY <2>2, <2>3, <3>1, <3>2, <3>3
<1>9. CASE RecvOther
  BY <1>9 DEF RecvOther, LoopEnd
<1>10. CASE RecvAck
  BY <1>10 DEF RecvAck, LoopEnd
<1>11. CASE AutoQuit
  BY <1>11 DEF AutoQuit
<1>12. CASE Top
  BY <1>12 DEF Top, TooFewAnswered, Closed
<1>13. CASE OpenDown
  <2>1. PICK s \in init_sock(fds, "port_down") : fds' = s.fds /\ sock_down' = s.sock
    BY <1>13 DEF OpenDown
  <2>2. s.fds \in [Fds -> Ports \cup {"closed"}] /\ s.sock \in Fds \cup {NoSock}
    BY <2>1, InitSock DEF Ports
  <2> QED
    BY <1>13, <2>1, <2>2 DEF OpenDown
<1>14. CASE OpenUp
  <2>1. PICK s \in init_sock(fds, "port_down") : fds' = s.fds /\ sock_up' = s.sock
    BY <1>14 DEF OpenUp, RenewsUp
  <2>2. s.fds \in [Fds -> Ports \cup {"closed"}] /\ s.sock \in Fds \cup {NoSock}
    BY <2>1, InitSock DEF Ports
  <2> QED
    BY <1>14, <2>1, <2>2 DEF OpenUp
<1>15. CASE Offline
  BY <1>15 DEF Offline
<1>16. CASE Request
  <2>1. pull_sent' \in 0 .. MaxRequests /\ pull_send' \in Nat /\ autoquit_cnt' \in Nat
    BY <1>16, Bounds DEF Request
  <2>2. req_ack' = FALSE /\ down' = "listen"
    BY <1>16 DEF Request
  <2>3. UNCHANGED <<up, main, sema, feed, datagram, report, sockets, pull_ack, dw_ack_rcv,
                   pushes, pkt_fwd, stop_sig, history>>
    BY <1>16 DEF Request
  <2>4. req_ack' \in BOOLEAN
    BY <2>2, Zenon
  <2> QED
    BY <2>1, <2>2, <2>3, <2>4
<1>17. CASE PullAck
  BY <1>17 DEF PullAck, FirstAck
<1>18. CASE KeepaliveOver
  BY <1>18 DEF KeepaliveOver
<1>19. CASE ReportCopy
  BY <1>19, Bounds DEF ReportCopy, Reset
<1>20. CASE ReportWrite
  BY <1>20 DEF ReportWrite
<1>21. CASE ReportPost
  BY <1>21 DEF ReportPost
<1>22. CASE StopAsk
  BY <1>22 DEF StopAsk
<1>23. CASE StopPost
  BY <1>23 DEF StopPost, Posted
<1>24. CASE StopJoin
  BY <1>24 DEF StopJoin, Closed
<1> QED
  BY <1>1, <1>2, <1>3, <1>4, <1>5, <1>6, <1>7, <1>8, <1>9, <1>10, <1>11, <1>12, <1>13, <1>14, <1>15, <1>16, <1>17, <1>18, <1>19, <1>20, <1>21, <1>22, <1>23, <1>24
     DEF Next, PushUp, PullDown, Poll, MainStep

(* Acknowledgements are counted once. *)
LEMMA LedgerInv ==
    ASSUME TypeOK, AckLedger, Asked, Next
    PROVE  AckLedger' /\ Asked'
<1> USE DEF TypeOK, AckLedger, Asked, feed, datagram, report, sockets, polls, pushes, history
<1>1. CASE Receive
  BY <1>1 DEF Receive
<1>2. CASE Recycle
  BY <1>2 DEF Recycle
<1>3. CASE Fetch
  BY <1>3 DEF Fetch, NothingToSend, LoopEnd
<1>4. CASE Filter
  BY <1>4 DEF Filter
<1>5. CASE CloseArray
  BY <1>5 DEF CloseArray, LoopEnd
<1>6. CASE AddReport
  BY <1>6 DEF AddReport
<1>7. CASE Connect
  BY <1>7 DEF Connect, NoDatagram, LoopEnd, Counts
<1>8. CASE Send
  BY <1>8 DEF Send, NoDatagram, Receptions, Counts
<1>9. CASE RecvOther
  BY <1>9 DEF RecvOther, LoopEnd
<1>10. CASE RecvAck
  BY <1>10 DEF RecvAck, LoopEnd
<1>11. CASE AutoQuit
  BY <1>11 DEF AutoQuit
<1>12. CASE Top
  BY <1>12 DEF Top, TooFewAnswered, Closed
<1>13. CASE OpenDown
  BY <1>13 DEF OpenDown
<1>14. CASE OpenUp
  BY <1>14 DEF OpenUp, RenewsUp
<1>15. CASE Offline
  BY <1>15 DEF Offline
<1>16. CASE Request
  BY <1>16 DEF Request
<1>17. CASE PullAck
  BY <1>17 DEF PullAck, FirstAck
<1>18. CASE KeepaliveOver
  BY <1>18 DEF KeepaliveOver
<1>19. CASE ReportCopy
  BY <1>19 DEF ReportCopy, Reset
<1>20. CASE ReportWrite
  BY <1>20 DEF ReportWrite
<1>21. CASE ReportPost
  BY <1>21 DEF ReportPost
<1>22. CASE StopAsk
  BY <1>22 DEF StopAsk
<1>23. CASE StopPost
  BY <1>23 DEF StopPost, Posted
<1>24. CASE StopJoin
  BY <1>24 DEF StopJoin, Closed
<1> QED
  BY <1>1, <1>2, <1>3, <1>4, <1>5, <1>6, <1>7, <1>8, <1>9, <1>10, <1>11, <1>12, <1>13, <1>14, <1>15, <1>16, <1>17, <1>18, <1>19, <1>20, <1>21, <1>22, <1>23, <1>24
     DEF Next, PushUp, PullDown, Poll, MainStep

(* The reports' counts. *)
LEMMA BooksInv ==
    ASSUME TypeOK, CountedOnce, HandsEmpty, Next
    PROVE  CountedOnce' /\ HandsEmpty'
<1> USE DEF TypeOK, CountedOnce, HandsEmpty, Counts, NoReport, feed, datagram, report, sockets, polls, pushes, history
<1>1. CASE Receive
  BY <1>1 DEF Receive
<1>2. CASE Recycle
  BY <1>2 DEF Recycle
<1>3. CASE Fetch
  BY <1>3 DEF Fetch, NothingToSend, LoopEnd
<1>4. CASE Filter
  BY <1>4 DEF Filter
<1>5. CASE CloseArray
  BY <1>5 DEF CloseArray, LoopEnd
<1>6. CASE AddReport
  BY <1>6 DEF AddReport
<1>7. CASE Connect
  BY <1>7 DEF Connect, NoDatagram, LoopEnd, Counts
<1>8. CASE Send
  BY <1>8 DEF Send, NoDatagram, Receptions, Counts
<1>9. CASE RecvOther
  BY <1>9 DEF RecvOther, LoopEnd
<1>10. CASE RecvAck
  BY <1>10 DEF RecvAck, LoopEnd
<1>11. CASE AutoQuit
  BY <1>11 DEF AutoQuit
<1>12. CASE Top
  BY <1>12 DEF Top, TooFewAnswered, Closed
<1>13. CASE OpenDown
  BY <1>13 DEF OpenDown
<1>14. CASE OpenUp
  BY <1>14 DEF OpenUp, RenewsUp
<1>15. CASE Offline
  BY <1>15 DEF Offline
<1>16. CASE Request
  BY <1>16 DEF Request
<1>17. CASE PullAck
  BY <1>17 DEF PullAck, FirstAck
<1>18. CASE KeepaliveOver
  BY <1>18 DEF KeepaliveOver
<1>19. CASE ReportCopy
  BY <1>19 DEF ReportCopy, Reset
<1>20. CASE ReportWrite
  BY <1>20 DEF ReportWrite
<1>21. CASE ReportPost
  BY <1>21 DEF ReportPost
<1>22. CASE StopAsk
  BY <1>22 DEF StopAsk
<1>23. CASE StopPost
  BY <1>23 DEF StopPost, Posted
<1>24. CASE StopJoin
  BY <1>24 DEF StopJoin, Closed
<1> QED
  BY <1>1, <1>2, <1>3, <1>4, <1>5, <1>6, <1>7, <1>8, <1>9, <1>10, <1>11, <1>12, <1>13, <1>14, <1>15, <1>16, <1>17, <1>18, <1>19, <1>20, <1>21, <1>22, <1>23, <1>24
     DEF Next, PushUp, PullDown, Poll, MainStep

(* The sockets outside a renewal. *)
LEMMA SocketInv ==
    ASSUME TypeOK, SocketsOpen, HalfRenewed, Next
    PROVE  SocketsOpen' /\ HalfRenewed'
<1> USE DEF TypeOK, SocketsOpen, HalfRenewed, feed, datagram, report, sockets, polls, pushes, history
<1>1. CASE Receive
  BY <1>1 DEF Receive
<1>2. CASE Recycle
  BY <1>2 DEF Recycle
<1>3. CASE Fetch
  BY <1>3 DEF Fetch, NothingToSend, LoopEnd
<1>4. CASE Filter
  BY <1>4 DEF Filter
<1>5. CASE CloseArray
  BY <1>5 DEF CloseArray, LoopEnd
<1>6. CASE AddReport
  BY <1>6 DEF AddReport
<1>7. CASE Connect
  <2>1. CASE sock_up = NoSock
    <3>1. PICK s \in init_sock(fds, "port_up") : fds' = s.fds /\ sock_up' = s.sock
      BY <1>7, <2>1 DEF Connect
    <3>2. /\ \A d \in Fds : fds[d] # "closed" => s.fds[d] = fds[d]
          /\ s.sock # NoSock => fds[s.sock] = "closed" /\ s.fds[s.sock] = "port_up"
      BY <3>1, InitSock DEF Ports
    <3> QED
      BY <1>7, <3>1, <3>2 DEF Connect
  <2>2. CASE sock_up # NoSock
    BY <1>7, <2>2 DEF Connect
  <2> QED
    BY <2>1, <2>2
<1>8. CASE Send
  BY <1>8 DEF Send, NoDatagram, Receptions, Counts
<1>9. CASE RecvOther
  BY <1>9 DEF RecvOther, LoopEnd
<1>10. CASE RecvAck
  BY <1>10 DEF RecvAck, LoopEnd
<1>11. CASE AutoQuit
  BY <1>11 DEF AutoQuit
<1>12. CASE Top
  BY <1>12 DEF Top, TooFewAnswered, Closed
<1>13. CASE OpenDown
  <2>1. PICK s \in init_sock(fds, "port_down") : fds' = s.fds /\ sock_down' = s.sock
    BY <1>13 DEF OpenDown
  <2>2. /\ \A d \in Fds : fds[d] # "closed" => s.fds[d] = fds[d]
        /\ s.sock # NoSock => fds[s.sock] = "closed" /\ s.fds[s.sock] = "port_down"
    BY <2>1, InitSock DEF Ports
  <2> QED
    BY <1>13, <2>1, <2>2 DEF OpenDown
<1>14. CASE OpenUp
  <2>1. PICK s \in init_sock(fds, "port_down") : fds' = s.fds /\ sock_up' = s.sock
    BY <1>14 DEF OpenUp, RenewsUp
  <2>2. /\ \A d \in Fds : fds[d] # "closed" => s.fds[d] = fds[d]
        /\ s.sock # NoSock => fds[s.sock] = "closed" /\ s.fds[s.sock] = "port_down"
    BY <2>1, InitSock DEF Ports
  <2> QED
    BY <1>14, <2>1, <2>2 DEF OpenUp
<1>15. CASE Offline
  BY <1>15 DEF Offline
<1>16. CASE Request
  BY <1>16 DEF Request
<1>17. CASE PullAck
  BY <1>17 DEF PullAck, FirstAck
<1>18. CASE KeepaliveOver
  BY <1>18 DEF KeepaliveOver
<1>19. CASE ReportCopy
  BY <1>19 DEF ReportCopy, Reset
<1>20. CASE ReportWrite
  BY <1>20 DEF ReportWrite
<1>21. CASE ReportPost
  BY <1>21 DEF ReportPost
<1>22. CASE StopAsk
  BY <1>22 DEF StopAsk
<1>23. CASE StopPost
  BY <1>23 DEF StopPost, Posted
<1>24. CASE StopJoin
  BY <1>24 DEF StopJoin
<1> QED
  BY <1>1, <1>2, <1>3, <1>4, <1>5, <1>6, <1>7, <1>8, <1>9, <1>10, <1>11, <1>12, <1>13, <1>14, <1>15, <1>16, <1>17, <1>18, <1>19, <1>20, <1>21, <1>22, <1>23, <1>24
     DEF Next, PushUp, PullDown, Poll, MainStep

LEMMA StutterInv == Inv /\ UNCHANGED vars => Inv'
BY DEF Inv, vars, TypeOK, AckLedger, Asked, SocketsOpen, HalfRenewed, CountedOnce, HandsEmpty,
       Counts, feed, datagram, report, sockets, polls, pushes, history

LEMMA NextInv == Inv /\ [Next]_vars => Inv'
<1>1. ASSUME Inv, Next PROVE Inv'
  BY <1>1, TypeInv, LedgerInv, BooksInv, SocketInv DEF Inv
<1> QED
  BY <1>1, StutterInv

(* The inductive invariant holds in every reachable state. *)
THEOREM Invariance == Spec => []Inv
BY InitInv, NextInv, PTL DEF Spec

(* The variables keep their types, however often the link fails. *)
THEOREM TypeCorrect == Spec => []TypeOK
<1>1. Inv => TypeOK
  BY DEF Inv
<1> QED
  BY <1>1, Invariance, PTL

(* No answer is counted twice, for any number of requests, any ratio and any
   threshold.                                                                *)
THEOREM AnswersCountedOnce == Spec => []AckLedger
<1>1. Inv => AckLedger
  BY DEF Inv
<1> QED
  BY <1>1, Invariance, PTL

(* Outside a renewal both threads hold open sockets, their own, or none. *)
THEOREM SocketsUsable == Spec => []SocketsOpen
<1>1. Inv => SocketsOpen
  BY DEF Inv
<1> QED
  BY <1>1, Invariance, PTL

(* Every packet counted as forwarded is reported at most once, and goes missing
   only with a report that is dropped or overwritten.                        *)
THEOREM ReportsAddUp == Spec => []CountedOnce
<1>1. Inv => CountedOnce
  BY DEF Inv
<1> QED
  BY <1>1, Invariance, PTL
=============================================================================
