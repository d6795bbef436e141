--------------------------- MODULE LbtScanProofs ---------------------------
(***************************************************************************)
(* Proofs about LbtScan, for every value of its constants.                 *)
(***************************************************************************)
EXTENDS LbtScan, TLAPS

Server == [at : ServerPlaces, pkt : Packet, time : Nat, slot : Slots]

(* No reading of the counter is ahead of it. *)
Clock ==
    /\ 1 <= now /\ now <= MaxTime /\ scan.hal <= now
    /\ \A s \in Servers : server[s].time <= now

(* The timestamps that are about were asked for. *)
Known ==
    /\ \A t \in asked : t > 0
    /\ \A j \in Slots : slots[j].count \in asked \cup {0}
    /\ \A p \in queue : p.count \in asked /\ p.count > now
    /\ \A s \in Servers : server[s].at # "idle" => server[s].pkt.count \in asked
    /\ scan.at \in {"ask", "answer"} => scan.pkt.count \in asked

(* A timestamp a server's thread is busy with is no other thread's and not in
   the queue, and until it is written no slot has it and none was scanned for
   it, unless it was asked for twice.                                        *)
Unique ==
    /\ \A s \in Servers : \A r \in Servers :
         s # r /\ server[s].at # "idle" /\ server[r].at # "idle"
           /\ server[s].pkt.count = server[r].pkt.count
         => server[s].pkt.count \in twice
    /\ \A s \in Servers : \A p \in queue :
         server[s].at # "idle" /\ server[s].pkt.count = p.count => p.count \in twice
Fresh ==
    \A s \in Servers : server[s].at \in {"search", "freq", "count"} =>
        /\ \A j \in Slots : slots[j].count = server[s].pkt.count
                              => server[s].pkt.count \in twice
        /\ scan.at \in {"ask", "answer"} /\ scan.pkt.count = server[s].pkt.count
             => server[s].pkt.count \in twice

(* Two threads that write one slot were seen to choose it. *)
Paired ==
    \A s \in Servers : \A r \in Servers :
        s # r /\ server[s].at \in Writing /\ server[r].at \in Writing
          /\ server[s].slot = server[r].slot
        => server[s].pkt.count \in crossed

(* How far a server's thread is with its slot: the slot it was given has a
   timestamp in the past until it writes the packet's, and the frequency is
   written before.                                                           *)
Past ==
    \A s \in Servers : server[s].at \in {"freq", "count"} =>
        LET c == slots[server[s].slot].count IN c < now \/ c \in crossed
Tuned ==
    \A s \in Servers : server[s].at = "count" =>
        \/ slots[server[s].slot].freq = server[s].pkt.freq
        \/ server[s].pkt.count \in crossed
Stamped ==
    \A s \in Servers : server[s].at = "flag" =>
        LET c == slots[server[s].slot].count IN
          c \in {0, server[s].pkt.count} \/ c \in Excused
Given ==
    \A s \in Servers :
        server[s].at \in {"flag", "queue"} /\ server[s].pkt.count > now =>
            \A j \in Slots : slots[j].count = server[s].pkt.count =>
                slots[j].freq = server[s].pkt.freq \/ server[s].pkt.count \in Excused

(* A slot with the timestamp of a queued packet has its frequency too, and no
   two slots have the same timestamp to come.                                *)
Queued ==
    \A p \in queue : \A j \in Slots :
        slots[j].count = p.count => slots[j].freq = p.freq \/ p.count \in Excused
Apart ==
    \A j \in Slots : \A k \in Slots :
        j # k /\ slots[j].count > now /\ slots[j].count = slots[k].count
        => slots[j].count \in Excused

(* What is asked of the modem is what the slot says, and no other slot says, as
   long as the packet is still to come.                                      *)
Scanned ==
    scan.at \in {"ask", "answer"} /\ scan.pkt.count > now =>
        /\ \A j \in Slots : j # scan.slot /\ slots[j].count = scan.pkt.count
                              => scan.pkt.count \in Excused
        /\ scan.at = "answer" /\ slots[scan.slot].count = scan.pkt.count =>
             slots[scan.slot].freq = scan.pkt.freq \/ scan.pkt.count \in Excused

(* A scanned slot is given away only once the near edge of the window is passed. *)
Near ==
    scan.at \in {"ask", "answer"} =>
        /\ scan.pkt.count - scan.hal > WinLow
        /\ \/ slots[scan.slot].count = scan.pkt.count
           \/ now - scan.hal > WinLow
           \/ scan.pkt.count \in crossed

(* A flag is the last answer for the packet of its slot, unless that packet's
   time has passed or the flag has still to be reset for a new packet.       *)
PacketOf(j) == [count |-> slots[j].count, freq |-> slots[j].freq]
Resetting(j) == \E s \in Servers : server[s].at = "flag" /\ server[s].slot = j
Flags ==
    \A j \in Slots :
        slots[j].free /\ slots[j].count > now /\ ~Resetting(j)
        => PacketOf(j) \in heard \/ slots[j].count \in Excused

Inv ==
    /\ TypeOK /\ Clock /\ Known /\ Unique /\ Fresh /\ Paired
    /\ Past /\ Tuned /\ Stamped /\ Given
    /\ Queued /\ Apart /\ Scanned /\ Near /\ Flags

-----------------------------------------------------------------------------
(* What the variables are made of. *)
LEMMA Fields ==
    ASSUME TypeOK
    PROVE  /\ now \in Nat /\ scan.hal \in Nat /\ scan.slot \in Slots
           /\ scan.pkt \in Packet /\ scan.pkt.count \in Nat
           /\ \A s \in Servers :
                /\ server[s] \in Server /\ server[s].time \in Nat
                /\ server[s].slot \in Slots /\ server[s].pkt \in Packet
                /\ server[s].pkt.count \in Nat
                /\ server[s].pkt.freq \in Freqs \cup {NoFreq}
           /\ \A j \in Slots : /\ slots[j] \in Slot /\ slots[j].count \in Nat
                               /\ slots[j].freq \in Freqs \cup {NoFreq}
                               /\ slots[j].free \in BOOLEAN
           /\ \A p \in queue : p \in Packet /\ p.count \in Nat
BY DEF TypeOK, Packet, Slot, Server

(* One of lbt_enqueue's threads goes on. *)
LEMMA ToPlaceFields ==
    ASSUME TypeOK, NEW s \in Servers, NEW place \in ServerPlaces, ToPlace(s, place)
    PROVE  /\ server' \in [Servers -> Server]
           /\ server'[s].at = place
           /\ \A r \in Servers : /\ r # s => server'[r] = server[r]
                                 /\ server'[r].pkt = server[r].pkt
                                 /\ server'[r].time = server[r].time
                                 /\ server'[r].slot = server[r].slot
BY DEF TypeOK, ToPlace, Server

LEMMA Reset == Idle \in Server /\ Waiting \in [at : ScanPlaces, slot : Slots, hal : Nat, pkt : Packet]
<1>1. 1 \in Slots
  BY LbtAssumption DEF Slots
<1> QED
  BY <1>1 DEF Idle, Waiting, Server, ServerPlaces, ScanPlaces, NoPacket, Packet

LEMMA InitInv == Init => Inv
<1> SUFFICES ASSUME Init PROVE Inv
  OBVIOUS
<1>0. 1 \in Slots /\ \A j \in Slots : slots[j] = [count |-> 0, freq |-> NoFreq, free |-> FALSE]
  BY LbtAssumption DEF Init, Slots
<1>1. /\ \A s \in Servers : server[s].at = "idle" /\ server[s].time = 0
      /\ scan.at = "pass" /\ scan.hal = 0
  BY DEF Init, Idle, Waiting
<1>2. TypeOK
  BY <1>0, Reset DEF Init, TypeOK, Slot, Server
<1>3. Clock /\ Known
  BY <1>0, <1>1, LbtAssumption DEF Init, Clock, Known
<1>4. Unique /\ Fresh /\ Paired
  BY <1>1 DEF Unique, Fresh, Paired, Writing
<1>5. Past /\ Tuned /\ Stamped /\ Given
  BY <1>1 DEF Past, Tuned, Stamped, Given
<1>6. Queued /\ Apart /\ Scanned /\ Near /\ Flags
  BY <1>0, <1>1 DEF Init, Queued, Apart, Scanned, Near, Flags
<1> QED
  BY <1>2, <1>3, <1>4, <1>5, <1>6 DEF Inv

(* What was excused stays so. *)
LEMMA StillExcused ==
    ASSUME twice \subseteq twice', crossed \subseteq crossed', late \subseteq late'
    PROVE  Excused \subseteq Excused'
BY DEF Excused

(* A downlink comes. *)
LEMMA RequestInv ==
    ASSUME Inv, NEW s \in Servers, NEW lead \in Leads, NEW f \in Freqs, Request(s, lead, f)
    PROVE  Inv'
<1> USE DEF Inv
<1> DEFINE c == now + lead
<1>1. c \in Nat /\ c > 0 /\ now \in Nat /\ 1 \in Slots
  BY Fields, LbtAssumption DEF Clock, Slots
<1>2. /\ server' = [server EXCEPT ![s] = [at |-> "search", time |-> now, slot |-> 1,
                                          pkt |-> [count |-> c, freq |-> f]]]
      /\ asked' = asked \cup {c} /\ twice' = twice \cup ({c} \cap asked)
      /\ requests' = requests + 1
      /\ server[s].at = "idle"
      /\ UNCHANGED <<now, slots, scan, queue, heard, sent, crossed, late>>
  BY DEF Request
<1>3. /\ server' \in [Servers -> Server]
      /\ \A r \in Servers : r # s => server'[r] = server[r]
      /\ server'[s].at = "search" /\ server'[s].pkt.count = c /\ server'[s].time = now
  BY <1>1, <1>2 DEF TypeOK, Server, Packet, ServerPlaces
<1>4. /\ twice \subseteq twice' /\ crossed \subseteq crossed' /\ late \subseteq late'
      /\ c \in asked => c \in twice'
  BY <1>2
<1>5. TypeOK'
  <2>1. asked \subseteq Nat /\ twice \subseteq Nat /\ requests \in Nat
    BY DEF TypeOK
  <2>2. requests' \in Nat
    BY <1>2, <2>1
  <2>3. asked' \subseteq Nat
    BY <1>1, <1>2, <2>1
  <2>4. twice' \subseteq Nat
    BY <1>2, <2>1
  <2> QED
    BY <1>2, <1>3, <2>2, <2>3, <2>4 DEF TypeOK, Server
<1>6. Clock' /\ Known'
  BY <1>1, <1>2, <1>3 DEF Clock, Known
<1>7. Unique'
  BY <1>2, <1>3, <1>4 DEF Unique, Known
<1>8. Fresh'
  BY <1>1, <1>2, <1>3, <1>4 DEF Fresh, Known
<1>9. Paired' /\ Past' /\ Tuned'
  BY <1>2, <1>3 DEF Paired, Past, Tuned, Writing
<1>10. Stamped' /\ Given'
  BY <1>2, <1>3, <1>4, StillExcused DEF Stamped, Given
<1>11. Queued' /\ Apart' /\ Scanned' /\ Near'
  BY <1>2, <1>4, StillExcused DEF Queued, Apart, Scanned, Near
<1>12. Flags'
  BY <1>2, <1>3, <1>4, StillExcused DEF Flags, PacketOf, Resetting
<1> QED
  BY <1>5, <1>6, <1>7, <1>8, <1>9, <1>10, <1>11, <1>12

(* A slot is looked for. *)
LEMMA SearchInv ==
    ASSUME Inv, NEW s \in Servers, Search(s)
    PROVE  Inv'
<1> USE DEF Inv
<1>1. /\ UNCHANGED <<now, slots, scan, queue, requests, heard, sent, asked, twice, late>>
      /\ server[s].at = "search"
  BY DEF Search
<1>2. /\ server' \in [Servers -> Server]
      /\ \A r \in Servers : /\ r # s => server'[r] = server[r]
                            /\ server'[r].pkt = server[r].pkt
                            /\ server'[r].time = server[r].time
      /\ server'[s].at \in {"search", "freq", "queue"}
      /\ server'[s].at = "freq" =>
           /\ server'[s].slot = server[s].slot
           /\ slots[server[s].slot].count < server[s].time
           /\ crossed' = crossed \cup Crossing(s)
      /\ server'[s].at # "freq" => crossed' = crossed
  <2>0. {"freq", "queue"} \subseteq ServerPlaces
    BY DEF ServerPlaces
  <2>1. CASE /\ IsFreeSlot(server[s].slot, server[s].time) /\ ToPlace(s, "freq")
             /\ crossed' = crossed \cup Crossing(s)
    BY <2>0, <2>1, ToPlaceFields DEF IsFreeSlot
  <2>2. CASE /\ server[s].slot < NB_LBT_QUEUE /\ UNCHANGED crossed
             /\ server' = [server EXCEPT ![s].slot = @ + 1]
    <3>1. server[s].slot + 1 \in Slots
      BY <2>2, Fields, LbtAssumption DEF Slots
    <3>2. server \in [Servers -> Server]
      BY DEF TypeOK, Server
    <3> QED
      BY <1>1, <2>2, <3>1, <3>2 DEF Server
  <2>3. CASE ToPlace(s, "queue") /\ UNCHANGED crossed
    BY <2>0, <2>3, ToPlaceFields
  <2> QED
    BY <2>1, <2>2, <2>3 DEF Search
<1>3. crossed \subseteq crossed' /\ crossed' \subseteq Nat
  <2>1. Rivals(s) \cup {s} \subseteq Servers
    BY DEF Rivals
  <2>2. Crossing(s) \subseteq Nat
    BY <2>1, Fields DEF Crossing
  <2>3. crossed \subseteq Nat
    BY DEF TypeOK
  <2> QED
    BY <1>2, <2>2, <2>3
<1>4. Excused \subseteq Excused'
  BY <1>1, <1>3, StillExcused
<1>5. TypeOK'
  BY <1>1, <1>2, <1>3 DEF TypeOK, Server
<1>6. Clock' /\ Known'
  BY <1>1, <1>2 DEF Clock, Known
<1>7. Unique' /\ Fresh'
  BY <1>1, <1>2 DEF Unique, Fresh
<1>8. Paired'
  <2> SUFFICES ASSUME NEW r \in Servers, NEW q \in Servers, r # q,
                      server'[r].at \in Writing, server'[q].at \in Writing,
                      server'[r].slot = server'[q].slot
               PROVE  server[r].pkt.count \in crossed'
    BY <1>2 DEF Paired
  <2>1. CASE r # s /\ q # s
    BY <1>2, <1>3, <2>1 DEF Paired
  <2>2. CASE r = s
    <3>1. server'[s].at = "freq"
      BY <1>2, <2>2 DEF Writing
    <3>2. q \in Rivals(s)
      BY <1>2, <2>2, <3>1 DEF Rivals
    <3>3. server[s].pkt.count \in Crossing(s)
      BY <3>2 DEF Crossing
    <3> QED
      BY <1>2, <2>2, <3>1, <3>3
  <2>3. CASE q = s
    <3>1. server'[s].at = "freq"
      BY <1>2, <2>3 DEF Writing
    <3>2. r \in Rivals(s)
      BY <1>2, <2>3, <3>1 DEF Rivals
    <3>3. server[r].pkt.count \in Crossing(s)
      BY <3>2 DEF Crossing
    <3> QED
      BY <1>2, <3>1, <3>3
  <2> QED
    BY <2>1, <2>2, <2>3
<1>9. Past'
  <2> SUFFICES ASSUME NEW r \in Servers, server'[r].at \in {"freq", "count"}
               PROVE  LET c == slots[server'[r].slot].count IN c < now \/ c \in crossed'
    BY <1>1 DEF Past
  <2>1. CASE r # s
    BY <1>2, <1>3, <2>1 DEF Past
  <2>2. CASE r = s
    BY <1>2, <2>2, Fields DEF Clock
  <2> QED
    BY <2>1, <2>2
<1>10. Tuned'
  BY <1>1, <1>2, <1>3 DEF Tuned
<1>11. Stamped'
  BY <1>1, <1>2, <1>4 DEF Stamped
<1>12. Given'
  <2> SUFFICES ASSUME NEW r \in Servers, server'[r].at \in {"flag", "queue"},
                      server[r].pkt.count > now, NEW j \in Slots,
                      slots[j].count = server[r].pkt.count
               PROVE  slots[j].freq = server[r].pkt.freq \/ server[r].pkt.count \in Excused'
    BY <1>1, <1>2 DEF Given
  <2>1. CASE r # s
    BY <1>2, <1>4, <2>1 DEF Given
  <2>2. CASE r = s
    <3>1. server[s].pkt.count \in twice
      BY <1>1, <2>2 DEF Fresh
    <3> QED
      BY <1>4, <2>2, <3>1 DEF Excused
  <2> QED
    BY <2>1, <2>2
<1>13. Queued' /\ Apart' /\ Scanned' /\ Near'
  BY <1>1, <1>3, <1>4 DEF Queued, Apart, Scanned, Near
<1>14. Flags'
  BY <1>1, <1>2, <1>4 DEF Flags, PacketOf, Resetting
<1> QED
  BY <1>5, <1>6, <1>7, <1>8, <1>9, <1>10, <1>11, <1>12, <1>13, <1>14

(* The three writes of lbt_enqueue. *)
LEMMA WriteFreqInv ==
    ASSUME Inv, NEW s \in Servers, WriteFreq(s)
    PROVE  Inv'
<1> USE DEF Inv
<1> DEFINE i == server[s].slot
<1>1. /\ UNCHANGED <<now, scan, queue, requests, heard, sent, asked, twice, crossed, late>>
      /\ server[s].at = "freq" /\ ToPlace(s, "count") /\ "count" \in ServerPlaces
  BY DEF WriteFreq, hist, ServerPlaces
<1>2. /\ server' \in [Servers -> Server]
      /\ server'[s].at = "count"
      /\ \A r \in Servers : /\ r # s => server'[r] = server[r]
                            /\ server'[r].pkt = server[r].pkt
                            /\ server'[r].time = server[r].time
                            /\ server'[r].slot = server[r].slot
  BY <1>1, ToPlaceFields
<1>3. i \in Slots /\ server[s].pkt.freq \in Freqs \cup {NoFreq}
  BY Fields
<1>4. /\ slots' \in [Slots -> Slot]
      /\ \A j \in Slots : slots'[j].count = slots[j].count
                          /\ slots'[j].free = slots[j].free
      /\ \A j \in Slots : j # i => slots'[j] = slots[j]
      /\ slots'[i].freq = server[s].pkt.freq
  BY <1>3 DEF WriteFreq, TypeOK, Slot
<1>5. slots[i].count > now => slots[i].count \in Excused
  BY <1>1, <1>3, Fields DEF Past, Excused
<1>6. Excused \subseteq Excused'
  BY <1>1, StillExcused
<1>7. TypeOK'
  BY <1>1, <1>2, <1>4 DEF TypeOK, Server
<1>8. Clock' /\ Known' /\ Apart'
  BY <1>1, <1>2, <1>4, <1>6 DEF Clock, Known, Apart
<1>9. Unique' /\ Fresh' /\ Paired'
  BY <1>1, <1>2, <1>4 DEF Unique, Fresh, Paired, Writing
<1>10. Past' /\ Stamped' /\ Near'
  BY <1>1, <1>2, <1>4, <1>6, Fields DEF Past, Stamped, Near
<1>11. Tuned'
  <2> SUFFICES ASSUME NEW r \in Servers, server'[r].at = "count"
               PROVE  \/ slots'[server[r].slot].freq = server[r].pkt.freq
                      \/ server[r].pkt.count \in crossed
    BY <1>1, <1>2 DEF Tuned
  <2>1. CASE r = s
    BY <1>4, <2>1
  <2>2. CASE r # s /\ server[r].slot = i
    BY <1>1, <1>2, <2>2 DEF Paired, Writing
  <2>3. CASE r # s /\ server[r].slot # i
    BY <1>2, <1>4, <2>3, Fields DEF Tuned
  <2> QED
    BY <2>1, <2>2, <2>3
<1>12. Given'
  <2> SUFFICES ASSUME NEW r \in Servers, server'[r].at \in {"flag", "queue"},
                      server[r].pkt.count > now, NEW j \in Slots,
                      slots[j].count = server[r].pkt.count
               PROVE  slots'[j].freq = server[r].pkt.freq \/ server[r].pkt.count \in Excused'
    BY <1>1, <1>2, <1>4 DEF Given
  <2>1. r # s
    BY <1>2
  <2>2. CASE j = i
    BY <1>5, <1>6, <2>2
  <2>3. CASE j # i
    BY <1>2, <1>4, <1>6, <2>1, <2>3 DEF Given
  <2> QED
    BY <2>2, <2>3
<1>13. Queued'
  <2> SUFFICES ASSUME NEW p \in queue, NEW j \in Slots, slots[j].count = p.count
               PROVE  slots'[j].freq = p.freq \/ p.count \in Excused'
    BY <1>1, <1>4 DEF Queued
  <2>1. p.count > now
    BY DEF Known
  <2>2. CASE j = i
    BY <1>5, <1>6, <2>1, <2>2
  <2>3. CASE j # i
    BY <1>4, <1>6, <2>3 DEF Queued
  <2> QED
    BY <2>2, <2>3
<1>14. Scanned'
  BY <1>1, <1>4, <1>5, <1>6, Fields DEF Scanned
<1>15. Flags'
  <2> SUFFICES ASSUME NEW j \in Slots, slots[j].free, slots[j].count > now, ~Resetting(j)
               PROVE  PacketOf(j)' \in heard \/ slots[j].count \in Excused'
    BY <1>1, <1>2, <1>4 DEF Flags, Resetting
  <2>1. CASE j = i
    BY <1>5, <1>6, <2>1
  <2>2. CASE j # i
    <3>1. PacketOf(j)' = PacketOf(j)
      BY <1>4, <2>2 DEF PacketOf
    <3> QED
      BY <1>6, <3>1 DEF Flags
  <2> QED
    BY <2>1, <2>2
<1> QED
  BY <1>7, <1>8, <1>9, <1>10, <1>11, <1>12, <1>13, <1>14, <1>15

LEMMA WriteCountInv ==
    ASSUME Inv, NEW s \in Servers, WriteCount(s)
    PROVE  Inv'
<1> USE DEF Inv
<1> DEFINE i == server[s].slot
           c == server[s].pkt.count
<1>1. /\ UNCHANGED <<now, scan, queue, requests, heard, sent, asked, twice, crossed, late>>
      /\ server[s].at = "count" /\ ToPlace(s, "flag") /\ "flag" \in ServerPlaces
  BY DEF WriteCount, hist, ServerPlaces
<1>2. /\ server' \in [Servers -> Server]
      /\ server'[s].at = "flag"
      /\ \A r \in Servers : /\ r # s => server'[r] = server[r]
                            /\ server'[r].pkt = server[r].pkt
                            /\ server'[r].time = server[r].time
                            /\ server'[r].slot = server[r].slot
  BY <1>1, ToPlaceFields
<1>3. i \in Slots /\ c \in Nat
  BY Fields
<1>4. /\ slots' \in [Slots -> Slot]
      /\ \A j \in Slots : slots'[j].freq = slots[j].freq
                          /\ slots'[j].free = slots[j].free
      /\ \A j \in Slots : j # i => slots'[j] = slots[j]
      /\ slots'[i].count = c
  BY <1>3 DEF WriteCount, TypeOK, Slot
<1>5. /\ c \in asked
      /\ \A p \in queue : p.count = c => c \in Excused
      /\ \A j \in Slots : slots[j].count = c => c \in Excused
      /\ scan.at \in {"ask", "answer"} /\ scan.pkt.count = c => c \in Excused
      /\ \A r \in Servers : r # s /\ server[r].at # "idle" /\ server[r].pkt.count = c
                              => c \in twice /\ c \in Excused
      /\ \A r \in Servers : r # s /\ server[r].at \in Writing /\ server[r].slot = i
                              => c \in crossed /\ server[r].pkt.count \in crossed
  BY <1>1 DEF Known, Unique, Fresh, Paired, Excused, Writing
<1>6. Excused \subseteq Excused'
  BY <1>1, StillExcused
<1>7. TypeOK'
  BY <1>1, <1>2, <1>4 DEF TypeOK, Server
<1>8. Clock' /\ Known'
  BY <1>1, <1>2, <1>4, <1>5 DEF Clock, Known
<1>9. Unique' /\ Paired'
  BY <1>1, <1>2 DEF Unique, Paired, Writing
<1>10. Fresh'
  <2> SUFFICES ASSUME NEW r \in Servers, server'[r].at \in {"search", "freq", "count"}
               PROVE  /\ \A j \in Slots : slots'[j].count = server[r].pkt.count
                                            => server[r].pkt.count \in twice
                      /\ scan.at \in {"ask", "answer"} /\ scan.pkt.count = server[r].pkt.count
                           => server[r].pkt.count \in twice
    BY <1>1, <1>2 DEF Fresh
  <2>1. r # s /\ server[r].at \in {"search", "freq", "count"}
    BY <1>2
  <2>2. server[r].pkt.count = c => c \in twice
    BY <1>5, <2>1
  <2> QED
    BY <1>4, <2>1, <2>2 DEF Fresh
<1>11. Past' /\ Stamped'
  BY <1>1, <1>2, <1>4, <1>5, <1>6, Fields DEF Past, Stamped, Writing, Excused
<1>12. Tuned'
  BY <1>1, <1>2, <1>4, Fields DEF Tuned
<1>13. Given'
  <2> SUFFICES ASSUME NEW r \in Servers, server'[r].at \in {"flag", "queue"},
                      server[r].pkt.count > now, NEW j \in Slots,
                      slots'[j].count = server[r].pkt.count
               PROVE  slots[j].freq = server[r].pkt.freq \/ server[r].pkt.count \in Excused'
    BY <1>1, <1>2, <1>4 DEF Given
  <2>1. CASE r = s /\ j = i
    BY <1>1, <1>6, <2>1 DEF Tuned, Excused
  <2>2. CASE r = s /\ j # i
    BY <1>4, <1>5, <1>6, <2>2
  <2>3. CASE r # s /\ j = i
    <3>1. server[r].pkt.count = c /\ server[r].at # "idle"
      BY <1>2, <1>4, <2>3
    <3> QED
      BY <1>5, <1>6, <2>3, <3>1
  <2>4. CASE r # s /\ j # i
    BY <1>2, <1>4, <1>6, <2>4 DEF Given
  <2> QED
    BY <2>1, <2>2, <2>3, <2>4
<1>14. Queued'
  BY <1>1, <1>4, <1>5, <1>6 DEF Queued
<1>15. Apart'
  BY <1>1, <1>4, <1>5, <1>6 DEF Apart
<1>16. Scanned'
  <2>1. scan.at \in {"ask", "answer"} /\ scan.pkt.count = c => c \in Excused'
    BY <1>1, <1>5, <1>6 DEF Fresh, Excused
  <2>2. CASE scan.at \in {"ask", "answer"} /\ scan.pkt.count = c
    BY <1>1, <2>1, <2>2 DEF Scanned
  <2>3. CASE scan.at \in {"ask", "answer"} /\ scan.pkt.count # c
    <3>1. \A j \in Slots : slots'[j].count = scan.pkt.count =>
            slots[j].count = scan.pkt.count /\ slots'[j].freq = slots[j].freq
      BY <1>4, <2>3
    <3> QED
      BY <1>1, <1>6, <3>1, Fields DEF Scanned
  <2> QED
    BY <1>1, <2>2, <2>3 DEF Scanned
<1>17. Near'
  <2> SUFFICES ASSUME scan.at \in {"ask", "answer"}, scan.slot = i
               PROVE  now - scan.hal > WinLow \/ scan.pkt.count \in crossed
                      \/ slots'[scan.slot].count = scan.pkt.count
    BY <1>1, <1>4, Fields DEF Near
  <2>1. slots[i].count < now \/ slots[i].count \in crossed
    BY <1>1 DEF Past
  <2>2. scan.pkt.count - scan.hal > WinLow
    BY DEF Near
  <2>3. CASE slots[i].count = scan.pkt.count
    BY <2>1, <2>2, <2>3, Fields, LbtAssumption
  <2>4. CASE slots[i].count # scan.pkt.count
    BY <2>4 DEF Near
  <2> QED
    BY <2>3, <2>4
<1>18. Flags'
  <2> SUFFICES ASSUME NEW j \in Slots, slots'[j].free, slots'[j].count > now,
                      ~Resetting(j)'
               PROVE  PacketOf(j)' \in heard \/ slots'[j].count \in Excused'
    BY <1>1 DEF Flags
  <2>1. j # i
    BY <1>2 DEF Resetting
  <2>2. PacketOf(j)' = PacketOf(j) /\ slots'[j] = slots[j]
    BY <1>4, <2>1 DEF PacketOf
  <2>3. ~Resetting(j)
    BY <1>1, <1>2 DEF Resetting
  <2> QED
    BY <1>6, <2>2, <2>3 DEF Flags
<1> QED
  BY <1>7, <1>8, <1>9, <1>10, <1>11, <1>12, <1>13, <1>14, <1>15, <1>16, <1>17, <1>18

LEMMA WriteFlagInv ==
    ASSUME Inv, NEW s \in Servers, WriteFlag(s)
    PROVE  Inv'
<1> USE DEF Inv
<1> DEFINE i == server[s].slot
<1>1. /\ UNCHANGED <<now, scan, queue, requests, heard, sent, asked, twice, crossed, late>>
      /\ server[s].at = "flag" /\ ToPlace(s, "queue") /\ "queue" \in ServerPlaces
  BY DEF WriteFlag, hist, ServerPlaces
<1>2. /\ server' \in [Servers -> Server]
      /\ server'[s].at = "queue"
      /\ \A r \in Servers : /\ r # s => server'[r] = server[r]
                            /\ server'[r].pkt = server[r].pkt
                            /\ server'[r].time = server[r].time
                            /\ server'[r].slot = server[r].slot
  BY <1>1, ToPlaceFields
<1>3. /\ slots' \in [Slots -> Slot]
      /\ \A j \in Slots : slots'[j].freq = slots[j].freq
                          /\ slots'[j].count = slots[j].count
      /\ \A j \in Slots : j # i => slots'[j] = slots[j]
      /\ slots'[i].free = FALSE
  BY Fields DEF WriteFlag, TypeOK, Slot
<1>4. Excused \subseteq Excused'
  BY <1>1, StillExcused
<1>5. TypeOK'
  BY <1>1, <1>2, <1>3 DEF TypeOK, Server
<1>6. Clock' /\ Known' /\ Apart'
  BY <1>1, <1>2, <1>3, <1>4 DEF Clock, Known, Apart
<1>7. Unique' /\ Fresh' /\ Paired'
  BY <1>1, <1>2, <1>3 DEF Unique, Fresh, Paired, Writing
<1>8. Past' /\ Tuned' /\ Stamped'
  BY <1>1, <1>2, <1>3, <1>4, Fields DEF Past, Tuned, Stamped
<1>9. Given'
  BY <1>1, <1>2, <1>3, <1>4 DEF Given
<1>10. Queued' /\ Scanned' /\ Near'
  BY <1>1, <1>3, <1>4, Fields DEF Queued, Scanned, Near
<1>11. Flags'
  <2> SUFFICES ASSUME NEW j \in Slots, slots'[j].free, slots'[j].count > now,
                      ~Resetting(j)'
               PROVE  PacketOf(j)' \in heard \/ slots'[j].count \in Excused'
    BY <1>1 DEF Flags
  <2>1. j # i
    BY <1>3
  <2>2. PacketOf(j)' = PacketOf(j) /\ slots'[j] = slots[j]
    BY <1>3, <2>1 DEF PacketOf
  <2>3. ~Resetting(j)
    BY <1>2, <2>1 DEF Resetting
  <2> QED
    BY <1>4, <2>2, <2>3 DEF Flags
<1> QED
  BY <1>5, <1>6, <1>7, <1>8, <1>9, <1>10, <1>11

LEMMA EnqueueInv ==
    ASSUME Inv, NEW s \in Servers, Enqueue(s)
    PROVE  Inv'
<1> USE DEF Inv
<1>1. /\ UNCHANGED <<now, slots, scan, requests, heard, sent, asked, twice, crossed, late>>
      /\ server[s].at = "queue"
  BY DEF Enqueue, hist
<1>2. /\ server' \in [Servers -> Server]
      /\ server'[s].at = "idle" /\ server'[s].time = 0
      /\ \A r \in Servers : r # s => server'[r] = server[r]
  BY Reset DEF Enqueue, TypeOK, Server, Idle
<1>3. queue' = queue \/ (queue' = queue \cup {server[s].pkt} /\ server[s].pkt.count > now)
  BY DEF Enqueue
<1>4. Excused \subseteq Excused'
  BY <1>1, StillExcused
<1>5. TypeOK'
  BY <1>1, <1>2, <1>3, Fields DEF TypeOK, Server
<1>6. Clock'
  BY <1>1, <1>2, Fields DEF Clock
<1>7. Known'
  BY <1>1, <1>2, <1>3 DEF Known
<1>8. Unique'
  BY <1>1, <1>2, <1>3 DEF Unique
<1>9. Fresh' /\ Paired' /\ Past' /\ Tuned'
  BY <1>1, <1>2 DEF Fresh, Paired, Past, Tuned, Writing
<1>10. Stamped' /\ Given'
  BY <1>1, <1>2, <1>4 DEF Stamped, Given
<1>11. Queued'
  BY <1>1, <1>3, <1>4 DEF Queued, Given
<1>12. Apart' /\ Scanned' /\ Near'
  BY <1>1, <1>4 DEF Apart, Scanned, Near
<1>13. Flags'
  BY <1>1, <1>2, <1>4 DEF Flags, PacketOf, Resetting
<1> QED
  BY <1>5, <1>6, <1>7, <1>8, <1>9, <1>10, <1>11, <1>12, <1>13

-----------------------------------------------------------------------------
(* The next slot of a pass, or the next pass. *)
LEMMA AfterStays ==
    ASSUME TypeOK
    PROVE  /\ After(scan.slot) \in [at : ScanPlaces, slot : Slots, hal : Nat, pkt : Packet]
           /\ After(scan.slot).at \in {"test", "pass"}
           /\ After(scan.slot).hal \in {scan.hal, 0}
<1>0. /\ scan \in [at : ScanPlaces, slot : Slots, hal : Nat, pkt : Packet]
      /\ {"test", "pass"} \subseteq ScanPlaces /\ NoPacket \in Packet
  BY DEF TypeOK, ScanPlaces, NoPacket, Packet
<1>1. CASE scan.slot < NB_LBT_QUEUE
  <2>1. scan.slot + 1 \in Slots
    BY <1>0, <1>1, LbtAssumption DEF Slots
  <2> QED
    BY <1>0, <1>1, <2>1 DEF After
<1>2. CASE ~(scan.slot < NB_LBT_QUEUE)
  BY <1>2, Reset DEF After, Waiting
<1> QED
  BY <1>1, <1>2

(* A step of the scan that changes nothing but its own place, and asks nothing. *)
LEMMA ScanMoves ==
    ASSUME Inv, UNCHANGED <<now, slots, server, queue, requests, heard, sent, hist>>,
           scan' \in [at : ScanPlaces, slot : Slots, hal : Nat, pkt : Packet],
           scan'.hal <= now, scan'.at \notin {"ask", "answer"}
    PROVE  Inv'
<1> USE DEF Inv, hist
<1>1. Excused \subseteq Excused'
  BY StillExcused
<1>2. TypeOK' /\ Clock' /\ Known'
  BY DEF TypeOK, Clock, Known
<1>3. Unique' /\ Fresh' /\ Paired'
  BY DEF Unique, Fresh, Paired
<1>4. Past' /\ Tuned' /\ Stamped' /\ Given'
  BY <1>1 DEF Past, Tuned, Stamped, Given
<1>5. Queued' /\ Apart' /\ Scanned' /\ Near'
  BY <1>1 DEF Queued, Apart, Scanned, Near
<1>6. Flags'
  BY <1>1 DEF Flags, PacketOf, Resetting
<1> QED
  BY <1>2, <1>3, <1>4, <1>5, <1>6

LEMMA StartPassInv ==
    ASSUME Inv, NEW hal \in 0..now, StartPass(hal)
    PROVE  Inv'
<1>1. now \in Nat /\ hal \in Nat /\ hal <= now /\ 1 \in Slots /\ NoPacket \in Packet
  BY Fields, LbtAssumption DEF Inv, Slots, NoPacket, Packet
<1>2. scan' = [at |-> "test", slot |-> 1, hal |-> hal, pkt |-> NoPacket]
      /\ UNCHANGED <<now, slots, server, queue, requests, heard, sent, hist>>
  BY DEF StartPass
<1> QED
  BY <1>1, <1>2, ScanMoves DEF ScanPlaces

(* What is in the window lies ahead: the counter does not wrap. *)
LEMMA WindowAhead ==
    ASSUME NEW c \in Nat, NEW h \in Nat, h <= MaxTime, InWindow(Sub(c, h))
    PROVE  c - h > WinLow
BY LbtAssumption DEF InWindow, Sub

LEMMA TestInv ==
    ASSUME Inv, Test
    PROVE  Inv'
<1> USE DEF Inv
<1> DEFINE c == slots[scan.slot].count
<1>1. UNCHANGED <<now, slots, server, queue, requests, heard, sent, hist>>
  BY DEF Test
<1>2. /\ c \in Nat /\ scan.hal \in Nat /\ scan.hal <= now /\ scan.hal <= MaxTime /\ now \in Nat
      /\ now >= 1
  BY Fields, LbtAssumption DEF Clock
<1>3. CASE scan' = After(scan.slot) \/ scan' = [scan EXCEPT !.at = "clear"]
  <2>1. /\ scan' \in [at : ScanPlaces, slot : Slots, hal : Nat, pkt : Packet]
        /\ scan'.hal <= now /\ scan'.at \notin {"ask", "answer"}
    <3>1. CASE scan' = After(scan.slot)
      BY <1>2, <3>1, AfterStays
    <3>2. CASE scan' = [scan EXCEPT !.at = "clear"]
      BY <1>2, <3>2 DEF TypeOK, ScanPlaces
    <3> QED
      BY <1>3, <3>1, <3>2
  <2> QED
    BY <1>1, <2>1, ScanMoves
<1>4. CASE /\ InWindow(Sub(c, scan.hal))
           /\ scan' = [scan EXCEPT !.at = "ask", !.pkt = [NoPacket EXCEPT !.count = c]]
  <2>0. [NoPacket EXCEPT !.count = c] \in Packet /\ [NoPacket EXCEPT !.count = c].count = c
    BY <1>2 DEF NoPacket, Packet
  <2>1. /\ scan' \in [at : ScanPlaces, slot : Slots, hal : Nat, pkt : Packet]
        /\ scan'.hal = scan.hal /\ scan'.at = "ask"
        /\ scan'.slot = scan.slot /\ scan'.pkt.count = c /\ scan.slot \in Slots
    BY <1>4, <2>0 DEF TypeOK, ScanPlaces
  <2>2. c - scan.hal > WinLow
    BY <1>2, <1>4, WindowAhead
  <2>3. c > 0 /\ c \in asked
    BY <1>2, <2>1, <2>2, LbtAssumption DEF Known
  <2>4. Excused \subseteq Excused'
    BY <1>1, StillExcused DEF hist
  <2>5. TypeOK' /\ Clock' /\ Known'
    BY <1>1, <2>1, <2>3 DEF TypeOK, Clock, Known, hist
  <2>6. Unique' /\ Paired'
    BY <1>1 DEF Unique, Paired, hist
  <2>7. Fresh'
    BY <1>1, <2>1 DEF Fresh, hist
  <2>8. Past' /\ Tuned' /\ Stamped' /\ Given'
    BY <1>1, <2>4 DEF Past, Tuned, Stamped, Given, hist
  <2>9. Queued' /\ Apart'
    BY <1>1, <2>4 DEF Queued, Apart
  <2>10. Scanned'
    BY <1>1, <2>1, <2>4 DEF Scanned, Apart
  <2>11. Near'
    BY <1>1, <2>1, <2>2 DEF Near
  <2>12. Flags'
    BY <1>1, <2>4 DEF Flags, PacketOf, Resetting
  <2> QED
    BY <2>5, <2>6, <2>7, <2>8, <2>9, <2>10, <2>11, <2>12
<1> QED
  BY <1>3, <1>4 DEF Test

LEMMA AskInv ==
    ASSUME Inv, Ask
    PROVE  Inv'
<1> USE DEF Inv
<1>1. UNCHANGED <<now, slots, server, queue, requests, heard, sent, hist>> /\ scan.at = "ask"
  BY DEF Ask
<1>2. slots[scan.slot].freq \in Freqs \cup {NoFreq}
  BY Fields
<1>3. /\ scan' \in [at : ScanPlaces, slot : Slots, hal : Nat, pkt : Packet]
      /\ scan'.hal = scan.hal /\ scan'.at = "answer" /\ scan'.slot = scan.slot
      /\ scan'.pkt.count = scan.pkt.count /\ scan'.pkt.freq = slots[scan.slot].freq
  BY <1>2 DEF Ask, TypeOK, ScanPlaces, Packet
<1>4. Excused \subseteq Excused'
  BY <1>1, StillExcused DEF hist
<1>5. TypeOK' /\ Clock' /\ Known'
  BY <1>1, <1>3 DEF TypeOK, Clock, Known, hist
<1>6. Unique' /\ Fresh' /\ Paired'
  BY <1>1, <1>3 DEF Unique, Fresh, Paired, hist
<1>7. Past' /\ Tuned' /\ Stamped' /\ Given'
  BY <1>1, <1>4 DEF Past, Tuned, Stamped, Given, hist
<1>8. Queued' /\ Apart'
  BY <1>1, <1>4 DEF Queued, Apart
<1>9. Scanned' /\ Near'
  BY <1>1, <1>3, <1>4 DEF Scanned, Near, hist
<1>10. Flags'
  BY <1>1, <1>4 DEF Flags, PacketOf, Resetting
<1> QED
  BY <1>5, <1>6, <1>7, <1>8, <1>9, <1>10

LEMMA AnswerInv ==
    ASSUME Inv, NEW free \in BOOLEAN, Answer(free)
    PROVE  Inv'
<1> USE DEF Inv
<1> DEFINE i == scan.slot
<1>1. /\ UNCHANGED <<now, server, queue, requests, sent, asked, twice, crossed>>
      /\ scan.at = "answer" /\ scan' = After(i)
      /\ heard' = IF free THEN heard \cup {scan.pkt} ELSE heard \ {scan.pkt}
      /\ late' = IF slots[i].count = scan.pkt.count THEN late ELSE late \cup {slots[i].count}
  BY DEF Answer
<1>2. /\ slots' \in [Slots -> Slot]
      /\ \A j \in Slots : slots'[j].freq = slots[j].freq
                          /\ slots'[j].count = slots[j].count
      /\ \A j \in Slots : j # i => slots'[j] = slots[j]
      /\ slots'[i].free = free
  BY Fields DEF Answer, TypeOK, Slot
<1>3. /\ scan' \in [at : ScanPlaces, slot : Slots, hal : Nat, pkt : Packet]
      /\ scan'.hal <= now /\ scan'.at \in {"test", "pass"}
  <2>1. scan.hal <= now /\ 0 <= now
    BY Fields DEF Clock
  <2> QED
    BY <1>1, <2>1, AfterStays
<1>4. Excused \subseteq Excused'
  BY <1>1, StillExcused
<1>5. i \in Slots /\ scan.pkt \in Packet /\ scan.pkt.count \in Nat /\ late' \subseteq Nat
  BY <1>1, Fields DEF TypeOK
<1>6. TypeOK'
  BY <1>1, <1>2, <1>3, <1>5 DEF TypeOK
<1>7. Clock' /\ Known'
  BY <1>1, <1>2, <1>3 DEF Clock, Known
<1>8. Unique' /\ Fresh' /\ Paired'
  BY <1>1, <1>2, <1>3 DEF Unique, Fresh, Paired
<1>9. Past' /\ Tuned' /\ Stamped' /\ Given'
  BY <1>1, <1>2, <1>4, Fields DEF Past, Tuned, Stamped, Given
<1>10. Queued' /\ Apart' /\ Scanned' /\ Near'
  BY <1>1, <1>2, <1>3, <1>4 DEF Queued, Apart, Scanned, Near
<1>11. Flags'
  <2> SUFFICES ASSUME NEW j \in Slots, slots'[j].free, slots[j].count > now,
                      ~Resetting(j)
               PROVE  PacketOf(j) \in heard' \/ slots[j].count \in Excused'
    BY <1>1, <1>2 DEF Flags, Resetting, PacketOf
  <2>1. CASE j = i /\ slots[i].count # scan.pkt.count
    BY <1>1, <2>1 DEF Excused
  <2>2. CASE j = i /\ slots[i].count = scan.pkt.count
    <3>1. slots[i].freq = scan.pkt.freq \/ scan.pkt.count \in Excused
      BY <1>1, <2>2 DEF Scanned
    <3>2. free /\ scan.pkt \in heard'
      BY <1>1, <1>2, <2>2
    <3>3. slots[i].freq = scan.pkt.freq => PacketOf(i) = scan.pkt
      BY <1>5, <2>2 DEF PacketOf, Packet
    <3> QED
      BY <1>4, <2>2, <3>1, <3>2, <3>3
  <2>3. CASE j # i
    <3>1. PacketOf(j) \in heard \/ slots[j].count \in Excused
      BY <1>2, <2>3 DEF Flags
    <3>2. slots[j].count = scan.pkt.count => slots[j].count \in Excused
      BY <1>1, <2>3 DEF Scanned
    <3>3. PacketOf(j) = scan.pkt => slots[j].count = scan.pkt.count
      BY DEF PacketOf
    <3> QED
      BY <1>1, <1>4, <3>1, <3>2, <3>3
  <2> QED
    BY <2>1, <2>2, <2>3
<1> QED
  BY <1>6, <1>7, <1>8, <1>9, <1>10, <1>11

LEMMA ClearInv ==
    ASSUME Inv, Clear
    PROVE  Inv'
<1> USE DEF Inv
<1> DEFINE i == scan.slot
<1>1. /\ UNCHANGED <<now, server, queue, requests, heard, sent, asked, twice, crossed, late>>
      /\ scan' = After(i)
  BY DEF Clear, hist
<1>2. /\ slots' \in [Slots -> Slot]
      /\ \A j \in Slots : slots'[j].freq = slots[j].freq
                          /\ slots'[j].free = slots[j].free
      /\ \A j \in Slots : j # i => slots'[j] = slots[j]
      /\ slots'[i].count = 0
  BY Fields DEF Clear, TypeOK, Slot
<1>3. now \in Nat /\ now >= 1
  BY Fields DEF Clock
<1>4. /\ scan' \in [at : ScanPlaces, slot : Slots, hal : Nat, pkt : Packet]
      /\ scan'.hal <= now /\ scan'.at \in {"test", "pass"}
  <2>1. scan.hal <= now /\ 0 <= now
    BY <1>3 DEF Clock
  <2> QED
    BY <1>1, <2>1, AfterStays
<1>5. Excused \subseteq Excused'
  BY <1>1, StillExcused
<1>6. TypeOK'
  BY <1>1, <1>2, <1>4 DEF TypeOK
<1>7. Clock' /\ Known'
  BY <1>1, <1>2, <1>4 DEF Clock, Known
<1>8. \A s \in Servers : server[s].at # "idle" => server[s].pkt.count # 0
  BY DEF Known
<1>9. Unique' /\ Paired'
  BY <1>1 DEF Unique, Paired
<1>10. Fresh'
  BY <1>1, <1>2, <1>4, <1>8 DEF Fresh
<1>11. Past' /\ Tuned' /\ Stamped'
  BY <1>1, <1>2, <1>3, <1>5, Fields DEF Past, Tuned, Stamped
<1>12. Given'
  BY <1>1, <1>2, <1>5, <1>8 DEF Given
<1>13. Queued'
  <2>1. \A p \in queue : p.count # 0
    BY DEF Known
  <2> QED
    BY <1>1, <1>2, <1>5, <2>1 DEF Queued
<1>14. Apart' /\ Scanned' /\ Near'
  BY <1>1, <1>2, <1>3, <1>4, <1>5, Fields DEF Apart, Scanned, Near
<1>15. Flags'
  <2> SUFFICES ASSUME NEW j \in Slots, slots'[j].free, slots'[j].count > now,
                      ~Resetting(j)
               PROVE  PacketOf(j)' \in heard \/ slots'[j].count \in Excused'
    BY <1>1 DEF Flags, Resetting
  <2>1. j # i
    BY <1>2, <1>3
  <2>2. PacketOf(j)' = PacketOf(j) /\ slots'[j] = slots[j]
    BY <1>2, <2>1 DEF PacketOf
  <2> QED
    BY <1>5, <2>2 DEF Flags
<1> QED
  BY <1>6, <1>7, <1>9, <1>10, <1>11, <1>12, <1>13, <1>14, <1>15

-----------------------------------------------------------------------------
(* Time, and thread_jit: the queue only loses packets. *)
LEMMA QueueShrinks ==
    ASSUME Inv, UNCHANGED <<slots, server, scan, requests, heard, hist>>,
           now' \in Nat, now <= now', now' <= MaxTime,
           queue' \subseteq queue, \A p \in queue' : p.count > now',
           sent' \subseteq Packet
    PROVE  Inv'
<1> USE DEF Inv, hist
<1>1. Excused \subseteq Excused'
  BY StillExcused
<1>2. TypeOK'
  BY DEF TypeOK
<1>3. Clock' /\ Known'
  BY Fields, LbtAssumption DEF Clock, Known
<1>4. Unique' /\ Fresh' /\ Paired' /\ Tuned'
  BY DEF Unique, Fresh, Paired, Tuned
<1>5. Past' /\ Stamped'
  BY <1>1, Fields DEF Past, Stamped
<1>6. Given'
  BY <1>1, Fields DEF Given
<1>7. Queued' /\ Apart'
  BY <1>1, Fields DEF Queued, Apart
<1>8. Scanned' /\ Near'
  BY <1>1, Fields, LbtAssumption DEF Scanned, Near
<1>9. Flags'
  BY <1>1, Fields DEF Flags, PacketOf, Resetting
<1> QED
  BY <1>2, <1>3, <1>4, <1>5, <1>6, <1>7, <1>8, <1>9

LEMMA TakeInv ==
    ASSUME Inv, NEW p \in queue, Take(p)
    PROVE  Inv'
<1>1. /\ UNCHANGED <<now, slots, server, scan, requests, heard, hist>>
      /\ queue' = queue \ {p} /\ sent' \in {sent, sent \cup {p}}
  BY DEF Take
<1>2. /\ now \in Nat /\ now <= MaxTime /\ sent \subseteq Packet /\ p \in Packet
      /\ \A q \in queue : q.count > now
  BY DEF Inv, TypeOK, Clock, Known
<1>3. now' \in Nat /\ now <= now' /\ now' <= MaxTime /\ sent' \subseteq Packet
  BY <1>1, <1>2
<1> QED
  BY <1>1, <1>2, <1>3, QueueShrinks

LEMMA TickInv ==
    ASSUME Inv, Tick
    PROVE  Inv'
<1>1. /\ UNCHANGED <<slots, server, scan, requests, heard, sent, hist>>
      /\ now' = now + 1 /\ now < MaxTime
      /\ queue' = {p \in queue : p.count > now + 1}
  BY DEF Tick
<1>2. now \in Nat /\ sent \subseteq Packet
  BY DEF Inv, TypeOK
<1>3. /\ now' \in Nat /\ now <= now' /\ now' <= MaxTime /\ sent' \subseteq Packet
      /\ queue' \subseteq queue /\ \A p \in queue' : p.count > now'
  BY <1>1, <1>2, LbtAssumption
<1> QED
  BY <1>1, <1>3, QueueShrinks

LEMMA NextInv == Inv /\ [Next]_vars => Inv'
<1> SUFFICES ASSUME Inv, [Next]_vars PROVE Inv'
  OBVIOUS
<1>1. ASSUME NEW s \in Servers, NEW lead \in Leads, NEW f \in Freqs, Request(s, lead, f)
      PROVE  Inv'
  BY <1>1, RequestInv
<1>2. ASSUME NEW s \in Servers,
             Search(s) \/ WriteFreq(s) \/ WriteCount(s) \/ WriteFlag(s) \/ Enqueue(s)
      PROVE  Inv'
  BY <1>2, SearchInv, WriteFreqInv, WriteCountInv, WriteFlagInv, EnqueueInv
<1>3. ASSUME NEW hal \in {t \in 0..now : now - t <= HalLag}, StartPass(hal) PROVE Inv'
  BY <1>3, StartPassInv
<1>4. CASE Test \/ Ask \/ Clear
  BY <1>4, TestInv, AskInv, ClearInv
<1>5. ASSUME NEW free \in BOOLEAN, Answer(free) PROVE Inv'
  BY <1>5, AnswerInv
<1>6. ASSUME NEW p \in queue, Take(p) PROVE Inv'
  BY <1>6, TakeInv
<1>7. CASE Tick
  BY <1>7, TickInv
<1>8. CASE UNCHANGED vars
  <2>1. UNCHANGED <<now, slots, server, scan, queue, requests, heard, sent, hist>>
    BY <1>8 DEF vars
  <2>2. now \in Nat /\ now <= MaxTime /\ sent \subseteq Packet
        /\ \A p \in queue : p.count > now
    BY DEF Inv, TypeOK, Clock, Known
  <2> QED
    BY <2>1, <2>2, QueueShrinks
<1> QED
  BY <1>1, <1>2, <1>3, <1>4, <1>5, <1>6, <1>7, <1>8 DEF Next

THEOREM Invariance == Spec => []Inv
<1> QED
  BY InitInv, NextInv, PTL DEF Spec

(* Every variable keeps its type: the slots are those of the array. *)
THEOREM TypeCorrect == Spec => []TypeOK
<1>1. Inv => TypeOK
  BY DEF Inv
<1> QED
  BY <1>1, Invariance, PTL

(* For any number of servers and slots, and however slow the modem: a packet
   leaves only on a channel found free for this very packet, unless its
   timestamp was asked for twice, two servers chose its slot at once, or the
   slot got a late answer.                                                   *)
THEOREM ListensBeforeItTalks == Spec => SentWasFree
<1>1. Inv /\ [Next]_vars => [\A p \in sent' \ sent : p \in heard \/ p.count \in Excused]_vars
  <2> SUFFICES ASSUME Inv, Next, NEW p \in sent' \ sent
               PROVE  p \in heard \/ p.count \in Excused
    OBVIOUS
  <2>1. PICK q \in queue : Take(q)
    BY DEF Next, Request, Search, WriteFreq, WriteCount, WriteFlag, Enqueue, StartPass,
           Test, Ask, Clear, Answer, Tick
  <2>2. p = q /\ ChanIsFree(p)
    BY <2>1 DEF Take
  <2>3. PICK i \in Slots : slots[i].count = p.count /\ slots[i].free
    BY <2>2 DEF ChanIsFree, Matching
  <2>4. p \in Packet /\ p \in queue /\ p.count > now /\ p.count # 0
    BY <2>1, <2>2 DEF Inv, TypeOK, Known
  <2>5. slots[i].freq = p.freq \/ p.count \in Excused
    BY <2>3, <2>4 DEF Inv, Queued
  <2>6. Resetting(i) => p.count \in Excused
    <3> SUFFICES ASSUME NEW s \in Servers, server[s].at = "flag", server[s].slot = i
                 PROVE  p.count \in Excused
      BY DEF Resetting
    <3>1. p.count = server[s].pkt.count \/ p.count \in Excused
      BY <2>3, <2>4 DEF Inv, Stamped
    <3>2. p.count = server[s].pkt.count => p.count \in twice
      BY <2>4 DEF Inv, Unique
    <3> QED
      BY <3>1, <3>2 DEF Excused
  <2>7. ~Resetting(i) => PacketOf(i) \in heard \/ p.count \in Excused
    BY <2>3, <2>4 DEF Inv, Flags
  <2>8. slots[i].freq = p.freq => PacketOf(i) = p
    BY <2>3, <2>4 DEF PacketOf, Packet
  <2> QED
    BY <2>5, <2>6, <2>7, <2>8
<1> QED
  BY <1>1, Invariance, PTL DEF Spec, SentWasFree

(* An answer is late only when more than the near edge of the window has gone
   by since the pass read the counter, or two servers chose the slot at once. *)
THEOREM LateOnlyIfSlow == Spec => LateIsSlow
<1>1. Inv /\ [Next]_vars =>
        [late' # late => now - scan.hal > WinLow \/ scan.pkt.count \in crossed]_vars
  <2> SUFFICES ASSUME Inv, Next, late' # late
               PROVE  now - scan.hal > WinLow \/ scan.pkt.count \in crossed
    OBVIOUS
  <2>1. PICK free \in BOOLEAN : Answer(free)
    BY DEF Next, Request, Search, WriteFreq, WriteCount, WriteFlag, Enqueue, StartPass,
           Test, Ask, Clear, Take, Tick, hist
  <2>2. scan.at = "answer" /\ slots[scan.slot].count # scan.pkt.count
    BY <2>1 DEF Answer
  <2> QED
    BY <2>2 DEF Inv, Near
<1> QED
  BY <1>1, Invariance, PTL DEF Spec, LateIsSlow

=============================================================================
