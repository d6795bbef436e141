--------------------------- MODULE CustomDownlink ---------------------------
(***************************************************************************)
(* The packet service's own downlinks (fwd/src/pkt_serv.c).  One thread    *)
(* (pkt_prepare_downlink, "dn") reads downlink files: it queues an urgent  *)
(* one at once and appends any other to dn_list, where it waits for an     *)
(* uplink of its device.  The other thread (pkt_deal_up, "up") decodes     *)
(* uplinks and answers each with the downlink that waits for its device.   *)
(* Both prepare frames in custom_rx2dn and share, without a lock, the      *)
(* static buffers db_family and tmpstr.                                    *)
(*                                                                         *)
(* dn_list is appended to in the order entries are allocated and every     *)
(* other change removes one: with entries numbered in that order the list  *)
(* is the set of its numbers, the smallest at the head.                    *)
(***************************************************************************)
EXTENDS Integers, FiniteSetsExt, SequencesExt

CONSTANTS
    Devices,      \* device addresses
    Known,        \* those whose session keys are in the database
    Nobody,       \* an address that is none of them
    MAX_PENDING,  \* 16: a longer list loses its head
    MAC_DECODE,   \* GW.cfg.mac_decode (and mac2db)
    CounterWrap,  \* 2^32, modulus of the frame counters
    Batches,      \* what get_rxpkt may return: sequences of uplinks
    Files,        \* what a downlink file may say
    MaxPackets,   \* bound: packets handled, those that come again included
    MaxFiles      \* bound: files read

Threads == {"up", "dn"}
Entries == 1 .. MaxFiles
None == 0
Counters == 0 .. CounterWrap - 1
Addresses == Devices \cup {Nobody}

(* What tmpstr can hold: a device address, a mode, a counter, other fields *)
Strings ==
    ({"addr"} \X Addresses) \cup ({"mode"} \X {"imme", "time"})
      \cup ({"num"} \X Counters) \cup ({"other"} \X {0})
Other == <<"other", 0>>

(* What db_family can hold, and the database's keys "fcnt" under it *)
Families == {"devinfo", "payload", "downlink"} \X Addresses
Absent == Other

Uplinks == [dev : Devices, data : BOOLEAN, size : Nat, mic : BOOLEAN]
FileTexts == [dev : Addresses, mode : {"imme", "time"}, form : {"good", "blank", "short"}]

NoFile == [dev |-> Nobody, mode |-> "time", form |-> "short"]

ASSUME CustomConstants ==
    /\ Known \subseteq Devices
    /\ Nobody \notin Devices
    /\ MAX_PENDING \in Nat
    /\ CounterWrap \in Nat /\ CounterWrap > 1
    /\ MAC_DECODE \in BOOLEAN
    /\ Batches \subseteq Seq(Uplinks)
    /\ Files \subseteq FileTexts
    /\ MaxPackets \in Nat
    /\ MaxFiles \in Nat

VARIABLES
    pc,         \* where each thread is
    dev,        \* devinfo.devaddr of each thread
    hand,       \* dnelem of pkt_deal_up, entry of pkt_prepare_downlink
    fcnt,       \* dwfcnt of custom_rx2dn
    batch,      \* serv->rxpkt
    i,          \* the loop variable of pkt_deal_up, from 0
    file,       \* the file read last
    mem,        \* devaddr of the entries; history: the device meant
    live,       \* the entries allocated and not freed
    list,       \* dn_list
    size,       \* dn_list.size
    db_family, tmpstr,
    db,         \* the counters in the database
    frames,     \* history: the frames jit_enqueue has accepted
    handled,    \* number of packets handled
    read,       \* number of files read
    undefined   \* a freed entry was used: what follows is not defined

vars == <<pc, dev, hand, fcnt, batch, i, file, mem, live, list, size, db_family,
          tmpstr, db, frames, handled, read, undefined>>

UpPlaces == {"idle", "packet", "keys", "decode", "store", "addr", "search", "remove"}
DnPlaces == {"idle", "dev", "mode", "urgent", "keys", "post"}
FramePlaces == {"frame", "get", "first", "next", "put", "make", "enqueue"}

TypeOK ==
    /\ pc \in [Threads -> UpPlaces \cup DnPlaces \cup FramePlaces]
    /\ pc["up"] \in UpPlaces \cup FramePlaces
    /\ pc["dn"] \in DnPlaces \cup FramePlaces
    /\ dev \in [Threads -> Addresses]
    /\ hand \in [Threads -> Entries \cup {None}]
    /\ fcnt \in [Threads -> Counters]
    /\ batch \in Seq(Uplinks)
    /\ i \in Nat
    /\ file \in FileTexts
    /\ mem \in [Entries -> [dev : Strings, meant : Addresses]]
    /\ live \in SUBSET Entries
    /\ list \in SUBSET Entries
    /\ size \in Int
    /\ db_family \in Families
    /\ tmpstr \in Strings
    /\ db \in [Families -> Strings]
    /\ frames \in Seq([entry : Entries, dev : Addresses, fcnt : Counters])
    /\ handled \in 0 .. MaxPackets
    /\ read \in 0 .. MaxFiles
    /\ undefined \in BOOLEAN

Init ==
    /\ pc = [t \in Threads |-> "idle"]
    /\ dev = [t \in Threads |-> Nobody]
    /\ hand = [t \in Threads |-> None]
    /\ fcnt = [t \in Threads |-> 0]
    /\ batch = <<>>
    /\ i = 0
    /\ file = NoFile
    /\ mem = [e \in Entries |-> [dev |-> Other, meant |-> Nobody]]
    /\ live = {}
    /\ list = {}
    /\ size = 0
    /\ db_family = <<"devinfo", Nobody>>
    /\ tmpstr = Other
    /\ db = [f \in Families |-> Absent]
    /\ frames = <<>>
    /\ handled = 0
    /\ read = 0
    /\ undefined = FALSE

buffers == <<db_family, tmpstr>>
heap == <<mem, live, list, size>>
uplinks == <<batch, i, handled>>
downlinks == <<file, read>>

Goto(t, place) == pc' = [pc EXCEPT ![t] = place]

(* The end of an iteration: its variables are dead *)
locals == <<dev, hand, fcnt>>
Done(t) ==
    /\ Goto(t, IF t = "up" THEN "packet" ELSE "idle")
    /\ dev' = [dev EXCEPT ![t] = Nobody]
    /\ hand' = [hand EXCEPT ![t] = None]
    /\ fcnt' = [fcnt EXCEPT ![t] = 0]

(* lgw_db_get of both session keys under db_family *)
HasKeys == db_family[1] = "devinfo" /\ db_family[2] \in Known
-----------------------------------------------------------------------------
(* pkt_deal_up *)

Fetch ==
    /\ pc["up"] = "idle"
    /\ batch' \in Batches
    /\ i' = 0
    /\ Goto("up", "packet")
    /\ UNCHANGED <<dev, hand, fcnt, handled, downlinks, heap, buffers, db, frames, undefined>>

(* The head of the loop over the packets: what is not a data frame the
   parser accepts is skipped.                                               *)
NextPacket ==
    /\ pc["up"] = "packet"
    /\ \/ /\ i >= Len(batch)
          /\ Goto("up", "idle")
          /\ batch' = <<>>
          /\ i' = 0
          /\ UNCHANGED <<dev, db_family, handled>>
       \/ /\ i < Len(batch)
          /\ ~batch[i + 1].data
          /\ i' = i + 1
          /\ UNCHANGED <<pc, batch, dev, db_family, handled>>
       \/ /\ i < Len(batch)
          /\ batch[i + 1].data
          /\ handled < MaxPackets
          /\ handled' = handled + 1
          /\ dev' = [dev EXCEPT !["up"] = batch[i + 1].dev]
          /\ db_family' = <<"devinfo", batch[i + 1].dev>>
          /\ Goto("up", "keys")
          /\ UNCHANGED <<batch, i>>
    /\ UNCHANGED <<hand, fcnt, downlinks, heap, tmpstr, db, frames, undefined>>

UpKeys ==
    /\ pc["up"] = "keys"
    /\ IF HasKeys
       THEN /\ Goto("up", IF MAC_DECODE THEN "decode" ELSE "addr")
            /\ UNCHANGED <<i, locals>>
       ELSE Done("up") /\ i' = i + 1
    /\ UNCHANGED <<batch, handled, downlinks, heap, buffers, db, frames, undefined>>

(* If the code of the packet is right its payload is dumped byte by byte, with
   the loop variable of the packets: after a payload shorter than the packet's
   place in the batch, packets that were handled are handled again.         *)
Decode ==
    /\ pc["up"] = "decode"
    /\ IF batch[i + 1].mic
       THEN /\ i' = batch[i + 1].size
            /\ Goto("up", "store")
       ELSE Goto("up", "addr") /\ UNCHANGED i
    /\ UNCHANGED <<dev, hand, fcnt, batch, handled, downlinks, heap, buffers, db, frames, undefined>>

(* mac2db: the place of the payload is read into tmpstr *)
Store ==
    /\ pc["up"] = "store"
    /\ db_family' = <<"payload", dev["up"]>>
    /\ tmpstr' \in {Other, <<"num", 0>>}
    /\ Goto("up", "addr")
    /\ UNCHANGED <<dev, hand, fcnt, uplinks, downlinks, heap, db, frames, undefined>>

WriteAddr ==
    /\ pc["up"] = "addr"
    /\ tmpstr' = <<"addr", dev["up"]>>
    /\ Goto("up", "search")
    /\ UNCHANGED <<dev, hand, fcnt, uplinks, downlinks, heap, db_family, db, frames, undefined>>

(* search_dn_list: the entry is returned, the lock is not kept *)
Matches(s) == {e \in list : mem[e].dev = s}
Oldest(S) == {e \in S : \A o \in S : e <= o}

Search ==
    /\ pc["up"] = "search"
    /\ IF Matches(tmpstr) = {}
       THEN Done("up") /\ i' = i + 1
       ELSE /\ \E e \in Oldest(Matches(tmpstr)) : hand' = [hand EXCEPT !["up"] = e]
            /\ Goto("up", "frame")
            /\ UNCHANGED <<i, dev, fcnt>>
    /\ UNCHANGED <<batch, handled, downlinks, heap, buffers, db, frames, undefined>>
-----------------------------------------------------------------------------
(* custom_rx2dn, in either thread.  The entry is read first (window, power,
   rate), again when the frame is made (payload), and pkt_deal_up unlinks and
   frees it in the end.  The other thread may have freed it meanwhile: the
   behaviour of the program is then undefined and the model's ends.  Once the
   frame is made jit_enqueue takes it, whether the entry is still there or not. *)
UsesFreed(t) == hand[t] \notin live

Misuse(t) ==
    /\ pc[t] \in {"frame", "make", "remove"}
    /\ UsesFreed(t)
    /\ undefined' = TRUE
    /\ UNCHANGED <<pc, dev, hand, fcnt, uplinks, downlinks, heap, buffers, db, frames>>

StartFrame(t) ==
    /\ pc[t] = "frame"
    /\ ~UsesFreed(t)
    /\ db_family' = <<"downlink", dev[t]>>
    /\ Goto(t, "get")
    /\ UNCHANGED <<dev, hand, fcnt, uplinks, downlinks, heap, tmpstr, db, frames, undefined>>

(* lgw_db_get empties tmpstr before it looks *)
GetCounter(t) ==
    /\ pc[t] = "get"
    /\ tmpstr' = db[db_family]
    /\ Goto(t, IF db[db_family] = Absent THEN "first" ELSE "next")
    /\ UNCHANGED <<dev, hand, fcnt, uplinks, downlinks, heap, db_family, db, frames, undefined>>

PutFirst(t) ==
    /\ pc[t] = "first"
    /\ db' = [db EXCEPT ![db_family] = <<"num", 1>>]
    /\ fcnt' = [fcnt EXCEPT ![t] = 1]
    /\ Goto(t, "make")
    /\ UNCHANGED <<dev, hand, uplinks, downlinks, heap, buffers, frames, undefined>>

(* atol: what does not begin with a digit counts as 0 (devices are addresses
   that begin with a letter)                                                *)
Atol(s) == IF s[1] = "num" THEN s[2] ELSE 0

NextCounter(t) ==
    /\ pc[t] = "next"
    /\ fcnt' = [fcnt EXCEPT ![t] = Atol(tmpstr)]
    /\ tmpstr' = <<"num", (Atol(tmpstr) + 1) % CounterWrap>>
    /\ Goto(t, "put")
    /\ UNCHANGED <<dev, hand, uplinks, downlinks, heap, db_family, db, frames, undefined>>

PutCounter(t) ==
    /\ pc[t] = "put"
    /\ db' = [db EXCEPT ![db_family] = tmpstr]
    /\ Goto(t, "make")
    /\ UNCHANGED <<dev, hand, fcnt, uplinks, downlinks, heap, buffers, frames, undefined>>

(* prepare_frame copies the payload, the last that is read of the entry *)
MakeFrame(t) ==
    /\ pc[t] = "make"
    /\ ~UsesFreed(t)
    /\ Goto(t, "enqueue")
    /\ UNCHANGED <<dev, hand, fcnt, uplinks, downlinks, heap, buffers, db, frames, undefined>>

Frame(t) == [entry |-> hand[t], dev |-> dev[t], fcnt |-> fcnt[t]]

(* jit_enqueue accepts.  pkt_deal_up goes on to remove the entry;
   pkt_prepare_downlink frees its own, whatever the answer.                 *)
KeepAccepted == "packet"                               \* mutant: the answer is ignored
OnAccepted == "remove"

Accepted(t) ==
    /\ pc[t] = "enqueue"
    /\ frames' = Append(frames, Frame(t))
    /\ IF t = "up"
       THEN Goto(t, OnAccepted) /\ UNCHANGED <<live, locals>>
       ELSE Done(t) /\ live' = live \ {hand[t]}
    /\ UNCHANGED <<uplinks, downlinks, mem, list, size, buffers, db, undefined>>

(* jit_enqueue refuses: what waits for an uplink goes on waiting *)
NotKept(t) == IF t = "dn" THEN {hand[t]} ELSE {}

Refused(t) ==
    /\ pc[t] = "enqueue"
    /\ live' = live \ NotKept(t)
    /\ i' = IF t = "up" THEN i + 1 ELSE i
    /\ Done(t)
    /\ UNCHANGED <<batch, handled, downlinks, mem, list, size, buffers, db, frames, undefined>>

CustomRx2dn(t) ==
    \/ StartFrame(t) \/ GetCounter(t) \/ PutFirst(t) \/ NextCounter(t) \/ PutCounter(t)
    \/ MakeFrame(t) \/ Accepted(t) \/ Refused(t)

(* pkt_deal_up once the downlink is queued, under the lock of the list *)
RemoveSent ==
    /\ pc["up"] = "remove"
    /\ ~UsesFreed("up")
    /\ list' = list \ {hand["up"]}
    /\ size' = IF hand["up"] \in list THEN size - 1 ELSE size
    /\ live' = live \ {hand["up"]}
    /\ i' = i + 1
    /\ Done("up")
    /\ UNCHANGED <<batch, handled, downlinks, mem, buffers, db, frames, undefined>>
-----------------------------------------------------------------------------
(* pkt_prepare_downlink *)

(* A file is read and deleted; with fewer than three commas it is dropped.
   Else an entry is allocated and the first field goes through tmpstr.      *)
ReadFile ==
    /\ pc["dn"] = "idle"
    /\ read < MaxFiles
    /\ read' = read + 1
    /\ \E f \in Files :
         IF f.form = "short"
         THEN UNCHANGED <<pc, hand, file, mem, live, tmpstr>>
         ELSE /\ file' = f
              /\ hand' = [hand EXCEPT !["dn"] = read + 1]
              /\ live' = live \cup {read + 1}
              /\ mem' = [mem EXCEPT ![read + 1].meant = f.dev]
              /\ tmpstr' = <<"addr", f.dev>>
              /\ Goto("dn", "dev")
    /\ UNCHANGED <<dev, fcnt, uplinks, list, size, db_family, db, frames, undefined>>

CopyAddr ==
    /\ pc["dn"] = "dev"
    /\ mem' = [mem EXCEPT ![hand["dn"]].dev = tmpstr]
    /\ tmpstr' = <<"mode", file.mode>>
    /\ Goto("dn", "mode")
    /\ UNCHANGED <<dev, hand, fcnt, uplinks, downlinks, live, list, size, db_family, db,
                   frames, undefined>>

(* The other fields follow, through tmpstr too.  A file with a field that is
   missing or wrong is given up.                                            *)
LeakBlank(e) == {}                                     \* mutant: no lgw_free
Blank(e) == IF file.form = "blank" THEN {e} ELSE {}

CopyMode ==
    /\ pc["dn"] = "mode"
    /\ tmpstr' = Other
    /\ live' = live \ Blank(hand["dn"])
    /\ file' = NoFile
    /\ IF file.form = "blank"
       THEN Done("dn")
       ELSE /\ Goto("dn", IF tmpstr = <<"mode", "imme">> THEN "urgent" ELSE "post")
            /\ UNCHANGED locals
    /\ UNCHANGED <<uplinks, read, mem, list, size, db_family, db, frames, undefined>>

(* strtoul of the entry's address *)
Strtoul(s) == IF s[1] = "addr" THEN s[2] ELSE Nobody

Urgent ==
    /\ pc["dn"] = "urgent"
    /\ dev' = [dev EXCEPT !["dn"] = Strtoul(mem[hand["dn"]].dev)]
    /\ db_family' = <<"devinfo", Strtoul(mem[hand["dn"]].dev)>>
    /\ Goto("dn", "keys")
    /\ UNCHANGED <<hand, fcnt, uplinks, downlinks, heap, tmpstr, db, frames, undefined>>

DnKeys ==
    /\ pc["dn"] = "keys"
    /\ IF HasKeys
       THEN Goto("dn", "frame") /\ UNCHANGED <<live, locals>>
       ELSE Done("dn") /\ live' = live \ {hand["dn"]}
    /\ UNCHANGED <<uplinks, downlinks, mem, list, size, buffers, db,
                   frames, undefined>>

(* Under the lock of the list: a list that is full loses its head, the entries
   with the same address make room, the new one is appended.                *)
OtherAddress(L, e) == {o \in L : mem[o].dev # mem[e].dev}  \* mutant: strcmp without "!"
SameAddress(L, e) == {o \in L : mem[o].dev = mem[e].dev}
NoEviction == {}                                       \* mutant: nothing is evicted
Evicted == IF size > MAX_PENDING THEN Oldest(list) ELSE {}

Post ==
    /\ pc["dn"] = "post"
    /\ LET gone == Evicted \cup SameAddress(list \ Evicted, hand["dn"]) IN
         /\ list' = (list \ gone) \cup {hand["dn"]}
         /\ size' = size - Cardinality(gone) + 1
         /\ live' = live \ gone
    /\ Done("dn")
    /\ UNCHANGED <<uplinks, downlinks, mem, buffers, db, frames, undefined>>
-----------------------------------------------------------------------------
DealUp ==
    \/ Fetch \/ NextPacket \/ UpKeys \/ Decode \/ Store \/ WriteAddr \/ Search
    \/ CustomRx2dn("up") \/ RemoveSent \/ Misuse("up")
PrepareDownlink ==
    \/ ReadFile \/ CopyAddr \/ CopyMode \/ Urgent \/ DnKeys \/ Post
    \/ CustomRx2dn("dn")

Next == ~undefined /\ (DealUp \/ PrepareDownlink)

Spec == Init /\ [][Next]_vars
-----------------------------------------------------------------------------
(* Every entry that is allocated is in the list or in the hands of the thread
   that reads files, on any of the ways out of either thread: none is leaked, and
   the list holds none that was freed.  (The pointer of pkt_deal_up does dangle
   once its entry is replaced: see Misuse.)                                 *)
Owned == IF pc["dn"] = "idle" THEN {} ELSE {hand["dn"]}
NoLeakNoDangling == live = list \cup Owned

(* One downlink waits for each address, and no more than the limit and the one
   that exceeded it; the list's size, kept by hand where its macros do not, is
   its length.                                                              *)
OnePerAddress == \A e, f \in list : mem[e].dev = mem[f].dev => e = f
Bounded == size = Cardinality(list) /\ size <= MAX_PENDING + 1

(* No downlink is sent twice: not after a refusal, nor when an uplink and a
   file of the same device meet, nor when a packet is handled again.        *)
SentOnce ==
    \A m, n \in DOMAIN frames : frames[m].entry = frames[n].entry => m = n

(* The service implements a mailbox per address, in which an entry waits until
   it is sent - not until it is removed, which is later - and stays while
   custom_rx2dn makes the frame: a file that replaces it meanwhile keeps it from
   going to any other uplink, though not always from going this time.       *)
SentEntries == {frames[n].entry : n \in DOMAIN frames}
Waiting == list \ SentEntries
OnItsWay == IF pc["up"] \in FramePlaces THEN {hand["up"]} ELSE {}
Abstract == INSTANCE Mailbox WITH
                Addresses <- Strings,
                Messages <- Entries,
                box <- {<<mem[e].dev, e>> : e \in Waiting},
                out <- OnItsWay,
                used <- (1 .. read) \ Owned,
                sent <- SentEntries
ImplementsMailbox == Abstract!Spec

-----------------------------------------------------------------------------
(* pkt_service.h: a file says "devaddr, txmode, payload format, payload".  The
   frame made of it goes to that device.                                    *)
SentToItsDevice ==
    \A n \in DOMAIN frames : frames[n].dev = mem[frames[n].entry].meant
=============================================================================
