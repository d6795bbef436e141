------------------------ MODULE CustomDownlinkProofs ------------------------
(***************************************************************************)
(* Proofs about CustomDownlink, for every value of its constants.          *)
(***************************************************************************)
EXTENDS CustomDownlink, FiniteSetTheorems, SequenceTheorems,
        WellFoundedInduction, TLAPS

-----------------------------------------------------------------------------
(* What is written into the shared buffers is of their types. *)
LEMMA BufferTypes ==
    /\ \A d \in Addresses : <<"addr", d>> \in Strings
    /\ \A m \in {"imme", "time"} : <<"mode", m>> \in Strings
    /\ \A n \in Counters : <<"num", n>> \in Strings
    /\ Other \in Strings
    /\ \A d \in Addresses, k \in {"devinfo", "payload", "downlink"} : <<k, d>> \in Families
BY DEF Strings, Families, Other

(* The small counters. *)
LEMMA CounterTypes == {0, 1} \subseteq Counters
BY CustomConstants DEF Counters

(* atol and strtoul yield a counter and an address. *)
LEMMA ConversionTypes ==
    ASSUME NEW s \in Strings
    PROVE  /\ Atol(s) \in Counters
           /\ (Atol(s) + 1) % CounterWrap \in Counters
           /\ Strtoul(s) \in Addresses
<1>1. CASE s \in {"num"} \X Counters
  <2>1. s[1] = "num" /\ s[2] \in Counters
    BY <1>1
  <2> QED
    BY <2>1, CustomConstants DEF Atol, Strtoul, Addresses, Counters
<1>2. CASE s \in {"addr"} \X Addresses
  <2>1. s[1] = "addr" /\ s[2] \in Addresses
    BY <1>2
  <2> QED
    BY <2>1, CustomConstants DEF Atol, Strtoul, Counters
<1>3. CASE s \in {"mode"} \X {"imme", "time"} \/ s \in {"other"} \X {0}
  <2>1. s[1] \in {"mode", "other"}
    BY <1>3
  <2> QED
    BY <2>1, CustomConstants DEF Atol, Strtoul, Counters, Addresses
<1> QED
  BY <1>1, <1>2, <1>3 DEF Strings

(* The types of the program counters, and of what Done resets. *)
PcType ==
    /\ pc \in [Threads -> UpPlaces \cup DnPlaces \cup FramePlaces]
    /\ pc["up"] \in UpPlaces \cup FramePlaces
    /\ pc["dn"] \in DnPlaces \cup FramePlaces
LocalType ==
    /\ dev \in [Threads -> Addresses]
    /\ hand \in [Threads -> Entries \cup {None}]
    /\ fcnt \in [Threads -> Counters]

LEMMA GotoType ==
    ASSUME PcType, NEW t \in Threads, NEW place, Goto(t, place),
           \/ place \in FramePlaces
           \/ t = "up" /\ place \in UpPlaces
           \/ t = "dn" /\ place \in DnPlaces
    PROVE  PcType'
BY DEF PcType, Goto, Threads

LEMMA DoneType ==
    ASSUME PcType, LocalType, NEW t \in Threads, Done(t)
    PROVE  PcType' /\ LocalType'
<1>1. PcType'
  BY GotoType DEF Done, Threads, UpPlaces, DnPlaces
<1>2. LocalType'
  BY CounterTypes DEF Done, LocalType, Addresses
<1> QED
  BY <1>1, <1>2

OtherType ==
    /\ batch \in Seq(Uplinks)
    /\ i \in Nat
    /\ file \in FileTexts
    /\ mem \in [Entries -> [dev : Strings, meant : Addresses]]
    /\ live \in SUBSET Entries
    /\ list \in SUBSET Entries
    /\ size \in Int
    /\ db_family \in Families
    /\ tmpstr \in Strings
    /\ db \in [Families -> Strings]
    /\ frames \in Seq([entry : Entries, dev : Addresses, fcnt : Counters])
    /\ handled \in 0 .. MaxPackets
    /\ read \in 0 .. MaxFiles
    /\ undefined \in BOOLEAN

(* The decoder works on a packet of the batch. *)
InBatch == pc["up"] \in {"keys", "decode"} => i < Len(batch)

Types == PcType /\ LocalType /\ OtherType /\ InBatch

LEMMA TypesTypeOK == Types => TypeOK
BY DEF TypeOK, Types, PcType, LocalType, OtherType

(* What pkt_prepare_downlink works on is the file read last, and is not in the
   list; what pkt_deal_up answers an uplink with is older, and may meanwhile
   have been freed.                                                         *)
DnHolds == \A e \in Owned : e = read /\ e \in Entries /\ e \notin list
UpHolds ==
    pc["up"] \in FramePlaces \cup {"remove"} =>
        /\ hand["up"] \in 1 .. read
        /\ hand["up"] \notin Owned
Held == DnHolds /\ UpHolds /\ list \subseteq 1 .. read

LEMMA InitType == Init => Types
<1> SUFFICES ASSUME Init PROVE Types
  OBVIOUS
<1>1. PcType /\ InBatch
  BY DEF Init, PcType, UpPlaces, DnPlaces, FramePlaces, Threads, InBatch
<1>2. LocalType
  BY CounterTypes DEF Init, LocalType, Addresses
<1>3. file \in FileTexts
  BY DEF Init, NoFile, FileTexts, Addresses
<1>4. mem \in [Entries -> [dev : Strings, meant : Addresses]]
  BY BufferTypes DEF Init, Addresses
<1>5. db_family \in Families /\ tmpstr \in Strings /\ db \in [Families -> Strings]
  BY BufferTypes DEF Init, Addresses, Absent
<1>6. batch \in Seq(Uplinks) /\ frames \in Seq([entry : Entries, dev : Addresses, fcnt : Counters])
  <2>1. batch = <<>> /\ frames = <<>>
    BY DEF Init
  <2> QED
    BY <2>1, EmptySeq
<1>7. i \in Nat /\ size \in Int /\ live \in SUBSET Entries /\ list \in SUBSET Entries
  BY DEF Init
<1>8. handled \in 0 .. MaxPackets /\ read \in 0 .. MaxFiles
  BY CustomConstants DEF Init
<1>10. undefined \in BOOLEAN
  BY DEF Init
<1>9. OtherType
  BY <1>3, <1>4, <1>5, <1>6, <1>7, <1>8, <1>10 DEF OtherType
<1> QED
  BY <1>1, <1>2, <1>9 DEF Types

(* The decoder's own steps keep the types. *)
LEMMA DealUpType ==
    ASSUME Types,
           \/ Fetch \/ NextPacket \/ UpKeys \/ Decode \/ Store \/ WriteAddr \/ Search
           \/ RemoveSent
    PROVE  Types'
<1> USE DEF Threads
<1>1. PcType /\ LocalType /\ OtherType /\ InBatch
  BY DEF Types
<1>2. CASE Fetch
  <2>1. PcType' /\ InBatch'
    BY <1>1, <1>2, GotoType DEF Fetch, UpPlaces, InBatch, Goto, PcType
  <2>2. batch' \in Seq(Uplinks)
    BY <1>2, CustomConstants DEF Fetch
  <2>3. LocalType'
    BY <1>1, <1>2 DEF Fetch, LocalType
  <2>4. OtherType'
    BY <1>1, <1>2, <2>2, CustomConstants DEF Fetch, OtherType, downlinks, heap, buffers
  <2> QED
    BY <2>1, <2>3, <2>4 DEF Types
<1>3. CASE NextPacket
  <2>1. ASSUME i < Len(batch) PROVE batch[i + 1].dev \in Devices
    <3>1. batch[i + 1] \in Uplinks
      BY <1>1, <2>1 DEF OtherType
    <3> QED
      BY <3>1 DEF Uplinks
  <2>2. PcType' /\ InBatch'
    <3>1. CASE UNCHANGED pc /\ pc["up"] = "packet"
      BY <1>1, <3>1 DEF PcType, InBatch
    <3>2. CASE Goto("up", "idle")
      BY <1>1, <3>2, GotoType DEF UpPlaces, InBatch, Goto, PcType
    <3>3. CASE Goto("up", "keys") /\ i < Len(batch) /\ UNCHANGED <<batch, i>>
      BY <1>1, <3>3, GotoType DEF UpPlaces, InBatch
    <3> QED
      BY <1>3, <3>1, <3>2, <3>3 DEF NextPacket
  <2>3. LocalType'
    BY <1>1, <1>3, <2>1 DEF NextPacket, LocalType, Addresses
  <2>4. db_family' \in Families
    BY <1>1, <1>3, <2>1, BufferTypes DEF NextPacket, OtherType, Addresses
  <2>5. batch' \in Seq(Uplinks) /\ i' \in Nat
    <3>1. \/ batch' = batch /\ i' \in {i, i + 1}
          \/ batch' = <<>> /\ i' = 0
      BY <1>3 DEF NextPacket
    <3>2. batch \in Seq(Uplinks) /\ i \in Nat
      BY <1>1 DEF OtherType
    <3>3. <<>> \in Seq(Uplinks)
      BY EmptySeq
    <3>4. batch' \in Seq(Uplinks)
      BY <3>1, <3>2, <3>3
    <3>5. i' \in Nat
      BY <3>1, <3>2
    <3> QED
      BY <3>4, <3>5
  <2>6. handled' \in 0 .. MaxPackets
    BY <1>1, <1>3, CustomConstants DEF NextPacket, OtherType
  <2>7. OtherType'
    BY <1>1, <1>3, <2>4, <2>5, <2>6 DEF NextPacket, OtherType, downlinks, heap
  <2> QED
    BY <2>2, <2>3, <2>7 DEF Types
<1>4. CASE UpKeys
  <2>1. PcType' /\ LocalType' /\ InBatch'
    <3>1. CASE HasKeys
      <4>1. PcType'
        BY <1>1, <1>4, <3>1, GotoType DEF UpKeys, UpPlaces
      <4>2. LocalType'
        BY <1>1, <1>4, <3>1 DEF UpKeys, LocalType, locals
      <4>3. InBatch'
        BY <1>1, <1>4, <3>1 DEF UpKeys, InBatch
      <4> QED
        BY <4>1, <4>2, <4>3
    <3>2. CASE ~HasKeys
      <4>1. PcType' /\ LocalType'
        BY <1>1, <1>4, <3>2, DoneType DEF UpKeys
      <4> QED
        BY <1>1, <1>4, <3>2, <4>1 DEF UpKeys, InBatch, Done, Goto, PcType
    <3> QED
      BY <3>1, <3>2
  <2>2. OtherType'
    BY <1>1, <1>4 DEF UpKeys, OtherType, downlinks, heap, buffers
  <2> QED
    BY <2>1, <2>2 DEF Types
<1>5. CASE Decode
  <2>1. PcType' /\ InBatch'
    <3>1. Goto("up", "store") \/ Goto("up", "addr")
      BY <1>5 DEF Decode
    <3>2. PcType'
      BY <1>1, <3>1, GotoType DEF UpPlaces
    <3> QED
      BY <1>1, <3>1, <3>2 DEF Goto, PcType, InBatch
  <2>2. i' \in Nat
    <3>1. i < Len(batch)
      BY <1>1, <1>5 DEF Decode, InBatch
    <3>2. batch[i + 1] \in Uplinks
      BY <1>1, <3>1 DEF OtherType
    <3>3. batch[i + 1].size \in Nat
      BY <3>2 DEF Uplinks
    <3> QED
      BY <1>1, <1>5, <3>3 DEF Decode, OtherType
  <2>3. LocalType'
    BY <1>1, <1>5 DEF Decode, LocalType
  <2>4. OtherType'
    BY <1>1, <1>5, <2>2 DEF Decode, OtherType, downlinks, heap, buffers
  <2> QED
    BY <2>1, <2>3, <2>4 DEF Types
<1>6. CASE Store
  <2>1. PcType' /\ InBatch'
    BY <1>1, <1>6, GotoType DEF Store, UpPlaces, InBatch, Goto, PcType
  <2>2. dev["up"] \in Addresses
    BY <1>1 DEF LocalType
  <2>3. db_family' \in Families /\ tmpstr' \in Strings
    BY <1>6, <2>2, BufferTypes, CounterTypes DEF Store
  <2>4. LocalType' /\ OtherType'
    BY <1>1, <1>6, <2>3 DEF Store, LocalType, OtherType, uplinks, downlinks, heap
  <2> QED
    BY <2>1, <2>4 DEF Types
<1>7. CASE WriteAddr
  <2>1. PcType' /\ InBatch'
    BY <1>1, <1>7, GotoType DEF WriteAddr, UpPlaces, InBatch, Goto, PcType
  <2>2. dev["up"] \in Addresses
    BY <1>1 DEF LocalType
  <2>3. tmpstr' \in Strings
    BY <1>7, <2>2, BufferTypes DEF WriteAddr
  <2>4. LocalType' /\ OtherType'
    BY <1>1, <1>7, <2>3 DEF WriteAddr, LocalType, OtherType, uplinks, downlinks, heap
  <2> QED
    BY <2>1, <2>4 DEF Types
<1>8. CASE Search
  <2>1. PcType' /\ LocalType' /\ InBatch'
    <3>1. CASE Matches(tmpstr) = {}
      <4>1. PcType' /\ LocalType'
        BY <1>1, <1>8, <3>1, DoneType DEF Search
      <4> QED
        BY <1>1, <1>8, <3>1, <4>1 DEF Search, InBatch, Done, Goto, PcType
    <3>2. CASE Matches(tmpstr) # {}
      <4>1. PICK e \in Oldest(Matches(tmpstr)) : hand' = [hand EXCEPT !["up"] = e]
        BY <1>8, <3>2 DEF Search
      <4>2. e \in Entries
        BY <1>1 DEF Oldest, Matches, OtherType
      <4>3. LocalType'
        BY <1>1, <1>8, <3>2, <4>1, <4>2 DEF Search, LocalType
      <4>4. PcType' /\ InBatch'
        BY <1>1, <1>8, <3>2, GotoType DEF Search, FramePlaces, InBatch, Goto, PcType
      <4> QED
        BY <4>3, <4>4
    <3> QED
      BY <3>1, <3>2
  <2>2. OtherType'
    BY <1>1, <1>8 DEF Search, OtherType, downlinks, heap, buffers
  <2> QED
    BY <2>1, <2>2 DEF Types
<1>9. CASE RemoveSent
  <2>1. PcType' /\ LocalType'
    BY <1>1, <1>9, DoneType DEF RemoveSent
  <2>2. InBatch'
    BY <1>1, <1>9 DEF RemoveSent, InBatch, Done, Goto, PcType
  <2>3. OtherType'
    BY <1>1, <1>9 DEF RemoveSent, OtherType, downlinks, buffers
  <2> QED
    BY <2>1, <2>2, <2>3 DEF Types
<1> QED
  BY <1>2, <1>3, <1>4, <1>5, <1>6, <1>7, <1>8, <1>9

LEMMA GotoBatch ==
    ASSUME PcType, InBatch, NEW t \in Threads, NEW place, Goto(t, place),
           \/ t = "up" /\ place \notin {"keys", "decode"}
           \/ t = "dn" /\ UNCHANGED <<batch, i>>
    PROVE  InBatch'
BY DEF PcType, InBatch, Goto, Threads

(* A frame is made of an entry, though it may have been freed since. *)
LEMMA SentFrame ==
    ASSUME LocalType, OtherType, Held, NEW t \in Threads, pc[t] \in FramePlaces
    PROVE  Frame(t) \in [entry : Entries, dev : Addresses, fcnt : Counters]
<1>1. hand[t] \in Entries
  <2>1. CASE t = "up"
    <3>1. hand["up"] \in 1 .. read /\ read \in 0 .. MaxFiles
      BY <2>1 DEF Held, UpHolds, OtherType
    <3> QED
      BY <2>1, <3>1, CustomConstants DEF Entries
  <2>2. CASE t = "dn"
    BY <2>2 DEF Held, DnHolds, Owned, FramePlaces
  <2> QED
    BY <2>1, <2>2 DEF Threads
<1>2. dev[t] \in Addresses /\ fcnt[t] \in Counters
  BY DEF LocalType
<1> QED
  BY <1>1, <1>2 DEF Frame

(* The frame's steps keep the types, in either thread. *)
LEMMA FrameType ==
    ASSUME Types, Held, NEW t \in Threads, CustomRx2dn(t) \/ Misuse(t)
    PROVE  Types'
<1> USE DEF Threads
<1>1. PcType /\ LocalType /\ OtherType /\ InBatch
  BY DEF Types
<1>2. CASE StartFrame(t)
  <2>1. PcType' /\ InBatch'
    BY <1>1, <1>2, GotoType, GotoBatch DEF StartFrame, FramePlaces, uplinks
  <2>2. dev[t] \in Addresses
    BY <1>1 DEF LocalType
  <2>3. db_family' \in Families
    BY <1>2, <2>2, BufferTypes DEF StartFrame
  <2>4. LocalType' /\ OtherType'
    BY <1>1, <1>2, <2>3 DEF StartFrame, LocalType, OtherType, uplinks, downlinks, heap
  <2> QED
    BY <2>1, <2>4 DEF Types
<1>3. CASE GetCounter(t)
  <2>1. PcType' /\ InBatch'
    <3>1. Goto(t, "first") \/ Goto(t, "next")
      BY <1>3 DEF GetCounter
    <3> QED
      BY <1>1, <1>3, <3>1, GotoType, GotoBatch DEF GetCounter, FramePlaces, uplinks
  <2>2. tmpstr' \in Strings
    BY <1>1, <1>3 DEF GetCounter, OtherType
  <2>3. LocalType' /\ OtherType'
    BY <1>1, <1>3, <2>2 DEF GetCounter, LocalType, OtherType, uplinks, downlinks, heap
  <2> QED
    BY <2>1, <2>3 DEF Types
<1>4. CASE PutFirst(t)
  <2>1. PcType' /\ InBatch'
    BY <1>1, <1>4, GotoType, GotoBatch DEF PutFirst, FramePlaces, uplinks
  <2>2. <<"num", 1>> \in Strings /\ 1 \in Counters
    BY BufferTypes, CounterTypes
  <2>3. db' \in [Families -> Strings]
    BY <1>1, <1>4, <2>2 DEF PutFirst, OtherType
  <2>4. LocalType' /\ OtherType'
    BY <1>1, <1>4, <2>2, <2>3
       DEF PutFirst, LocalType, OtherType, uplinks, downlinks, heap, buffers
  <2> QED
    BY <2>1, <2>4 DEF Types
<1>5. CASE NextCounter(t)
  <2>1. PcType' /\ InBatch'
    BY <1>1, <1>5, GotoType, GotoBatch DEF NextCounter, FramePlaces, uplinks
  <2>2. tmpstr \in Strings
    BY <1>1 DEF OtherType
  <2>3. tmpstr' \in Strings /\ Atol(tmpstr) \in Counters
    BY <1>5, <2>2, ConversionTypes, BufferTypes DEF NextCounter
  <2>4. LocalType' /\ OtherType'
    BY <1>1, <1>5, <2>3 DEF NextCounter, LocalType, OtherType, uplinks, downlinks, heap
  <2> QED
    BY <2>1, <2>4 DEF Types
<1>6. CASE PutCounter(t)
  <2>1. PcType' /\ InBatch'
    BY <1>1, <1>6, GotoType, GotoBatch DEF PutCounter, FramePlaces, uplinks
  <2>2. db' \in [Families -> Strings]
    BY <1>1, <1>6 DEF PutCounter, OtherType
  <2>3. LocalType' /\ OtherType'
    BY <1>1, <1>6, <2>2
       DEF PutCounter, LocalType, OtherType, uplinks, downlinks, heap, buffers
  <2> QED
    BY <2>1, <2>3 DEF Types
<1>7. CASE Accepted(t)
  <2>1. PcType' /\ LocalType' /\ InBatch'
    <3>1. CASE t = "up"
      <4>1. Goto("up", "remove") /\ UNCHANGED locals
        BY <1>7, <3>1 DEF Accepted, OnAccepted
      <4>2. PcType' /\ InBatch'
        BY <1>1, <4>1, GotoType, GotoBatch DEF UpPlaces
      <4> QED
        BY <1>1, <4>1, <4>2 DEF LocalType, locals
    <3>2. CASE t = "dn"
      <4>1. Done("dn") /\ UNCHANGED <<batch, i>>
        BY <1>7, <3>2 DEF Accepted, uplinks
      <4>2. PcType' /\ LocalType'
        BY <1>1, <4>1, DoneType
      <4>3. InBatch'
        BY <1>1, <4>1, GotoBatch DEF Done
      <4> QED
        BY <4>2, <4>3
    <3> QED
      BY <3>1, <3>2
  <2>2. Frame(t) \in [entry : Entries, dev : Addresses, fcnt : Counters]
    BY <1>1, <1>7, SentFrame DEF Accepted, FramePlaces
  <2>3. frames' \in Seq([entry : Entries, dev : Addresses, fcnt : Counters])
    <3>1. frames \in Seq([entry : Entries, dev : Addresses, fcnt : Counters])
      BY <1>1 DEF OtherType
    <3>2. frames' = Append(frames, Frame(t))
      BY <1>7 DEF Accepted
    <3> QED
      BY <2>2, <3>1, <3>2, AppendProperties
  <2>4. live' \in SUBSET Entries
    BY <1>1, <1>7 DEF Accepted, OtherType
  <2>5. OtherType'
    BY <1>1, <1>7, <2>3, <2>4 DEF Accepted, OtherType, uplinks, downlinks, buffers
  <2> QED
    BY <2>1, <2>5 DEF Types
<1>8. CASE Refused(t)
  <2>1. PcType' /\ LocalType'
    BY <1>1, <1>8, DoneType DEF Refused
  <2>2. InBatch'
    BY <1>1, <1>8, GotoBatch DEF Refused, Done
  <2>3. OtherType'
    BY <1>1, <1>8 DEF Refused, OtherType, downlinks, buffers
  <2> QED
    BY <2>1, <2>2, <2>3 DEF Types
<1>9. CASE Misuse(t)
  <2>1. undefined' \in BOOLEAN
    BY <1>9 DEF Misuse
  <2> QED
    BY <1>1, <1>9, <2>1 DEF Misuse, Types, PcType, LocalType, OtherType, InBatch,
       uplinks, downlinks, heap, buffers
<1>10. CASE MakeFrame(t)
  <2>1. PcType' /\ InBatch'
    BY <1>1, <1>10, GotoType, GotoBatch DEF MakeFrame, FramePlaces, uplinks
  <2>2. LocalType' /\ OtherType'
    BY <1>1, <1>10 DEF MakeFrame, LocalType, OtherType, uplinks, downlinks, heap, buffers
  <2> QED
    BY <2>1, <2>2 DEF Types
<1> QED
  BY <1>2, <1>3, <1>4, <1>5, <1>6, <1>7, <1>8, <1>9, <1>10 DEF CustomRx2dn

(* The list and its parts are finite. *)
LEMMA FiniteParts ==
    ASSUME OtherType, NEW S, S \subseteq list
    PROVE  IsFiniteSet(S) /\ Cardinality(S) \in Nat
<1>1. IsFiniteSet(Entries)
  BY CustomConstants, FS_Interval DEF Entries
<1>2. S \in SUBSET Entries
  BY DEF OtherType
<1>3. IsFiniteSet(S)
  BY <1>1, <1>2, FS_Subset
<1> QED
  BY <1>3, FS_CardinalityType

(* The steps of the thread that reads files keep the types. *)
LEMMA PrepareType ==
    ASSUME Types, Held,
           ReadFile \/ CopyAddr \/ CopyMode \/ Urgent \/ DnKeys \/ Post
    PROVE  Types'
<1> USE DEF Threads
<1>1. PcType /\ LocalType /\ OtherType /\ InBatch
  BY DEF Types
<1>2. CASE ReadFile
  <2>1. PICK f \in Files :
          IF f.form = "short"
          THEN UNCHANGED <<pc, hand, file, mem, live, tmpstr>>
          ELSE /\ file' = f
               /\ hand' = [hand EXCEPT !["dn"] = read + 1]
               /\ live' = live \cup {read + 1}
               /\ mem' = [mem EXCEPT ![read + 1].meant = f.dev]
               /\ tmpstr' = <<"addr", f.dev>>
               /\ Goto("dn", "dev")
    BY <1>2 DEF ReadFile
  <2>2. f \in FileTexts /\ f.dev \in Addresses
    BY CustomConstants DEF FileTexts
  <2>3. read' \in 0 .. MaxFiles /\ read' = read + 1 /\ read + 1 \in Entries
    BY <1>1, <1>2, CustomConstants DEF ReadFile, OtherType, Entries
  <2>4. PcType' /\ InBatch'
    BY <1>1, <1>2, <2>1, GotoType, GotoBatch DEF ReadFile, DnPlaces, uplinks, PcType, InBatch
  <2>5. LocalType'
    BY <1>1, <1>2, <2>1, <2>3 DEF ReadFile, LocalType
  <2>6. mem' \in [Entries -> [dev : Strings, meant : Addresses]]
    BY <1>1, <2>1, <2>2 DEF OtherType
  <2>7. tmpstr' \in Strings /\ file' \in FileTexts /\ live' \in SUBSET Entries
    BY <1>1, <2>1, <2>2, <2>3, BufferTypes DEF OtherType
  <2>8. OtherType'
    BY <1>1, <1>2, <2>3, <2>6, <2>7 DEF ReadFile, OtherType, uplinks
  <2> QED
    BY <2>4, <2>5, <2>8 DEF Types
<1>3. CASE CopyAddr
  <2>1. PcType' /\ InBatch'
    BY <1>1, <1>3, GotoType, GotoBatch DEF CopyAddr, DnPlaces, uplinks
  <2>2. mem' \in [Entries -> [dev : Strings, meant : Addresses]]
    BY <1>1, <1>3 DEF CopyAddr, OtherType
  <2>3. tmpstr' \in Strings
    BY <1>1, <1>3, BufferTypes DEF CopyAddr, OtherType, FileTexts
  <2>4. LocalType' /\ OtherType'
    BY <1>1, <1>3, <2>2, <2>3 DEF CopyAddr, LocalType, OtherType, uplinks, downlinks
  <2> QED
    BY <2>1, <2>4 DEF Types
<1>4. CASE CopyMode
  <2>1. PcType' /\ LocalType' /\ InBatch'
    <3>1. CASE file.form = "blank"
      BY <1>1, <1>4, <3>1, DoneType, GotoBatch DEF CopyMode, Done, uplinks
    <3>2. CASE file.form # "blank"
      <4>1. /\ Goto("dn", "urgent") \/ Goto("dn", "post")
            /\ UNCHANGED <<locals, uplinks>>
        BY <1>4, <3>2 DEF CopyMode
      <4>2. PcType' /\ InBatch'
        BY <1>1, <4>1, GotoType, GotoBatch DEF DnPlaces, uplinks
      <4> QED
        BY <1>1, <4>1, <4>2 DEF LocalType, locals
    <3> QED
      BY <3>1, <3>2
  <2>2. mem' \in [Entries -> [dev : Strings, meant : Addresses]]
    BY <1>1, <1>4 DEF CopyMode, OtherType
  <2>3. tmpstr' \in Strings /\ file' \in FileTexts
    BY <1>4, BufferTypes DEF CopyMode, NoFile, FileTexts, Addresses
  <2>4. OtherType'
    BY <1>1, <1>4, <2>2, <2>3 DEF CopyMode, OtherType, uplinks
  <2> QED
    BY <2>1, <2>4 DEF Types
<1>5. CASE Urgent
  <2>1. PcType' /\ InBatch'
    BY <1>1, <1>5, GotoType, GotoBatch DEF Urgent, DnPlaces, uplinks
  <2>2. hand["dn"] \in Entries
    BY <1>5 DEF Urgent, Held, DnHolds, Owned
  <2>3. mem[hand["dn"]].dev \in Strings
    BY <1>1, <2>2 DEF OtherType
  <2>4. Strtoul(mem[hand["dn"]].dev) \in Addresses
    BY <2>3, ConversionTypes
  <2>5. LocalType' /\ db_family' \in Families
    BY <1>1, <1>5, <2>4, BufferTypes DEF Urgent, LocalType
  <2>6. OtherType'
    BY <1>1, <1>5, <2>5 DEF Urgent, OtherType, uplinks, downlinks, heap
  <2> QED
    BY <2>1, <2>5, <2>6 DEF Types
<1>6. CASE DnKeys
  <2>1. PcType' /\ LocalType' /\ InBatch'
    <3>1. CASE HasKeys
      <4>1. Goto("dn", "frame") /\ UNCHANGED <<locals, uplinks>>
        BY <1>6, <3>1 DEF DnKeys
      <4>2. PcType' /\ InBatch'
        BY <1>1, <4>1, GotoType, GotoBatch DEF FramePlaces, uplinks
      <4> QED
        BY <1>1, <4>1, <4>2 DEF LocalType, locals
    <3>2. CASE ~HasKeys
      BY <1>1, <1>6, <3>2, DoneType, GotoBatch DEF DnKeys, Done, uplinks
    <3> QED
      BY <3>1, <3>2
  <2>2. OtherType'
    BY <1>1, <1>6 DEF DnKeys, OtherType, uplinks, downlinks, buffers
  <2> QED
    BY <2>1, <2>2 DEF Types
<1>7. CASE Post
  <2>1. PcType' /\ LocalType' /\ InBatch'
    BY <1>1, <1>7, DoneType, GotoBatch DEF Post, Done, uplinks
  <2>2. list' \in SUBSET Entries /\ live' \in SUBSET Entries
    <3>1. hand["dn"] \in Entries
      BY <1>7 DEF Post, Held, DnHolds, Owned
    <3> QED
      BY <1>1, <1>7, <3>1 DEF Post, OtherType
  <2>3. size' \in Int
    <3>1. Evicted \cup SameAddress(list \ Evicted, hand["dn"]) \subseteq list
      BY DEF Evicted, SameAddress, Oldest
    <3>2. Cardinality(Evicted \cup SameAddress(list \ Evicted, hand["dn"])) \in Nat
      BY <1>1, <3>1, FiniteParts
    <3> QED
      BY <1>1, <1>7, <3>2 DEF Post, OtherType
  <2>4. OtherType'
    BY <1>1, <1>7, <2>2, <2>3 DEF Post, OtherType, uplinks, downlinks, buffers
  <2> QED
    BY <2>1, <2>4 DEF Types
<1> QED
  BY <1>2, <1>3, <1>4, <1>5, <1>6, <1>7

-----------------------------------------------------------------------------
(* What was sent is no longer in the hands of the thread that reads files, and
   is in the list only until the decoder, which sent it, removes it.         *)
SentGone ==
    \A n \in DOMAIN frames :
        /\ frames[n].entry \in 1 .. read
        /\ frames[n].entry \notin Owned
        /\ frames[n].entry \in list =>
             pc["up"] = "remove" /\ hand["up"] = frames[n].entry

(* What the decoder makes a frame of was never sent, freed or not. *)
Unsent ==
    pc["up"] \in FramePlaces => \A n \in DOMAIN frames : frames[n].entry # hand["up"]

(* What it removes is what it sent. *)
Answered ==
    pc["up"] = "remove" => \E n \in DOMAIN frames : frames[n].entry = hand["up"]

(* The inductive invariant, but for the types. *)
HeapInv ==
    /\ Held /\ NoLeakNoDangling /\ OnePerAddress /\ Bounded
    /\ SentOnce /\ SentGone /\ Unsent /\ Answered

Inv == Types /\ HeapInv

LEMMA InitHeap == Init => HeapInv
<1> SUFFICES ASSUME Init PROVE HeapInv
  OBVIOUS
<1>1. /\ pc["up"] = "idle" /\ pc["dn"] = "idle"
      /\ list = {} /\ live = {} /\ size = 0 /\ frames = <<>> /\ read = 0
  BY DEF Init, Threads
<1>2. Held /\ NoLeakNoDangling /\ OnePerAddress
  BY <1>1 DEF Held, DnHolds, UpHolds, NoLeakNoDangling, OnePerAddress, Owned, FramePlaces
<1>3. Bounded
  BY <1>1, FS_EmptySet, CustomConstants DEF Bounded
<1>4. SentOnce /\ SentGone /\ Unsent /\ Answered
  BY <1>1 DEF SentOnce, SentGone, Unsent, Answered
<1> QED
  BY <1>2, <1>3, <1>4 DEF HeapInv

(* A quiet step leaves the heap and the frames, and takes only a listed entry in
   hand.                                                                     *)
Quiet ==
    /\ UNCHANGED <<mem, live, list, size, frames, read>>
    /\ Owned' = Owned
    /\ pc'["up"] \in FramePlaces \cup {"remove"} =>
         \/ pc["up"] \notin FramePlaces \cup {"remove"} /\ hand'["up"] \in list
         \/ pc["up"] \in FramePlaces \cup {"remove"} /\ hand'["up"] = hand["up"]
    /\ (pc["up"] = "remove") <=> (pc'["up"] = "remove")
    /\ pc["up"] = "remove" => hand'["up"] = hand["up"]

LEMMA QuietStep ==
    ASSUME HeapInv, Quiet
    PROVE  HeapInv'
<1>1. Held'
  BY DEF HeapInv, Held, DnHolds, UpHolds, Quiet
<1>2. NoLeakNoDangling' /\ OnePerAddress'
  BY DEF HeapInv, NoLeakNoDangling, OnePerAddress, Quiet
<1>3. Bounded' /\ SentOnce'
  BY DEF HeapInv, Bounded, SentOnce, Quiet
<1>4. SentGone' /\ Answered'
  BY DEF HeapInv, SentGone, Answered, Quiet
<1>5. Unsent'
  BY DEF HeapInv, SentGone, Unsent, Quiet, FramePlaces
<1> QED
  BY <1>1, <1>2, <1>3, <1>4, <1>5 DEF HeapInv

LEMMA DealUpQuiet ==
    ASSUME Types,
           \/ Fetch \/ NextPacket \/ UpKeys \/ Decode \/ Store \/ WriteAddr \/ Search
           \/ Refused("up") \/ Misuse("up")
    PROVE  Quiet
<1> USE DEF Types, Quiet, Owned, PcType, LocalType, Threads, Goto, FramePlaces, heap
<1>1. CASE Fetch
  BY <1>1 DEF Fetch, downlinks
<1>2. CASE NextPacket
  BY <1>2 DEF NextPacket, downlinks
<1>3. CASE UpKeys
  BY <1>3 DEF UpKeys, downlinks, locals, Done
<1>4. CASE Decode
  BY <1>4 DEF Decode, downlinks
<1>5. CASE Store
  BY <1>5 DEF Store, downlinks
<1>6. CASE WriteAddr
  BY <1>6 DEF WriteAddr, downlinks
<1>7. CASE Search
  BY <1>7 DEF Search, downlinks, Done, Matches, Oldest
<1>8. CASE Refused("up")
  BY <1>8 DEF Refused, NotKept, downlinks, Done
<1>9. CASE Misuse("up")
  BY <1>9 DEF Misuse, downlinks
<1> QED
  BY <1>1, <1>2, <1>3, <1>4, <1>5, <1>6, <1>7, <1>8, <1>9

LEMMA FrameQuiet ==
    ASSUME Types, NEW t \in Threads,
           \/ StartFrame(t) \/ GetCounter(t) \/ PutFirst(t) \/ NextCounter(t)
           \/ PutCounter(t) \/ MakeFrame(t) \/ Misuse(t)
    PROVE  Quiet
<1> USE DEF Types, Quiet, Owned, PcType, LocalType, Threads, Goto, FramePlaces, heap, downlinks
<1>1. CASE StartFrame(t)
  BY <1>1 DEF StartFrame
<1>2. CASE GetCounter(t)
  BY <1>2 DEF GetCounter
<1>3. CASE PutFirst(t)
  BY <1>3 DEF PutFirst
<1>4. CASE NextCounter(t)
  BY <1>4 DEF NextCounter
<1>5. CASE PutCounter(t)
  BY <1>5 DEF PutCounter
<1>6. CASE Misuse(t)
  BY <1>6 DEF Misuse
<1>7. CASE MakeFrame(t)
  BY <1>7 DEF MakeFrame
<1> QED
  BY <1>1, <1>2, <1>3, <1>4, <1>5, <1>6, <1>7

LEMMA PrepareQuiet ==
    ASSUME Types, Urgent \/ (DnKeys /\ HasKeys)
    PROVE  Quiet
<1> USE DEF Types, Quiet, Owned, PcType, LocalType, Threads, Goto, FramePlaces, heap, downlinks
<1>1. CASE Urgent
  BY <1>1 DEF Urgent
<1>2. CASE DnKeys /\ HasKeys
  BY <1>2 DEF DnKeys, locals
<1> QED
  BY <1>1, <1>2

-----------------------------------------------------------------------------
(* A nonempty set of naturals has a least element: an eviction removes one. *)
LEMMA OldestExists ==
    ASSUME NEW S, S \subseteq Nat, S # {}
    PROVE  \E e \in S : Oldest(S) = {e}
<1> DEFINE R == {p \in Nat \X Nat : p[1] < p[2]}
<1>1. PICK e \in S : \A o \in S : <<o, e>> \notin R
  <2>1. IsWellFoundedOn(R, Nat)
    BY NatLessThanWellFounded DEF OpToRel
  <2> HIDE DEF R
  <2> QED
    BY <2>1, WFMin
<1>2. ASSUME NEW o \in S, o < e PROVE FALSE
  <2>1. <<o, e>> \in R
    BY <1>2
  <2> QED
    BY <1>1, <2>1
<1>3. \A o \in S : e <= o
  BY <1>2
<1>4. ASSUME NEW o \in S, \A p \in S : o <= p PROVE o = e
  BY <1>3, <1>4
<1> HIDE DEF R
<1> QED
  BY <1>3, <1>4 DEF Oldest

(* Removing and posting keep the size, which is kept by hand, and the limit. *)
LEMMA RemoveSize ==
    ASSUME OtherType, Bounded, NEW e,
           list' = list \ {e},
           size' = IF e \in list THEN size - 1 ELSE size
    PROVE  Bounded'
<1>1. IsFiniteSet(list) /\ Cardinality(list) \in Nat
  BY FiniteParts
<1>2. Cardinality(list') = IF e \in list THEN Cardinality(list) - 1 ELSE Cardinality(list)
  BY <1>1, FS_RemoveElement
<1> QED
  BY <1>1, <1>2, CustomConstants DEF Bounded

LEMMA PostSize ==
    ASSUME OtherType, Bounded, NEW e, e \notin list,
           NEW gone, gone \subseteq list, Evicted \subseteq gone,
           list' = (list \ gone) \cup {e},
           size' = size - Cardinality(gone) + 1
    PROVE  Bounded'
<1>1. IsFiniteSet(list) /\ Cardinality(list) \in Nat /\ Cardinality(gone) \in Nat
  BY FiniteParts
<1>2. /\ IsFiniteSet(list \ gone)
      /\ Cardinality(list \ gone) = Cardinality(list) - Cardinality(gone)
  <2>1. list \cap gone = gone
    OBVIOUS
  <2> QED
    BY <1>1, <2>1, FS_Difference
<1>3. Cardinality(list') = Cardinality(list) - Cardinality(gone) + 1
  BY <1>1, <1>2, FS_AddElement
<1>4. size > MAX_PENDING => Cardinality(gone) >= 1
  <2>1. SUFFICES ASSUME size > MAX_PENDING PROVE gone # {}
    <3>1. IsFiniteSet(gone)
      BY FiniteParts
    <3> QED
      BY <1>1, <2>1, <3>1, FS_EmptySet
  <2>2. list # {}
    BY <2>1, <1>1, FS_EmptySet, CustomConstants DEF Bounded
  <2>3. list \subseteq Nat
    BY DEF OtherType, Entries
  <2>4. Oldest(list) # {}
    BY <2>2, <2>3, OldestExists
  <2> QED
    BY <2>1, <2>4 DEF Evicted
<1> QED
  BY <1>1, <1>3, <1>4, CustomConstants DEF Bounded

LEMMA LenOfFrames ==
    ASSUME OtherType
    PROVE  DOMAIN frames = 1 .. Len(frames) /\ Len(frames) \in Nat
<1>1. frames \in Seq([entry : Entries, dev : Addresses, fcnt : Counters])
  BY DEF OtherType
<1> QED
  BY <1>1

(* Sending keeps each entry sent once. *)
LEMMA SendStep ==
    ASSUME OtherType, SentOnce, NEW t \in Threads,
           Frame(t) \in [entry : Entries, dev : Addresses, fcnt : Counters],
           frames' = Append(frames, Frame(t)),
           \A n \in DOMAIN frames : frames[n].entry # hand[t]
    PROVE  /\ SentOnce'
           /\ DOMAIN frames' = 1 .. Len(frames) + 1
           /\ \A n \in DOMAIN frames' :
                 IF n = Len(frames) + 1 THEN frames'[n].entry = hand[t]
                 ELSE n \in DOMAIN frames /\ frames'[n] = frames[n]
<1> DEFINE last == Len(frames) + 1
<1>1. frames \in Seq([entry : Entries, dev : Addresses, fcnt : Counters])
  BY DEF OtherType
<1>2. DOMAIN frames = 1 .. Len(frames) /\ Len(frames) \in Nat
  BY <1>1
<1>3. DOMAIN frames' = 1 .. last
  <2>1. /\ frames' \in Seq([entry : Entries, dev : Addresses, fcnt : Counters])
        /\ Len(frames') = last
    BY <1>1, AppendProperties
  <2> QED
    BY <2>1
<1>4. \A n \in DOMAIN frames' :
         IF n = last THEN frames'[n] = Frame(t) ELSE n \in DOMAIN frames /\ frames'[n] = frames[n]
  BY <1>1, <1>2, <1>3, AppendProperties
<1>5. Frame(t).entry = hand[t]
  BY DEF Frame
<1>6. SentOnce'
  <2> SUFFICES ASSUME NEW m \in DOMAIN frames', NEW n \in DOMAIN frames',
                      frames'[m].entry = frames'[n].entry
               PROVE  m = n
    BY DEF SentOnce
  <2>1. CASE m # last /\ n # last
    BY <1>4, <2>1 DEF SentOnce
  <2>2. CASE m = last /\ n # last
    BY <1>4, <1>5, <2>2
  <2>3. CASE m # last /\ n = last
    BY <1>4, <1>5, <2>3
  <2> QED
    BY <2>1, <2>2, <2>3
<1> QED
  BY <1>3, <1>4, <1>5, <1>6

-----------------------------------------------------------------------------
(* A hand step changes what pkt_prepare_downlink holds: it takes the entry of
   the next file, writes into the entry it holds, or gives it up.           *)
UpSame == pc'["up"] = pc["up"] /\ hand'["up"] = hand["up"]
HandStep ==
    /\ UNCHANGED <<list, size, frames>>
    /\ \A e \in list : mem'[e].dev = mem[e].dev
    /\ UpSame
    /\ \/ read' = read /\ Owned' \in {Owned, {}}
       \/ /\ read' = read + 1
          /\ Owned = {}
          /\ Owned' \in {{}, {read'}}
          /\ read' \in Entries
    /\ live' = (live \ Owned) \cup Owned'

LEMMA HandStepInv ==
    ASSUME Types, HeapInv, HandStep
    PROVE  HeapInv'
<1>1. read \in Nat
  BY CustomConstants DEF Types, OtherType
<1>2. list \subseteq 1 .. read /\ list \cap Owned = {}
  BY DEF HeapInv, Held, DnHolds
<1>3. Held'
  BY <1>1, <1>2 DEF HeapInv, Held, DnHolds, UpHolds, HandStep, UpSame
<1>4. NoLeakNoDangling'
  BY <1>1, <1>2 DEF HeapInv, NoLeakNoDangling, HandStep
<1>5. OnePerAddress' /\ Bounded' /\ SentOnce'
  BY DEF HeapInv, OnePerAddress, Bounded, SentOnce, HandStep
<1>6. SentGone' /\ Unsent' /\ Answered'
  BY <1>1 DEF HeapInv, SentGone, Unsent, Answered, HandStep, UpSame
<1> QED
  BY <1>3, <1>4, <1>5, <1>6 DEF HeapInv

LEMMA PrepareHand ==
    ASSUME Types, HeapInv,
           \/ ReadFile \/ CopyAddr \/ CopyMode \/ (DnKeys /\ ~HasKeys) \/ Refused("dn")
    PROVE  HandStep
<1> USE DEF Types, Owned, PcType, LocalType, Threads, Goto, UpSame
<1>1. /\ pc["dn"] # "idle" => hand["dn"] \notin list /\ hand["dn"] \in live
      /\ live \subseteq Entries
  BY DEF HeapInv, Held, DnHolds, NoLeakNoDangling, OtherType
<1>2. CASE ReadFile
  <2>1. read + 1 \in Entries /\ read + 1 \notin list
    BY <1>2, CustomConstants DEF ReadFile, HeapInv, Held, OtherType, Entries
  <2>2. PICK f \in Files :
          IF f.form = "short"
          THEN UNCHANGED <<pc, hand, file, mem, live, tmpstr>>
          ELSE /\ file' = f
               /\ hand' = [hand EXCEPT !["dn"] = read + 1]
               /\ live' = live \cup {read + 1}
               /\ mem' = [mem EXCEPT ![read + 1].meant = f.dev]
               /\ tmpstr' = <<"addr", f.dev>>
               /\ Goto("dn", "dev")
    BY <1>2 DEF ReadFile
  <2>3. CASE f.form = "short"
    BY <1>2, <2>1, <2>2, <2>3 DEF ReadFile, HandStep
  <2>4. CASE f.form # "short"
    <3>1. \A e \in list : mem'[e].dev = mem[e].dev
      BY <2>1, <2>2, <2>4 DEF OtherType
    <3>2. Owned' = {read'} /\ UpSame
      BY <1>2, <2>2, <2>4 DEF ReadFile
    <3> QED
      BY <1>2, <2>1, <2>2, <2>4, <3>1, <3>2 DEF ReadFile, HandStep
  <2> QED
    BY <2>3, <2>4
<1>3. CASE CopyAddr
  <2>1. \A e \in list : mem'[e].dev = mem[e].dev
    BY <1>1, <1>3 DEF CopyAddr, OtherType
  <2>2. Owned' = Owned /\ UpSame
    BY <1>3 DEF CopyAddr
  <2> QED
    BY <1>1, <1>3, <2>1, <2>2 DEF CopyAddr, HandStep, downlinks
<1>4. CASE CopyMode
  <2>1. \A e \in list : mem'[e].dev = mem[e].dev
    BY <1>1, <1>4 DEF CopyMode, OtherType
  <2>2. /\ UpSame
        /\ Owned' = IF file.form = "blank" THEN {} ELSE Owned
    BY <1>4 DEF CopyMode, Done, locals
  <2> QED
    BY <1>1, <1>4, <2>1, <2>2 DEF CopyMode, HandStep, Blank
<1>5. CASE DnKeys /\ ~HasKeys
  BY <1>1, <1>5 DEF DnKeys, Done, HandStep, downlinks
<1>6. CASE Refused("dn")
  BY <1>1, <1>6 DEF Refused, Done, HandStep, NotKept, downlinks
<1> QED
  BY <1>2, <1>3, <1>4, <1>5, <1>6

-----------------------------------------------------------------------------
(* The steps that send, remove and post. *)
LEMMA SentUpStep ==
    ASSUME Types, HeapInv, Accepted("up")
    PROVE  HeapInv'
<1> USE DEF Types, Owned, PcType, LocalType, Threads, Goto
<1>1. /\ pc["up"] = "enqueue" /\ pc["up"] \in FramePlaces
      /\ pc'["up"] = "remove" /\ pc'["dn"] = pc["dn"]
      /\ UNCHANGED <<hand, mem, live, list, size, read>>
  BY DEF Accepted, OnAccepted, downlinks, locals, FramePlaces
<1>2. hand["up"] \in 1 .. read /\ hand["up"] \notin Owned
  BY <1>1 DEF HeapInv, Held, UpHolds
<1>3. \A n \in DOMAIN frames : frames[n].entry # hand["up"]
  BY <1>1 DEF HeapInv, Unsent
<1>4. /\ SentOnce'
      /\ DOMAIN frames' = 1 .. Len(frames) + 1
      /\ \A n \in DOMAIN frames' :
            IF n = Len(frames) + 1 THEN frames'[n].entry = hand["up"]
            ELSE n \in DOMAIN frames /\ frames'[n] = frames[n]
  <2>1. frames' = Append(frames, Frame("up"))
    BY DEF Accepted
  <2>2. Frame("up") \in [entry : Entries, dev : Addresses, fcnt : Counters]
    BY <1>1, SentFrame DEF HeapInv
  <2> QED
    BY <1>3, <2>1, <2>2, SendStep DEF HeapInv
<1>5. Held' /\ NoLeakNoDangling'
  BY <1>1, <1>2 DEF HeapInv, Held, DnHolds, UpHolds, NoLeakNoDangling
<1>6. OnePerAddress' /\ Bounded'
  BY <1>1 DEF HeapInv, OnePerAddress, Bounded
<1>7. SentGone'
  <2> SUFFICES ASSUME NEW n \in DOMAIN frames'
               PROVE  /\ frames'[n].entry \in 1 .. read'
                      /\ frames'[n].entry \notin Owned'
                      /\ frames'[n].entry \in list' =>
                           pc'["up"] = "remove" /\ hand'["up"] = frames'[n].entry
    BY DEF SentGone
  <2>1. CASE n = Len(frames) + 1
    BY <1>1, <1>2, <1>4, <2>1
  <2>2. CASE n # Len(frames) + 1
    BY <1>1, <1>4, <2>2 DEF HeapInv, SentGone
  <2> QED
    BY <2>1, <2>2
<1>8. Answered' /\ Unsent'
  <2>1. Len(frames) + 1 \in DOMAIN frames'
    BY <1>4, LenOfFrames
  <2> QED
    BY <1>1, <1>4, <2>1 DEF Answered, Unsent, FramePlaces
<1> QED
  BY <1>4, <1>5, <1>6, <1>7, <1>8 DEF HeapInv

LEMMA SentDnStep ==
    ASSUME Types, HeapInv, Accepted("dn")
    PROVE  HeapInv'
<1> USE DEF Types, Owned, PcType, LocalType, Threads, Goto
<1>1. /\ pc["dn"] = "enqueue" /\ pc["dn"] \in FramePlaces
      /\ pc'["dn"] = "idle" /\ pc'["up"] = pc["up"] /\ hand'["up"] = hand["up"]
      /\ live' = live \ {hand["dn"]}
      /\ UNCHANGED <<mem, list, size, read>>
  BY DEF Accepted, Done, downlinks, FramePlaces
<1>2. hand["dn"] = read /\ read \in 1 .. read /\ read \notin list
  BY <1>1, CustomConstants DEF HeapInv, Held, DnHolds, OtherType, Entries
<1>3. \A n \in DOMAIN frames : frames[n].entry # hand["dn"]
  BY <1>1 DEF HeapInv, SentGone
<1>4. /\ SentOnce'
      /\ DOMAIN frames' = 1 .. Len(frames) + 1
      /\ \A n \in DOMAIN frames' :
            IF n = Len(frames) + 1 THEN frames'[n].entry = hand["dn"]
            ELSE n \in DOMAIN frames /\ frames'[n] = frames[n]
  <2>1. frames' = Append(frames, Frame("dn"))
    BY DEF Accepted
  <2>2. Frame("dn") \in [entry : Entries, dev : Addresses, fcnt : Counters]
    BY <1>1, SentFrame DEF HeapInv
  <2> QED
    BY <1>3, <2>1, <2>2, SendStep DEF HeapInv
<1>5. Held' /\ NoLeakNoDangling'
  BY <1>1, <1>2 DEF HeapInv, Held, DnHolds, UpHolds, NoLeakNoDangling
<1>6. OnePerAddress' /\ Bounded'
  BY <1>1 DEF HeapInv, OnePerAddress, Bounded
<1>7. SentGone'
  <2> SUFFICES ASSUME NEW n \in DOMAIN frames'
               PROVE  /\ frames'[n].entry \in 1 .. read'
                      /\ frames'[n].entry \notin Owned'
                      /\ frames'[n].entry \in list' =>
                           pc'["up"] = "remove" /\ hand'["up"] = frames'[n].entry
    BY DEF SentGone
  <2>1. CASE n = Len(frames) + 1
    BY <1>1, <1>2, <1>4, <2>1
  <2>2. CASE n # Len(frames) + 1
    BY <1>1, <1>4, <2>2 DEF HeapInv, SentGone
  <2> QED
    BY <2>1, <2>2
<1>8. Answered'
  BY <1>1, <1>4, LenOfFrames DEF HeapInv, Answered
<1>9. Unsent'
  <2>1. pc["up"] \in FramePlaces => hand["up"] # hand["dn"]
    BY <1>1 DEF HeapInv, Held, UpHolds
  <2> QED
    BY <1>1, <1>4, <2>1 DEF HeapInv, Unsent
<1> QED
  BY <1>4, <1>5, <1>6, <1>7, <1>8, <1>9 DEF HeapInv

LEMMA RemoveStep ==
    ASSUME Types, HeapInv, RemoveSent
    PROVE  HeapInv'
<1> USE DEF Types, Owned, PcType, LocalType, Threads, Goto
<1>1. /\ pc["up"] = "remove"
      /\ pc'["up"] = "packet" /\ Owned' = Owned
      /\ list' = list \ {hand["up"]} /\ live' = live \ {hand["up"]}
      /\ UNCHANGED <<mem, frames, read>>
  BY DEF RemoveSent, Done, downlinks
<1>2. hand["up"] \notin Owned
  BY <1>1 DEF HeapInv, Held, UpHolds
<1>3. Held' /\ NoLeakNoDangling'
  BY <1>1, <1>2 DEF HeapInv, Held, DnHolds, UpHolds, FramePlaces, NoLeakNoDangling
<1>4. OnePerAddress' /\ SentOnce'
  BY <1>1 DEF HeapInv, OnePerAddress, SentOnce
<1>5. Bounded'
  BY RemoveSize DEF HeapInv, RemoveSent
<1>6. SentGone' /\ Unsent' /\ Answered'
  BY <1>1 DEF HeapInv, SentGone, Unsent, Answered, FramePlaces
<1> QED
  BY <1>3, <1>4, <1>5, <1>6 DEF HeapInv

LEMMA PostStep ==
    ASSUME Types, HeapInv, Post
    PROVE  HeapInv'
<1> USE DEF Types, Owned, PcType, LocalType, Threads, Goto
<1> DEFINE new == hand["dn"]
           gone == Evicted \cup SameAddress(list \ Evicted, new)
<1>1. /\ pc["dn"] = "post"
      /\ pc'["dn"] = "idle" /\ pc'["up"] = pc["up"] /\ hand'["up"] = hand["up"]
      /\ list' = (list \ gone) \cup {new} /\ live' = live \ gone
      /\ size' = size - Cardinality(gone) + 1
      /\ UNCHANGED <<mem, frames, read>>
  BY DEF Post, Done, downlinks
<1>2. new = read /\ read \in 1 .. read /\ new \notin list
  BY <1>1, CustomConstants DEF HeapInv, Held, DnHolds, OtherType, Entries
<1>3. gone \subseteq list /\ Evicted \subseteq gone
  BY DEF Evicted, SameAddress, Oldest
<1>4. Held' /\ NoLeakNoDangling'
  BY <1>1, <1>2, <1>3 DEF HeapInv, Held, DnHolds, UpHolds, NoLeakNoDangling
<1>5. OnePerAddress'
  <2> SUFFICES ASSUME NEW e \in list', NEW f \in list', mem[e].dev = mem[f].dev
               PROVE  e = f
    BY <1>1 DEF OnePerAddress
  <2>1. \A o \in list : o \notin gone => mem[o].dev # mem[new].dev
    BY DEF SameAddress
  <2> QED
    BY <1>1, <2>1 DEF HeapInv, OnePerAddress
<1>6. Bounded'
  BY <1>1, <1>2, <1>3, PostSize DEF HeapInv
<1>7. SentOnce' /\ SentGone' /\ Unsent' /\ Answered'
  BY <1>1, <1>2 DEF HeapInv, SentOnce, SentGone, Unsent, Answered
<1> QED
  BY <1>4, <1>5, <1>6, <1>7 DEF HeapInv

-----------------------------------------------------------------------------
LEMMA InvStep ==
    ASSUME Inv, [Next]_vars
    PROVE  Inv'
<1>1. Types /\ HeapInv /\ Held
  BY DEF Inv, HeapInv
<1>2. CASE DealUp
  <2>1. Types'
    BY <1>1, <1>2, DealUpType, FrameType DEF DealUp, Threads
  <2>2. CASE \/ Fetch \/ NextPacket \/ UpKeys \/ Decode \/ Store \/ WriteAddr \/ Search
             \/ Misuse("up")
    BY <1>1, <2>1, <2>2, DealUpQuiet, QuietStep DEF Inv
  <2>3. CASE CustomRx2dn("up")
    BY <1>1, <2>1, <2>3, DealUpQuiet, FrameQuiet, QuietStep, SentUpStep
       DEF Inv, CustomRx2dn, Threads
  <2>4. CASE RemoveSent
    BY <1>1, <2>1, <2>4, RemoveStep DEF Inv
  <2> QED
    BY <1>2, <2>2, <2>3, <2>4 DEF DealUp
<1>3. CASE PrepareDownlink
  <2>1. Types'
    BY <1>1, <1>3, PrepareType, FrameType DEF PrepareDownlink, Threads
  <2>2. CASE Urgent
    BY <1>1, <2>1, <2>2, PrepareQuiet, QuietStep DEF Inv
  <2>3. CASE ReadFile \/ CopyAddr \/ CopyMode
    BY <1>1, <2>1, <2>3, PrepareHand, HandStepInv DEF Inv
  <2>4. CASE DnKeys
    <3>1. CASE HasKeys
      BY <1>1, <2>1, <2>4, <3>1, PrepareQuiet, QuietStep DEF Inv
    <3>2. CASE ~HasKeys
      BY <1>1, <2>1, <2>4, <3>2, PrepareHand, HandStepInv DEF Inv
    <3> QED
      BY <3>1, <3>2
  <2>5. CASE Post
    BY <1>1, <2>1, <2>5, PostStep DEF Inv
  <2>6. CASE CustomRx2dn("dn")
    BY <1>1, <2>1, <2>6, FrameQuiet, QuietStep, SentDnStep, PrepareHand, HandStepInv
       DEF Inv, CustomRx2dn, Threads
  <2> QED
    BY <1>3, <2>2, <2>3, <2>4, <2>5, <2>6 DEF PrepareDownlink
<1>4. CASE UNCHANGED vars
  BY <1>1, <1>4 DEF vars, Inv, Types, PcType, LocalType, OtherType, InBatch, HeapInv, Held,
     DnHolds, UpHolds, Owned, NoLeakNoDangling, OnePerAddress, Bounded, SentOnce, SentGone,
     Unsent, Answered
<1> QED
  BY <1>2, <1>3, <1>4 DEF Next

(* The invariant holds in every reachable state of pkt_serv.c's two threads. *)
THEOREM Invariance == Spec => []Inv
<1>1. Init => Inv
  BY InitType, InitHeap DEF Inv
<1> QED
  BY <1>1, InvStep, PTL DEF Spec

(* Every variable of pkt_serv.c keeps its type. *)
THEOREM TypeCorrect == Spec => []TypeOK
<1>1. Inv => TypeOK
  BY TypesTypeOK DEF Inv
<1> QED
  BY <1>1, Invariance, PTL

(* However the two threads interleave, no entry is leaked, and the list holds
   none that was freed.                                                      *)
THEOREM NoEntryLost == Spec => []NoLeakNoDangling
<1>1. Inv => NoLeakNoDangling
  BY DEF Inv, HeapInv
<1> QED
  BY <1>1, Invariance, PTL

(* One downlink waits for each address, within the limit. *)
THEOREM MailboxBounded == Spec => [](OnePerAddress /\ Bounded)
<1>1. Inv => OnePerAddress /\ Bounded
  BY DEF Inv, HeapInv
<1> QED
  BY <1>1, Invariance, PTL

(* No downlink is given to the radio's queue twice. *)
THEOREM NeverSentTwice == Spec => []SentOnce
<1>1. Inv => SentOnce
  BY DEF Inv, HeapInv
<1> QED
  BY <1>1, Invariance, PTL

-----------------------------------------------------------------------------
(* The refinement.  The mailbox as the list and the frames show it: *)
Boxed == {<<mem[e].dev, e>> : e \in Waiting}
Spent == (1 .. read) \ Owned

(* A quiet step picks a message, returns it, or is a stutter. *)
LEMMA QuietMaps ==
    ASSUME HeapInv, Quiet
    PROVE  [Abstract!Next]_(Abstract!vars)
<1>1. Boxed' = Boxed /\ Spent' = Spent /\ SentEntries' = SentEntries
  BY DEF Quiet, Boxed, Spent, Waiting, SentEntries
<1>2. CASE pc'["up"] \notin FramePlaces
  <2>1. Abstract!Return
    BY <1>1, <1>2 DEF Abstract!Return, OnItsWay, Boxed, Spent
  <2> QED
    BY <2>1 DEF Abstract!Next
<1>3. CASE pc'["up"] \in FramePlaces /\ pc["up"] \in FramePlaces
  BY <1>1, <1>3 DEF Quiet, Abstract!vars, OnItsWay, Boxed, Spent
<1>4. CASE pc'["up"] \in FramePlaces /\ pc["up"] \notin FramePlaces
  <2>1. pc["up"] # "remove" /\ hand'["up"] \in list
    BY <1>4 DEF Quiet, FramePlaces
  <2>2. hand'["up"] \in Waiting
    BY <2>1 DEF HeapInv, SentGone, Waiting, SentEntries
  <2>3. <<mem[hand'["up"]].dev, hand'["up"]>> \in Boxed
    BY <2>2 DEF Boxed
  <2>4. OnItsWay = {} /\ OnItsWay' = {hand'["up"]}
    BY <1>4 DEF OnItsWay
  <2>5. Abstract!Pick
    BY <1>1, <2>3, <2>4 DEF Abstract!Pick, Boxed, Spent
  <2> QED
    BY <2>5 DEF Abstract!Next
<1> QED
  BY <1>2, <1>3, <1>4

LEMMA HandMaps ==
    ASSUME Types, HeapInv, HandStep
    PROVE  [Abstract!Next]_(Abstract!vars)
<1>1. Boxed' = Boxed
  BY DEF HandStep, Boxed, Waiting, SentEntries
<1>2. SentEntries' = SentEntries /\ OnItsWay' = OnItsWay
  BY DEF HandStep, SentEntries, UpSame, OnItsWay
<1>3. read \in Nat /\ \A e \in Owned : e = read /\ e \in Entries
  BY CustomConstants DEF Types, OtherType, HeapInv, Held, DnHolds
<1>4. CASE Spent' = Spent
  BY <1>1, <1>2, <1>4 DEF Abstract!vars, Boxed, Spent
<1>5. CASE read' = read /\ Owned' = {} /\ Owned # {}
  <2>1. read \in Entries /\ read \notin Spent /\ Spent' = Spent \cup {read}
    BY <1>3, <1>5 DEF Spent, Entries
  <2>2. Abstract!GiveUp(read)
    BY <1>1, <1>2, <2>1 DEF Abstract!GiveUp, Abstract!Use, Boxed, Spent
  <2> QED
    BY <2>1, <2>2 DEF Abstract!Next
<1>6. CASE read' = read + 1 /\ Owned = {} /\ Owned' = {} /\ read' \in Entries
  <2>1. read' \in Entries /\ read' \notin Spent /\ Spent' = Spent \cup {read'}
    BY <1>3, <1>6 DEF Spent, Entries
  <2>2. Abstract!GiveUp(read')
    BY <1>1, <1>2, <2>1 DEF Abstract!GiveUp, Abstract!Use, Boxed, Spent
  <2> QED
    BY <2>1, <2>2 DEF Abstract!Next
<1>7. CASE read' = read + 1 /\ Owned = {} /\ Owned' = {read'}
  <2>1. Spent' = Spent
    BY <1>3, <1>7 DEF Spent
  <2> QED
    BY <1>4, <2>1
<1> QED
  BY <1>4, <1>5, <1>6, <1>7 DEF HandStep, Spent

LEMMA RemoveMaps ==
    ASSUME Types, HeapInv, RemoveSent
    PROVE  UNCHANGED Abstract!vars
<1>1. /\ pc["up"] = "remove" /\ list' = list \ {hand["up"]}
      /\ UNCHANGED <<mem, frames, read>> /\ Owned' = Owned /\ OnItsWay' = OnItsWay
  BY DEF RemoveSent, Done, downlinks, Owned, Goto, Types, PcType, LocalType, Threads,
     OnItsWay, FramePlaces
<1>2. hand["up"] \in SentEntries
  BY <1>1 DEF HeapInv, Answered, SentEntries
<1>3. Waiting' = Waiting
  BY <1>1, <1>2 DEF Waiting, SentEntries
<1> QED
  BY <1>1, <1>3 DEF Abstract!vars, SentEntries

(* An accepted frame is a delivery, or an urgent message. *)
LEMMA SentAppended ==
    ASSUME Types, Held, NEW t \in Threads, Accepted(t)
    PROVE  SentEntries' = SentEntries \cup {hand[t]}
<1>1. /\ frames' = Append(frames, Frame(t)) /\ pc[t] \in FramePlaces
      /\ OtherType /\ LocalType
  BY DEF Accepted, Types, FramePlaces
<1>2. Frame(t) \in [entry : Entries, dev : Addresses, fcnt : Counters]
  BY <1>1, SentFrame
<1>3. frames \in Seq([entry : Entries, dev : Addresses, fcnt : Counters])
  BY <1>1 DEF OtherType
<1>4. /\ DOMAIN frames = 1 .. Len(frames) /\ Len(frames) \in Nat
      /\ DOMAIN frames' = 1 .. Len(frames) + 1
  <2>1. frames' \in Seq([entry : Entries, dev : Addresses, fcnt : Counters])
        /\ Len(frames') = Len(frames) + 1
    BY <1>1, <1>2, <1>3, AppendProperties
  <2> QED
    BY <1>3, <2>1
<1>5. /\ \A n \in DOMAIN frames : frames'[n] = frames[n]
      /\ frames'[Len(frames) + 1] = Frame(t)
  BY <1>1, <1>2, <1>3, <1>4, AppendProperties
<1>6. Frame(t).entry = hand[t]
  BY DEF Frame
<1> QED
  BY <1>4, <1>5, <1>6 DEF SentEntries

LEMMA SentUpMaps ==
    ASSUME Types, HeapInv, Accepted("up")
    PROVE  Abstract!Next
<1> DEFINE e == hand["up"]
<1>1. /\ pc["up"] = "enqueue" /\ pc'["up"] = "remove" /\ Owned' = Owned
      /\ UNCHANGED <<mem, list, read>>
  BY DEF Accepted, OnAccepted, downlinks, locals, Owned, Goto, Types, PcType, Threads
<1>2. OnItsWay = {e} /\ OnItsWay' = {}
  BY <1>1 DEF OnItsWay, FramePlaces
<1>3. e \notin SentEntries
  BY <1>1 DEF HeapInv, Unsent, SentEntries, FramePlaces
<1>4. SentEntries' = SentEntries \cup {e}
  BY SentAppended DEF Threads, HeapInv
<1>5. Waiting' = Waiting \ {e}
  BY <1>1, <1>4 DEF Waiting
<1>6. Boxed' = {p \in Boxed : p[2] # e}
  BY <1>1, <1>5 DEF Boxed
<1>7. Abstract!Deliver
  BY <1>1, <1>2, <1>3, <1>4, <1>6 DEF Abstract!Deliver, Boxed
<1> QED
  BY <1>7 DEF Abstract!Next

LEMMA SentDnMaps ==
    ASSUME Types, HeapInv, Accepted("dn")
    PROVE  Abstract!Next
<1> USE DEF Threads
<1>1. /\ pc["dn"] = "enqueue" /\ Owned' = {} /\ OnItsWay' = OnItsWay
      /\ UNCHANGED <<mem, list, read>>
  BY DEF Accepted, Done, downlinks, Owned, Goto, Types, PcType, LocalType, OnItsWay
<1>2. /\ Owned = {read} /\ hand["dn"] = read /\ read \in Entries /\ read \notin list
  BY <1>1 DEF HeapInv, Held, DnHolds, Owned
<1>3. SentEntries' = SentEntries \cup {read}
  BY <1>2, SentAppended DEF HeapInv
<1>4. Boxed' = Boxed
  BY <1>1, <1>2, <1>3 DEF Boxed, Waiting
<1>5. read \notin Spent /\ Spent' = Spent \cup {read}
  BY <1>1, <1>2, CustomConstants DEF Spent, Entries
<1>6. Abstract!SendUrgent(read)
  BY <1>1, <1>3, <1>4, <1>5 DEF Abstract!SendUrgent, Abstract!Use, Boxed, Spent
<1> QED
  BY <1>2, <1>6 DEF Abstract!Next

LEMMA PostMaps ==
    ASSUME Types, HeapInv, Post
    PROVE  Abstract!Next
<1> DEFINE new == hand["dn"]
           gone == Evicted \cup SameAddress(list \ Evicted, new)
           pushed == {p \in Boxed : p[2] \in Evicted}
<1>1. /\ pc["dn"] = "post" /\ Owned' = {}
      /\ list' = (list \ gone) \cup {new} /\ OnItsWay' = OnItsWay
      /\ UNCHANGED <<mem, frames, read>>
  BY DEF Post, Done, downlinks, Owned, Goto, Types, PcType, LocalType, Threads, OnItsWay
<1>2. /\ Owned = {read} /\ new = read /\ read \in Entries /\ read \notin list
  BY <1>1 DEF HeapInv, Held, DnHolds, Owned
<1>3. new \notin SentEntries /\ SentEntries' = SentEntries
  BY <1>1, <1>2 DEF HeapInv, SentGone, SentEntries
<1>4. read \notin Spent /\ Spent' = Spent \cup {read}
  BY <1>1, <1>2, CustomConstants DEF Spent, Entries
<1>5. mem[new].dev \in Strings
  BY <1>2 DEF Types, OtherType
<1>6. pushed \in {{}} \cup {{p} : p \in Boxed}
  <2>1. CASE Evicted = {}
    BY <2>1
  <2>2. CASE Evicted # {}
    <3>1. list # {} /\ list \subseteq Nat
      BY <2>2 DEF Evicted, Oldest, Types, OtherType, Entries
    <3>2. PICK e \in list : Oldest(list) = {e}
      BY <3>1, OldestExists
    <3>3. Evicted = {e}
      BY <2>2, <3>2 DEF Evicted
    <3>4. \A p \in pushed : p = <<mem[e].dev, e>>
      BY <3>3 DEF Boxed
    <3> QED
      BY <3>4
  <2> QED
    BY <2>1, <2>2
<1>7. Waiting' = {e \in Waiting \ Evicted : mem[e].dev # mem[new].dev} \cup {new}
  BY <1>1, <1>3 DEF Waiting, SameAddress
<1>8. Boxed' = {p \in Boxed \ pushed : p[1] # mem[new].dev} \cup {<<mem[new].dev, new>>}
  <2>1. Boxed' = {<<mem[e].dev, e>> : e \in Waiting'}
    BY <1>1 DEF Boxed
  <2> QED
    BY <1>7, <2>1 DEF Boxed
<1>9. Abstract!Post(read)
  BY <1>1, <1>2, <1>3, <1>4, <1>5, <1>6, <1>8 DEF Abstract!Post, Abstract!Use, Boxed, Spent
<1>10. \E m \in Entries : Abstract!Post(m)
  <2>1. read \in Entries
    BY <1>2
  <2> QED
    BY <1>9, <2>1 DEF Abstract!Post
<1> QED
  BY <1>10 DEF Abstract!Next

LEMMA StepMaps ==
    ASSUME Inv, [Next]_vars
    PROVE  [Abstract!Next]_(Abstract!vars)
<1>1. Types /\ HeapInv
  BY DEF Inv
<1>2. CASE DealUp
  <2>1. CASE \/ Fetch \/ NextPacket \/ UpKeys \/ Decode \/ Store \/ WriteAddr \/ Search
             \/ Misuse("up")
    BY <1>1, <2>1, DealUpQuiet, QuietMaps
  <2>2. CASE CustomRx2dn("up")
    BY <1>1, <2>2, DealUpQuiet, FrameQuiet, QuietMaps, SentUpMaps DEF CustomRx2dn, Threads
  <2>3. CASE RemoveSent
    BY <1>1, <2>3, RemoveMaps
  <2> QED
    BY <1>2, <2>1, <2>2, <2>3 DEF DealUp
<1>3. CASE PrepareDownlink
  <2>1. CASE Urgent
    BY <1>1, <2>1, PrepareQuiet, QuietMaps
  <2>2. CASE ReadFile \/ CopyAddr \/ CopyMode
    BY <1>1, <2>2, PrepareHand, HandMaps
  <2>3. CASE DnKeys
    <3>1. CASE HasKeys
      BY <1>1, <2>3, <3>1, PrepareQuiet, QuietMaps
    <3>2. CASE ~HasKeys
      BY <1>1, <2>3, <3>2, PrepareHand, HandMaps
    <3> QED
      BY <3>1, <3>2
  <2>4. CASE Post
    BY <1>1, <2>4, PostMaps
  <2>5. CASE CustomRx2dn("dn")
    BY <1>1, <2>5, FrameQuiet, QuietMaps, SentDnMaps, PrepareHand, HandMaps
       DEF CustomRx2dn, Threads
  <2> QED
    BY <1>3, <2>1, <2>2, <2>3, <2>4, <2>5 DEF PrepareDownlink
<1>4. CASE UNCHANGED vars
  BY <1>4 DEF vars, Abstract!vars, Waiting, SentEntries, Owned, OnItsWay
<1> QED
  BY <1>2, <1>3, <1>4 DEF Next

(* The two threads of pkt_serv.c implement the mailbox. *)
THEOREM Implements == Spec => ImplementsMailbox
<1>1. Init => Abstract!Init
  BY DEF Init, Abstract!Init, Waiting, SentEntries, Owned, OnItsWay, FramePlaces, Threads
<1>2. Inv /\ [Next]_vars => [Abstract!Next]_(Abstract!vars)
  BY StepMaps
<1> QED
  BY <1>1, <1>2, Invariance, PTL DEF Spec, ImplementsMailbox, Abstract!Spec

=============================================================================
