-------------------------- MODULE RxDispatchProofs --------------------------
(***************************************************************************)
(* Proofs about RxDispatch, for every value of its constants.              *)
(***************************************************************************)
EXTENDS RxDispatch, FiniteSetTheorems, WellFoundedInduction, TLAPS

(* The batches in the list have been inserted, and the next one has not. *)
ListIsPublished == list \subseteq 1 .. batches

(* The inductive invariant *)
IInv == TypeOK /\ ListIsPublished /\ BindCountsUnread /\ NoLostWakeup

-----------------------------------------------------------------------------
(* The difference of two counter values is a counter value. *)
LEMMA SubType ==
    ASSUME NEW a \in Int, NEW b \in Int
    PROVE  Sub(a, b) \in Time
BY DispatchConstants DEF Sub, Time

(* Every set the invariant counts is finite. *)
LEMMA FiniteSubsets ==
    /\ \A S \in SUBSET Services : IsFiniteSet(S) /\ Cardinality(S) \in Nat
    /\ \A B \in SUBSET Batches : IsFiniteSet(B) /\ Cardinality(B) \in Nat
<1>1. IsFiniteSet(Services) /\ IsFiniteSet(Batches)
  BY DispatchConstants, FS_Interval DEF Services, Batches
<1> QED
  BY <1>1, FS_Subset, FS_CardinalityType

(* All of the services have yet to read a new batch. *)
LEMMA AllUnread == Cardinality(Services \ {}) = N
<1>1. Services \ {} = 1 .. N
  BY DEF Services
<1>2. CASE N = 0
  <2>1. Services \ {} = {}
    BY <1>1, <1>2
  <2> QED
    BY <1>2, <2>1, FS_EmptySet
<1>3. CASE N > 0
  BY <1>1, <1>3, DispatchConstants, FS_Interval
<1> QED
  BY <1>2, <1>3, DispatchConstants

(* A service that is not among those that have read a batch counts once. *)
LEMMA OneFewerUnread ==
    ASSUME NEW S \in SUBSET Services, NEW s \in Services, s \notin S
    PROVE  Cardinality(Services \ (S \cup {s})) = Cardinality(Services \ S) - 1
<1> DEFINE U == Services \ S
<1>1. IsFiniteSet(U) /\ s \in U
  BY FiniteSubsets
<1>2. Services \ (S \cup {s}) = U \ {s}
  OBVIOUS
<1> QED
  BY <1>1, <1>2, FS_RemoveElement

(* Reading a batch leaves an entry of the list's type. *)
LEMMA StampedType ==
    ASSUME NEW e \in [us : Time, stamps : SUBSET Services, bind : Int], NEW s \in Services
    PROVE  Stamped(e, s) \in [us : Time, stamps : SUBSET Services, bind : Int]
<1>1. /\ e.stamps \cup {s} \in SUBSET Services
      /\ e.bind - 1 \in Int
  OBVIOUS
<1> DEFINE t == e.stamps \cup {s}
           n == e.bind - 1
<1>2. Stamped(e, s) = [e EXCEPT !.stamps = t, !.bind = n]
  BY DEF Stamped
<1> HIDE DEF t, n
<1>3. e.us \in Time
  OBVIOUS
<1> QED
  BY <1>1, <1>2, <1>3 DEF t, n

-----------------------------------------------------------------------------
LEMMA InitIInv == Init => IInv
<1> SUFFICES ASSUME Init PROVE IInv
  OBVIOUS
<1> USE DispatchConstants
<1>1. TypeOK
  BY DEF Init, TypeOK, NoEntry, Time, Batches
<1>2. ListIsPublished /\ BindCountsUnread
  BY DEF Init, ListIsPublished, BindCountsUnread
<1>3. NoLostWakeup
  <2> SUFFICES ASSUME NEW s \in Readers PROVE Cardinality(Unread(s)) <= Pending(s)
    BY DEF NoLostWakeup
  <2>1. Unread(s) = {}
    BY DEF Init, Unread
  <2>2. Pending(s) = 0
    BY DEF Init, Pending
  <2> QED
    BY <2>1, <2>2, FS_EmptySet
<1> QED
  BY <1>1, <1>2, <1>3 DEF IInv

LEMMA TypeStep == TypeOK /\ [Next]_vars => TypeOK'
<1> SUFFICES ASSUME TypeOK, [Next]_vars PROVE TypeOK'
  OBVIOUS
<1> USE DispatchConstants DEF TypeOK
<1>1. CASE Insert
  <2>1. batches + 1 \in Batches
    BY <1>1 DEF Insert, Batches
  <2>2. PICK d \in 0 .. FetchLag :
          rx' = [rx EXCEPT ![batches + 1] = [us |-> Sub(now, d), stamps |-> {}, bind |-> N]]
    BY <1>1 DEF Insert
  <2>3. Sub(now, d) \in Time
    BY SubType DEF Time
  <2>4. rx' \in [Batches -> [us : Time, stamps : SUBSET Services, bind : Int]]
    BY <2>1, <2>2, <2>3
  <2> QED
    BY <1>1, <2>1, <2>4 DEF Insert
<1>2. CASE PostUp
  BY <1>2 DEF PostUp, Posted
<1>3. ASSUME NEW s \in Readers, Reader(s) PROVE TypeOK'
  <2>1. CASE Wake(s)
    BY <2>1 DEF Wake, HasToken
  <2>2. CASE GetRxpkt(s)
    <3>1. PICK b \in FirstUnread(s) :
            /\ rx' = [rx EXCEPT ![b] = Stamped(rx[b], s)]
            /\ got' = [got EXCEPT ![s] = @ \cup {b}]
      BY <2>2 DEF GetRxpkt
    <3>2. b \in Batches /\ s \in Services
      BY DEF FirstUnread, Unread
    <3>3. Stamped(rx[b], s) \in [us : Time, stamps : SUBSET Services, bind : Int]
      BY <3>2, StampedType
    <3> QED
      BY <2>2, <3>1, <3>2, <3>3 DEF GetRxpkt
  <2>3. CASE GetNothing(s)
    BY <2>3 DEF GetNothing
  <2> QED
    BY <1>3, <2>1, <2>2, <2>3 DEF Reader
<1>10. ASSUME NEW s \in Readers, Report(s) PROVE TypeOK'
  BY <1>10 DEF Report, Posted
<1>4. CASE StartRound
  BY <1>4 DEF StartRound
<1>5. CASE PostRecycle
  BY <1>5 DEF PostRecycle, Posted, Services
<1>6. CASE Recycle
  <2>1. NoEntry \in [us : Time, stamps : SUBSET Services, bind : Int]
    BY DEF NoEntry, Time
  <2> QED
    BY <1>6, <2>1 DEF Recycle, Recyclable
<1>7. CASE ReadHalTime
  BY <1>7 DEF ReadHalTime
<1>8. CASE Tick
  BY <1>8 DEF Tick, Time
<1>9. CASE UNCHANGED vars
  BY <1>9 DEF vars
<1> QED
  BY <1>1, <1>2, <1>3, <1>4, <1>5, <1>6, <1>7, <1>8, <1>9, <1>10 DEF Next, RecycleThread

LEMMA ListStep == TypeOK /\ ListIsPublished /\ [Next]_vars => ListIsPublished'
<1> SUFFICES ASSUME TypeOK, ListIsPublished, [Next]_vars PROVE ListIsPublished'
  OBVIOUS
<1> USE DEF ListIsPublished
<1>1. CASE Insert
  BY <1>1 DEF Insert, TypeOK
<1>2. CASE Recycle
  BY <1>2 DEF Recycle
<1>3. CASE PostUp \/ (\E s \in Readers : Reader(s) \/ Report(s)) \/ StartRound \/ PostRecycle
           \/ ReadHalTime \/ Tick \/ UNCHANGED vars
  BY <1>3 DEF PostUp, Reader, Report, Wake, GetRxpkt, GetNothing, StartRound, PostRecycle,
              ReadHalTime, Tick, vars
<1> QED
  BY <1>1, <1>2, <1>3 DEF Next, RecycleThread

(* bind: insertion, a reader's copy and recycling are the steps that change it. *)
LEMMA BindStep ==
    TypeOK /\ ListIsPublished /\ BindCountsUnread /\ [Next]_vars => BindCountsUnread'
<1> SUFFICES ASSUME TypeOK, ListIsPublished, BindCountsUnread, [Next]_vars,
                    NEW b \in list'
             PROVE  rx'[b].bind = Cardinality(Services \ rx'[b].stamps)
  BY DEF BindCountsUnread
<1> USE DEF TypeOK
<1>1. CASE Insert
  <2>1. PICK d \in 0 .. FetchLag :
          rx' = [rx EXCEPT ![batches + 1] = [us |-> Sub(now, d), stamps |-> {}, bind |-> N]]
    BY <1>1 DEF Insert
  <2>2. CASE b = batches + 1
    <3>1. b \in Batches
      BY <1>1, <2>2, DispatchConstants DEF Insert, Batches
    <3>2. rx'[b].stamps = {} /\ rx'[b].bind = N
      BY <2>1, <2>2, <3>1
    <3> QED
      BY <3>2, AllUnread
  <2>3. CASE b # batches + 1
    <3>1. b \in list /\ rx'[b] = rx[b]
      BY <1>1, <2>1, <2>3 DEF Insert
    <3> QED
      BY <3>1 DEF BindCountsUnread
  <2> QED
    BY <2>2, <2>3
<1>2. ASSUME NEW s \in Readers, GetRxpkt(s)
      PROVE  rx'[b].bind = Cardinality(Services \ rx'[b].stamps)
  <2>1. PICK c \in FirstUnread(s) : rx' = [rx EXCEPT ![c] = Stamped(rx[c], s)]
    BY <1>2 DEF GetRxpkt
  <2>2. /\ s \in Services /\ s \notin rx[c].stamps
        /\ b \in list /\ b \in Batches /\ c \in list /\ c \in Batches
    BY <1>2, DispatchConstants DEF GetRxpkt, FirstUnread, Unread
  <2>3. CASE b = c
    <3>1. /\ rx[b].stamps \in SUBSET Services /\ rx[b].bind \in Int
          /\ rx'[b].stamps = rx[b].stamps \cup {s}
          /\ rx'[b].bind = rx[b].bind - 1
      BY <2>1, <2>2, <2>3 DEF Stamped
    <3>2. rx[b].bind = Cardinality(Services \ rx[b].stamps)
      BY <2>2 DEF BindCountsUnread
    <3> QED
      BY <2>2, <2>3, <3>1, <3>2, OneFewerUnread
  <2>4. CASE b # c
    <3>1. rx'[b] = rx[b]
      BY <2>1, <2>2, <2>4
    <3> QED
      BY <2>2, <3>1 DEF BindCountsUnread
  <2> QED
    BY <2>3, <2>4
<1>3. CASE Recycle
  <2>1. b \in list /\ b \in Batches /\ b \notin Recyclable
    BY <1>3 DEF Recycle
  <2>2. rx'[b] = rx[b]
    BY <1>3, <2>1 DEF Recycle
  <2> QED
    BY <2>1, <2>2 DEF BindCountsUnread
<1>4. CASE \/ PostUp \/ StartRound \/ PostRecycle \/ ReadHalTime \/ Tick
           \/ UNCHANGED vars \/ \E s \in Readers : Wake(s) \/ GetNothing(s) \/ Report(s)
  <2>1. list' = list /\ rx' = rx
    BY <1>4 DEF PostUp, Report, Wake, GetNothing, StartRound, PostRecycle, ReadHalTime, Tick, vars
  <2> QED
    BY <2>1 DEF BindCountsUnread
<1> QED
  BY <1>1, <1>2, <1>3, <1>4 DEF Next, Reader, RecycleThread

(* A nonempty set of naturals has a least element. *)
LEMMA LeastNat ==
    ASSUME NEW D, D \subseteq Nat, D # {}
    PROVE  \E n \in D : \A m \in D : n <= m
<1> DEFINE R == {p \in Nat \X Nat : p[1] < p[2]}
<1>1. PICK n \in D : \A m \in D : <<m, n>> \notin R
  <2>1. IsWellFoundedOn(R, Nat)
    BY NatLessThanWellFounded DEF OpToRel
  <2> HIDE DEF R
  <2> QED
    BY <2>1, WFMin
<1>2. ASSUME NEW m \in D, m < n PROVE FALSE
  <2>1. <<m, n>> \in R
    BY <1>2
  <2> QED
    BY <1>1, <2>1
<1> QED
  BY <1>1, <1>2

(* A nonempty set of batches has a greatest one: get_rxpkt finds nothing only
   when the service has read the whole list.                                *)
LEMMA NonemptyHasFirst ==
    ASSUME TypeOK, NEW s, FirstUnread(s) = {}
    PROVE  Unread(s) = {}
<1> SUFFICES ASSUME Unread(s) # {} PROVE FALSE
  OBVIOUS
<1> DEFINE D == {MaxBatches - b : b \in Unread(s)}
<1>1. D \subseteq Nat /\ D # {}
  <2>1. \A b \in Unread(s) : b \in Int /\ MaxBatches - b \in Nat
    BY DispatchConstants DEF Unread, TypeOK, Batches
  <2> QED
    BY <2>1
<1>2. PICK n \in D : \A m \in D : n <= m
  <2> HIDE DEF D
  <2> QED
    BY <1>1, LeastNat
<1>3. PICK b \in Unread(s) : n = MaxBatches - b
  OBVIOUS
<1>4. ASSUME NEW c \in Unread(s) PROVE c <= b
  <2>1. b \in Int /\ c \in Int /\ MaxBatches \in Int
    BY DispatchConstants DEF Unread, TypeOK, Batches
  <2>2. n <= MaxBatches - c
    BY <1>2
  <2> QED
    BY <1>3, <2>1, <2>2
<1> QED
  BY <1>3, <1>4 DEF FirstUnread, IsFirst

(* The batches a service has not read can be counted, before and after a step. *)
LEMMA UnreadFinite ==
    ASSUME TypeOK, NEW s
    PROVE  /\ IsFiniteSet(Unread(s)) /\ Cardinality(Unread(s)) \in Nat
           /\ TypeOK' => IsFiniteSet(Unread(s)') /\ Cardinality(Unread(s)') \in Nat
BY FiniteSubsets DEF TypeOK, Unread

LEMMA WakeupStep ==
    ASSUME TypeOK, TypeOK', NoLostWakeup, [Next]_vars
    PROVE  NoLostWakeup'
<1> SUFFICES ASSUME NEW s \in Readers PROVE Cardinality(Unread(s)') <= Pending(s)'
  BY DEF NoLostWakeup
<1> DEFINE u  == Cardinality(Unread(s))
           uu == Cardinality(Unread(s)')
<1>n. N \in Nat /\ Readers \subseteq Services
  BY DispatchConstants
<1>0. /\ u \in Nat /\ uu \in Nat /\ u <= Pending(s)
      /\ s \in Services /\ s \in 1 .. N
      /\ sema[s] \in Nat /\ sema'[s] \in Nat /\ up \in 0 .. N /\ N \in Nat
  BY <1>n, UnreadFinite DEF NoLostWakeup, TypeOK, Services
<1>1. CASE Insert
  <2>1. PICK d \in 0 .. FetchLag :
          rx' = [rx EXCEPT ![batches + 1] = [us |-> Sub(now, d), stamps |-> {}, bind |-> N]]
    BY <1>1 DEF Insert
  <2>2. Unread(s)' \subseteq Unread(s) \cup {batches + 1}
    BY <1>1, <2>1 DEF Insert, Unread, TypeOK
  <2>3. uu <= u + 1
    <3>1. /\ IsFiniteSet(Unread(s) \cup {batches + 1})
          /\ Cardinality(Unread(s) \cup {batches + 1}) <= u + 1
      <4>1. IsFiniteSet(Unread(s))
        BY UnreadFinite
      <4>2. Cardinality(Unread(s) \cup {batches + 1}) \in {u, u + 1}
        BY <4>1, FS_AddElement
      <4>3. IsFiniteSet(Unread(s) \cup {batches + 1})
        BY <4>1, FS_AddElement
      <4> QED
        BY <1>0, <4>2, <4>3
    <3>2. uu <= Cardinality(Unread(s) \cup {batches + 1})
      BY <2>2, <3>1, FS_Subset
    <3> QED
      BY <1>0, <3>1, <3>2, UnreadFinite, FS_CardinalityType
  <2>4. Pending(s)' = Pending(s) + 1
    <3>1. up = 0 /\ up' = 1 /\ sema' = sema /\ awake' = awake
      BY <1>0, <1>1 DEF Insert
    <3> QED
      BY <1>0, <3>1 DEF Pending
  <2> HIDE DEF u, uu
  <2>5. Pending(s) \in Int
    BY <1>0 DEF Pending
  <2> QED
    BY <1>0, <2>3, <2>4, <2>5 DEF uu
<1>2. CASE PostUp
  <2>1. Unread(s)' = Unread(s)
    BY <1>2 DEF PostUp, Unread
  <2>2. /\ up # 0 /\ up' = (IF up = N THEN 0 ELSE up + 1)
        /\ sema'[s] = (IF s = up THEN sema[s] + 1 ELSE sema[s])
        /\ awake' = awake
    BY <1>2 DEF PostUp, Posted, TypeOK
  <2>3. Pending(s)' = Pending(s)
    <3>1. CASE s = up
      BY <1>0, <2>2, <3>1 DEF Pending
    <3>2. CASE s # up
      BY <1>0, <2>2, <3>2 DEF Pending
    <3> QED
      BY <3>1, <3>2
  <2> QED
    BY <1>0, <2>1, <2>3
<1>3. ASSUME NEW r \in Readers, Wake(r) PROVE uu <= Pending(s)'
  <2>1. Unread(s)' = Unread(s)
    BY <1>3 DEF Wake, Unread
  <2>2. Pending(s)' = Pending(s)
    BY <1>0, <1>3 DEF Wake, HasToken, Pending, TypeOK
  <2> QED
    BY <1>0, <2>1, <2>2
<1>4. ASSUME NEW r \in Readers, GetRxpkt(r) PROVE uu <= Pending(s)'
  <2>1. PICK b \in FirstUnread(r) : rx' = [rx EXCEPT ![b] = Stamped(rx[b], r)]
    BY <1>4 DEF GetRxpkt
  <2>2. /\ b \in list /\ b \in Batches /\ list' = list /\ sema' = sema /\ up' = up
        /\ r \in awake /\ awake' = awake \ {r} /\ b \in Unread(r)
    BY <1>4 DEF GetRxpkt, FirstUnread, Unread, TypeOK
  <2>3. rx'[b].stamps = rx[b].stamps \cup {r}
    BY <2>1, <2>2 DEF Stamped, TypeOK
  <2>4. \A c \in list : c # b => rx'[c] = rx[c]
    BY <2>1 DEF TypeOK
  <2>5. CASE r = s
    <3>1. Unread(s)' = Unread(s) \ {b}
      BY <2>2, <2>3, <2>4, <2>5 DEF Unread
    <3>2. uu = u - 1
      BY <2>2, <2>5, <3>1, UnreadFinite, FS_RemoveElement
    <3>3. Pending(s)' = Pending(s) - 1
      BY <1>0, <2>2, <2>5 DEF Pending
    <3>4. Pending(s) \in Int
      BY <1>0 DEF Pending
    <3> HIDE DEF u, uu
    <3> QED
      BY <1>0, <3>2, <3>3, <3>4
  <2>6. CASE r # s
    <3>1. Unread(s)' = Unread(s)
      BY <2>2, <2>3, <2>4, <2>6 DEF Unread
    <3>2. Pending(s)' = Pending(s)
      BY <2>2, <2>6 DEF Pending
    <3> QED
      BY <1>0, <3>1, <3>2
  <2> QED
    BY <2>5, <2>6
<1>5. ASSUME NEW r \in Readers, GetNothing(r) PROVE uu <= Pending(s)'
  <2>1. /\ Unread(s)' = Unread(s) /\ sema' = sema /\ up' = up /\ awake' = awake \ {r}
    BY <1>5 DEF GetNothing, Unread
  <2>2. CASE r = s
    <3>1. Unread(s) = {}
      <4>1. FirstUnread(s) = {}
        BY <1>5, <2>2 DEF GetNothing
      <4> QED
        BY <4>1, NonemptyHasFirst
    <3>2. uu = 0
      BY <2>1, <3>1, FS_EmptySet
    <3> QED
      BY <1>0, <3>2 DEF Pending
  <2>3. CASE r # s
    BY <1>0, <2>1, <2>3 DEF Pending
  <2> QED
    BY <2>2, <2>3
<1>6. CASE PostRecycle \/ \E r \in Readers : Report(r)
  <2>1. Unread(s)' = Unread(s)
    BY <1>6 DEF PostRecycle, Report, Unread
  <2>2. /\ sema'[s] >= sema[s] /\ awake' = awake /\ up' = up
    BY <1>0, <1>6 DEF PostRecycle, Report, Posted, TypeOK
  <2> QED
    BY <1>0, <2>1, <2>2 DEF Pending
<1>7. CASE Recycle
  <2>1. Unread(s)' \subseteq Unread(s)
    BY <1>7 DEF Recycle, Unread, TypeOK
  <2>2. uu <= u
    BY <2>1, UnreadFinite, FS_Subset
  <2>3. Pending(s)' = Pending(s) /\ Pending(s) \in Int
    BY <1>0, <1>7 DEF Recycle, Pending
  <2> HIDE DEF u, uu
  <2> QED
    BY <1>0, <2>2, <2>3 DEF uu
<1>8. CASE StartRound \/ ReadHalTime \/ Tick \/ UNCHANGED vars
  <2>1. Unread(s)' = Unread(s) /\ Pending(s)' = Pending(s)
    BY <1>8 DEF StartRound, ReadHalTime, Tick, vars, Unread, Pending
  <2> QED
    BY <1>0, <2>1
<1> QED
  BY <1>1, <1>2, <1>3, <1>4, <1>5, <1>6, <1>7, <1>8 DEF Next, Reader, RecycleThread
-----------------------------------------------------------------------------
THEOREM Invariance == Spec => []IInv
<1>1. IInv /\ [Next]_vars => IInv'
  BY TypeStep, ListStep, BindStep, WakeupStep DEF IInv
<1> QED
  BY InitIInv, <1>1, PTL DEF Spec

(* The variables keep their types: bind and the semaphores are never driven
   out of their ranges.                                                     *)
THEOREM TypeCorrect == Spec => []TypeOK
  BY Invariance, PTL DEF IInv

(* bind is the number of services that have not read the batch (get_rxpkt
   against thread_up's bind = serv_list.size): recycling on bind < 1 frees
   only what all of them have read.                                         *)
THEOREM BindIsAccurate == Spec => []BindCountsUnread
  BY Invariance, PTL DEF IInv

(* No service sleeps on a batch it has not read: the semaphore protocol of
   thread_up, the recycle thread and get_rxpkt loses no wakeup.             *)
THEOREM WakeupsSuffice == Spec => []NoLostWakeup
  BY Invariance, PTL DEF IInv
-----------------------------------------------------------------------------
(* The list implements Fanout. *)
AbstractWaiting == [s \in Services |-> Waiting(s)]

LEMMA FanoutInit == Init => Abstract!Init
<1> SUFFICES ASSUME Init PROVE Abstract!Init
  OBVIOUS
<1>1. 1 .. batches = {}
  BY DEF Init
<1>2. AbstractWaiting = [s \in Services |-> {}]
  BY DEF Init, AbstractWaiting, Waiting, Unread
<1> QED
  BY <1>1, <1>2 DEF Init, Abstract!Init, AbstractWaiting

LEMMA InsertPublishes ==
    ASSUME TypeOK, ListIsPublished, Insert
    PROVE  Abstract!Publish(batches + 1) /\ batches + 1 \in 1 .. batches'
<1> DEFINE b == batches + 1
<1>1. b \in Batches /\ b \notin list /\ b \notin 1 .. batches /\ 1 .. batches' = (1 .. batches) \cup {b}
  BY DispatchConstants DEF TypeOK, Insert, ListIsPublished, Batches
<1>2. PICK d \in 0 .. FetchLag :
        rx' = [rx EXCEPT ![b] = [us |-> Sub(now, d), stamps |-> {}, bind |-> N]]
  BY DEF Insert
<1>3. rx'[b].stamps = {} /\ \A c \in list : rx'[c] = rx[c]
  BY <1>1, <1>2 DEF TypeOK
<1>4. list' = list \cup {b} /\ got' = got
  BY DEF Insert
<1> HIDE DEF b
<1>5. ASSUME NEW s \in Services PROVE Waiting(s)' = AbstractWaiting[s] \cup {b}
  BY <1>3, <1>4 DEF AbstractWaiting, Waiting, Unread
<1>6. AbstractWaiting' = [s \in Services |-> AbstractWaiting[s] \cup {b}]
  BY <1>5 DEF AbstractWaiting
<1> QED
  BY <1>1, <1>4, <1>6 DEF Abstract!Publish, AbstractWaiting, b

LEMMA GetRxpktDelivers ==
    ASSUME TypeOK, NEW s \in Readers, GetRxpkt(s)
    PROVE  \E b \in Waiting(s) : Abstract!Deliver(s, b)
<1>1. PICK b \in FirstUnread(s) :
        /\ rx' = [rx EXCEPT ![b] = Stamped(rx[b], s)]
        /\ got' = [got EXCEPT ![s] = @ \cup {b}]
  BY DEF GetRxpkt
<1>2. b \in Waiting(s) /\ b \in Batches /\ s \in Services /\ list' = list /\ batches' = batches
  BY DispatchConstants DEF FirstUnread, Waiting, Unread, TypeOK, GetRxpkt
<1>3. rx'[b].stamps = rx[b].stamps \cup {s} /\ \A c \in list : c # b => rx'[c] = rx[c]
  BY <1>1, <1>2 DEF Stamped, TypeOK
<1>4. ASSUME NEW t \in Services
      PROVE  Waiting(t)' = IF t = s THEN AbstractWaiting[t] \ {b} ELSE AbstractWaiting[t]
  BY <1>2, <1>3 DEF AbstractWaiting, Waiting, Unread
<1>5. AbstractWaiting' = [AbstractWaiting EXCEPT ![s] = @ \ {b}]
  BY <1>2, <1>4 DEF AbstractWaiting
<1>6. b \in AbstractWaiting[s]
  BY <1>2 DEF AbstractWaiting
<1>7. Abstract!Deliver(s, b)
  BY <1>1, <1>2, <1>5, <1>6 DEF Abstract!Deliver, AbstractWaiting
<1> QED
  BY <1>2, <1>7

LEMMA RecycleExpires ==
    ASSUME TypeOK, ListIsPublished, Recycle
    PROVE  Recyclable \in SUBSET (1 .. batches) /\ Abstract!Expire(Recyclable)
<1>1. Recyclable \subseteq list /\ list \subseteq 1 .. batches /\ list \subseteq Batches
  BY DEF Recyclable, ListIsPublished, TypeOK
<1>2. /\ list' = list \ Recyclable /\ batches' = batches /\ got' = got
      /\ \A b \in list' : rx'[b] = rx[b]
  BY <1>1 DEF Recycle
<1>3. ASSUME NEW s \in Services PROVE Waiting(s)' = AbstractWaiting[s] \ Recyclable
  BY <1>2 DEF AbstractWaiting, Waiting, Unread
<1>4. AbstractWaiting' = [s \in Services |-> AbstractWaiting[s] \ Recyclable]
  BY <1>3 DEF AbstractWaiting
<1> QED
  BY <1>1, <1>2, <1>4 DEF Abstract!Expire, AbstractWaiting

LEMMA FanoutStep ==
    ASSUME TypeOK, ListIsPublished, [Next]_vars
    PROVE  [Abstract!Next]_<<1 .. batches, AbstractWaiting, got>>
<1>1. CASE Insert
  BY <1>1, InsertPublishes DEF Abstract!Next
<1>2. ASSUME NEW s \in Readers, GetRxpkt(s) PROVE Abstract!Next
  <2>1. s \in Services
    BY DispatchConstants
  <2> QED
    BY <1>2, <2>1, GetRxpktDelivers DEF Abstract!Next
<1>3. CASE Recycle
  BY <1>3, RecycleExpires DEF Abstract!Next
<1>4. CASE \/ PostUp \/ StartRound \/ PostRecycle \/ ReadHalTime \/ Tick
           \/ UNCHANGED vars \/ \E s \in Readers : Wake(s) \/ GetNothing(s) \/ Report(s)
  <2>1. UNCHANGED <<list, rx, batches, got>>
    BY <1>4 DEF PostUp, Report, Wake, GetNothing, StartRound, PostRecycle, ReadHalTime, Tick, vars
  <2> QED
    BY <2>1 DEF AbstractWaiting, Waiting, Unread
<1> QED
  BY <1>1, <1>2, <1>3, <1>4 DEF Next, Reader, RecycleThread

(* The shared list implements the abstract fan-out: a service is handed a
   batch at most once, never one that was recycled, and never misses one that
   is still in the list - whatever the interleaving of thread_up, the
   services' threads and the recycle thread.                                *)
THEOREM ListIsAFanout == Spec => ImplementsFanout
<1>1. IInv /\ [Next]_vars => [Abstract!Next]_<<1 .. batches, AbstractWaiting, got>>
  BY FanoutStep DEF IInv
<1> QED
  BY FanoutInit, <1>1, Invariance, PTL
  DEF Spec, ImplementsFanout, Abstract!Spec, AbstractWaiting
=============================================================================
