--------------------------- MODULE DatabaseProofs ---------------------------
(***************************************************************************)
(* Proofs about Database, for every value of its constants.                *)
(***************************************************************************)
EXTENDS Database, TLAPS

(* The transaction is open, and the lock held, where the thread's place says. *)
PlaceInv ==
    /\ open <=> sync \in {"test", "wait", "commit", "rollback", "sleep"}
    /\ locked <=> sync \in {"test", "commit", "rollback", "after"}
    /\ exit \in {"joined", "closed"} => sync \in {"done", "dead"}
    /\ sync = "dead" => starts < MaxStarts

(* Without a transaction nothing is left to commit. *)
Settled == ~open => mem = disk

(* A change has a number no other has, and what is read is never behind what is
   committed.                                                                *)
Ahead == \A k \in Keys : disk[k] <= mem[k] /\ mem[k] <= changes

(* The inductive invariant.  NoLostSync is its own strengthening once the place
   tells whether the transaction is open.                                    *)
Inv == TypeOK /\ PlaceInv /\ Settled /\ Ahead /\ NoLostSync

(* They are numbers. *)
LEMMA Numbers ==
    ASSUME TypeOK, Ahead
    PROVE  /\ changes \in Nat
           /\ \A k \in Keys : mem[k] \in Nat /\ disk[k] \in Nat
           /\ \A k \in Keys : disk[k] <= changes /\ disk[k] <= disk[k] /\ mem[k] <= mem[k]
<1>1. changes \in Nat
  BY DatabaseConstants DEF TypeOK
<1>2. ASSUME NEW k \in Keys PROVE mem[k] \in Nat /\ disk[k] \in Nat
  BY DatabaseConstants DEF TypeOK
<1> QED
  BY <1>1, <1>2 DEF Ahead

LEMMA InitInv == Init => Inv
<1> SUFFICES ASSUME Init PROVE Inv
  OBVIOUS
<1>1. TypeOK
  <2>1. 0 \in 0 .. MaxChanges /\ 0 \in 0 .. MaxStarts
    BY DatabaseConstants
  <2>2. mem \in [Keys -> 0 .. MaxChanges] /\ disk \in [Keys -> 0 .. MaxChanges]
    BY <2>1 DEF Init
  <2>3. changes \in 0 .. MaxChanges /\ starts \in 0 .. MaxStarts
    BY <2>1 DEF Init
  <2> QED
    BY <2>2, <2>3 DEF Init, TypeOK, SyncPlaces, ExitPlaces
<1>2. PlaceInv /\ Settled /\ NoLostSync
  BY DEF Init, PlaceInv, Settled, NoLostSync
<1>3. Ahead
  <2> SUFFICES ASSUME NEW k \in Keys PROVE disk[k] <= mem[k] /\ mem[k] <= changes
    BY DEF Ahead
  <2>1. disk[k] = 0 /\ mem[k] = 0 /\ changes = 0
    BY DEF Init
  <2> QED
    BY <2>1
<1> QED
  BY <1>1, <1>2, <1>3 DEF Inv

(* A change by another thread. *)
LEMMA ChangeInv ==
    ASSUME Inv, NEW K \in SUBSET Keys, Change(K)
    PROVE  Inv'
<1>1. TypeOK /\ PlaceInv /\ Settled /\ Ahead /\ NoLostSync
  BY DEF Inv
<1>2. changes' = changes + 1 /\ changes' \in 0 .. MaxChanges
  BY <1>1, DatabaseConstants DEF Change, TypeOK
<1>3. Changed(K) \in [Keys -> 0 .. MaxChanges]
  BY <1>1, <1>2 DEF Changed, TypeOK, Change
<1>4. /\ dosync' = TRUE /\ woken' = (woken \/ sync = "wait")
      /\ UNCHANGED <<open, sync, exit, locked, doexit, starts>>
  BY DEF Change, db_sync, DoSync
<1>5. \/ mem' = Changed(K) /\ disk' = IF open THEN disk ELSE Changed(K)
      \/ UNCHANGED <<mem, disk>>
  BY DEF Change
<1>6. TypeOK'
  BY <1>1, <1>2, <1>3, <1>4, <1>5 DEF TypeOK
<1>7. PlaceInv' /\ Settled'
  BY <1>1, <1>4, <1>5 DEF PlaceInv, Settled
<1>8. Ahead'
  <2>1. \A k \in Keys : Changed(K)[k] = changes + 1 \/ Changed(K)[k] = mem[k]
    BY DEF Changed
  <2>2. \A k \in Keys : disk[k] \in Int /\ mem[k] \in Int
    BY <1>1, DatabaseConstants DEF TypeOK
  <2>3. changes \in Int
    BY <1>1, DatabaseConstants DEF TypeOK
  <2> HIDE DEF Changed
  <2> QED
    BY <1>1, <1>2, <1>5, <2>1, <2>2, <2>3 DEF Ahead
<1>9. NoLostSync'
  <2>1. mem' # disk' => open
    BY <1>1, <1>5 DEF Settled
  <2> QED
    BY <1>1, <1>4, <2>1 DEF NoLostSync, PlaceInv
<1> QED
  BY <1>6, <1>7, <1>8, <1>9 DEF Inv

(* The steps of db_sync_thread. *)
LEMMA SyncInv ==
    ASSUME Inv, DbSyncThread \/ Spurious
    PROVE  Inv'
<1> USE DEF TypeOK, PlaceInv, Settled, Ahead, NoLostSync, SyncPlaces
<1>1. TypeOK /\ PlaceInv /\ Settled /\ Ahead /\ NoLostSync
  BY DEF Inv
<1>2. CASE Begin
  BY <1>1, <1>2 DEF Begin, Inv
<1>3. CASE Test
  BY <1>1, <1>3 DEF Test, MustWait, Inv
<1>4. CASE Wake
  BY <1>1, <1>4 DEF Wake, Inv
<1>5. CASE Commit
  BY <1>1, <1>5, Numbers DEF Commit, Inv
<1>6. CASE Rollback
  BY <1>1, <1>6, Numbers DEF Rollback, Inv
<1>7. CASE AfterCommit
  BY <1>1, <1>7 DEF AfterCommit, Inv
<1>8. CASE EndSleep
  BY <1>1, <1>8 DEF EndSleep, Inv
<1>9. CASE Spurious
  BY <1>1, <1>9 DEF Spurious, Inv
<1> QED
  BY <1>2, <1>3, <1>4, <1>5, <1>6, <1>7, <1>8, <1>9 DEF DbSyncThread

(* The program's end, its death and its start. *)
LEMMA LifeInv ==
    ASSUME Inv, GwdbAtexit \/ Die \/ Start
    PROVE  Inv'
<1> USE DEF TypeOK, PlaceInv, Settled, Ahead, NoLostSync, SyncPlaces, ExitPlaces, Alive
<1>1. TypeOK /\ PlaceInv /\ Settled /\ Ahead /\ NoLostSync
  BY DEF Inv
<1>2. CASE AskToExit
  BY <1>1, <1>2 DEF AskToExit, db_sync, DoSync, Inv
<1>3. CASE Join
  BY <1>1, <1>3 DEF Join, Inv
<1>4. CASE Close
  BY <1>1, <1>4 DEF Close, Inv
<1>5. CASE Die
  BY <1>1, <1>5, Numbers DEF Die, Inv
<1>6. CASE Start
  <2>1. Emptied(States) \in [Keys -> 0 .. MaxChanges]
    BY <1>1, DatabaseConstants DEF Emptied
  <2>2. \A k \in Keys : Emptied(States)[k] <= changes
    <3> SUFFICES ASSUME NEW k \in Keys PROVE Emptied(States)[k] <= changes
      OBVIOUS
    <3>1. Emptied(States)[k] \in {0, disk[k]}
      BY DEF Emptied
    <3> QED
      BY <1>1, <3>1, Numbers
  <2>3. starts' \in 0 .. MaxStarts
    BY <1>1, <1>6, DatabaseConstants DEF Start
  <2> HIDE DEF Emptied
  <2>4. \A k \in Keys : Emptied(States)[k] <= Emptied(States)[k]
    BY <2>1, DatabaseConstants
  <2> QED
    BY <1>1, <1>6, <2>1, <2>2, <2>3, <2>4 DEF Start, Inv
<1> QED
  BY <1>2, <1>3, <1>4, <1>5, <1>6 DEF GwdbAtexit

LEMMA InvStep == Inv /\ [Next]_vars => Inv'
<1> SUFFICES ASSUME Inv, [Next]_vars PROVE Inv'
  OBVIOUS
<1>1. CASE \E K \in SUBSET Keys : Change(K)
  BY <1>1, ChangeInv
<1>2. CASE DbSyncThread \/ Spurious
  BY <1>2, SyncInv
<1>3. CASE GwdbAtexit \/ Die \/ Start
  BY <1>3, LifeInv
<1>4. CASE UNCHANGED vars
  BY <1>4 DEF vars, Inv, TypeOK, PlaceInv, Settled, Ahead, NoLostSync
<1> QED
  BY <1>1, <1>2, <1>3, <1>4 DEF Next

(* The invariant holds in every reachable state. *)
THEOREM Invariance == Spec => []Inv
BY InitInv, InvStep, PTL DEF Spec

(* Every variable of db.c keeps its type. *)
THEOREM TypeCorrect == Spec => []TypeOK
<1>1. Inv => TypeOK
  BY DEF Inv
<1> QED
  BY <1>1, Invariance, PTL

(* db_sync's flag and signal never miss db_sync_thread: what is not committed is
   going to be.                                                              *)
THEOREM SyncNotLost == Spec => []NoLostSync
<1>1. Inv => NoLostSync
  BY DEF Inv
<1> QED
  BY <1>1, Invariance, PTL

(* gwdb_atexit, however it meets the puts of other threads, leaves nothing in an
   open transaction.                                                         *)
THEOREM ExitSettles == Spec => []SettledAtExit
<1>1. Inv => SettledAtExit
  BY DEF Inv, PlaceInv, Settled, SettledAtExit
<1> QED
  BY <1>1, Invariance, PTL

(* No commit, rollback or crash takes back what the other processes have read. *)
THEOREM NothingTakenBack == Spec => ReadersGoForward
<1>1. Inv /\ [Next]_vars => [\A k \in Keys \ States : disk'[k] >= disk[k]]_vars
  <2> SUFFICES ASSUME Inv, Next
               PROVE  \A k \in Keys \ States : disk'[k] >= disk[k]
    OBVIOUS
  <2>1. TypeOK /\ Ahead /\ Settled
    BY DEF Inv
  <2>2. CASE UNCHANGED disk
    BY <2>1, <2>2, Numbers
  <2>3. ASSUME NEW K \in SUBSET Keys, Change(K), disk' = Changed(K)
        PROVE  \A k \in Keys : disk'[k] >= disk[k]
    <3> SUFFICES ASSUME NEW k \in Keys PROVE Changed(K)[k] >= disk[k]
      BY <2>3
    <3>1. Changed(K)[k] \in {changes + 1, mem[k]}
      BY DEF Changed
    <3> QED
      BY <2>1, <3>1, Numbers DEF Ahead
  <2>4. CASE disk' = mem
    BY <2>1, <2>4, Numbers DEF Ahead
  <2>5. CASE Start
    <3> SUFFICES ASSUME NEW k \in Keys \ States PROVE Emptied(States)[k] >= disk[k]
      BY <2>5 DEF Start
    <3>1. Emptied(States)[k] = disk[k]
      BY DEF Emptied
    <3> QED
      BY <2>1, <3>1, Numbers
  <2> QED
    BY <2>2, <2>3, <2>4, <2>5 DEF Next, Change, DbSyncThread, GwdbAtexit, Begin, Test, Wake,
       Commit, Rollback, AfterCommit, EndSleep, Spurious, AskToExit, Join, Close, Die
<1> QED
  BY <1>1, Invariance, PTL DEF Spec, ReadersGoForward
=============================================================================
