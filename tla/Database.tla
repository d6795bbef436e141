------------------------------ MODULE Database ------------------------------
(***************************************************************************)
(* The database of states (fwd/src/db.c).  The forwarder's threads put and *)
(* delete in a transaction that is open all the time; a thread of its own  *)
(* commits it, at most once a second, when it is told that something has   *)
(* changed, and opens the next.  The other processes of the gateway (its   *)
(* web pages) read the file and see what was committed.  The program may   *)
(* be killed at any time; when it starts it empties one of the tables.     *)
(*                                                                         *)
(* What is stored under a key is represented by the number of the change   *)
(* that put it there or took it away.                                      *)
(***************************************************************************)
EXTENDS Integers

CONSTANTS
    Keys,          \* the rows of the tables
    States,        \* those of gwdb, emptied when the program starts
    MaxChanges,    \* bound: changes
    MaxStarts      \* bound: starts of the program after the first

ASSUME DatabaseConstants ==
    /\ States \subseteq Keys
    /\ MaxChanges \in Nat
    /\ MaxStarts \in Nat

VARIABLES
    mem,       \* what this process reads: the file and the open transaction
    disk,      \* what is committed
    open,      \* a transaction is open
    sync,      \* where db_sync_thread is
    exit,      \* where gwdb_atexit is
    locked,    \* db_sync_thread holds mx_dblock
    woken,     \* db_sync_thread, which waits for dbcond, was signalled
    dosync, doexit,
    changes,   \* number of changes
    starts     \* number of starts after the first

vars == <<mem, disk, open, sync, exit, locked, woken, dosync, doexit, changes, starts>>

SyncPlaces == {"start", "test", "wait", "commit", "rollback", "after", "sleep", "done", "dead"}
ExitPlaces == {"run", "join", "joined", "closed"}

TypeOK ==
    /\ mem \in [Keys -> 0 .. MaxChanges]
    /\ disk \in [Keys -> 0 .. MaxChanges]
    /\ open \in BOOLEAN
    /\ sync \in SyncPlaces
    /\ exit \in ExitPlaces
    /\ locked \in BOOLEAN
    /\ woken \in BOOLEAN
    /\ dosync \in BOOLEAN
    /\ doexit \in BOOLEAN
    /\ changes \in 0 .. MaxChanges
    /\ starts \in 0 .. MaxStarts

Init ==
    /\ mem = [k \in Keys |-> 0]
    /\ disk = [k \in Keys |-> 0]
    /\ open = FALSE
    /\ sync = "start"
    /\ exit = "run"
    /\ locked = FALSE
    /\ woken = FALSE
    /\ dosync = FALSE
    /\ doexit = FALSE
    /\ changes = 0
    /\ starts = 0

Alive == sync # "dead"
-----------------------------------------------------------------------------
(* lgw_db_put, lgw_db_putpkt, lgw_db_del, lgw_db_deltree: under the lock, a
   statement changes some rows, or fails (the file is locked by another process,
   or closed), and db_sync is called.  Without a transaction a statement is
   committed by itself.                                                      *)
SignalOnly == dosync                                   \* mutant: dosync is not set
DoSync == TRUE
db_sync == dosync' = DoSync /\ woken' = (woken \/ sync = "wait")

Changed(K) == [k \in Keys |-> IF k \in K THEN changes + 1 ELSE mem[k]]

Change(K) ==
    /\ Alive /\ ~locked
    /\ changes < MaxChanges
    /\ changes' = changes + 1
    /\ \/ /\ exit # "closed"
          /\ mem' = Changed(K)
          /\ disk' = IF open THEN disk ELSE Changed(K)
       \/ UNCHANGED <<mem, disk>>
    /\ db_sync
    /\ UNCHANGED <<open, sync, exit, locked, doexit, starts>>
-----------------------------------------------------------------------------
(* db_sync_thread *)

Begin ==
    /\ sync = "start"
    /\ ~locked
    /\ locked' = TRUE
    /\ open' = TRUE
    /\ sync' = "test"
    /\ UNCHANGED <<mem, disk, exit, woken, dosync, doexit, changes, starts>>

(* The wait gives the lock away *)
AlwaysWaits == TRUE                                    \* mutant: dosync is not looked at
MustWait == ~dosync

TestExitFirst ==                       \* mutant: doexit is looked at before the commit
    /\ sync = "test"
    /\ IF doexit
       THEN sync' = "done" /\ locked' = FALSE /\ UNCHANGED dosync
       ELSE IF ~dosync
       THEN sync' = "wait" /\ locked' = FALSE /\ UNCHANGED dosync
       ELSE sync' = "commit" /\ dosync' = FALSE /\ UNCHANGED locked
    /\ UNCHANGED <<mem, disk, open, exit, woken, doexit, changes, starts>>

Test ==
    /\ sync = "test"
    /\ IF MustWait
       THEN sync' = "wait" /\ locked' = FALSE /\ UNCHANGED dosync
       ELSE sync' = "commit" /\ dosync' = FALSE /\ UNCHANGED locked
    /\ UNCHANGED <<mem, disk, open, exit, woken, doexit, changes, starts>>

Wake ==
    /\ sync = "wait"
    /\ woken
    /\ ~locked
    /\ locked' = TRUE
    /\ woken' = FALSE
    /\ sync' = "test"
    /\ UNCHANGED <<mem, disk, open, exit, dosync, doexit, changes, starts>>

Spurious ==
    /\ sync = "wait"
    /\ ~woken
    /\ woken' = TRUE
    /\ UNCHANGED <<mem, disk, open, sync, exit, locked, dosync, doexit, changes, starts>>

Commit ==
    /\ sync = "commit"
    /\ \/ disk' = mem /\ open' = FALSE /\ sync' = "after"
       \/ UNCHANGED <<disk, open>> /\ sync' = "rollback"
    /\ UNCHANGED <<mem, exit, locked, woken, dosync, doexit, changes, starts>>

Rollback ==
    /\ sync = "rollback"
    /\ mem' = disk
    /\ open' = FALSE
    /\ sync' = "after"
    /\ UNCHANGED <<disk, exit, locked, woken, dosync, doexit, changes, starts>>

AfterCommit ==
    /\ sync = "after"
    /\ open' = ~doexit
    /\ locked' = FALSE
    /\ sync' = IF doexit THEN "done" ELSE "sleep"
    /\ UNCHANGED <<mem, disk, exit, woken, dosync, doexit, changes, starts>>

EndSleep ==
    /\ sync = "sleep"
    /\ ~locked
    /\ locked' = TRUE
    /\ sync' = "test"
    /\ UNCHANGED <<mem, disk, open, exit, woken, dosync, doexit, changes, starts>>

DbSyncThread ==
    Begin \/ Test \/ Wake \/ Commit \/ Rollback \/ AfterCommit \/ EndSleep
-----------------------------------------------------------------------------
(* gwdb_atexit *)

AskQuietly ==                          \* mutant: gwdb_atexit does not call db_sync
    /\ Alive /\ ~locked
    /\ exit = "run"
    /\ doexit' = TRUE
    /\ exit' = "join"
    /\ UNCHANGED <<mem, disk, open, sync, locked, woken, dosync, changes, starts>>

AskToExit ==
    /\ Alive /\ ~locked
    /\ exit = "run"
    /\ doexit' = TRUE
    /\ db_sync
    /\ exit' = "join"
    /\ UNCHANGED <<mem, disk, open, sync, locked, changes, starts>>

Join ==
    /\ exit = "join"
    /\ sync = "done"
    /\ exit' = "joined"
    /\ UNCHANGED <<mem, disk, open, sync, locked, woken, dosync, doexit, changes, starts>>

Close ==
    /\ exit = "joined"
    /\ ~locked
    /\ exit' = "closed"
    /\ UNCHANGED <<mem, disk, open, sync, locked, woken, dosync, doexit, changes, starts>>

GwdbAtexit == AskToExit \/ Join \/ Close
-----------------------------------------------------------------------------
(* The process ends, or is killed.  What was not committed is undone. *)
Die ==
    /\ Alive
    /\ starts < MaxStarts
    /\ sync' = "dead"
    /\ mem' = disk
    /\ open' = FALSE
    /\ locked' = FALSE
    /\ UNCHANGED <<disk, exit, woken, dosync, doexit, changes, starts>>

(* lgw_db_init: the tables are made if they do not exist, gwdb is emptied *)
EmptyAll(K) == [k \in Keys |-> 0]                      \* mutant: DELETE FROM livepkts too
Emptied(K) == [k \in Keys |-> IF k \in K THEN 0 ELSE disk[k]]

Start ==
    /\ ~Alive
    /\ mem' = Emptied(States)
    /\ disk' = Emptied(States)
    /\ sync' = "start"
    /\ exit' = "run"
    /\ woken' = FALSE
    /\ dosync' = FALSE
    /\ doexit' = FALSE
    /\ starts' = starts + 1
    /\ UNCHANGED <<open, locked, changes>>
-----------------------------------------------------------------------------
Next ==
    \/ \E K \in SUBSET Keys : Change(K)
    \/ DbSyncThread
    \/ Spurious
    \/ GwdbAtexit
    \/ Die
    \/ Start

(* The threads that run are scheduled; sleep and wait end.  That the program is
   asked to end, killed or started is up to its user.                        *)
Spec == Init /\ [][Next]_vars
FairSpec == Spec /\ WF_vars(DbSyncThread) /\ WF_vars(Join \/ Close)
-----------------------------------------------------------------------------
(* While something is not committed the thread is going to commit it: it is told
   so by dosync when it does not wait, by a signal when it does.             *)
NoLostSync ==
    mem # disk =>
        \/ sync \in {"commit", "rollback"}
        \/ sync \in {"test", "sleep"} /\ dosync
        \/ sync = "wait" /\ dosync /\ woken

(* gwdb_atexit ends the thread only after the last commit: what is put before,
   meanwhile or later is not left in a transaction that nobody ends.         *)
SettledAtExit == exit \in {"joined", "closed"} => mem = disk /\ ~open

(* What the other processes read goes only forward, in this run of the program
   and, but for the states, over a crash and the start that follows.         *)
ReadersGoForward ==
    [][\A k \in Keys \ States : disk'[k] >= disk[k]]_vars

(* A change is committed or undone before long, however many follow. *)
EventuallySettled == (mem # disk) ~> (mem = disk)

(* The program's end does not hang in gwdb_atexit. *)
ExitEnds == (exit = "join") ~> (exit = "closed" \/ ~Alive)
=============================================================================
