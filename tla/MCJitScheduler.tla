--------------------------- MODULE MCJitScheduler ---------------------------
(***************************************************************************)
(* Instances of JitScheduler for TLC.                                      *)
(***************************************************************************)
EXTENDS JitScheduler

Req(type, lead, toa) == [type |-> type, lead |-> lead, toa |-> toa]

(* Downlinks of every class: too late, in time, at the edge of the horizon,
   beyond it; short and long, but none longer than the shortest notice.     *)
Downlinks ==
    {Req(ClassA, lead, 1) : lead \in {5, 8, 16}}
    \cup {Req(ClassB, 9, 2), Req(ClassB, TX_MAX_ADVANCE_DELAY + 1, 1)}
    \cup {Req(ClassC, 0, toa) : toa \in {1, 2}}

(* The timing theorems apply to the instance with these requests. *)
ASSUME DownlinksArePaced == Requests = Downlinks => Paced(2) /\ Quiet(2)

(* Beacons ahead, just passed and long passed, among downlinks that may eat
   into their guard.                                                        *)
BeaconMix ==
    {Req(Beacon, lead, 0) : lead \in {10, 20, Wrap - 3, Wrap - 12}}
    \cup {Req(ClassA, 6, 1), Req(ClassB, 9, 1), Req(ClassC, 0, 1)}
=============================================================================
