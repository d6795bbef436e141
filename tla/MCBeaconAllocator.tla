------------------------- MODULE MCBeaconAllocator -------------------------
(***************************************************************************)
(* Instances of BeaconAllocator for TLC: a tick is a third of a beacon period.   *)
(***************************************************************************)
EXTENDS BeaconAllocator

CONSTANT s1

Soon == {1}

(* The theorems about slots apply to the instance. *)
ASSUME SoonIsSpaced == DownlinkLeads = Soon => Spaced(1)
=============================================================================
