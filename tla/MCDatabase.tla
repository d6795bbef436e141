----------------------------- MODULE MCDatabase -----------------------------
(***************************************************************************)
(* Instances of Database for TLC.                                          *)
(***************************************************************************)
EXTENDS Database

CONSTANTS state, packet

BothKeys == {state, packet}
OneState == {state}
=============================================================================
