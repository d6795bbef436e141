---------------------------- MODULE MCRxDispatch ----------------------------
(***************************************************************************)
(* Instances of RxDispatch for TLC.                                        *)
(***************************************************************************)
EXTENDS RxDispatch

FirstReads == {1}
=============================================================================
