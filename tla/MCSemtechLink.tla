---------------------------- MODULE MCSemtechLink ----------------------------
(***************************************************************************)
(* Instances of SemtechLink for TLC.                                       *)
(***************************************************************************)
EXTENDS SemtechLink

TwoFds == {3, 4}
ThreeFds == {3, 4, 5}
=============================================================================
