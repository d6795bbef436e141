--------------------------- MODULE MCGpsReference ---------------------------
(* Small instances of GpsReference: every parameter is a number of seconds *)
(* or of messages, given in the configuration files.                       *)
EXTENDS GpsReference

=============================================================================
