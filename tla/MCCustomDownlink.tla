-------------------------- MODULE MCCustomDownlink --------------------------
(***************************************************************************)
(* Instances of CustomDownlink for TLC.                                    *)
(***************************************************************************)
EXTENDS CustomDownlink

CONSTANTS d1, d2

Up(d, bytes, mic) == [dev |-> d, data |-> TRUE, size |-> bytes, mic |-> mic]
Skipped == [dev |-> d1, data |-> FALSE, size |-> 0, mic |-> FALSE]
Down(d, mode) == [dev |-> d, mode |-> mode, form |-> "good"]
Bad(form) == [dev |-> d1, mode |-> "time", form |-> form]

(* Batches with each way through the loop over them: one ends, and in the other
   a payload is so short that its packet comes again.                       *)
SomeUplinks == {<<Up(d1, 2, FALSE)>>, <<Skipped, Up(d1, 0, TRUE)>>}
MixedFiles == {Down(d1, "time"), Down(d2, "time"), Down(d1, "imme"), Bad("blank"), Bad("short")}
=============================================================================
