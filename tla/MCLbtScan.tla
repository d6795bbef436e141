----------------------------- MODULE MCLbtScan -----------------------------
(* An instance of LbtScan for TLC; the frequencies are model values.       *)
EXTENDS LbtScan, TLC

CONSTANTS f1, f2, s1, s2
TwoFreqs == {f1, f2}
TwoServers == {s1, s2}
Alike == Permutations(TwoFreqs) \cup Permutations(TwoServers)
(* A packet for the next scan pass, and one too late for any. *)
NearAndFar == {1, 3}

=============================================================================
