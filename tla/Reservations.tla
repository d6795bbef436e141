---------------------------- MODULE Reservations ----------------------------
(***************************************************************************)
(* What the just-in-time queue promises its users: a book of air-time      *)
(* reservations.  A packet is booked only if it keeps clear of every       *)
(* packet already booked; a booked packet is taken to the transmitter one  *)
(* at a time, or given up; nothing is booked twice, altered or forgotten.  *)
(***************************************************************************)
CONSTANTS Packets, NoPacket, Apart(_, _)

VARIABLES booked, hand

Init == booked = {} /\ hand = NoPacket

Book(x) ==
    /\ x \in Packets \ booked
    /\ \A n \in booked : Apart(x, n)
    /\ booked' = booked \cup {x}
    /\ UNCHANGED hand

Take(n) ==
    /\ hand = NoPacket
    /\ hand' = n
    /\ booked' = booked \ {n}

GiveUp(n) ==
    /\ hand = NoPacket
    /\ booked' = booked \ {n}
    /\ UNCHANGED hand

(* The packet in hand was programmed, or could not be *)
Finish ==
    /\ hand # NoPacket
    /\ hand' = NoPacket
    /\ UNCHANGED booked

Next ==
    \/ \E x \in booked' : Book(x)
    \/ \E n \in booked : Take(n) \/ GiveUp(n)
    \/ Finish

Spec == Init /\ [][Next]_<<booked, hand>>
=============================================================================
