------------------------------- MODULE Fanout -------------------------------
(***************************************************************************)
(* What the uplink list promises the services that share it: every batch   *)
(* of received packets waits for every service, is handed to a service at  *)
(* most once, and stops waiting for all of them when it expires.           *)
(***************************************************************************)
CONSTANTS Batches, Services

VARIABLES published, waiting, got

Init ==
    /\ published = {}
    /\ waiting = [s \in Services |-> {}]
    /\ got = [s \in Services |-> {}]

Publish(b) ==
    /\ b \in Batches \ published
    /\ published' = published \cup {b}
    /\ waiting' = [s \in Services |-> waiting[s] \cup {b}]
    /\ UNCHANGED got

Deliver(s, b) ==
    /\ b \in waiting[s]
    /\ waiting' = [waiting EXCEPT ![s] = @ \ {b}]
    /\ got' = [got EXCEPT ![s] = @ \cup {b}]
    /\ UNCHANGED published

Expire(old) ==
    /\ waiting' = [s \in Services |-> waiting[s] \ old]
    /\ UNCHANGED <<published, got>>

Next ==
    \/ \E b \in published' : Publish(b)
    \/ \E s \in Services : \E b \in waiting[s] : Deliver(s, b)
    \/ \E old \in SUBSET published : Expire(old)

Spec == Init /\ [][Next]_<<published, waiting, got>>
=============================================================================
