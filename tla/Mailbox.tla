------------------------------ MODULE Mailbox ------------------------------
(***************************************************************************)
(* What the custom downlink service promises: a mailbox in which one       *)
(* message waits per address.  Posting a message replaces the one that     *)
(* waits for the same address, and may push out one other.  A message that *)
(* waits may be picked, and is then delivered or returned: it keeps its    *)
(* place meanwhile, from which it may be replaced or pushed like any       *)
(* other.  It is delivered once; a replaced one only if it was out when it *)
(* was replaced, and then at most that time.  An urgent message is sent at *)
(* once or never; a message may be given up before it is posted.           *)
(***************************************************************************)
CONSTANTS
    Addresses,   \* what a message can be addressed to
    Messages     \* the messages

VARIABLES
    box,    \* the messages that wait, with their addresses
    out,    \* the message that is on its way, if any
    used,   \* the messages that were posted, sent or given up
    sent    \* the messages that were sent

vars == <<box, out, used, sent>>

Init ==
    /\ box = {}
    /\ out = {}
    /\ used = {}
    /\ sent = {}

Use(m) == m \notin used /\ used' = used \cup {m}

Post(m) ==
    /\ Use(m)
    /\ \E a \in Addresses : \E pushed \in {{}} \cup {{p} : p \in box} :
         box' = {p \in box \ pushed : p[1] # a} \cup {<<a, m>>}
    /\ UNCHANGED <<out, sent>>

Pick ==
    /\ out = {}
    /\ \E p \in box : out' = {p[2]}
    /\ UNCHANGED <<box, used, sent>>

Deliver ==
    /\ \E m \in out \ sent :
         /\ box' = {p \in box : p[2] # m}
         /\ sent' = sent \cup {m}
    /\ out' = {}
    /\ UNCHANGED used

Return ==
    /\ out' = {}
    /\ UNCHANGED <<box, used, sent>>

SendUrgent(m) ==
    /\ Use(m)
    /\ sent' = sent \cup {m}
    /\ UNCHANGED <<box, out>>

GiveUp(m) ==
    /\ Use(m)
    /\ UNCHANGED <<box, out, sent>>

Next ==
    \/ \E m \in Messages : Post(m) \/ SendUrgent(m) \/ GiveUp(m)
    \/ Pick \/ Deliver \/ Return

Spec == Init /\ [][Next]_vars
=============================================================================
