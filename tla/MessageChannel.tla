--------------------------- MODULE MessageChannel ---------------------------
(***************************************************************************)
(* What point-to-point communication promises: a message is received at    *)
(* most once, only after it was sent, and is received in the end.          *)
(***************************************************************************)
CONSTANT Msgs

VARIABLES sent, delivered

vars == <<sent, delivered>>

Init == sent = {} /\ delivered = {}

Send(m) == /\ m \notin sent
           /\ sent' = sent \cup {m}
           /\ UNCHANGED delivered

Deliver(m) == /\ m \in sent \ delivered
              /\ delivered' = delivered \cup {m}
              /\ UNCHANGED sent

Next == \E m \in Msgs : Send(m) \/ Deliver(m)

Delivery == \A m \in Msgs : (m \in sent) ~> (m \in delivered)

Safety == Init /\ [][Next]_vars

Spec == Safety /\ Delivery
=============================================================================
