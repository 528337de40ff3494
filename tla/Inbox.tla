-------------------------------- MODULE Inbox --------------------------------
(***************************************************************************)
(* What a queue in front of an agent promises about the messages handed to *)
(* it: a message that was accepted is held until it is delivered to the    *)
(* conversation, given back, or dropped, and none of these is ever undone  *)
(* or repeated.                                                            *)
(***************************************************************************)
CONSTANT Messages

VARIABLE status   \* what became of each message

Init == status = [m \in Messages |-> "new"]

Settle(S, outcome) ==
    /\ \A m \in S : status[m] = "held"
    /\ status' = [m \in Messages |-> IF m \in S THEN outcome ELSE status[m]]

Accept(m)  == status[m] = "new" /\ status' = [status EXCEPT ![m] = "held"]
Deliver(m) == Settle({m}, "delivered")
GiveBack   == \E S \in SUBSET Messages : Settle(S, "returned")
Drop       == \E S \in SUBSET Messages : Settle(S, "dropped")

Next ==
    \/ \E m \in Messages : Accept(m) \/ Deliver(m)
    \/ GiveBack
    \/ Drop

Spec == Init /\ [][Next]_status
=============================================================================
