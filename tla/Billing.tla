------------------------------ MODULE Billing -------------------------------
(***************************************************************************)
(* What usage accounting promises a customer, whatever is lost, repeated   *)
(* or late on the way to the ledger: a bill that only grows, and never     *)
(* beyond what the connections relayed.  That it keeps up with them is not *)
(* promised: what a node had not reported is gone with it.                 *)
(***************************************************************************)
EXTENDS Naturals

CONSTANT Connections

VARIABLES
    traffic,  \* what each connection relayed
    bill      \* what the customer is billed for it

vars == <<traffic, bill>>

Init ==
    /\ traffic = [c \in Connections |-> 0]
    /\ bill = [c \in Connections |-> 0]

Relay(c) ==
    /\ traffic' = [traffic EXCEPT ![c] = @ + 1]
    /\ UNCHANGED bill

Charge(c) ==
    /\ \E total \in bill[c]..traffic[c] : bill' = [bill EXCEPT ![c] = total]
    /\ UNCHANGED traffic

Next == \E c \in Connections : Relay(c) \/ Charge(c)

Spec == Init /\ [][Next]_vars
=============================================================================
