-------------------------- MODULE OrderActivation --------------------------
(***************************************************************************)
(* What the order flow promises, whatever interleaves in it: the           *)
(* "approve once" guarantee of schema.sql.  A payment of the order is      *)
(* decided first; then the order is activated, once and for good; only     *)
(* then can it be fulfilled.  A later payment may reopen the order without *)
(* touching its activation.                                                *)
(***************************************************************************)
CONSTANTS Orders, Configs, None

VARIABLES
    decided,     \* orders with a payment that was approved or rejected
    activation,  \* the configuration of each activated order
    fulfilled    \* orders reported as fulfilled

vars == <<decided, activation, fulfilled>>

Init ==
    /\ decided = {}
    /\ activation = [o \in Orders |-> None]
    /\ fulfilled = {}

Decide(o) ==
    /\ decided' = decided \cup {o}
    /\ fulfilled' \in {fulfilled, fulfilled \ {o}}
    /\ UNCHANGED activation

Activate(o, c) ==
    /\ o \in decided
    /\ activation[o] = None
    /\ \A p \in Orders : activation[p] # c
    /\ activation' = [activation EXCEPT ![o] = c]
    /\ UNCHANGED <<decided, fulfilled>>

Fulfil(o) ==
    /\ activation[o] # None
    /\ fulfilled' = fulfilled \cup {o}
    /\ UNCHANGED <<decided, activation>>

Reopen(o) ==
    /\ fulfilled' = fulfilled \ {o}
    /\ UNCHANGED <<decided, activation>>

Next ==
    \E o \in Orders :
        \/ Decide(o)
        \/ \E c \in Configs : Activate(o, c)
        \/ Fulfil(o)
        \/ Reopen(o)

Spec == Init /\ [][Next]_vars
=============================================================================
