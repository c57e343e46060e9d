--------------------------- MODULE MCCredentials ----------------------------
(***************************************************************************)
(* How a credential comes to a customer (OrderFlow), and how long the edge *)
(* accepts it (EdgeCache).  Behaviours that share no state in these models *)
(* are explored one after the other; `part` is chosen in the initial state *)
(* and says whose behaviour this is:                                       *)
(*   "races"  updates handled side by side, with all faults;               *)
(*   "alone"  those among them with one update at a time and one node,     *)
(*            whose map is not misread;                                    *)
(*   "tight"  the same, on a node that only takes one configuration;       *)
(*   "cache"  the edge's cache and the writers of its map.                 *)
(***************************************************************************)
EXTENDS OrderFlow, EdgeCache, TLC

VARIABLE part

Tight == INSTANCE OrderFlow WITH MaxAssignments <- 1

credentialVars == <<part, vars, cacheVars>>

OneAtATime ==
    /\ Cardinality({h \in Handlers : handler[h] # Idle}) <= 1
    /\ Cardinality({n \in Nodes :
           AssignedTo(n) # {} \/ \E h \in Handlers : handler[h].node = n}) <= 1
    /\ \A h \in Handlers :
           handler[h].at = "write" => handler[h].map = edge[handler[h].node]

CredentialInit == part \in {"races", "alone", "tight", "cache"} /\ Init /\ CacheInit

CredentialNext ==
    /\ UNCHANGED part
    /\ \/ part = "races" /\ Next /\ UNCHANGED cacheVars
       \/ part = "alone" /\ Next /\ OneAtATime' /\ UNCHANGED cacheVars
       \/ part = "tight" /\ Tight!Next /\ OneAtATime' /\ UNCHANGED cacheVars
       \/ part = "cache" /\ CacheNext /\ UNCHANGED vars

CredentialSpec == CredentialInit /\ [][CredentialNext]_credentialVars

Symmetric ==
    Permutations(Orders) \cup Permutations(Attempts) \cup Permutations(Configs)
        \cup Permutations(Nodes) \cup Permutations(Handlers)

----------------------------------------------------------------------------
\* Two properties of OrderFlow that its interleavings break.  When one update
\* is handled at a time, a fulfilled order has its credential where the
\* subscription sends the customer, whatever is refused, wherever a handler
\* crashes and however often its approval is retried.
AloneNeverHalfProvisioned == part = "alone" => NeverHalfProvisioned

\* Nor does a node take more configurations than it may, although its count
\* is checked steps before it is written and handlers crash in between.
AloneCapacityKept ==
    /\ part = "alone" => CapacityKept
    /\ part = "tight" => Tight!CapacityKept
=============================================================================
