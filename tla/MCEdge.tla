------------------------------- MODULE MCEdge -------------------------------
(***************************************************************************)
(* The bytes of connections on their way to the aggregates (UsageLedger)   *)
(* and the relay of one connection (RelayConnection).  They share no state *)
(* in these models, so that they are explored one after the other: `part`  *)
(* is chosen in the initial state and says whose behaviour this is.        *)
(***************************************************************************)
EXTENDS UsageLedger

CONSTANTS MaxChunks, MaxReplies

VARIABLES
    part,
    ws, arrived, next, pipe, target, remote, socket, reading, retry, up, down,
    relayTracker, counted

relayVars == <<ws, arrived, next, pipe, target, remote, socket, reading, retry,
               up, down, relayTracker, counted>>
edgeVars == <<part, vars, relayVars>>

Conn == INSTANCE RelayConnection WITH tracker <- relayTracker

ASSUME EdgeAssumption == Conn!RelayAssumption

EdgeInit == part \in {"usage", "relay"} /\ Init /\ Conn!Init

\* A step of one part, which leaves the other alone.
Usage(A) == part = "usage" /\ A /\ UNCHANGED <<part, relayVars>>
Relaying(A) == part = "relay" /\ A /\ UNCHANGED <<part, vars>>

EdgeNext == Usage(Next) \/ Relaying(Conn!Next)

\* The fairness of each part, as its module states and justifies it.
EdgeSpec ==
    /\ EdgeInit /\ [][EdgeNext]_edgeVars
    /\ WF_edgeVars(Usage(Reconcile))
    /\ WF_edgeVars(Relaying(Conn!Runtime))

----------------------------------------------------------------------------
\* Trackers, ledger and connections are in states the code can be in.
TypesOK == TypeOK /\ Conn!TypeOK

\* See RelayConnection.
OneReplyStream == Conn!OneReplyStream
CountedAsEmitted == Conn!CountedAsEmitted
Finalized == Conn!Finalized
=============================================================================
