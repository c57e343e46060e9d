---------------------------- MODULE UsageTracker ----------------------------
(***************************************************************************)
(* Usage accounting on a node: one UsageTracker per relayed connection     *)
(* (node-worker/src/usage/usage.ts).  Relayed bytes accumulate in memory;  *)
(* a flush cuts them off as one slice, numbers it and posts it.  A flush   *)
(* only starts from traffic or from close: there is no timer behind it.    *)
(***************************************************************************)
EXTENDS Naturals, Sequences

CONSTANTS
    Connections,
    Threshold,     \* FLUSH_THRESHOLD_BYTES, in units of traffic
    MaxBytes       \* bound: units relayed per connection

ASSUME UsageTrackerAssumption ==
    /\ Threshold \in Nat \ {0}
    /\ MaxBytes \in Nat

VARIABLES
    tracker,  \* the tracker of each connection
    relayed,  \* history: units each connection relayed
    slices,   \* history: the sizes each connection's flushes cut off
    net       \* usage events posted; an event here may arrive, also again

trackerVars == <<tracker, relayed, slices, net>>

Trackers == [pending : Nat, seq : Nat, flushing : BOOLEAN, closed : BOOLEAN]
Events == [conn : Connections, seq : Nat, bytes : Nat]

TrackerTypeOK ==
    /\ tracker \in [Connections -> Trackers]
    /\ relayed \in [Connections -> 0..MaxBytes]
    /\ slices \in [Connections -> Seq(Nat)]
    /\ net \subseteq Events

TrackerInit ==
    /\ tracker = [c \in Connections |->
           [pending |-> 0, seq |-> 0, flushing |-> FALSE, closed |-> FALSE]]
    /\ relayed = [c \in Connections |-> 0]
    /\ slices = [c \in Connections |-> <<>>]
    /\ net = {}

CutSlice_KeepsPending(c, pending, closed) ==
    LET n == tracker[c].seq + 1 IN
    /\ tracker' = [tracker EXCEPT ![c] =
           [pending |-> pending, seq |-> n, flushing |-> TRUE, closed |-> closed]]
    /\ slices' = [slices EXCEPT ![c] = Append(@, pending)]
    /\ net' = net \cup {[conn |-> c, seq |-> n, bytes |-> pending]}

\* The part of flush() before its first await.  The counters are zeroed
\* whether or not the request will succeed.
CutSlice(c, pending, closed) ==
    LET n == tracker[c].seq + 1 IN
    /\ tracker' = [tracker EXCEPT ![c] =
           [pending |-> 0, seq |-> n, flushing |-> TRUE, closed |-> closed]]
    /\ slices' = [slices EXCEPT ![c] = Append(@, pending)]
    /\ net' = net \cup {[conn |-> c, seq |-> n, bytes |-> pending]}

Relay(c) ==
    /\ relayed[c] < MaxBytes
    /\ relayed' = [relayed EXCEPT ![c] = @ + 1]

\* Traffic that starts no flush: one is under way, or none is due.
Track(c) ==
    /\ Relay(c)
    /\ ~tracker[c].closed
    /\ tracker[c].flushing \/ tracker[c].pending + 1 < Threshold
    /\ tracker' = [tracker EXCEPT ![c].pending = @ + 1]
    /\ UNCHANGED <<slices, net>>

\* Traffic that finds the threshold reached or the interval elapsed.
TrackAndFlush(c) ==
    /\ Relay(c)
    /\ ~tracker[c].closed
    /\ ~tracker[c].flushing
    /\ CutSlice(c, tracker[c].pending + 1, FALSE)

\* Traffic of a connection whose tracker is closed is not counted.
TrackClosed(c) ==
    /\ Relay(c)
    /\ tracker[c].closed
    /\ UNCHANGED <<tracker, slices, net>>

\* A flush under way makes the final flush return at once: the flushQueued
\* it leaves behind is read by nobody.
Close(c) ==
    /\ ~tracker[c].closed
    /\ IF tracker[c].pending = 0 \/ tracker[c].flushing
       THEN /\ tracker' = [tracker EXCEPT ![c].closed = TRUE]
            /\ UNCHANGED <<slices, net>>
       ELSE CutSlice(c, tracker[c].pending, TRUE)
    /\ UNCHANGED relayed

\* The post returned or raised; the two leave the same state.
FlushEnds(c) ==
    /\ tracker[c].flushing
    /\ tracker' = [tracker EXCEPT ![c].flushing = FALSE]
    /\ UNCHANGED <<relayed, slices, net>>

\* The isolate is evicted: the connection and its counters are gone.
Evict(c) ==
    /\ ~tracker[c].closed
    /\ tracker' = [tracker EXCEPT ![c] = [@ EXCEPT
           !.pending = 0,
           !.flushing = FALSE,
           !.closed = TRUE]]
    /\ UNCHANGED <<relayed, slices, net>>

\* A request that was never sent or does not reach the ingest endpoint.
Lose(e) ==
    /\ e \in net
    /\ net' = net \ {e}
    /\ UNCHANGED <<tracker, relayed, slices>>

TrackerNext ==
    \/ \E c \in Connections :
           \/ Track(c) \/ TrackAndFlush(c) \/ TrackClosed(c)
           \/ Close(c) \/ FlushEnds(c) \/ Evict(c)
    \/ \E e \in net : Lose(e)

\* The final flush covers whatever accumulated since the last periodic one:
\* once a connection is closed and no flush runs, no counted byte is left.
FinalFlushCovers ==
    \A c \in Connections :
        tracker[c].closed /\ ~tracker[c].flushing => tracker[c].pending = 0
=============================================================================
