-------------------------- MODULE SessionAdmission --------------------------
(***************************************************************************)
(* The device limit of one configuration on one node: every relayed        *)
(* connection (protocols/vless.ts, protocols/trojan.ts) asks a             *)
(* SessionCounter Durable Object for a slot and gives it back when its     *)
(* stream ends (usage/sessions.ts, usage/session-counter.ts).  Requests to *)
(* the counter are messages: the counter answers them one at a time, at    *)
(* any later moment.  The counter lives in memory.                         *)
(***************************************************************************)
EXTENDS Integers, FiniteSets

CONSTANTS
    Connections,
    DeviceLimit,
    Faults       \* what the platform and the clients may do

ASSUME SessionAssumption ==
    /\ IsFiniteSet(Connections)
    /\ DeviceLimit \in Nat
    /\ Faults \subseteq {"bad_header", "counter_error", "counter_reset",
                         "decr_lost", "stream_error"}

VARIABLES
    at,       \* where each connection is
    count,    \* the counter's sessions.get(configId)
    decrs,    \* /decr requests on their way
    strays,   \* history: releases and resets that were not owed
    leaks     \* history: slots taken that nobody will give back

vars == <<at, count, decrs, strays, leaks>>

Phases == {"fresh", "asking", "granted", "refused", "unmetered", "open", "ended"}

TypeOK ==
    /\ at \in [Connections -> Phases]
    /\ count \in 0..DeviceLimit
    /\ decrs \in Nat
    /\ strays \in Nat
    /\ leaks \in Nat

Init ==
    /\ at = [c \in Connections |-> "fresh"]
    /\ count = 0
    /\ decrs = 0
    /\ strays = 0
    /\ leaks = 0

Move(c, from, to) ==
    /\ at[c] = from
    /\ at' = [at EXCEPT ![c] = to]

----------------------------------------------------------------------------
(* Admission: the first chunk carries the credential and the destination.  *)

InvalidUser(c) ==
    /\ Move(c, "fresh", "ended")
    /\ UNCHANGED <<count, decrs, strays, leaks>>

IncrSession(c) ==
    /\ Move(c, "fresh", "asking")
    /\ UNCHANGED <<count, decrs, strays, leaks>>

Incr_OffByOne(c) ==
    /\ IF count <= DeviceLimit
       THEN Move(c, "asking", "granted") /\ count' = count + 1
       ELSE Move(c, "asking", "refused") /\ UNCHANGED count
    /\ UNCHANGED <<decrs, strays, leaks>>

\* Increment-and-check in one turn of the counter.
Incr(c) ==
    /\ IF count < DeviceLimit
       THEN Move(c, "asking", "granted") /\ count' = count + 1
       ELSE Move(c, "asking", "refused") /\ UNCHANGED count
    /\ UNCHANGED <<decrs, strays, leaks>>

\* The counter answers with an error: the node lets the connection through.
IncrFailsOpen(c) ==
    /\ "counter_error" \in Faults
    /\ Move(c, "asking", "unmetered")
    /\ UNCHANGED <<count, decrs, strays, leaks>>

\* The request raises, before or after the counter has seen it; the stream
\* ends with admitted still false.
IncrRaises(c) ==
    /\ "counter_error" \in Faults
    /\ Move(c, "asking", "ended")
    /\ \/ UNCHANGED <<count, leaks>>
       \/ count < DeviceLimit /\ count' = count + 1 /\ leaks' = leaks + 1
    /\ UNCHANGED <<decrs, strays>>

Refuse(c) ==
    /\ Move(c, "refused", "ended")
    /\ UNCHANGED <<count, decrs, strays, leaks>>

\* The rest of the header is only read now.  Its error ends the stream with
\* admitted still false: the slot just taken is not given back.
BadHeader(c) ==
    /\ "bad_header" \in Faults
    /\ \/ Move(c, "granted", "ended") /\ leaks' = leaks + 1
       \/ Move(c, "unmetered", "ended") /\ UNCHANGED leaks
    /\ UNCHANGED <<count, decrs, strays>>

\* admitted = true; an unmetered connection will give back a slot, too.
Admit(c) ==
    /\ \/ Move(c, "granted", "open") /\ UNCHANGED strays
       \/ Move(c, "unmetered", "open") /\ strays' = strays + 1
    /\ UNCHANGED <<count, decrs, leaks>>

----------------------------------------------------------------------------
(* The end of a stream.                                                    *)

EndOfStream_NotReleased(c) ==
    /\ Move(c, "open", "ended")
    /\ UNCHANGED <<count, decrs, strays, leaks>>

\* The client closed (close), or a write failed (catch): one finalize.
EndOfStream(c) ==
    /\ Move(c, "open", "ended")
    /\ decrs' = decrs + 1
    /\ UNCHANGED <<count, strays, leaks>>

\* The socket reports an error: pipeTo aborts the sink (abort) and rejects
\* (catch), and each of the two runs finalize.
StreamError(c) ==
    /\ "stream_error" \in Faults
    /\ Move(c, "open", "ended")
    /\ decrs' = decrs + 2
    /\ strays' = strays + 1
    /\ UNCHANGED <<count, leaks>>

Decr_NoFloor ==
    /\ decrs > 0
    /\ decrs' = decrs - 1
    /\ count' = count - 1
    /\ UNCHANGED <<at, strays, leaks>>

Decr ==
    /\ decrs > 0
    /\ decrs' = decrs - 1
    /\ count' = IF count = 0 THEN 0 ELSE count - 1
    /\ UNCHANGED <<at, strays, leaks>>

LoseDecr ==
    /\ "decr_lost" \in Faults
    /\ decrs > 0
    /\ decrs' = decrs - 1
    /\ leaks' = leaks + 1
    /\ UNCHANGED <<at, count, strays>>

\* The object is evicted or redeployed while connections go on.
ResetCounter ==
    /\ "counter_reset" \in Faults
    /\ count > 0
    /\ count' = 0
    /\ strays' = strays + count
    /\ UNCHANGED <<at, decrs, leaks>>

----------------------------------------------------------------------------
Next ==
    \/ \E c \in Connections :
           \/ InvalidUser(c) \/ IncrSession(c)
           \/ Incr(c) \/ IncrFailsOpen(c) \/ IncrRaises(c)
           \/ Refuse(c) \/ BadHeader(c) \/ Admit(c)
           \/ EndOfStream(c) \/ StreamError(c)
    \/ Decr
    \/ LoseDecr
    \/ ResetCounter

Spec == Init /\ [][Next]_vars

----------------------------------------------------------------------------
(* Properties                                                              *)

Open == {c \in Connections : at[c] = "open"}
Holders == {c \in Connections : at[c] \in {"granted", "open"}}

\* The device limit, degraded gracefully: whatever requests are late, lost or
\* repeated, a configuration exceeds its limit by no more than the slots
\* that were released or reset without being owed.
LimitHeldUpToStrays == Cardinality(Open) <= DeviceLimit + strays

\* A slot that is taken belongs to a connection, to a release on its way, or
\* to one of the known leaks: a customer is not locked out by anything else.
SlotsAccountedFor == count <= Cardinality(Holders) + decrs + leaks
=============================================================================
