-------------------------- MODULE RelayConnection ---------------------------
(***************************************************************************)
(* One TCP connection through a node, after its header was accepted: the   *)
(* WebSocket pipe of protocols/vless.ts and trojan.ts and the sockets of   *)
(* protocols/common.ts.  The first chunk is dialled for without waiting;   *)
(* when the socket ends without an answer a second one is dialled through  *)
(* a proxy address and gets the first chunk again.  Later chunks go to     *)
(* whichever socket is current when they come.                             *)
(*                                                                         *)
(* A chunk is known by its number; a write is under way until the socket   *)
(* takes it, and holds the lock of the socket's stream meanwhile.          *)
(***************************************************************************)
EXTENDS Naturals, Sequences, FiniteSets

CONSTANTS
    MaxChunks,   \* bound: chunks of the client
    MaxReplies   \* bound: chunks of the upstream

RelayAssumption ==
    /\ MaxChunks \in Nat \ {0}
    /\ MaxReplies \in Nat

Sockets == {1, 2}
Chunks == 1..MaxChunks

VARIABLES
    ws,       \* the WebSocket: open, closing (by us), closed
    arrived,  \* chunks the client has sent
    next,     \* the next one for the pipe to write
    pipe,     \* the pipe from the WebSocket: idle, writing, closed, failed
    target,   \* the socket the pipe writes to
    remote,   \* remoteSocket.value: the socket dialled last, or 0
    socket,   \* each socket: none, dialing, open, closed
    reading,  \* its pipe to the WebSocket: none, piping, ended
    retry,    \* no, asked, over
    up,       \* chunks each socket has taken
    down,     \* what the client was sent: the socket it came from, a header?
    tracker,  \* none, open, closed
    counted   \* how often each chunk was counted

vars == <<ws, arrived, next, pipe, target, remote, socket, reading, retry, up,
          down, tracker, counted>>

TypeOK ==
    /\ ws \in {"open", "closing", "closed"}
    /\ arrived \in 0..MaxChunks
    /\ next \in 1..(arrived + 1)
    /\ pipe \in {"idle", "writing", "closed", "failed"}
    /\ target \in Sockets \cup {0}
    /\ remote \in Sockets \cup {0}
    /\ socket \in [Sockets -> {"none", "dialing", "open", "closed"}]
    /\ reading \in [Sockets -> {"none", "piping", "ended"}]
    /\ retry \in {"no", "asked", "over"}
    /\ up \in [Sockets -> Seq(Chunks)]
    /\ down \in Seq([from : Sockets, header : BOOLEAN])
    /\ tracker \in {"none", "open", "closed"}
    /\ counted \in [Chunks -> 0..2]
    /\ pipe = "writing" => target \in Sockets /\ next <= arrived

Init ==
    /\ ws = "open"
    /\ arrived = 0 /\ next = 1
    /\ pipe = "idle" /\ target = 0 /\ remote = 0
    /\ socket = [s \in Sockets |-> "none"]
    /\ reading = [s \in Sockets |-> "none"]
    /\ retry = "no"
    /\ up = [s \in Sockets |-> <<>>]
    /\ down = <<>>
    /\ tracker = "none"
    /\ counted = [c \in Chunks |-> 0]

----------------------------------------------------------------------------
(* What several handlers do.                                               *)

\* trackUp, once the chunk was emitted; a closed tracker counts nothing.
Count(c) ==
    counted' = IF tracker = "open" THEN [counted EXCEPT ![c] = @ + 1] ELSE counted

Emit(s, c) == up' = [up EXCEPT ![s] = Append(@, c)]

\* connect and the first write, up to its await.
Dial(s) ==
    /\ remote' = s
    /\ socket' = [socket EXCEPT ![s] = "dialing"]

Closed(w) == IF w = "closed" THEN w ELSE "closing"

\* The remote socket the handler knows is closed, and finalize releases the
\* slot and closes the tracker.
Finalize(end) ==
    /\ pipe' = end
    /\ socket' = [s \in Sockets |-> IF s = remote THEN "closed" ELSE socket[s]]
    /\ tracker' = IF tracker = "open" THEN "closed" ELSE tracker

----------------------------------------------------------------------------
(* The client and the pipe from the WebSocket.                             *)

ClientSends ==
    /\ ws = "open"
    /\ arrived < MaxChunks
    /\ arrived' = arrived + 1
    /\ UNCHANGED <<ws, next, pipe, target, remote, socket, reading, retry, up,
                   down, tracker, counted>>

ClientCloses ==
    /\ ws # "closed"
    /\ ws' = "closed"
    /\ UNCHANGED <<arrived, next, pipe, target, remote, socket, reading, retry,
                   up, down, tracker, counted>>

Ready == pipe = "idle" /\ next <= arrived

\* The header is accepted (SessionAdmission): the tracker opens, and the
\* dial is not waited for.
HandleTCPOutBound ==
    /\ Ready
    /\ remote = 0
    /\ Dial(1)
    /\ tracker' = "open"
    /\ next' = next + 1
    /\ UNCHANGED <<ws, arrived, pipe, target, reading, retry, up, down, counted>>

WriteChunk ==
    /\ Ready
    /\ remote # 0
    /\ socket[remote] = "open"
    /\ pipe' = "writing"
    /\ target' = remote
    /\ UNCHANGED <<ws, arrived, next, remote, socket, reading, retry, up, down,
                   tracker, counted>>

\* getWriter throws while the first write holds the lock, and a closed
\* socket takes nothing.
WriteRefused ==
    /\ Ready
    /\ remote # 0
    /\ socket[remote] # "open"
    /\ Finalize("failed")
    /\ ws' = Closed(ws)
    /\ UNCHANGED <<arrived, next, target, remote, reading, retry, up, down, counted>>

ChunkWritten ==
    /\ pipe = "writing"
    /\ socket[target] # "closed"
    /\ Emit(target, next)
    /\ Count(next)
    /\ next' = next + 1
    /\ pipe' = "idle"
    /\ UNCHANGED <<ws, arrived, target, remote, socket, reading, retry, down, tracker>>

WriteFails_NotFinalized ==
    /\ pipe = "writing"
    /\ socket[target] = "closed"
    /\ pipe' = "failed"
    /\ ws' = Closed(ws)
    /\ UNCHANGED <<arrived, next, target, remote, socket, reading, retry, up, down,
                   tracker, counted>>

WriteFails ==
    /\ pipe = "writing"
    /\ socket[target] = "closed"
    /\ Finalize("failed")
    /\ ws' = Closed(ws)
    /\ UNCHANGED <<arrived, next, target, remote, reading, retry, up, down, counted>>

\* close of the sink, once the chunks that came before are written.
SinkCloses ==
    /\ ws = "closed"
    /\ pipe = "idle" /\ next > arrived
    /\ Finalize("closed")
    /\ UNCHANGED <<ws, arrived, next, target, remote, reading, retry, up, down,
                   counted>>

\* An error of the WebSocket drops what is queued; the pipe ends once the
\* chunk it writes is written.
StreamErrors ==
    /\ ws # "closed"
    /\ ws' = "closed"
    /\ arrived' = IF pipe = "writing" THEN next ELSE next - 1
    /\ UNCHANGED <<next, pipe, target, remote, socket, reading, retry, up, down,
                   tracker, counted>>

----------------------------------------------------------------------------
(* The sockets, their replies, and the retry.                              *)

Dialed_CountedFirst(s) ==
    /\ socket[s] = "dialing"
    /\ socket' = [socket EXCEPT ![s] = "open"]
    /\ UNCHANGED up
    /\ Count(1)
    /\ reading' = [reading EXCEPT ![s] = "piping"]
    /\ UNCHANGED <<ws, arrived, next, pipe, target, remote, retry, down, tracker>>

\* The first chunk is written: it is counted, and replies are piped back.
Dialed(s) ==
    /\ socket[s] = "dialing"
    /\ socket' = [socket EXCEPT ![s] = "open"]
    /\ Emit(s, 1)
    /\ Count(1)
    /\ reading' = [reading EXCEPT ![s] = "piping"]
    /\ UNCHANGED <<ws, arrived, next, pipe, target, remote, retry, down, tracker>>

\* connect or the first write rejects, also because the socket was closed.
DialFails(s) ==
    /\ socket[s] \in {"dialing", "closed"} /\ reading[s] = "none"
    /\ socket' = [socket EXCEPT ![s] = "closed"]
    /\ reading' = [reading EXCEPT ![s] = "ended"]
    /\ ws' = Closed(ws)
    /\ UNCHANGED <<arrived, next, pipe, target, remote, retry, up, down, tracker,
                   counted>>

HasIncomingData(s) == \E i \in DOMAIN down : down[i].from = s

ReplyArrives_HeaderAgain(s) ==
    /\ reading[s] = "piping" /\ socket[s] = "open"
    /\ ws = "open"
    /\ Len(down) < MaxReplies
    /\ down' = Append(down, [from |-> s, header |-> TRUE])
    /\ UNCHANGED <<ws, arrived, next, pipe, target, remote, socket, reading, retry,
                   up, tracker, counted>>

\* The response header goes before the first reply of a socket.
ReplyArrives(s) ==
    /\ reading[s] = "piping" /\ socket[s] = "open"
    /\ ws = "open"
    /\ Len(down) < MaxReplies
    /\ down' = Append(down, [from |-> s, header |-> ~HasIncomingData(s)])
    /\ UNCHANGED <<ws, arrived, next, pipe, target, remote, socket, reading, retry,
                   up, tracker, counted>>

\* A reply for a WebSocket that is not open: the pipe fails, and as there
\* was incoming data nothing is retried.
ReplyUndeliverable(s) ==
    /\ reading[s] = "piping" /\ socket[s] = "open"
    /\ ws # "open"
    /\ socket' = [socket EXCEPT ![s] = "closed"]
    /\ reading' = [reading EXCEPT ![s] = "ended"]
    /\ UNCHANGED <<ws, arrived, next, pipe, target, remote, retry, up, down,
                   tracker, counted>>

\* The upstream ends, fails, or was closed by us.  A failed pipe closes the
\* WebSocket, and so does the end of the second socket.
ReadableEnds(s) ==
    /\ reading[s] = "piping"
    /\ socket' = [socket EXCEPT ![s] = "closed"]
    /\ reading' = [reading EXCEPT ![s] = "ended"]
    /\ retry' = IF s = 1 /\ ~HasIncomingData(s) THEN "asked" ELSE retry
    /\ ws' \in IF s = 2 THEN {Closed(ws)} ELSE {ws, Closed(ws)}
    /\ UNCHANGED <<arrived, next, pipe, target, remote, up, down, tracker, counted>>

\* Whatever became of the client meanwhile.  An invalid prefix closes the
\* WebSocket and dials all the same.
RetryDials ==
    /\ retry = "asked"
    /\ retry' = "over"
    /\ Dial(2)
    /\ ws' \in {ws, Closed(ws)}
    /\ UNCHANGED <<arrived, next, pipe, target, reading, up, down, tracker, counted>>

\* No proxy address is configured, or its look-up raises: nothing is closed.
RetryGivesUp ==
    /\ retry = "asked"
    /\ retry' = "over"
    /\ UNCHANGED <<ws, arrived, next, pipe, target, remote, socket, reading, up,
                   down, tracker, counted>>

----------------------------------------------------------------------------
\* What the runtime owes a connection: events, resolved writes and dials.
Runtime ==
    \/ HandleTCPOutBound \/ WriteChunk \/ WriteRefused
    \/ ChunkWritten \/ WriteFails \/ SinkCloses
    \/ \E s \in Sockets : Dialed(s) \/ DialFails(s)
    \/ RetryDials \/ RetryGivesUp

Next ==
    \/ ClientSends \/ ClientCloses \/ StreamErrors
    \/ Runtime
    \/ \E s \in Sockets : ReplyArrives(s) \/ ReplyUndeliverable(s) \/ ReadableEnds(s)

Spec == Init /\ [][Next]_vars
FairSpec == Spec /\ WF_vars(Runtime)

----------------------------------------------------------------------------
\* The client's replies come from one socket, and the response header comes
\* once, before them, although the second socket has a header of its own.
OneReplyStream ==
    \A i \in DOMAIN down :
        /\ down[i].from = down[1].from
        /\ down[i].header <=> i = 1

\* The sockets a chunk was emitted to.
Emitted(c) == {s \in Sockets : \E i \in DOMAIN up[s] : up[s][i] = c}

\* A chunk is never counted more often than it was emitted, and none but the
\* first is emitted twice.
CountedAsEmitted ==
    \A c \in Chunks :
        /\ counted[c] <= Cardinality(Emitted(c))
        /\ c > 1 => Cardinality(Emitted(c)) <= 1

\* A connection whose client has left is finalized in the end: the pipe is
\* over, and the tracker closed for good.
Finalized == ws = "closed" ~> [](pipe \in {"closed", "failed"} /\ tracker # "open")

=============================================================================
