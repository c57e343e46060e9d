------------------------ MODULE RelayConnectionProofs ------------------------
(***************************************************************************)
(* Proofs about RelayConnection, for any number of chunks and replies.     *)
(* What orders the two sockets is the retry: the second is dialled when    *)
(* the first has ended without a reply, and that end is for good.          *)
(***************************************************************************)
EXTENDS RelayConnection, FiniteSetTheorems, TLAPS

Typed ==
    /\ ws \in {"open", "closing", "closed"}
    /\ arrived \in 0..MaxChunks
    /\ next \in 1..(arrived + 1)
    /\ pipe \in {"idle", "writing", "closed", "failed"}
    /\ target \in Sockets \cup {0}
    /\ remote \in Sockets \cup {0}
    /\ socket \in [Sockets -> {"none", "dialing", "open", "closed"}]
    /\ reading \in [Sockets -> {"none", "piping", "ended"}]
    /\ retry \in {"no", "asked", "over"}
    /\ up \in [Sockets -> Seq(Chunks)]
    /\ down \in Seq([from : Sockets, header : BOOLEAN])
    /\ tracker \in {"none", "open", "closed"}
    /\ counted \in [Chunks -> Nat]
    /\ pipe = "writing" => target \in Sockets /\ next <= arrived

\* A socket is read once it was dialled, and dialled once.
SocketsInOrder ==
    /\ \A s \in Sockets : socket[s] = "dialing" => reading[s] = "none"
    /\ \A s \in Sockets : reading[s] # "none" => socket[s] # "none"
    /\ \A s \in Sockets : socket[s] # "none" => remote # 0
    /\ remote = 0 <=> next = 1
    /\ pipe = "writing" => remote # 0
    /\ remote = 2 => retry = "over"
    /\ socket[2] # "none" => retry = "over"
    /\ retry # "no" => reading[1] = "ended" /\ ~HasIncomingData(1)

\* Replies come from sockets that were read, and begin with the header.
Replies ==
    /\ \A s \in Sockets : HasIncomingData(s) => reading[s] # "none"
    /\ OneReplyStream

\* No chunk is emitted before its turn, and the first one on a socket that
\* was dialled.
Emissions ==
    /\ \A c \in Chunks : c >= next => Emitted(c) = {}
    /\ \A s \in Sockets : s \in Emitted(1) => reading[s] # "none"
    /\ CountedAsEmitted

Inv == Typed /\ SocketsInOrder /\ Replies /\ Emissions

LEMMA EmittedFinite ==
    \A c : /\ IsFiniteSet(Emitted(c))
           /\ Cardinality(Emitted(c)) \in 0..2
           /\ Emitted(c) = {} => Cardinality(Emitted(c)) = 0
<1> SUFFICES ASSUME NEW c
             PROVE  /\ IsFiniteSet(Emitted(c))
                    /\ Cardinality(Emitted(c)) \in 0..2
                    /\ Emitted(c) = {} => Cardinality(Emitted(c)) = 0
  OBVIOUS
<1>1. Emitted(c) \in SUBSET (1..2)
  BY DEF Emitted, Sockets
<1>2. IsFiniteSet(1..2) /\ Cardinality(1..2) = 2
  <2>1. 1 \in Int /\ 2 \in Int
    OBVIOUS
  <2>2. IsFiniteSet(1..2) /\ Cardinality(1..2) = IF 1 > 2 THEN 0 ELSE 2 - 1 + 1
    BY <2>1, FS_Interval, Zenon
  <2> QED
    BY <2>2
<1>3. /\ IsFiniteSet(Emitted(c))
      /\ Cardinality(Emitted(c)) <= 2
      /\ Cardinality(Emitted(c)) \in Nat
  BY <1>1, <1>2, FS_Subset, FS_CardinalityType
<1> QED
  BY <1>3, FS_EmptySet

LEMMA InvTypes == Inv => TypeOK
<1> SUFFICES ASSUME Inv PROVE TypeOK
  OBVIOUS
<1>1. \A c \in Chunks : counted[c] \in 0..2
  <2> TAKE c \in Chunks
  <2>1. counted[c] <= Cardinality(Emitted(c))
    BY DEF Inv, Emissions, CountedAsEmitted
  <2>2. Cardinality(Emitted(c)) \in 0..2
    BY EmittedFinite
  <2> QED
    BY <2>1, <2>2 DEF Inv, Typed
<1>2. counted \in [Chunks -> 0..2]
  BY <1>1 DEF Inv, Typed
<1> QED
  BY <1>2 DEF Inv, Typed, TypeOK

LEMMA InvInit == ASSUME RelayAssumption, Init PROVE Inv
<1>1. Typed
  BY DEF RelayAssumption, Init, Typed, Sockets, Chunks
<1>2. SocketsInOrder /\ Replies
  BY DEF Init, SocketsInOrder, Replies, OneReplyStream, HasIncomingData, Sockets
<1>3. \A c : Emitted(c) = {}
  BY DEF Init, Emitted
<1>4. CountedAsEmitted
  <2> SUFFICES ASSUME NEW c \in Chunks
               PROVE  /\ counted[c] <= Cardinality(Emitted(c))
                      /\ c > 1 => Cardinality(Emitted(c)) <= 1
    BY DEF CountedAsEmitted
  <2>1. Cardinality(Emitted(c)) = 0
    BY <1>3, EmittedFinite
  <2> QED
    BY <2>1 DEF Init
<1> QED
  BY <1>1, <1>2, <1>3, <1>4 DEF Inv, Emissions

----------------------------------------------------------------------------
(* One kind of step at a time.                                             *)

LEMMA TypedStep ==
    ASSUME RelayAssumption, Inv, [Next]_vars PROVE Typed'
<1> USE DEF Inv, Typed, Sockets, Chunks
<1>1. CASE ClientSends \/ ClientCloses \/ StreamErrors
  <2>1. CASE ClientSends
    BY <2>1 DEF RelayAssumption, ClientSends
  <2>2. CASE ClientCloses
    BY <2>2 DEF ClientCloses
  <2>3. CASE StreamErrors
    <3>1. CASE pipe = "writing"
      BY <2>3, <3>1 DEF RelayAssumption, StreamErrors
    <3>2. CASE pipe # "writing"
      BY <2>3, <3>2 DEF RelayAssumption, StreamErrors
    <3> QED
      BY <3>1, <3>2
  <2> QED
    BY <1>1, <2>1, <2>2, <2>3
<1>2. ASSUME NEW end \in {"closed", "failed"}, Finalize(end),
             UNCHANGED <<arrived, next, target, remote, reading, retry, up, down, counted>>,
             ws' \in {"open", "closing", "closed"}
      PROVE  Typed'
  BY <1>2 DEF Finalize
<1>3. CASE WriteRefused \/ WriteFails \/ SinkCloses
  BY <1>2, <1>3 DEF WriteRefused, WriteFails, SinkCloses, Closed
<1>4. CASE HandleTCPOutBound
  BY <1>4 DEF HandleTCPOutBound, Ready, Dial
<1>5. CASE WriteChunk
  BY <1>5 DEF WriteChunk, Ready
<1>6. ASSUME NEW c \in Chunks, Count(c)
      PROVE  counted' \in [Chunks -> Nat]
  <2>1. CASE tracker = "open"
    <3>1. counted[c] + 1 \in Nat
      OBVIOUS
    <3> QED
      BY <1>6, <2>1, <3>1 DEF Count
  <2>2. CASE tracker # "open"
    BY <1>6, <2>2 DEF Count
  <2> QED
    BY <2>1, <2>2
<1>7. ASSUME NEW s \in Sockets, NEW c \in Chunks, Emit(s, c)
      PROVE  up' \in [Sockets -> Seq(Chunks)]
  BY <1>7 DEF Emit
<1>8. CASE ChunkWritten
  <2>1. next \in Chunks /\ target \in Sockets
    BY <1>8 DEF RelayAssumption, ChunkWritten
  <2>2. /\ counted' \in [Chunks -> Nat] /\ up' \in [Sockets -> Seq(Chunks)]
    BY <1>6, <1>7, <1>8, <2>1 DEF ChunkWritten
  <2> QED
    BY <1>8, <2>2 DEF ChunkWritten
<1>9. ASSUME NEW s \in Sockets, Dialed(s)
      PROVE  Typed'
  <2>1. 1 \in Chunks
    BY DEF RelayAssumption
  <2> QED
    BY <1>6, <1>7, <1>9, <2>1 DEF Dialed
<1>10. ASSUME NEW s \in Sockets, DialFails(s) \/ ReplyUndeliverable(s) \/ ReadableEnds(s)
       PROVE  Typed'
  BY <1>10 DEF DialFails, ReplyUndeliverable, ReadableEnds, Closed
<1>11. ASSUME NEW s \in Sockets, ReplyArrives(s)
       PROVE  Typed'
  <2>1. HasIncomingData(s) \in BOOLEAN
    BY DEF HasIncomingData
  <2>2. down' \in Seq([from : Sockets, header : BOOLEAN])
    BY <1>11, <2>1 DEF ReplyArrives
  <2> QED
    BY <1>11, <2>2 DEF ReplyArrives
<1>12. CASE RetryDials \/ RetryGivesUp
  BY <1>12 DEF RetryDials, RetryGivesUp, Dial, Closed
<1>13. CASE UNCHANGED vars
  BY <1>13 DEF vars
<1> QED
  BY <1>1, <1>3, <1>4, <1>5, <1>8, <1>9, <1>10, <1>11, <1>12, <1>13 DEF Next, Runtime

LEMMA SocketsStep ==
    ASSUME RelayAssumption, Inv, [Next]_vars PROVE SocketsInOrder'
<1> USE DEF Inv, Typed, SocketsInOrder, Sockets, HasIncomingData
<1>1. CASE ClientSends \/ ClientCloses \/ StreamErrors
  BY <1>1 DEF ClientSends, ClientCloses, StreamErrors
<1>2. ASSUME NEW end \in {"closed", "failed"}, Finalize(end),
             UNCHANGED <<next, remote, reading, retry, down>>
      PROVE  SocketsInOrder'
  BY <1>2 DEF Finalize
<1>3. CASE WriteRefused \/ WriteFails \/ SinkCloses
  BY <1>2, <1>3 DEF WriteRefused, WriteFails, SinkCloses
<1>4. CASE HandleTCPOutBound
  BY <1>4 DEF HandleTCPOutBound, Ready, Dial
<1>5. CASE WriteChunk \/ ChunkWritten
  BY <1>5 DEF WriteChunk, ChunkWritten
<1>6. ASSUME NEW s \in Sockets, Dialed(s) \/ DialFails(s) \/ ReplyUndeliverable(s)
      PROVE  SocketsInOrder'
  BY <1>6 DEF Dialed, DialFails, ReplyUndeliverable
<1>7. ASSUME NEW s \in Sockets, ReadableEnds(s)
      PROVE  SocketsInOrder'
  BY <1>7 DEF ReadableEnds
<1>8. ASSUME NEW s \in Sockets, ReplyArrives(s)
      PROVE  SocketsInOrder'
  <2>1. retry # "no" => s # 1
    BY <1>8 DEF ReplyArrives
  <2>2. s # 1 => (HasIncomingData(1)' => HasIncomingData(1))
    BY <1>8 DEF ReplyArrives
  <2> QED
    BY <1>8, <2>1, <2>2 DEF ReplyArrives
<1>9. CASE RetryDials \/ RetryGivesUp
  BY <1>9 DEF RetryDials, RetryGivesUp, Dial
<1>10. CASE UNCHANGED vars
  BY <1>10 DEF vars
<1> QED
  BY <1>1, <1>3, <1>4, <1>5, <1>6, <1>7, <1>8, <1>9, <1>10 DEF Next, Runtime

LEMMA SeqElement ==
    ASSUME NEW S, NEW q \in Seq(S), NEW i \in 1..Len(q) PROVE q[i] \in S
  OBVIOUS

LEMMA RepliesStep ==
    ASSUME RelayAssumption, Inv, [Next]_vars PROVE Replies'
<1> USE DEF Inv, Typed, Sockets
<1>1. ASSUME down' = down,
             \A s \in Sockets : reading[s] # "none" => reading'[s] # "none"
      PROVE  Replies'
  BY <1>1 DEF Replies, OneReplyStream, HasIncomingData
<1>2. ASSUME NEW s \in Sockets, ReplyArrives(s)
      PROVE  Replies'
  <2>1. /\ down' = Append(down, [from |-> s, header |-> ~HasIncomingData(s)])
        /\ reading' = reading /\ reading[s] = "piping"
    BY <1>2 DEF ReplyArrives
  <2> DEFINE n == Len(down)
  <2>2. /\ n \in Nat /\ DOMAIN down = 1..n /\ DOMAIN down' = 1..(n + 1)
        /\ down'[n + 1] = [from |-> s, header |-> ~HasIncomingData(s)]
        /\ \A i \in 1..n : down'[i] = down[i] /\ down[i].from \in Sockets
    <3> DEFINE r == [from |-> s, header |-> ~HasIncomingData(s)]
    <3>1. r \in [from : Sockets, header : BOOLEAN]
      BY DEF HasIncomingData
    <3>2. down \in Seq([from : Sockets, header : BOOLEAN]) /\ down' = Append(down, r)
      BY <2>1
    <3> HIDE DEF r
    <3>3. /\ n \in Nat /\ DOMAIN down = 1..n /\ DOMAIN down' = 1..(n + 1)
          /\ down'[n + 1] = r
      BY <3>1, <3>2
    <3>4. \A i \in 1..n : down'[i] = down[i]
      BY <3>1, <3>2
    <3>5. ASSUME NEW i \in 1..n PROVE down[i].from \in Sockets
      <4>1. down[i] \in [from : Sockets, header : BOOLEAN]
        BY <3>2, SeqElement
      <4> QED
        BY <4>1
    <3> QED
      BY <3>3, <3>4, <3>5 DEF r
  <2>3. ASSUME NEW i \in 1..n
        PROVE  down[i].from = s
    <3>1. HasIncomingData(down[i].from) /\ reading[down[i].from] # "none"
      BY <2>2 DEF Replies, HasIncomingData
    <3>2. CASE down[i].from = 1 /\ s = 2
      BY <2>1, <3>1, <3>2 DEF SocketsInOrder
    <3>3. CASE down[i].from = 2 /\ s = 1
      BY <2>1, <3>1, <3>3 DEF SocketsInOrder
    <3> QED
      BY <2>2, <3>2, <3>3
  <2>4. HasIncomingData(s) <=> n # 0
    <3>1. HasIncomingData(s) <=> \E i \in 1..n : down[i].from = s
      BY <2>2 DEF HasIncomingData
    <3>2. n # 0 => 1 \in 1..n
      BY <2>2
    <3>3. n = 0 => 1..n = {}
      OBVIOUS
    <3> HIDE DEF n
    <3> QED
      BY <2>3, <3>1, <3>2, <3>3
  <2>5. \A i \in 1..n : down[i].header <=> i = 1
    BY <2>2 DEF Replies, OneReplyStream
  <2> HIDE DEF n
  <2>6. OneReplyStream'
    <3> SUFFICES ASSUME NEW i \in 1..(n + 1)
                 PROVE  /\ down'[i].from = down'[1].from
                        /\ down'[i].header <=> i = 1
      BY <2>2 DEF OneReplyStream
    <3>1. /\ down'[n + 1].from = s
          /\ down'[n + 1].header <=> ~HasIncomingData(s)
      <4> DEFINE h == ~HasIncomingData(s)
      <4>1. down'[n + 1] = [from |-> s, header |-> h]
        BY <2>2
      <4> HIDE DEF h
      <4>2. down'[n + 1].from = s /\ down'[n + 1].header = h
        BY <4>1
      <4>3. h <=> ~HasIncomingData(s)
        BY DEF h
      <4> QED
        BY <4>2, <4>3, Zenon
    <3>2. CASE n = 0
      <4>1. i = 1 /\ n + 1 = 1
        BY <3>2
      <4> QED
        BY <2>4, <3>1, <3>2, <4>1
    <3>3. ASSUME n # 0 PROVE down'[1].from = s
      <4>1. 1 \in 1..n
        BY <2>2, <3>3
      <4> QED
        BY <2>2, <2>3, <4>1
    <3>4. CASE n # 0 /\ i = n + 1
      <4>1. i # 1
        BY <2>2, <3>4
      <4> QED
        BY <2>4, <3>1, <3>3, <3>4, <4>1
    <3>5. CASE n # 0 /\ i # n + 1
      <4>1. i \in 1..n
        BY <2>2, <3>5
      <4>2. down'[i] = down[i] /\ down[i].from = s /\ (down[i].header <=> i = 1)
        BY <2>2, <2>3, <2>5, <4>1
      <4> QED
        BY <3>3, <3>5, <4>2
    <3> QED
      BY <3>2, <3>4, <3>5
  <2>7. \A t \in Sockets : HasIncomingData(t)' => reading'[t] # "none"
    BY <2>1, <2>2, <2>3 DEF HasIncomingData, Replies
  <2> QED
    BY <2>6, <2>7 DEF Replies
<1>3. ASSUME NEW s \in Sockets, Dialed(s) \/ DialFails(s) \/ ReplyUndeliverable(s)
                                    \/ ReadableEnds(s)
      PROVE  Replies'
  BY <1>1, <1>3 DEF Dialed, DialFails, ReplyUndeliverable, ReadableEnds
<1> QED
  BY <1>1, <1>2, <1>3
  DEF Next, Runtime, vars, ClientSends, ClientCloses, StreamErrors, HandleTCPOutBound,
      WriteChunk, WriteRefused, ChunkWritten, WriteFails, SinkCloses, RetryDials,
      RetryGivesUp

\* What one write adds.
LEMMA EmitAdds ==
    ASSUME up \in [Sockets -> Seq(Chunks)], NEW s \in Sockets, NEW x \in Chunks, Emit(s, x),
           NEW c \in Chunks
    PROVE  Emitted(c)' = IF c = x THEN Emitted(c) \cup {s} ELSE Emitted(c)
<1>1. up' = [up EXCEPT ![s] = Append(@, x)]
  BY DEF Emit
<1>2. ASSUME NEW t \in Sockets
      PROVE  t \in Emitted(c)' <=> t \in Emitted(c) \/ (t = s /\ c = x)
  <2>1. CASE t # s
    <3>1. up'[t] = up[t]
      BY <1>1, <2>1
    <3> QED
      BY <2>1, <3>1 DEF Emitted
  <2>2. CASE t = s
    <3> DEFINE q == up[s]
               n == Len(q)
    <3>1. /\ q \in Seq(Chunks) /\ n \in Nat
          /\ up'[s] = Append(q, x)
      BY <1>1
    <3> HIDE DEF q
    <3>2. /\ DOMAIN q = 1..n /\ DOMAIN (up'[s]) = 1..(n + 1)
          /\ up'[s][n + 1] = x
          /\ \A i \in 1..n : up'[s][i] = q[i]
      BY <3>1
    <3>3. t \in Emitted(c)' <=> \E i \in 1..(n + 1) : up'[s][i] = c
      BY <2>2, <3>2 DEF Emitted
    <3>4. t \in Emitted(c) <=> \E i \in 1..n : q[i] = c
      BY <2>2, <3>2 DEF Emitted, q
    <3>5. 1..(n + 1) = (1..n) \cup {n + 1}
      BY <3>1
    <3> HIDE DEF n
    <3> QED
      BY <2>2, <3>2, <3>3, <3>4, <3>5
  <2> QED
    BY <2>1, <2>2
<1>3. Emitted(c) \subseteq Sockets /\ Emitted(c)' \subseteq Sockets
  BY DEF Emitted
<1> QED
  BY <1>2, <1>3

\* A chunk that is written is counted at most once for it.
LEMMA CountAdds ==
    ASSUME counted \in [Chunks -> Nat], NEW x \in Chunks, Count(x), NEW c \in Chunks
    PROVE  counted'[c] = counted[c] \/ (c = x /\ counted'[c] = counted[c] + 1)
  BY DEF Count

\* A write to a socket that has not taken the chunk keeps the counts covered.
LEMMA CountedStep ==
    ASSUME up \in [Sockets -> Seq(Chunks)], counted \in [Chunks -> Nat], CountedAsEmitted,
           NEW s \in Sockets, NEW x \in Chunks, Emit(s, x), Count(x),
           s \notin Emitted(x), x > 1 => Emitted(x) = {}
    PROVE  CountedAsEmitted'
<1>1. ASSUME NEW c \in Chunks
      PROVE  /\ counted'[c] <= Cardinality(Emitted(c)')
             /\ c > 1 => Cardinality(Emitted(c)') <= 1
  <2>1. /\ counted[c] \in Nat /\ counted[c] <= Cardinality(Emitted(c))
        /\ c > 1 => Cardinality(Emitted(c)) <= 1
    BY DEF CountedAsEmitted
  <2>2. /\ IsFiniteSet(Emitted(c)) /\ Cardinality(Emitted(c)) \in 0..2
        /\ Emitted(c) = {} => Cardinality(Emitted(c)) = 0
    BY EmittedFinite
  <2>3. CASE c = x
    <3>1. Emitted(c)' = Emitted(c) \cup {s}
      BY <2>3, EmitAdds
    <3>2. Cardinality(Emitted(c)') = Cardinality(Emitted(c)) + 1
      BY <2>2, <2>3, <3>1, FS_AddElement
    <3>3. counted'[c] = counted[c] \/ counted'[c] = counted[c] + 1
      BY CountAdds
    <3> QED
      BY <2>1, <2>2, <2>3, <3>2, <3>3
  <2>4. CASE c # x
    <3>1. Emitted(c)' = Emitted(c)
      BY <2>4, EmitAdds
    <3>2. counted'[c] = counted[c]
      BY <2>4, CountAdds
    <3> QED
      BY <2>1, <3>1, <3>2
  <2> QED
    BY <2>3, <2>4
<1> QED
  BY <1>1 DEF CountedAsEmitted

LEMMA EmissionsStep ==
    ASSUME RelayAssumption, Inv, [Next]_vars PROVE Emissions'
<1> USE DEF Inv
<1>1. ASSUME UNCHANGED <<up, counted>>, next' = next \/ next' = next + 1,
             \A s \in Sockets : reading[s] # "none" => reading'[s] # "none"
      PROVE  Emissions'
  <2>1. \A c : Emitted(c)' = Emitted(c)
    BY <1>1 DEF Emitted
  <2>2. CountedAsEmitted'
    BY <1>1, <2>1 DEF Emissions, CountedAsEmitted
  <2>3. ASSUME NEW c \in Chunks, c >= next' PROVE Emitted(c) = {}
    BY <1>1, <2>3 DEF Emissions, Typed, Chunks
  <2> QED
    BY <1>1, <2>1, <2>2, <2>3 DEF Emissions
<1>2. CASE ChunkWritten
  <2>1. /\ target \in Sockets /\ next \in Chunks /\ next > 1
        /\ Emit(target, next) /\ Count(next) /\ next' = next + 1 /\ reading' = reading
    BY <1>2 DEF ChunkWritten, RelayAssumption, Typed, SocketsInOrder, Chunks
  <2>2. Emitted(next) = {}
    BY <2>1 DEF Emissions, Chunks
  <2>3. CountedAsEmitted'
    BY <2>1, <2>2, CountedStep DEF Typed, Emissions
  <2>4. ASSUME NEW c \in Chunks, c >= next' PROVE Emitted(c)' = {}
    <3>1. c # next /\ c >= next
      BY <2>1, <2>4 DEF Chunks
    <3> QED
      BY <2>1, <3>1, EmitAdds DEF Typed, Emissions
  <2>5. Emitted(1)' = Emitted(1)
    <3>1. 1 \in Chunks /\ 1 # next
      BY <2>1 DEF RelayAssumption, Chunks
    <3> QED
      BY <2>1, <3>1, EmitAdds DEF Typed
  <2> QED
    BY <2>1, <2>3, <2>4, <2>5 DEF Emissions
<1>3. ASSUME NEW s \in Sockets, Dialed(s)
      PROVE  Emissions'
  <2>1. /\ Emit(s, 1) /\ Count(1) /\ next' = next
        /\ socket[s] = "dialing" /\ reading[s] = "none"
        /\ reading' = [reading EXCEPT ![s] = "piping"]
    BY <1>3 DEF Dialed, SocketsInOrder
  <2>2. 1 \in Chunks /\ next > 1 /\ next \in Nat
    BY <2>1 DEF RelayAssumption, Typed, SocketsInOrder, Chunks
  <2>3. s \notin Emitted(1)
    BY <2>1 DEF Emissions
  <2>4. CountedAsEmitted'
    BY <2>1, <2>2, <2>3, CountedStep DEF Typed, Emissions
  <2>5. ASSUME NEW c \in Chunks, c >= next' PROVE Emitted(c)' = {}
    <3>1. c # 1 /\ c >= next
      BY <2>1, <2>2, <2>5 DEF Chunks
    <3> QED
      BY <2>1, <2>2, <3>1, EmitAdds DEF Typed, Emissions
  <2>6. Emitted(1)' = Emitted(1) \cup {s}
    BY <2>1, <2>2, EmitAdds DEF Typed
  <2>7. ASSUME NEW t \in Sockets, t \in Emitted(1)' PROVE reading'[t] # "none"
    BY <2>1, <2>6, <2>7 DEF Typed, Emissions
  <2> QED
    BY <2>4, <2>5, <2>7 DEF Emissions
<1>4. CASE HandleTCPOutBound
  BY <1>1, <1>4 DEF HandleTCPOutBound
<1>5. ASSUME NEW s \in Sockets,
             DialFails(s) \/ ReplyArrives(s) \/ ReplyUndeliverable(s) \/ ReadableEnds(s)
      PROVE  Emissions'
  BY <1>1, <1>5 DEF DialFails, ReplyArrives, ReplyUndeliverable, ReadableEnds, Typed
<1> QED
  BY <1>1, <1>2, <1>3, <1>4, <1>5
  DEF Next, Runtime, vars, ClientSends, ClientCloses, StreamErrors,
      WriteChunk, WriteRefused, WriteFails, SinkCloses, RetryDials, RetryGivesUp

----------------------------------------------------------------------------
LEMMA InvStep == ASSUME RelayAssumption, Inv, [Next]_vars PROVE Inv'
  BY TypedStep, SocketsStep, RepliesStep, EmissionsStep DEF Inv

\* Replies, counts and the state of the sockets of one connection
\* (protocols/common.ts), whatever its client and its upstreams do.
THEOREM InvAlways == ASSUME RelayAssumption PROVE Spec => []Inv
<1>1. Init => Inv
  BY InvInit
<1>2. Inv /\ [Next]_vars => Inv'
  BY InvStep
<1> QED
  BY <1>1, <1>2, PTL DEF Spec

=============================================================================
