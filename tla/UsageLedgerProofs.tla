-------------------------- MODULE UsageLedgerProofs --------------------------
(***************************************************************************)
(* Proofs about UsageLedger, for any number of connections, any threshold  *)
(* and any bounds, and about its composition with the relay (MCEdge).      *)
(***************************************************************************)
EXTENDS MCEdge, FiniteSetTheorems, TLAPS

\* What is proved of one connection.
ConnProofs == INSTANCE RelayConnectionProofs WITH tracker <- relayTracker

\* A slice that a tracker cut, as an event or a row names it.
IsSlice(r) == r.seq \in DOMAIN slices[r.conn] /\ r.bytes = slices[r.conn][r.seq]

\* The tracker's number is that of its last slice: numbers are not reused.
NumbersFresh == \A c \in Connections : tracker[c].seq = Len(slices[c])

\* RowsAreSlices is inductive once what is in flight is known to be slices.
LedgerInv ==
    /\ TrackerTypeOK
    /\ ledger \subseteq Rows
    /\ today \in Days
    /\ NumbersFresh
    /\ \A e \in net : IsSlice(e)
    /\ RowsAreSlices

LEMMA LedgerInvInit == Init => LedgerInv
  BY UsageTrackerAssumption, UsageLedgerAssumption
  DEF Init, TrackerInit, LedgerInv, TrackerTypeOK, Trackers, NumbersFresh,
      RowsAreSlices, Days

\* Cutting a slice extends a connection's history and leaves the rest of it
\* in place.
LEMMA CutExtends ==
    ASSUME LedgerInv, NEW c \in Connections, NEW pending \in Nat,
           NEW closed \in BOOLEAN, CutSlice(c, pending, closed)
    PROVE  /\ tracker' \in [Connections -> Trackers]
           /\ slices' \in [Connections -> Seq(Nat)]
           /\ net' \subseteq Events
           /\ NumbersFresh'
           /\ \A e \in net' : IsSlice(e)'
           /\ \A r \in Rows : IsSlice(r) => IsSlice(r)'
<1> DEFINE n == tracker[c].seq + 1
<1>1. /\ tracker' = [tracker EXCEPT ![c] =
             [pending |-> 0, seq |-> n, flushing |-> TRUE, closed |-> closed]]
      /\ slices' = [slices EXCEPT ![c] = Append(@, pending)]
      /\ net' = net \cup {[conn |-> c, seq |-> n, bytes |-> pending]}
  BY DEF CutSlice
<1>2. /\ tracker[c].seq \in Nat
      /\ slices[c] \in Seq(Nat)
      /\ n = Len(slices[c]) + 1
      /\ n \in Nat
  BY DEF LedgerInv, TrackerTypeOK, Trackers, NumbersFresh
<1>3. /\ Append(slices[c], pending) \in Seq(Nat)
      /\ DOMAIN Append(slices[c], pending) = 1..n
      /\ Append(slices[c], pending)[n] = pending
      /\ \A i \in DOMAIN slices[c] : Append(slices[c], pending)[i] = slices[c][i]
      /\ DOMAIN slices[c] \subseteq 1..n
      /\ Len(Append(slices[c], pending)) = n
  BY <1>2
<1>4. slices' \in [Connections -> Seq(Nat)]
  BY <1>1, <1>3 DEF LedgerInv, TrackerTypeOK
<1>5. slices'[c] = Append(slices[c], pending)
      /\ \A d \in Connections \ {c} : slices'[d] = slices[d]
  BY <1>1 DEF LedgerInv, TrackerTypeOK
<1>6. tracker' \in [Connections -> Trackers]
  BY <1>1, <1>2 DEF LedgerInv, TrackerTypeOK, Trackers
<1>7. NumbersFresh'
  BY <1>1, <1>3, <1>5 DEF LedgerInv, TrackerTypeOK, NumbersFresh
<1>8. ASSUME NEW r, r.conn \in Connections, IsSlice(r)
      PROVE  IsSlice(r)'
  <2>1. CASE r.conn = c
    BY <2>1, <1>3, <1>5, <1>8 DEF IsSlice
  <2>2. CASE r.conn # c
    BY <2>2, <1>5, <1>8 DEF IsSlice
  <2> QED
    BY <2>1, <2>2
<1>9. net' \subseteq Events
  BY <1>1, <1>2 DEF LedgerInv, TrackerTypeOK, Events
<1>10. ASSUME NEW e \in net'
       PROVE  IsSlice(e)'
  <2>1. CASE e \in net
    <3>1. e.conn \in Connections /\ IsSlice(e)
      BY <2>1 DEF LedgerInv, TrackerTypeOK, Events
    <3> QED
      BY <3>1, <1>8
  <2>2. CASE e = [conn |-> c, seq |-> n, bytes |-> pending]
    BY <2>2, <1>2, <1>3, <1>5 DEF IsSlice
  <2> QED
    BY <1>1, <2>1, <2>2
<1> QED
  BY <1>4, <1>6, <1>7, <1>8, <1>9, <1>10 DEF Rows

\* Rows that are slices stay so while the ledger is unchanged and the
\* histories only grow.
LEMMA RowsKept ==
    ASSUME RowsAreSlices, ledger \subseteq Rows, ledger' = ledger,
           \A r \in Rows : IsSlice(r) => IsSlice(r)'
    PROVE  RowsAreSlices'
  BY DEF RowsAreSlices, IsSlice

\* A tracker that keeps its number keeps its history's length.
LEMMA NumberKept ==
    ASSUME LedgerInv, NEW c \in Connections, NEW t \in Trackers,
           t.seq = tracker[c].seq, tracker' = [tracker EXCEPT ![c] = t]
    PROVE  /\ tracker' \in [Connections -> Trackers]
           /\ \A d \in Connections : tracker'[d].seq = tracker[d].seq
  BY DEF LedgerInv, TrackerTypeOK

LEMMA TrackerStep ==
    LedgerInv /\ TrackerNext /\ UNCHANGED ledgerVars => LedgerInv'
<1> SUFFICES ASSUME LedgerInv, TrackerNext, UNCHANGED ledgerVars
             PROVE  LedgerInv'
  OBVIOUS
<1>1. ledger' = ledger /\ today' = today
  BY DEF ledgerVars
<1>2. ASSUME NEW c \in Connections, Relay(c)
      PROVE  relayed' \in [Connections -> 0..MaxBytes]
  BY <1>2, UsageTrackerAssumption DEF Relay, LedgerInv, TrackerTypeOK
<1>3. ASSUME NEW c \in Connections, NEW pending \in Nat, NEW closed \in BOOLEAN,
             CutSlice(c, pending, closed),
             relayed' \in [Connections -> 0..MaxBytes]
      PROVE  LedgerInv'
  <2>1. RowsAreSlices'
    BY <1>1, <1>3, CutExtends, RowsKept DEF LedgerInv
  <2> QED
    BY <1>1, <1>3, <2>1, CutExtends DEF LedgerInv, TrackerTypeOK
<1>4. ASSUME NEW c \in Connections, Track(c)
      PROVE  LedgerInv'
  <2>1. relayed' \in [Connections -> 0..MaxBytes]
    BY <1>2, <1>4 DEF Track
  <2>2. tracker' \in [Connections -> Trackers]
        /\ \A d \in Connections : tracker'[d].seq = tracker[d].seq
    <3> DEFINE t == [tracker[c] EXCEPT !.pending = tracker[c].pending + 1]
    <3>1. tracker' = [tracker EXCEPT ![c] = t]
      BY <1>4 DEF Track
    <3>2. tracker[c] \in Trackers /\ tracker[c].pending + 1 \in Nat
      BY DEF LedgerInv, TrackerTypeOK, Trackers
    <3>3. t \in Trackers /\ t.seq = tracker[c].seq
      BY <3>2 DEF Trackers
    <3> QED
      BY <3>1, <3>3, NumberKept
  <2> QED
    BY <1>1, <1>4, <2>1, <2>2
    DEF Track, LedgerInv, TrackerTypeOK, NumbersFresh, RowsAreSlices, IsSlice
<1>5. ASSUME NEW c \in Connections, TrackAndFlush(c)
      PROVE  LedgerInv'
  <2>1. relayed' \in [Connections -> 0..MaxBytes]
    BY <1>2, <1>5 DEF TrackAndFlush
  <2>2. tracker[c].pending + 1 \in Nat
    BY DEF LedgerInv, TrackerTypeOK, Trackers
  <2> QED
    BY <1>3, <1>5, <2>1, <2>2 DEF TrackAndFlush
<1>6. ASSUME NEW c \in Connections, TrackClosed(c)
      PROVE  LedgerInv'
  <2>1. relayed' \in [Connections -> 0..MaxBytes]
    BY <1>2, <1>6 DEF TrackClosed
  <2> QED
    BY <1>1, <1>6, <2>1
    DEF TrackClosed, LedgerInv, TrackerTypeOK, NumbersFresh, RowsAreSlices, IsSlice
<1>7. ASSUME NEW c \in Connections, Close(c)
      PROVE  LedgerInv'
  <2>1. CASE tracker[c].pending = 0 \/ tracker[c].flushing
    <3>1. tracker' \in [Connections -> Trackers]
          /\ \A d \in Connections : tracker'[d].seq = tracker[d].seq
      <4> DEFINE t == [tracker[c] EXCEPT !.closed = TRUE]
      <4>1. tracker' = [tracker EXCEPT ![c] = t]
        BY <1>7, <2>1 DEF Close
      <4>2. t \in Trackers /\ t.seq = tracker[c].seq
        BY DEF LedgerInv, TrackerTypeOK, Trackers
      <4> QED
        BY <4>1, <4>2, NumberKept
    <3> QED
      BY <1>1, <1>7, <2>1, <3>1
      DEF Close, LedgerInv, TrackerTypeOK, NumbersFresh, RowsAreSlices, IsSlice
  <2>2. CASE ~(tracker[c].pending = 0 \/ tracker[c].flushing)
    <3>1. CutSlice(c, tracker[c].pending, TRUE) /\ relayed' = relayed
      BY <1>7, <2>2 DEF Close
    <3>2. tracker[c].pending \in Nat /\ relayed' \in [Connections -> 0..MaxBytes]
      BY <3>1 DEF LedgerInv, TrackerTypeOK, Trackers
    <3> QED
      BY <1>3, <3>1, <3>2
  <2> QED
    BY <2>1, <2>2
<1>8. ASSUME NEW c \in Connections, FlushEnds(c) \/ Evict(c)
      PROVE  LedgerInv'
  <2>1. tracker' \in [Connections -> Trackers]
        /\ \A d \in Connections : tracker'[d].seq = tracker[d].seq
    <3>1. PICK t \in Trackers : /\ t.seq = tracker[c].seq
                                /\ tracker' = [tracker EXCEPT ![c] = t]
      <4> DEFINE ended == [tracker[c] EXCEPT !.flushing = FALSE]
                 gone == [tracker[c] EXCEPT
                     !.pending = 0, !.flushing = FALSE, !.closed = TRUE]
      <4>1. tracker' = [tracker EXCEPT ![c] = ended]
               \/ tracker' = [tracker EXCEPT ![c] = gone]
        BY <1>8 DEF FlushEnds, Evict
      <4>2. /\ ended \in Trackers /\ ended.seq = tracker[c].seq
            /\ gone \in Trackers /\ gone.seq = tracker[c].seq
        BY DEF LedgerInv, TrackerTypeOK, Trackers
      <4> HIDE DEF ended, gone
      <4> QED
        BY <4>1, <4>2
    <3> QED
      BY <3>1, NumberKept
  <2> QED
    BY <1>1, <1>8, <2>1
    DEF FlushEnds, Evict, LedgerInv, TrackerTypeOK, NumbersFresh, RowsAreSlices,
        IsSlice
<1>9. ASSUME NEW e \in net, Lose(e)
      PROVE  LedgerInv'
  BY <1>1, <1>9
  DEF Lose, LedgerInv, TrackerTypeOK, NumbersFresh, RowsAreSlices, IsSlice
<1> QED
  BY <1>4, <1>5, <1>6, <1>7, <1>8, <1>9 DEF TrackerNext

\* The other steps change the ledger at most by one row, that of an event
\* no row stands for yet.
LEMMA LedgerStep == LedgerInv /\ [Next]_vars => LedgerInv'
<1> SUFFICES ASSUME LedgerInv, [Next]_vars PROVE LedgerInv'
  OBVIOUS
<1> USE UsageLedgerAssumption
<1>1. ASSUME UNCHANGED <<tracker, relayed, slices, ledger>>,
             net' \subseteq net, today' \in Days
      PROVE  LedgerInv'
  BY <1>1 DEF LedgerInv, TrackerTypeOK, NumbersFresh, RowsAreSlices, IsSlice
<1>2. CASE TrackerNext /\ UNCHANGED ledgerVars
  BY <1>2, TrackerStep
<1>3. ASSUME NEW e \in net, Ingest(e)
      PROVE  LedgerInv'
  <2>1. /\ ledger' = ledger \cup {Row(e)}
        /\ UNCHANGED <<tracker, relayed, slices, net, today>>
        /\ \A r \in ledger : ~(r.conn = e.conn /\ r.seq = e.seq)
    BY <1>3 DEF Ingest, Stored, trackerVars
  <2>2. e \in Events /\ IsSlice(e)
    BY DEF LedgerInv, TrackerTypeOK
  <2>3. Row(e) \in Rows
    BY <2>2 DEF Row, Rows, Events, LedgerInv
  <2>4. Row(e).conn = e.conn /\ Row(e).seq = e.seq /\ Row(e).bytes = e.bytes
    BY DEF Row
  <2>5. \A r \in ledger' : IsSlice(r)'
    BY <2>1, <2>2, <2>4 DEF IsSlice, LedgerInv, RowsAreSlices
  <2>6. \A r, s \in ledger' : r.conn = s.conn /\ r.seq = s.seq => r = s
    BY <2>1, <2>4 DEF LedgerInv, RowsAreSlices
  <2>7. RowsAreSlices'
    BY <2>5, <2>6 DEF RowsAreSlices, IsSlice
  <2> QED
    BY <2>1, <2>3, <2>7 DEF LedgerInv, TrackerTypeOK, NumbersFresh, IsSlice
<1>4. ASSUME NEW e \in net, DropDuplicate(e)
      PROVE  LedgerInv'
  BY <1>1, <1>4 DEF DropDuplicate, LedgerInv
<1>5. CASE NextDay
  BY <1>1, <1>5 DEF NextDay, trackerVars, LedgerInv, Days
<1>6. CASE Reconcile
  BY <1>1, <1>6
  DEF Reconcile, BeginPass, ReadRow, CommitPass, trackerVars, LedgerInv
<1>7. CASE FailPass
  BY <1>1, <1>7 DEF FailPass, trackerVars, LedgerInv
<1>8. ASSUME NEW d \in Days, Drift(d)
      PROVE  LedgerInv'
  BY <1>1, <1>8 DEF Drift, trackerVars, LedgerInv
<1>9. CASE UNCHANGED vars
  BY <1>1, <1>9 DEF vars, LedgerInv
<1> QED
  BY <1>2, <1>3, <1>4, <1>5, <1>6, <1>7, <1>8, <1>9 DEF Next

\* However events are lost, repeated, delayed or reordered, whenever trackers
\* close or isolates are evicted, and whatever the reconciliation does, every
\* row of usage_events is one slice of one tracker, and no slice has two.
THEOREM RowsAlwaysSlices == Spec => []RowsAreSlices
<1>1. Init => LedgerInv
  BY LedgerInvInit
<1>2. LedgerInv /\ [Next]_vars => LedgerInv'
  BY LedgerStep
<1>3. LedgerInv => RowsAreSlices
  BY DEF LedgerInv
<1> QED
  BY <1>1, <1>2, <1>3, PTL DEF Spec

----------------------------------------------------------------------------
(* What rows and slices add up to.                                         *)

\* A row that was not there adds its bytes.
LEMMA RowAdds ==
    ASSUME NEW rows, IsFiniteSet(Units(rows)), NEW r, r \notin rows, r.bytes \in Nat
    PROVE  /\ IsFiniteSet(Units(rows \cup {r}))
           /\ Bytes(rows) \in Nat
           /\ Bytes(rows \cup {r}) = Bytes(rows) + r.bytes
<1> DEFINE U == {r} \X (1..r.bytes)
<1>1. IsFiniteSet(1..r.bytes) /\ Cardinality(1..r.bytes) = r.bytes
  BY FS_Interval
<1>2. IsFiniteSet({r}) /\ Cardinality({r}) = 1
  BY FS_Singleton
<1>3. IsFiniteSet(U) /\ Cardinality(U) = r.bytes
  <2>1. /\ IsFiniteSet(U)
        /\ Cardinality(U) = Cardinality({r}) * Cardinality(1..r.bytes)
    BY <1>1, <1>2, FS_Product, Zenon
  <2> QED
    BY <1>1, <1>2, <2>1
<1>4. Units(rows \cup {r}) = Units(rows) \cup U
  BY DEF Units
<1>5. Units(rows) \cap U = {}
  BY DEF Units
<1>6. Cardinality(Units(rows)) \in Nat
  BY FS_CardinalityType
<1> HIDE DEF U
<1>7. /\ IsFiniteSet(Units(rows) \cup U)
      /\ Cardinality(Units(rows) \cup U) =
             Cardinality(Units(rows)) + Cardinality(U) - Cardinality(Units(rows) \cap U)
  BY <1>3, FS_Union
<1>8. Cardinality(Units(rows) \cap U) = 0
  BY <1>5, FS_EmptySet
<1>9. Cardinality(Units(rows) \cup U) = Cardinality(Units(rows)) + r.bytes
  BY <1>3, <1>6, <1>7, <1>8
<1> QED
  BY <1>4, <1>6, <1>7, <1>9, Zenon DEF Bytes

\* Fewer rows, fewer bytes.
LEMMA FewerRows ==
    ASSUME NEW T, IsFiniteSet(Units(T)), NEW S \in SUBSET T
    PROVE  /\ IsFiniteSet(Units(S))
           /\ Bytes(S) \in Nat /\ Bytes(T) \in Nat
           /\ Bytes(S) <= Bytes(T)
<1>1. Units(S) \in SUBSET Units(T)
  BY DEF Units
<1> QED
  BY <1>1, FS_Subset, FS_CardinalityType DEF Bytes

\* The units of a history of slices, each known by the slice's number.
SliceUnits(h) == UNION {{n} \X (1..h[n]) : n \in DOMAIN h}
Sliced(h) == Cardinality(SliceUnits(h))

LEMMA SliceAdds ==
    ASSUME NEW h \in Seq(Nat), NEW b \in Nat, IsFiniteSet(SliceUnits(h))
    PROVE  /\ IsFiniteSet(SliceUnits(Append(h, b)))
           /\ Sliced(h) \in Nat
           /\ Sliced(Append(h, b)) = Sliced(h) + b
<1> DEFINE n == Len(h) + 1
           U == {n} \X (1..b)
<1>1. IsFiniteSet(1..b) /\ Cardinality(1..b) = b
  BY FS_Interval
<1>2. IsFiniteSet({n}) /\ Cardinality({n}) = 1
  BY FS_Singleton
<1>3. IsFiniteSet(U) /\ Cardinality(U) = b
  <2>1. /\ IsFiniteSet(U)
        /\ Cardinality(U) = Cardinality({n}) * Cardinality(1..b)
    BY <1>1, <1>2, FS_Product, Zenon
  <2> QED
    BY <1>1, <1>2, <2>1
<1>4. /\ DOMAIN Append(h, b) = DOMAIN h \cup {n}
      /\ n \notin DOMAIN h
      /\ Append(h, b)[n] = b
      /\ \A i \in DOMAIN h : Append(h, b)[i] = h[i]
  OBVIOUS
<1> HIDE DEF n
<1>5. SliceUnits(Append(h, b)) = SliceUnits(h) \cup U
  BY <1>4 DEF SliceUnits
<1>6. SliceUnits(h) \cap U = {}
  BY <1>4 DEF SliceUnits
<1>7. Cardinality(SliceUnits(h)) \in Nat
  BY FS_CardinalityType
<1> HIDE DEF U
<1>8. /\ IsFiniteSet(SliceUnits(h) \cup U)
      /\ Cardinality(SliceUnits(h) \cup U) =
             Cardinality(SliceUnits(h)) + Cardinality(U) - Cardinality(SliceUnits(h) \cap U)
  BY <1>3, FS_Union
<1>9. Cardinality(SliceUnits(h) \cap U) = 0
  BY <1>6, FS_EmptySet
<1> QED
  BY <1>3, <1>5, <1>6, <1>7, <1>8, <1>9 DEF Sliced

\* Rows that are slices of one connection, each another one, add up to no
\* more than its slices do: their units are units of the slices.
LEMMA RowsWithinSlices ==
    ASSUME NEW rows, NEW h, IsFiniteSet(SliceUnits(h)),
           \A r \in rows : r.seq \in DOMAIN h /\ r.bytes = h[r.seq],
           \A r, s \in rows : r.seq = s.seq => r = s
    PROVE  Bytes(rows) <= Sliced(h) /\ Bytes(rows) \in Nat
<1> DEFINE f == [u \in Units(rows) |-> <<u[1].seq, u[2]>>]
<1>1. ASSUME NEW u \in Units(rows)
      PROVE  \E r \in rows : \E i \in 1..r.bytes : u = <<r, i>>
  BY DEF Units
<1>2. f \in [Units(rows) -> SliceUnits(h)]
  <2> SUFFICES ASSUME NEW u \in Units(rows) PROVE <<u[1].seq, u[2]>> \in SliceUnits(h)
    OBVIOUS
  <2>1. PICK r \in rows : \E i \in 1..r.bytes : u = <<r, i>>
    BY <1>1
  <2> QED
    BY <2>1 DEF SliceUnits
<1>3. ASSUME NEW u \in Units(rows), NEW v \in Units(rows), f[u] = f[v]
      PROVE  u = v
  <2>1. PICK r \in rows : \E i \in 1..r.bytes : u = <<r, i>>
    BY <1>1
  <2>2. PICK s \in rows : \E i \in 1..s.bytes : v = <<s, i>>
    BY <1>1
  <2> QED
    BY <1>3, <2>1, <2>2
<1>4. f \in Injection(Units(rows), SliceUnits(h))
  BY <1>2, <1>3 DEF Injection, IsInjective
<1> QED
  BY <1>4, FS_Injection, FS_CardinalityType DEF Bytes, Sliced

----------------------------------------------------------------------------
(* Nobody is billed for more than was relayed.                             *)

\* What a tracker cut off and what it holds is within what was relayed; what
\* an evicted isolate held, or was relayed past a closed tracker, is lost.
Within(c) ==
    /\ IsFiniteSet(SliceUnits(slices[c]))
    /\ Sliced(slices[c]) + tracker[c].pending <= relayed[c]
SlicesWithin == \A c \in Connections : Within(c)

\* A step of one connection's tracker that relays `more` and leaves `left`
\* pending, without a cut.
LEMMA HeldWithin ==
    ASSUME LedgerInv, SlicesWithin, NEW c \in Connections,
           NEW more \in {0, 1}, NEW left \in 0..(tracker[c].pending + more),
           \A d \in Connections \ {c} :
               tracker'[d] = tracker[d] /\ relayed'[d] = relayed[d],
           tracker'[c].pending = left, relayed'[c] = relayed[c] + more,
           slices' = slices
    PROVE  SlicesWithin'
<1> SUFFICES ASSUME NEW d \in Connections PROVE Within(d)'
  BY DEF SlicesWithin
<1>1. Sliced(slices[d]) \in Nat /\ tracker[d].pending \in Nat /\ relayed[d] \in Nat
  BY FS_CardinalityType DEF SlicesWithin, Within, Sliced, LedgerInv, TrackerTypeOK, Trackers
<1>2. Within(d)
  BY DEF SlicesWithin
<1>3. CASE d = c
  BY <1>1, <1>2, <1>3 DEF Within
<1>4. CASE d # c
  BY <1>2, <1>4 DEF Within
<1> QED
  BY <1>3, <1>4

\* A cut of what was pending, with `more` that was just relayed.
LEMMA CutWithin ==
    ASSUME LedgerInv, SlicesWithin, NEW c \in Connections,
           NEW more \in {0, 1}, NEW b \in Nat, b = tracker[c].pending + more,
           NEW closed \in BOOLEAN, CutSlice(c, b, closed),
           \A d \in Connections \ {c} : relayed'[d] = relayed[d],
           relayed'[c] = relayed[c] + more
    PROVE  SlicesWithin'
<1>1. /\ tracker[c].pending \in Nat
      /\ slices[c] \in Seq(Nat) /\ relayed[c] \in Nat
  BY DEF LedgerInv, TrackerTypeOK, Trackers
<1>2. /\ tracker'[c].pending = 0
      /\ slices'[c] = Append(slices[c], b)
      /\ \A d \in Connections \ {c} : tracker'[d] = tracker[d] /\ slices'[d] = slices[d]
  BY DEF CutSlice, LedgerInv, TrackerTypeOK
<1> SUFFICES ASSUME NEW d \in Connections PROVE Within(d)'
  BY DEF SlicesWithin
<1>3. Within(d)
  BY DEF SlicesWithin
<1>4. CASE d = c
  <2>1. /\ IsFiniteSet(SliceUnits(Append(slices[c], b)))
        /\ Sliced(slices[c]) \in Nat
        /\ Sliced(Append(slices[c], b)) = Sliced(slices[c]) + b
    BY <1>1, <1>3, <1>4, SliceAdds DEF Within
  <2>2. Sliced(Append(slices[c], b)) + 0 <= relayed[c] + more
    BY <1>1, <1>3, <1>4, <2>1 DEF Within
  <2>3. /\ slices'[d] = Append(slices[c], b)
        /\ tracker'[d].pending = 0
        /\ relayed'[d] = relayed[c] + more
    BY <1>2, <1>4
  <2> QED
    BY <2>1, <2>2, <2>3 DEF Within
<1>5. CASE d # c
  BY <1>2, <1>3, <1>5 DEF Within
<1> QED
  BY <1>4, <1>5

LEMMA SlicesWithinStep ==
    ASSUME LedgerInv, SlicesWithin, [Next]_vars
    PROVE  SlicesWithin'
<1>1. ASSUME UNCHANGED <<tracker, relayed, slices>>
      PROVE  SlicesWithin'
  BY <1>1 DEF SlicesWithin, Within
<1>2. ASSUME NEW c \in Connections
      PROVE  tracker[c] \in Trackers /\ tracker[c].pending \in Nat /\ relayed[c] \in Nat
  BY DEF LedgerInv, TrackerTypeOK, Trackers
<1>3. ASSUME NEW c \in Connections, Relay(c)
      PROVE  /\ relayed'[c] = relayed[c] + 1
             /\ \A d \in Connections \ {c} : relayed'[d] = relayed[d]
  BY <1>3 DEF Relay, LedgerInv, TrackerTypeOK
<1>4. ASSUME NEW c \in Connections, Track(c)
      PROVE  SlicesWithin'
  <2>1. /\ tracker'[c].pending = tracker[c].pending + 1
        /\ \A d \in Connections \ {c} : tracker'[d] = tracker[d]
    BY <1>4 DEF Track, LedgerInv, TrackerTypeOK, Trackers
  <2> QED
    BY <1>2, <1>3, <1>4, <2>1, HeldWithin DEF Track
<1>5. ASSUME NEW c \in Connections, TrackAndFlush(c)
      PROVE  SlicesWithin'
  <2>1. CutSlice(c, tracker[c].pending + 1, FALSE) /\ Relay(c)
    BY <1>5 DEF TrackAndFlush
  <2>2. tracker[c].pending + 1 \in Nat
    BY <1>2
  <2> QED
    BY <1>3, <2>1, <2>2, CutWithin
<1>6. ASSUME NEW c \in Connections, TrackClosed(c)
      PROVE  SlicesWithin'
  BY <1>2, <1>3, <1>6, HeldWithin DEF TrackClosed
<1>7. ASSUME NEW c \in Connections, Close(c)
      PROVE  SlicesWithin'
  <2>1. CASE tracker[c].pending = 0 \/ tracker[c].flushing
    <3>1. /\ tracker'[c].pending = tracker[c].pending
          /\ \A d \in Connections \ {c} : tracker'[d] = tracker[d]
      BY <1>7, <2>1 DEF Close, LedgerInv, TrackerTypeOK, Trackers
    <3>2. /\ relayed'[c] = relayed[c] + 0
          /\ tracker[c].pending \in 0..(tracker[c].pending + 0)
          /\ relayed' = relayed /\ slices' = slices
      <4>1. relayed' = relayed /\ slices' = slices
        BY <1>7, <2>1 DEF Close
      <4> QED
        BY <1>2, <4>1
    <3> QED
      BY <3>1, <3>2, HeldWithin
  <2>2. CASE ~(tracker[c].pending = 0 \/ tracker[c].flushing)
    <3>1. CutSlice(c, tracker[c].pending, TRUE) /\ relayed' = relayed
      BY <1>7, <2>2 DEF Close
    <3>2. tracker[c].pending = tracker[c].pending + 0 /\ relayed[c] = relayed[c] + 0
      BY <1>2
    <3> QED
      BY <1>2, <3>1, <3>2, CutWithin
  <2> QED
    BY <2>1, <2>2
<1>8. ASSUME NEW c \in Connections, FlushEnds(c) \/ Evict(c)
      PROVE  SlicesWithin'
  <2>1. /\ tracker'[c].pending \in {0, tracker[c].pending}
        /\ \A d \in Connections \ {c} : tracker'[d] = tracker[d]
    BY <1>8 DEF FlushEnds, Evict, LedgerInv, TrackerTypeOK, Trackers
  <2> QED
    BY <1>2, <1>8, <2>1, HeldWithin DEF FlushEnds, Evict
<1>9. CASE TrackerNext /\ UNCHANGED ledgerVars
  BY <1>1, <1>4, <1>5, <1>6, <1>7, <1>8, <1>9 DEF TrackerNext, Lose
<1>10. CASE ~(TrackerNext /\ UNCHANGED ledgerVars)
  BY <1>1, <1>10
  DEF Next, vars, trackerVars, Ingest, DropDuplicate, NextDay, Reconcile,
      BeginPass, ReadRow, CommitPass, FailPass, Drift
<1> QED
  BY <1>9, <1>10

LEMMA SlicesWithinInit == Init => SlicesWithin
<1> SUFFICES ASSUME Init, NEW c \in Connections PROVE Within(c)
  BY DEF SlicesWithin
<1>1. slices[c] = <<>> /\ tracker[c].pending = 0 /\ relayed[c] = 0
  BY DEF Init, TrackerInit
<1>2. SliceUnits(<<>>) = {}
  BY DEF SliceUnits
<1>3. IsFiniteSet(SliceUnits(slices[c])) /\ Sliced(slices[c]) = 0
  BY <1>1, <1>2, FS_EmptySet DEF Sliced
<1> QED
  BY <1>1, <1>3 DEF Within

LEMMA Billed ==
    ASSUME LedgerInv, SlicesWithin, NEW c \in Connections
    PROVE  /\ Bytes({r \in ledger : r.conn = c}) \in Nat
           /\ tracker[c].pending \in Nat /\ relayed[c] \in Nat
           /\ Bytes({r \in ledger : r.conn = c}) + tracker[c].pending <= relayed[c]
<1> DEFINE rows == {r \in ledger : r.conn = c}
<1>1. Within(c)
  BY DEF SlicesWithin
<1>2. /\ \A r \in rows : r.seq \in DOMAIN slices[c] /\ r.bytes = slices[c][r.seq]
      /\ \A r, s \in rows : r.seq = s.seq => r = s
  BY DEF LedgerInv, RowsAreSlices
<1> HIDE DEF rows
<1>3. Bytes(rows) <= Sliced(slices[c]) /\ Bytes(rows) \in Nat
  BY <1>1, <1>2, RowsWithinSlices DEF Within
<1>4. Sliced(slices[c]) \in Nat /\ tracker[c].pending \in Nat /\ relayed[c] \in Nat
  BY <1>1, FS_CardinalityType DEF Within, Sliced, LedgerInv, TrackerTypeOK, Trackers
<1> QED
  BY <1>1, <1>3, <1>4 DEF Within, rows

LEMMA BilledWithin == LedgerInv /\ SlicesWithin => NeverOverbilled
  BY Billed DEF NeverOverbilled

LEMMA BilledAlways == Spec => [](LedgerInv /\ SlicesWithin)
<1>1. Init => LedgerInv /\ SlicesWithin
  BY LedgerInvInit, SlicesWithinInit
<1>2. LedgerInv /\ SlicesWithin /\ [Next]_vars => (LedgerInv /\ SlicesWithin)'
  BY LedgerStep, SlicesWithinStep
<1> QED
  BY <1>1, <1>2, PTL DEF Spec

\* A customer is never billed more than was relayed: what the ledger holds of
\* a connection and what its tracker still counts is within its traffic,
\* however often an event is posted, lost or late, for any number of
\* connections and any threshold.
THEOREM NobodyOverbilled == Spec => []NeverOverbilled
  BY BilledWithin, BilledAlways, PTL

----------------------------------------------------------------------------
(* The aggregates, which a pass may write from sums that are stale.        *)

\* The sums a pass holds are of rows that are still there, as the ledger only
\* grows: AggregateWithinLedger is inductive with that.
AggregateInv ==
    /\ TypeOK
    /\ IsFiniteSet(Units(ledger))
    /\ \A d \in Days : pass.truth[d] <= Bytes(LedgerOf(d))
    /\ AggregateWithinLedger

LEMMA LedgerOfAdds ==
    ASSUME IsFiniteSet(Units(ledger)), NEW d \in Days
    PROVE  IsFiniteSet(Units(LedgerOf(d))) /\ Bytes(LedgerOf(d)) \in Nat
<1>1. LedgerOf(d) \in SUBSET ledger
  BY DEF LedgerOf
<1> QED
  BY <1>1, FewerRows

LEMMA AggregateInit == Init => AggregateInv
<1> SUFFICES ASSUME Init PROVE AggregateInv
  OBVIOUS
<1> USE UsageTrackerAssumption, UsageLedgerAssumption
<1>1. TypeOK
  <2>1. TrackerTypeOK
    BY LedgerInvInit DEF LedgerInv
  <2> QED
    BY <2>1 DEF Init, TypeOK, Rows, Days, Resting
<1>2. IsFiniteSet(Units(ledger))
  <2>1. Units(ledger) = {}
    BY DEF Init, Units
  <2> QED
    BY <2>1, FS_EmptySet
<1>3. ASSUME NEW d \in Days
      PROVE  pass.truth[d] <= Bytes(LedgerOf(d))
  <2>1. pass.truth[d] = 0
    BY DEF Init, Resting
  <2> QED
    BY <1>2, <2>1, LedgerOfAdds
<1>4. AggregateWithinLedger
  BY DEF Init, AggregateWithinLedger
<1> QED
  BY <1>1, <1>2, <1>3, <1>4 DEF AggregateInv

\* Ingest: the trigger adds to the aggregate of the day what the row adds to
\* the ledger of the day.
LEMMA IngestAggregates ==
    ASSUME LedgerInv, AggregateInv, NEW e \in net, Ingest(e)
    PROVE  AggregateInv'
<1> USE UsageLedgerAssumption
<1> DEFINE r == Row(e)
<1>1. /\ ledger' = ledger \cup {r}
      /\ agg' = [agg EXCEPT ![today] = IF @ = None THEN e.bytes ELSE @ + e.bytes]
      /\ UNCHANGED <<today, pass, faults, tracker, relayed, slices, net>>
      /\ \A s \in ledger : ~(s.conn = e.conn /\ s.seq = e.seq)
  BY DEF Ingest, Aggregate, Stored, trackerVars
<1>2. /\ r \in Rows /\ r \notin ledger
      /\ r.bytes = e.bytes /\ e.bytes \in Nat /\ r.day = today /\ today \in Days
  <2>1. e \in Events /\ today \in Days
    BY DEF LedgerInv, TrackerTypeOK
  <2> QED
    BY <1>1, <2>1 DEF Row, Rows, Events
<1> HIDE DEF r
<1>3. TypeOK'
  <2>1. agg' \in [Days -> Nat \cup {None}]
    BY <1>1, <1>2 DEF AggregateInv, TypeOK
  <2> QED
    BY <1>1, <1>2, <2>1 DEF AggregateInv, TypeOK, TrackerTypeOK
<1>4. IsFiniteSet(Units(ledger)) /\ IsFiniteSet(Units(ledger'))
  BY <1>1, <1>2, RowAdds DEF AggregateInv
<1>5. ASSUME NEW d \in Days
      PROVE  /\ Bytes(LedgerOf(d))' \in Nat /\ Bytes(LedgerOf(d)) \in Nat
             /\ Bytes(LedgerOf(d))' =
                    Bytes(LedgerOf(d)) + (IF d = today THEN e.bytes ELSE 0)
  <2>1. IsFiniteSet(Units(LedgerOf(d))) /\ Bytes(LedgerOf(d)) \in Nat
    BY <1>4, LedgerOfAdds
  <2>2. CASE d = today
    <3>1. LedgerOf(d)' = LedgerOf(d) \cup {r} /\ r \notin LedgerOf(d)
      BY <1>1, <1>2, <2>2 DEF LedgerOf
    <3>2. Bytes(LedgerOf(d) \cup {r}) = Bytes(LedgerOf(d)) + r.bytes
      BY <1>2, <2>1, <3>1, RowAdds
    <3>3. Bytes(LedgerOf(d))' = Bytes(LedgerOf(d) \cup {r})
      BY <3>1 DEF Bytes, Units
    <3> QED
      BY <1>2, <2>1, <2>2, <3>2, <3>3
  <2>3. CASE d # today
    <3>1. LedgerOf(d)' = LedgerOf(d)
      BY <1>1, <1>2, <2>3 DEF LedgerOf
    <3>2. Bytes(LedgerOf(d))' = Bytes(LedgerOf(d))
      BY <3>1 DEF Bytes, Units
    <3> QED
      BY <2>1, <2>3, <3>2
  <2> QED
    BY <2>2, <2>3
<1>6. ASSUME NEW d \in Days
      PROVE  (pass.truth[d] <= Bytes(LedgerOf(d)))'
  BY <1>1, <1>2, <1>5 DEF AggregateInv, TypeOK
<1>7. AggregateWithinLedger'
  <2> SUFFICES ASSUME faults = 0, NEW d \in Days, agg'[d] # None
               PROVE  agg'[d] <= Bytes(LedgerOf(d))'
    BY <1>1 DEF AggregateWithinLedger
  <2>1. agg[d] # None => agg[d] <= Bytes(LedgerOf(d)) /\ agg[d] \in Nat
    BY DEF AggregateInv, AggregateWithinLedger, TypeOK
  <2>2. agg'[d] = IF d # today THEN agg[d]
                  ELSE IF agg[d] = None THEN e.bytes ELSE agg[d] + e.bytes
    BY <1>1 DEF AggregateInv, TypeOK
  <2> QED
    BY <1>2, <1>5, <2>1, <2>2
<1> QED
  BY <1>3, <1>4, <1>6, <1>7 DEF AggregateInv

LEMMA AggregateStep ==
    ASSUME LedgerInv, LedgerInv', AggregateInv, [Next]_vars
    PROVE  AggregateInv'
<1> USE UsageLedgerAssumption
<1>1. /\ faults \in Nat
      /\ \A d \in Days : pass.truth[d] \in Nat /\ Bytes(LedgerOf(d)) \in Nat
  BY LedgerOfAdds DEF AggregateInv, TypeOK
<1>2. ASSUME ledger' = ledger
      PROVE  /\ Units(ledger)' = Units(ledger)
             /\ \A d \in Days : Bytes(LedgerOf(d))' = Bytes(LedgerOf(d))
  BY <1>2 DEF Bytes, Units, LedgerOf
<1>3. TrackerTypeOK' /\ (ledger \subseteq Rows)' /\ (today \in Days)'
  BY DEF LedgerInv
<1>4. ASSUME ledger' = ledger, agg' = agg, pass' = pass, faults' = faults
      PROVE  AggregateInv'
  BY <1>2, <1>3, <1>4 DEF AggregateInv, TypeOK, AggregateWithinLedger
<1>5. ASSUME NEW e \in net, Ingest(e)
      PROVE  AggregateInv'
  BY <1>5, IngestAggregates
<1>6. CASE BeginPass
  <2>1. /\ pass'.truth = [d \in Days |-> Bytes(LedgerOf(d))]
        /\ pass' \in [running : BOOLEAN, truth : [Days -> Nat],
                      unread : SUBSET Days, seen : [Days -> Nat \cup {None}]]
        /\ ledger' = ledger /\ agg' = agg /\ faults' = faults
    BY <1>1, <1>6 DEF BeginPass
  <2> QED
    BY <1>1, <1>2, <1>3, <2>1 DEF AggregateInv, TypeOK, AggregateWithinLedger
<1>7. ASSUME NEW d \in Days, ReadRow(d)
      PROVE  AggregateInv'
  <2>1. /\ pass'.truth = pass.truth
        /\ pass' \in [running : BOOLEAN, truth : [Days -> Nat],
                      unread : SUBSET Days, seen : [Days -> Nat \cup {None}]]
        /\ ledger' = ledger /\ agg' = agg /\ faults' = faults
    BY <1>7 DEF ReadRow, AggregateInv, TypeOK
  <2> QED
    BY <1>2, <1>3, <2>1 DEF AggregateInv, TypeOK, AggregateWithinLedger
<1>8. Resting \in [running : BOOLEAN, truth : [Days -> Nat],
                   unread : SUBSET Days, seen : [Days -> Nat \cup {None}]]
      /\ \A d \in Days : Resting.truth[d] = 0
  BY DEF Resting
<1>9. CASE CommitPass
  <2>1. \A d \in Days : agg'[d] \in {agg[d], pass.truth[d]}
    BY <1>9 DEF CommitPass
  <2>2. agg' \in [Days -> Nat \cup {None}]
    BY <1>1, <1>9 DEF CommitPass, AggregateInv, TypeOK
  <2>3. ledger' = ledger /\ pass' = Resting /\ faults' = faults
    BY <1>9 DEF CommitPass
  <2>4. AggregateWithinLedger'
    BY <1>1, <1>2, <2>1, <2>3 DEF AggregateInv, AggregateWithinLedger
  <2> QED
    BY <1>1, <1>2, <1>3, <1>8, <2>2, <2>3, <2>4 DEF AggregateInv, TypeOK
<1>10. CASE FailPass
  <2>1. /\ ledger' = ledger /\ agg' = agg /\ pass' = Resting
        /\ faults' \in 0..MaxFaults /\ faults' # 0
    BY <1>1, <1>10 DEF FailPass
  <2> QED
    BY <1>1, <1>2, <1>3, <1>8, <2>1 DEF AggregateInv, TypeOK, AggregateWithinLedger
<1>11. ASSUME NEW d \in Days, Drift(d)
       PROVE  AggregateInv'
  <2>1. /\ ledger' = ledger /\ pass' = pass
        /\ faults' \in 0..MaxFaults /\ faults' # 0
    BY <1>1, <1>11 DEF Drift
  <2>2. agg' \in [Days -> Nat \cup {None}]
    BY <1>11, UsageTrackerAssumption DEF Drift, AggregateInv, TypeOK
  <2> QED
    BY <1>2, <1>3, <2>1, <2>2 DEF AggregateInv, TypeOK, AggregateWithinLedger
<1> QED
  BY <1>4, <1>5, <1>6, <1>7, <1>9, <1>10, <1>11
  DEF Next, vars, ledgerVars, DropDuplicate, NextDay, Reconcile

\* Types of the trackers, the ledger, the aggregates and the pass.
THEOREM LedgerTyped == Spec => []TypeOK
<1>1. Init => LedgerInv /\ AggregateInv
  BY LedgerInvInit, AggregateInit
<1>2. LedgerInv /\ AggregateInv /\ [Next]_vars => (LedgerInv /\ AggregateInv)'
  BY LedgerStep, AggregateStep
<1>3. AggregateInv => TypeOK
  BY DEF AggregateInv
<1> QED
  BY <1>1, <1>2, <1>3, PTL DEF Spec

\* Without drift by hand no day's aggregate exceeds its ledger, although the
\* trigger adds to it while a pass holds sums and rows it read before.
THEOREM AggregateNeverAhead == Spec => []AggregateWithinLedger
<1>1. Init => LedgerInv /\ AggregateInv
  BY LedgerInvInit, AggregateInit
<1>2. LedgerInv /\ AggregateInv /\ [Next]_vars => (LedgerInv /\ AggregateInv)'
  BY LedgerStep, AggregateStep
<1>3. AggregateInv => AggregateWithinLedger
  BY DEF AggregateInv
<1> QED
  BY <1>1, <1>2, <1>3, PTL DEF Spec
----------------------------------------------------------------------------
(* The meter that trackers, network, ingest and ledger implement.          *)

LEMMA MeterStep ==
    ASSUME LedgerInv, SlicesWithin, AggregateInv, [Next]_vars
    PROVE  [Meter!Next]_(Meter!vars)
<1> DEFINE RowsOf(c) == {r \in ledger : r.conn = c}
           bill == [c \in Connections |-> Bytes(RowsOf(c))]
<1>1. NeverOverbilled'
  BY LedgerStep, SlicesWithinStep, BilledWithin, PTL
<1>2. ASSUME ledger' = ledger
      PROVE  bill' = bill
  BY <1>2 DEF Bytes, Units
<1>3. CASE ledger' = ledger /\ relayed' = relayed
  BY <1>2, <1>3 DEF Meter!vars
<1>4. ASSUME NEW c \in Connections, Relay(c), ledger' = ledger
      PROVE  Meter!Next
  BY <1>2, <1>4 DEF Relay, Meter!Next, Meter!Relay
<1>5. ASSUME NEW e \in net, Ingest(e)
      PROVE  Meter!Next
  <2> DEFINE c == e.conn
             r == Row(e)
  <2>1. /\ ledger' = ledger \cup {r} /\ r \notin ledger
        /\ relayed' = relayed /\ tracker' = tracker
        /\ e \in Events /\ r.conn = c /\ r.bytes = e.bytes
    BY <1>5 DEF Ingest, Stored, Row, trackerVars, LedgerInv, TrackerTypeOK
  <2>2. c \in Connections /\ e.bytes \in Nat
    BY <2>1 DEF Events
  <2> HIDE DEF r, c
  <2>3. IsFiniteSet(Units(RowsOf(c)))
    <3>1. RowsOf(c) \in SUBSET ledger
      OBVIOUS
    <3> QED
      BY <3>1, FewerRows DEF AggregateInv
  <2>4. RowsOf(c)' = RowsOf(c) \cup {r} /\ r \notin RowsOf(c)
    BY <2>1
  <2>5. Bytes(RowsOf(c) \cup {r}) = Bytes(RowsOf(c)) + e.bytes
    BY <2>1, <2>2, <2>3, <2>4, RowAdds
  <2>6. Bytes(RowsOf(c))' = Bytes(RowsOf(c)) + e.bytes
    <3>1. Bytes(RowsOf(c))' = Bytes(RowsOf(c) \cup {r})
      BY <2>4 DEF Bytes, Units
    <3> QED
      BY <2>5, <3>1
  <2>7. Bytes(RowsOf(c)) \in Nat
    BY <2>2, Billed
  <2>8. Bytes(RowsOf(c))' <= relayed[c] /\ relayed[c] \in Nat
    <3>1. /\ Bytes(RowsOf(c))' + tracker[c].pending <= relayed[c]
          /\ tracker[c].pending \in Nat /\ relayed[c] \in Nat
      BY <1>1, <2>1, <2>2, Billed DEF NeverOverbilled
    <3>2. Bytes(RowsOf(c))' \in Nat
      BY <2>2, <2>6, <2>7
    <3> QED
      BY <3>1, <3>2
  <2>9. Bytes(RowsOf(c))' \in bill[c]..relayed[c]
    BY <2>2, <2>6, <2>7, <2>8
  <2>10. ASSUME NEW d \in Connections, d # c
         PROVE  Bytes(RowsOf(d))' = Bytes(RowsOf(d))
    <3>1. RowsOf(d)' = RowsOf(d)
      BY <2>1, <2>10
    <3> QED
      BY <3>1 DEF Bytes, Units
  <2>11. bill' = [bill EXCEPT ![c] = Bytes(RowsOf(c))']
    BY <2>2, <2>10
  <2>12. Meter!Charge(c)
    BY <2>1, <2>9, <2>11 DEF Meter!Charge
  <2> QED
    BY <2>2, <2>12 DEF Meter!Next
<1>6. CASE TrackerNext /\ UNCHANGED ledgerVars
  BY <1>3, <1>4, <1>6
  DEF TrackerNext, ledgerVars, Track, TrackAndFlush, TrackClosed, Close, FlushEnds, Evict,
      Lose, CutSlice
<1> QED
  BY <1>3, <1>5, <1>6
  DEF Next, vars, trackerVars, DropDuplicate, NextDay, Reconcile, BeginPass, ReadRow,
      CommitPass, FailPass, Drift

\* Whatever is lost, repeated, late or evicted, what the ledger bills for a
\* connection only grows, and never beyond what the connection relayed.
THEOREM BillsOnce == Spec => BilledOnce
<1>1. Init => Meter!Init
  <2> SUFFICES ASSUME Init PROVE Meter!Init
    OBVIOUS
  <2>1. ASSUME NEW c \in Connections
        PROVE  Bytes({r \in ledger : r.conn = c}) = 0
    <3>1. Units({r \in ledger : r.conn = c}) = {}
      BY DEF Init, Units
    <3> QED
      BY <3>1, FS_EmptySet DEF Bytes
  <2> QED
    BY <2>1 DEF Init, TrackerInit, Meter!Init
<1>2. Init => LedgerInv /\ SlicesWithin /\ AggregateInv
  BY LedgerInvInit, SlicesWithinInit, AggregateInit
<1>3. LedgerInv /\ SlicesWithin /\ AggregateInv /\ [Next]_vars
          => (LedgerInv /\ SlicesWithin /\ AggregateInv)'
  BY LedgerStep, SlicesWithinStep, AggregateStep
<1> QED
  BY <1>1, <1>2, <1>3, MeterStep, PTL DEF Spec, BilledOnce, Meter!Spec

----------------------------------------------------------------------------
(* The composition.                                                        *)

\* Both instances of the relay define the same behaviour.
LEMMA SameRelay ==
    /\ Conn!RelayAssumption <=> ConnProofs!RelayAssumption
    /\ Conn!Init <=> ConnProofs!Init
    /\ [Conn!Next]_(Conn!vars) <=> [ConnProofs!Next]_(ConnProofs!vars)
    /\ Conn!TypeOK <=> ConnProofs!TypeOK
    /\ Conn!OneReplyStream <=> ConnProofs!OneReplyStream
    /\ Conn!CountedAsEmitted <=> ConnProofs!CountedAsEmitted
  BY DEF
      Conn!Sockets, Conn!Chunks, Conn!vars, Conn!RelayAssumption, Conn!TypeOK,
      Conn!Init, Conn!Count, Conn!Emit, Conn!Dial, Conn!Closed, Conn!Finalize,
      Conn!ClientSends, Conn!ClientCloses, Conn!Ready, Conn!HandleTCPOutBound,
      Conn!WriteChunk, Conn!WriteRefused, Conn!ChunkWritten, Conn!WriteFails,
      Conn!SinkCloses, Conn!StreamErrors, Conn!Dialed, Conn!DialFails,
      Conn!HasIncomingData, Conn!ReplyArrives, Conn!ReplyUndeliverable,
      Conn!ReadableEnds, Conn!RetryDials, Conn!RetryGivesUp, Conn!Runtime, Conn!Next,
      Conn!OneReplyStream, Conn!Emitted, Conn!Cardinality, Conn!CountedAsEmitted,
      ConnProofs!Cardinality, ConnProofs!Sockets, ConnProofs!Chunks,
      ConnProofs!vars, ConnProofs!RelayAssumption, ConnProofs!TypeOK, ConnProofs!Init,
      ConnProofs!Count, ConnProofs!Emit, ConnProofs!Dial, ConnProofs!Closed,
      ConnProofs!Finalize, ConnProofs!ClientSends, ConnProofs!ClientCloses,
      ConnProofs!Ready, ConnProofs!HandleTCPOutBound, ConnProofs!WriteChunk,
      ConnProofs!WriteRefused, ConnProofs!ChunkWritten, ConnProofs!WriteFails,
      ConnProofs!SinkCloses, ConnProofs!StreamErrors, ConnProofs!Dialed,
      ConnProofs!DialFails, ConnProofs!HasIncomingData, ConnProofs!ReplyArrives,
      ConnProofs!ReplyUndeliverable, ConnProofs!ReadableEnds, ConnProofs!RetryDials,
      ConnProofs!RetryGivesUp, ConnProofs!Runtime, ConnProofs!Next,
      ConnProofs!OneReplyStream, ConnProofs!Emitted, ConnProofs!CountedAsEmitted

EdgeInv == LedgerInv /\ SlicesWithin /\ AggregateInv /\ ConnProofs!Inv

LEMMA EdgeInvInit == EdgeInit => EdgeInv
  BY EdgeAssumption, LedgerInvInit, SlicesWithinInit, AggregateInit, SameRelay,
     ConnProofs!InvInit
  DEF EdgeInit, EdgeInv

LEMMA EdgeInvStep == EdgeInv /\ [EdgeNext]_edgeVars => EdgeInv'
<1> SUFFICES ASSUME EdgeInv, [EdgeNext]_edgeVars PROVE EdgeInv'
  OBVIOUS
<1>1. [Next]_vars /\ [Conn!Next]_(Conn!vars)
  BY DEF EdgeNext, Usage, Relaying, edgeVars, relayVars, Conn!vars
<1>2. (LedgerInv /\ SlicesWithin /\ AggregateInv)'
  BY <1>1, LedgerStep, SlicesWithinStep, AggregateStep DEF EdgeInv
<1>3. ConnProofs!Inv'
  BY <1>1, EdgeAssumption, SameRelay, ConnProofs!InvStep DEF EdgeInv
<1> QED
  BY <1>2, <1>3 DEF EdgeInv

LEMMA EdgeInvAlways == EdgeSpec => []EdgeInv
<1> QED
  BY EdgeInvInit, EdgeInvStep, PTL DEF EdgeSpec

\* Trackers, ledger, aggregates and relayed connections keep their types.
THEOREM EdgeTyped == EdgeSpec => []TypesOK
<1>1. EdgeInv => TypesOK
  BY SameRelay, ConnProofs!InvTypes DEF EdgeInv, AggregateInv, TypesOK
<1> QED
  BY <1>1, EdgeInvAlways, PTL

\* The client's bytes come from one socket, after one response header
\* (remoteSocketToWS), although a retry opens a second socket with a header
\* of its own.
THEOREM RepliesAlwaysOneStream == EdgeSpec => []OneReplyStream
<1>1. EdgeInv => OneReplyStream
  BY SameRelay DEF EdgeInv, ConnProofs!Inv, ConnProofs!Replies, OneReplyStream
<1> QED
  BY <1>1, EdgeInvAlways, PTL

\* trackUp counts what was emitted and no more; only the first chunk is
\* emitted to both sockets.
THEOREM CountsAlwaysEmitted == EdgeSpec => []CountedAsEmitted
<1>1. EdgeInv => CountedAsEmitted
  BY SameRelay DEF EdgeInv, ConnProofs!Inv, ConnProofs!Emissions, CountedAsEmitted
<1> QED
  BY <1>1, EdgeInvAlways, PTL

\* Relay and ledger share nothing: in their composition the ledger behaves
\* as it does alone, so that what is proved of it alone holds there.
THEOREM LedgerInEdge ==
    EdgeSpec =>
        Spec /\ BilledOnce /\ [](RowsAreSlices /\ NeverOverbilled /\ AggregateWithinLedger)
<1>1. EdgeInit => Init
  BY DEF EdgeInit
<1>2. [EdgeNext]_edgeVars => [Next]_vars
  BY DEF EdgeNext, Usage, Relaying, edgeVars
<1>3. EdgeSpec => Spec
  BY <1>1, <1>2, PTL DEF EdgeSpec, Spec
<1> QED
  BY <1>3, BillsOnce, RowsAlwaysSlices, NobodyOverbilled, AggregateNeverAhead, PTL

=============================================================================
