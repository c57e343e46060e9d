---------------------------- MODULE UsageLedger ----------------------------
(***************************************************************************)
(* The usage ledger of one configuration: the trackers of its connections  *)
(* (UsageTracker) post events to ingest_usage (api/routes/nodes.py), which *)
(* appends them to usage_events; a database trigger adds each row to the   *)
(* daily aggregate in the same transaction; reconcile_usage                *)
(* (domain/reconcile.py) recomputes the aggregates from the ledger, in one *)
(* READ COMMITTED transaction whose statements read one after the other    *)
(* and whose writes are flushed at the commit (autoflush=False).           *)
(***************************************************************************)
EXTENDS UsageTracker, FiniteSets

CONSTANTS
    None,
    LastDay,       \* bound: days that pass
    MaxFaults      \* bound: hand-made drifts and failed passes

Days == 0..LastDay

ASSUME UsageLedgerAssumption ==
    /\ LastDay \in Nat
    /\ MaxFaults \in Nat
    /\ None \notin Nat

VARIABLES
    ledger,  \* rows of usage_events
    agg,     \* usage_daily_aggregates: total_bytes per day, or None
    today,
    pass,    \* the reconciliation pass under way
    faults   \* faults so far

ledgerVars == <<ledger, agg, today, pass, faults>>
vars == <<tracker, relayed, slices, net, ledger, agg, today, pass, faults>>

Rows == [conn : Connections, seq : Nat, bytes : Nat, day : Days]
Resting == [running |-> FALSE, truth |-> [d \in Days |-> 0],
            unread |-> {}, seen |-> [d \in Days |-> None]]

TypeOK ==
    /\ TrackerTypeOK
    /\ ledger \subseteq Rows
    /\ agg \in [Days -> Nat \cup {None}]
    /\ today \in Days
    /\ pass \in [running : BOOLEAN, truth : [Days -> Nat],
                 unread : SUBSET Days, seen : [Days -> Nat \cup {None}]]
    /\ faults \in 0..MaxFaults

Init ==
    /\ TrackerInit
    /\ ledger = {}
    /\ agg = [d \in Days |-> None]
    /\ today = 0
    /\ pass = Resting
    /\ faults = 0

\* SUM(total_bytes): the units that rows account for, counted.
Units(rows) == UNION {{r} \X (1..r.bytes) : r \in rows}
Bytes(rows) == Cardinality(Units(rows))
LedgerOf(d) == {r \in ledger : r.day = d}

----------------------------------------------------------------------------
(* Ingest and the trigger.                                                 *)

\* AFTER INSERT: ON CONFLICT adds to the row, otherwise it is inserted.
Aggregate(bytes) ==
    agg' = [agg EXCEPT ![today] = IF @ = None THEN bytes ELSE @ + bytes]

Row(e) == [conn |-> e.conn, seq |-> e.seq, bytes |-> e.bytes, day |-> today]
Stored(e) == \E r \in ledger : r.conn = e.conn /\ r.seq = e.seq

Ingest_NotUnique(e) ==
    /\ ledger' = ledger \cup {Row(e)}
    /\ Aggregate(e.bytes)
    /\ UNCHANGED <<today, pass, faults>>
    /\ UNCHANGED trackerVars

Ingest_RowPerConnection(e) ==
    /\ ~Stored(e)
    /\ ledger' = {r \in ledger : r.conn # e.conn} \cup {Row(e)}
    /\ Aggregate(e.bytes)
    /\ UNCHANGED <<today, pass, faults>>
    /\ UNCHANGED trackerVars

\* The event stays in flight: it may arrive again.
Ingest(e) ==
    /\ ~Stored(e)
    /\ ledger' = ledger \cup {Row(e)}
    /\ Aggregate(e.bytes)
    /\ UNCHANGED <<today, pass, faults>>
    /\ UNCHANGED trackerVars

DropDuplicate_Counted(e) ==
    /\ Stored(e)
    /\ Aggregate(e.bytes)
    /\ net' = net \ {e}
    /\ UNCHANGED <<ledger, today, pass, faults, tracker, relayed, slices>>

\* UNIQUE (connection_id, sequence_number): rolled back and acknowledged.
DropDuplicate(e) ==
    /\ Stored(e)
    /\ net' = net \ {e}
    /\ UNCHANGED <<ledger, agg, today, pass, faults, tracker, relayed, slices>>

NextDay ==
    /\ today < LastDay
    /\ today' = today + 1
    /\ UNCHANGED <<ledger, agg, pass, faults>>
    /\ UNCHANGED trackerVars

----------------------------------------------------------------------------
(* Reconciliation.                                                         *)

\* The first SELECT: exact sums per day, for the days the ledger has.
BeginPass ==
    /\ ~pass.running
    /\ pass' = [running |-> TRUE,
                truth |-> [d \in Days |-> Bytes(LedgerOf(d))],
                unread |-> {d \in Days : LedgerOf(d) # {}},
                seen |-> [d \in Days |-> None]]
    /\ UNCHANGED <<ledger, agg, today, faults>>
    /\ UNCHANGED trackerVars

\* Then one SELECT of the aggregate row per day.
ReadRow(d) ==
    /\ pass.running
    /\ d \in pass.unread
    /\ pass' = [pass EXCEPT !.unread = @ \ {d}, !.seen[d] = agg[d]]
    /\ UNCHANGED <<ledger, agg, today, faults>>
    /\ UNCHANGED trackerVars

\* The days whose row the pass inserts or updates.  A day without ledger
\* rows has truth 0 and seen None, and is none of them.
Repairs == {d \in Days : pass.truth[d] > 0 /\ pass.seen[d] # pass.truth[d]}

\* A row to insert that exists by now (IntegrityError), or a row to update
\* that is gone (StaleDataError), rolls the whole pass back.
Refused == \E d \in Repairs : (pass.seen[d] = None) # (agg[d] = None)

CommitPass_OnlyInserts ==
    /\ pass.running
    /\ pass.unread = {}
    /\ agg' = IF Refused THEN agg ELSE
           [d \in Days |-> IF d \in Repairs /\ pass.seen[d] = None
                           THEN pass.truth[d] ELSE agg[d]]
    /\ pass' = Resting
    /\ UNCHANGED <<ledger, today, faults>>
    /\ UNCHANGED trackerVars

CommitPass_AddsDifference ==
    /\ pass.running
    /\ pass.unread = {}
    /\ agg' = IF Refused THEN agg ELSE
           [d \in Days |-> CASE d \notin Repairs -> agg[d]
                             [] pass.seen[d] = None -> pass.truth[d]
                             [] OTHER -> pass.truth[d] - pass.seen[d]]
    /\ pass' = Resting
    /\ UNCHANGED <<ledger, today, faults>>
    /\ UNCHANGED trackerVars

CommitPass ==
    /\ pass.running
    /\ pass.unread = {}
    /\ agg' = IF Refused THEN agg ELSE
           [d \in Days |-> IF d \in Repairs THEN pass.truth[d] ELSE agg[d]]
    /\ pass' = Resting
    /\ UNCHANGED <<ledger, today, faults>>
    /\ UNCHANGED trackerVars

\* A query fails or the worker restarts: the loop tries again later.
FailPass ==
    /\ faults < MaxFaults
    /\ pass.running
    /\ pass' = Resting
    /\ faults' = faults + 1
    /\ UNCHANGED <<ledger, agg, today>>
    /\ UNCHANGED trackerVars

\* A row of the aggregate is changed by hand, or lost.
Drift(d) ==
    /\ faults < MaxFaults
    /\ \E value \in {None, 0, MaxBytes} : agg' = [agg EXCEPT ![d] = value]
    /\ faults' = faults + 1
    /\ UNCHANGED <<ledger, today, pass>>
    /\ UNCHANGED trackerVars

----------------------------------------------------------------------------
Reconcile == BeginPass \/ (\E d \in Days : ReadRow(d)) \/ CommitPass

Next ==
    \/ TrackerNext /\ UNCHANGED ledgerVars
    \/ \E e \in net : Ingest(e) \/ DropDuplicate(e)
    \/ NextDay
    \/ Reconcile
    \/ FailPass
    \/ \E d \in Days : Drift(d)

Spec == Init /\ [][Next]_vars

\* The worker's loop runs a pass every five minutes for as long as it lives;
\* nothing is assumed of the nodes, the network and the clock.
FairSpec == Spec /\ WF_vars(Reconcile)

----------------------------------------------------------------------------
(* Properties                                                              *)

\* Whatever is lost, repeated or late, the ledger has at most one row per
\* slice, and it is the slice the tracker cut.
RowsAreSlices ==
    /\ \A r \in ledger : r.seq \in DOMAIN slices[r.conn]
                             /\ r.bytes = slices[r.conn][r.seq]
    /\ \A r, s \in ledger : r.conn = s.conn /\ r.seq = s.seq => r = s

\* A customer is never billed more than was relayed: the ledger rows of a
\* connection and what its tracker still holds are within its traffic.
NeverOverbilled ==
    \A c \in Connections :
        Bytes({r \in ledger : r.conn = c}) + tracker[c].pending <= relayed[c]

\* Trackers, network, ingest and ledger together implement a meter: the rows
\* of a connection only ever add up to more, within what it relayed.
Meter == INSTANCE Billing WITH
    traffic <- relayed,
    bill <- [c \in Connections |-> Bytes({r \in ledger : r.conn = c})]
BilledOnce == Meter!Spec

\* Without hand-made drift no aggregate exceeds its ledger, although a pass
\* writes sums that are stale by the time it commits.
AggregateWithinLedger ==
    faults = 0 =>
        \A d \in Days : agg[d] # None => agg[d] <= Bytes(LedgerOf(d))

\* Whatever drift, races and failed passes did to the aggregates, the
\* reconciliation brings every day of the ledger back to its exact sum.
EventuallyReconciled ==
    <>[](\A d \in Days : LedgerOf(d) # {} => agg[d] = Bytes(LedgerOf(d)))
=============================================================================
