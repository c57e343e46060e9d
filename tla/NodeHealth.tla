----------------------------- MODULE NodeHealth -----------------------------
(***************************************************************************)
(* The health loop of the worker service (control-plane/domain/health.py)  *)
(* over the nodes that provisioning adds.  A pass loads all nodes, probes  *)
(* them one after the other and commits once.  The count of consecutive    *)
(* failures is an attribute of the loaded object: it lives for one pass,   *)
(* so that it is one after a failure, always.                              *)
(* failover_offline_nodes moves nothing as long as no node is OFFLINE.     *)
(***************************************************************************)
EXTENDS NodeProvisioning

CONSTANT MaxFaults   \* bound: passes that fail

VARIABLES
    up,       \* nodes whose worker and route can be reached now
    pass,     \* the pass under way: nodes left to probe, rows to write
    faults,   \* passes that failed so far
    missed    \* history: failures since the last success, as committed

healthVars == <<up, pass, faults, missed>>
vars == <<namespace, script, row, job, up, pass, faults, missed>>

DegradedAfterFailures == 2
OfflineAfterFailures == 5
NoPass == [running |-> FALSE, todo |-> {}, found |-> [n \in Nodes |-> None]]
Findings == [ok : BOOLEAN, state : States, score : Scores]

ASSUME HealthAssumption ==
    /\ MaxFaults \in Nat
    /\ None \notin Findings

TypeOK ==
    /\ ProvisioningTypeOK
    /\ up \in SUBSET Nodes
    /\ pass \in [running : BOOLEAN, todo : SUBSET Nodes,
                 found : [Nodes -> Findings \cup {None}]]
    /\ missed \in [Nodes -> 0..OfflineAfterFailures]
    /\ faults \in 0..MaxFaults

Init ==
    /\ ProvisioningInit
    /\ up = Nodes
    /\ pass = NoPass
    /\ missed = [n \in Nodes |-> 0]
    /\ faults = 0

----------------------------------------------------------------------------
\* A probe succeeds if the node's own script is public, boots and is up.
Answers(n) ==
    LET x == row[n].name IN
    /\ n \in up
    /\ script[x] = [node |-> n, domain |-> TRUE, public |-> TRUE]

Better_NoCap(r) ==
    [ok |-> TRUE, score |-> r.score + 50,
     state |-> IF r.score >= 50 THEN "ONLINE" ELSE "DEGRADED"]

Better_AboveFull(r) ==
    LET score == IF r.score + 50 > 100 THEN 100 ELSE r.score + 50 IN
    [ok |-> TRUE, score |-> score,
     state |-> IF score > 100 THEN "ONLINE" ELSE "DEGRADED"]

\* Success: half the way to the full score, which alone is ONLINE.
Better(r) ==
    LET score == IF r.score + 50 > 100 THEN 100 ELSE r.score + 50 IN
    [ok |-> TRUE, score |-> score,
     state |-> IF score = 100 THEN "ONLINE" ELSE "DEGRADED"]

\* `score or 100`: a score of zero counts as a missing one.
Lowered(score) ==
    LET from == IF score = 0 THEN 100 ELSE score IN
    IF from < 25 THEN 0 ELSE from - 25

\* _consecutive_failures is absent from a freshly loaded object.
ConsecutiveFailures == 0 + 1

Worse_FirstFailure(r) ==
    [ok |-> FALSE, score |-> Lowered(r.score), state |-> "DEGRADED"]

Worse(r) ==
    [ok |-> FALSE, score |-> Lowered(r.score),
     state |-> CASE ConsecutiveFailures >= OfflineAfterFailures -> "OFFLINE"
                 [] ConsecutiveFailures \in DegradedAfterFailures..(OfflineAfterFailures - 1)
                        -> "DEGRADED"
                 [] OTHER -> IF r.state = "OFFLINE" THEN "DEGRADED" ELSE r.state]

\* The rows of all nodes are loaded.
HealthCheckPass ==
    /\ ~pass.running
    /\ pass' = [NoPass EXCEPT !.running = TRUE, !.todo = Rowed]
    /\ UNCHANGED <<namespace, script, row, job, up, faults, missed>>

\* The loaded row is still the stored one: nobody else writes it.
CheckNodeOnce(n) ==
    /\ n \in pass.todo
    /\ pass' = [pass EXCEPT
           !.todo = @ \ {n},
           !.found[n] = IF Answers(n) THEN Better(row[n]) ELSE Worse(row[n])]
    /\ UNCHANGED <<namespace, script, row, job, up, faults, missed>>

Probed == {n \in Nodes : pass.found[n] # None}
Count(n) ==
    IF pass.found[n].ok THEN 0
    ELSE IF missed[n] = OfflineAfterFailures THEN missed[n] ELSE missed[n] + 1

CommitPass ==
    /\ pass.running
    /\ pass.todo = {}
    /\ row' = [n \in Nodes |->
           IF n \in Probed
           THEN [row[n] EXCEPT !.state = pass.found[n].state,
                               !.score = pass.found[n].score]
           ELSE row[n]]
    /\ missed' = [n \in Nodes |-> IF n \in Probed THEN Count(n) ELSE missed[n]]
    /\ pass' = NoPass
    /\ UNCHANGED <<namespace, script, job, up, faults>>

\* The pass raises or the worker is restarted: nothing of it is written.
PassFails ==
    /\ faults < MaxFaults
    /\ pass.running
    /\ pass' = NoPass
    /\ faults' = faults + 1
    /\ UNCHANGED <<namespace, script, row, job, up, missed>>

\* The environment of a node fails and recovers.
Toggle(n) ==
    /\ up' = IF n \in up THEN up \ {n} ELSE up \cup {n}
    /\ UNCHANGED <<namespace, script, row, job, pass, faults, missed>>

----------------------------------------------------------------------------
HealthLoop == HealthCheckPass \/ (\E n \in Nodes : CheckNodeOnce(n)) \/ CommitPass

Next ==
    \/ ProvisioningNext /\ UNCHANGED healthVars
    \/ HealthLoop
    \/ PassFails
    \/ \E n \in Nodes : Toggle(n)

Spec == Init /\ [][Next]_vars

\* The worker goes on probing, every minute.
FairSpec == Spec /\ WF_vars(HealthLoop)

----------------------------------------------------------------------------
\* No flap: an ONLINE node only leaves ONLINE when a run of failures, one
\* longer than a blip, was committed since its last success.
NoFlap ==
    [][\A n \in Nodes :
          row[n] # None /\ row[n].state = "ONLINE" /\ row'[n].state # "ONLINE"
              => missed[n] >= DegradedAfterFailures]_vars

\* A registered node that stays up comes ONLINE and stays so.
UpComesOnline ==
    \A n \in Nodes :
        <>[](n \in up /\ row[n] # None)
            => <>[](row[n] # None /\ row[n].state = "ONLINE")

\* OFFLINE at five consecutive failures.
DeadGoesOffline ==
    \A n \in Nodes :
        row[n] # None /\ missed[n] >= OfflineAfterFailures => row[n].state = "OFFLINE"
=============================================================================
