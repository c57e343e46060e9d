---------------------------- MODULE TestConfigs -----------------------------
(***************************************************************************)
(* Test configurations (control-plane/domain/test_configs.py), which a     *)
(* customer asks for in the bot (cb_trial) and an admin issues             *)
(* (_admin_create_test).  Whether the customer has an active test is asked *)
(* before it is inserted, with awaits in between and no key that makes it  *)
(* unique.                                                                 *)
(***************************************************************************)
EXTENDS Naturals, FiniteSets

CONSTANTS
    Configs,           \* row ids
    Customers,
    Handlers,          \* coroutines handling a Telegram update
    None,
    SelectorOutcomes,  \* as in OrderFlow: the selector raises as it stands
    KvOutcomes         \* as in OrderFlow: the KV writer raises as it stands

TestsAssumption ==
    /\ IsFiniteSet(Handlers)
    /\ None \notin Configs \cup Customers
    /\ SelectorOutcomes \subseteq {"node", "raises"}
    /\ KvOutcomes \subseteq {"works", "raises"}

VARIABLES
    test,        \* the customer of each test configuration, or None
    expired,     \* tests whose 24 hours have passed
    credential,  \* tests whose credential is in the map of their node
    task

vars == <<test, expired, credential, task>>

Steps == {"idle", "trial", "select", "check", "insert", "sync"}
Tasks == [at : Steps, customer : Customers \cup {None}, config : Configs \cup {None}]
Idle == [at |-> "idle", customer |-> None, config |-> None]

TypeOK ==
    /\ test \in [Configs -> Customers \cup {None}]
    /\ expired \subseteq Configs
    /\ credential \subseteq Configs
    /\ task \in [Handlers -> Tasks]
    /\ \A h \in Handlers :
           /\ task[h].at # "idle" => task[h].customer \in Customers
           /\ task[h].at = "sync" => task[h].config \in Configs

Init ==
    /\ test = [c \in Configs |-> None]
    /\ expired = {}
    /\ credential = {}
    /\ task = [h \in Handlers |-> Idle]

Issued == {c \in Configs : test[c] # None}
Active(p) == {c \in Configs : test[c] = p /\ c \notin expired}

Begin(h, step, p) ==
    /\ task[h].at = "idle"
    /\ task' = [task EXCEPT ![h] = [Idle EXCEPT !.at = step, !.customer = p]]
    /\ UNCHANGED <<test, expired, credential>>

CbTrial(h, p) == Begin(h, "trial", p)
AdminCreateTest(h, p) == Begin(h, "select", p)

\* has_active_test_config, before step `at`: go on, or tell the customer.
HasActive(h, at, next) ==
    /\ task[h].at = at
    /\ task' = [task EXCEPT ![h] =
           IF Active(task[h].customer) = {} THEN [@ EXCEPT !.at = next] ELSE Idle]
    /\ UNCHANGED <<test, expired, credential>>

TrialExists(h) == HasActive(h, "trial", "select")

SelectNode(h) ==
    /\ task[h].at = "select"
    /\ "node" \in SelectorOutcomes
    /\ task' = [task EXCEPT ![h].at = "check"]
    /\ UNCHANGED <<test, expired, credential>>

\* The selector raises, or finds no node.
NoNode(h) ==
    /\ task[h].at = "select"
    /\ task' = [task EXCEPT ![h] = Idle]
    /\ UNCHANGED <<test, expired, credential>>

CheckActive_NotAsked(h) ==
    /\ task[h].at = "check"
    /\ task' = [task EXCEPT ![h].at = "insert"]
    /\ UNCHANGED <<test, expired, credential>>

\* create_test_config asks once more, then makes a name and inserts.
CheckActive(h) == HasActive(h, "check", "insert")

Insert(h, c) ==
    /\ task[h].at = "insert"
    /\ test[c] = None
    /\ test' = [test EXCEPT ![c] = task[h].customer]
    /\ task' = [task EXCEPT ![h] = [@ EXCEPT !.at = "sync", !.config = c]]
    /\ UNCHANGED <<expired, credential>>

\* The result of sync_assignment is not looked at: the customer gets a link
\* in either case.  If get_node_kv_writer raises, the handler does
\* (HandlerRaises), after the test was committed.
SyncAssignment(h) ==
    /\ task[h].at = "sync"
    /\ "works" \in KvOutcomes
    /\ credential' \in {credential, credential \cup {task[h].config}}
    /\ task' = [task EXCEPT ![h] = Idle]
    /\ UNCHANGED <<test, expired>>

HandlerRaises(h) ==
    /\ task[h].at # "idle"
    /\ task' = [task EXCEPT ![h] = Idle]
    /\ UNCHANGED <<test, expired, credential>>

Expire(c) ==
    /\ c \in Issued
    /\ expired' = expired \cup {c}
    /\ UNCHANGED <<test, credential, task>>

Next ==
    \/ \E h \in Handlers :
           \/ \E p \in Customers : CbTrial(h, p) \/ AdminCreateTest(h, p)
           \/ TrialExists(h) \/ SelectNode(h) \/ NoNode(h) \/ CheckActive(h)
           \/ \E c \in Configs : Insert(h, c)
           \/ SyncAssignment(h)
           \/ HandlerRaises(h)
    \/ \E c \in Configs : Expire(c)

Spec == Init /\ [][Next]_vars

----------------------------------------------------------------------------
\* What the first lines of test_configs.py promise: exactly one active test
\* per customer, that is, never a second one beside the first.
OneActiveTest == \A p \in Customers : Cardinality(Active(p)) <= 1

\* How far that promise can lapse: however requests of customers and admins
\* interleave and fail, and whatever tests run out meanwhile, a customer has
\* no more active tests than there are updates handled at a time.  The second
\* question, inside create_test_config, keeps them from adding up.
TestsBounded ==
    \A p \in Customers : Cardinality(Active(p)) <= Cardinality(Handlers)

=============================================================================
