----------------------------- MODULE OrderFlow -----------------------------
(***************************************************************************)
(* Orders of the control plane, from the purchase to a credential on a     *)
(* node: control-plane/bot/router.py drives domain/orders.py,              *)
(* domain/fulfillment.py, domain/subscriptions.py and domain/kv_sync.py.   *)
(*                                                                         *)
(* Every Telegram update is handled by a coroutine of one process, and     *)
(* coroutines interleave at each await.  A handler works on ORM objects    *)
(* loaded once (SessionLocal has expire_on_commit=False): `seen` is the    *)
(* order status its session remembers, and a commit writes a column only   *)
(* when the remembered value changes.  A handler's step below is one       *)
(* database statement or transaction, or one request to Cloudflare.        *)
(***************************************************************************)
EXTENDS Naturals, FiniteSets

CONSTANTS
    Orders, Attempts, Configs, \* row ids
    Nodes,
    Handlers,          \* coroutines handling a Telegram update
    None,
    MaxAssignments,    \* nodes.max_assignment_count
    Faults,            \* what the environment may do
    SelectorOutcomes,  \* what select_node_for_pool may do with a pool
    KvOutcomes         \* what get_node_kv_writer may do

OrderStatus == {"NONE", "AWAITING_PAYMENT", "PAID", "PROVISIONING",
                "FULFILLED", "REJECTED"}
AttemptRows == [order : Orders,
                status : {"WAITING_REVIEW", "APPROVED", "REJECTED"}]
ConfigRows  == [order : Orders, node : Nodes]

\* The code as it stands always raises in both places.  The selector awaits
\* the result of a chain that starts on a coroutine: SelectorOutcomes is
\* {"raises"}, or {"node"} with the misplaced parenthesis repaired.  And
\* kv_sync.py does not import `select`: KvOutcomes is {"raises"}, or {"works"}
\* with the import.
ASSUME OrderFlowAssumption ==
    /\ IsFiniteSet(Configs)
    /\ None \notin Orders \cup Attempts \cup Configs \cup Nodes
    /\ None \notin AttemptRows \cup ConfigRows
    /\ MaxAssignments \in Nat
    /\ Faults \subseteq {"restart", "raised", "no_node", "kv_refused", "kv_misread"}
    /\ SelectorOutcomes \subseteq {"node", "raises"}
    /\ KvOutcomes \subseteq {"works", "raises"}

VARIABLES
    order,       \* orders.status
    attempt,     \* payment_attempts: the order and the status, or None
    config,      \* configurations with their primary assignment, or None
    activation,  \* subscription_activations: the order's configuration
    count,       \* nodes.current_assignment_count
    edge,        \* credentials in each node's KV map
    synced,      \* history: credentials that were written to a map once
    waiting,     \* orders whose chat is in state waiting_payment_proof
    invoiced,    \* orders a Stars invoice was sent for
    shown,       \* attempts whose review buttons an admin has on screen
    handler      \* the local state of each coroutine

vars == <<order, attempt, config, activation, count, edge, synced, waiting,
          invoiced, shown, handler>>

Steps == {"idle", "proof", "stars", "clear", "approving", "mark", "select",
          "lookup", "create", "sync", "write", "finish", "rejecting", "reject"}
HandlerStates ==
    [at : Steps, order : Orders \cup {None}, seen : OrderStatus,
     attempt : Attempts \cup {None}, node : Nodes \cup {None}, count : Nat,
     config : Configs \cup {None}, map : SUBSET Configs]

Idle == [at |-> "idle", order |-> None, seen |-> "NONE", attempt |-> None,
         node |-> None, count |-> 0, config |-> None, map |-> {}]

TypeOK ==
    /\ order \in [Orders -> OrderStatus]
    /\ attempt \in [Attempts -> AttemptRows \cup {None}]
    /\ config \in [Configs -> ConfigRows \cup {None}]
    /\ activation \in [Orders -> Configs \cup {None}]
    /\ count \in [Nodes -> Nat]
    /\ edge \in [Nodes -> SUBSET Configs]
    /\ synced \subseteq Configs
    /\ waiting \subseteq Orders
    /\ invoiced \subseteq Orders
    /\ shown \subseteq Attempts
    /\ handler \in [Handlers -> HandlerStates]

Init ==
    /\ order = [o \in Orders |-> "NONE"]
    /\ attempt = [a \in Attempts |-> None]
    /\ config = [c \in Configs |-> None]
    /\ activation = [o \in Orders |-> None]
    /\ count = [n \in Nodes |-> 0]
    /\ edge = [n \in Nodes |-> {}]
    /\ synced = {}
    /\ waiting = {}
    /\ invoiced = {}
    /\ shown = {}
    /\ handler = [h \in Handlers |-> Idle]

Live == {c \in Configs : config[c] # None}
AssignedTo(n) == {c \in Live : config[c].node = n}

Goto(h, step) == handler' = [handler EXCEPT ![h].at = step]
Return(h) == handler' = [handler EXCEPT ![h] = Idle]

\* What a commit of handler h leaves in orders.status: the ORM omits a
\* column whose new value is the one it remembers.
Saved(h, status) ==
    LET o == handler[h].order IN
    IF handler[h].seen = status THEN order
                                ELSE [order EXCEPT ![o] = status]

----------------------------------------------------------------------------
(* The customer's side: purchase, proof of payment, Stars.                 *)

\* The order row of this purchase: a new one, or the one the idempotency
\* key finds while it still awaits its payment.
CreateOrder(o) ==
    /\ order[o] \in {"NONE", "AWAITING_PAYMENT"}
    /\ order' = [order EXCEPT ![o] = "AWAITING_PAYMENT"]

OnDisplayName(o) ==
    /\ CreateOrder(o)
    /\ waiting' = waiting \cup {o}
    /\ UNCHANGED <<attempt, config, activation, count, edge, synced, invoiced,
                   shown, handler>>

PayStars(o) ==
    /\ CreateOrder(o)
    /\ invoiced' = invoiced \cup {o}
    /\ UNCHANGED <<attempt, config, activation, count, edge, synced, waiting,
                   shown, handler>>

\* An update reaches a free handler, which loads the order.
Load(h, o, step) ==
    /\ handler[h].at = "idle"
    /\ handler' = [handler EXCEPT ![h] = [@ EXCEPT
           !.at = step,
           !.order = o,
           !.seen = order[o]]]

OnPaymentProof(h, o) ==
    /\ o \in waiting
    /\ Load(h, o, "proof")
    /\ UNCHANGED <<order, attempt, config, activation, count, edge, synced,
                   waiting, invoiced, shown>>

\* Telegram delivers a payment at least once, and an invoice sent twice can
\* be paid twice: the handler may run any number of times for an order.
OnSuccessfulPayment(h, o) ==
    /\ o \in invoiced
    /\ Load(h, o, "stars")
    /\ UNCHANGED <<order, attempt, config, activation, count, edge, synced,
                   waiting, invoiced, shown>>

AttachPaymentProof(h, a) ==
    /\ handler[h].at \in {"proof", "stars"}
    /\ attempt[a] = None
    /\ attempt' = [attempt EXCEPT
           ![a] = [order |-> handler[h].order, status |-> "WAITING_REVIEW"]]
    /\ order' = Saved(h, "PAID")
    /\ handler' = [handler EXCEPT ![h] = [@ EXCEPT
           !.at = IF handler[h].at = "proof" THEN "clear" ELSE "mark",
           !.seen = "PAID",
           !.attempt = a]]
    /\ UNCHANGED <<config, activation, count, edge, synced, waiting, invoiced,
                   shown>>

ClearState(h) ==
    /\ handler[h].at = "clear"
    /\ waiting' = waiting \ {handler[h].order}
    /\ Return(h)
    /\ UNCHANGED <<order, attempt, config, activation, count, edge, synced,
                   invoiced, shown>>

----------------------------------------------------------------------------
(* The admin's side: the list of pending orders, approval and rejection.   *)

\* The buttons stay in the chat, whatever happens to the order afterwards.
ShowPending(a) ==
    /\ attempt[a] # None
    /\ attempt[a].status = "WAITING_REVIEW"
    /\ order[attempt[a].order] = "PAID"
    /\ shown' = shown \cup {a}
    /\ UNCHANGED <<order, attempt, config, activation, count, edge, synced,
                   waiting, invoiced, handler>>

Approve(h, a) ==
    /\ a \in shown
    /\ handler[h].at = "idle"
    /\ handler' = [handler EXCEPT ![h] = [@ EXCEPT
           !.at = "approving",
           !.attempt = a,
           !.order = attempt[a].order,
           !.seen = order[attempt[a].order]]]
    /\ UNCHANGED <<order, attempt, config, activation, count, edge, synced,
                   waiting, invoiced, shown>>

CheckAttempt(h) ==
    /\ handler[h].at = "approving"
    /\ IF attempt[handler[h].attempt].status = "WAITING_REVIEW"
       THEN Goto(h, "mark")
       ELSE Return(h)
    /\ UNCHANGED <<order, attempt, config, activation, count, edge, synced,
                   waiting, invoiced, shown>>

MarkOrderProvisioning_AttemptNotSaved(h) ==
    /\ handler[h].at = "mark"
    /\ order' = Saved(h, "PROVISIONING")
    /\ handler' = [handler EXCEPT ![h] = [@ EXCEPT
           !.at = "select",
           !.seen = "PROVISIONING"]]
    /\ UNCHANGED <<attempt, config, activation, count, edge, synced, waiting,
                   invoiced, shown>>

MarkOrderProvisioning(h) ==
    /\ handler[h].at = "mark"
    /\ attempt' = [attempt EXCEPT ![handler[h].attempt].status = "APPROVED"]
    /\ order' = Saved(h, "PROVISIONING")
    /\ handler' = [handler EXCEPT ![h] = [@ EXCEPT
           !.at = "select",
           !.seen = "PROVISIONING"]]
    /\ UNCHANGED <<config, activation, count, edge, synced, waiting, invoiced,
                   shown>>

OnRejectReason(h, a) ==
    /\ a \in shown
    /\ handler[h].at = "idle"
    /\ attempt[a].status = "WAITING_REVIEW"
    /\ handler' = [handler EXCEPT ![h] = [@ EXCEPT
           !.at = "rejecting",
           !.attempt = a]]
    /\ UNCHANGED <<order, attempt, config, activation, count, edge, synced,
                   waiting, invoiced, shown>>

LoadRejectedOrder(h) ==
    /\ handler[h].at = "rejecting"
    /\ LET o == attempt[handler[h].attempt].order IN
       handler' = [handler EXCEPT ![h] = [@ EXCEPT
           !.at = "reject",
           !.order = o,
           !.seen = order[o]]]
    /\ UNCHANGED <<order, attempt, config, activation, count, edge, synced,
                   waiting, invoiced, shown>>

RejectPayment(h) ==
    /\ handler[h].at = "reject"
    /\ attempt' = [attempt EXCEPT ![handler[h].attempt].status = "REJECTED"]
    /\ order' = Saved(h, "REJECTED")
    /\ Return(h)
    /\ UNCHANGED <<config, activation, count, edge, synced, waiting, invoiced,
                   shown>>

----------------------------------------------------------------------------
(* fulfill_order: node, configuration, credential, FULFILLED.              *)

SelectNode_FullToo(h, n) ==
    /\ handler[h].at = "select"
    /\ "node" \in SelectorOutcomes
    /\ count[n] <= MaxAssignments
    /\ handler' = [handler EXCEPT ![h] = [@ EXCEPT
           !.at = "lookup",
           !.node = n,
           !.count = count[n]]]
    /\ UNCHANGED <<order, attempt, config, activation, count, edge, synced,
                   waiting, invoiced, shown>>

\* Health, pool and strategy are abstracted to the choice among the nodes
\* with capacity left.  The node is loaded here, its counter with it.
SelectNode(h, n) ==
    /\ handler[h].at = "select"
    /\ "node" \in SelectorOutcomes
    /\ count[n] < MaxAssignments
    /\ handler' = [handler EXCEPT ![h] = [@ EXCEPT
           !.at = "lookup",
           !.node = n,
           !.count = count[n]]]
    /\ UNCHANGED <<order, attempt, config, activation, count, edge, synced,
                   waiting, invoiced, shown>>

SelectNode_Raises(h) ==
    /\ handler[h].at = "select"
    /\ "raises" \in SelectorOutcomes
    /\ Return(h)
    /\ UNCHANGED <<order, attempt, config, activation, count, edge, synced,
                   waiting, invoiced, shown>>

NoEligibleNode_FallsThrough(h) ==
    /\ handler[h].at = "select"
    /\ Goto(h, "finish")
    /\ UNCHANGED <<order, attempt, config, activation, count, edge, synced,
                   waiting, invoiced, shown>>

\* FulfillmentError: no pool with nodes, or no eligible node in it.
NoEligibleNode(h) ==
    /\ handler[h].at = "select"
    /\ "no_node" \in Faults \/ \A n \in Nodes : count[n] >= MaxAssignments
    /\ Return(h)
    /\ UNCHANGED <<order, attempt, config, activation, count, edge, synced,
                   waiting, invoiced, shown>>

FindExisting_AlwaysFound(h) ==
    /\ handler[h].at = "lookup"
    /\ handler' = [handler EXCEPT ![h] = [@ EXCEPT
           !.at = "sync",
           !.config = activation[handler[h].order]]]
    /\ UNCHANGED <<order, attempt, config, activation, count, edge, synced,
                   waiting, invoiced, shown>>

FindExisting_NotResynced(h) ==
    /\ handler[h].at = "lookup"
    /\ LET c == activation[handler[h].order] IN
       handler' = [handler EXCEPT ![h] = [@ EXCEPT
           !.at = IF c = None THEN "create" ELSE "finish",
           !.config = c]]
    /\ UNCHANGED <<order, attempt, config, activation, count, edge, synced,
                   waiting, invoiced, shown>>

\* An activated order keeps its configuration: a re-run only re-syncs it.
FindExisting(h) ==
    /\ handler[h].at = "lookup"
    /\ LET c == activation[handler[h].order] IN
       handler' = [handler EXCEPT ![h] = [@ EXCEPT
           !.at = IF c = None THEN "create" ELSE "sync",
           !.config = c]]
    /\ UNCHANGED <<order, attempt, config, activation, count, edge, synced,
                   waiting, invoiced, shown>>

Insert(h, c) ==
    /\ config[c] = None
    /\ config' = [config EXCEPT
           ![c] = [order |-> handler[h].order, node |-> handler[h].node]]
    /\ activation' = [activation EXCEPT ![handler[h].order] = c]
    /\ count' = [count EXCEPT ![handler[h].node] = handler[h].count + 1]
    /\ handler' = [handler EXCEPT ![h] = [@ EXCEPT
           !.at = "sync",
           !.config = c]]
    /\ UNCHANGED <<order, attempt, edge, synced, waiting, invoiced, shown>>

CreateConfiguration_NotUnique(h, c) ==
    /\ handler[h].at = "create"
    /\ Insert(h, c)

\* One transaction; subscription_activations.order_id is UNIQUE.
CreateConfiguration(h, c) ==
    /\ handler[h].at = "create"
    /\ activation[handler[h].order] = None
    /\ Insert(h, c)

AlreadyActivated_CountKept(h) ==
    /\ handler[h].at = "create"
    /\ activation[handler[h].order] # None
    /\ count' = [count EXCEPT ![handler[h].node] = handler[h].count + 1]
    /\ Return(h)
    /\ UNCHANGED <<order, attempt, config, activation, edge, synced, waiting,
                   invoiced, shown>>

AlreadyActivated_Proceeds(h) ==
    /\ handler[h].at = "create"
    /\ activation[handler[h].order] # None
    /\ \E c \in Configs \ Live :
           handler' = [handler EXCEPT ![h] = [@ EXCEPT
           !.at = "sync",
           !.config = c]]
    /\ UNCHANGED <<order, attempt, config, activation, count, edge, synced,
                   waiting, invoiced, shown>>

\* The unique index refuses the row: the transaction is rolled back and the
\* IntegrityError leaves the handler.
AlreadyActivated(h) ==
    /\ handler[h].at = "create"
    /\ activation[handler[h].order] # None
    /\ Return(h)
    /\ UNCHANGED <<order, attempt, config, activation, count, edge, synced,
                   waiting, invoiced, shown>>

\* get_node_kv_writer as it stands raises a NameError before it has read
\* anything, on every call; the webhook answers 500.
GetNodeKvWriter_Raises(h) ==
    /\ handler[h].at = "sync"
    /\ "raises" \in KvOutcomes
    /\ Return(h)
    /\ UNCHANGED <<order, attempt, config, activation, count, edge, synced,
                   waiting, invoiced, shown>>

SyncRefused_Ignored(h) ==
    /\ handler[h].at = "sync"
    /\ "kv_refused" \in Faults
    /\ Goto(h, "finish")
    /\ UNCHANGED <<order, attempt, config, activation, count, edge, synced,
                   waiting, invoiced, shown>>

\* sync_assignment returns False: no credentials or no namespace.
SyncRefused(h) ==
    /\ handler[h].at = "sync"
    /\ "works" \in KvOutcomes
    /\ "kv_refused" \in Faults
    /\ Return(h)
    /\ UNCHANGED <<order, attempt, config, activation, count, edge, synced,
                   waiting, invoiced, shown>>

\* What _read_map makes of the answer: a failed or garbled read counts as an
\* empty map.
MapsRead(n) ==
    {edge[n]} \cup (IF "kv_misread" \in Faults THEN {{}} ELSE {})

\* The map read and written is that of the node just selected.
ReadMap(h, m) ==
    /\ handler[h].at = "sync"
    /\ "works" \in KvOutcomes
    /\ m \in MapsRead(handler[h].node)
    /\ handler' = [handler EXCEPT ![h] = [@ EXCEPT !.at = "write", !.map = m]]
    /\ UNCHANGED <<order, attempt, config, activation, count, edge, synced,
                   waiting, invoiced, shown>>

WriteMap(h) ==
    /\ handler[h].at = "write"
    /\ edge' = [edge EXCEPT
           ![handler[h].node] = handler[h].map \cup {handler[h].config}]
    /\ synced' = synced \cup {handler[h].config}
    /\ Goto(h, "finish")
    /\ UNCHANGED <<order, attempt, config, activation, count, waiting, invoiced,
                   shown>>

MarkOrderFulfilled(h) ==
    /\ handler[h].at = "finish"
    /\ order' = Saved(h, "FULFILLED")
    /\ Return(h)
    /\ UNCHANGED <<attempt, config, activation, count, edge, synced, waiting,
                   invoiced, shown>>

----------------------------------------------------------------------------
(* Failures: what was not committed is lost with the handler.              *)

\* A database or Cloudflare request raises; the webhook answers 500.
HandlerRaises(h) ==
    /\ "raised" \in Faults
    /\ handler[h].at # "idle"
    /\ Return(h)
    /\ UNCHANGED <<order, attempt, config, activation, count, edge, synced,
                   waiting, invoiced, shown>>

\* The process restarts: every handler is gone and so are the chat states,
\* which the dispatcher keeps in memory.
Restart ==
    /\ "restart" \in Faults
    /\ handler' = [h \in Handlers |-> Idle]
    /\ waiting' = {}
    /\ UNCHANGED <<order, attempt, config, activation, count, edge, synced,
                   invoiced, shown>>

----------------------------------------------------------------------------
\* What a handler does once it has started.
HandlerStep(h) ==
    \/ \E a \in Attempts : AttachPaymentProof(h, a)
    \/ ClearState(h)
    \/ CheckAttempt(h)
    \/ MarkOrderProvisioning(h)
    \/ LoadRejectedOrder(h)
    \/ RejectPayment(h)
    \/ \E n \in Nodes : SelectNode(h, n)
    \/ SelectNode_Raises(h)
    \/ NoEligibleNode(h)
    \/ FindExisting(h)
    \/ \E c \in Configs : CreateConfiguration(h, c)
    \/ AlreadyActivated(h)
    \/ GetNodeKvWriter_Raises(h)
    \/ SyncRefused(h)
    \/ \E m \in SUBSET Configs : ReadMap(h, m)
    \/ WriteMap(h)
    \/ MarkOrderFulfilled(h)

Next ==
    \/ \E o \in Orders : OnDisplayName(o) \/ PayStars(o)
    \/ \E h \in Handlers, o \in Orders :
           OnPaymentProof(h, o) \/ OnSuccessfulPayment(h, o)
    \/ \E a \in Attempts : ShowPending(a)
    \/ \E h \in Handlers, a \in Attempts : Approve(h, a) \/ OnRejectReason(h, a)
    \/ \E h \in Handlers : HandlerStep(h)
    \/ \E h \in Handlers : HandlerRaises(h)
    \/ Restart

Spec == Init /\ [][Next]_vars

----------------------------------------------------------------------------
(* Properties                                                              *)

\* Orders one of whose payments has been approved or rejected.
Decided ==
    {o \in Orders : \E a \in Attempts :
        attempt[a] # None /\ attempt[a].order = o
            /\ attempt[a].status # "WAITING_REVIEW"}

\* However approvals, Stars payments, retries and failures interleave, an
\* order has at most one configuration, and no configuration is left that is
\* not the activation of its own order.
ActivationSound ==
    /\ \A c \in Live : activation[config[c].order] = c
    /\ \A o \in Orders : activation[o] # None =>
           activation[o] \in Live /\ config[activation[o]].order = o

\* A customer is told FULFILLED only when the order has a configuration,
\* although the status is written from a remembered value.
FulfilledHasConfig ==
    \A o \in Orders : order[o] = "FULFILLED" => activation[o] # None

\* The node's counter, written from a stale read, can lose increments but
\* never exceeds the assignments the node really carries.
CountNeverOverstates ==
    \A n \in Nodes : count[n] <= Cardinality(AssignedTo(n))

\* Whatever maps handlers overwrite, an edge only accepts credentials of
\* committed configurations.
CredentialsBacked == \A n \in Nodes : edge[n] \subseteq Live

Promise == INSTANCE OrderActivation WITH
    decided <- Decided,
    fulfilled <- {o \in Orders : order[o] = "FULFILLED"}

\* The interleaved handlers implement the "approve once" promise: an order
\* is activated once, for good, after a verdict, and fulfilled after that.
ApproveOnce == Promise!Spec

\* Never silently half-provision: however handlers race, crash, retry on
\* another node, and overwrite or misread maps, an order is FULFILLED only
\* after the credential of its one configuration was written to a map.
SyncedBeforeFulfilled ==
    \A o \in Orders : order[o] = "FULFILLED" => activation[o] \in synced

\* A fulfilled order has its configuration and its credential, on the node
\* the subscription sends the customer to (one update handled at a time, and
\* a retry that selects the same node).
NeverHalfProvisioned ==
    \A o \in Orders : order[o] = "FULFILLED" =>
        activation[o] \in edge[config[activation[o]].node]

\* With one update handled at a time, no node carries more configurations
\* than its capacity, although the check and the count are steps apart.
CapacityKept ==
    \A n \in Nodes : Cardinality(AssignedTo(n)) <= MaxAssignments

\* An order left in PROVISIONING can be approved again: some handler is at
\* work, or a payment of it still waits for its review.
StuckIsRetryable ==
    \A o \in Orders : order[o] = "PROVISIONING" =>
        \/ \E h \in Handlers : handler[h].order = o
        \/ \E a \in Attempts : attempt[a] # None /\ attempt[a].order = o
                                 /\ attempt[a].status = "WAITING_REVIEW"
=============================================================================
