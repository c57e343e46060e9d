# P-Panel: specification, model checking and proofs

TLA+ models of the P-Panel platform (a FastAPI control plane with a Telegram
bot, and Cloudflare Worker nodes that relay VLESS and Trojan traffic), TLC runs
over small instances and TLAPS proofs about every instance. Paths are relative
to the repository; `cp/` stands for `control-plane/`, `nw/` for `node-worker/src/`.

## The system

Three services share one PostgreSQL database: *web* (API and bot webhook, one
process whose coroutines interleave at every `await`), *worker* (asyncio loops:
reconciliation, health, quota sweep) and *cron* (the same quota sweep). Nodes
are Cloudflare Workers: many isolates per node, a KV namespace with the node's
credential map, and optionally a Durable Object that counts sessions.

| component | state | operations | talks to |
|---|---|---|---|
| orders (`cp/domain/orders.py`, `cp/bot/router.py`) | `orders`, `payment_attempts` | create, attach proof, approve, reject, Stars payment | fulfilment |
| dialogue (`cp/bot/router.py`, `states.py`) | state and data of each chat, in memory | menus, names, proofs, admin dialogues | orders, admins |
| fulfilment (`cp/domain/fulfillment.py`, `subscriptions.py`, `pools.py`) | `configurations`, assignments, `subscription_activations`, `nodes.current_assignment_count` | select node, create configuration, sync, finish | KV map of a node |
| credential map (`cp/domain/kv_sync.py`) | `proxyUsers` in each node's KV | read, change, write the whole map | Cloudflare API |
| edge cache (`nw/settings/users.ts`) | the last map read, per isolate | look up a credential | KV |
| usage tracker (`nw/usage/usage.ts`) | counters, sequence number, `flushing`, `closed` | track, flush, close | ingest endpoint |
| ingest (`cp/api/routes/nodes.py`) | `usage_events`, trigger-kept `usage_daily_aggregates` | append, drop duplicates | database |
| reconciliation (`cp/domain/reconcile.py`) | none of its own | recompute aggregates | database |
| session counter (`nw/usage/session-counter.ts`, `sessions.ts`) | open sessions per configuration, in memory | incr, decr | relay |
| relay (`nw/protocols/*.ts`) | sockets, `admitted`, the tracker | header, dial, retry, pipe | counter, tracker |
| sweep (`cp/domain/notifications.py`) | `configurations.status`, `notifications_log` | expire, warn, disable | KV map, bot |
| health (`cp/domain/health.py`) | `nodes.state`, `health_score` | probe, transition, failover | KV map |
| provisioning (`cp/domain/provisioning.py`) | `nodes`, Cloudflare resources | create, decommission | Cloudflare API |
| test configurations (`cp/domain/test_configs.py`) | `configurations` | issue | KV map |
| start (`cp/api/main.py`, `domain/plans.py`, `gaming.py`, `admin_panel/bootstrap_admin.py`) | `admins`, `pools`, `plans`, `gaming_profiles` | seed, publish | database |

What is hard in it: handlers that interleave on one order and decide on values
remembered from before an `await`; several commits per approval with a restart
between any two; a credential map that is read, changed and written back without
a lock; usage events that are lost, repeated and late against an aggregate that
is kept twice (trigger and reconciliation); a session counter that forgets; a
dialogue whose handlers finish late, when the user is elsewhere; starts that
overlap and all find nothing; a relay that dials twice.
`PROJECT.json` lists these hazards line by line with the properties that cover
them, and says of the uncovered ones why.

What makes each component correct: an order is provisioned at most once, only
after a verdict, and a fulfilled order has its configuration and credential;
counters never claim more than the rows; no node accepts a credential nobody
has; each slice of usage is billed at most once and never above the traffic;
aggregates come back to the ledger; a device limit holds up to known lapses.
A node row exists only for a complete node of its own, a healthy node does not
flap and a dead one leaves the pools; a sweep reaches every due configuration,
cuts nobody off early and tells a customer a thing once a day; what is used up
or expired is refused at the edge in the end; an isolate accepts no credential
that was not active a moment ago. (Not all of it is true: see the findings.)
A dialogue is never in a state without its data, repeated
orders of one minute are one order; a start seeds once; a relayed client gets one
stream and its slot and tracker are given back.

## Modules

**`OrderFlow`** — orders from purchase to credential. Tables are functions from
row ids (`order`, `attempt`, `config`, `activation`, `count`); `edge[n]` is the
KV map of node `n`. `handler[h]` is one coroutine: a step label, the order,
attempt, node and configuration it holds, `seen` (the order status its session
remembers, as `expire_on_commit=False` keeps it) and `map` (the KV map it read).
An action is one statement or transaction, or one Cloudflare request:
`Approve` / `CheckAttempt` / `MarkOrderProvisioning` are the three awaits of
`cb_review_approve` up to its commits; `SelectNode`, `FindExisting`,
`CreateConfiguration`, `ReadMap` (or
`GetNodeKvWriter_Raises`), `WriteMap`, `MarkOrderFulfilled` are those of
`fulfill_order`. `Saved` writes a status only if it differs from the remembered
one, as the session does. `Restart` forgets handlers and chat states;
`HandlerRaises` ends one handler between two commits.
`SelectorOutcomes = {"raises"}` is the code as it stands (the `await` at
`cp/domain/pools.py:43` covers the wrong expression, so every selection from a
pool raises and no configuration is created); `"node"` is the selector with that
parenthesis repaired. `KvOutcomes = {"raises"}` is the KV writer as it stands
(`cp/domain/kv_sync.py:47` uses `select` without importing it, so each
`sync_assignment` and `set_entry_status` raises before its first request);
`"works"` is the writer with the import. The safety runs allow both of both, so
that what lies behind them is examined as well; no liveness is claimed of a
repaired program. `synced` is a history variable: credentials that were ever
written to a map.

**`OrderActivation`** — the abstract promise: an order is *decided*, then
*activated* once with one configuration, for good. `OrderFlow!Promise`
instantiates it with a refinement mapping; `ApproveOnce` is its specification.

**`UsageTracker`** — the trackers of a set of connections; `net` is a set of
posted events that may arrive any number of times, in any order, or be lost.
`CutSlice` is the synchronous part of `flush()`. `slices` and `relayed` are
history variables. The threshold and the 30-second interval are one choice:
traffic may start a flush early (`TrackAndFlush`), must at the threshold.

**`UsageLedger`** — extends it with one configuration's rows in `usage_events`,
the trigger's `usage_daily_aggregates`, the clock's day and one reconciliation
pass: the ledger sums of the first SELECT (`BeginPass`), one row per later
SELECT (`ReadRow`), writes at the commit (`CommitPass`), where a row inserted
or deleted meanwhile refuses the transaction. `Drift` changes or deletes an
aggregate row by hand: what reconciliation exists to repair.

**`Billing`** — the abstract promise of usage accounting: a bill per connection that
only grows, within the traffic. `UsageLedger!Meter` maps the ledger's rows to the bill
and what was relayed to the traffic; `BilledOnce` is its specification.

**`SessionAdmission`** — connections of one configuration on one node with the
Durable Object bound. `/incr` and `/decr` are messages the counter handles one
at a time. `strays` counts releases and resets that were not owed (unmetered
connections, `abort` and `catch` both running `finalize`, evictions); `leaks`
counts slots taken that nobody will return (header errors after admission, lost
releases). Both are history variables: they exist to state *how far* the limit
degrades.

**`NodeProvisioning`** — `provision_node` as called by the bot, one action per
Cloudflare request, for two admins at once. `namespace` and `script` are
Cloudflare's side (external: titles of namespaces are unique, an upload replaces
a script and may switch its public route off); `row` is the `nodes` table.
Nothing compensates a failed chain: `ProvisioningFails` leaves what was created.
That is what makes `RowsAreDeployed` interesting, and why it holds: the title of
a namespace acts as the lock on the name, at the price that the name of a failed
attempt cannot be used again.

**`NodeHealth`** — extends it with the worker's health pass: `HealthCheckPass`
loads the rows, `CheckNodeOnce` probes one, `CommitPass` writes all. `up` is the
environment, `missed` a history variable that counts failures since the last
success; the code's own count does not outlive a pass. Two consequences are
visible in `Better` and `Worse`: a new node (score 0) needs two good passes to
be ONLINE, and a node at score 0 that fails is lowered from 100, as `score or
100` takes zero for missing.

**`ExpirySweep`** — the sweep that both worker and cron run. `sweeper[s]` is one
of them: the day it began, the result still to visit, the configurations whose
new status is `pending` in its session, the KV map it read. `Record` is
`_record` with its commit, which saves the pending statuses too; `End` is the
commit after the loop. `SetEntryStatusRaises` is the KV writer as it stands: `select` is not imported in
`cp/domain/kv_sync.py`, so each call raises before it reads anything; nothing catches that
before the loop of the service, so the sweep ends there, without the configurations
behind and with what it had pending rolled back. `KvOutcomes` allows this, the
repaired writer, or both.
`AlreadySent` raises when two rows match, which ends
the sweep and drops what was pending. `GetSubscription` expires a configuration
from the web process at the same time.

**`BotDialog`** — the bot's dialogue with one chat. `state` and `data` are the
dispatcher's memory; they change without an `await` in between, so a block of
`set_state` and `update_data` is one action, and `task[h]` is a handler between
two awaits with what it took along. `CardReady`, `Instruct`, `AskReason`,
`OpenDialog`, `AskRole` set a state late; `ClearLate` clears late. `order` and
`attempt` are the rows a dialogue makes: `FindOrder` and `InsertOrder` are the
look-up and the insert of `create_order`, the key being plan, minute and, for a
second order, `~first`. Messages go to the first handler registered: `AskAgain`,
`OnTestCustomer`, `OnRejectReason` and `OnNodeName` take a payment's message as
well, which is why `OnSuccessfulPayment` has a guard on the state.

**`CredentialMap`** — one node's map and all who write it whole: `writer[w]` is a
call of `sync_assignment` or `set_entry_status`, which raises
(`GetNodeKvWriterRaises`), works or fails (`WriterOutcomes`). **`EdgeCache`** extends it with
the isolates that read it: `lookup` are reads of KV under way (a connection looks
up on its own: the cache is not single-flight, whatever
`nw/settings/users.ts:10` says), `cache` the last map and its age, `past` what KV
may still answer, `since` how long ago a credential was active. A look-up whose
read throws (`ReadFails`) is answered with the map the isolate has, of whatever
age (`AcceptedOnOldMap`, `FallBack`), as `getProxyUserMap` does.

**`TestConfigs`** — the two ways to a test configuration, with the question
"has an active test?" and the insert as the separate steps they are.

**`RelayConnection`** — one TCP connection: the pipe from the WebSocket
(`WriteChunk`, `ChunkWritten`, `WriteRefused`, …), the sockets (`Dialed`,
`ReplyArrives`, `ReadableEnds`, …) and the retry. Chunks are numbers, `up` and
`down` what was emitted, `counted` what the tracker was told.

**`StartupSeeds`** — the start of a web instance, each seed statement by
statement, several instances at once. `pool_held` is the one row that is inserted
before its commit and makes others wait. `Raises` is the `except` of `lifespan`.
`owner_set` and `others` are what the bootstrap meets: whether `TELEGRAM_OWNER_ID`
is set, and whether somebody else is in the table of admins. In three of the four
cases it returns without an owner and without an error (`EnsureBootstrapOwner`,
`CountAdmins`), which `ReportedTruly` says.

Modules that share state extend each other (`NodeHealth` over
`NodeProvisioning`, `UsageLedger` over `UsageTracker`, `EdgeCache` over
`CredentialMap`). Four `MC` modules put independent models into one run:
`MCUsers`, `MCEdge`, `MCControlPlane` and `MCCredentials` choose `part` in the
initial state, and every step is a step of that part. `MCCredentials` has two
parts that are not modules of their own but restrictions of `OrderFlow`: *alone*
and *tight* only take steps after which `OneAtATime` holds (one update handled,
one node in use, no map misread). What holds there and not in *races* says where
a property needs the handlers to take turns. So the states explored are
the sum and not the product of the parts', each property is checked in exactly
the behaviours of its own module, and the fairness is that of each module. Two
models stand for one thing in different runs: the map of `CredentialMap` is one
`edge[n]` of `OrderFlow` and the `credential` of `ExpirySweep`; the orders of
`BotDialog` end where those of `OrderFlow` are approved.

`*Proofs` modules hold theorems. An
operator named `X_Something` next to `X` is a plausible bug in `X`, kept to
confirm that the properties notice it. Nothing uses it otherwise.

## Runs

| run | instance | shows |
|---|---|---|
| `orderflow` (`MCCredentials`) | *races*: 2 orders, 2 payments, 2 configurations, 2 nodes, 2 handlers, all faults, selector and KV writer both as they stand and repaired. *alone*, *tight*: the same, one update at a time, on one node for 2 or for 1 configuration. *cache*: 1 credential, 1 syncer, 1 sweeper, 1 isolate with 2 connections, TTL 1, lag 1, 1 fault | safety under every interleaving, and that the handlers implement `OrderActivation`; one at a time no half-provisioned order and capacity kept; what the cache accepts was active within the age of the map it is accepted on |
| `orderflow_retry` | 1 order, no fault, selector and writer as written | **violated**: an order stuck in PROVISIONING can be retried |
| `edge_window` | 1 isolate with 1 connection, TTL 1, lag 1, 1 failed read | **violated**: the cache's time bounds the latency of a revocation (`nw/settings/users.ts:10`) |
| `usage_repair` (`MCEdge`) | *usage*: 1 connection, 3 units, threshold 2, 2 days, 2 faults. *relay*: 1 connection, 4 chunks, 3 replies | slices, billing, aggregates and their repair, and that all of it implements `Billing`; one reply stream, chunks counted as emitted, connections finalized |
| `usage_final_flush` | 1 connection, no fault | **violated**: the final flush covers all that accumulated (`nw/usage/usage.ts:54`) |
| `session_faults` (`MCUsers`) | *sessions*: 5 connections, 2 slots, all faults. *customer*: 2 plans, 2 orders, 2 handlers, Stars, restarts. *admin*: 1 plan, 1 order, 2 minutes, 1 new admin. *tests*: 2 customers, 3 tests, 2 handlers | the limit degrades by the strays only; a dialogue has its data; repeated orders are absorbed; tests are bounded |
| `one_test` | 1 customer, 2 handlers, selector repaired | **violated**: one active test per customer (`cp/domain/test_configs.py:4`) |
| `node_health` (`MCControlPlane`) | *health*: 2 nodes, 2 names, 2 admins, 1 failed pass. *start*: 2 instances, 2 starts each, with and without an owner's id and other admins | rows are deployed, no flapping, what stays up comes ONLINE; seeded once, starts end and report truly |
| `node_offline` | health alone | **violated**: OFFLINE at five failures (`cp/domain/health.py:11`) |
| `sweep_races` | 2 sweepers, 2 configurations, 2 days, 1 fault, the KV writer both as it stands and repaired | nobody cut off early, bounded notifications, complete sweeps |
| `sweep_edge` | 1 sweeper, 1 used-up configuration, 1 expired test, no fault, the KV writer as written | **violated**: exhaustion and expiry reach the edge (`cp/domain/notifications.py:5`, `cp/domain/test_configs.py:6`) |
| `sweep_twice` | 2 sweepers, 1 configuration, no fault | **violated**: a customer is told a thing once a day (`cp/domain/notifications.py:61`) |

Two handlers are enough for each race the flow has, because every conflict is
between two read-then-write sequences on one row or one map; two orders and two
nodes let such a conflict mix rows that should not meet, and the second payment
of an order gives the repeated approval. One connection with three units cuts
up to three slices, so that a slice can be lost, repeated and overtaken; rows
of two connections never share a key, and what they share, the sum of a day, is
already contended by slices of one. Two days give a pass two rows to read with
commits in between. Five connections on two slots leave room for one lapse of
each kind and a refusal after it. Two admins on two names meet both conflicts of
provisioning (one name twice, and two names). One failed pass is enough, as a
failed pass writes nothing and the next starts from the same rows; probes fail
without bound. Two sweepers are the two services; two configurations of one
customer give the same notification twice, and two days give a sweep that runs
past midnight; a sweep remembers the one day it began on, and a look-up is about
one day, so that a third day would only repeat the second.
Two handlers of one chat are two updates that overlap, which is what a late state
needs; two plans give two keys, and two orders a repeated one; the admin's dialogue
makes no order, so one is enough to reject. Four chunks are the dialled one, one that meets
its lock, and two more for the second socket; three replies are a first
and a later one of one socket and one that must not come from the other. A cache
of age 1 and a lag of 1 tell apart fresh, lagging and too old (`Horizon` 3); two
connections of one isolate are a slow read that replaces the map of a quick one, and
a failed read beside a good one; isolates share nothing but KV, and the theorem
`AlwaysWithinWindow` holds for any number of either. Two instances that start twice
are a rolling deployment that is repeated.
Bounds: `MaxBytes`, `LastDay`, `MaxFaults`, `MaxSyncs`, `MaxChunks`, `MaxReplies`,
`MaxBoots`, `MaxMinute`, `Horizon`; row ids and connections are used once,
and `missed` stays at five.

**Deadlock** is checked where the system cannot stop (sweeps, tests, and the two
violated runs of usage and health: their loops and users go on). Elsewhere everything may
have happened: every id is used up, the connection is over, every start was made.

**Fairness.** `UsageLedger!FairSpec`: the worker's loop catches
every exception and runs a pass each five minutes; nothing is assumed of nodes,
network or clock, and failures and drifts are finitely many (`MaxFaults`).
`NodeHealth!FairSpec`: the same of the health loop, each minute; nothing of
admins or the reachability of nodes. `RelayConnection!FairSpec`: the Workers runtime
delivers events and settles writes and dials (`Runtime`); neither client nor upstream
owes anything. `StartupSeeds!SeedsFairSpec`: a start that can go on does.
`ExpirySweep!FairSpec`: each service goes on with its sweep (both loops catch
exceptions and sleep); days and customers need do nothing. It is stated for
`sweep_edge`, whose counterexample is therefore no sweep that merely stopped.
Of approvals, revocations and expiries no liveness is claimed: as the program stands
they do not come to their end (findings 1 and 5).

## Findings

1. No approval succeeds: the node selector raises for every pool
   (`cp/domain/pools.py:43`); the order stays in PROVISIONING (`orderflow_retry`).
2. "Retry approval" does not exist once a payment is APPROVED
   (`cp/bot/router.py:604`, same run).
3. The final flush is skipped while another runs (`usage_final_flush`).
4. No node is ever OFFLINE, so failover moves nothing (`node_offline`; for every
   number of nodes and failures: `FailoverHasNoWork`).
5. No credential is ever disabled. `set_entry_status` raises on each call
   (`cp/domain/kv_sync.py:47`), and a sweep that meets a used-up configuration ends
   there; an expiry never calls it, and a test configuration is not even
   loaded by the sweep (`sweep_edge`).
6. A customer may be told the same thing twice a day: look-up and insert are
   apart, without a unique key, in two services (`sweep_twice`). The second row then
   makes `scalar_one_or_none` raise in every sweep of that day.
7. When KV cannot be read, an isolate accepts on a map of any age (`edge_window`).
8. A customer may get two active tests at once (`one_test`), once the selector of
   finding 1 lets a test be created at all.

How far 6 to 8 go is bounded by properties that hold: messages of one kind and day by
the sweepers and the customer's configurations (`ToldOncePerSweeper`), active tests by
the updates handled at a time (`TestsBounded`), the age of what is accepted by the age
of the map and KV's lag (`AcceptedWithinWindow`).

Two degradations are bounded by properties that hold: a reconciliation pass may
take a fresh event off the aggregate until a later pass, never raise it above
the ledger (`AggregateWithinLedger`); a socket error may release a session
twice, and the limit gives way by exactly such strays (`LimitHeldUpToStrays`).

With interleaved admins, a verdict is not final: a rejection and an approval of
one payment both pass their guards and the later commit wins. No property says
which remains; `ApproveOnce` and `ActivationSound` say what holds either way. `kv_misread` (a KV
error page read as an empty map) wipes a node's credentials; it, lost updates of
the map and a retry on another node are why `NeverHalfProvisioned` is checked of
the part *alone* only. What is left of it in every interleaving is
`SyncedBeforeFulfilled`: no order is finished before its credential was written.

Met while modelling, and not run as violations because no document of the
repository promises the contrary, or because a model would only repeat the line:

- *Nothing reaches a pool or a map.* Behind the selector of finding 1,
  `sync_assignment` raises as `set_entry_status` does. No code inserts a
  `pool_nodes` row, so a repaired selector would find no node.
  `decommission_node` and `extend_configuration` have no caller. `tr:` keys are
  read by the worker and written by nobody.
- *Fulfilment.* A retry selects a node afresh while an existing configuration
  keeps its assignment (`cp/domain/fulfillment.py:65`), so its credential may be
  written to another node: `NeverHalfProvisioned` needs one node, as
  `CapacityKept` needs one handler at a time (the capacity is read at the selection, the
  count raised at the commit).
- *Dialogue.* The payment handler is registered last (`cp/bot/router.py:919`), so
  each handler that waits for a text takes a Stars payment's message for an answer.
  A repeated request returns the first order with its older name
  (`cp/domain/orders.py:74`). The flag of a test request outlives its dialogue, and
  a rejection's reason is then taken for a customer's id.
- *Edge.* Two connections read KV each for themselves, whatever
  `nw/settings/users.ts:10` says of single-flight.
- *Maps.* Two writers write the whole map each: a sync undoes a disabling of the
  sweep, and a sweep loses a new credential.
- *Health.* A new node is announced as ONLINE in the next cycle
  (`cp/bot/router.py:829`); its score of 0 takes two good passes.
- *Relay.* A second chunk that arrives while the first is written kills the
  connection; the retry dials for a client that has left, sends and counts the
  first chunk again, and loses the chunks written to the first socket; when it gives
  up, the WebSocket stays open.
- *Start.* Errors of the gaming seed are swallowed (`cp/domain/gaming.py:100`): plans are
  then seeded without a profile, and overlapping starts can publish a second version.
- *Sweep.* Tests are ignored for quota, too, not for expiry only.

## Proofs

For every value of the constants, from the named assumptions in the modules.
Each safety invariant and action property that a run checks, but for the liveness
properties and the two of the part *alone* (below), is also a theorem. `TypeOK` and its like apart, none is
inductive alone; each paragraph names the strengthening and why it is needed.

- `OrderFlowProofs` — `TypeCorrect`, then `ActivationSound`,
  `FulfilledHasConfig`, `CredentialsBacked`,
  `CountNeverOverstates`, `VerdictBeforeConfig` (a configuration's order has a decided
  payment: an invariant the runs check as part of `ApproveOnce`), and `Refinement`
  (`Spec => ApproveOnce`). The invariants are not inductive alone, because a handler acts on what it
  remembers: `Safe` says for each step label what the memory still
  guarantees (a handler that creates a configuration holds an order whose
  payment was decided; one about to finish holds a configuration that exists;
  the map a handler read is within the configurations that exist; the count it
  remembers is at most the node's assignments). Memory stays valid because rows
  are never deleted, decisions never revoked to *undecided*, and assignments
  only grow. The refinement uses the activation row's unique key.

  `AlwaysSyncedFirst`: a handler about to finish holds the configuration of its order,
  found or created, and has written its credential, and `synced` only grows.

- `UsageLedgerProofs` — `LedgerTyped`, `RowsAlwaysSlices`, `NobodyOverbilled`,
  `AggregateNeverAhead`, `BillsOnce`. `LedgerInv`: a tracker's number is the length of
  its slice history, and every event in flight is the slice of its number; histories
  are only appended to (`CutExtends`), and uniqueness is the ledger's key.
  `SlicesWithin`: what was cut and what the tracker holds is within the traffic, so
  that rows, which are distinct slices, are too (`RowsWithinSlices`). A sum of rows
  is the cardinality of the units they account for (`Units`), which needs no
  recursion: `RowAdds` and `FewerRows` are the two facts about it. `AggregateInv`: the
  sums a pass holds are of rows still there, hence at most the ledger of the day
  whenever it commits them. `BillsOnce` is the refinement of `Billing`: an
  ingested row is its `Charge`, relayed traffic its `Relay`, all else stutters; it
  uses that rows are never deleted and `NeverOverbilled` after the step.
- `RelayConnectionProofs` — `InvAlways`, of one connection. The retry is what puts the
  sockets in order: `SocketsInOrder` says that the second is dialled only after the
  first has ended without a reply, `Replies` that whatever a socket delivered it was
  read for, and `Emissions` that no chunk is emitted before its turn and the first one
  only on a socket that was dialled.
- Of the composition `MCEdge` (in `UsageLedgerProofs`): `EdgeTyped`,
  `RepliesAlwaysOneStream`, `CountsAlwaysEmitted`, and `LedgerInEdge`.
- `UsersProofs` — of the sessions `CounterTyped`, `LimitAlwaysHeldUpToStrays`,
  `SlotsAlwaysAccountedFor`. `SlotsCovered`: connections holding a
  slot and releases on their way are within the counter plus the strays. The
  limit follows as the counter is within `0..DeviceLimit`; cardinality lemmas
  carry the moves of one connection in and out of the holders. `FaultsExplain` adds
  which faults make strays and leaks at all: `LimitExact` (no counter error, reset or
  stream error: the limit is exact, even with lost releases and bad headers) and
  `SlotsComeBack` (no bad header, counter error or lost release: no slot is lost).
  Of the tests `TestsAlwaysBounded`: active tests and handlers that have asked and not
  inserted yet are together at most the handlers (`OnTheirWay`). Of the composition
  `MCUsers`: `ChatAlwaysTyped`, `DataAlwaysThere`, `RepeatsAlwaysAbsorbed` (for the
  customer and the admin), `SessionsInUsers`.
- `BotDialogProofs` — `DialogTyped`, `AlwaysHasData`, `AlwaysAbsorbed`, of one chat. The
  strengthening says what a handler between two awaits still knows of the rows
  (`TasksInHand`), that a payment's order is placed (`PaymentsPlaced`), and that a plain key
  has one order and a suffixed one follows its payment (`KeysUnique`). `RowsGrow`
  carries it over the other handlers' steps: rows stay, with their key and plan.
- `ControlPlaneProofs` — of the nodes `HealthTyped`, `RowsAlwaysDeployed`,
  `FailoverHasNoWork`, `NeverFlaps`. `ProvisioningInv` says at which step of a job which
  resources exist and whose they are: a job past `CreateNamespace` owns the namespace of
  its name, so no two jobs past it share a name, and none shares it with a row.
  `HealthInv` adds what a running pass has found (it was computed from the rows
  that are still stored, as nobody else writes them), that no state is OFFLINE,
  and how far the score of an ONLINE node may have fallen for the failures
  counted (`NeverFlaps` follows from it). Of the start `StartTyped`,
  `AlwaysSeededOnce`, `AlwaysReportedTruly`: whoever seeds plans holds the
  pool's row, inserted and not committed, which lets one instance at a time past it; the
  last version of the profile is the current one; and an instance without a
  failed start saw plans, and an OWNER unless the bootstrap steps back. `PartsInControl` is of the composition.
- `ExpirySweepProofs` — `SweepTyped`, `NeverCutOffEarly`, `SweepAlwaysComplete`,
  `NeverToldMore`. `SweepInv` says of each sweep what it relies on (`Sound`): the day it
  began on is not after today, what it holds pending was due on that day, every
  configuration due on that day is EXPIRED, in its queue or pending, and the map
  it will write back disables exhausted configurations only. `SoundStays` is the
  reason this survives the other sweeps: days, exhaustion and EXPIRED only grow.
  `NeverToldMore` counts: `TallyInv` attributes each message of today to a pair of a
  sweeper and a configuration that will not record another today (`Attributed`).
  Such a pair is spent because the sweep has left the configuration, and stays
  spent because a later sweep of that service looks the message up first and finds it.
- `EdgeCacheProofs` — `CacheTyped`, `AlwaysWithinWindow`, for any number of isolates,
  look-ups, writers and credentials. The strengthening ages with the clock: a map of
  age *a* in a cache, and an answer under way, hold as active only what KV held active
  within *a* plus its lag; a map that is too old keeps its age, so that the same
  holds of a look-up that falls back on it.

A composition's proof is that of its parts. A behaviour of `EdgeSpec`, `UserSpec` or
`ControlSpec` is a behaviour of each part, as every step of another part leaves it
alone; the invariants of the parts are conjoined, and a part's theorem transfers.
Where a part is itself an instance (the relay of `MCEdge`, the two chats of
`MCUsers`), its proof module is instantiated in the same way, and lemmas
(`SameRelay`, `SameCustomer`, `SameAdmin`) state that both instances define the same
initial states, steps and properties.

Assumptions are ASSUMEs of the module that declares the constants, which TLC evaluates
in every run: finiteness of the sets that are counted, bounds that are naturals, and
distinct model values. Those of `BotDialog`, `TestConfigs` and `RelayConnection`, which have
instances with constants of their own inside one run, are definitions
(`DialogAssumption`, …) that the MC module ASSUMEs of each instance
(`EdgeAssumption`, `UsersAssumption`), and the theorems of those modules have them as a
hypothesis.

Only model-checked: liveness (`EventuallyReconciled`, `UpComesOnline`, `Finalized`,
`StartEnds`), because the prover has no rules for fairness and ENABLED; and
`AloneNeverHalfProvisioned` and `AloneCapacityKept`, which the webhook does not
ensure, so that a proof for every instance would be one of another program.

## Not modelled, and the plan

Left out for good: cryptography, rendering of URIs and texts, the RBAC table, the
audit log (nothing reads it, and its errors are swallowed), socket I/O, random suffixes.

`failover_offline_nodes` is not modelled either: `FailoverHasNoWork` proves that it
never has a node to empty, so that a model of its loop would model no
behaviour of this program. The same holds of `decommission_node` and
`extend_configuration`, which nobody calls. Both become worth modelling when the
failure counts are kept, or a caller is added: failover beside the
handlers of `OrderFlow` that assign configurations to the node being emptied, and
decommissioning under a running health pass.

Next, in this order:

1. An abstract set of accepted credentials, and `EdgeCache` as its refinement;
   proofs of what the expected violations leave true (what a retried
   order keeps, what a late flush loses).
2. DNS over UDP in the relay.
