---------------------------- MODULE ExpirySweep ----------------------------
(***************************************************************************)
(* The expiry and quota sweep (control-plane/domain/notifications.py),     *)
(* which two services run every five minutes, the worker and the cron      *)
(* service.  A sweep loads the active configurations and works through     *)
(* them; a status it changes is pending in its session until the next      *)
(* commit, which is the record of a notification or the end of the sweep.  *)
(* notifications_log has no unique key.  All configurations here have      *)
(* their credential in the KV map of one node.                             *)
(***************************************************************************)
EXTENDS Naturals, FiniteSets

CONSTANTS
    Configs,
    Tests,        \* configurations with is_test
    Customers,
    Sweepers,
    None,
    ExpiryDays,   \* days on which configurations may expire
    WarnDays,     \* EXPIRY_WARN_DAYS
    LastDay,      \* bound: days that pass
    KvOutcomes,   \* subset of {"works", "raises"}: see SetEntryStatusRaises
    MaxFaults     \* bound: sweeps cut short, KV requests refused or misread

Kinds == {"expired", "expiry_warn", "quota_exhausted", "quota_warn"}

ASSUME SweepAssumption ==
    /\ IsFiniteSet(Configs) /\ IsFiniteSet(Sweepers)
    /\ Tests \subseteq Configs
    /\ None \notin Configs \cup Kinds
    /\ ExpiryDays \subseteq Nat
    /\ WarnDays \in Nat
    /\ LastDay \in Nat
    /\ KvOutcomes \subseteq {"works", "raises"}
    /\ MaxFaults \in Nat

Days == 0..LastDay

VARIABLES
    owner,       \* the customer of each configuration
    expires,     \* the day each configuration expires
    day,
    used,        \* each configuration's share of its quota
    status,      \* configurations.status
    credential,  \* status of each entry in the KV map
    log,         \* rows of notifications_log per customer, kind and day
    sweeper,     \* the local state of each sweep
    faults

vars == <<owner, expires, day, used, status, credential, log, sweeper, faults>>

Levels == {"low", "high", "exhausted"}
Statuses == {"ACTIVE", "EXPIRED"}
Entries == {"active", "disabled"}
Steps == {"idle", "next", "quota", "write", "check", "record"}
Sweeps == [at : Steps, today : Days, queue : SUBSET Configs,
           config : Configs \cup {None}, kind : Kinds \cup {None},
           pending : SUBSET Configs, map : [Configs -> Entries] \cup {None}]
Idle == [at |-> "idle", today |-> 0, queue |-> {}, config |-> None,
         kind |-> None, pending |-> {}, map |-> None]

TypeOK ==
    /\ owner \in [Configs -> Customers]
    /\ expires \in [Configs -> ExpiryDays]
    /\ day \in Days
    /\ used \in [Configs -> Levels]
    /\ status \in [Configs -> Statuses]
    /\ credential \in [Configs -> Entries]
    /\ log \in [Customers \X Kinds \X Days -> Nat]
    /\ sweeper \in [Sweepers -> Sweeps]
    /\ \A s \in Sweepers :
           /\ sweeper[s].at \notin {"idle", "next"} => sweeper[s].config \in Configs
           /\ sweeper[s].at = "record" => sweeper[s].kind \in Kinds
           /\ sweeper[s].at = "write" => sweeper[s].map \in [Configs -> Entries]
    /\ faults \in 0..MaxFaults

Init ==
    /\ owner \in [Configs -> Customers]
    /\ expires \in [Configs -> ExpiryDays]
    /\ day = 0
    /\ used = [c \in Configs |-> "low"]
    /\ status = [c \in Configs |-> "ACTIVE"]
    /\ credential = [c \in Configs |-> "active"]
    /\ log = [k \in Customers \X Kinds \X Days |-> 0]
    /\ sweeper = [s \in Sweepers |-> Idle]
    /\ faults = 0

----------------------------------------------------------------------------
Swept == Configs \ Tests
Due(c, d) == expires[c] <= d

Begin(s) ==
    /\ sweeper[s].at = "idle"
    /\ sweeper' = [sweeper EXCEPT ![s] = [Idle EXCEPT
           !.at = "next", !.today = day,
           !.queue = {c \in Swept : status[c] = "ACTIVE"}]]
    /\ UNCHANGED <<owner, expires, day, used, status, credential, log, faults>>

Onward_ConfigForgotten(local, kind) ==
    IF kind = "expiry_warn"
    THEN [local EXCEPT !.at = "quota", !.kind = None, !.config = None]
    ELSE [local EXCEPT !.at = "next", !.kind = None, !.config = None]

\* Where the loop goes on once a notification is dealt with.
Onward(local, kind) ==
    IF kind = "expiry_warn"
    THEN [local EXCEPT !.at = "quota", !.kind = None]
    ELSE [local EXCEPT !.at = "next", !.kind = None, !.config = None]

AlreadySent_OtherDay(s, local, kind) ==
    LET rows == log[<<owner[local.config], kind, 0>>] IN
    sweeper' = [sweeper EXCEPT ![s] =
        CASE rows = 0 -> [local EXCEPT !.at = "record", !.kind = kind]
          [] rows = 1 -> Onward(local, kind)
          [] OTHER -> Idle]

\* _already_sent: without a row the customer is notified, whose answer is
\* not looked at; scalar_one_or_none raises on two rows, which closes the
\* session: what was pending is lost, and so are the configurations left.
AlreadySent(s, local, kind) ==
    LET rows == log[<<owner[local.config], kind, local.today>>] IN
    sweeper' = [sweeper EXCEPT ![s] =
        CASE rows = 0 -> [local EXCEPT !.at = "record", !.kind = kind]
          [] rows = 1 -> Onward(local, kind)
          [] OTHER -> Idle]

CheckQuota_WarnsLate(s, local) ==
    IF used[local.config] = "low"
    THEN sweeper' = [sweeper EXCEPT ![s] = Onward(local, None)]
    ELSE sweeper' = [sweeper EXCEPT ![s] =
             [local EXCEPT !.at = "write", !.map = credential]]

\* percent >= 100: the map is read; percent >= 80: a warning; or neither.
CheckQuota(s, local) ==
    CASE used[local.config] = "exhausted" ->
             sweeper' = [sweeper EXCEPT ![s] =
                 [local EXCEPT !.at = "write", !.map = credential]]
      [] used[local.config] = "high" -> AlreadySent(s, local, "quota_warn")
      [] OTHER -> sweeper' = [sweeper EXCEPT ![s] = Onward(local, None)]

\* The next configuration of the result, whose order is the database's.
Visited(s, c) == [sweeper[s] EXCEPT !.config = c, !.queue = @ \ {c}]
Visit(s, c) ==
    /\ sweeper[s].at = "next"
    /\ c \in sweeper[s].queue
    /\ UNCHANGED <<owner, expires, day, used, status, credential, log, faults>>

Expire_NotPending(s, c) ==
    /\ Visit(s, c)
    /\ Due(c, sweeper[s].today)
    /\ AlreadySent(s, Visited(s, c), "expired")

Expire(s, c) ==
    /\ Visit(s, c)
    /\ Due(c, sweeper[s].today)
    /\ AlreadySent(s, [Visited(s, c) EXCEPT !.pending = @ \cup {c}], "expired")

WarnOfExpiry(s, c) ==
    /\ Visit(s, c)
    /\ ~Due(c, sweeper[s].today)
    /\ Due(c, sweeper[s].today + WarnDays)
    /\ AlreadySent(s, Visited(s, c), "expiry_warn")

NotNearExpiry(s, c) ==
    /\ Visit(s, c)
    /\ ~Due(c, sweeper[s].today + WarnDays)
    /\ CheckQuota(s, Visited(s, c))

Commit(s) ==
    status' = [c \in Configs |->
        IF c \in sweeper[s].pending THEN "EXPIRED" ELSE status[c]]

\* The row carries the day of its commit, which may be a later one than the
\* day that was looked up.
Record(s) ==
    /\ sweeper[s].at = "record"
    /\ log' = [log EXCEPT ![<<owner[sweeper[s].config], sweeper[s].kind, day>>] = @ + 1]
    /\ Commit(s)
    /\ sweeper' = [sweeper EXCEPT ![s] = 
           [Onward(@, @.kind) EXCEPT !.pending = {}]]
    /\ UNCHANGED <<owner, expires, day, used, credential, faults>>

QuotaAfterWarning(s) ==
    /\ sweeper[s].at = "quota"
    /\ CheckQuota(s, sweeper[s])
    /\ UNCHANGED <<owner, expires, day, used, status, credential, log, faults>>

\* The whole map is written back, with one entry disabled.
SetEntryStatus(s) ==
    /\ "works" \in KvOutcomes
    /\ sweeper[s].at = "write"
    /\ credential' = [sweeper[s].map EXCEPT ![sweeper[s].config] = "disabled"]
    /\ sweeper' = [sweeper EXCEPT ![s].at = "check", ![s].map = None]
    /\ UNCHANGED <<owner, expires, day, used, status, log, faults>>

\* The namespace is not found, or the map was misread as empty: nothing is
\* written, and the sweep goes on as if it were.
EntryNotFound(s) ==
    /\ "works" \in KvOutcomes
    /\ faults < MaxFaults
    /\ sweeper[s].at = "write"
    /\ sweeper' = [sweeper EXCEPT ![s].at = "check", ![s].map = None]
    /\ faults' = faults + 1
    /\ UNCHANGED <<owner, expires, day, used, status, credential, log>>

\* get_node_kv_writer as it stands: `select` is not imported, so that it
\* raises on every call.  Nothing catches it before the loop of the service.
SetEntryStatusRaises(s) ==
    /\ "raises" \in KvOutcomes
    /\ sweeper[s].at = "write"
    /\ sweeper' = [sweeper EXCEPT ![s] = Idle]
    /\ UNCHANGED <<owner, expires, day, used, status, credential, log, faults>>

NotifyExhausted(s) ==
    /\ sweeper[s].at = "check"
    /\ AlreadySent(s, sweeper[s], "quota_exhausted")
    /\ UNCHANGED <<owner, expires, day, used, status, credential, log, faults>>

End(s) ==
    /\ sweeper[s].at = "next"
    /\ sweeper[s].queue = {}
    /\ Commit(s)
    /\ sweeper' = [sweeper EXCEPT ![s] = Idle]
    /\ UNCHANGED <<owner, expires, day, used, credential, log, faults>>

\* A query, a commit or a KV write raises, or the service is restarted.
SweepFails(s) ==
    /\ faults < MaxFaults
    /\ sweeper[s].at # "idle"
    /\ sweeper' = [sweeper EXCEPT ![s] = Idle]
    /\ faults' = faults + 1
    /\ UNCHANGED <<owner, expires, day, used, status, credential, log>>

----------------------------------------------------------------------------
\* The subscription endpoint expires a configuration when it is fetched.
GetSubscription(c) ==
    /\ status[c] = "ACTIVE"
    /\ Due(c, day)
    /\ status' = [status EXCEPT ![c] = "EXPIRED"]
    /\ UNCHANGED <<owner, expires, day, used, credential, log, sweeper, faults>>

\* Traffic reported for the current period.
Use(c) ==
    /\ used[c] # "exhausted"
    /\ used' = [used EXCEPT ![c] = IF @ = "low" THEN "high" ELSE "exhausted"]
    /\ UNCHANGED <<owner, expires, day, status, credential, log, sweeper, faults>>

NextDay ==
    /\ day < LastDay
    /\ day' = day + 1
    /\ UNCHANGED <<owner, expires, used, status, credential, log, sweeper, faults>>

----------------------------------------------------------------------------
Sweep(s) ==
    \/ Begin(s)
    \/ \E c \in Configs : Expire(s, c) \/ WarnOfExpiry(s, c) \/ NotNearExpiry(s, c)
    \/ Record(s)
    \/ QuotaAfterWarning(s) \/ SetEntryStatus(s) \/ SetEntryStatusRaises(s)
    \/ NotifyExhausted(s)
    \/ End(s)

Next ==
    \/ \E s \in Sweepers : Sweep(s) \/ EntryNotFound(s) \/ SweepFails(s)
    \/ \E c \in Configs : GetSubscription(c) \/ Use(c)
    \/ NextDay

Spec == Init /\ [][Next]_vars

\* Both services loop for as long as they live; customers and time need not
\* do anything.
FairSpec == Spec /\ \A s \in Sweepers : WF_vars(Sweep(s))

----------------------------------------------------------------------------
\* A sweep that ends has expired every configuration that was due when it
\* began, although its writes wait for somebody's commit.
SweepComplete ==
    [][\A s \in Sweepers : End(s) =>
          \A c \in Swept : Due(c, sweeper[s].today) => status'[c] = "EXPIRED"]_vars

\* Nobody is cut off early: neither by a status nor at the edge.
NobodyCutOffEarly ==
    \A c \in Configs :
        /\ status[c] = "EXPIRED" => Due(c, day)
        /\ credential[c] = "disabled" => used[c] = "exhausted"

\* What the sweep's comments promise: it is idempotent per customer, kind of
\* message and day.  Two sweeps that both find a message unsent break it.
ToldOncePerDay ==
    \A p \in Customers, k \in Kinds, d \in Days : log[<<p, k, d>>] <= 1

\* How far that lapses.  Two sweeps may both find a notification unsent, and
\* a sweep that runs past midnight looks up one day and records another; still
\* a customer is told a thing no more often in a day than once per sweep
\* service and configuration: duplicates stop the sweeps that follow.
ToldOncePerSweeper ==
    \A p \in Customers, k \in Kinds, d \in Days :
        log[<<p, k, d>>]
            <= Cardinality(Sweepers) * Cardinality({c \in Configs : owner[c] = p})

\* What the comments promise of the edge: exhaustion and expiry, of a test
\* too, disable an entry.  So with a configuration that is used up and a test
\* that has expired, some entry is disabled in the end.
RevocationReachesEdge ==
    (/\ \E c \in Swept : used[c] = "exhausted" /\ ~Due(c, LastDay)
     /\ \E c \in Tests : Due(c, day))
        ~> \E c \in Configs : credential[c] = "disabled"
=============================================================================
