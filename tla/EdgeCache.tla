----------------------------- MODULE EdgeCache ------------------------------
(***************************************************************************)
(* The lookup of a credential at the edge (node-worker/src/settings/       *)
(* users.ts) over the map that CredentialMap's writers keep.  Each isolate *)
(* has the map it read last and the time it asked for it; every connection *)
(* looks up on its own, so that one isolate may have several reads of KV   *)
(* under way.                                                              *)
(*                                                                         *)
(* Times are ages, which Tick increments and Horizon bounds.  KV itself is *)
(* eventually consistent: a read may answer with a value that was replaced *)
(* up to Lag ticks ago.                                                    *)
(***************************************************************************)
EXTENDS CredentialMap

CONSTANTS
    Isolates,
    Connections,  \* lookups of one isolate at a time
    TTL,          \* CACHE_TTL_MS
    Lag,          \* how stale a read of KV may be
    Horizon       \* bound: the greatest age that is told apart

ASSUME CacheAssumption ==
    /\ TTL \in Nat
    /\ Lag \in Nat
    /\ Horizon \in Nat
    /\ TTL + Lag < Horizon

Ages == 0..Horizon
Older(n) == IF n < Horizon THEN n + 1 ELSE n
Lookups == Isolates \X Connections

VARIABLES
    past,    \* values of KV that were replaced, with their age
    since,   \* how long ago each credential was active in KV
    cache,   \* cachedMap and the age of cachedAt, per isolate
    lookup   \* lookups of KV under way, and the age of their `now`

edgeVars == <<past, since, cache, lookup>>
cacheVars == <<mapVars, edgeVars>>

NoLookup == [at |-> "idle", cred |-> Nothing, age |-> 0, map |-> NoMap]
NoCache == [map |-> Nothing, age |-> Horizon]

CacheTypeOK ==
    /\ MapTypeOK
    /\ past \subseteq [map : Maps, age : 0..Lag]
    /\ since \in [Credentials -> Ages]
    /\ cache \in [Isolates -> [map : Maps \cup {Nothing}, age : Ages]]
    /\ lookup \in [Lookups -> [at : {"idle", "get", "got", "failed"},
                               age : Ages, cred : Credentials \cup {Nothing}, map : Maps]]
    /\ \A l \in Lookups : lookup[l].at # "idle" => lookup[l].cred \in Credentials

CacheInit ==
    /\ MapInit
    /\ past = {}
    /\ since = [c \in Credentials |-> Horizon]
    /\ cache = [i \in Isolates |-> NoCache]
    /\ lookup = [l \in Lookups |-> NoLookup]

\* The writers' side: KV remembers what was replaced.
ControlPlane ==
    /\ past' = IF kv' = kv THEN past ELSE past \cup {[map |-> kv, age |-> 0]}
    /\ since' = [c \in Credentials |->
           IF "active" \in {kv[c], kv'[c]} THEN 0 ELSE since[c]]
    /\ UNCHANGED <<cache, lookup>>

Tick ==
    /\ past' = {[p EXCEPT !.age = @ + 1] : p \in {q \in past : q.age < Lag}}
    /\ since' = [c \in Credentials |->
           IF kv[c] = "active" THEN 0 ELSE Older(since[c])]
    /\ cache' = [i \in Isolates |-> [cache[i] EXCEPT !.age = Older(@)]]
    /\ lookup' = [l \in Lookups |->
           IF lookup[l].at = "idle" THEN lookup[l]
           ELSE [lookup[l] EXCEPT !.age = Older(@)]]
    /\ UNCHANGED mapVars

----------------------------------------------------------------------------
Cached(i) == cache[i].map # Nothing
Fresh(i) == Cached(i) /\ cache[i].age < TTL

\* A lookup that the isolate answers without asking KV.
Served(i, c) == Fresh(i) /\ cache[i].map[c] = "active"

GetProxyUserMap(l, c) ==
    /\ lookup[l].at = "idle"
    /\ ~Fresh(l[1])
    /\ lookup' = [lookup EXCEPT ![l] = [@ EXCEPT !.at = "get", !.cred = c, !.age = 0]]
    /\ UNCHANGED <<mapVars, past, since, cache>>

\* A key that does not exist reads as the empty map.
KvAnswers(l) ==
    /\ lookup[l].at = "get"
    /\ \E m \in {kv} \cup {p.map : p \in past} :
           lookup' = [lookup EXCEPT ![l] = [@ EXCEPT !.at = "got", !.map = m]]
    /\ UNCHANGED <<mapVars, past, since, cache>>

Store_TimeOfAnswer(l) ==
    /\ lookup[l].at = "got"
    /\ cache' = [cache EXCEPT ![l[1]] = [map |-> lookup[l].map, age |-> 0]]
    /\ lookup' = [lookup EXCEPT ![l] = NoLookup]
    /\ UNCHANGED <<mapVars, past, since>>

\* cachedAt is the time before the read; a map that was read later may be
\* replaced by one that was read earlier.
Store(l) ==
    /\ lookup[l].at = "got"
    /\ cache' = [cache EXCEPT ![l[1]] =
           [map |-> lookup[l].map, age |-> lookup[l].age]]
    /\ lookup' = [lookup EXCEPT ![l] = NoLookup]
    /\ UNCHANGED <<mapVars, past, since>>

ReadFails(l) ==
    /\ faults < MaxFaults
    /\ lookup[l].at = "get"
    /\ lookup' = [lookup EXCEPT ![l] = [@ EXCEPT !.at = "failed"]]
    /\ faults' = faults + 1
    /\ UNCHANGED <<kv, exhausted, writer, syncs, past, since, cache>>

\* A lookup whose read threw is answered with the map the isolate has,
\* however old that is.
AcceptedOnOldMap(l) ==
    /\ lookup[l].at = "failed"
    /\ Cached(l[1])
    /\ cache[l[1]].map[lookup[l].cred] = "active"

\* The answer is given, and the map keeps its age.
FallBack(l) ==
    /\ lookup[l].at = "failed"
    /\ lookup' = [lookup EXCEPT ![l] = NoLookup]
    /\ UNCHANGED <<mapVars, past, since, cache>>

Evict(i) ==
    /\ cache' = [cache EXCEPT ![i] = NoCache]
    /\ lookup' = [l \in Lookups |-> IF l[1] = i THEN NoLookup ELSE lookup[l]]
    /\ UNCHANGED <<mapVars, past, since>>

LookupStep(l) == KvAnswers(l) \/ Store(l) \/ FallBack(l)

CacheNext ==
    \/ MapNext /\ ControlPlane
    \/ Tick
    \/ \E l \in Lookups :
           \/ \E c \in Credentials : GetProxyUserMap(l, c)
           \/ LookupStep(l) \/ ReadFails(l)
    \/ \E i \in Isolates : Evict(i)

CacheSpec == CacheInit /\ [][CacheNext]_cacheVars

----------------------------------------------------------------------------
\* An isolate that has a map younger than the cache's time accepts only what
\* KV held active within that time and KV's own lag; on KV's answer it
\* accepts what was active within the wait and that lag; and on the old map,
\* when the read fails, what was active within the age of that map and the
\* lag: also when a slow read has replaced the map of a quick one.
AcceptedWithinWindow ==
    /\ \A i \in Isolates, c \in Credentials : Served(i, c) => since[c] < TTL + Lag
    /\ \A l \in Lookups :
           LET c == lookup[l].cred IN
           lookup[l].at = "got" /\ lookup[l].map[c] = "active"
               => since[c] <= lookup[l].age + Lag
    /\ \A l \in Lookups : AcceptedOnOldMap(l)
           => since[lookup[l].cred] <= cache[l[1]].age + Lag

\* What users.ts and kv_sync.py say of a revocation: its latency is bounded
\* by the cache's time, here with KV's lag and the wait on top.
RevocationBounded ==
    \A l \in Lookups : AcceptedOnOldMap(l)
        => since[lookup[l].cred] <= TTL + Lag + lookup[l].age

=============================================================================
