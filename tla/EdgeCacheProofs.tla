-------------------------- MODULE EdgeCacheProofs ---------------------------
(***************************************************************************)
(* How long the edge can go on accepting a credential, for any number of   *)
(* credentials, writers, isolates and connections, any cache time and any  *)
(* lag of KV.  A map that holds a credential as active was the value of KV *)
(* at some time: the age of the map bounds how long ago that was.          *)
(***************************************************************************)
EXTENDS EdgeCache, TLAPS

\* KV's value and those it replaced, those lookups got and those that are
\* cached, each against the time since the credential was active in KV.
KvKnown == \A c \in Credentials : kv[c] = "active" => since[c] = 0
PastKnown ==
    \A p \in past, c \in Credentials : p.map[c] = "active" => since[c] <= p.age
LookupKnown ==
    \A l \in Lookups, c \in Credentials :
        lookup[l].at = "got" /\ lookup[l].map[c] = "active"
            => since[c] <= lookup[l].age + Lag
CacheKnown ==
    \A i \in Isolates, c \in Credentials :
        Cached(i) /\ cache[i].map[c] = "active" => since[c] <= cache[i].age + Lag

Known == KvKnown /\ PastKnown /\ LookupKnown /\ CacheKnown
Inv == CacheTypeOK /\ Known

----------------------------------------------------------------------------
\* One tick makes an age one greater, or leaves it at the horizon.
LEMMA OlderBounds ==
    ASSUME NEW n \in Ages
    PROVE  /\ Older(n) \in Ages
           /\ Older(n) = n + 1 \/ (Older(n) = Horizon /\ n = Horizon)
  BY CacheAssumption DEF Ages, Older

LEMMA InvInit == CacheInit => Inv
<1> SUFFICES ASSUME CacheInit PROVE Inv
  OBVIOUS
<1>1. NoMap \in Maps
  BY DEF NoMap, Maps, Entries
<1>2. MapTypeOK
  BY <1>1, MapAssumption DEF CacheInit, MapInit, MapTypeOK, Free, Calls
<1>3. 0 \in Ages /\ Horizon \in Ages
  BY CacheAssumption DEF Ages
<1>4. CacheTypeOK
  BY <1>1, <1>2, <1>3 DEF CacheInit, CacheTypeOK, NoCache, NoLookup
<1>5. Known
  BY DEF CacheInit, MapInit, NoMap, Known, KvKnown, PastKnown, LookupKnown, CacheKnown,
         Cached, NoCache, NoLookup
<1> QED
  BY <1>4, <1>5 DEF Inv

----------------------------------------------------------------------------
(* Types: the writers of the map, then the rest.                           *)

\* A whole map is written: one that was read, with one entry changed.
LEMMA WrittenIsMap ==
    ASSUME MapTypeOK, NEW w \in Writers, writer[w].at = "write"
    PROVE  Written(w) \in Maps
<1>1. writer[w].map \in Maps /\ writer[w].cred \in Credentials
  BY DEF MapTypeOK, Calls
<1> QED
  BY <1>1 DEF Written, Maps, Entries

LEMMA MapTyped ==
    ASSUME MapTypeOK, MapNext
    PROVE  MapTypeOK'
<1> NoMap \in Maps
  BY DEF NoMap, Maps, Entries
<1>1. ASSUME NEW c \in Credentials, Exhaust(c) PROVE MapTypeOK'
  BY <1>1 DEF Exhaust, MapTypeOK
<1>2. ASSUME NEW c \in Credentials, NEW w \in Syncers, SyncAssignment(w, c)
      PROVE  MapTypeOK'
  <2>1. syncs' \in 0..MaxSyncs
    BY <1>2, MapAssumption DEF SyncAssignment, MapTypeOK
  <2>2. /\ writer' \in [Writers -> Calls]
        /\ \A v \in Writers : writer'[v].at # "idle" => writer'[v].cred \in Credentials
    BY <1>2 DEF SyncAssignment, Call, Free, MapTypeOK, Calls, Writers
  <2> QED
    BY <1>2, <2>1, <2>2 DEF SyncAssignment, MapTypeOK
<1>3. ASSUME NEW c \in Credentials, NEW s \in Sweepers, SetEntryStatus(s, c)
      PROVE  MapTypeOK'
  BY <1>3 DEF SetEntryStatus, Call, Free, MapTypeOK, Calls, Writers
<1>4. ASSUME NEW w \in Writers, GetNodeKvWriterRaises(w) \/ ReadEntries(w)
      PROVE  MapTypeOK'
  <2>1. CASE GetNodeKvWriterRaises(w)
    BY <2>1 DEF GetNodeKvWriterRaises, Ends, Free, MapTypeOK, Calls
  <2>2. CASE ReadEntries(w)
    BY <2>2 DEF ReadEntries, MapTypeOK, Calls
  <2> QED
    BY <1>4, <2>1, <2>2
<1>5. ASSUME NEW w \in Writers, WriteEntries(w) PROVE MapTypeOK'
  BY <1>5, WrittenIsMap DEF WriteEntries, Ends, Free, MapTypeOK, Calls
<1>6. ASSUME NEW w \in Writers, MisreadEntries(w) PROVE MapTypeOK'
  <2>1. faults' \in 0..MaxFaults
    BY <1>6, MapAssumption DEF MisreadEntries, MapTypeOK
  <2>2. /\ writer' \in [Writers -> Calls]
        /\ \A v \in Writers : writer'[v].at # "idle" => writer'[v].cred \in Credentials
    BY <1>6 DEF MisreadEntries, MapTypeOK, Calls
  <2> QED
    BY <1>6, <2>1, <2>2 DEF MisreadEntries, MapTypeOK
<1>7. ASSUME NEW w \in Writers, CallFails(w) PROVE MapTypeOK'
  BY <1>7, MapAssumption DEF CallFails, Ends, Free, MapTypeOK, Calls
<1> QED
  BY <1>1, <1>2, <1>3, <1>4, <1>5, <1>6, <1>7 DEF MapNext, CallStep

LEMMA TypedStep ==
    ASSUME CacheTypeOK, [CacheNext]_cacheVars
    PROVE  CacheTypeOK'
<1> NoMap \in Maps /\ 0 \in Ages /\ Horizon \in Ages /\ 0 \in 0..Lag
  BY CacheAssumption DEF NoMap, Maps, Entries, Ages
<1>1. CASE UNCHANGED cacheVars
  BY <1>1 DEF cacheVars, mapVars, edgeVars, CacheTypeOK, MapTypeOK
<1>2. CASE MapNext /\ ControlPlane
  <2>1. MapTypeOK'
    BY <1>2, MapTyped DEF CacheTypeOK
  <2>2. past' \subseteq [map : Maps, age : 0..Lag]
    BY <1>2 DEF ControlPlane, CacheTypeOK, MapTypeOK
  <2>3. since' \in [Credentials -> Ages]
    BY <1>2 DEF ControlPlane, CacheTypeOK
  <2> QED
    BY <1>2, <2>1, <2>2, <2>3 DEF ControlPlane, CacheTypeOK
<1>3. CASE Tick
  <2>1. MapTypeOK'
    BY <1>3 DEF Tick, mapVars, CacheTypeOK, MapTypeOK
  <2>2. past' \subseteq [map : Maps, age : 0..Lag]
    <3> SUFFICES ASSUME NEW q \in past, q.age < Lag
                 PROVE  [q EXCEPT !.age = @ + 1] \in [map : Maps, age : 0..Lag]
      BY <1>3 DEF Tick
    <3> QED
      BY CacheAssumption DEF CacheTypeOK
  <2>3. since' \in [Credentials -> Ages]
    BY <1>3, OlderBounds DEF Tick, CacheTypeOK
  <2>4. cache' \in [Isolates -> [map : Maps \cup {Nothing}, age : Ages]]
    BY <1>3, OlderBounds DEF Tick, CacheTypeOK
  <2>5. /\ lookup' \in [Lookups -> [at : {"idle", "get", "got", "failed"},
                                    age : Ages, cred : Credentials \cup {Nothing}, map : Maps]]
        /\ \A l \in Lookups : lookup'[l].at = lookup[l].at /\ lookup'[l].cred = lookup[l].cred
    BY <1>3, OlderBounds DEF Tick, CacheTypeOK
  <2> QED
    BY <2>1, <2>2, <2>3, <2>4, <2>5 DEF CacheTypeOK
<1>4. ASSUME NEW l \in Lookups, NEW c \in Credentials, GetProxyUserMap(l, c)
      PROVE  CacheTypeOK'
  BY <1>4 DEF GetProxyUserMap, CacheTypeOK, MapTypeOK, mapVars
<1>5. ASSUME NEW l \in Lookups, KvAnswers(l) PROVE CacheTypeOK'
  <2>1. PICK m \in {kv} \cup {p.map : p \in past} :
            lookup' = [lookup EXCEPT ![l] = [@ EXCEPT !.at = "got", !.map = m]]
    BY <1>5 DEF KvAnswers
  <2>2. m \in Maps
    BY DEF CacheTypeOK, MapTypeOK
  <2> QED
    BY <1>5, <2>1, <2>2 DEF KvAnswers, CacheTypeOK, MapTypeOK, mapVars
<1>6. ASSUME NEW l \in Lookups, Store(l) PROVE CacheTypeOK'
  BY <1>6 DEF Store, NoLookup, Lookups, CacheTypeOK, MapTypeOK, mapVars
<1>7. ASSUME NEW l \in Lookups, ReadFails(l) PROVE CacheTypeOK'
  BY <1>7, MapAssumption DEF ReadFails, CacheTypeOK, MapTypeOK
<1>9. ASSUME NEW l \in Lookups, FallBack(l) PROVE CacheTypeOK'
  BY <1>9 DEF FallBack, NoLookup, CacheTypeOK, MapTypeOK, mapVars
<1>8. ASSUME NEW i \in Isolates, Evict(i) PROVE CacheTypeOK'
  BY <1>8 DEF Evict, NoCache, NoLookup, CacheTypeOK, MapTypeOK, mapVars
<1> QED
  BY <1>1, <1>2, <1>3, <1>4, <1>5, <1>6, <1>7, <1>8, <1>9
  DEF CacheNext, LookupStep

----------------------------------------------------------------------------
(* What the ages bound.                                                    *)

\* Writers: what was active in KV before or after a write was so just now.
LEMMA KnownWrites ==
    ASSUME CacheTypeOK, Known, MapNext, ControlPlane
    PROVE  Known'
<1>1. \A c \in Credentials : since'[c] = IF "active" \in {kv[c], kv'[c]} THEN 0 ELSE since[c]
  BY DEF ControlPlane, CacheTypeOK
<1>2. \A c \in Credentials : since[c] \in Nat /\ since'[c] <= since[c]
  BY <1>1, CacheAssumption DEF CacheTypeOK, Ages
<1>3. KvKnown'
  BY <1>1 DEF KvKnown
<1>4. PastKnown'
  <2> SUFFICES ASSUME NEW p \in past', NEW c \in Credentials, p.map[c] = "active"
               PROVE  since'[c] <= p.age
    BY DEF PastKnown
  <2>1. CASE p \in past
    <3>1. since[c] <= p.age /\ p.age \in Nat
      BY <2>1, CacheAssumption DEF Known, PastKnown, CacheTypeOK
    <3> QED
      BY <3>1, <1>1, <1>2
  <2>2. CASE p \notin past
    BY <2>2, <1>1 DEF ControlPlane
  <2> QED
    BY <2>1, <2>2
<1>5. LookupKnown'
  <2> SUFFICES ASSUME NEW l \in Lookups, NEW c \in Credentials,
                      lookup[l].at = "got", lookup[l].map[c] = "active"
               PROVE  since'[c] <= lookup[l].age + Lag
    BY DEF LookupKnown, ControlPlane
  <2>1. since[c] <= lookup[l].age + Lag /\ lookup[l].age + Lag \in Nat
    BY CacheAssumption DEF Known, LookupKnown, CacheTypeOK, Ages
  <2> QED
    BY <2>1, <1>1, <1>2
<1>6. CacheKnown'
  <2> SUFFICES ASSUME NEW i \in Isolates, NEW c \in Credentials,
                      Cached(i), cache[i].map[c] = "active"
               PROVE  since'[c] <= cache[i].age + Lag
    BY DEF CacheKnown, ControlPlane, Cached
  <2>1. since[c] <= cache[i].age + Lag /\ cache[i].age + Lag \in Nat
    BY CacheAssumption DEF Known, CacheKnown, CacheTypeOK, Ages
  <2> QED
    BY <2>1, <1>1, <1>2
<1> QED
  BY <1>3, <1>4, <1>5, <1>6 DEF Known

\* A tick ages what is known as much as the time since.
LEMMA TickKeepsBound ==
    ASSUME NEW x \in Ages, NEW y \in Ages, x <= y + Lag
    PROVE  Older(x) <= Older(y) + Lag
  BY CacheAssumption DEF Older, Ages

LEMMA KnownTicks ==
    ASSUME CacheTypeOK, Known, Tick
    PROVE  Known'
<1>1. \A c \in Credentials :
          /\ since[c] \in Ages /\ Older(since[c]) \in Ages
          /\ since'[c] = IF kv[c] = "active" THEN 0 ELSE Older(since[c])
  BY OlderBounds DEF Tick, CacheTypeOK
<1>2. kv' = kv
  BY DEF Tick, mapVars
<1>3. KvKnown'
  BY <1>1, <1>2 DEF KvKnown
<1>4. PastKnown'
  <2> SUFFICES ASSUME NEW q \in past, q.age < Lag, NEW c \in Credentials,
                      [q EXCEPT !.age = @ + 1].map[c] = "active"
               PROVE  since'[c] <= [q EXCEPT !.age = @ + 1].age
    BY DEF PastKnown, Tick
  <2>1. q \in [map : Maps, age : 0..Lag]
    BY DEF CacheTypeOK
  <2>2. q.map[c] = "active" /\ [q EXCEPT !.age = @ + 1].age = q.age + 1
    BY <2>1
  <2>3. since[c] <= q.age /\ q.age \in Nat
    BY <2>1, <2>2 DEF Known, PastKnown
  <2> QED
    BY <1>1, <2>2, <2>3, CacheAssumption DEF Older, Ages
<1>5. LookupKnown'
  <2> SUFFICES ASSUME NEW l \in Lookups, NEW c \in Credentials,
                      lookup'[l].at = "got", lookup'[l].map[c] = "active"
               PROVE  since'[c] <= lookup'[l].age + Lag
    BY DEF LookupKnown
  <2>1. /\ lookup[l].at = "got" /\ lookup[l].map[c] = "active"
        /\ lookup'[l].age = Older(lookup[l].age) /\ lookup[l].age \in Ages
    BY DEF Tick, CacheTypeOK
  <2>2. since[c] <= lookup[l].age + Lag
    BY <2>1 DEF Known, LookupKnown
  <2>3. Older(since[c]) <= Older(lookup[l].age) + Lag
    BY <1>1, <2>1, <2>2, TickKeepsBound
  <2>4. Older(lookup[l].age) \in Nat
    BY <2>1, OlderBounds, CacheAssumption DEF Ages
  <2> QED
    BY <1>1, <2>1, <2>3, <2>4, CacheAssumption
<1>6. CacheKnown'
  <2> SUFFICES ASSUME NEW i \in Isolates, NEW c \in Credentials,
                      Cached(i)', cache'[i].map[c] = "active"
               PROVE  since'[c] <= cache'[i].age + Lag
    BY DEF CacheKnown
  <2>1. /\ Cached(i) /\ cache[i].map[c] = "active"
        /\ cache'[i].age = Older(cache[i].age) /\ cache[i].age \in Ages
    BY DEF Tick, CacheTypeOK, Cached
  <2>2. since[c] <= cache[i].age + Lag
    BY <2>1 DEF Known, CacheKnown
  <2>3. Older(since[c]) <= Older(cache[i].age) + Lag
    BY <1>1, <2>1, <2>2, TickKeepsBound
  <2>4. Older(cache[i].age) \in Nat
    BY <2>1, OlderBounds, CacheAssumption DEF Ages
  <2> QED
    BY <1>1, <2>1, <2>3, <2>4, CacheAssumption
<1> QED
  BY <1>3, <1>4, <1>5, <1>6 DEF Known

LEMMA KnownStep ==
    ASSUME CacheTypeOK, Known, [CacheNext]_cacheVars
    PROVE  Known'
<1>1. CASE UNCHANGED cacheVars
  BY <1>1 DEF cacheVars, mapVars, edgeVars, Known, KvKnown, PastKnown, LookupKnown,
              CacheKnown, Cached
<1>2. CASE MapNext /\ ControlPlane
  BY <1>2, KnownWrites
<1>3. CASE Tick
  BY <1>3, KnownTicks
<1>4. ASSUME NEW l \in Lookups, NEW c \in Credentials, GetProxyUserMap(l, c)
      PROVE  Known'
  BY <1>4 DEF GetProxyUserMap, mapVars, CacheTypeOK, Known, KvKnown, PastKnown,
              LookupKnown, CacheKnown, Cached
<1>5. ASSUME NEW l \in Lookups, KvAnswers(l) PROVE Known'
  <2>1. PICK m \in {kv} \cup {p.map : p \in past} :
            lookup' = [lookup EXCEPT ![l] = [@ EXCEPT !.at = "got", !.map = m]]
    BY <1>5 DEF KvAnswers
  <2>2. \A c \in Credentials : m[c] = "active" => since[c] <= Lag
    BY CacheAssumption DEF Known, KvKnown, PastKnown, CacheTypeOK, Ages
  <2>3. LookupKnown'
    <3> SUFFICES ASSUME NEW k \in Lookups, NEW c \in Credentials,
                        lookup'[k].at = "got", lookup'[k].map[c] = "active"
                 PROVE  since'[c] <= lookup'[k].age + Lag
      BY DEF LookupKnown
    <3>1. since' = since
      BY <1>5 DEF KvAnswers
    <3>2. CASE k = l
      <4>1. lookup'[k].map = m /\ lookup'[k].age = lookup[k].age /\ lookup[k].age \in Nat
        BY <2>1, <3>2, CacheAssumption DEF CacheTypeOK, Ages
      <4>2. since[c] <= Lag /\ since[c] \in Nat
        BY <2>2, <4>1, CacheAssumption DEF CacheTypeOK, Ages
      <4> QED
        BY <3>1, <4>1, <4>2, CacheAssumption
    <3>3. CASE k # l
      BY <2>1, <3>1, <3>3 DEF Known, LookupKnown, CacheTypeOK
    <3> QED
      BY <3>2, <3>3
  <2> QED
    BY <1>5, <2>3 DEF KvAnswers, mapVars, Known, KvKnown, PastKnown, CacheKnown, Cached
<1>6. ASSUME NEW l \in Lookups, Store(l) PROVE Known'
  <2>1. LookupKnown'
    BY <1>6 DEF Store, NoLookup, CacheTypeOK, Known, LookupKnown
  <2>2. CacheKnown'
    BY <1>6 DEF Store, CacheTypeOK, Known, LookupKnown, CacheKnown, Cached, Lookups
  <2> QED
    BY <1>6, <2>1, <2>2 DEF Store, mapVars, Known, KvKnown, PastKnown
<1>7. ASSUME NEW l \in Lookups, ReadFails(l) PROVE Known'
  BY <1>7 DEF ReadFails, CacheTypeOK, Known, KvKnown, PastKnown, LookupKnown,
              CacheKnown, Cached
<1>9. ASSUME NEW l \in Lookups, FallBack(l) PROVE Known'
  BY <1>9 DEF FallBack, NoLookup, mapVars, CacheTypeOK, Known, KvKnown, PastKnown,
              LookupKnown, CacheKnown, Cached
<1>8. ASSUME NEW i \in Isolates, Evict(i) PROVE Known'
  BY <1>8 DEF Evict, NoCache, NoLookup, mapVars, CacheTypeOK, Known, KvKnown, PastKnown,
              LookupKnown, CacheKnown, Cached
<1> QED
  BY <1>1, <1>2, <1>3, <1>4, <1>5, <1>6, <1>7, <1>8, <1>9
  DEF CacheNext, LookupStep

----------------------------------------------------------------------------
LEMMA InvAlways == CacheSpec => []Inv
<1>1. Inv /\ [CacheNext]_cacheVars => Inv'
  BY TypedStep, KnownStep DEF Inv
<1> QED
  BY <1>1, InvInit, PTL DEF CacheSpec

\* The writers' maps, the caches and the look-ups are what users.ts and
\* kv_sync.py take them for.
THEOREM CacheTyped == CacheSpec => []CacheTypeOK
  BY InvAlways, PTL DEF Inv

\* Nobody is accepted on a map of the cache, on an answer of KV, or on the
\* old map after a read that failed, whose credential was not active within
\* the cache's time, the wait, or the age of that map, and KV's lag.
THEOREM AlwaysWithinWindow == CacheSpec => []AcceptedWithinWindow
<1>1. Inv => AcceptedWithinWindow
  <2> SUFFICES ASSUME Inv PROVE AcceptedWithinWindow
    OBVIOUS
  <2>1. ASSUME NEW i \in Isolates, NEW c \in Credentials, Served(i, c)
        PROVE  since[c] < TTL + Lag
    <3>1. since[c] <= cache[i].age + Lag /\ cache[i].age < TTL
      BY <2>1 DEF Served, Fresh, Inv, Known, CacheKnown
    <3>2. since[c] \in Nat /\ cache[i].age \in Nat
      BY CacheAssumption DEF Inv, CacheTypeOK, Ages
    <3> QED
      BY <3>1, <3>2, CacheAssumption
  <2>2. ASSUME NEW l \in Lookups, AcceptedOnOldMap(l)
        PROVE  since[lookup[l].cred] <= cache[l[1]].age + Lag
    <3>1. l[1] \in Isolates /\ lookup[l].cred \in Credentials
      BY <2>2 DEF AcceptedOnOldMap, Lookups, Inv, CacheTypeOK
    <3> QED
      BY <2>2, <3>1 DEF AcceptedOnOldMap, Inv, Known, CacheKnown
  <2>3. ASSUME NEW l \in Lookups, lookup[l].at = "got",
               lookup[l].map[lookup[l].cred] = "active"
        PROVE  since[lookup[l].cred] <= lookup[l].age + Lag
    BY <2>3 DEF Inv, CacheTypeOK, Known, LookupKnown
  <2> QED
    BY <2>1, <2>2, <2>3 DEF AcceptedWithinWindow
<1> QED
  BY <1>1, InvAlways, PTL
=============================================================================
