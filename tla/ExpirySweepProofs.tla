-------------------------- MODULE ExpirySweepProofs -------------------------
(***************************************************************************)
(* Proofs about ExpirySweep, for any number of sweepers, customers and     *)
(* configurations, any days and any bounds.  First what a sweep relies on  *)
(* (SweepInv), then what it may still record (TallyInv).                   *)
(***************************************************************************)
EXTENDS ExpirySweep, FiniteSetTheorems, TLAPS

\* What a sweep under way relies on, given the state of the database: the day
\* it began on, what it has pending, what it has still to visit, and the map
\* it is about to write back.
Sound(r, ex, d, u, st) ==
    /\ r.at \notin {"idle", "next"} => r.config \in Configs
    /\ r.at = "record" => r.kind \in Kinds
    /\ r.at = "write" =>
           /\ r.map \in [Configs -> Entries]
           /\ u[r.config] = "exhausted"
           /\ \A c \in Configs : r.map[c] = "disabled" => u[c] = "exhausted"
    /\ r.at # "idle" =>
           /\ r.today <= d
           /\ \A c \in r.pending : ex[c] <= r.today
           /\ \A c \in Swept : ex[c] <= r.today =>
                  st[c] = "EXPIRED" \/ c \in r.queue \/ c \in r.pending

\* NobodyCutOffEarly and SweepComplete rest on what every sweep relies on.
SweepInv ==
    /\ TypeOK
    /\ NobodyCutOffEarly
    /\ \A s \in Sweepers : Sound(sweeper[s], expires, day, used, status)

\* Days pass, quotas are used up and configurations expire: nothing of it
\* is ever taken back, so a sweep may rely on what it knows.
LEMMA SoundStays ==
    ASSUME NEW r \in Sweeps, NEW ex \in [Configs -> ExpiryDays],
           NEW d \in Days, NEW d2 \in Days, d <= d2,
           NEW u \in [Configs -> Levels], NEW u2 \in [Configs -> Levels],
           \A c \in Configs : u[c] = "exhausted" => u2[c] = "exhausted",
           NEW st \in [Configs -> Statuses], NEW st2 \in [Configs -> Statuses],
           \A c \in Configs : st[c] = "EXPIRED" => st2[c] = "EXPIRED",
           Sound(r, ex, d, u, st)
    PROVE  Sound(r, ex, d2, u2, st2)
<1>1. r.today \in Nat /\ d \in Nat /\ d2 \in Nat
  BY SweepAssumption DEF Sweeps, Days
<1>2. Swept \subseteq Configs
  BY DEF Swept
<1> QED
  BY <1>1, <1>2 DEF Sound

LEMMA IdleSound ==
    /\ Idle \in Sweeps
    /\ Idle.at = "idle"
    /\ \A ex, d, u, st : Sound(Idle, ex, d, u, st)
<1>1. 0 \in Days
  BY SweepAssumption DEF Days
<1> QED
  BY <1>1 DEF Idle, Sweeps, Steps, Sound

LEMMA SweepInvInit == Init => SweepInv
<1> SUFFICES ASSUME Init PROVE SweepInv
  OBVIOUS
<1>1. \A s \in Sweepers : sweeper[s] = Idle
  BY DEF Init
<1>2. TypeOK
  <2>1. /\ 0 \in Days /\ 0 \in 0..MaxFaults
        /\ sweeper \in [Sweepers -> Sweeps]
    BY IdleSound, SweepAssumption DEF Init, Days
  <2>2. /\ used \in [Configs -> Levels]
        /\ status \in [Configs -> Statuses]
        /\ credential \in [Configs -> Entries]
        /\ log \in [Customers \X Kinds \X Days -> Nat]
    BY DEF Init, Levels, Statuses, Entries
  <2> QED
    BY <1>1, <2>1, <2>2, IdleSound DEF Init, TypeOK
<1>3. NobodyCutOffEarly
  BY DEF Init, NobodyCutOffEarly
<1> QED
  BY <1>1, <1>2, <1>3, IdleSound DEF SweepInv

\* A step that moves one sweep to a sound state, and the database forward.
LEMMA SweeperMoves ==
    ASSUME SweepInv, NEW s \in Sweepers, NEW r \in Sweeps,
           sweeper' = [sweeper EXCEPT ![s] = r],
           Sound(r, expires, day, used, status)',
           UNCHANGED <<owner, expires, day, used>>,
           status' \in [Configs -> Statuses],
           \A c \in Configs : status[c] = "EXPIRED" => status'[c] = "EXPIRED",
           \A c \in Configs : status'[c] = "EXPIRED" => status[c] = "EXPIRED" \/ Due(c, day),
           credential' \in [Configs -> Entries],
           \A c \in Configs : credential'[c] = "disabled" => used[c] = "exhausted",
           log' \in [Customers \X Kinds \X Days -> Nat],
           faults' \in 0..MaxFaults
    PROVE  SweepInv'
<1>1. /\ sweeper' \in [Sweepers -> Sweeps]
      /\ sweeper'[s] = r
      /\ \A t \in Sweepers \ {s} : sweeper'[t] = sweeper[t] /\ sweeper[t] \in Sweeps
  BY DEF SweepInv, TypeOK
<1>2. ASSUME NEW t \in Sweepers
      PROVE  Sound(sweeper'[t], expires', day', used', status')
  <2>1. CASE t = s
    BY <1>1, <2>1
  <2>2. CASE t # s
    <3>1. Sound(sweeper[t], expires, day, used, status)
      BY DEF SweepInv
    <3>2. /\ expires \in [Configs -> ExpiryDays] /\ day \in Days /\ day <= day
          /\ used \in [Configs -> Levels] /\ status \in [Configs -> Statuses]
      BY SweepAssumption DEF SweepInv, TypeOK, Days
    <3>3. Sound(sweeper[t], expires, day, used, status')
      BY <1>1, <2>2, <3>1, <3>2, SoundStays
    <3> QED
      BY <1>1, <2>2, <3>3
  <2> QED
    BY <2>1, <2>2
<1>3. TypeOK'
  BY <1>1, <1>2 DEF SweepInv, TypeOK, Sound
<1>4. NobodyCutOffEarly'
  BY DEF SweepInv, NobodyCutOffEarly, Due
<1> QED
  BY <1>2, <1>3, <1>4 DEF SweepInv

----------------------------------------------------------------------------
(* The statements of a sweep, which leave its list of work alone.          *)

\* r is a place where a sweep goes on from l, or its end.
Follows(r, l) ==
    /\ r \in Sweeps
    /\ \/ r = Idle
       \/ /\ r.at \in {"next", "quota", "write", "record"}
          /\ r.today = l.today /\ r.queue = l.queue /\ r.pending = l.pending
          /\ r.at # "next" => r.config = l.config
          /\ r.at = "record" => r.kind \in Kinds
          /\ r.at = "write" => r.map = credential /\ used[l.config] = "exhausted"

LEMMA OnwardFollows ==
    ASSUME NEW l \in Sweeps, NEW kind
    PROVE  Follows(Onward(l, kind), l)
<1>1. CASE kind = "expiry_warn"
  BY <1>1 DEF Onward, Follows, Sweeps, Steps
<1>2. CASE kind # "expiry_warn"
  BY <1>2 DEF Onward, Follows, Sweeps, Steps
<1> QED
  BY <1>1, <1>2

LEMMA AlreadySentFollows ==
    ASSUME NEW s \in Sweepers, NEW l \in Sweeps, NEW kind \in Kinds,
           AlreadySent(s, l, kind)
    PROVE  \E r : Follows(r, l) /\ sweeper' = [sweeper EXCEPT ![s] = r]
<1> DEFINE rows == log[<<owner[l.config], kind, l.today>>]
           toRecord == [l EXCEPT !.at = "record", !.kind = kind]
<1>1. Follows(toRecord, l)
  BY DEF Follows, Sweeps, Steps
<1>2. Follows(Onward(l, kind), l)
  BY OnwardFollows
<1>3. Follows(Idle, l)
  BY IdleSound DEF Follows
<1>4. sweeper' = [sweeper EXCEPT ![s] =
          CASE rows = 0 -> toRecord
            [] rows = 1 -> Onward(l, kind)
            [] OTHER -> Idle]
  BY DEF AlreadySent
<1> HIDE DEF rows, toRecord
<1>5. CASE rows = 0
  <2>1. sweeper' = [sweeper EXCEPT ![s] = toRecord]
    BY <1>4, <1>5
  <2> QED
    BY <1>1, <2>1
<1>6. CASE rows = 1
  <2>1. sweeper' = [sweeper EXCEPT ![s] = Onward(l, kind)]
    BY <1>4, <1>6
  <2> QED
    BY <1>2, <2>1
<1>7. CASE rows \notin {0, 1}
  <2>1. sweeper' = [sweeper EXCEPT ![s] = Idle]
    BY <1>4, <1>7
  <2> QED
    BY <1>3, <2>1
<1> QED
  BY <1>5, <1>6, <1>7

LEMMA CheckQuotaFollows ==
    ASSUME SweepInv, NEW s \in Sweepers, NEW l \in Sweeps, l.config \in Configs,
           CheckQuota(s, l)
    PROVE  \E r : Follows(r, l) /\ sweeper' = [sweeper EXCEPT ![s] = r]
<1> DEFINE toWrite == [l EXCEPT !.at = "write", !.map = credential]
<1>1. CASE used[l.config] = "exhausted"
  <2>1. sweeper' = [sweeper EXCEPT ![s] = toWrite]
    BY <1>1 DEF CheckQuota
  <2>2. Follows(toWrite, l)
    BY <1>1 DEF Follows, Sweeps, Steps, SweepInv, TypeOK
  <2> QED
    BY <2>1, <2>2
<1>2. CASE used[l.config] = "high"
  <2>1. AlreadySent(s, l, "quota_warn")
    BY <1>2 DEF CheckQuota
  <2> QED
    BY <2>1, AlreadySentFollows DEF Kinds
<1>3. CASE used[l.config] \notin {"exhausted", "high"}
  <2>1. sweeper' = [sweeper EXCEPT ![s] = Onward(l, None)]
    BY <1>3 DEF CheckQuota
  <2> QED
    BY <2>1, OnwardFollows
<1> QED
  BY <1>1, <1>2, <1>3

\* A sweep that goes on with its list intact is sound, and so is the state.
LEMMA FollowingIsSound ==
    ASSUME SweepInv, NEW s \in Sweepers, NEW l \in Sweeps, l.config \in Configs,
           l.today <= day,
           \A c \in l.pending : expires[c] <= l.today,
           \A c \in Swept : expires[c] <= l.today =>
               status[c] = "EXPIRED" \/ c \in l.queue \/ c \in l.pending,
           \E r : Follows(r, l) /\ sweeper' = [sweeper EXCEPT ![s] = r],
           UNCHANGED <<owner, expires, day, used, status, credential, log, faults>>
    PROVE  SweepInv'
<1>1. PICK r \in Sweeps : Follows(r, l) /\ sweeper' = [sweeper EXCEPT ![s] = r]
  BY DEF Follows
<1>2. Sound(r, expires, day, used, status)
  <2>1. CASE r = Idle
    BY <2>1, IdleSound
  <2>2. CASE r # Idle
    <3>1. credential \in [Configs -> Entries]
          /\ \A c \in Configs : credential[c] = "disabled" => used[c] = "exhausted"
      BY DEF SweepInv, TypeOK, NobodyCutOffEarly
    <3> QED
      BY <1>1, <2>2, <3>1 DEF Follows, Sound
  <2> QED
    BY <2>1, <2>2
<1>3. /\ expires' = expires /\ day' = day /\ used' = used /\ status' = status
      /\ credential' = credential /\ log' = log /\ faults' = faults /\ owner' = owner
  OBVIOUS
<1>4. Sound(r, expires', day', used', status')
  BY <1>2, <1>3
<1> QED
  BY <1>1, <1>3, <1>4, SweeperMoves DEF SweepInv, TypeOK, NobodyCutOffEarly

----------------------------------------------------------------------------
(* The steps.                                                              *)

LEMMA BeginStep ==
    ASSUME SweepInv, NEW s \in Sweepers, Begin(s) PROVE SweepInv'
<1> DEFINE r == [Idle EXCEPT !.at = "next", !.today = day,
                     !.queue = {c \in Swept : status[c] = "ACTIVE"}]
<1>1. r \in Sweeps
  <2>1. day \in Days /\ {c \in Swept : status[c] = "ACTIVE"} \in SUBSET Configs
    BY DEF SweepInv, TypeOK, Swept
  <2> QED
    BY <2>1, IdleSound DEF Sweeps, Steps
<1>2. /\ r.at = "next" /\ r.today = day /\ r.pending = {}
      /\ r.queue = {c \in Swept : status[c] = "ACTIVE"}
  BY DEF Idle
<1>3. sweeper' = [sweeper EXCEPT ![s] = r]
  BY DEF Begin
<1> HIDE DEF r
<1>4. /\ owner' = owner /\ expires' = expires /\ day' = day /\ used' = used
      /\ status' = status /\ credential' = credential /\ log' = log /\ faults' = faults
  BY DEF Begin
<1>5. day <= day
  BY SweepAssumption DEF SweepInv, TypeOK, Days
<1>6. \A c \in Swept : status[c] \in {"ACTIVE", "EXPIRED"}
  BY DEF SweepInv, TypeOK, Swept, Statuses
<1>7. Sound(r, expires, day, used, status)
  BY <1>2, <1>5, <1>6 DEF Sound
<1>8. Sound(r, expires', day', used', status')
  BY <1>4, <1>7
<1> QED
  BY <1>1, <1>3, <1>4, <1>8, SweeperMoves DEF SweepInv, TypeOK, NobodyCutOffEarly

\* What Visit and Visited mean: the configuration leaves the queue.
LEMMA VisitedIs ==
    ASSUME SweepInv, NEW s \in Sweepers, NEW c \in Configs, Visit(s, c)
    PROVE  /\ Visited(s, c) \in Sweeps
           /\ Visited(s, c).config = c
           /\ Visited(s, c).today = sweeper[s].today
           /\ Visited(s, c).queue = sweeper[s].queue \ {c}
           /\ Visited(s, c).pending = sweeper[s].pending
           /\ sweeper[s].today \in Nat
           /\ expires \in [Configs -> Nat]
           /\ sweeper[s].today <= day
           /\ \A x \in sweeper[s].pending : expires[x] <= sweeper[s].today
           /\ \A x \in Swept : expires[x] <= sweeper[s].today =>
                  status[x] = "EXPIRED" \/ x \in sweeper[s].queue \/ x \in sweeper[s].pending
<1>1. sweeper[s] \in Sweeps /\ sweeper[s].at = "next"
  BY DEF SweepInv, TypeOK, Visit
<1>2. Sound(sweeper[s], expires, day, used, status)
  BY DEF SweepInv
<1>3. expires \in [Configs -> Nat]
  BY SweepAssumption DEF SweepInv, TypeOK
<1>4. sweeper[s].today \in Nat
  BY <1>1, SweepAssumption DEF Sweeps, Days
<1>5. /\ Visited(s, c) \in Sweeps
      /\ Visited(s, c).config = c
      /\ Visited(s, c).today = sweeper[s].today
      /\ Visited(s, c).queue = sweeper[s].queue \ {c}
      /\ Visited(s, c).pending = sweeper[s].pending
  BY <1>1 DEF Visited, Sweeps
<1> QED
  BY <1>1, <1>2, <1>3, <1>4, <1>5 DEF Sound

LEMMA ExpireStep ==
    ASSUME SweepInv, NEW s \in Sweepers, NEW c \in Configs, Expire(s, c)
    PROVE  SweepInv'
<1> DEFINE v == Visited(s, c)
           l == [v EXCEPT !.pending = @ \cup {c}]
<1>1. Visit(s, c) /\ expires[c] <= sweeper[s].today
  BY DEF Expire, Due
<1>2. v \in Sweeps /\ v.config = c /\ v.today = sweeper[s].today
      /\ v.queue = sweeper[s].queue \ {c} /\ v.pending = sweeper[s].pending
  BY <1>1, VisitedIs
<1> HIDE DEF v
<1>3. l \in Sweeps /\ l.config = c /\ l.today = sweeper[s].today
      /\ l.queue = sweeper[s].queue \ {c} /\ l.pending = sweeper[s].pending \cup {c}
  BY <1>2 DEF Sweeps
<1>4. AlreadySent(s, l, "expired")
  BY DEF Expire, v
<1> HIDE DEF l
<1>5. \E r : Follows(r, l) /\ sweeper' = [sweeper EXCEPT ![s] = r]
  BY <1>3, <1>4, AlreadySentFollows DEF Kinds
<1>6. /\ l.today <= day
      /\ \A x \in l.pending : expires[x] <= l.today
      /\ \A x \in Swept : expires[x] <= l.today =>
             status[x] = "EXPIRED" \/ x \in l.queue \/ x \in l.pending
  BY <1>1, <1>3, VisitedIs
<1> QED
  BY <1>3, <1>5, <1>6, <1>1, FollowingIsSound DEF Visit

\* A configuration that is not due may leave the queue.
LEMMA NotDueLeaves ==
    ASSUME SweepInv, NEW s \in Sweepers, NEW c \in Configs, Visit(s, c),
           ~Due(c, sweeper[s].today),
           \E r : Follows(r, Visited(s, c)) /\ sweeper' = [sweeper EXCEPT ![s] = r]
    PROVE  SweepInv'
<1> DEFINE l == Visited(s, c)
<1>1. /\ l \in Sweeps /\ l.config \in Configs /\ l.today <= day
      /\ \A x \in l.pending : expires[x] <= l.today
      /\ \A x \in Swept : expires[x] <= l.today =>
             status[x] = "EXPIRED" \/ x \in l.queue \/ x \in l.pending
  BY VisitedIs DEF Due
<1>2. \E r : Follows(r, l) /\ sweeper' = [sweeper EXCEPT ![s] = r]
  OBVIOUS
<1> HIDE DEF l
<1> QED
  BY <1>1, <1>2, FollowingIsSound DEF Visit

LEMMA WarnOfExpiryStep ==
    ASSUME SweepInv, NEW s \in Sweepers, NEW c \in Configs, WarnOfExpiry(s, c)
    PROVE  SweepInv'
<1>1. Visit(s, c) /\ ~Due(c, sweeper[s].today)
      /\ AlreadySent(s, Visited(s, c), "expiry_warn")
  BY DEF WarnOfExpiry
<1>2. Visited(s, c) \in Sweeps
  BY <1>1, VisitedIs
<1>3. \E r : Follows(r, Visited(s, c)) /\ sweeper' = [sweeper EXCEPT ![s] = r]
  BY <1>1, <1>2, AlreadySentFollows DEF Kinds
<1> QED
  BY <1>1, <1>3, NotDueLeaves

LEMMA NotNearExpiryStep ==
    ASSUME SweepInv, NEW s \in Sweepers, NEW c \in Configs, NotNearExpiry(s, c)
    PROVE  SweepInv'
<1>1. Visit(s, c) /\ ~Due(c, sweeper[s].today + WarnDays)
      /\ CheckQuota(s, Visited(s, c))
  BY DEF NotNearExpiry
<1>2. /\ Visited(s, c) \in Sweeps /\ Visited(s, c).config \in Configs
      /\ sweeper[s].today \in Nat /\ expires[c] \in Nat
  BY <1>1, VisitedIs
<1>3. ~Due(c, sweeper[s].today)
  BY <1>1, <1>2, SweepAssumption DEF Due
<1>4. \E r : Follows(r, Visited(s, c)) /\ sweeper' = [sweeper EXCEPT ![s] = r]
  BY <1>1, <1>2, CheckQuotaFollows
<1> QED
  BY <1>1, <1>3, <1>4, NotDueLeaves

\* A statement in the middle of a configuration, which it does not leave.
LEMMA MiddleStep ==
    ASSUME SweepInv, NEW s \in Sweepers, sweeper[s].at \notin {"idle", "next"},
           \E r : Follows(r, sweeper[s]) /\ sweeper' = [sweeper EXCEPT ![s] = r],
           UNCHANGED <<owner, expires, day, used, status, credential, log, faults>>
    PROVE  SweepInv'
<1>1. sweeper[s] \in Sweeps /\ sweeper[s].config \in Configs
  BY DEF SweepInv, TypeOK
<1>2. /\ sweeper[s].today <= day
      /\ \A c \in sweeper[s].pending : expires[c] <= sweeper[s].today
      /\ \A c \in Swept : expires[c] <= sweeper[s].today =>
             status[c] = "EXPIRED" \/ c \in sweeper[s].queue \/ c \in sweeper[s].pending
  BY DEF SweepInv, Sound
<1> QED
  BY <1>1, <1>2, FollowingIsSound

LEMMA QuotaAfterWarningStep ==
    ASSUME SweepInv, NEW s \in Sweepers, QuotaAfterWarning(s) PROVE SweepInv'
<1>1. sweeper[s] \in Sweeps /\ sweeper[s].config \in Configs
  BY DEF SweepInv, TypeOK, QuotaAfterWarning
<1>2. \E r : Follows(r, sweeper[s]) /\ sweeper' = [sweeper EXCEPT ![s] = r]
  BY <1>1, CheckQuotaFollows DEF QuotaAfterWarning
<1> QED
  BY <1>2, MiddleStep DEF QuotaAfterWarning

LEMMA NotifyExhaustedStep ==
    ASSUME SweepInv, NEW s \in Sweepers, NotifyExhausted(s) PROVE SweepInv'
<1>1. sweeper[s] \in Sweeps
  BY DEF SweepInv, TypeOK
<1>2. \E r : Follows(r, sweeper[s]) /\ sweeper' = [sweeper EXCEPT ![s] = r]
  BY <1>1, AlreadySentFollows DEF NotifyExhausted, Kinds
<1> QED
  BY <1>2, MiddleStep DEF NotifyExhausted

\* The notification's commit saves what is pending.
LEMMA RecordStep ==
    ASSUME SweepInv, NEW s \in Sweepers, Record(s) PROVE SweepInv'
<1> DEFINE o == Onward(sweeper[s], sweeper[s].kind)
           r == [o EXCEPT !.pending = {}]
<1>1. /\ sweeper[s] \in Sweeps /\ sweeper[s].at = "record"
      /\ sweeper[s].config \in Configs /\ sweeper[s].kind \in Kinds
  BY DEF SweepInv, TypeOK, Record
<1>2. /\ Sound(sweeper[s], expires, day, used, status)
      /\ sweeper[s].today \in Nat /\ day \in Nat
  BY <1>1, SweepAssumption DEF SweepInv, TypeOK, Sweeps, Days
<1>3. Follows(o, sweeper[s])
  BY <1>1, OnwardFollows
<1>4. o.at \in {"next", "quota"}
  <2>1. CASE sweeper[s].kind = "expiry_warn"
    BY <1>1, <2>1 DEF Onward, Sweeps
  <2>2. CASE sweeper[s].kind # "expiry_warn"
    BY <1>1, <2>2 DEF Onward, Sweeps
  <2> QED
    BY <2>1, <2>2
<1>5. o # Idle
  BY <1>4, IdleSound
<1>6. sweeper' = [sweeper EXCEPT ![s] = r]
  BY <1>1 DEF Record, SweepInv, TypeOK
<1> HIDE DEF o
<1>7. /\ r \in Sweeps /\ r.at = o.at /\ r.config = o.config
      /\ r.pending = {} /\ r.today = sweeper[s].today /\ r.queue = sweeper[s].queue
  BY <1>3, <1>5 DEF Follows, Sweeps
<1> HIDE DEF r
<1>8. status' = [c \in Configs |->
          IF c \in sweeper[s].pending THEN "EXPIRED" ELSE status[c]]
  BY DEF Record, Commit
<1>9. /\ status' \in [Configs -> Statuses]
      /\ \A c \in Configs : status[c] = "EXPIRED" => status'[c] = "EXPIRED"
      /\ \A c \in Configs : c \in sweeper[s].pending => status'[c] = "EXPIRED"
      /\ \A c \in Configs : status'[c] = "EXPIRED" =>
             status[c] = "EXPIRED" \/ c \in sweeper[s].pending
  BY <1>8 DEF SweepInv, TypeOK, Statuses
<1>10. \A c \in sweeper[s].pending : c \in Configs /\ Due(c, day)
  <2>1. \A c \in sweeper[s].pending : c \in Configs /\ expires[c] \in Nat
    BY <1>1, SweepAssumption DEF SweepInv, TypeOK, Sweeps
  <2> QED
    BY <1>1, <1>2, <2>1 DEF Sound, Due
<1>11. /\ owner' = owner /\ expires' = expires /\ day' = day /\ used' = used
       /\ credential' = credential /\ faults' = faults
  BY DEF Record
<1>12. Sound(r, expires', day', used', status')
  BY <1>1, <1>2, <1>3, <1>4, <1>5, <1>7, <1>9, <1>11 DEF Sound, Follows, Swept
<1>13. log' \in [Customers \X Kinds \X Days -> Nat]
  BY DEF Record, SweepInv, TypeOK
<1> QED
  BY <1>6, <1>7, <1>9, <1>10, <1>11, <1>12, <1>13, SweeperMoves
  DEF SweepInv, TypeOK, NobodyCutOffEarly

\* The map that is written back disables exhausted configurations only: it
\* did when it was read, and quotas do not grow back.
LEMMA MapWrittenStep ==
    ASSUME SweepInv, NEW s \in Sweepers, SetEntryStatus(s) \/ EntryNotFound(s)
    PROVE  SweepInv'
<1> DEFINE l == sweeper[s]
           r == [l EXCEPT !.at = "check", !.map = None]
<1>1. /\ l \in Sweeps /\ l.at = "write" /\ l.config \in Configs
      /\ Sound(l, expires, day, used, status)
  BY DEF SweepInv, TypeOK, SetEntryStatus, EntryNotFound
<1>2. sweeper' = [sweeper EXCEPT ![s] = r]
  BY DEF SweepInv, TypeOK, SetEntryStatus, EntryNotFound
<1>3. /\ owner' = owner /\ expires' = expires /\ day' = day /\ used' = used
      /\ status' = status /\ log' = log
  BY DEF SetEntryStatus, EntryNotFound
<1>4. /\ credential' \in [Configs -> Entries]
      /\ \A c \in Configs : credential'[c] = "disabled" => used[c] = "exhausted"
  <2>1. CASE credential' = credential
    BY <2>1 DEF SweepInv, TypeOK, NobodyCutOffEarly
  <2>2. CASE credential' = [l.map EXCEPT ![l.config] = "disabled"]
    BY <1>1, <2>2 DEF Sound, Entries
  <2> QED
    BY <2>1, <2>2 DEF SetEntryStatus, EntryNotFound
<1>5. faults' \in 0..MaxFaults
  BY SweepAssumption DEF SweepInv, TypeOK, SetEntryStatus, EntryNotFound
<1> HIDE DEF l
<1>6. /\ r \in Sweeps /\ r.at = "check" /\ r.config = l.config /\ r.today = l.today
      /\ r.queue = l.queue /\ r.pending = l.pending
  BY <1>1 DEF Sweeps, Steps
<1> HIDE DEF r
<1>7. Sound(r, expires, day, used, status)
  BY <1>1, <1>6 DEF Sound
<1>8. Sound(r, expires', day', used', status')
  BY <1>3, <1>7
<1> QED
  BY <1>2, <1>3, <1>4, <1>5, <1>6, <1>8, SweeperMoves
  DEF SweepInv, TypeOK, NobodyCutOffEarly

LEMMA EndStep ==
    ASSUME SweepInv, NEW s \in Sweepers, End(s) PROVE SweepInv'
<1>1. /\ sweeper[s] \in Sweeps /\ sweeper[s].at = "next"
      /\ Sound(sweeper[s], expires, day, used, status)
      /\ sweeper[s].today \in Nat /\ day \in Nat
  BY SweepAssumption DEF SweepInv, TypeOK, End, Sweeps, Days
<1>2. \A c \in sweeper[s].pending : c \in Configs /\ Due(c, day)
  <2>1. \A c \in sweeper[s].pending : c \in Configs /\ expires[c] \in Nat
    BY <1>1, SweepAssumption DEF SweepInv, TypeOK, Sweeps
  <2> QED
    BY <1>1, <2>1 DEF Sound, Due
<1>3. status' = [c \in Configs |->
          IF c \in sweeper[s].pending THEN "EXPIRED" ELSE status[c]]
  BY DEF End, Commit
<1>4. /\ status' \in [Configs -> Statuses]
      /\ \A c \in Configs : status[c] = "EXPIRED" => status'[c] = "EXPIRED"
      /\ \A c \in Configs : status'[c] = "EXPIRED" => status[c] = "EXPIRED" \/ Due(c, day)
  BY <1>2, <1>3 DEF SweepInv, TypeOK, Statuses
<1>5. Sound(Idle, expires', day', used', status')
  BY IdleSound
<1> QED
  BY <1>4, <1>5, IdleSound, SweeperMoves DEF End, SweepInv, TypeOK, NobodyCutOffEarly

LEMMA SweepFailsStep ==
    ASSUME SweepInv, NEW s \in Sweepers, SweepFails(s) \/ SetEntryStatusRaises(s)
    PROVE  SweepInv'
<1>1. Sound(Idle, expires', day', used', status')
  BY IdleSound
<1>2. faults' \in 0..MaxFaults
  BY SweepAssumption DEF SweepInv, TypeOK, SweepFails, SetEntryStatusRaises
<1> QED
  BY <1>1, <1>2, IdleSound, SweeperMoves
  DEF SweepFails, SetEntryStatusRaises, SweepInv, TypeOK, NobodyCutOffEarly

\* What happens outside the sweeps.
LEMMA OthersStep ==
    ASSUME SweepInv,
           \/ \E c \in Configs : GetSubscription(c) \/ Use(c)
           \/ NextDay
           \/ UNCHANGED vars
    PROVE  SweepInv'
<1>1. /\ owner' = owner /\ expires' = expires /\ credential' = credential
      /\ log' = log /\ sweeper' = sweeper /\ faults' = faults
  BY DEF GetSubscription, Use, NextDay, vars
<1>2. /\ day \in Days /\ day' \in Days /\ day <= day' /\ day \in Nat /\ day' \in Nat
  BY SweepAssumption DEF SweepInv, TypeOK, Days, GetSubscription, Use, NextDay, vars
<1>3. /\ used' \in [Configs -> Levels]
      /\ \A c \in Configs : used[c] = "exhausted" => used'[c] = "exhausted"
  <2>1. CASE used' = used
    BY <2>1 DEF SweepInv, TypeOK
  <2>2. ASSUME NEW c \in Configs, Use(c)
        PROVE  <1>3
    BY <2>2 DEF SweepInv, TypeOK, Use, Levels
  <2> QED
    BY <2>1, <2>2 DEF GetSubscription, NextDay, vars
<1>4. /\ status' \in [Configs -> Statuses]
      /\ \A c \in Configs : status[c] = "EXPIRED" => status'[c] = "EXPIRED"
      /\ \A c \in Configs : status'[c] = "EXPIRED" => status[c] = "EXPIRED" \/ Due(c, day)
  <2>1. CASE status' = status
    BY <2>1 DEF SweepInv, TypeOK
  <2>2. ASSUME NEW c \in Configs, GetSubscription(c)
        PROVE  <1>4
    BY <2>2 DEF SweepInv, TypeOK, GetSubscription, Statuses
  <2> QED
    BY <2>1, <2>2 DEF Use, NextDay, vars
<1>5. \A s \in Sweepers : Sound(sweeper[s], expires, day', used', status')
  <2> SUFFICES ASSUME NEW s \in Sweepers
               PROVE  Sound(sweeper[s], expires, day', used', status')
    OBVIOUS
  <2>1. /\ sweeper[s] \in Sweeps /\ expires \in [Configs -> ExpiryDays]
        /\ used \in [Configs -> Levels] /\ status \in [Configs -> Statuses]
        /\ Sound(sweeper[s], expires, day, used, status)
    BY DEF SweepInv, TypeOK
  <2> QED
    BY <1>2, <1>3, <1>4, <2>1, SoundStays
<1>6. \A s \in Sweepers : Sound(sweeper'[s], expires', day', used', status')
  BY <1>1, <1>5
<1>7. TypeOK'
  BY <1>1, <1>2, <1>3, <1>4 DEF SweepInv, TypeOK
<1>8. \A c \in Configs : expires[c] \in Nat
  BY SweepAssumption DEF SweepInv, TypeOK
<1>9. NobodyCutOffEarly'
  BY <1>1, <1>2, <1>3, <1>4, <1>8 DEF SweepInv, NobodyCutOffEarly, Due
<1> QED
  BY <1>6, <1>7, <1>9 DEF SweepInv

LEMMA SweepStep == SweepInv /\ [Next]_vars => SweepInv'
<1> SUFFICES ASSUME SweepInv, [Next]_vars PROVE SweepInv'
  OBVIOUS
<1>1. ASSUME NEW s \in Sweepers, Sweep(s) PROVE SweepInv'
  BY <1>1, BeginStep, ExpireStep, WarnOfExpiryStep, NotNearExpiryStep, RecordStep,
     QuotaAfterWarningStep, MapWrittenStep, SweepFailsStep, NotifyExhaustedStep, EndStep
  DEF Sweep
<1>2. ASSUME NEW s \in Sweepers, EntryNotFound(s) \/ SweepFails(s) PROVE SweepInv'
  BY <1>2, MapWrittenStep, SweepFailsStep
<1>3. CASE \/ \E c \in Configs : GetSubscription(c) \/ Use(c)
           \/ NextDay
           \/ UNCHANGED vars
  BY <1>3, OthersStep
<1> QED
  BY <1>1, <1>2, <1>3 DEF Next

LEMMA SweepAlways == Spec => []SweepInv
<1>1. Init => SweepInv
  BY SweepInvInit
<1>2. SweepInv /\ [Next]_vars => SweepInv'
  BY SweepStep
<1> QED
  BY <1>1, <1>2, PTL DEF Spec

----------------------------------------------------------------------------
\* Types hold in every reachable state: a sweep that is past the head of its
\* loop holds a configuration, and one about to write holds a whole map.
THEOREM SweepTyped == Spec => []TypeOK
<1>1. SweepInv => TypeOK
  BY DEF SweepInv
<1> QED
  BY <1>1, SweepAlways, PTL

\* However the sweeps, the subscription endpoint and the passing of days and
\* traffic interleave, and whatever fails: no configuration is EXPIRED before
\* its day, and no credential is disabled whose quota is not used up.
THEOREM NeverCutOffEarly == Spec => []NobodyCutOffEarly
<1>1. SweepInv => NobodyCutOffEarly
  BY DEF SweepInv
<1> QED
  BY <1>1, SweepAlways, PTL

\* A sweep that reaches its end has expired every configuration that was due
\* when it began, whoever changed the same rows meanwhile.
THEOREM SweepAlwaysComplete == Spec => SweepComplete
<1> DEFINE Complete(s) == End(s) =>
        \A c \in Swept : Due(c, sweeper[s].today) => status'[c] = "EXPIRED"
<1>1. ASSUME SweepInv, NEW s \in Sweepers PROVE Complete(s)
  <2> SUFFICES ASSUME End(s), NEW c \in Swept, Due(c, sweeper[s].today)
               PROVE  status'[c] = "EXPIRED"
    OBVIOUS
  <2>1. c \in Configs
    BY DEF Swept
  <2>2. sweeper[s].at = "next" /\ sweeper[s].queue = {}
    BY DEF End
  <2>3. Sound(sweeper[s], expires, day, used, status)
    BY <1>1 DEF SweepInv
  <2>4. status[c] = "EXPIRED" \/ c \in sweeper[s].pending
    BY <2>2, <2>3 DEF Sound, Due
  <2> QED
    BY <2>1, <2>4 DEF End, Commit
<1>2. SweepInv /\ [Next]_vars => [\A s \in Sweepers : Complete(s)]_vars
  BY <1>1
<1> QED
  BY <1>2, SweepAlways, PTL DEF Spec, SweepComplete

----------------------------------------------------------------------------
(* How often a customer is told.  The rows of the day for a customer and a *)
(* kind can be attributed to pairs of a sweep service and a configuration, *)
(* and no pair gets two: a service whose sweep began on an earlier day     *)
(* comes to a configuration once, and one whose sweep began today records  *)
(* only if it found no row at all.                                         *)

QuotaKinds == {"quota_warn", "quota_exhausted"}
Mine(p) == {c \in Configs : owner[c] = p}

\* Sweep r may still record a notification of kind k about configuration c.
Ahead(r, c, k) ==
    /\ r.at # "idle"
    /\ \/ c \in r.queue
       \/ c = r.config /\ r.at = "record" /\ r.kind = k
       \/ /\ c = r.config /\ k \in QuotaKinds
          /\ \/ r.at \in {"quota", "write", "check"}
             \/ r.at = "record" /\ r.kind = "expiry_warn"

\* Sweep r is about to record just that.
Records(r, c, k) == r.at = "record" /\ r.config = c /\ r.kind = k

\* What the pairs in R leave the sweeps to do today.
Done(R, k) ==
    \A s \in Sweepers, c \in Configs : <<s, c>> \in R =>
        /\ ~Records(sweeper[s], c, k)
        /\ sweeper[s].today < day => ~Ahead(sweeper[s], c, k)

Attributed(R, p, k) ==
    /\ R \subseteq Sweepers \X Mine(p)
    /\ Cardinality(R) = log[<<p, k, day>>]
    /\ Done(R, k)

\* A sweep works on a configuration that has left its queue.
HeadLeft(r) == r.at \notin {"idle", "next"} => r.config \notin r.queue

TallyInv ==
    /\ \A s \in Sweepers : HeadLeft(sweeper[s])
    /\ \A p \in Customers, k \in Kinds : \E R : Attributed(R, p, k)
    /\ \A p \in Customers, k \in Kinds, d \in Days : d > day => log[<<p, k, d>>] = 0
    /\ ToldOncePerSweeper

\* Pairs of a service and a configuration of one customer are finitely many.
LEMMA PairsCounted ==
    ASSUME NEW p
    PROVE  /\ IsFiniteSet(Mine(p)) /\ IsFiniteSet(Sweepers \X Mine(p))
           /\ Cardinality(Sweepers) \in Nat /\ Cardinality(Mine(p)) \in Nat
           /\ Cardinality(Sweepers \X Mine(p)) = Cardinality(Sweepers) * Cardinality(Mine(p))
<1>1. IsFiniteSet(Mine(p)) /\ IsFiniteSet(Sweepers)
  <2>1. Mine(p) \in SUBSET Configs
    BY DEF Mine
  <2> QED
    BY <2>1, SweepAssumption, FS_Subset
<1> QED
  BY <1>1, FS_Product, FS_CardinalityType

\* Rows that are attributed are not too many.
LEMMA AttributedWithin ==
    ASSUME NEW p, NEW k, NEW R, Attributed(R, p, k)
    PROVE  /\ IsFiniteSet(R)
           /\ log[<<p, k, day>>] <= Cardinality(Sweepers) * Cardinality({c \in Configs : owner[c] = p})
<1>1. R \in SUBSET (Sweepers \X Mine(p))
  BY DEF Attributed
<1>2. IsFiniteSet(R) /\ Cardinality(R) <= Cardinality(Sweepers \X Mine(p))
  BY <1>1, PairsCounted, FS_Subset
<1> QED
  BY <1>2, PairsCounted DEF Attributed, Mine

LEMMA NothingAttributed ==
    ASSUME NEW p, NEW k, log[<<p, k, day>>] = 0
    PROVE  Attributed({}, p, k)
  BY FS_EmptySet DEF Attributed, Done

LEMMA TallyInit == Init => TallyInv
<1> SUFFICES ASSUME Init PROVE TallyInv
  OBVIOUS
<1>1. \A p \in Customers, k \in Kinds, d \in Days : log[<<p, k, d>>] = 0
  BY DEF Init
<1>2. day \in Days
  BY SweepAssumption DEF Init, Days
<1>3. \A p \in Customers, k \in Kinds : Attributed({}, p, k)
  BY <1>1, <1>2, NothingAttributed
<1>4. ToldOncePerSweeper
  <2> SUFFICES ASSUME NEW p \in Customers, NEW k \in Kinds, NEW d \in Days
               PROVE  0 <= Cardinality(Sweepers) * Cardinality(Mine(p))
    BY <1>1 DEF ToldOncePerSweeper, Mine
  <2>1. IsFiniteSet(Sweepers \X Mine(p))
    BY PairsCounted
  <2>2. Cardinality(Sweepers \X Mine(p)) \in Nat
    BY <2>1, FS_CardinalityType
  <2> QED
    BY <2>2, PairsCounted
<1>5. \A s \in Sweepers : HeadLeft(sweeper[s])
  BY DEF Init, Idle, HeadLeft
<1> QED
  BY <1>1, <1>3, <1>4, <1>5 DEF TallyInv

\* r is where sweep s may go without a row: what it may still record it
\* could record before, and if it is to record it has found no row.
Narrows(r, s) ==
    /\ r \in Sweeps /\ HeadLeft(r)
    /\ r.at # "idle" =>
           /\ r.today < day => sweeper[s].today < day
                /\ \A c \in Configs, k \in Kinds : Ahead(r, c, k) => Ahead(sweeper[s], c, k)
           /\ r.at = "record" => r.config \in Configs /\ r.kind \in Kinds
                /\ (r.today = day => log[<<owner[r.config], r.kind, day>>] = 0)

LEMMA IdleNarrows == ASSUME NEW s PROVE Narrows(Idle, s)
  BY IdleSound DEF Narrows, HeadLeft

\* A sweep that moves on takes no pair from the rows of the day.
LEMMA NarrowStep ==
    ASSUME SweepInv, SweepInv', TallyInv, NEW s \in Sweepers, NEW r, Narrows(r, s),
           sweeper' = [sweeper EXCEPT ![s] = r],
           owner' = owner, day' = day, log' = log
    PROVE  TallyInv'
<1>1. /\ sweeper'[s] = r
      /\ \A t \in Sweepers \ {s} : sweeper'[t] = sweeper[t]
  BY DEF SweepInv, TypeOK
<1>2. r.today \in Nat /\ day \in Nat /\ (r.at # "idle" => r.today <= day)
  <2>1. Sound(r, expires', day, used', status')
    BY <1>1 DEF SweepInv
  <2> QED
    BY <2>1, SweepAssumption DEF Sound, Narrows, Sweeps, Days, SweepInv, TypeOK
<1>3. \A t \in Sweepers : HeadLeft(sweeper'[t])
  BY <1>1 DEF TallyInv, Narrows
<1>4. ASSUME NEW p \in Customers, NEW k \in Kinds
      PROVE  \E R : Attributed(R, p, k)'
  <2>1. PICK R : Attributed(R, p, k)
    BY DEF TallyInv
  <2>2. IsFiniteSet(R) /\ R \subseteq Sweepers \X Mine(p)
    BY <2>1, AttributedWithin DEF Attributed
  <2>3. ASSUME NEW c \in Configs, <<s, c>> \in R
        PROVE  ~Records(r, c, k) /\ (r.today < day => ~Ahead(r, c, k))
    <3>1. r.today < day => ~Ahead(r, c, k)
      BY <2>1, <2>3 DEF Attributed, Done, Narrows, Ahead
    <3>2. ASSUME Records(r, c, k) PROVE FALSE
      <4>1. r.at = "record" /\ r.config = c /\ r.kind = k
        BY <3>2 DEF Records
      <4>2. CASE r.today < day
        BY <3>1, <4>1, <4>2 DEF Ahead
      <4>3. CASE r.today = day
        <5>1. owner[c] = p
          BY <2>2, <2>3 DEF Mine
        <5>2. Cardinality(R) = 0
          BY <2>1, <4>1, <4>3, <5>1 DEF Narrows, Attributed
        <5> QED
          BY <2>2, <2>3, <5>2, FS_EmptySet
      <4> QED
        BY <1>2, <4>1, <4>2, <4>3
    <3> QED
      BY <3>1, <3>2
  <2>4. Done(R, k)'
    <3> SUFFICES ASSUME NEW t \in Sweepers, NEW c \in Configs, <<t, c>> \in R
                 PROVE  /\ ~Records(sweeper'[t], c, k)
                        /\ sweeper'[t].today < day => ~Ahead(sweeper'[t], c, k)
      BY DEF Done
    <3>1. CASE t = s
      BY <1>1, <2>3, <3>1
    <3>2. CASE t # s
      BY <1>1, <2>1, <3>2 DEF Attributed, Done
    <3> QED
      BY <3>1, <3>2
  <2>5. Mine(p)' = Mine(p)
    BY DEF Mine
  <2> QED
    BY <2>1, <2>4, <2>5 DEF Attributed
<1>5. ToldOncePerSweeper'
  BY DEF TallyInv, ToldOncePerSweeper
<1> QED
  BY <1>3, <1>4, <1>5 DEF TallyInv

\* r is a place where a sweep goes on from l: to a record of one of `kinds` if
\* there was no row of it, or without a record.
Looks(r, l, kinds) ==
    /\ r \in Sweeps
    /\ \/ r = Idle
       \/ /\ r.today = l.today /\ r.queue = l.queue
          /\ \/ r.at = "next"
             \/ r.at = "quota" /\ r.config = l.config /\ "expiry_warn" \in kinds
             \/ r.at = "write" /\ r.config = l.config /\ "quota_warn" \in kinds
             \/ /\ r.at = "record" /\ r.config = l.config /\ r.kind \in kinds
                /\ log[<<owner[r.config], r.kind, r.today>>] = 0

LEMMA AlreadySentLooks ==
    ASSUME NEW s \in Sweepers, NEW l \in Sweeps, NEW kind \in Kinds,
           AlreadySent(s, l, kind)
    PROVE  \E r : Looks(r, l, {kind}) /\ sweeper' = [sweeper EXCEPT ![s] = r]
<1> DEFINE rows == log[<<owner[l.config], kind, l.today>>]
           toRecord == [l EXCEPT !.at = "record", !.kind = kind]
<1>1. CASE rows = 0
  <2>1. sweeper' = [sweeper EXCEPT ![s] = toRecord]
    BY <1>1 DEF AlreadySent
  <2>2. Looks(toRecord, l, {kind})
    BY <1>1 DEF Looks, Sweeps, Steps
  <2> QED
    BY <2>1, <2>2
<1>2. CASE rows = 1
  <2>1. sweeper' = [sweeper EXCEPT ![s] = Onward(l, kind)]
    BY <1>2 DEF AlreadySent
  <2>2. Looks(Onward(l, kind), l, {kind})
    <3>1. CASE kind = "expiry_warn"
      BY <3>1 DEF Onward, Looks, Sweeps, Steps
    <3>2. CASE kind # "expiry_warn"
      BY <3>2 DEF Onward, Looks, Sweeps, Steps
    <3> QED
      BY <3>1, <3>2
  <2> QED
    BY <2>1, <2>2
<1>3. CASE rows \notin {0, 1}
  <2>1. sweeper' = [sweeper EXCEPT ![s] = Idle]
    BY <1>3 DEF AlreadySent
  <2> QED
    BY <2>1, IdleSound DEF Looks
<1> QED
  BY <1>1, <1>2, <1>3

LEMMA CheckQuotaLooks ==
    ASSUME SweepInv, NEW s \in Sweepers, NEW l \in Sweeps, CheckQuota(s, l)
    PROVE  \E r : Looks(r, l, {"quota_warn"}) /\ sweeper' = [sweeper EXCEPT ![s] = r]
<1> DEFINE toWrite == [l EXCEPT !.at = "write", !.map = credential]
           next == [l EXCEPT !.at = "next", !.kind = None, !.config = None]
<1>1. CASE used[l.config] = "exhausted"
  <2>1. sweeper' = [sweeper EXCEPT ![s] = toWrite]
    BY <1>1 DEF CheckQuota
  <2>2. Looks(toWrite, l, {"quota_warn"})
    BY DEF Looks, Sweeps, Steps, SweepInv, TypeOK
  <2> QED
    BY <2>1, <2>2
<1>2. CASE used[l.config] = "high"
  <2>1. AlreadySent(s, l, "quota_warn")
    BY <1>2 DEF CheckQuota
  <2> QED
    BY <2>1, AlreadySentLooks DEF Kinds
<1>3. CASE used[l.config] \notin {"exhausted", "high"}
  <2>1. sweeper' = [sweeper EXCEPT ![s] = Onward(l, None)]
    BY <1>3 DEF CheckQuota
  <2>2. Looks(Onward(l, None), l, {"quota_warn"})
    BY SweepAssumption DEF Onward, Looks, Sweeps, Steps, Kinds
  <2> QED
    BY <2>1, <2>2
<1> QED
  BY <1>1, <1>2, <1>3

\* A visit takes a configuration off the queue, which was ahead of the sweep
\* with every kind of notification.
LEMMA VisitNarrows ==
    ASSUME SweepInv, NEW s \in Sweepers, NEW c \in Configs, Visit(s, c),
           NEW l \in Sweeps, l.config = c, l.today = sweeper[s].today,
           l.queue = sweeper[s].queue \ {c},
           NEW kinds \in SUBSET Kinds, NEW r, Looks(r, l, kinds)
    PROVE  Narrows(r, s)
<1>1. CASE r = Idle
  BY <1>1, IdleNarrows
<1>2. CASE r # Idle
  <2>1. /\ r \in Sweeps /\ r.today = sweeper[s].today
        /\ r.queue = sweeper[s].queue \ {c} /\ c \in sweeper[s].queue
        /\ r.at # "next" => r.config = c
        /\ r.at \in {"next", "quota", "write", "record"}
    BY <1>2 DEF Looks, Visit
  <2>2. \A x \in Configs, k \in Kinds : Ahead(r, x, k) => Ahead(sweeper[s], x, k)
    BY <2>1 DEF Ahead, Visit
  <2>3. HeadLeft(r)
    BY <2>1 DEF HeadLeft
  <2>4. r.at = "record" =>
            /\ r.config \in Configs /\ r.kind \in Kinds
            /\ r.today = day => log[<<owner[r.config], r.kind, day>>] = 0
    BY <1>2, <2>1 DEF Looks
  <2> QED
    BY <2>1, <2>2, <2>3, <2>4 DEF Narrows
<1> QED
  BY <1>1, <1>2

\* Past the head of the loop only notifications about the quota are ahead.
LEMMA MiddleNarrows ==
    ASSUME SweepInv, TallyInv, NEW s \in Sweepers,
           sweeper[s].at \in {"quota", "write", "check"},
           NEW kinds \in SUBSET QuotaKinds, NEW r, Looks(r, sweeper[s], kinds)
    PROVE  Narrows(r, s)
<1>1. CASE r = Idle
  BY <1>1, IdleNarrows
<1>2. CASE r # Idle
  <2>1. /\ r \in Sweeps /\ r.today = sweeper[s].today /\ r.queue = sweeper[s].queue
        /\ r.at # "next" => r.config = sweeper[s].config
        /\ r.at \in {"next", "write", "record"}
        /\ r.at = "record" => r.kind \in QuotaKinds
        /\ sweeper[s].config \in Configs /\ HeadLeft(sweeper[s])
    BY <1>2 DEF Looks, QuotaKinds, SweepInv, TypeOK, TallyInv
  <2>2. \A x \in Configs, k \in Kinds : Ahead(r, x, k) => Ahead(sweeper[s], x, k)
    BY <2>1 DEF Ahead, QuotaKinds
  <2>3. HeadLeft(r)
    BY <2>1 DEF HeadLeft
  <2>4. r.at = "record" =>
            /\ r.config \in Configs /\ r.kind \in Kinds
            /\ r.today = day => log[<<owner[r.config], r.kind, day>>] = 0
    BY <1>2, <2>1 DEF Looks, QuotaKinds, Kinds
  <2> QED
    BY <2>1, <2>2, <2>3, <2>4 DEF Narrows
<1> QED
  BY <1>1, <1>2

\* Every step of a sweep but the record itself.
LEMMA SilentStep ==
    ASSUME SweepInv, SweepInv', TallyInv, NEW s \in Sweepers,
           \/ Begin(s) \/ QuotaAfterWarning(s) \/ SetEntryStatus(s) \/ EntryNotFound(s)
           \/ NotifyExhausted(s) \/ SetEntryStatusRaises(s) \/ End(s) \/ SweepFails(s)
           \/ \E c \in Configs : Expire(s, c) \/ WarnOfExpiry(s, c) \/ NotNearExpiry(s, c)
    PROVE  TallyInv'
<1>1. owner' = owner /\ day' = day /\ log' = log
  BY DEF Begin, QuotaAfterWarning, SetEntryStatus, EntryNotFound, NotifyExhausted,
         SetEntryStatusRaises, End, SweepFails, Expire, WarnOfExpiry, NotNearExpiry, Visit
<1> SUFFICES \E r : Narrows(r, s) /\ sweeper' = [sweeper EXCEPT ![s] = r]
  BY <1>1, NarrowStep
<1>2. sweeper[s] \in Sweeps /\ day \in Days /\ day \in Nat
  BY SweepAssumption DEF SweepInv, TypeOK, Days
<1>3. CASE Begin(s)
  <2> DEFINE r == [Idle EXCEPT !.at = "next", !.today = day,
                       !.queue = {c \in Swept : status[c] = "ACTIVE"}]
  <2>1. r \in Sweeps /\ r.at = "next" /\ r.today = day
    BY <1>2, IdleSound DEF Sweeps, Steps, Swept
  <2>2. sweeper' = [sweeper EXCEPT ![s] = r]
    BY <1>3 DEF Begin
  <2> HIDE DEF r
  <2>3. Narrows(r, s)
    BY <1>2, <2>1 DEF Narrows, HeadLeft
  <2> QED
    BY <2>2, <2>3
<1>4. CASE End(s) \/ SweepFails(s) \/ SetEntryStatusRaises(s)
  BY <1>4, IdleNarrows DEF End, SweepFails, SetEntryStatusRaises
<1>5. CASE QuotaAfterWarning(s)
  <2>1. PICK r : Looks(r, sweeper[s], {"quota_warn"}) /\ sweeper' = [sweeper EXCEPT ![s] = r]
    BY <1>2, <1>5, CheckQuotaLooks DEF QuotaAfterWarning
  <2>2. {"quota_warn"} \in SUBSET QuotaKinds /\ sweeper[s].at = "quota"
    BY <1>5 DEF QuotaKinds, QuotaAfterWarning
  <2> QED
    BY <2>1, <2>2, MiddleNarrows
<1>6. CASE NotifyExhausted(s)
  <2>1. PICK r : Looks(r, sweeper[s], {"quota_exhausted"}) /\ sweeper' = [sweeper EXCEPT ![s] = r]
    BY <1>2, <1>6, AlreadySentLooks DEF NotifyExhausted, Kinds
  <2>2. {"quota_exhausted"} \in SUBSET QuotaKinds /\ sweeper[s].at = "check"
    BY <1>6 DEF QuotaKinds, NotifyExhausted
  <2> QED
    BY <2>1, <2>2, MiddleNarrows
<1>7. CASE SetEntryStatus(s) \/ EntryNotFound(s)
  <2> DEFINE r == [sweeper[s] EXCEPT !.at = "check", !.map = None]
  <2>1. sweeper' = [sweeper EXCEPT ![s] = r] /\ sweeper[s].at = "write"
    BY <1>2, <1>7 DEF SetEntryStatus, EntryNotFound, SweepInv, TypeOK
  <2>2. /\ r \in Sweeps /\ r.at = "check" /\ r.config = sweeper[s].config
        /\ r.today = sweeper[s].today /\ r.queue = sweeper[s].queue
    BY <1>2 DEF Sweeps, Steps
  <2> HIDE DEF r
  <2>3. Narrows(r, s)
    BY <2>1, <2>2 DEF Narrows, HeadLeft, Ahead, TallyInv
  <2> QED
    BY <2>1, <2>3
<1>8. ASSUME NEW c \in Configs, Expire(s, c) \/ WarnOfExpiry(s, c) \/ NotNearExpiry(s, c)
      PROVE  \E r : Narrows(r, s) /\ sweeper' = [sweeper EXCEPT ![s] = r]
  <2> DEFINE v == Visited(s, c)
             l == [v EXCEPT !.pending = @ \cup {c}]
  <2>1. Visit(s, c)
    BY <1>8 DEF Expire, WarnOfExpiry, NotNearExpiry
  <2>2. v \in Sweeps /\ v.config = c /\ v.today = sweeper[s].today
        /\ v.queue = sweeper[s].queue \ {c}
    BY <2>1, VisitedIs
  <2>3. CASE Expire(s, c)
    <3>1. AlreadySent(s, l, "expired")
      BY <2>3 DEF Expire
    <3> HIDE DEF v
    <3>2. l \in Sweeps /\ l.config = c /\ l.today = sweeper[s].today
          /\ l.queue = sweeper[s].queue \ {c}
      BY <2>2 DEF Sweeps
    <3> HIDE DEF l
    <3>3. PICK r : Looks(r, l, {"expired"}) /\ sweeper' = [sweeper EXCEPT ![s] = r]
      BY <3>1, <3>2, AlreadySentLooks DEF Kinds
    <3>4. {"expired"} \in SUBSET Kinds
      BY DEF Kinds
    <3> QED
      BY <2>1, <3>2, <3>3, <3>4, VisitNarrows
  <2>4. CASE WarnOfExpiry(s, c)
    <3>1. AlreadySent(s, v, "expiry_warn")
      BY <2>4 DEF WarnOfExpiry
    <3> HIDE DEF v
    <3>2. PICK r : Looks(r, v, {"expiry_warn"}) /\ sweeper' = [sweeper EXCEPT ![s] = r]
      BY <2>2, <3>1, AlreadySentLooks DEF Kinds
    <3>3. {"expiry_warn"} \in SUBSET Kinds
      BY DEF Kinds
    <3> QED
      BY <2>1, <2>2, <3>2, <3>3, VisitNarrows
  <2>5. CASE NotNearExpiry(s, c)
    <3>1. CheckQuota(s, v)
      BY <2>5 DEF NotNearExpiry
    <3> HIDE DEF v
    <3>2. PICK r : Looks(r, v, {"quota_warn"}) /\ sweeper' = [sweeper EXCEPT ![s] = r]
      BY <2>2, <3>1, CheckQuotaLooks
    <3>3. {"quota_warn"} \in SUBSET Kinds
      BY DEF Kinds
    <3> QED
      BY <2>1, <2>2, <3>2, <3>3, VisitNarrows
  <2> QED
    BY <1>8, <2>3, <2>4, <2>5
<1> QED
  BY <1>3, <1>4, <1>5, <1>6, <1>7, <1>8

\* A record takes the pair of its sweep and configuration, which was free.
LEMMA RecordTally ==
    ASSUME SweepInv, SweepInv', TallyInv, NEW s \in Sweepers, Record(s)
    PROVE  TallyInv'
<1> DEFINE old == sweeper[s]
           o == Onward(old, old.kind)
           r == [o EXCEPT !.pending = {}]
           c0 == old.config
           p0 == owner[c0]
<1>1. /\ old \in Sweeps /\ old.at = "record" /\ c0 \in Configs /\ old.kind \in Kinds
      /\ p0 \in Customers /\ day \in Days /\ day \in Nat /\ c0 \notin old.queue
  BY SweepAssumption DEF SweepInv, TypeOK, Record, TallyInv, HeadLeft, Days
<1>2. sweeper' = [sweeper EXCEPT ![s] = r]
      /\ log' = [log EXCEPT ![<<p0, old.kind, day>>] = @ + 1]
      /\ owner' = owner /\ day' = day
  BY <1>1 DEF Record, SweepInv, TypeOK
<1>3. /\ r.queue = old.queue /\ r.today = old.today /\ r.at \in {"next", "quota"}
      /\ r.at = "quota" => old.kind = "expiry_warn" /\ r.config = c0
  <2>1. CASE old.kind = "expiry_warn"
    BY <1>1, <2>1 DEF Onward, Sweeps
  <2>2. CASE old.kind # "expiry_warn"
    BY <1>1, <2>2 DEF Onward, Sweeps
  <2> QED
    BY <2>1, <2>2
<1>4. /\ sweeper'[s] = r
      /\ \A t \in Sweepers \ {s} : sweeper'[t] = sweeper[t]
  BY <1>2 DEF SweepInv, TypeOK
<1> HIDE DEF r, o
<1>5. \A t \in Sweepers : HeadLeft(sweeper'[t])
  BY <1>1, <1>3, <1>4 DEF TallyInv, HeadLeft
<1>6. /\ log \in [Customers \X Kinds \X Days -> Nat]
      /\ log'[<<p0, old.kind, day>>] = log[<<p0, old.kind, day>>] + 1
      /\ \A p \in Customers, k \in Kinds, d \in Days :
             <<p, k, d>> # <<p0, old.kind, day>> => log'[<<p, k, d>>] = log[<<p, k, d>>]
  BY <1>1, <1>2 DEF SweepInv, TypeOK
<1>7. \A c \in Configs, k \in Kinds : Ahead(r, c, k) => Ahead(old, c, k) /\ ~Records(old, c, k)
  BY <1>1, <1>3 DEF Ahead, Records, QuotaKinds
<1>8. ASSUME NEW p \in Customers, NEW k \in Kinds
      PROVE  \E R : Attributed(R, p, k)'
  <2>1. PICK R : Attributed(R, p, k)
    BY DEF TallyInv
  <2>2. IsFiniteSet(R)
    BY <2>1, AttributedWithin
  <2>3. Mine(p)' = Mine(p)
    BY <1>2 DEF Mine
  <2>4. ASSUME NEW Q, Q \subseteq R \cup (IF k = old.kind THEN {<<s, c0>>} ELSE {})
        PROVE  Done(Q, k)'
    <3> SUFFICES ASSUME NEW t \in Sweepers, NEW c \in Configs, <<t, c>> \in Q
                 PROVE  /\ ~Records(sweeper'[t], c, k)
                        /\ sweeper'[t].today < day => ~Ahead(sweeper'[t], c, k)
      BY <1>2 DEF Done
    <3>1. CASE t = s /\ <<t, c>> \in R
      BY <1>3, <1>4, <1>7, <2>1, <3>1 DEF Attributed, Done, Records
    <3>2. CASE t = s /\ <<t, c>> \notin R
      <4>1. c = c0 /\ k = old.kind
        BY <2>4, <3>2
      <4>2. Records(old, c, k)
        BY <1>1, <4>1 DEF Records
      <4> QED
        BY <1>3, <1>4, <1>7, <3>2, <4>2 DEF Records
    <3>3. CASE t # s
      <4>1. <<t, c>> \in R
        BY <2>4, <3>3
      <4> QED
        BY <1>4, <2>1, <3>3, <4>1 DEF Attributed, Done
    <3> QED
      BY <3>1, <3>2, <3>3
  <2>5. CASE p = p0 /\ k = old.kind
    <3>0. PICK c1 \in Configs : c1 = c0
      BY <1>1
    <3> DEFINE Q == R \cup {<<s, c1>>}
    <3>1. <<s, c1>> \notin R
      BY <1>1, <2>1, <2>5, <3>0 DEF Attributed, Done, Records
    <3>2. Cardinality(Q) = Cardinality(R) + 1
      BY <2>2, <3>1, FS_AddElement
    <3>3. Cardinality(Q) = log'[<<p, k, day'>>]
      BY <1>2, <1>6, <2>1, <2>5, <3>2 DEF Attributed
    <3>4. Q \subseteq Sweepers \X Mine(p)
      BY <1>1, <2>1, <2>5, <3>0 DEF Attributed, Mine
    <3>5. Done(Q, k)'
      <4>1. Q \subseteq R \cup (IF k = old.kind THEN {<<s, c0>>} ELSE {})
        BY <2>5, <3>0
      <4> HIDE DEF Q, c0, old
      <4> QED
        BY <2>4, <4>1
    <3> HIDE DEF Q
    <3> QED
      BY <2>3, <3>3, <3>4, <3>5 DEF Attributed
  <2>6. CASE ~(p = p0 /\ k = old.kind)
    <3>1. log'[<<p, k, day'>>] = log[<<p, k, day>>]
      BY <1>1, <1>2, <1>6, <2>6
    <3>2. Done(R, k)'
      BY <2>4
    <3> QED
      BY <2>1, <2>3, <3>1, <3>2 DEF Attributed
  <2> QED
    BY <2>5, <2>6
<1>9. ASSUME NEW p \in Customers, NEW k \in Kinds, NEW d \in Days, d > day
      PROVE  log'[<<p, k, d>>] = 0
  BY <1>1, <1>6, <1>9 DEF TallyInv
<1>10. ASSUME NEW p \in Customers, NEW k \in Kinds, NEW d \in Days
       PROVE  log'[<<p, k, d>>]
                  <= Cardinality(Sweepers) * Cardinality({c \in Configs : owner'[c] = p})
  <2>1. CASE d = day
    <3>1. PICK R : Attributed(R, p, k)'
      BY <1>8
    <3> DEFINE T == {c \in Configs : owner'[c] = p}
    <3>2. R \in SUBSET (Sweepers \X T) /\ Cardinality(R) = log'[<<p, k, d>>]
      BY <1>2, <2>1, <3>1 DEF Attributed, Mine
    <3>3. T = Mine(p)
      BY <1>2 DEF Mine
    <3> HIDE DEF T
    <3>4. Cardinality(R) <= Cardinality(Sweepers \X T)
      BY <3>2, <3>3, PairsCounted, FS_Subset
    <3>5. Cardinality(Sweepers \X T) = Cardinality(Sweepers) * Cardinality(T)
      BY <3>3, PairsCounted
    <3> QED
      BY <3>2, <3>4, <3>5 DEF T
  <2>2. CASE d # day
    BY <1>2, <1>6, <2>2 DEF TallyInv, ToldOncePerSweeper
  <2> QED
    BY <2>1, <2>2
<1> QED
  BY <1>2, <1>5, <1>8, <1>9, <1>10 DEF TallyInv, ToldOncePerSweeper

\* On a new day there are no rows yet, and no pair is taken.
LEMMA OthersTally ==
    ASSUME SweepInv, TallyInv,
           \/ \E c \in Configs : GetSubscription(c) \/ Use(c)
           \/ NextDay
           \/ UNCHANGED vars
    PROVE  TallyInv'
<1>1. owner' = owner /\ log' = log /\ sweeper' = sweeper
  BY DEF GetSubscription, Use, NextDay, vars
<1>2. ToldOncePerSweeper'
  BY <1>1 DEF TallyInv, ToldOncePerSweeper
<1>3. CASE day' = day
  BY <1>1, <1>2, <1>3 DEF TallyInv, Attributed, Done, Mine, HeadLeft
<1>4. CASE NextDay
  <2>1. day \in Nat /\ day' = day + 1 /\ day' \in Days
    BY <1>4, SweepAssumption DEF NextDay, SweepInv, TypeOK, Days
  <2>2. \A p \in Customers, k \in Kinds, d \in Days : d > day' => log'[<<p, k, d>>] = 0
    BY <1>1, <2>1, SweepAssumption DEF TallyInv, Days
  <2>3. ASSUME NEW p \in Customers, NEW k \in Kinds PROVE Attributed({}, p, k)'
    <3>1. log'[<<p, k, day'>>] = 0
      BY <1>1, <2>1 DEF TallyInv
    <3> QED
      BY <3>1, FS_EmptySet DEF Attributed, Done
  <2> QED
    BY <1>1, <1>2, <2>2, <2>3 DEF TallyInv
<1> QED
  BY <1>3, <1>4 DEF GetSubscription, Use, vars

LEMMA TallyStep == SweepInv /\ SweepInv' /\ TallyInv /\ [Next]_vars => TallyInv'
<1> SUFFICES ASSUME SweepInv, SweepInv', TallyInv, [Next]_vars PROVE TallyInv'
  OBVIOUS
<1>1. ASSUME NEW s \in Sweepers, Sweep(s) \/ EntryNotFound(s) \/ SweepFails(s)
      PROVE  TallyInv'
  BY <1>1, SilentStep, RecordTally DEF Sweep
<1>2. CASE \/ \E c \in Configs : GetSubscription(c) \/ Use(c)
           \/ NextDay
           \/ UNCHANGED vars
  BY <1>2, OthersTally
<1> QED
  BY <1>1, <1>2 DEF Next

\* In one day a customer is told of one thing at most as often as there are
\* sweep services and configurations of his, although the look-up and the
\* record are two statements and may fall on two days.
THEOREM NeverToldMore == Spec => []ToldOncePerSweeper
<1>1. Init => TallyInv
  BY TallyInit
<1>2. SweepInv /\ SweepInv' /\ TallyInv /\ [Next]_vars => TallyInv'
  BY TallyStep
<1>3. TallyInv => ToldOncePerSweeper
  BY DEF TallyInv
<1> QED
  BY <1>1, <1>2, <1>3, SweepAlways, PTL DEF Spec
=============================================================================
