----------------------------- MODULE UsersProofs -----------------------------
(***************************************************************************)
(* Proofs about what the users meet (MCUsers): the device limit, for any   *)
(* finite set of connections, any limit and any set of faults; the tests,  *)
(* for any numbers of handlers, customers and rows; and the composition    *)
(* with the dialogues, from what BotDialogProofs shows of one of them.     *)
(***************************************************************************)
EXTENDS MCUsers, FiniteSetTheorems, TLAPS

\* The counter together with the strays covers every slot in use: those of
\* connections and those of releases on their way.
SlotsCovered == Cardinality(Holders) + decrs <= count + strays

SlotsInv ==
    /\ TypeOK
    /\ SlotsCovered
    /\ SlotsAccountedFor

LEMMA HoldersFinite ==
    /\ IsFiniteSet(Holders)
    /\ Cardinality(Holders) \in Nat
    /\ IsFiniteSet(Open)
    /\ Cardinality(Open) \in Nat
    /\ Cardinality(Open) <= Cardinality(Holders)
<1>1. IsFiniteSet(Holders) /\ Cardinality(Holders) \in Nat
  BY SessionAssumption, FS_Subset, FS_CardinalityType DEF Holders
<1>2. Open \subseteq Holders
  BY DEF Open, Holders
<1> QED
  BY <1>1, <1>2, FS_Subset, FS_CardinalityType

\* A step of one connection that neither takes nor leaves a slot.
LEMMA HoldersKept ==
    ASSUME NEW c \in Connections, NEW from \in Phases, NEW to \in Phases,
           at \in [Connections -> Phases], Move(c, from, to),
           from \in {"granted", "open"} <=> to \in {"granted", "open"}
    PROVE  at' \in [Connections -> Phases] /\ Holders' = Holders
  BY DEF Move, Holders

LEMMA HolderJoins ==
    ASSUME NEW c \in Connections, NEW from \in Phases, NEW to \in Phases,
           at \in [Connections -> Phases], Move(c, from, to),
           from \notin {"granted", "open"}, to \in {"granted", "open"}
    PROVE  /\ at' \in [Connections -> Phases]
           /\ Cardinality(Holders') = Cardinality(Holders) + 1
<1>1. at' \in [Connections -> Phases]
      /\ Holders' = Holders \cup {c} /\ c \notin Holders
  BY DEF Move, Holders
<1> QED
  BY <1>1, HoldersFinite, FS_AddElement

LEMMA HolderLeaves ==
    ASSUME NEW c \in Connections, NEW from \in Phases, NEW to \in Phases,
           at \in [Connections -> Phases], Move(c, from, to),
           from \in {"granted", "open"}, to \notin {"granted", "open"}
    PROVE  /\ at' \in [Connections -> Phases]
           /\ Cardinality(Holders') = Cardinality(Holders) - 1
<1>1. at' \in [Connections -> Phases]
      /\ Holders' = Holders \ {c} /\ c \in Holders
  BY DEF Move, Holders
<1> QED
  BY <1>1, HoldersFinite, FS_RemoveElement

LEMMA SlotsInit == Init => SlotsInv
<1> SUFFICES ASSUME Init PROVE SlotsInv
  OBVIOUS
<1>1. Holders = {}
  BY DEF Init, Holders
<1>2. Cardinality(Holders) = 0
  BY <1>1, FS_EmptySet
<1>3. TypeOK
  BY SessionAssumption DEF Init, TypeOK, Phases
<1> QED
  BY <1>2, <1>3 DEF Init, SlotsInv, SlotsCovered, SlotsAccountedFor

LEMMA SlotsStep == SlotsInv /\ [Next]_vars => SlotsInv'
<1> SUFFICES ASSUME SlotsInv, [Next]_vars PROVE SlotsInv'
  OBVIOUS
<1> DEFINE held == Cardinality(Holders)
<1>0. /\ TypeOK
      /\ held \in Nat
      /\ held + decrs <= count + strays
      /\ count <= held + decrs + leaks
      /\ DeviceLimit \in Nat
  BY HoldersFinite, SessionAssumption
  DEF SlotsInv, SlotsCovered, SlotsAccountedFor
<1>a. at \in [Connections -> Phases]
  BY <1>0 DEF TypeOK
<1>b. {"fresh", "asking", "granted", "refused", "unmetered", "open", "ended"}
          = Phases
  BY DEF Phases
<1> HIDE DEF held
<1>1. ASSUME NEW h \in Nat, Cardinality(Holders') = h,
             at' \in [Connections -> Phases],
             count' \in 0..DeviceLimit, decrs' \in Nat, strays' \in Nat,
             leaks' \in Nat,
             h + decrs' <= count' + strays',
             count' <= h + decrs' + leaks'
      PROVE  SlotsInv'
  BY <1>1 DEF SlotsInv, TypeOK, SlotsCovered, SlotsAccountedFor
<1>2. ASSUME Cardinality(Holders') = held, at' \in [Connections -> Phases],
             UNCHANGED <<count, decrs, strays, leaks>>
      PROVE  SlotsInv'
  BY <1>0, <1>1, <1>2 DEF TypeOK
<1>3. ASSUME NEW c \in Connections,
             \/ InvalidUser(c) \/ IncrSession(c) \/ IncrFailsOpen(c) \/ Refuse(c)
      PROVE  SlotsInv'
  <2>1. PICK from \in Phases, to \in Phases :
            /\ Move(c, from, to)
            /\ from \notin {"granted", "open"} /\ to \notin {"granted", "open"}
    BY <1>3, <1>b DEF InvalidUser, IncrSession, IncrFailsOpen, Refuse
  <2>2. at' \in [Connections -> Phases] /\ Holders' = Holders
    BY <1>a, <2>1, HoldersKept
  <2> QED
    BY <1>2, <1>3, <2>2
    DEF held, InvalidUser, IncrSession, IncrFailsOpen, Refuse
<1>4. ASSUME NEW c \in Connections, Incr(c)
      PROVE  SlotsInv'
  <2>1. CASE count < DeviceLimit
    <3>1. Move(c, "asking", "granted") /\ count' = count + 1
          /\ UNCHANGED <<decrs, strays, leaks>>
      BY <1>4, <2>1 DEF Incr
    <3>2. at' \in [Connections -> Phases] /\ Cardinality(Holders') = held + 1
      BY <1>a, <1>b, <3>1, HolderJoins DEF held
    <3> QED
      BY <1>0, <1>1, <2>1, <3>1, <3>2 DEF TypeOK
  <2>2. CASE ~(count < DeviceLimit)
    <3>1. Move(c, "asking", "refused") /\ UNCHANGED <<count, decrs, strays, leaks>>
      BY <1>4, <2>2 DEF Incr
    <3>2. at' \in [Connections -> Phases] /\ Holders' = Holders
      BY <1>a, <1>b, <3>1, HoldersKept
    <3> QED
      BY <1>2, <3>1, <3>2 DEF held
  <2> QED
    BY <2>1, <2>2
<1>5. ASSUME NEW c \in Connections, IncrRaises(c)
      PROVE  SlotsInv'
  <2>1. at' \in [Connections -> Phases] /\ Cardinality(Holders') = held
    BY <1>a, <1>b, <1>5, HoldersKept DEF IncrRaises, held
  <2>2. CASE UNCHANGED <<count, leaks>>
    BY <1>2, <1>5, <2>1, <2>2 DEF IncrRaises
  <2>3. CASE count < DeviceLimit /\ count' = count + 1 /\ leaks' = leaks + 1
    BY <1>0, <1>1, <1>5, <2>1, <2>3 DEF IncrRaises, TypeOK
  <2> QED
    BY <1>5, <2>2, <2>3 DEF IncrRaises
<1>6. ASSUME NEW c \in Connections, BadHeader(c)
      PROVE  SlotsInv'
  <2>1. CASE Move(c, "granted", "ended") /\ leaks' = leaks + 1
    <3>1. at' \in [Connections -> Phases] /\ Cardinality(Holders') = held - 1
      BY <1>a, <1>b, <2>1, HolderLeaves DEF held
    <3>2. held - 1 \in Nat
      <4>1. c \in Holders
        BY <2>1 DEF Move, Holders
      <4>2. held # 0
        BY <4>1, HoldersFinite, FS_EmptySet DEF held
      <4> QED
        BY <1>0, <4>2
    <3> QED
      BY <1>0, <1>1, <1>6, <2>1, <3>1, <3>2 DEF BadHeader, TypeOK
  <2>2. CASE Move(c, "unmetered", "ended") /\ UNCHANGED leaks
    <3>1. at' \in [Connections -> Phases] /\ Holders' = Holders
      BY <1>a, <1>b, <2>2, HoldersKept
    <3> QED
      BY <1>2, <1>6, <2>2, <3>1 DEF BadHeader, held
  <2> QED
    BY <1>6, <2>1, <2>2 DEF BadHeader
<1>7. ASSUME NEW c \in Connections, Admit(c)
      PROVE  SlotsInv'
  <2>1. CASE Move(c, "granted", "open") /\ UNCHANGED strays
    <3>1. at' \in [Connections -> Phases] /\ Holders' = Holders
      BY <1>a, <1>b, <2>1, HoldersKept
    <3> QED
      BY <1>2, <1>7, <2>1, <3>1 DEF Admit, held
  <2>2. CASE Move(c, "unmetered", "open") /\ strays' = strays + 1
    <3>1. at' \in [Connections -> Phases] /\ Cardinality(Holders') = held + 1
      BY <1>a, <1>b, <2>2, HolderJoins DEF held
    <3> QED
      BY <1>0, <1>1, <1>7, <2>2, <3>1 DEF Admit, TypeOK
  <2> QED
    BY <1>7, <2>1, <2>2 DEF Admit
<1>8. ASSUME NEW c \in Connections, EndOfStream(c) \/ StreamError(c)
      PROVE  SlotsInv'
  <2>1. Move(c, "open", "ended")
    BY <1>8 DEF EndOfStream, StreamError
  <2>2. at' \in [Connections -> Phases] /\ Cardinality(Holders') = held - 1
    BY <1>a, <1>b, <2>1, HolderLeaves DEF held
  <2>3. held - 1 \in Nat
    <3>1. c \in Holders
      BY <2>1 DEF Move, Holders
    <3>2. held # 0
      BY <3>1, HoldersFinite, FS_EmptySet DEF held
    <3> QED
      BY <1>0, <3>2
  <2> QED
    BY <1>0, <1>1, <1>8, <2>2, <2>3 DEF EndOfStream, StreamError, TypeOK
<1>9. CASE Decr \/ LoseDecr \/ ResetCounter
  <2>1. at' = at /\ Holders' = Holders
    BY <1>9 DEF Decr, LoseDecr, ResetCounter, Holders
  <2> QED
    BY <1>0, <1>1, <1>9, <2>1 DEF Decr, LoseDecr, ResetCounter, TypeOK, held
<1>10. CASE UNCHANGED vars
  <2>1. at' = at /\ Holders' = Holders
    BY <1>10 DEF vars, Holders
  <2> QED
    BY <1>2, <1>a, <1>10, <2>1 DEF vars, held
<1> QED
  BY <1>3, <1>4, <1>5, <1>6, <1>7, <1>8, <1>9, <1>10 DEF Next

LEMMA SlotsAlways == Spec => []SlotsInv
  BY SlotsInit, SlotsStep, PTL DEF Spec

\* The counter never leaves 0..deviceLimit, whatever releases reach it.
THEOREM CounterTyped == Spec => []TypeOK
<1>1. SlotsInv => TypeOK
  BY DEF SlotsInv
<1> QED
  BY <1>1, SlotsAlways, PTL

\* Admission is increment-and-check in one turn of one object: the open
\* connections of a configuration exceed its device limit by at most the
\* number of releases and resets that were not owed.  Without those, the
\* limit is exact.
THEOREM LimitAlwaysHeldUpToStrays == Spec => []LimitHeldUpToStrays
<1>1. SlotsInv => LimitHeldUpToStrays
  BY HoldersFinite, SessionAssumption
  DEF SlotsInv, SlotsCovered, TypeOK, LimitHeldUpToStrays
<1> QED
  BY <1>1, SlotsAlways, PTL

\* Every slot the counter holds is explained by a connection, a release on
\* its way or a known leak.
THEOREM SlotsAlwaysAccountedFor == Spec => []SlotsAccountedFor
<1>1. SlotsInv => SlotsAccountedFor
  BY DEF SlotsInv
<1> QED
  BY <1>1, SlotsAlways, PTL

\* What each fault costs: without those that release or reset what was not
\* owed there are no strays, and without those that lose a release no leaks.
FaultsExplain ==
    /\ Faults \cap {"counter_error", "counter_reset", "stream_error"} = {}
           => strays = 0 /\ \A c \in Connections : at[c] # "unmetered"
    /\ Faults \cap {"bad_header", "counter_error", "decr_lost"} = {} => leaks = 0

LEMMA FaultsExplainStep == TypeOK /\ FaultsExplain /\ [Next]_vars => FaultsExplain'
<1> SUFFICES ASSUME TypeOK, FaultsExplain, [Next]_vars PROVE FaultsExplain'
  OBVIOUS
<1> USE DEF FaultsExplain, TypeOK, Move
<1>1. ASSUME NEW c \in Connections,
             \/ InvalidUser(c) \/ IncrSession(c) \/ Incr(c) \/ Refuse(c) \/ EndOfStream(c)
      PROVE  FaultsExplain'
  BY <1>1 DEF InvalidUser, IncrSession, Incr, Refuse, EndOfStream
<1>2. ASSUME NEW c \in Connections, IncrFailsOpen(c) \/ IncrRaises(c)
      PROVE  FaultsExplain'
  BY <1>2 DEF IncrFailsOpen, IncrRaises
<1>3. ASSUME NEW c \in Connections, BadHeader(c) \/ Admit(c) \/ StreamError(c)
      PROVE  FaultsExplain'
  BY <1>3 DEF BadHeader, Admit, StreamError
<1>4. CASE Decr \/ LoseDecr \/ ResetCounter
  BY <1>4 DEF Decr, LoseDecr, ResetCounter
<1>5. CASE UNCHANGED vars
  BY <1>5 DEF vars
<1> QED
  BY <1>1, <1>2, <1>3, <1>4, <1>5 DEF Next

LEMMA FaultsExplained == Spec => [](SlotsInv /\ FaultsExplain)
<1>1. Init => FaultsExplain
  BY DEF Init, FaultsExplain
<1>2. SlotsInv => TypeOK
  BY DEF SlotsInv
<1> QED
  BY <1>1, <1>2, FaultsExplainStep, SlotsAlways, PTL DEF Spec

\* When the counter answers without error, is not reset, and streams end
\* without error, the device limit is exact, although releases may be lost
\* and headers may be bad.
THEOREM LimitExact ==
    Faults \cap {"counter_error", "counter_reset", "stream_error"} = {}
        => (Spec => [](Cardinality(Open) <= DeviceLimit))
<1> SUFFICES ASSUME Faults \cap {"counter_error", "counter_reset", "stream_error"} = {}
             PROVE  Spec => [](Cardinality(Open) <= DeviceLimit)
  OBVIOUS
<1>1. SlotsInv /\ FaultsExplain => Cardinality(Open) <= DeviceLimit
  BY HoldersFinite, SessionAssumption DEF SlotsInv, SlotsCovered, TypeOK, FaultsExplain
<1> QED
  BY <1>1, FaultsExplained, PTL

\* When every header is good, the counter answers without error and no
\* release is lost, a slot is held for a connection or a release on its way:
\* every slot comes back.
THEOREM SlotsComeBack ==
    Faults \cap {"bad_header", "counter_error", "decr_lost"} = {}
        => (Spec => [](count <= Cardinality(Holders) + decrs))
<1> SUFFICES ASSUME Faults \cap {"bad_header", "counter_error", "decr_lost"} = {}
             PROVE  Spec => [](count <= Cardinality(Holders) + decrs)
  OBVIOUS
<1>1. SlotsInv /\ FaultsExplain => count <= Cardinality(Holders) + decrs
  BY HoldersFinite, SessionAssumption
  DEF SlotsInv, SlotsAccountedFor, TypeOK, FaultsExplain
<1> QED
  BY <1>1, FaultsExplained, PTL

----------------------------------------------------------------------------
(* Test configurations.                                                    *)

LEMMA SameCardinality ==
    /\ \A S : Tests!IsFiniteSet(S) <=> IsFiniteSet(S)
    /\ \A S : Tests!Cardinality(S) = Cardinality(S)
  BY DEF Tests!IsFiniteSet, IsFiniteSet, Tests!Cardinality, Cardinality

\* Handlers between the question and the insert.
Inserting(p) == {h \in Handlers : testTask[h].at = "insert" /\ testTask[h].customer = p}

\* A handler goes on to insert only when the customer has no active test, and
\* every test that is inserted afterwards was on its way then.
OnTheirWay(p) ==
    /\ IsFiniteSet(Tests!Active(p))
    /\ Cardinality(Tests!Active(p)) + Cardinality(Inserting(p)) <= Cardinality(Handlers)

TestsInv ==
    /\ Tests!TypeOK
    /\ \A p \in Customers : OnTheirWay(p)

LEMMA InsertingFinite ==
    ASSUME Tests!TestsAssumption, NEW p
    PROVE  /\ IsFiniteSet(Inserting(p)) /\ Cardinality(Inserting(p)) \in Nat
           /\ Cardinality(Inserting(p)) <= Cardinality(Handlers)
           /\ Cardinality(Handlers) \in Nat
<1>1. IsFiniteSet(Handlers) /\ Inserting(p) \in SUBSET Handlers
  BY SameCardinality DEF Tests!TestsAssumption, Inserting
<1> QED
  BY <1>1, FS_Subset, FS_CardinalityType

LEMMA TestsInvInit == ASSUME Tests!TestsAssumption, Tests!Init PROVE TestsInv
<1>1. Tests!TypeOK
  BY DEF Tests!TestsAssumption, Tests!Init, Tests!TypeOK, Tests!Tasks, Tests!Idle,
         Tests!Steps
<1>2. ASSUME NEW p \in Customers PROVE Tests!Active(p) = {}
  BY DEF Tests!TestsAssumption, Tests!Init, Tests!Active
<1>3. IsFiniteSet({}) /\ Cardinality({}) = 0
  BY FS_EmptySet
<1>4. ASSUME NEW p \in Customers
      PROVE  OnTheirWay(p)
  <2>1. IsFiniteSet(Tests!Active(p)) /\ Cardinality(Tests!Active(p)) = 0
    BY <1>2, <1>3
  <2> QED
    BY <2>1, InsertingFinite DEF OnTheirWay
<1> QED
  BY <1>1, <1>4 DEF TestsInv

LEMMA TestsBegun ==
    ASSUME NEW step \in {"trial", "select"}, NEW p \in Customers
    PROVE  LET t == [Tests!Idle EXCEPT !.at = step, !.customer = p] IN
           t \in Tests!Tasks /\ t.at = step /\ t.customer = p
  BY DEF Tests!Idle, Tests!Tasks, Tests!Steps

LEMMA TestsTypeStep ==
    ASSUME Tests!TestsAssumption, Tests!TypeOK, [Tests!Next]_(Tests!vars) PROVE Tests!TypeOK'
<1> USE DEF Tests!TypeOK, Tests!Tasks, Tests!Idle, Tests!Steps
<1>1. CASE UNCHANGED Tests!vars
  BY <1>1 DEF Tests!vars
<1>2. ASSUME NEW h \in Handlers, NEW p \in Customers,
             Tests!CbTrial(h, p) \/ Tests!AdminCreateTest(h, p)
      PROVE  Tests!TypeOK'
  <2>1. PICK step \in {"trial", "select"} :
            /\ testTask' = [testTask EXCEPT ![h] =
                   [Tests!Idle EXCEPT !.at = step, !.customer = p]]
            /\ UNCHANGED <<test, expired, credential>>
    BY <1>2 DEF Tests!CbTrial, Tests!AdminCreateTest, Tests!Begin
  <2> DEFINE t == [Tests!Idle EXCEPT !.at = step, !.customer = p]
  <2>2. t \in Tests!Tasks /\ t.at = step /\ t.customer = p
    BY TestsBegun
  <2>3. testTask' = [testTask EXCEPT ![h] = t]
    BY <2>1
  <2> HIDE DEF t
  <2> QED
    BY <2>1, <2>2, <2>3
<1>3. ASSUME NEW h \in Handlers, Tests!TrialExists(h) \/ Tests!CheckActive(h)
      PROVE  Tests!TypeOK'
  BY <1>3 DEF Tests!TrialExists, Tests!CheckActive, Tests!HasActive
<1>4. ASSUME NEW h \in Handlers,
             Tests!SelectNode(h) \/ Tests!NoNode(h) \/ Tests!HandlerRaises(h)
      PROVE  Tests!TypeOK'
  BY <1>4 DEF Tests!SelectNode, Tests!NoNode, Tests!HandlerRaises
<1>5. ASSUME NEW h \in Handlers, NEW c \in Configs, Tests!Insert(h, c)
      PROVE  Tests!TypeOK'
  BY <1>5 DEF Tests!Insert
<1>6. ASSUME NEW h \in Handlers, Tests!SyncAssignment(h)
      PROVE  Tests!TypeOK'
  BY <1>6 DEF Tests!SyncAssignment
<1>7. ASSUME NEW c \in Configs, Tests!Expire(c)
      PROVE  Tests!TypeOK'
  BY <1>7 DEF Tests!Expire
<1> QED
  BY <1>1, <1>2, <1>3, <1>4, <1>5, <1>6, <1>7 DEF Tests!Next

\* A step that makes no test active and lets no handler go on to insert.
LEMMA BoundKept ==
    ASSUME Tests!TestsAssumption, TestsInv, NEW p \in Customers,
           Tests!Active(p)' \subseteq Tests!Active(p), Inserting(p)' \subseteq Inserting(p)
    PROVE  OnTheirWay(p)'
<1>1. /\ IsFiniteSet(Tests!Active(p)') /\ Cardinality(Tests!Active(p)') \in Nat
      /\ Cardinality(Tests!Active(p)) \in Nat
      /\ Cardinality(Tests!Active(p)') <= Cardinality(Tests!Active(p))
  BY FS_Subset, FS_CardinalityType DEF TestsInv, OnTheirWay
<1>2. /\ Cardinality(Inserting(p)) \in Nat /\ Cardinality(Inserting(p)') \in Nat
      /\ Cardinality(Inserting(p)') <= Cardinality(Inserting(p))
  BY InsertingFinite, FS_Subset, FS_CardinalityType
<1>3. Cardinality(Handlers) \in Nat
  BY InsertingFinite
<1> QED
  BY <1>1, <1>2, <1>3 DEF TestsInv, OnTheirWay

LEMMA TestsInvStep ==
    ASSUME Tests!TestsAssumption, TestsInv, [Tests!Next]_(Tests!vars) PROVE TestsInv'
<1>1. Tests!TypeOK /\ Tests!TypeOK'
  BY TestsTypeStep DEF TestsInv
<1>2. ASSUME NEW p \in Customers
      PROVE  OnTheirWay(p)'
  <2> USE <1>1 DEF Tests!TypeOK, Tests!Tasks, Tests!Active, Inserting
  <2>1. CASE UNCHANGED Tests!vars
    <3>1. Tests!Active(p)' \subseteq Tests!Active(p) /\ Inserting(p)' \subseteq Inserting(p)
      BY <2>1 DEF Tests!vars
    <3> QED
      BY ONLY <3>1, BoundKept, Tests!TestsAssumption, TestsInv, p \in Customers
  <2>2. ASSUME NEW h \in Handlers, NEW t, t.at # "insert",
               testTask' = [testTask EXCEPT ![h] = t], UNCHANGED <<test, expired>>
        PROVE  OnTheirWay(p)'
    <3>1. Tests!Active(p)' \subseteq Tests!Active(p) /\ Inserting(p)' \subseteq Inserting(p)
      BY <2>2
    <3> QED
      BY ONLY <3>1, BoundKept, Tests!TestsAssumption, TestsInv, p \in Customers
  <2>3. ASSUME NEW h \in Handlers, NEW q \in Customers,
               Tests!CbTrial(h, q) \/ Tests!AdminCreateTest(h, q)
        PROVE  OnTheirWay(p)'
    <3>1. PICK step \in {"trial", "select"} :
              /\ testTask' = [testTask EXCEPT ![h] =
                     [Tests!Idle EXCEPT !.at = step, !.customer = q]]
              /\ UNCHANGED <<test, expired>>
      BY <2>3 DEF Tests!CbTrial, Tests!AdminCreateTest, Tests!Begin
    <3> DEFINE t == [Tests!Idle EXCEPT !.at = step, !.customer = q]
    <3>2. t.at # "insert"
      BY TestsBegun
    <3>3. testTask' = [testTask EXCEPT ![h] = t]
      BY <3>1
    <3> HIDE DEF t
    <3> QED
      BY <2>2, <3>1, <3>2, <3>3
  <2>4. ASSUME NEW h \in Handlers,
               \/ Tests!TrialExists(h) \/ Tests!SelectNode(h) \/ Tests!NoNode(h)
               \/ Tests!SyncAssignment(h) \/ Tests!HandlerRaises(h)
        PROVE  OnTheirWay(p)'
    <3>1. Tests!Active(p)' \subseteq Tests!Active(p) /\ Inserting(p)' \subseteq Inserting(p)
      BY <2>4
      DEF Tests!TrialExists, Tests!HasActive, Tests!SelectNode, Tests!NoNode,
          Tests!SyncAssignment, Tests!HandlerRaises, Tests!Idle
    <3> QED
      BY ONLY <3>1, BoundKept, Tests!TestsAssumption, TestsInv, p \in Customers
  <2>5. ASSUME NEW c \in Configs, Tests!Expire(c)
        PROVE  OnTheirWay(p)'
    <3>1. Tests!Active(p)' \subseteq Tests!Active(p) /\ Inserting(p)' \subseteq Inserting(p)
      BY <2>5 DEF Tests!Expire
    <3> QED
      BY ONLY <3>1, BoundKept, Tests!TestsAssumption, TestsInv, p \in Customers
  <2>6. ASSUME NEW h \in Handlers, Tests!CheckActive(h)
        PROVE  OnTheirWay(p)'
    <3>1. Tests!Active(p)' = Tests!Active(p)
      BY <2>6 DEF Tests!CheckActive, Tests!HasActive
    <3>2. CASE Tests!Active(p) = {}
      <4>1. IsFiniteSet(Tests!Active(p)') /\ Cardinality(Tests!Active(p)') = 0
        BY ONLY <3>1, <3>2, FS_EmptySet
      <4>2. Inserting(p)' \in SUBSET Handlers /\ IsFiniteSet(Handlers)
        BY SameCardinality DEF Tests!TestsAssumption
      <4>3. Cardinality(Inserting(p)') \in Nat /\ Cardinality(Handlers) \in Nat
            /\ Cardinality(Inserting(p)') <= Cardinality(Handlers)
        BY ONLY <4>2, FS_Subset, FS_CardinalityType
      <4> QED
        BY ONLY <4>1, <4>3 DEF OnTheirWay
    <3>3. CASE Tests!Active(p) # {}
      <4>1. Inserting(p)' \subseteq Inserting(p)
        BY <2>6, <3>3 DEF Tests!CheckActive, Tests!HasActive, Tests!Idle
      <4> QED
        BY ONLY <3>1, <4>1, BoundKept, Tests!TestsAssumption, TestsInv, p \in Customers
    <3> QED
      BY ONLY <3>2, <3>3
  <2>7. ASSUME NEW h \in Handlers, NEW c \in Configs, Tests!Insert(h, c)
        PROVE  OnTheirWay(p)'
    <3>1. CASE testTask[h].customer = p
      <4>1. /\ Tests!Active(p)' \subseteq Tests!Active(p) \cup {c}
            /\ c \notin Tests!Active(p)
            /\ h \in Inserting(p) /\ Inserting(p)' = Inserting(p) \ {h}
        BY <2>7, <3>1 DEF Tests!Insert, Tests!TestsAssumption
      <4>2. /\ IsFiniteSet(Tests!Active(p)) /\ Cardinality(Tests!Active(p)) \in Nat
            /\ Cardinality(Tests!Active(p)) + Cardinality(Inserting(p))
                   <= Cardinality(Handlers)
        BY ONLY TestsInv, p \in Customers, FS_CardinalityType DEF TestsInv, OnTheirWay
      <4>3. /\ IsFiniteSet(Tests!Active(p) \cup {c})
            /\ Cardinality(Tests!Active(p) \cup {c}) = Cardinality(Tests!Active(p)) + 1
        BY ONLY <4>1, <4>2, FS_AddElement
      <4>4. /\ IsFiniteSet(Tests!Active(p)') /\ Cardinality(Tests!Active(p)') \in Nat
            /\ Cardinality(Tests!Active(p)') <= Cardinality(Tests!Active(p) \cup {c})
        BY ONLY <4>1, <4>3, FS_Subset, FS_CardinalityType
      <4>5. /\ Cardinality(Inserting(p)) \in Nat /\ IsFiniteSet(Inserting(p))
            /\ Cardinality(Handlers) \in Nat
        BY ONLY InsertingFinite, Tests!TestsAssumption
      <4>6. Cardinality(Inserting(p)') = Cardinality(Inserting(p)) - 1
        BY ONLY <4>1, <4>5, FS_RemoveElement
      <4> QED
        BY ONLY <4>2, <4>3, <4>4, <4>5, <4>6 DEF OnTheirWay
    <3>2. CASE testTask[h].customer # p
      <4>1. Tests!Active(p)' \subseteq Tests!Active(p) /\ Inserting(p)' \subseteq Inserting(p)
        BY <2>7, <3>2 DEF Tests!Insert, Tests!TestsAssumption
      <4> QED
        BY ONLY <4>1, BoundKept, Tests!TestsAssumption, TestsInv, p \in Customers
    <3> QED
      BY ONLY <3>1, <3>2
  <2> QED
    BY <2>1, <2>3, <2>4, <2>5, <2>6, <2>7 DEF Tests!Next
<1> QED
  BY <1>1, <1>2 DEF TestsInv

----------------------------------------------------------------------------
(* The composition.                                                        *)

\* What is proved of one dialogue, for the customer's and the admin's.
CustomerProofs == INSTANCE BotDialogProofs WITH IsAdmin <- FALSE, Faults <- ChatFaults
AdminProofs == INSTANCE BotDialogProofs WITH
    IsAdmin <- TRUE, Faults <- ChatFaults, MaxMinute <- AdminMaxMinute,
    Plans <- AdminPlans, Orders <- AdminOrders, Names <- AdminNames

\* Both instances of a dialogue define the same behaviour.
LEMMA SameCustomer ==
    /\ Customer!DialogAssumption <=> CustomerProofs!DialogAssumption
    /\ Customer!Init <=> CustomerProofs!Init
    /\ [Customer!Next]_(Customer!vars) <=> [CustomerProofs!Next]_(CustomerProofs!vars)
    /\ Customer!TypeOK <=> CustomerProofs!TypeOK
    /\ Customer!DialogHasData <=> CustomerProofs!DialogHasData
    /\ Customer!RepeatsAbsorbed <=> CustomerProofs!RepeatsAbsorbed
  BY DEF
      Customer!States, Customer!Dialogs, Customer!Minutes, Customer!OrderNames,
      Customer!Ways, Customer!OrderRows, Customer!AttemptRows, Customer!Data,
      Customer!Empty, Customer!DialogAssumption, Customer!chat, Customer!rows,
      Customer!stars, Customer!vars, Customer!Steps, Customer!Tasks, Customer!Idle,
      Customer!TypeOK, Customer!Init, Customer!Placed, Customer!Sent, Customer!Begin,
      Customer!Return, Customer!Clear, Customer!Menu, Customer!PayCard,
      Customer!CardReady, Customer!OnDisplayName, Customer!PayStars, Customer!First,
      Customer!Created, Customer!FindOrder, Customer!Insert, Customer!InsertOrder,
      Customer!InsertRefused, Customer!Instruct, Customer!SendInvoice,
      Customer!OnPaymentProof, Customer!AttachPaymentProof, Customer!ClearLate,
      Customer!PayInvoice, Customer!OnSuccessfulPayment, Customer!AskAgain,
      Customer!Receive, Customer!CbReviewReject, Customer!AskReason,
      Customer!CbAdminPanel, Customer!AskedFor, Customer!OpenDialog,
      Customer!AdminPanelEntry, Customer!OnTestCustomer, Customer!OnRejectReason,
      Customer!RejectPayment, Customer!AlreadyReviewed, Customer!OnNodeName,
      Customer!OnAdminTelegramId, Customer!AskRole, Customer!OnAdminRole,
      Customer!TakeNewAdmin, Customer!AddAdmin, Customer!Unanswered,
      Customer!HandlerRaises, Customer!Restart, Customer!NextMinute,
      Customer!HandlerStep, Customer!Update, Customer!Next, Customer!DialogHasData,
      Customer!RepeatsAbsorbed, CustomerProofs!States, CustomerProofs!Dialogs,
      CustomerProofs!Minutes, CustomerProofs!OrderNames, CustomerProofs!Ways,
      CustomerProofs!OrderRows, CustomerProofs!AttemptRows, CustomerProofs!Data,
      CustomerProofs!Empty, CustomerProofs!DialogAssumption, CustomerProofs!chat,
      CustomerProofs!rows, CustomerProofs!stars, CustomerProofs!vars,
      CustomerProofs!Steps, CustomerProofs!Tasks, CustomerProofs!Idle,
      CustomerProofs!TypeOK, CustomerProofs!Init, CustomerProofs!Placed,
      CustomerProofs!Sent, CustomerProofs!Begin, CustomerProofs!Return,
      CustomerProofs!Clear, CustomerProofs!Menu, CustomerProofs!PayCard,
      CustomerProofs!CardReady, CustomerProofs!OnDisplayName, CustomerProofs!PayStars,
      CustomerProofs!First, CustomerProofs!Created, CustomerProofs!FindOrder,
      CustomerProofs!Insert, CustomerProofs!InsertOrder, CustomerProofs!InsertRefused,
      CustomerProofs!Instruct, CustomerProofs!SendInvoice,
      CustomerProofs!OnPaymentProof, CustomerProofs!AttachPaymentProof,
      CustomerProofs!ClearLate, CustomerProofs!PayInvoice,
      CustomerProofs!OnSuccessfulPayment, CustomerProofs!AskAgain,
      CustomerProofs!Receive, CustomerProofs!CbReviewReject, CustomerProofs!AskReason,
      CustomerProofs!CbAdminPanel, CustomerProofs!AskedFor, CustomerProofs!OpenDialog,
      CustomerProofs!AdminPanelEntry, CustomerProofs!OnTestCustomer,
      CustomerProofs!OnRejectReason, CustomerProofs!RejectPayment,
      CustomerProofs!AlreadyReviewed, CustomerProofs!OnNodeName,
      CustomerProofs!OnAdminTelegramId, CustomerProofs!AskRole,
      CustomerProofs!OnAdminRole, CustomerProofs!TakeNewAdmin, CustomerProofs!AddAdmin,
      CustomerProofs!Unanswered, CustomerProofs!HandlerRaises, CustomerProofs!Restart,
      CustomerProofs!NextMinute, CustomerProofs!HandlerStep, CustomerProofs!Update,
      CustomerProofs!Next, CustomerProofs!DialogHasData, CustomerProofs!RepeatsAbsorbed

LEMMA SameAdmin ==
    /\ Admin!DialogAssumption <=> AdminProofs!DialogAssumption
    /\ Admin!Init <=> AdminProofs!Init
    /\ [Admin!Next]_(Admin!vars) <=> [AdminProofs!Next]_(AdminProofs!vars)
    /\ Admin!TypeOK <=> AdminProofs!TypeOK
    /\ Admin!DialogHasData <=> AdminProofs!DialogHasData
    /\ Admin!RepeatsAbsorbed <=> AdminProofs!RepeatsAbsorbed
  BY DEF
      Admin!States, Admin!Dialogs, Admin!Minutes, Admin!OrderNames, Admin!Ways,
      Admin!OrderRows, Admin!AttemptRows, Admin!Data, Admin!Empty,
      Admin!DialogAssumption, Admin!chat, Admin!rows, Admin!stars, Admin!vars,
      Admin!Steps, Admin!Tasks, Admin!Idle, Admin!TypeOK, Admin!Init, Admin!Placed,
      Admin!Sent, Admin!Begin, Admin!Return, Admin!Clear, Admin!Menu, Admin!PayCard,
      Admin!CardReady, Admin!OnDisplayName, Admin!PayStars, Admin!First, Admin!Created,
      Admin!FindOrder, Admin!Insert, Admin!InsertOrder, Admin!InsertRefused,
      Admin!Instruct, Admin!SendInvoice, Admin!OnPaymentProof, Admin!AttachPaymentProof,
      Admin!ClearLate, Admin!PayInvoice, Admin!OnSuccessfulPayment, Admin!AskAgain,
      Admin!Receive, Admin!CbReviewReject, Admin!AskReason, Admin!CbAdminPanel,
      Admin!AskedFor, Admin!OpenDialog, Admin!AdminPanelEntry, Admin!OnTestCustomer,
      Admin!OnRejectReason, Admin!RejectPayment, Admin!AlreadyReviewed,
      Admin!OnNodeName, Admin!OnAdminTelegramId, Admin!AskRole, Admin!OnAdminRole,
      Admin!TakeNewAdmin, Admin!AddAdmin, Admin!Unanswered, Admin!HandlerRaises,
      Admin!Restart, Admin!NextMinute, Admin!HandlerStep, Admin!Update, Admin!Next,
      Admin!DialogHasData, Admin!RepeatsAbsorbed, AdminProofs!States,
      AdminProofs!Dialogs, AdminProofs!Minutes, AdminProofs!OrderNames,
      AdminProofs!Ways, AdminProofs!OrderRows, AdminProofs!AttemptRows,
      AdminProofs!Data, AdminProofs!Empty, AdminProofs!DialogAssumption,
      AdminProofs!chat, AdminProofs!rows, AdminProofs!stars, AdminProofs!vars,
      AdminProofs!Steps, AdminProofs!Tasks, AdminProofs!Idle, AdminProofs!TypeOK,
      AdminProofs!Init, AdminProofs!Placed, AdminProofs!Sent, AdminProofs!Begin,
      AdminProofs!Return, AdminProofs!Clear, AdminProofs!Menu, AdminProofs!PayCard,
      AdminProofs!CardReady, AdminProofs!OnDisplayName, AdminProofs!PayStars,
      AdminProofs!First, AdminProofs!Created, AdminProofs!FindOrder, AdminProofs!Insert,
      AdminProofs!InsertOrder, AdminProofs!InsertRefused, AdminProofs!Instruct,
      AdminProofs!SendInvoice, AdminProofs!OnPaymentProof,
      AdminProofs!AttachPaymentProof, AdminProofs!ClearLate, AdminProofs!PayInvoice,
      AdminProofs!OnSuccessfulPayment, AdminProofs!AskAgain, AdminProofs!Receive,
      AdminProofs!CbReviewReject, AdminProofs!AskReason, AdminProofs!CbAdminPanel,
      AdminProofs!AskedFor, AdminProofs!OpenDialog, AdminProofs!AdminPanelEntry,
      AdminProofs!OnTestCustomer, AdminProofs!OnRejectReason, AdminProofs!RejectPayment,
      AdminProofs!AlreadyReviewed, AdminProofs!OnNodeName,
      AdminProofs!OnAdminTelegramId, AdminProofs!AskRole, AdminProofs!OnAdminRole,
      AdminProofs!TakeNewAdmin, AdminProofs!AddAdmin, AdminProofs!Unanswered,
      AdminProofs!HandlerRaises, AdminProofs!Restart, AdminProofs!NextMinute,
      AdminProofs!HandlerStep, AdminProofs!Update, AdminProofs!Next,
      AdminProofs!DialogHasData, AdminProofs!RepeatsAbsorbed


DialogInv == IF part = "admin" THEN AdminProofs!Inv ELSE CustomerProofs!Inv

UsersInv == SlotsInv /\ TestsInv /\ DialogInv

LEMMA UsersInvInit == UserInit => UsersInv
<1> SUFFICES ASSUME UserInit PROVE UsersInv
  OBVIOUS
<1>1. SlotsInv /\ TestsInv
  BY UsersAssumption, SlotsInit, TestsInvInit DEF UserInit
<1>2. DialogInv
  BY UsersAssumption, SameCustomer, SameAdmin, CustomerProofs!InvInit, AdminProofs!InvInit
  DEF UserInit, DialogInv
<1> QED
  BY <1>1, <1>2 DEF UsersInv

LEMMA UsersInvStep == UsersInv /\ [UserNext]_userVars => UsersInv'
<1> SUFFICES ASSUME UsersInv, [UserNext]_userVars PROVE UsersInv'
  OBVIOUS
<1>1. /\ [Next]_vars /\ [Tests!Next]_(Tests!vars) /\ part' = part
      /\ part = "admin" => [Admin!Next]_(Admin!vars)
      /\ part # "admin" => [Customer!Next]_(Customer!vars)
  BY DEF UserNext, SessionsNext, CustomerNext, AdminNext, TestsNext, userVars, chatVars,
         testVars, Tests!vars, Admin!vars, Customer!vars, Admin!chat, Customer!chat,
         Admin!rows, Customer!rows, Admin!stars, Customer!stars
<1>2. SlotsInv' /\ TestsInv'
  BY <1>1, UsersAssumption, SlotsStep, TestsInvStep DEF UsersInv
<1>3. DialogInv'
  BY <1>1, UsersAssumption, SameCustomer, SameAdmin, CustomerProofs!InvStep,
     AdminProofs!InvStep
  DEF UsersInv, DialogInv
<1> QED
  BY <1>2, <1>3 DEF UsersInv

LEMMA UsersInvAlways == UserSpec => []UsersInv
  BY UsersInvInit, UsersInvStep, PTL DEF UserSpec

\* A state of a dialogue, a row of an order and the step of a handler fit
\* together: a handler never finds data of another kind than it reads.
THEOREM ChatAlwaysTyped == UserSpec => []ChatTypesOK
<1>1. UsersInv => ChatTypesOK
  BY SameCustomer, SameAdmin
  DEF UsersInv, TestsInv, DialogInv, ChatTypesOK, CustomerProofs!Inv, AdminProofs!Inv
<1> QED
  BY <1>1, UsersInvAlways, PTL

\* Customers and admins alike: whatever late handlers do to a dialogue, its
\* state has the data that the handler of the state reads.
THEOREM DataAlwaysThere == UserSpec => []DialogHasData
<1>1. UsersInv => DialogHasData
  BY SameCustomer, SameAdmin
  DEF UsersInv, DialogInv, DialogHasData, CustomerProofs!Inv, AdminProofs!Inv
<1> QED
  BY <1>1, UsersInvAlways, PTL

\* A customer's repeated requests for a plan make no second order while the
\* first is unpaid, however they interleave.
THEOREM RepeatsAlwaysAbsorbed == UserSpec => []RepeatsAbsorbed
<1>1. UsersInv => RepeatsAbsorbed
  BY SameCustomer, CustomerProofs!InvAbsorbs
  DEF UsersInv, DialogInv, RepeatsAbsorbed
<1> QED
  BY <1>1, UsersInvAlways, PTL

\* has_active_test_config is asked before the insert, with awaits between
\* them: a customer's active tests are bounded by the updates handled at a
\* time, so that one at a time makes the limit of one exact.
THEOREM TestsAlwaysBounded == UserSpec => []TestsBounded
<1>1. ASSUME TestsInv, NEW p \in Customers
      PROVE  Cardinality(Tests!Active(p)) <= Cardinality(Handlers)
  <2>1. /\ Cardinality(Tests!Active(p)) \in Nat
        /\ Cardinality(Tests!Active(p)) + Cardinality(Inserting(p)) <= Cardinality(Handlers)
    BY <1>1, FS_CardinalityType DEF TestsInv, OnTheirWay
  <2>2. Cardinality(Inserting(p)) \in Nat /\ Cardinality(Handlers) \in Nat
    BY UsersAssumption, InsertingFinite
  <2> QED
    BY <2>1, <2>2
<1>2. UsersInv => TestsBounded
  BY <1>1, SameCardinality DEF UsersInv, TestsBounded, Tests!TestsBounded
<1> QED
  BY <1>2, UsersInvAlways, PTL

\* The device limit holds in the composition as it does alone.
THEOREM SessionsInUsers ==
    UserSpec => Spec /\ [](LimitHeldUpToStrays /\ SlotsAccountedFor)
<1>1. UserInit => Init
  BY DEF UserInit
<1>2. [UserNext]_userVars => [Next]_vars
  BY DEF UserNext, SessionsNext, CustomerNext, AdminNext, TestsNext, userVars
<1>3. UserSpec => Spec
  BY <1>1, <1>2, PTL DEF UserSpec, Spec
<1> QED
  BY <1>3, LimitAlwaysHeldUpToStrays, SlotsAlwaysAccountedFor, PTL

==============================================================================
