--------------------------- MODULE OrderFlowProofs ---------------------------
(***************************************************************************)
(* Proofs about OrderFlow, for any number of orders, payments, nodes and   *)
(* handlers, any set of faults and any behaviour of the node selector and  *)
(* of the KV writer.                                                       *)
(***************************************************************************)
EXTENDS OrderFlow, FiniteSetTheorems, TLAPS

----------------------------------------------------------------------------
(* Typing.  TypeOK is inductive once every handler is known to hold what   *)
(* its step needs.                                                         *)

Deciding == {"approving", "mark", "rejecting", "reject"}
Fulfilling == {"select", "lookup", "create", "sync", "write", "finish"}

HandlerTyped(h) ==
    LET r == handler[h] IN
    /\ r.at \notin {"idle", "rejecting"} => r.order \in Orders
    /\ r.at \in Deciding \cup Fulfilling =>
           r.attempt \in Attempts /\ attempt[r.attempt] \in AttemptRows
    /\ r.at \in {"lookup", "create", "sync", "write"} => r.node \in Nodes
    /\ r.at \in {"sync", "write", "finish"} => r.config \in Configs

Typed ==
    /\ TypeOK
    /\ \A a \in shown : attempt[a] \in AttemptRows
    /\ \A h \in Handlers : HandlerTyped(h)

LEMMA TypedInit == Init => Typed
  BY OrderFlowAssumption
  DEF Init, Typed, TypeOK, HandlerStates, HandlerTyped, Idle, OrderStatus, Steps, Deciding,
      Fulfilling

LEMMA TypedStep == Typed /\ [Next]_vars => Typed'
<1> SUFFICES ASSUME Typed, [Next]_vars PROVE Typed'
  OBVIOUS
<1> USE OrderFlowAssumption
<1>1. ASSUME NEW o \in Orders, OnDisplayName(o)
      PROVE  Typed'
  BY <1>1
  DEF OnDisplayName, CreateOrder, Typed, TypeOK, HandlerStates, HandlerTyped, OrderStatus,
         Steps, AttemptRows, Deciding, Fulfilling
<1>2. ASSUME NEW o \in Orders, PayStars(o)
      PROVE  Typed'
  BY <1>2
  DEF PayStars, CreateOrder, Typed, TypeOK, HandlerStates, HandlerTyped, OrderStatus,
         Steps, AttemptRows, Deciding, Fulfilling
<1>3. ASSUME NEW h \in Handlers, NEW o \in Orders, OnPaymentProof(h, o)
      PROVE  Typed'
  <2>1. /\ handler[h] \in HandlerStates
        /\ order[o] \in OrderStatus
    BY <1>3 DEF OnPaymentProof, Typed, TypeOK, HandlerTyped, HandlerStates,
       AttemptRows, Deciding, Fulfilling
  <2>2. handler' = [handler EXCEPT ![h] = [@ EXCEPT
                    !.at = "proof", !.order = o, !.seen = order[o]]]
    BY <1>3 DEF OnPaymentProof, Load
  <2>3. handler'[h] \in HandlerStates
    BY <2>1, <2>2 DEF HandlerStates, Steps, OrderStatus, Typed, TypeOK
  <2>4. TypeOK'
    BY <1>3, <2>2, <2>3
    DEF OnPaymentProof, Load, Typed, TypeOK, HandlerTyped, AttemptRows, ConfigRows,
        OrderStatus,
        Deciding, Fulfilling
  <2>5. \A g \in Handlers : HandlerTyped(g)'
    BY <1>3, <2>1, <2>2
    DEF OnPaymentProof, Load, Typed, TypeOK, HandlerTyped, HandlerStates,
       AttemptRows, Deciding, Fulfilling
  <2>6. \A x \in shown' : attempt'[x] \in AttemptRows
    BY <1>3 DEF OnPaymentProof, Load, Typed, TypeOK, HandlerTyped, AttemptRows
  <2> QED
    BY <2>4, <2>5, <2>6 DEF Typed
<1>4. ASSUME NEW h \in Handlers, NEW o \in Orders, OnSuccessfulPayment(h, o)
      PROVE  Typed'
  <2>1. /\ handler[h] \in HandlerStates
        /\ order[o] \in OrderStatus
    BY <1>4 DEF OnSuccessfulPayment, Typed, TypeOK, HandlerTyped, HandlerStates,
       AttemptRows, Deciding, Fulfilling
  <2>2. handler' = [handler EXCEPT ![h] = [@ EXCEPT
                    !.at = "stars", !.order = o, !.seen = order[o]]]
    BY <1>4 DEF OnSuccessfulPayment, Load
  <2>3. handler'[h] \in HandlerStates
    BY <2>1, <2>2 DEF HandlerStates, Steps, OrderStatus, Typed, TypeOK
  <2>4. TypeOK'
    BY <1>4, <2>2, <2>3
    DEF OnSuccessfulPayment, Load, Typed, TypeOK, HandlerTyped, AttemptRows, ConfigRows,
        OrderStatus,
        Deciding, Fulfilling
  <2>5. \A g \in Handlers : HandlerTyped(g)'
    BY <1>4, <2>1, <2>2
    DEF OnSuccessfulPayment, Load, Typed, TypeOK, HandlerTyped, HandlerStates,
       AttemptRows, Deciding, Fulfilling
  <2>6. \A x \in shown' : attempt'[x] \in AttemptRows
    BY <1>4 DEF OnSuccessfulPayment, Load, Typed, TypeOK, HandlerTyped, AttemptRows
  <2> QED
    BY <2>4, <2>5, <2>6 DEF Typed
<1>5. ASSUME NEW a \in Attempts, ShowPending(a)
      PROVE  Typed'
  BY <1>5
  DEF ShowPending, Typed, TypeOK, HandlerStates, HandlerTyped, OrderStatus,
         Steps, AttemptRows, Deciding, Fulfilling
<1>6. ASSUME NEW h \in Handlers, NEW a \in Attempts, Approve(h, a)
      PROVE  Typed'
  <2>1. /\ handler[h] \in HandlerStates
        /\ attempt[a].order \in Orders /\ order[attempt[a].order] \in OrderStatus
    BY <1>6 DEF Approve, Typed, TypeOK, HandlerTyped, HandlerStates,
       AttemptRows, Deciding, Fulfilling
  <2>2. handler' = [handler EXCEPT ![h] = [@ EXCEPT
                    !.at = "approving", !.attempt = a, !.order = attempt[a].order,
                    !.seen = order[attempt[a].order]]]
    BY <1>6 DEF Approve
  <2>3. handler'[h] \in HandlerStates
    BY <2>1, <2>2 DEF HandlerStates, Steps, OrderStatus, Typed, TypeOK
  <2>4. TypeOK'
    BY <1>6, <2>2, <2>3
    DEF Approve, Typed, TypeOK, HandlerTyped, AttemptRows, ConfigRows, OrderStatus,
        Deciding, Fulfilling
  <2>5. \A g \in Handlers : HandlerTyped(g)'
    BY <1>6, <2>1, <2>2
    DEF Approve, Typed, TypeOK, HandlerTyped, HandlerStates,
       AttemptRows, Deciding, Fulfilling
  <2>6. \A x \in shown' : attempt'[x] \in AttemptRows
    BY <1>6 DEF Approve, Typed, TypeOK, HandlerTyped, AttemptRows
  <2> QED
    BY <2>4, <2>5, <2>6 DEF Typed
<1>7. ASSUME NEW h \in Handlers, NEW a \in Attempts, OnRejectReason(h, a)
      PROVE  Typed'
  <2>1. /\ handler[h] \in HandlerStates
    BY <1>7 DEF OnRejectReason, Typed, TypeOK, HandlerTyped, HandlerStates,
       AttemptRows, Deciding, Fulfilling
  <2>2. handler' = [handler EXCEPT ![h] = [@ EXCEPT
                    !.at = "rejecting", !.attempt = a]]
    BY <1>7 DEF OnRejectReason
  <2>3. handler'[h] \in HandlerStates
    BY <2>1, <2>2 DEF HandlerStates, Steps, OrderStatus, Typed, TypeOK
  <2>4. TypeOK'
    BY <1>7, <2>2, <2>3
    DEF OnRejectReason, Typed, TypeOK, HandlerTyped, AttemptRows, ConfigRows, OrderStatus,
        Deciding, Fulfilling
  <2>5. \A g \in Handlers : HandlerTyped(g)'
    BY <1>7, <2>1, <2>2
    DEF OnRejectReason, Typed, TypeOK, HandlerTyped, HandlerStates,
       AttemptRows, Deciding, Fulfilling
  <2>6. \A x \in shown' : attempt'[x] \in AttemptRows
    BY <1>7 DEF OnRejectReason, Typed, TypeOK, HandlerTyped, AttemptRows
  <2> QED
    BY <2>4, <2>5, <2>6 DEF Typed
<1>8. ASSUME NEW h \in Handlers, NEW a \in Attempts, AttachPaymentProof(h, a)
      PROVE  Typed'
  <2>1. /\ handler[h] \in HandlerStates
    BY <1>8 DEF AttachPaymentProof, Typed, TypeOK, HandlerTyped, HandlerStates,
       AttemptRows, Deciding, Fulfilling
  <2>2. handler' = [handler EXCEPT ![h] = [@ EXCEPT
                    !.at = IF handler[h].at = "proof" THEN "clear" ELSE "mark",
                    !.seen = "PAID", !.attempt = a]]
    BY <1>8 DEF AttachPaymentProof, Saved
  <2>3. handler'[h] \in HandlerStates
    BY <2>1, <2>2 DEF HandlerStates, Steps, OrderStatus, Typed, TypeOK
  <2>4. TypeOK'
    BY <1>8, <2>2, <2>3
    DEF AttachPaymentProof, Saved, Typed, TypeOK, HandlerTyped, AttemptRows, ConfigRows,
        OrderStatus,
        Deciding, Fulfilling
  <2>5. \A g \in Handlers : HandlerTyped(g)'
    BY <1>8, <2>1, <2>2
    DEF AttachPaymentProof, Saved, Typed, TypeOK, HandlerTyped, HandlerStates,
       AttemptRows, Deciding, Fulfilling
  <2>6. \A x \in shown' : attempt'[x] \in AttemptRows
    BY <1>8 DEF AttachPaymentProof, Saved, Typed, TypeOK, HandlerTyped, AttemptRows
  <2> QED
    BY <2>4, <2>5, <2>6 DEF Typed
<1>9. ASSUME NEW h \in Handlers, ClearState(h)
      PROVE  Typed'
  BY <1>9
  DEF ClearState, Return, Idle, Typed, TypeOK, HandlerStates, HandlerTyped, OrderStatus,
         Steps, AttemptRows, Deciding, Fulfilling
<1>10. ASSUME NEW h \in Handlers, CheckAttempt(h)
      PROVE  Typed'
  <2>1. CASE Goto(h, "mark")
    <3>1. TypeOK'
      BY <1>10, <2>1 DEF CheckAttempt, Goto, Typed, TypeOK, HandlerStates, Steps
    <3>2. \A g \in Handlers : HandlerTyped(g)'
      BY <1>10, <2>1 DEF CheckAttempt, Goto, Typed, TypeOK, HandlerTyped,
         HandlerStates, AttemptRows, Deciding, Fulfilling
    <3>3. \A x \in shown' : attempt'[x] \in AttemptRows
      BY <1>10 DEF CheckAttempt, Typed
    <3> QED
      BY <3>1, <3>2, <3>3 DEF Typed
  <2>2. CASE Return(h)
    BY <1>10, <2>2
    DEF CheckAttempt, Return, Idle, Typed, TypeOK, HandlerStates, HandlerTyped, OrderStatus,
         Steps, AttemptRows, Deciding, Fulfilling
  <2> QED
    BY <1>10, <2>1, <2>2 DEF CheckAttempt
<1>11. ASSUME NEW h \in Handlers, MarkOrderProvisioning(h)
      PROVE  Typed'
  <2>1. /\ handler[h] \in HandlerStates
    BY <1>11 DEF MarkOrderProvisioning, Typed, TypeOK, HandlerTyped, HandlerStates,
       AttemptRows, Deciding, Fulfilling
  <2>2. handler' = [handler EXCEPT ![h] = [@ EXCEPT
                    !.at = "select", !.seen = "PROVISIONING"]]
    BY <1>11 DEF MarkOrderProvisioning, Saved
  <2>3. handler'[h] \in HandlerStates
    BY <2>1, <2>2 DEF HandlerStates, Steps, OrderStatus, Typed, TypeOK
  <2>4. TypeOK'
    BY <1>11, <2>2, <2>3
    DEF MarkOrderProvisioning, Saved, Typed, TypeOK, HandlerTyped, AttemptRows,
        ConfigRows, OrderStatus,
        Deciding, Fulfilling
  <2>5. \A g \in Handlers : HandlerTyped(g)'
    BY <1>11, <2>1, <2>2
    DEF MarkOrderProvisioning, Saved, Typed, TypeOK, HandlerTyped, HandlerStates,
       AttemptRows, Deciding, Fulfilling
  <2>6. \A x \in shown' : attempt'[x] \in AttemptRows
    BY <1>11 DEF MarkOrderProvisioning, Saved, Typed, TypeOK, HandlerTyped, AttemptRows
  <2> QED
    BY <2>4, <2>5, <2>6 DEF Typed
<1>12. ASSUME NEW h \in Handlers, LoadRejectedOrder(h)
      PROVE  Typed'
  <2>1. /\ handler[h] \in HandlerStates
        /\ attempt[handler[h].attempt].order \in Orders
        /\ order[attempt[handler[h].attempt].order] \in OrderStatus
    BY <1>12 DEF LoadRejectedOrder, Typed, TypeOK, HandlerTyped, HandlerStates,
       AttemptRows, Deciding, Fulfilling
  <2>2. handler' = [handler EXCEPT ![h] = [@ EXCEPT
                    !.at = "reject", !.order = attempt[handler[h].attempt].order,
                    !.seen = order[attempt[handler[h].attempt].order]]]
    BY <1>12 DEF LoadRejectedOrder
  <2>3. handler'[h] \in HandlerStates
    BY <2>1, <2>2 DEF HandlerStates, Steps, OrderStatus, Typed, TypeOK
  <2>4. TypeOK'
    BY <1>12, <2>2, <2>3
    DEF LoadRejectedOrder, Typed, TypeOK, HandlerTyped, AttemptRows, ConfigRows,
        OrderStatus,
        Deciding, Fulfilling
  <2>5. \A g \in Handlers : HandlerTyped(g)'
    BY <1>12, <2>1, <2>2
    DEF LoadRejectedOrder, Typed, TypeOK, HandlerTyped, HandlerStates,
       AttemptRows, Deciding, Fulfilling
  <2>6. \A x \in shown' : attempt'[x] \in AttemptRows
    BY <1>12 DEF LoadRejectedOrder, Typed, TypeOK, HandlerTyped, AttemptRows
  <2> QED
    BY <2>4, <2>5, <2>6 DEF Typed
<1>13. ASSUME NEW h \in Handlers, RejectPayment(h)
      PROVE  Typed'
  BY <1>13
  DEF RejectPayment, Saved, Return, Idle, Typed, TypeOK, HandlerStates, HandlerTyped,
      OrderStatus,
         Steps, AttemptRows, Deciding, Fulfilling
<1>14. ASSUME NEW h \in Handlers, NEW n \in Nodes, SelectNode(h, n)
      PROVE  Typed'
  <2>1. /\ handler[h] \in HandlerStates
        /\ count[n] \in Nat
    BY <1>14 DEF SelectNode, Typed, TypeOK, HandlerTyped, HandlerStates,
       AttemptRows, Deciding, Fulfilling
  <2>2. handler' = [handler EXCEPT ![h] = [@ EXCEPT
                    !.at = "lookup", !.node = n, !.count = count[n]]]
    BY <1>14 DEF SelectNode
  <2>3. handler'[h] \in HandlerStates
    BY <2>1, <2>2 DEF HandlerStates, Steps, OrderStatus, Typed, TypeOK
  <2>4. TypeOK'
    BY <1>14, <2>2, <2>3
    DEF SelectNode, Typed, TypeOK, HandlerTyped, AttemptRows, ConfigRows, OrderStatus,
        Deciding, Fulfilling
  <2>5. \A g \in Handlers : HandlerTyped(g)'
    BY <1>14, <2>1, <2>2
    DEF SelectNode, Typed, TypeOK, HandlerTyped, HandlerStates,
       AttemptRows, Deciding, Fulfilling
  <2>6. \A x \in shown' : attempt'[x] \in AttemptRows
    BY <1>14 DEF SelectNode, Typed, TypeOK, HandlerTyped, AttemptRows
  <2> QED
    BY <2>4, <2>5, <2>6 DEF Typed
<1>15. ASSUME NEW h \in Handlers, SelectNode_Raises(h)
      PROVE  Typed'
  BY <1>15
  DEF SelectNode_Raises, Return, Idle, Typed, TypeOK, HandlerStates, HandlerTyped,
      OrderStatus,
         Steps, AttemptRows, Deciding, Fulfilling
<1>16. ASSUME NEW h \in Handlers, NoEligibleNode(h)
      PROVE  Typed'
  BY <1>16
  DEF NoEligibleNode, Return, Idle, Typed, TypeOK, HandlerStates, HandlerTyped, OrderStatus,
         Steps, AttemptRows, Deciding, Fulfilling
<1>17. ASSUME NEW h \in Handlers, FindExisting(h)
      PROVE  Typed'
  <2>1. /\ handler[h] \in HandlerStates
        /\ activation[handler[h].order] \in Configs \cup {None}
    BY <1>17 DEF FindExisting, Typed, TypeOK, HandlerTyped, HandlerStates,
       AttemptRows, Deciding, Fulfilling
  <2>2. handler' = [handler EXCEPT ![h] = [@ EXCEPT
                    !.at = IF activation[handler[h].order] = None THEN "create" ELSE "sync",
                    !.config = activation[handler[h].order]]]
    BY <1>17 DEF FindExisting
  <2>3. handler'[h] \in HandlerStates
    BY <2>1, <2>2 DEF HandlerStates, Steps, OrderStatus, Typed, TypeOK
  <2>4. TypeOK'
    BY <1>17, <2>2, <2>3
    DEF FindExisting, Typed, TypeOK, HandlerTyped, AttemptRows, ConfigRows, OrderStatus,
        Deciding, Fulfilling
  <2>5. \A g \in Handlers : HandlerTyped(g)'
    BY <1>17, <2>1, <2>2
    DEF FindExisting, Typed, TypeOK, HandlerTyped, HandlerStates,
       AttemptRows, Deciding, Fulfilling
  <2>6. \A x \in shown' : attempt'[x] \in AttemptRows
    BY <1>17 DEF FindExisting, Typed, TypeOK, HandlerTyped, AttemptRows
  <2> QED
    BY <2>4, <2>5, <2>6 DEF Typed
<1>18. ASSUME NEW h \in Handlers, NEW c \in Configs, CreateConfiguration(h, c)
      PROVE  Typed'
  <2>1. /\ handler[h] \in HandlerStates
    BY <1>18 DEF CreateConfiguration, Typed, TypeOK, HandlerTyped, HandlerStates,
       AttemptRows, Deciding, Fulfilling
  <2>2. handler' = [handler EXCEPT ![h] = [@ EXCEPT
                    !.at = "sync", !.config = c]]
    BY <1>18 DEF CreateConfiguration, Insert
  <2>3. handler'[h] \in HandlerStates
    BY <2>1, <2>2 DEF HandlerStates, Steps, OrderStatus, Typed, TypeOK
  <2>4. TypeOK'
    <3>1. /\ handler[h].order \in Orders
          /\ handler[h].node \in Nodes
          /\ handler[h].count + 1 \in Nat
      BY <1>18, <2>1 DEF CreateConfiguration, Typed, HandlerTyped, HandlerStates
    <3>2. config' \in [Configs -> ConfigRows \cup {None}]
      BY <1>18, <3>1 DEF CreateConfiguration, Insert, Typed, TypeOK, ConfigRows
    <3>3. activation' \in [Orders -> Configs \cup {None}]
      BY <1>18, <3>1 DEF CreateConfiguration, Insert, Typed, TypeOK
    <3>4. count' \in [Nodes -> Nat]
      BY <1>18, <3>1 DEF CreateConfiguration, Insert, Typed, TypeOK
    <3> QED
      BY <1>18, <2>2, <2>3, <3>2, <3>3, <3>4
      DEF CreateConfiguration, Insert, Typed, TypeOK
  <2>5. \A g \in Handlers : HandlerTyped(g)'
    BY <1>18, <2>1, <2>2
    DEF CreateConfiguration, Insert, Typed, TypeOK, HandlerTyped, HandlerStates,
       AttemptRows, Deciding, Fulfilling
  <2>6. \A x \in shown' : attempt'[x] \in AttemptRows
    BY <1>18 DEF CreateConfiguration, Insert, Typed, TypeOK, HandlerTyped, AttemptRows
  <2> QED
    BY <2>4, <2>5, <2>6 DEF Typed
<1>19. ASSUME NEW h \in Handlers, AlreadyActivated(h)
      PROVE  Typed'
  BY <1>19
  DEF AlreadyActivated, Return, Idle, Typed, TypeOK, HandlerStates, HandlerTyped,
      OrderStatus,
         Steps, AttemptRows, Deciding, Fulfilling
<1>20. ASSUME NEW h \in Handlers, GetNodeKvWriter_Raises(h) \/ SyncRefused(h)
      PROVE  Typed'
  BY <1>20
  DEF GetNodeKvWriter_Raises, SyncRefused, Return, Idle, Typed, TypeOK, HandlerStates, HandlerTyped, OrderStatus,
         Steps, AttemptRows, Deciding, Fulfilling
<1>21. ASSUME NEW h \in Handlers, NEW m \in SUBSET Configs, ReadMap(h, m)
      PROVE  Typed'
  <2>1. /\ handler[h] \in HandlerStates
    BY <1>21 DEF ReadMap, Typed, TypeOK, HandlerTyped, HandlerStates,
       AttemptRows, Deciding, Fulfilling
  <2>2. handler' = [handler EXCEPT ![h] = [@ EXCEPT
                    !.at = "write", !.map = m]]
    BY <1>21 DEF ReadMap
  <2>3. handler'[h] \in HandlerStates
    BY <2>1, <2>2 DEF HandlerStates, Steps, OrderStatus, Typed, TypeOK
  <2>4. TypeOK'
    BY <1>21, <2>2, <2>3
    DEF ReadMap, Typed, TypeOK, HandlerTyped, AttemptRows, ConfigRows, OrderStatus,
        Deciding, Fulfilling
  <2>5. \A g \in Handlers : HandlerTyped(g)'
    BY <1>21, <2>1, <2>2
    DEF ReadMap, Typed, TypeOK, HandlerTyped, HandlerStates,
       AttemptRows, Deciding, Fulfilling
  <2>6. \A x \in shown' : attempt'[x] \in AttemptRows
    BY <1>21 DEF ReadMap, Typed, TypeOK, HandlerTyped, AttemptRows
  <2> QED
    BY <2>4, <2>5, <2>6 DEF Typed
<1>22. ASSUME NEW h \in Handlers, WriteMap(h)
      PROVE  Typed'
  <2>1. /\ handler[h] \in HandlerStates
    BY <1>22 DEF WriteMap, Typed, TypeOK, HandlerTyped, HandlerStates,
       AttemptRows, Deciding, Fulfilling
  <2>2. handler' = [handler EXCEPT ![h] = [@ EXCEPT
                    !.at = "finish"]]
    BY <1>22 DEF WriteMap, Goto
  <2>3. handler'[h] \in HandlerStates
    BY <2>1, <2>2 DEF HandlerStates, Steps, OrderStatus, Typed, TypeOK
  <2>4. TypeOK'
    <3>1. handler[h].map \cup {handler[h].config} \in SUBSET Configs
      BY <1>22, <2>1 DEF WriteMap, Typed, HandlerTyped, HandlerStates
    <3>2. edge' \in [Nodes -> SUBSET Configs]
      BY <1>22, <3>1 DEF WriteMap, Typed, TypeOK
    <3>3. synced' \subseteq Configs
      BY <1>22 DEF WriteMap, Typed, TypeOK, HandlerTyped
    <3> QED
      BY <1>22, <2>2, <2>3, <3>2, <3>3 DEF WriteMap, Typed, TypeOK
  <2>5. \A g \in Handlers : HandlerTyped(g)'
    BY <1>22, <2>1, <2>2
    DEF WriteMap, Goto, Typed, TypeOK, HandlerTyped, HandlerStates,
       AttemptRows, Deciding, Fulfilling
  <2>6. \A x \in shown' : attempt'[x] \in AttemptRows
    BY <1>22 DEF WriteMap, Goto, Typed, TypeOK, HandlerTyped, AttemptRows
  <2> QED
    BY <2>4, <2>5, <2>6 DEF Typed
<1>23. ASSUME NEW h \in Handlers, MarkOrderFulfilled(h)
      PROVE  Typed'
  BY <1>23
  DEF MarkOrderFulfilled, Saved, Return, Idle, Typed, TypeOK, HandlerStates,
      HandlerTyped, OrderStatus,
         Steps, AttemptRows, Deciding, Fulfilling
<1>24. ASSUME NEW h \in Handlers, HandlerRaises(h)
      PROVE  Typed'
  BY <1>24
  DEF HandlerRaises, Return, Idle, Typed, TypeOK, HandlerStates, HandlerTyped, OrderStatus,
         Steps, AttemptRows, Deciding, Fulfilling
<1>25. ASSUME Restart
      PROVE  Typed'
  BY <1>25
  DEF Restart, Idle, Typed, TypeOK, HandlerStates, HandlerTyped, OrderStatus,
         Steps, AttemptRows, Deciding, Fulfilling
<1>26. CASE UNCHANGED vars
  BY <1>26
  DEF vars, Typed, TypeOK, HandlerStates, HandlerTyped, OrderStatus,
         Steps, AttemptRows, Deciding, Fulfilling
<1> QED
  BY <1>1, <1>2, <1>3, <1>4, <1>5, <1>6, <1>7, <1>8, <1>9, <1>10, <1>11, <1>12, <1>13,
     <1>14, <1>15, <1>16, <1>17, <1>18, <1>19, <1>20, <1>21, <1>22, <1>23, <1>24, <1>25,
     <1>26
  DEF Next, HandlerStep

----------------------------------------------------------------------------
(* What every step preserves: rows of configurations and activations are   *)
(* never changed, what was synced once was, a payment stays with its order *)
(* and stays decided.                                                      *)

Grows ==
    /\ \A c \in Live : config'[c] = config[c]
    /\ Live \subseteq Live'
    /\ \A o \in Orders : activation[o] # None => activation'[o] = activation[o]
    /\ synced \subseteq synced'
    /\ \A a \in Attempts : attempt[a] # None =>
           /\ attempt'[a] # None
           /\ attempt'[a].order = attempt[a].order
           /\ attempt[a].status # "WAITING_REVIEW" =>
                  attempt'[a].status # "WAITING_REVIEW"

\* Which steps write which tables.
Written ==
    /\ \/ UNCHANGED <<config, activation, count>>
       \/ \E h \in Handlers, c \in Configs : CreateConfiguration(h, c)
    /\ \/ UNCHANGED attempt
       \/ \E h \in Handlers, a \in Attempts : AttachPaymentProof(h, a)
       \/ \E h \in Handlers : MarkOrderProvisioning(h) \/ RejectPayment(h)
    /\ \/ UNCHANGED <<edge, synced>>
       \/ \E h \in Handlers : WriteMap(h)

LEMMA Frames == [Next]_vars => Written
<1> SUFFICES ASSUME [Next]_vars PROVE Written
  OBVIOUS
<1>1. ASSUME NEW o \in Orders, OnDisplayName(o) \/ PayStars(o)
      PROVE  Written
  BY <1>1 DEF Written, OnDisplayName, PayStars
<1>2. ASSUME NEW h \in Handlers, NEW o \in Orders,
             OnPaymentProof(h, o) \/ OnSuccessfulPayment(h, o)
      PROVE  Written
  BY <1>2 DEF Written, OnPaymentProof, OnSuccessfulPayment
<1>3. ASSUME NEW a \in Attempts, ShowPending(a)
      PROVE  Written
  BY <1>3 DEF Written, ShowPending
<1>4. ASSUME NEW h \in Handlers, NEW a \in Attempts,
             Approve(h, a) \/ OnRejectReason(h, a)
      PROVE  Written
  BY <1>4 DEF Written, Approve, OnRejectReason
<1>5. ASSUME NEW h \in Handlers, HandlerStep(h)
      PROVE  Written
  <2>1. ASSUME NEW a \in Attempts, AttachPaymentProof(h, a)
        PROVE  Written
    BY <2>1 DEF Written, AttachPaymentProof
  <2>2. CASE MarkOrderProvisioning(h) \/ RejectPayment(h)
    BY <2>2 DEF Written, MarkOrderProvisioning, RejectPayment
  <2>3. CASE ClearState(h) \/ CheckAttempt(h) \/ LoadRejectedOrder(h)
    BY <2>3 DEF Written, ClearState, CheckAttempt, LoadRejectedOrder
  <2>4. ASSUME NEW n \in Nodes, SelectNode(h, n)
        PROVE  Written
    BY <2>4 DEF Written, SelectNode
  <2>5. CASE SelectNode_Raises(h) \/ NoEligibleNode(h) \/ FindExisting(h)
    BY <2>5 DEF Written, SelectNode_Raises, NoEligibleNode, FindExisting
  <2>6. ASSUME NEW c \in Configs, CreateConfiguration(h, c)
        PROVE  Written
    BY <2>6 DEF Written, CreateConfiguration, Insert
  <2>7. CASE AlreadyActivated(h) \/ GetNodeKvWriter_Raises(h) \/ SyncRefused(h)
    BY <2>7 DEF Written, AlreadyActivated, GetNodeKvWriter_Raises, SyncRefused
  <2>10. ASSUME NEW m \in SUBSET Configs, ReadMap(h, m)
         PROVE  Written
    BY <2>10 DEF Written, ReadMap
  <2>8. CASE WriteMap(h)
    BY <2>8 DEF Written, WriteMap
  <2>9. CASE MarkOrderFulfilled(h)
    BY <2>9 DEF Written, MarkOrderFulfilled
  <2> QED
    BY <1>5, <2>1, <2>2, <2>3, <2>4, <2>5, <2>6, <2>7, <2>8, <2>9, <2>10
    DEF HandlerStep
<1>6. CASE \E h \in Handlers : HandlerRaises(h)
  BY <1>6 DEF Written, HandlerRaises
<1>7. CASE Restart
  BY <1>7 DEF Written, Restart
<1>8. CASE UNCHANGED vars
  BY <1>8 DEF Written, vars
<1> QED
  BY <1>1, <1>2, <1>3, <1>4, <1>5, <1>6, <1>7, <1>8 DEF Next

LEMMA StepGrows == Typed /\ [Next]_vars => Grows
<1> SUFFICES ASSUME Typed, [Next]_vars PROVE Grows
  OBVIOUS
<1> USE OrderFlowAssumption
<1>1. /\ \A c \in Live : config'[c] = config[c]
      /\ Live \subseteq Live'
      /\ \A o \in Orders : activation[o] # None => activation'[o] = activation[o]
  <2>1. CASE UNCHANGED <<config, activation, count>>
    BY <2>1 DEF Live
  <2>2. ASSUME NEW h \in Handlers, NEW c \in Configs, CreateConfiguration(h, c)
        PROVE  /\ \A x \in Live : config'[x] = config[x]
               /\ Live \subseteq Live'
               /\ \A o \in Orders :
                      activation[o] # None => activation'[o] = activation[o]
    BY <2>2 DEF CreateConfiguration, Insert, Live, Typed, TypeOK
  <2> QED
    BY <2>1, <2>2, Frames DEF Written
<1>2. ASSUME NEW a \in Attempts, attempt[a] # None
      PROVE  /\ attempt'[a] # None
             /\ attempt'[a].order = attempt[a].order
             /\ attempt[a].status # "WAITING_REVIEW" =>
                    attempt'[a].status # "WAITING_REVIEW"
  <2>1. CASE UNCHANGED attempt
    BY <1>2, <2>1
  <2>2. ASSUME NEW h \in Handlers, NEW b \in Attempts, AttachPaymentProof(h, b)
        PROVE  attempt'[a] = attempt[a]
    BY <1>2, <2>2 DEF AttachPaymentProof, Typed, TypeOK
  <2>3. ASSUME NEW h \in Handlers, MarkOrderProvisioning(h) \/ RejectPayment(h)
        PROVE  /\ attempt'[a] # None
               /\ attempt'[a].order = attempt[a].order
               /\ attempt[a].status # "WAITING_REVIEW" =>
                      attempt'[a].status # "WAITING_REVIEW"
    <3>1. /\ handler[h].attempt \in Attempts
          /\ attempt[handler[h].attempt] \in AttemptRows
      BY <2>3 DEF MarkOrderProvisioning, RejectPayment, Typed, HandlerTyped,
         Deciding
    <3>2. ASSUME NEW s \in {"APPROVED", "REJECTED"},
                 attempt' = [attempt EXCEPT ![handler[h].attempt].status = s]
          PROVE  /\ attempt'[a] # None
                 /\ attempt'[a].order = attempt[a].order
                 /\ attempt[a].status # "WAITING_REVIEW" =>
                        attempt'[a].status # "WAITING_REVIEW"
      <4>1. CASE a = handler[h].attempt
        BY OrderFlowAssumption, <3>1, <3>2, <4>1 DEF Typed, TypeOK, AttemptRows
      <4>2. CASE a # handler[h].attempt
        BY <1>2, <3>2, <4>2 DEF Typed, TypeOK
      <4> QED
        BY <4>1, <4>2
    <3>3. CASE MarkOrderProvisioning(h)
      BY <3>2, <3>3 DEF MarkOrderProvisioning
    <3>4. CASE RejectPayment(h)
      BY <3>2, <3>4 DEF RejectPayment
    <3> QED
      BY <2>3, <3>3, <3>4
  <2> QED
    BY <1>2, <2>1, <2>2, <2>3, Frames DEF Written
<1>3. synced \subseteq synced'
  BY Frames DEF Written, WriteMap
<1> QED
  BY <1>1, <1>2, <1>3 DEF Grows

----------------------------------------------------------------------------
(* Safety.  The properties are inductive together with what each handler   *)
(* has established by the step it is at.                                   *)

\* No configuration exists before a payment of its order was decided.
VerdictBeforeConfig == \A c \in Live : config[c].order \in Decided

HandlerSafe(h) ==
    LET r == handler[h] IN
    /\ r.at \in (Deciding \cup Fulfilling) \ {"rejecting"} =>
           attempt[r.attempt].order = r.order
    /\ r.at \in Fulfilling => attempt[r.attempt].status # "WAITING_REVIEW"
    /\ r.at \in {"sync", "write", "finish"} => activation[r.order] = r.config
    /\ r.at = "write" => r.map \subseteq Live
    /\ r.at = "finish" => r.config \in synced

Safe ==
    /\ Typed
    /\ ActivationSound
    /\ FulfilledHasConfig
    /\ SyncedBeforeFulfilled
    /\ VerdictBeforeConfig
    /\ CredentialsBacked
    /\ \A h \in Handlers : HandlerSafe(h)

LEMMA SafeInit == Init => Safe
<1> SUFFICES ASSUME Init PROVE Safe
  OBVIOUS
<1>1. Live = {} /\ Typed
  BY TypedInit DEF Init, Live
<1> QED
  BY <1>1 DEF Init, Safe, ActivationSound, FulfilledHasConfig,
     SyncedBeforeFulfilled, VerdictBeforeConfig, CredentialsBacked, HandlerSafe, Idle, Deciding,
     Fulfilling

\* A step of another handler leaves a handler's knowledge true.
LEMMA OthersStaySafe ==
  ASSUME Safe, Typed', Grows, NEW h \in Handlers, handler'[h] = handler[h]
  PROVE  HandlerSafe(h)'
<1> USE OrderFlowAssumption
<1>1. HandlerSafe(h) /\ HandlerTyped(h)
  BY DEF Safe, Typed
<1>2. handler[h].at \in (Deciding \cup Fulfilling) \ {"rejecting"} =>
          attempt'[handler[h].attempt].order = handler[h].order
  BY <1>1 DEF HandlerSafe, HandlerTyped, Grows
<1>3. handler[h].at \in Fulfilling =>
          attempt'[handler[h].attempt].status # "WAITING_REVIEW"
  BY <1>1 DEF HandlerSafe, HandlerTyped, Grows
<1>4. handler[h].at \in {"sync", "write", "finish"} =>
          activation'[handler[h].order] = handler[h].config
  BY <1>1 DEF HandlerSafe, HandlerTyped, Grows
<1>5. handler[h].at = "write" => handler[h].map \subseteq Live'
  BY <1>1 DEF HandlerSafe, Grows
<1>6. handler[h].at = "finish" => handler[h].config \in synced'
  BY <1>1 DEF HandlerSafe, Grows
<1> QED
  BY <1>2, <1>3, <1>4, <1>5, <1>6 DEF HandlerSafe

\* Steps at which a handler knows nothing that others could falsify.
Careless == {"idle", "proof", "stars", "clear", "rejecting"}

\* The steps of handler h that make it know something.
Learns(h) ==
    \/ \E a \in Attempts : Approve(h, a) \/ AttachPaymentProof(h, a)
    \/ CheckAttempt(h) \/ MarkOrderProvisioning(h) \/ LoadRejectedOrder(h)
    \/ \E n \in Nodes : SelectNode(h, n)
    \/ FindExisting(h)
    \/ \E c \in Configs : CreateConfiguration(h, c)
    \/ \E m \in SUBSET Configs : ReadMap(h, m)
    \/ WriteMap(h)

Moved(h) ==
    \/ handler'[h] = handler[h]
    \/ handler'[h].at \in Careless
    \/ Learns(h)

LEMMA Actor == Typed /\ [Next]_vars => \A g \in Handlers : Moved(g)
<1> SUFFICES ASSUME Typed, [Next]_vars, NEW g \in Handlers PROVE Moved(g)
  OBVIOUS
<1>a. handler \in [Handlers -> HandlerStates]
  BY DEF Typed, TypeOK
<1>1. ASSUME NEW h \in Handlers, Return(h)
      PROVE  Moved(g)
  BY <1>a, <1>1 DEF Moved, Return, Idle, Careless
<1>2. ASSUME NEW o \in Orders, OnDisplayName(o) \/ PayStars(o)
      PROVE  Moved(g)
  BY <1>2 DEF Moved, OnDisplayName, PayStars
<1>3. ASSUME NEW h \in Handlers, NEW o \in Orders,
             OnPaymentProof(h, o) \/ OnSuccessfulPayment(h, o)
      PROVE  Moved(g)
  BY <1>a, <1>3
  DEF Moved, OnPaymentProof, OnSuccessfulPayment, Load, Careless, HandlerStates
<1>4. ASSUME NEW a \in Attempts, ShowPending(a)
      PROVE  Moved(g)
  BY <1>4 DEF Moved, ShowPending
<1>5. ASSUME NEW h \in Handlers, NEW a \in Attempts, Approve(h, a)
      PROVE  Moved(g)
  BY <1>a, <1>5 DEF Moved, Approve, Learns
<1>6. ASSUME NEW h \in Handlers, NEW a \in Attempts, OnRejectReason(h, a)
      PROVE  Moved(g)
  BY <1>a, <1>6 DEF Moved, OnRejectReason, Careless, HandlerStates
<1>7. ASSUME NEW h \in Handlers, HandlerStep(h)
      PROVE  Moved(g)
  <2>1. CASE Return(h)
    BY <1>1, <2>1
  <2>2. CASE Learns(h)
    <3>1. g # h => handler'[g] = handler[g]
      BY <1>a, <2>2 DEF Learns, Approve, AttachPaymentProof, CheckAttempt,
         MarkOrderProvisioning, LoadRejectedOrder, SelectNode, FindExisting,
         CreateConfiguration, Insert, ReadMap, WriteMap, Goto, Return
    <3> QED
      BY <2>2, <3>1 DEF Moved
  <2> QED
    BY <1>7, <2>1, <2>2
    DEF HandlerStep, Learns, ClearState, RejectPayment, SelectNode_Raises,
        NoEligibleNode, AlreadyActivated, GetNodeKvWriter_Raises, SyncRefused,
        MarkOrderFulfilled
<1>8. ASSUME NEW h \in Handlers, HandlerRaises(h)
      PROVE  Moved(g)
  BY <1>1, <1>8 DEF HandlerRaises
<1>9. CASE Restart
  BY <1>9 DEF Moved, Restart, Idle, Careless
<1>10. CASE UNCHANGED vars
  BY <1>10 DEF Moved, vars
<1> QED
  BY <1>2, <1>3, <1>4, <1>5, <1>6, <1>7, <1>8, <1>9, <1>10 DEF Next

\* Only mark_order_fulfilled makes an order FULFILLED.
LEMMA FulfilledBy ==
  ASSUME Typed, [Next]_vars, NEW o \in Orders, order'[o] = "FULFILLED"
  PROVE  \/ order[o] = "FULFILLED"
         \/ \E h \in Handlers : handler[h].order = o /\ MarkOrderFulfilled(h)
<1> DEFINE Goal == \/ order[o] = "FULFILLED"
                   \/ \E h \in Handlers :
                          handler[h].order = o /\ MarkOrderFulfilled(h)
<1>1. ASSUME NEW h \in Handlers, NEW s \in OrderStatus \ {"FULFILLED"},
             order' = Saved(h, s)
      PROVE  Goal
  BY <1>1 DEF Saved, Typed, TypeOK
<1>2. ASSUME NEW h \in Handlers, HandlerStep(h)
      PROVE  Goal
  <2>1. ASSUME NEW a \in Attempts, AttachPaymentProof(h, a)
        PROVE  Goal
    BY <1>1, <2>1 DEF AttachPaymentProof, OrderStatus
  <2>2. CASE MarkOrderProvisioning(h)
    BY <1>1, <2>2 DEF MarkOrderProvisioning, OrderStatus
  <2>3. CASE RejectPayment(h)
    BY <1>1, <2>3 DEF RejectPayment, OrderStatus
  <2>4. CASE MarkOrderFulfilled(h)
    BY <2>4 DEF MarkOrderFulfilled, Saved, Typed, TypeOK
  <2>5. CASE UNCHANGED order
    BY <2>5
  <2> QED
    BY <1>2, <2>1, <2>2, <2>3, <2>4, <2>5
    DEF HandlerStep, ClearState, CheckAttempt, LoadRejectedOrder, SelectNode,
        SelectNode_Raises, NoEligibleNode, FindExisting, CreateConfiguration,
        Insert, AlreadyActivated, GetNodeKvWriter_Raises, SyncRefused, ReadMap,
        WriteMap
<1>3. CASE UNCHANGED order
  BY <1>3
<1>4. ASSUME NEW p \in Orders, CreateOrder(p)
      PROVE  Goal
  BY <1>4 DEF CreateOrder, Typed, TypeOK
<1> QED
  BY <1>2, <1>3, <1>4
  DEF Next, vars, OnDisplayName, PayStars, OnPaymentProof, OnSuccessfulPayment,
      ShowPending, Approve, OnRejectReason, HandlerRaises, Restart

LEMMA SafeStep == Safe /\ [Next]_vars => Safe'
<1> SUFFICES ASSUME Safe, [Next]_vars PROVE Safe'
  OBVIOUS
<1> USE OrderFlowAssumption
<1>1. Typed /\ Typed' /\ Grows /\ Written
  BY TypedStep, StepGrows, Frames DEF Safe
<1>2. ActivationSound'
  <2>1. CASE UNCHANGED <<config, activation, count>>
    BY <2>1 DEF Safe, ActivationSound, Live
  <2>2. ASSUME NEW h \in Handlers, NEW c \in Configs, CreateConfiguration(h, c)
        PROVE  ActivationSound'
    <3>1. /\ handler[h].order \in Orders
          /\ activation[handler[h].order] = None
          /\ config[c] = None
          /\ activation' = [activation EXCEPT ![handler[h].order] = c]
          /\ config' = [config EXCEPT ![c] = [order |-> handler[h].order,
                                              node |-> handler[h].node]]
          /\ [order |-> handler[h].order, node |-> handler[h].node] # None
      BY <1>1, <2>2
      DEF CreateConfiguration, Insert, Typed, HandlerTyped, ConfigRows
    <3>2. \A d \in Live' : activation'[config'[d].order] = d
      BY <1>1, <3>1 DEF Live, Typed, TypeOK, Safe, ActivationSound, ConfigRows
    <3>3. \A o \in Orders : activation'[o] # None =>
              activation'[o] \in Live' /\ config'[activation'[o]].order = o
      BY <1>1, <3>1 DEF Live, Typed, TypeOK, Safe, ActivationSound
    <3> QED
      BY <3>2, <3>3 DEF ActivationSound
  <2> QED
    BY <1>1, <2>1, <2>2 DEF Written
<1>3. FulfilledHasConfig'
  <2> SUFFICES ASSUME NEW o \in Orders, order'[o] = "FULFILLED"
               PROVE  activation'[o] # None
    BY DEF FulfilledHasConfig
  <2>1. CASE order[o] = "FULFILLED"
    BY <1>1, <2>1 DEF Safe, FulfilledHasConfig, Grows
  <2>2. ASSUME NEW h \in Handlers, handler[h].order = o, MarkOrderFulfilled(h)
        PROVE  activation'[o] # None
    <3>1. activation[o] = handler[h].config /\ handler[h].config \in Configs
      BY <1>1, <2>2 DEF MarkOrderFulfilled, Safe, HandlerSafe, Typed, HandlerTyped
    <3> QED
      BY <1>1, <3>1 DEF Grows
  <2> QED
    BY <1>1, <2>1, <2>2, FulfilledBy
<1>4. Decided \subseteq Decided'
  BY <1>1 DEF Decided, Grows
<1>5. VerdictBeforeConfig'
  <2>1. CASE UNCHANGED <<config, activation, count>>
    BY <1>4, <2>1 DEF Safe, VerdictBeforeConfig, Live
  <2>2. ASSUME NEW h \in Handlers, NEW c \in Configs, CreateConfiguration(h, c)
        PROVE  VerdictBeforeConfig'
    <3>1. handler[h].order \in Decided
      BY <1>1, <2>2 DEF CreateConfiguration, Safe, HandlerSafe, Typed,
         HandlerTyped, Decided, Deciding, Fulfilling
    <3>2. \A d \in Live' : d = c \/ (d \in Live /\ config'[d] = config[d])
      BY <1>1, <2>2 DEF CreateConfiguration, Insert, Live, Typed, TypeOK
    <3>3. config'[c].order = handler[h].order
      BY <1>1, <2>2 DEF CreateConfiguration, Insert, Typed, TypeOK
    <3> QED
      BY <1>4, <3>1, <3>2, <3>3 DEF Safe, VerdictBeforeConfig
  <2> QED
    BY <1>1, <2>1, <2>2 DEF Written
<1>6. CredentialsBacked'
  <2>1. CASE UNCHANGED edge
    BY <1>1, <2>1 DEF Safe, CredentialsBacked, Grows
  <2>2. ASSUME NEW h \in Handlers, WriteMap(h)
        PROVE  CredentialsBacked'
    <3>1. handler[h].map \subseteq Live /\ handler[h].config \in Live
      BY <1>1, <2>2 DEF WriteMap, Safe, HandlerSafe, Typed, HandlerTyped,
         ActivationSound
    <3> QED
      BY <1>1, <2>2, <3>1 DEF WriteMap, Safe, CredentialsBacked, Grows, Typed,
         TypeOK
  <2> QED
    BY <1>1, <2>1, <2>2 DEF Written
<1>7. ASSUME NEW h \in Handlers
      PROVE  HandlerSafe(h)'
  <2>1. CASE handler'[h] = handler[h]
    BY <1>1, <2>1, OthersStaySafe
  <2>2. CASE handler'[h].at \in Careless
    BY <2>2 DEF Careless, HandlerSafe, Deciding, Fulfilling
  <2>3. CASE Learns(h)
    <3>1. handler[h] \in HandlerStates /\ HandlerTyped(h) /\ HandlerSafe(h)
      BY <1>1 DEF Safe, Typed, TypeOK
    <3>2. ASSUME NEW a \in Attempts, Approve(h, a)
          PROVE  HandlerSafe(h)'
      BY <1>1, <3>1, <3>2 DEF Approve, HandlerSafe, Typed, TypeOK,
         HandlerStates, Deciding, Fulfilling
    <3>3. ASSUME NEW a \in Attempts, AttachPaymentProof(h, a)
          PROVE  HandlerSafe(h)'
      BY <1>1, <3>1, <3>3 DEF AttachPaymentProof, HandlerSafe, Typed, TypeOK,
         HandlerStates, Deciding, Fulfilling
    <3>4. CASE CheckAttempt(h)
      BY <1>1, <3>1, <3>4 DEF CheckAttempt, Goto, Return, Idle, HandlerSafe,
         Typed, TypeOK, HandlerStates, Deciding, Fulfilling
    <3>5. CASE MarkOrderProvisioning(h)
      BY <1>1, <3>1, <3>5 DEF MarkOrderProvisioning, HandlerSafe, HandlerTyped,
         Typed, TypeOK, HandlerStates, AttemptRows, Deciding, Fulfilling
    <3>6. CASE LoadRejectedOrder(h)
      BY <1>1, <3>1, <3>6 DEF LoadRejectedOrder, HandlerSafe, Typed, TypeOK,
         HandlerStates, Deciding, Fulfilling
    <3>7. ASSUME NEW n \in Nodes, SelectNode(h, n)
          PROVE  HandlerSafe(h)'
      BY <1>1, <3>1, <3>7 DEF SelectNode, HandlerSafe, Typed, TypeOK,
         HandlerStates, Deciding, Fulfilling
    <3>8. CASE FindExisting(h)
      BY <1>1, <3>1, <3>8 DEF FindExisting, HandlerSafe, Typed, TypeOK,
         HandlerStates, Deciding, Fulfilling
    <3>9. ASSUME NEW c \in Configs, CreateConfiguration(h, c)
          PROVE  HandlerSafe(h)'
      BY <1>1, <3>1, <3>9 DEF CreateConfiguration, Insert, HandlerSafe,
         HandlerTyped, Typed, TypeOK, HandlerStates, Deciding, Fulfilling
    <3>10. ASSUME NEW m \in SUBSET Configs, ReadMap(h, m)
           PROVE  HandlerSafe(h)'
      BY <1>1, <3>1, <3>10 DEF ReadMap, MapsRead, HandlerSafe, HandlerTyped, Typed, TypeOK,
         HandlerStates, Safe, CredentialsBacked, Grows, Deciding, Fulfilling
    <3>11. CASE WriteMap(h)
      BY <1>1, <3>1, <3>11 DEF WriteMap, Goto, HandlerSafe, Typed, TypeOK,
         HandlerStates, Deciding, Fulfilling
    <3> QED
      BY <2>3, <3>2, <3>3, <3>4, <3>5, <3>6, <3>7, <3>8, <3>9, <3>10, <3>11
      DEF Learns
  <2> QED
    BY <1>1, <2>1, <2>2, <2>3, Actor DEF Moved
<1>8. SyncedBeforeFulfilled'
  <2> SUFFICES ASSUME NEW o \in Orders, order'[o] = "FULFILLED"
               PROVE  activation'[o] \in synced'
    BY DEF SyncedBeforeFulfilled
  <2>1. CASE order[o] = "FULFILLED"
    BY <1>1, <2>1 DEF Safe, FulfilledHasConfig, SyncedBeforeFulfilled, Grows
  <2>2. ASSUME NEW h \in Handlers, handler[h].order = o, MarkOrderFulfilled(h)
        PROVE  activation'[o] \in synced'
    <3>1. /\ activation[o] = handler[h].config /\ handler[h].config \in Configs
          /\ handler[h].config \in synced
      BY <1>1, <2>2 DEF MarkOrderFulfilled, Safe, HandlerSafe, Typed, HandlerTyped
    <3> QED
      BY <1>1, <3>1 DEF Grows
  <2> QED
    BY <1>1, <2>1, <2>2, FulfilledBy
<1> QED
  BY <1>1, <1>2, <1>3, <1>5, <1>6, <1>7, <1>8 DEF Safe

----------------------------------------------------------------------------
(* The node counter.  A handler remembers a count that was true of the     *)
(* assignments when it read it; assignments only accumulate.               *)

Carried == [n \in Nodes |-> Cardinality(AssignedTo(n))]

CountSafe ==
    /\ \A n \in Nodes : count[n] <= Carried[n]
    /\ \A h \in Handlers : handler[h].at \in {"lookup", "create"} =>
           handler[h].count <= Carried[handler[h].node]

LEMMA AssignedFinite ==
  \A n \in Nodes : /\ IsFiniteSet(AssignedTo(n))
                   /\ Carried[n] = Cardinality(AssignedTo(n))
                   /\ Carried[n] \in Nat
  BY FS_Subset, FS_CardinalityType, OrderFlowAssumption
  DEF AssignedTo, Live, Carried

LEMMA CountStep == Safe /\ Typed' /\ CountSafe /\ [Next]_vars => CountSafe'
<1> SUFFICES ASSUME Safe, Typed', CountSafe, [Next]_vars PROVE CountSafe'
  OBVIOUS
<1> USE OrderFlowAssumption
<1>1. Typed /\ Grows /\ Written
  BY StepGrows, Frames DEF Safe
<1>2. ASSUME NEW n \in Nodes
      PROVE  /\ IsFiniteSet(AssignedTo(n)')
             /\ Carried'[n] = Cardinality(AssignedTo(n)')
             /\ Carried'[n] \in Nat
  BY FS_Subset, FS_CardinalityType DEF AssignedTo, Live, Carried
<1>3. ASSUME NEW n \in Nodes
      PROVE  Carried[n] <= Carried'[n]
  <2>1. AssignedTo(n) \subseteq AssignedTo(n)'
    BY <1>1 DEF AssignedTo, Grows
  <2> QED
    BY <1>2, <2>1, FS_Subset, AssignedFinite
<1>4. ASSUME NEW n \in Nodes
      PROVE  count'[n] <= Carried'[n]
  <2>1. CASE count'[n] = count[n]
    <3>1. count[n] <= Carried[n] /\ count[n] \in Nat
      BY <1>1 DEF CountSafe, Typed, TypeOK
    <3> QED
      BY <1>2, <1>3, <2>1, <3>1, AssignedFinite
  <2>2. ASSUME NEW h \in Handlers, NEW c \in Configs,
               CreateConfiguration(h, c), n = handler[h].node
        PROVE  count'[n] <= Carried'[n]
    <3>1. AssignedTo(n)' = AssignedTo(n) \cup {c} /\ c \notin AssignedTo(n)
      BY <1>1, <2>2 DEF CreateConfiguration, Insert, AssignedTo, Live, Typed,
         TypeOK, HandlerTyped, ConfigRows
    <3>2. Carried'[n] = Carried[n] + 1
      BY <1>2, <3>1, AssignedFinite, FS_AddElement
    <3>3. /\ count'[n] = handler[h].count + 1
          /\ handler[h].count <= Carried[n]
          /\ handler[h].count \in Nat
      BY <1>1, <2>2 DEF CreateConfiguration, Insert, CountSafe, Typed, TypeOK,
         HandlerStates
    <3> QED
      BY <3>2, <3>3, AssignedFinite
  <2>3. ASSUME NEW h \in Handlers, NEW c \in Configs,
               CreateConfiguration(h, c), n # handler[h].node
        PROVE  count'[n] = count[n]
    BY <1>1, <2>3 DEF CreateConfiguration, Insert, Typed, TypeOK
  <2> QED
    BY <1>1, <2>1, <2>2, <2>3 DEF Written
<1>5. ASSUME NEW h \in Handlers, handler'[h].at \in {"lookup", "create"}
      PROVE  handler'[h].count <= Carried'[handler'[h].node]
  <2>1. handler[h] \in HandlerStates /\ handler'[h] \in HandlerStates
    BY <1>1 DEF Typed, TypeOK
  <2>a. handler \in [Handlers -> HandlerStates]
    BY <1>1 DEF Typed, TypeOK
  <2>2. handler'[h].node \in Nodes
    BY <1>5 DEF Typed, HandlerTyped
  <2>3. handler'[h].count <= Carried[handler'[h].node]
    <3>1. CASE handler'[h] = handler[h]
      BY <1>5, <3>1 DEF CountSafe
    <3>2. CASE handler'[h].at \in Careless
      BY <1>5, <3>2 DEF Careless
    <3>3. CASE Learns(h)
      <4>1. \/ FindExisting(h)
            \/ \E n \in Nodes : SelectNode(h, n)
        <5>1. ASSUME NEW a \in Attempts, Approve(h, a)
              PROVE  FALSE
          BY <1>5, <2>a, <5>1 DEF Approve, HandlerStates
        <5>2. ASSUME NEW a \in Attempts, AttachPaymentProof(h, a)
              PROVE  FALSE
          BY <1>5, <2>a, <5>2 DEF AttachPaymentProof, HandlerStates
        <5>3. CASE CheckAttempt(h)
          BY <1>5, <2>a, <5>3 DEF CheckAttempt, Goto, Return, Idle, HandlerStates
        <5>4. CASE MarkOrderProvisioning(h)
          BY <1>5, <2>a, <5>4 DEF MarkOrderProvisioning, HandlerStates
        <5>5. CASE LoadRejectedOrder(h)
          BY <1>5, <2>a, <5>5 DEF LoadRejectedOrder, HandlerStates
        <5>6. ASSUME NEW c \in Configs, CreateConfiguration(h, c)
              PROVE  FALSE
          BY <1>5, <2>a, <5>6 DEF CreateConfiguration, Insert, HandlerStates
        <5>7. ASSUME NEW m \in SUBSET Configs, ReadMap(h, m)
              PROVE  FALSE
          BY <1>5, <2>a, <5>7 DEF ReadMap, HandlerStates
        <5>8. CASE WriteMap(h)
          BY <1>5, <2>a, <5>8 DEF WriteMap, Goto, HandlerStates
        <5> QED
          BY <3>3, <5>1, <5>2, <5>3, <5>4, <5>5, <5>6, <5>7, <5>8 DEF Learns
      <4>2. ASSUME NEW n \in Nodes, SelectNode(h, n)
            PROVE  handler'[h].count = count[n] /\ handler'[h].node = n
        BY <1>1, <2>1, <4>2 DEF SelectNode, Typed, TypeOK, HandlerStates
      <4>3. CASE FindExisting(h)
        BY <1>1, <2>1, <4>3 DEF FindExisting, CountSafe, Typed, TypeOK,
           HandlerStates
      <4> QED
        BY <4>1, <4>2, <4>3 DEF CountSafe
    <3> QED
      BY <1>1, <3>1, <3>2, <3>3, Actor DEF Moved
  <2>4. handler'[h].count \in Nat
    BY <2>1 DEF HandlerStates
  <2> QED
    BY <1>2, <1>3, <2>2, <2>3, <2>4, AssignedFinite
<1> QED
  BY <1>4, <1>5 DEF CountSafe

----------------------------------------------------------------------------
(* The theorems about the specification.                                   *)

\* TypeOK holds in every reachable state: a handler never dereferences a
\* payment, order, node or configuration it has not loaded.
THEOREM TypeCorrect == Spec => []TypeOK
<1>1. Spec => []Typed
  BY TypedInit, TypedStep, PTL DEF Spec
<1> QED
  BY <1>1, PTL DEF Typed

\* The safety properties of the order flow, for every interleaving of
\* approvals, rejections, Stars payments, late proofs, retries and crashes.
THEOREM SafeAlways == Spec => []Safe
  BY SafeInit, SafeStep, PTL DEF Spec

\* schema.sql's "approve once": one configuration per order, and none that
\* is not its order's activation.
THEOREM ActivationAlwaysSound == Spec => []ActivationSound
  BY SafeAlways, PTL DEF Safe

\* FULFILLED is only ever seen on an order that has its configuration.
THEOREM FulfilledAlwaysHasConfig == Spec => []FulfilledHasConfig
  BY SafeAlways, PTL DEF Safe

\* "Never silently half-provision": whatever handlers overwrite, misread and
\* repeat, FULFILLED is only ever seen on an order whose credential was
\* written to a node's map.
THEOREM AlwaysSyncedFirst == Spec => []SyncedBeforeFulfilled
  BY SafeAlways, PTL DEF Safe

\* No configuration precedes the verdict on a payment of its order.
THEOREM VerdictAlwaysFirst == Spec => []VerdictBeforeConfig
  BY SafeAlways, PTL DEF Safe

\* Edges hold credentials of committed configurations only.
THEOREM CredentialsAlwaysBacked == Spec => []CredentialsBacked
  BY SafeAlways, PTL DEF Safe

\* Lost updates can make a node look emptier than it is, never fuller.
THEOREM CountNeverTooHigh == Spec => []CountNeverOverstates
<1>1. Init => CountSafe
  <2> SUFFICES ASSUME Init PROVE CountSafe
    OBVIOUS
  <2>1. \A n \in Nodes : count[n] = 0
    BY DEF Init
  <2>2. \A h \in Handlers : handler[h].at = "idle"
    BY DEF Init, Idle
  <2> QED
    BY <2>1, <2>2, AssignedFinite DEF CountSafe
<1>2. Safe /\ CountSafe /\ [Next]_vars => Safe' /\ CountSafe'
  BY SafeStep, CountStep DEF Safe
<1>3. CountSafe => CountNeverOverstates
  BY AssignedFinite DEF CountSafe, CountNeverOverstates
<1> QED
  BY <1>1, <1>2, <1>3, SafeInit, PTL DEF Spec

----------------------------------------------------------------------------
(* Refinement of OrderActivation.                                          *)

Done == {o \in Orders : order[o] = "FULFILLED"}

\* A step that writes a status other than FULFILLED on one order.
LEMMA DoneAfterSave ==
  ASSUME Typed, NEW h \in Handlers, NEW s \in OrderStatus \ {"FULFILLED"},
         handler[h].order \in Orders, order' = Saved(h, s)
  PROVE  Done' \in {Done, Done \ {handler[h].order}}
<1>1. CASE order' = order
  BY <1>1 DEF Done
<1>2. CASE order' = [order EXCEPT ![handler[h].order] = s]
  BY <1>2 DEF Done, Typed, TypeOK
<1> QED
  BY <1>1, <1>2 DEF Saved

\* A verdict on a payment decides its order.
LEMMA DecidedBy ==
  ASSUME Typed, NEW a \in Attempts, attempt[a] \in AttemptRows,
         NEW s \in {"APPROVED", "REJECTED"},
         attempt' = [attempt EXCEPT ![a].status = s]
  PROVE  Decided' = Decided \cup {attempt[a].order}
<1> USE OrderFlowAssumption
<1>1. /\ attempt'[a] # None
      /\ attempt'[a].order = attempt[a].order
      /\ attempt'[a].status # "WAITING_REVIEW"
  BY DEF Typed, TypeOK, AttemptRows
<1>2. \A b \in Attempts : b # a => attempt'[b] = attempt[b]
  BY DEF Typed, TypeOK
<1>3. attempt[a].order \in Orders
  BY DEF AttemptRows
<1> QED
  BY <1>1, <1>2, <1>3 DEF Decided

LEMMA PromiseStep == Safe /\ [Next]_vars => [Promise!Next]_(Promise!vars)
<1> SUFFICES ASSUME Safe, [Next]_vars PROVE [Promise!Next]_(Promise!vars)
  OBVIOUS
<1> USE OrderFlowAssumption
<1> DEFINE Goal == Promise!Next \/ UNCHANGED Promise!vars
<1>1. Typed /\ \A h \in Handlers : HandlerTyped(h) /\ HandlerSafe(h)
  BY DEF Safe, Typed
<1>2. CASE UNCHANGED <<order, attempt, activation>>
  BY <1>2 DEF Promise!vars, Decided
<1>3. ASSUME NEW o \in Orders, CreateOrder(o), UNCHANGED <<attempt, activation>>
      PROVE  Goal
  <2>1. Done' = Done
    BY <1>1, <1>3 DEF CreateOrder, Done, Typed, TypeOK
  <2> QED
    BY <1>3, <2>1 DEF Promise!vars, Decided, Done
<1>4. ASSUME NEW h \in Handlers, NEW a \in Attempts, AttachPaymentProof(h, a)
      PROVE  Goal
  <2>1. handler[h].order \in Orders
    BY <1>1, <1>4 DEF AttachPaymentProof, HandlerTyped
  <2>2. Done' \in {Done, Done \ {handler[h].order}}
    BY <1>1, <1>4, <2>1, DoneAfterSave DEF AttachPaymentProof, OrderStatus
  <2>3. Decided' = Decided
    BY <1>1, <1>4 DEF AttachPaymentProof, Decided, Typed, TypeOK
  <2> QED
    BY <1>4, <2>1, <2>2, <2>3
    DEF AttachPaymentProof, Done, Promise!Next, Promise!Reopen, Promise!vars
<1>5. ASSUME NEW h \in Handlers, MarkOrderProvisioning(h) \/ RejectPayment(h)
      PROVE  Goal
  <2>1. /\ handler[h].order \in Orders
        /\ handler[h].attempt \in Attempts
        /\ attempt[handler[h].attempt] \in AttemptRows
        /\ attempt[handler[h].attempt].order = handler[h].order
    BY <1>1, <1>5 DEF MarkOrderProvisioning, RejectPayment, HandlerTyped,
       HandlerSafe, Deciding, Fulfilling
  <2>2. Done' \in {Done, Done \ {handler[h].order}}
    BY <1>1, <1>5, <2>1, DoneAfterSave
    DEF MarkOrderProvisioning, RejectPayment, OrderStatus
  <2>3. Decided' = Decided \cup {handler[h].order}
    BY <1>1, <1>5, <2>1, DecidedBy DEF MarkOrderProvisioning, RejectPayment
  <2> QED
    BY <1>5, <2>1, <2>2, <2>3
    DEF MarkOrderProvisioning, RejectPayment, Done, Promise!Next, Promise!Decide
<1>6. ASSUME NEW h \in Handlers, NEW c \in Configs, CreateConfiguration(h, c)
      PROVE  Goal
  <2>1. handler[h].order \in Orders /\ handler[h].order \in Decided
    BY <1>1, <1>6 DEF CreateConfiguration, HandlerTyped, HandlerSafe, Decided,
       Deciding, Fulfilling, AttemptRows
  <2>2. \A p \in Orders : activation[p] # c
    BY <1>6 DEF CreateConfiguration, Insert, Safe, ActivationSound, Live
  <2>3. Decided' = Decided /\ Done' = Done
    BY <1>6 DEF CreateConfiguration, Insert, Decided, Done
  <2> QED
    BY <1>6, <2>1, <2>2, <2>3
    DEF CreateConfiguration, Insert, Done, Promise!Next, Promise!Activate
<1>7. ASSUME NEW h \in Handlers, MarkOrderFulfilled(h)
      PROVE  Goal
  <2>1. /\ handler[h].order \in Orders
        /\ activation[handler[h].order] # None
    BY <1>1, <1>7 DEF MarkOrderFulfilled, HandlerTyped, HandlerSafe
  <2>2. Done' = Done \/ Done' = Done \cup {handler[h].order}
    <3>1. CASE order' = order
      BY <3>1 DEF Done
    <3>2. CASE order' = [order EXCEPT ![handler[h].order] = "FULFILLED"]
      BY <1>1, <2>1, <3>2 DEF Done, Typed, TypeOK
    <3> QED
      BY <1>7, <3>1, <3>2 DEF MarkOrderFulfilled, Saved
  <2>3. Decided' = Decided
    BY <1>7 DEF MarkOrderFulfilled, Decided
  <2> QED
    BY <1>7, <2>1, <2>2, <2>3
    DEF MarkOrderFulfilled, Done, Promise!Next, Promise!Fulfil, Promise!vars
<1>8. ASSUME NEW h \in Handlers, HandlerStep(h)
      PROVE  Goal
  BY <1>2, <1>4, <1>5, <1>6, <1>7, <1>8
  DEF HandlerStep, ClearState, CheckAttempt, LoadRejectedOrder, SelectNode,
      SelectNode_Raises, NoEligibleNode, FindExisting, AlreadyActivated,
      GetNodeKvWriter_Raises, SyncRefused, ReadMap, WriteMap
<1> QED
  BY <1>2, <1>3, <1>8
  DEF Next, vars, OnDisplayName, PayStars, OnPaymentProof, OnSuccessfulPayment,
      ShowPending, Approve, OnRejectReason, HandlerRaises, Restart

\* The interleaved handlers implement the abstract promise: each order is
\* activated at most once, after a verdict, and fulfilled only after that.
THEOREM Refinement == Spec => ApproveOnce
<1>1. Init => Promise!Init
  BY DEF Init, Promise!Init, Decided
<1> QED
  BY <1>1, PromiseStep, SafeAlways, PTL DEF Spec, ApproveOnce, Promise!Spec
=============================================================================
