-------------------------- MODULE BotDialogProofs ---------------------------
(***************************************************************************)
(* What a dialogue can rely on, for any number of handlers, plans, orders  *)
(* and admins.  A handler that resumes after an await has what it was      *)
(* begun with, and that is a row that is never deleted: so it may set a    *)
(* state late, but never one without its data.                             *)
(***************************************************************************)
EXTENDS BotDialog, TLAPS

\* What a handler that is under way has in hand.
InHand(t) ==
    /\ t.at \in {"card", "find", "insert", "instruct"} => t.plan \in Plans
    /\ t.at \in {"find", "insert"} => t.name \in OrderNames
    /\ t.at \in {"instruct", "invoice", "attach"} => t.order \in Placed
    /\ t.at = "instruct" => order[t.order].plan = t.plan
    /\ t.at \in {"ask", "reject"} => t.attempt \in Sent
    /\ t.at = "panel" => t.dialog \in Dialogs
    /\ t.at \in {"adminId", "add"} => t.id \in Ids

TasksInHand == \A h \in Handlers : InHand(task[h])
PaymentsPlaced == invoiced \subseteq Placed /\ paid \subseteq Placed /\ payments \subseteq Placed

\* The first order of a plan and a minute, once it was paid.
FirstPaid(p, m) == \E o \in First(p, m) : order[o].status # "AWAITING_PAYMENT"

\* Of orders with the plain key there is one, and every other order, made or
\* about to be, came after the payment of that one.
KeysUnique ==
    /\ \A o1, o2 \in Placed :
           order[o1].first /\ order[o2].first /\ order[o1].plan = order[o2].plan
               /\ order[o1].minute = order[o2].minute => o1 = o2
    /\ \A o \in Placed : ~order[o].first => FirstPaid(order[o].plan, order[o].minute)
    /\ \A h \in Handlers : task[h].at = "insert" /\ ~task[h].first
           => FirstPaid(task[h].plan, task[h].minute)

Inv == TypeOK /\ TasksInHand /\ PaymentsPlaced /\ DialogHasData /\ KeysUnique

LEMMA IdleTyped == ASSUME DialogAssumption PROVE Idle \in Tasks
  BY DEF DialogAssumption, Idle, Tasks, Steps, Ways, Minutes

LEMMA EmptyTyped == Empty \in Data
  BY DEF Empty, Data

LEMMA CreatedTyped == ASSUME NEW t \in Tasks, NEW o \in Orders PROVE Created(t, o) \in Tasks
<1>1. CASE t.way = "card"
  <2>1. Created(t, o) = [t EXCEPT !.order = o, !.at = "instruct"]
    BY <1>1 DEF Created
  <2> QED
    BY <2>1 DEF Tasks, Steps
<1>2. CASE t.way # "card"
  <2>1. Created(t, o) = [t EXCEPT !.order = o, !.at = "invoice"]
    BY <1>2 DEF Created
  <2> QED
    BY <2>1 DEF Tasks, Steps
<1> QED
  BY <1>1, <1>2

LEMMA CreatedIs ==
    ASSUME NEW t \in Tasks, NEW o \in Orders
    PROVE  /\ Created(t, o).at \in {"instruct", "invoice"}
           /\ Created(t, o).order = o
           /\ Created(t, o).plan = t.plan
<1>1. CASE t.way = "card"
  BY <1>1 DEF Created, Tasks
<1>2. CASE t.way # "card"
  BY <1>2 DEF Created, Tasks
<1> QED
  BY <1>1, <1>2

LEMMA InvInit == ASSUME DialogAssumption, Init PROVE Inv
<1>1. TypeOK
  BY IdleTyped, EmptyTyped DEF DialogAssumption, Init, TypeOK, States, Minutes
<1>2. Placed = {}
  BY DEF Init, Placed
<1>3. TasksInHand /\ PaymentsPlaced /\ DialogHasData
  BY <1>2 DEF Init, TasksInHand, InHand, Idle, PaymentsPlaced, DialogHasData
<1>4. KeysUnique
  BY <1>2 DEF Init, KeysUnique, Idle
<1> QED
  BY <1>1, <1>3, <1>4 DEF Inv

----------------------------------------------------------------------------
(* The types.                                                              *)

\* Every step keeps the types: a row is written by a handler that has its
\* values in hand.
LEMMA TypeStep ==
    ASSUME DialogAssumption, TypeOK, TasksInHand, [Next]_vars
    PROVE  TypeOK'
<1> USE DEF chat, rows, stars, vars, Clear, Return, Begin, Receive
<1>1. CASE UNCHANGED vars
  BY <1>1 DEF TypeOK
<1>2. ASSUME NEW h \in Handlers, Update(h) \/ HandlerStep(h) \/ HandlerRaises(h)
      PROVE  TypeOK'
  <2>0. InHand(task[h])
    BY DEF Inv, TypeOK, TasksInHand
  <2>1. ASSUME NEW p \in Plans, PayCard(h, p) PROVE TypeOK'
    <3> DEFINE t == [Idle EXCEPT !.at = "card", !.plan = p]
    <3>1. task' = [task EXCEPT ![h] = t]
      BY <2>1 DEF PayCard, TypeOK
    <3>2. t \in Tasks
      BY IdleTyped DEF TypeOK, Data, Dialogs, OrderNames, Tasks, Steps, Ways
    <3> HIDE DEF t
    <3> QED
      BY <2>1, <3>1, <3>2, EmptyTyped DEF PayCard, TypeOK, States
  <2>2. ASSUME NEW p \in Plans, PayStars(h, p) PROVE TypeOK'
    <3> DEFINE t == [Idle EXCEPT !.at = "find", !.way = "stars", !.plan = p,
                          !.name = StarsName, !.minute = minute]
    <3>1. task' = [task EXCEPT ![h] = t]
      BY <2>2 DEF PayStars, TypeOK
    <3>2. t \in Tasks
      BY IdleTyped DEF TypeOK, Data, Dialogs, OrderNames, Tasks, Steps, Ways
    <3> HIDE DEF t
    <3> QED
      BY <2>2, <3>1, <3>2, EmptyTyped DEF PayStars, TypeOK, States
  <2>3. ASSUME NEW n \in Names, OnDisplayName(h, n) PROVE TypeOK'
    <3> DEFINE t == [Idle EXCEPT !.at = "find", !.plan = data.plan, !.name = n,
                          !.minute = minute]
    <3>1. task' = [task EXCEPT ![h] = t]
      BY <2>3 DEF OnDisplayName, TypeOK
    <3>2. t \in Tasks
      BY IdleTyped DEF TypeOK, Data, Dialogs, OrderNames, Tasks, Steps, Ways
    <3> HIDE DEF t
    <3> QED
      BY <2>3, <3>1, <3>2, EmptyTyped DEF OnDisplayName, TypeOK, States
  <2>4. CASE OnPaymentProof(h)
    <3> DEFINE t == [Idle EXCEPT !.at = "attach", !.order = data.order]
    <3>1. task' = [task EXCEPT ![h] = t]
      BY <2>4 DEF OnPaymentProof, TypeOK
    <3>2. t \in Tasks
      BY IdleTyped DEF TypeOK, Data, Dialogs, OrderNames, Tasks, Steps, Ways
    <3> HIDE DEF t
    <3> QED
      BY <2>4, <3>1, <3>2, EmptyTyped DEF OnPaymentProof, TypeOK, States
  <2>5. ASSUME NEW o \in Orders, OnSuccessfulPayment(h, o) PROVE TypeOK'
    <3> DEFINE t == [Idle EXCEPT !.at = "attach", !.way = "stars", !.order = o]
    <3>1. task' = [task EXCEPT ![h] = t]
      BY <2>5 DEF OnSuccessfulPayment, TypeOK
    <3>2. t \in Tasks
      BY IdleTyped DEF TypeOK, Data, Dialogs, OrderNames, Tasks, Steps, Ways
    <3> HIDE DEF t
    <3> QED
      BY <2>5, <3>1, <3>2, EmptyTyped DEF OnSuccessfulPayment, TypeOK, States
  <2>6. ASSUME NEW a \in Attempts, CbReviewReject(h, a) PROVE TypeOK'
    <3> DEFINE t == [Idle EXCEPT !.at = "ask", !.attempt = a]
    <3>1. task' = [task EXCEPT ![h] = t]
      BY <2>6 DEF CbReviewReject, TypeOK
    <3>2. t \in Tasks
      BY IdleTyped DEF TypeOK, Data, Dialogs, OrderNames, Tasks, Steps, Ways
    <3> HIDE DEF t
    <3> QED
      BY <2>6, <3>1, <3>2, EmptyTyped DEF CbReviewReject, TypeOK, States
  <2>7. ASSUME NEW d \in Dialogs, CbAdminPanel(h, d) PROVE TypeOK'
    <3> DEFINE t == [Idle EXCEPT !.at = "panel", !.dialog = d]
    <3>1. task' = [task EXCEPT ![h] = t]
      BY <2>7 DEF CbAdminPanel, TypeOK
    <3>2. t \in Tasks
      BY IdleTyped DEF TypeOK, Data, Dialogs, OrderNames, Tasks, Steps, Ways
    <3> HIDE DEF t
    <3> QED
      BY <2>7, <3>1, <3>2, EmptyTyped DEF CbAdminPanel, TypeOK, States
  <2>8. ASSUME NEW msg \in Orders \cup {None}, OnRejectReason(h, msg) PROVE TypeOK'
    <3> DEFINE t == [Idle EXCEPT !.at = "reject", !.attempt = data.reject]
    <3>1. task' = [task EXCEPT ![h] = t]
      BY <2>8 DEF OnRejectReason, TypeOK
    <3>2. t \in Tasks
      BY IdleTyped DEF TypeOK, Data, Dialogs, OrderNames, Tasks, Steps, Ways
    <3> HIDE DEF t
    <3> QED
      BY <2>8, <3>1, <3>2, EmptyTyped DEF OnRejectReason, TypeOK, States
  <2>9. ASSUME NEW i \in Ids, OnAdminTelegramId(h, i) PROVE TypeOK'
    <3> DEFINE t == [Idle EXCEPT !.at = "adminId", !.id = i]
    <3>1. task' = [task EXCEPT ![h] = t]
      BY <2>9 DEF OnAdminTelegramId, TypeOK
    <3>2. t \in Tasks
      BY IdleTyped DEF TypeOK, Data, Dialogs, OrderNames, Tasks, Steps, Ways
    <3> HIDE DEF t
    <3> QED
      BY <2>9, <3>1, <3>2, EmptyTyped DEF OnAdminTelegramId, TypeOK, States
  <2>10. CASE AdminPanelEntry(h)
    <3> DEFINE t == [Idle EXCEPT !.at = "clear"]
    <3>1. task' = [task EXCEPT ![h] = t]
      BY <2>10 DEF AdminPanelEntry, TypeOK
    <3>2. t \in Tasks
      BY IdleTyped DEF TypeOK, Data, Dialogs, OrderNames, Tasks, Steps, Ways
    <3> HIDE DEF t
    <3> QED
      BY <2>10, <3>1, <3>2, EmptyTyped DEF AdminPanelEntry, TypeOK, States
  <2>11. CASE OnAdminRole(h)
    <3> DEFINE t == [Idle EXCEPT !.at = "role"]
    <3>1. task' = [task EXCEPT ![h] = t]
      BY <2>11 DEF OnAdminRole, TypeOK
    <3>2. t \in Tasks
      BY IdleTyped DEF TypeOK, Data, Dialogs, OrderNames, Tasks, Steps, Ways
    <3> HIDE DEF t
    <3> QED
      BY <2>11, <3>1, <3>2, EmptyTyped DEF OnAdminRole, TypeOK, States
  <2>12. CASE CardReady(h)
    <3>1. data' \in Data
      BY <2>12 DEF CardReady, TypeOK, Data, Tasks
    <3> QED
      BY <2>12, <2>0, <3>1, IdleTyped
      DEF CardReady, TypeOK, States, InHand, Dialogs, AskedFor
  <2>13. CASE FindOrder(h)
    <3>1. /\ [task[h] EXCEPT !.at = "insert"] \in Tasks
          /\ [task[h] EXCEPT !.at = "insert", !.first = TRUE] \in Tasks
      BY DEF TypeOK, Tasks, Steps
    <3>2. PICK t \in Tasks : task' = [task EXCEPT ![h] = t]
      <4>1. ASSUME NEW o \in First(task[h].plan, task[h].minute),
                   task' = [task EXCEPT ![h] =
                       IF order[o].status = "AWAITING_PAYMENT"
                       THEN Created(task[h], o) ELSE [task[h] EXCEPT !.at = "insert"]]
            PROVE  \E t \in Tasks : task' = [task EXCEPT ![h] = t]
        <5>1. o \in Orders
          BY <4>1 DEF First, Placed
        <5> QED
          BY <4>1, <5>1, <3>1, CreatedTyped DEF TypeOK
      <4>2. CASE task' = [task EXCEPT ![h] = [task[h] EXCEPT !.at = "insert", !.first = TRUE]]
        BY <4>2, <3>1
      <4> QED
        BY <2>13, <4>1, <4>2 DEF FindOrder, TypeOK
    <3> QED
      BY <2>13, <3>2 DEF FindOrder, TypeOK
  <2>14. ASSUME NEW o \in Orders, InsertOrder(h, o) PROVE TypeOK'
    <3> DEFINE t == Created(task[h], o)
    <3>1. task' = [task EXCEPT ![h] = t]
      BY <2>14 DEF InsertOrder, Insert, TypeOK
    <3>2. t \in Tasks
      BY CreatedTyped DEF TypeOK
    <3> HIDE DEF t
    <3>3. order' \in [Orders -> OrderRows \cup {None}]
      BY <2>14, <2>0 DEF InsertOrder, Insert, TypeOK, OrderRows, InHand, Tasks
    <3> QED
      BY <2>14, <3>1, <3>2, <3>3, EmptyTyped DEF InsertOrder, Insert, TypeOK, States
  <2>15. CASE InsertRefused(h)
    BY <2>15, <2>0, IdleTyped, EmptyTyped DEF InsertRefused, TypeOK, InHand, Placed, States
  <2>16. CASE Instruct(h)
    <3>1. data' \in Data
      BY <2>16 DEF Instruct, TypeOK, Data, Tasks
    <3> QED
      BY <2>16, <2>0, <3>1, IdleTyped
      DEF Instruct, TypeOK, States, InHand, Dialogs, AskedFor
  <2>17. CASE SendInvoice(h)
    BY <2>17, <2>0, IdleTyped, EmptyTyped DEF SendInvoice, TypeOK, InHand, Placed, States
  <2>18. ASSUME NEW a \in Attempts, AttachPaymentProof(h, a) PROVE TypeOK'
    <3>1. task[h].order \in Orders /\ order[task[h].order] \in OrderRows
      BY <2>18, <2>0 DEF AttachPaymentProof, InHand, Placed, TypeOK
    <3>2. order' \in [Orders -> OrderRows \cup {None}]
      BY <2>18, <3>1 DEF AttachPaymentProof, TypeOK, OrderRows
    <3>3. task[h].way \in Ways
      BY DEF TypeOK, Tasks
    <3>4. attempt' \in [Attempts -> AttemptRows \cup {None}]
      BY <2>18, <3>1, <3>3 DEF AttachPaymentProof, TypeOK, AttemptRows
    <3>5. [task[h] EXCEPT !.at = "clear"] \in Tasks
      BY DEF TypeOK, Tasks, Steps
    <3>6. task' \in [Handlers -> Tasks]
      BY <2>18, <3>5, IdleTyped DEF AttachPaymentProof, TypeOK
    <3> QED
      BY <2>18, <3>2, <3>4, <3>6 DEF AttachPaymentProof, TypeOK
  <2>19. CASE ClearLate(h)
    BY <2>19, <2>0, IdleTyped, EmptyTyped DEF ClearLate, TypeOK, InHand, Placed, States
  <2>20. CASE AskReason(h)
    <3>1. data' \in Data
      BY <2>20 DEF AskReason, TypeOK, Data, Tasks
    <3> QED
      BY <2>20, <2>0, <3>1, IdleTyped
      DEF AskReason, TypeOK, States, InHand, Dialogs, AskedFor
  <2>21. CASE OpenDialog(h)
    <3>1. data' \in Data
      BY <2>21 DEF OpenDialog, TypeOK, Data, Tasks
    <3> QED
      BY <2>21, <2>0, <3>1, IdleTyped
      DEF OpenDialog, TypeOK, States, InHand, Dialogs, AskedFor
  <2>22. CASE RejectPayment(h)
    <3>1. task[h].attempt \in Attempts /\ attempt[task[h].attempt] \in AttemptRows
      BY <2>22, <2>0 DEF RejectPayment, InHand, Sent, TypeOK
    <3>2. attempt' \in [Attempts -> AttemptRows \cup {None}]
      BY <2>22, <3>1 DEF RejectPayment, TypeOK, AttemptRows
    <3> QED
      BY <2>22, <3>2, IdleTyped DEF RejectPayment, TypeOK
  <2>23. CASE AlreadyReviewed(h)
    BY <2>23, <2>0, IdleTyped, EmptyTyped
    DEF AlreadyReviewed, TypeOK, InHand, Placed, States
  <2>24. CASE AskRole(h)
    <3>1. data' \in Data
      BY <2>24 DEF AskRole, TypeOK, Data, Tasks
    <3> QED
      BY <2>24, <2>0, <3>1, IdleTyped DEF AskRole, TypeOK, States, InHand, Dialogs, AskedFor
  <2>25. CASE TakeNewAdmin(h)
    <3>1. [Idle EXCEPT !.at = "add", !.id = data.newAdmin] \in Tasks
      BY IdleTyped DEF TypeOK, Data, Tasks, Steps
    <3>2. task' \in [Handlers -> Tasks]
      BY <2>25, <3>1, IdleTyped DEF TakeNewAdmin, TypeOK
    <3> QED
      BY <2>25, <3>2, EmptyTyped DEF TakeNewAdmin, TypeOK, States
  <2>26. CASE AddAdmin(h)
    BY <2>26, <2>0, IdleTyped, EmptyTyped DEF AddAdmin, TypeOK, InHand, Placed, States
  <2>27. CASE HandlerRaises(h)
    BY <2>27, IdleTyped DEF HandlerRaises, Unanswered, TypeOK
  <2> QED
    BY <1>2, <2>1, <2>2, <2>3, <2>4, <2>5, <2>6, <2>7, <2>8, <2>9, <2>10, <2>11, <2>12,
       <2>13, <2>14, <2>15, <2>16, <2>17, <2>18, <2>19, <2>20, <2>21, <2>22, <2>23,
       <2>24, <2>25, <2>26, <2>27
    DEF Update, HandlerStep
<1>3. CASE Menu
  BY <1>3, IdleTyped, EmptyTyped DEF Menu, TypeOK, States, Minutes, Unanswered
<1>4. CASE Restart
  BY <1>4, IdleTyped, EmptyTyped DEF Restart, TypeOK, States, Minutes, Unanswered
<1>5. CASE NextMinute
  BY <1>5, DialogAssumption, IdleTyped, EmptyTyped
  DEF DialogAssumption, NextMinute, TypeOK, States, Minutes, Unanswered
<1>6. ASSUME NEW msg \in Orders \cup {None}, OnTestCustomer(msg) PROVE TypeOK'
  BY <1>6, IdleTyped, EmptyTyped DEF OnTestCustomer, TypeOK, States, Minutes, Unanswered
<1>7. ASSUME NEW msg \in Orders \cup {None}, OnNodeName(msg) PROVE TypeOK'
  BY <1>7, IdleTyped, EmptyTyped DEF OnNodeName, TypeOK, States, Minutes, Unanswered
<1>8. ASSUME NEW o \in Orders, PayInvoice(o) PROVE TypeOK'
  BY <1>8, IdleTyped, EmptyTyped DEF PayInvoice, TypeOK, States, Minutes, Unanswered
<1>9. ASSUME NEW o \in Orders, AskAgain(o) PROVE TypeOK'
  BY <1>9, IdleTyped, EmptyTyped DEF AskAgain, TypeOK, States, Minutes, Unanswered
<1> QED
  BY <1>1, <1>2, <1>3, <1>4, <1>5, <1>6, <1>7, <1>8, <1>9 DEF Next

----------------------------------------------------------------------------
(* Rows stay, with what a handler may have read of them.                   *)

RowsGrow ==
    /\ \A o \in Placed :
           /\ order'[o] # None
           /\ order'[o].plan = order[o].plan
           /\ order'[o].minute = order[o].minute
           /\ order'[o].first = order[o].first
           /\ order[o].status # "AWAITING_PAYMENT" => order'[o].status # "AWAITING_PAYMENT"
    /\ Sent \subseteq Sent'

\* No step takes a row back, or changes the plan and the key of an order.
LEMMA RowsStep ==
    ASSUME DialogAssumption, TypeOK, TasksInHand, [Next]_vars
    PROVE  RowsGrow
<1> USE DEF chat, rows, stars, vars, Clear, Return, Begin, Receive
<1>1. CASE UNCHANGED vars
  BY <1>1 DEF RowsGrow, Placed, Sent
<1>2. ASSUME NEW h \in Handlers, Update(h) \/ HandlerStep(h) \/ HandlerRaises(h)
      PROVE  RowsGrow
  <2>0. InHand(task[h])
    BY DEF Inv, TypeOK, TasksInHand
  <2>1. ASSUME NEW p \in Plans, PayCard(h, p) PROVE RowsGrow
    BY <2>1 DEF RowsGrow, Placed, Sent, PayCard
  <2>2. ASSUME NEW p \in Plans, PayStars(h, p) PROVE RowsGrow
    BY <2>2 DEF RowsGrow, Placed, Sent, PayStars
  <2>3. ASSUME NEW n \in Names, OnDisplayName(h, n) PROVE RowsGrow
    BY <2>3 DEF RowsGrow, Placed, Sent, OnDisplayName
  <2>4. CASE OnPaymentProof(h)
    BY <2>4 DEF RowsGrow, Placed, Sent, OnPaymentProof
  <2>5. ASSUME NEW o \in Orders, OnSuccessfulPayment(h, o) PROVE RowsGrow
    BY <2>5 DEF RowsGrow, Placed, Sent, OnSuccessfulPayment
  <2>6. ASSUME NEW a \in Attempts, CbReviewReject(h, a) PROVE RowsGrow
    BY <2>6 DEF RowsGrow, Placed, Sent, CbReviewReject
  <2>7. ASSUME NEW d \in Dialogs, CbAdminPanel(h, d) PROVE RowsGrow
    BY <2>7 DEF RowsGrow, Placed, Sent, CbAdminPanel
  <2>8. ASSUME NEW msg \in Orders \cup {None}, OnRejectReason(h, msg) PROVE RowsGrow
    BY <2>8 DEF RowsGrow, Placed, Sent, OnRejectReason
  <2>9. ASSUME NEW i \in Ids, OnAdminTelegramId(h, i) PROVE RowsGrow
    BY <2>9 DEF RowsGrow, Placed, Sent, OnAdminTelegramId
  <2>10. CASE AdminPanelEntry(h)
    BY <2>10 DEF RowsGrow, Placed, Sent, AdminPanelEntry
  <2>11. CASE OnAdminRole(h)
    BY <2>11 DEF RowsGrow, Placed, Sent, OnAdminRole
  <2>12. CASE CardReady(h)
    BY <2>12 DEF RowsGrow, Placed, Sent, CardReady
  <2>13. CASE FindOrder(h)
    BY <2>13 DEF RowsGrow, Placed, Sent, FindOrder
  <2>14. ASSUME NEW o \in Orders, InsertOrder(h, o) PROVE RowsGrow
    BY <2>14 DEF InsertOrder, Insert, TypeOK, RowsGrow, Placed, Sent
  <2>15. CASE InsertRefused(h)
    BY <2>15 DEF RowsGrow, Placed, Sent, InsertRefused
  <2>16. CASE Instruct(h)
    BY <2>16 DEF RowsGrow, Placed, Sent, Instruct
  <2>17. CASE SendInvoice(h)
    BY <2>17 DEF RowsGrow, Placed, Sent, SendInvoice
  <2>18. ASSUME NEW a \in Attempts, AttachPaymentProof(h, a) PROVE RowsGrow
    <3>1. task[h].order \in Orders /\ order[task[h].order] \in OrderRows
      BY <2>18, <2>0 DEF AttachPaymentProof, InHand, Placed, TypeOK
    <3> DEFINE row == [order[task[h].order] EXCEPT !.status = "PAID"]
    <3>2. order' = [order EXCEPT ![task[h].order] = row]
      BY <2>18 DEF AttachPaymentProof
    <3>3. /\ row \in OrderRows
          /\ row.plan = order[task[h].order].plan
          /\ row.minute = order[task[h].order].minute
          /\ row.first = order[task[h].order].first
          /\ row.status = "PAID"
      BY <3>1 DEF OrderRows
    <3> HIDE DEF row
    <3>4. \A x \in Attempts : attempt[x] # None => attempt'[x] # None
      BY <2>18 DEF AttachPaymentProof, TypeOK
    <3>5. \A x \in Placed : order'[x] # None
      BY <3>1, <3>2, <3>3, DialogAssumption DEF DialogAssumption, Placed, TypeOK
    <3>6. \A x \in Placed : /\ order'[x].plan = order[x].plan
                            /\ order'[x].minute = order[x].minute
                            /\ order'[x].first = order[x].first
                            /\ order[x].status # "AWAITING_PAYMENT"
                               => order'[x].status # "AWAITING_PAYMENT"
      BY <3>1, <3>2, <3>3 DEF Placed, TypeOK
    <3> QED
      BY <3>4, <3>5, <3>6 DEF RowsGrow, Sent
  <2>19. CASE ClearLate(h)
    BY <2>19 DEF RowsGrow, Placed, Sent, ClearLate
  <2>20. CASE AskReason(h)
    BY <2>20 DEF RowsGrow, Placed, Sent, AskReason
  <2>21. CASE OpenDialog(h)
    BY <2>21 DEF RowsGrow, Placed, Sent, OpenDialog
  <2>22. CASE RejectPayment(h)
    <3>1. task[h].attempt \in Attempts /\ attempt[task[h].attempt] \in AttemptRows
      BY <2>22, <2>0 DEF RejectPayment, InHand, Sent, TypeOK
    <3>2. [attempt[task[h].attempt] EXCEPT !.status = "REJECTED"] \in AttemptRows
      BY <3>1 DEF AttemptRows
    <3>3. \A x \in Attempts : attempt[x] # None => attempt'[x] # None
      BY <2>22, <3>1, <3>2, DialogAssumption DEF DialogAssumption, RejectPayment, TypeOK
    <3> QED
      BY <2>22, <3>3 DEF RejectPayment, RowsGrow, Placed, Sent
  <2>23. CASE AlreadyReviewed(h)
    BY <2>23 DEF RowsGrow, Placed, Sent, AlreadyReviewed
  <2>24. CASE AskRole(h)
    BY <2>24 DEF RowsGrow, Placed, Sent, AskRole
  <2>25. CASE TakeNewAdmin(h)
    BY <2>25 DEF RowsGrow, Placed, Sent, TakeNewAdmin
  <2>26. CASE AddAdmin(h)
    BY <2>26 DEF RowsGrow, Placed, Sent, AddAdmin
  <2>27. CASE HandlerRaises(h)
    BY <2>27 DEF RowsGrow, Placed, Sent, HandlerRaises
  <2> QED
    BY <1>2, <2>1, <2>2, <2>3, <2>4, <2>5, <2>6, <2>7, <2>8, <2>9, <2>10, <2>11, <2>12,
       <2>13, <2>14, <2>15, <2>16, <2>17, <2>18, <2>19, <2>20, <2>21, <2>22, <2>23,
       <2>24, <2>25, <2>26, <2>27
    DEF Update, HandlerStep
<1>3. CASE Menu
  BY <1>3 DEF RowsGrow, Placed, Sent, Menu
<1>4. CASE Restart
  BY <1>4 DEF RowsGrow, Placed, Sent, Restart
<1>5. CASE NextMinute
  BY <1>5 DEF RowsGrow, Placed, Sent, NextMinute
<1>6. ASSUME NEW msg \in Orders \cup {None}, OnTestCustomer(msg) PROVE RowsGrow
  BY <1>6 DEF RowsGrow, Placed, Sent, OnTestCustomer
<1>7. ASSUME NEW msg \in Orders \cup {None}, OnNodeName(msg) PROVE RowsGrow
  BY <1>7 DEF RowsGrow, Placed, Sent, OnNodeName
<1>8. ASSUME NEW o \in Orders, PayInvoice(o) PROVE RowsGrow
  BY <1>8 DEF RowsGrow, Placed, Sent, PayInvoice
<1>9. ASSUME NEW o \in Orders, AskAgain(o) PROVE RowsGrow
  BY <1>9 DEF RowsGrow, Placed, Sent, AskAgain
<1> QED
  BY <1>1, <1>2, <1>3, <1>4, <1>5, <1>6, <1>7, <1>8, <1>9 DEF Next

----------------------------------------------------------------------------
(* What handlers have in hand.                                             *)

\* Rows that stay leave a handler what it has.
LEMMA KeptInHand ==
    ASSUME TypeOK, RowsGrow, NEW g \in Handlers, InHand(task[g]), task'[g] = task[g]
    PROVE  InHand(task[g])'
<1>1. task[g].order \in Placed => task[g].order \in Placed' /\ order'[task[g].order].plan = order[task[g].order].plan
  BY DEF RowsGrow, Placed
<1> QED
  BY <1>1 DEF InHand, RowsGrow

LEMMA OneInHand ==
    ASSUME TypeOK, TasksInHand, RowsGrow, NEW h \in Handlers,
           \A g \in Handlers \ {h} : task'[g] = task[g], InHand(task[h])'
    PROVE  TasksInHand'
  BY KeptInHand DEF TasksInHand

LEMMA NoneMoves == ASSUME TypeOK, TasksInHand, RowsGrow, task' = task PROVE TasksInHand'
  BY KeptInHand DEF TasksInHand

\* A handler is begun with what it needs, and resumes with it.
LEMMA TasksStep ==
    ASSUME DialogAssumption, Inv, TypeOK, TasksInHand, DialogHasData, PaymentsPlaced, RowsGrow, [Next]_vars
    PROVE  TasksInHand'
<1> USE DEF chat, rows, stars, vars, Clear, Return, Begin, Receive
<1>1. CASE UNCHANGED vars
  BY <1>1, NoneMoves
<1>2. ASSUME NEW h \in Handlers, Update(h) \/ HandlerStep(h) \/ HandlerRaises(h)
      PROVE  TasksInHand'
  <2>0. InHand(task[h])
    BY DEF Inv, TypeOK, TasksInHand
  <2>1. ASSUME NEW p \in Plans, PayCard(h, p) PROVE TasksInHand'
    <3>1. \A g \in Handlers \ {h} : task'[g] = task[g]
      BY <2>1 DEF PayCard, TypeOK
    <3>2. task'[h] = [Idle EXCEPT !.at = "card", !.plan = p]
      BY <2>1 DEF PayCard, TypeOK
    <3>3. InHand(task[h])'
      BY <2>1, <3>2, DialogAssumption
      DEF DialogAssumption, PayCard, InHand, Idle, TypeOK, Data
    <3> QED
      BY <3>1, <3>3, OneInHand
  <2>2. ASSUME NEW p \in Plans, PayStars(h, p) PROVE TasksInHand'
    <3>1. \A g \in Handlers \ {h} : task'[g] = task[g]
      BY <2>2 DEF PayStars, TypeOK
    <3>2. task'[h] = [Idle EXCEPT !.at = "find", !.way = "stars", !.plan = p,
                          !.name = StarsName, !.minute = minute]
      BY <2>2 DEF PayStars, TypeOK
    <3>3. InHand(task[h])'
      BY <2>2, <3>2, DialogAssumption
      DEF DialogAssumption, PayStars, InHand, Idle, TypeOK, Data, OrderNames
    <3> QED
      BY <3>1, <3>3, OneInHand
  <2>3. ASSUME NEW n \in Names, OnDisplayName(h, n) PROVE TasksInHand'
    <3>1. \A g \in Handlers \ {h} : task'[g] = task[g]
      BY <2>3 DEF OnDisplayName, TypeOK
    <3>2. task'[h] = [Idle EXCEPT !.at = "find", !.plan = data.plan, !.name = n,
                          !.minute = minute]
      BY <2>3 DEF OnDisplayName, TypeOK
    <3>3. InHand(task[h])'
      BY <2>3, <3>2, DialogAssumption
      DEF DialogAssumption, OnDisplayName, InHand, Idle, TypeOK, Data, DialogHasData,
          OrderNames
    <3> QED
      BY <3>1, <3>3, OneInHand
  <2>4. CASE OnPaymentProof(h)
    <3>1. \A g \in Handlers \ {h} : task'[g] = task[g]
      BY <2>4 DEF OnPaymentProof, TypeOK
    <3>2. task'[h] = [Idle EXCEPT !.at = "attach", !.order = data.order]
      BY <2>4 DEF OnPaymentProof, TypeOK
    <3>3. InHand(task[h])'
      BY <2>4, <3>2, DialogAssumption
      DEF DialogAssumption, OnPaymentProof, InHand, Idle, TypeOK, Data, DialogHasData,
          RowsGrow, Placed
    <3> QED
      BY <3>1, <3>3, OneInHand
  <2>5. ASSUME NEW o \in Orders, OnSuccessfulPayment(h, o) PROVE TasksInHand'
    <3>1. \A g \in Handlers \ {h} : task'[g] = task[g]
      BY <2>5 DEF OnSuccessfulPayment, TypeOK
    <3>2. task'[h] = [Idle EXCEPT !.at = "attach", !.way = "stars", !.order = o]
      BY <2>5 DEF OnSuccessfulPayment, TypeOK
    <3>3. InHand(task[h])'
      BY <2>5, <3>2, DialogAssumption
      DEF DialogAssumption, OnSuccessfulPayment, InHand, Idle, TypeOK, Data,
          PaymentsPlaced, RowsGrow, Placed
    <3> QED
      BY <3>1, <3>3, OneInHand
  <2>6. ASSUME NEW a \in Attempts, CbReviewReject(h, a) PROVE TasksInHand'
    <3>1. \A g \in Handlers \ {h} : task'[g] = task[g]
      BY <2>6 DEF CbReviewReject, TypeOK
    <3>2. task'[h] = [Idle EXCEPT !.at = "ask", !.attempt = a]
      BY <2>6 DEF CbReviewReject, TypeOK
    <3>3. InHand(task[h])'
      BY <2>6, <3>2, DialogAssumption
      DEF DialogAssumption, CbReviewReject, InHand, Idle, TypeOK, Data, RowsGrow
    <3> QED
      BY <3>1, <3>3, OneInHand
  <2>7. ASSUME NEW d \in Dialogs, CbAdminPanel(h, d) PROVE TasksInHand'
    <3>1. \A g \in Handlers \ {h} : task'[g] = task[g]
      BY <2>7 DEF CbAdminPanel, TypeOK
    <3>2. task'[h] = [Idle EXCEPT !.at = "panel", !.dialog = d]
      BY <2>7 DEF CbAdminPanel, TypeOK
    <3>3. InHand(task[h])'
      BY <2>7, <3>2, DialogAssumption
      DEF DialogAssumption, CbAdminPanel, InHand, Idle, TypeOK, Data
    <3> QED
      BY <3>1, <3>3, OneInHand
  <2>8. ASSUME NEW msg \in Orders \cup {None}, OnRejectReason(h, msg) PROVE TasksInHand'
    <3>1. \A g \in Handlers \ {h} : task'[g] = task[g]
      BY <2>8 DEF OnRejectReason, TypeOK
    <3>2. task'[h] = [Idle EXCEPT !.at = "reject", !.attempt = data.reject]
      BY <2>8 DEF OnRejectReason, TypeOK
    <3>3. InHand(task[h])'
      BY <2>8, <3>2, DialogAssumption
      DEF DialogAssumption, OnRejectReason, InHand, Idle, TypeOK, Data, DialogHasData,
          RowsGrow
    <3> QED
      BY <3>1, <3>3, OneInHand
  <2>9. ASSUME NEW i \in Ids, OnAdminTelegramId(h, i) PROVE TasksInHand'
    <3>1. \A g \in Handlers \ {h} : task'[g] = task[g]
      BY <2>9 DEF OnAdminTelegramId, TypeOK
    <3>2. task'[h] = [Idle EXCEPT !.at = "adminId", !.id = i]
      BY <2>9 DEF OnAdminTelegramId, TypeOK
    <3>3. InHand(task[h])'
      BY <2>9, <3>2, DialogAssumption
      DEF DialogAssumption, OnAdminTelegramId, InHand, Idle, TypeOK, Data
    <3> QED
      BY <3>1, <3>3, OneInHand
  <2>10. CASE AdminPanelEntry(h)
    <3>1. \A g \in Handlers \ {h} : task'[g] = task[g]
      BY <2>10 DEF AdminPanelEntry, TypeOK
    <3>2. task'[h] = [Idle EXCEPT !.at = "clear"]
      BY <2>10 DEF AdminPanelEntry, TypeOK
    <3>3. InHand(task[h])'
      BY <2>10, <3>2, DialogAssumption
      DEF DialogAssumption, AdminPanelEntry, InHand, Idle, TypeOK, Data
    <3> QED
      BY <3>1, <3>3, OneInHand
  <2>11. CASE OnAdminRole(h)
    <3>1. \A g \in Handlers \ {h} : task'[g] = task[g]
      BY <2>11 DEF OnAdminRole, TypeOK
    <3>2. task'[h] = [Idle EXCEPT !.at = "role"]
      BY <2>11 DEF OnAdminRole, TypeOK
    <3>3. InHand(task[h])'
      BY <2>11, <3>2, DialogAssumption
      DEF DialogAssumption, OnAdminRole, InHand, Idle, TypeOK, Data
    <3> QED
      BY <3>1, <3>3, OneInHand
  <2>12. CASE CardReady(h)
    <3>1. task'[h].at = "idle" /\ \A g \in Handlers \ {h} : task'[g] = task[g]
      BY <2>12 DEF CardReady, TypeOK, Idle
    <3> QED
      BY <3>1, OneInHand DEF InHand
  <2>13. CASE FindOrder(h)
    <3>1. \A g \in Handlers \ {h} : task'[g] = task[g]
      BY <2>13 DEF FindOrder, TypeOK
    <3>0. task[h].at = "find"
      BY <2>13 DEF FindOrder
    <3>2. ASSUME NEW o \in First(task[h].plan, task[h].minute),
                 task' = [task EXCEPT ![h] =
                     IF order[o].status = "AWAITING_PAYMENT"
                     THEN Created(task[h], o) ELSE [task[h] EXCEPT !.at = "insert"]]
          PROVE  InHand(task[h])'
      <4>1. o \in Orders /\ o \in Placed /\ order[o].plan = task[h].plan
        BY <3>2 DEF First, Placed
      <4>2. order'[o] # None /\ order'[o].plan = order[o].plan
        BY <4>1 DEF RowsGrow
      <4>3. CASE order[o].status = "AWAITING_PAYMENT"
        <5>1. task'[h] = Created(task[h], o)
          BY <3>2, <4>3 DEF TypeOK
        <5> QED
          <6>1. /\ task'[h].at \in {"instruct", "invoice"}
                /\ task'[h].order = o /\ task'[h].plan = task[h].plan
            BY <5>1, <4>1, CreatedIs DEF TypeOK
          <6> QED
            BY <6>1, <4>1, <4>2, <3>0, <2>0 DEF InHand, Placed
      <4>4. CASE order[o].status # "AWAITING_PAYMENT"
        <5>1. task'[h] = [task[h] EXCEPT !.at = "insert"]
          BY <3>2, <4>4 DEF TypeOK
        <5> QED
          BY <2>13, <5>1, <2>0 DEF TypeOK, Tasks, InHand, FindOrder
      <4> QED
        BY <4>3, <4>4
    <3>3. CASE task' = [task EXCEPT ![h] = [task[h] EXCEPT !.at = "insert", !.first = TRUE]]
      <4>1. task'[h] = [task[h] EXCEPT !.at = "insert", !.first = TRUE]
        BY <3>3 DEF TypeOK
      <4> QED
        <5>1. /\ task'[h].at = "insert"
              /\ task'[h].plan = task[h].plan /\ task'[h].name = task[h].name
          BY <4>1 DEF TypeOK, Tasks
        <5>2. task[h].plan \in Plans /\ task[h].name \in OrderNames
          BY <3>0, <2>0 DEF InHand
        <5> QED
          BY <3>1, <5>1, <5>2, OneInHand DEF InHand
    <3> QED
      BY <2>13, <3>1, <3>2, <3>3, OneInHand DEF FindOrder
  <2>14. ASSUME NEW o \in Orders, InsertOrder(h, o) PROVE TasksInHand'
    <3>1. \A g \in Handlers \ {h} : task'[g] = task[g]
      BY <2>14 DEF InsertOrder, Insert, TypeOK
    <3>2. task'[h] = Created(task[h], o)
      BY <2>14 DEF InsertOrder, Insert, TypeOK
    <3>3. order'[o] \in OrderRows /\ order'[o].plan = task[h].plan
      BY <2>14, <2>0 DEF InsertOrder, Insert, TypeOK, InHand, OrderRows, Tasks
    <3>4. o \in Placed'
      BY <3>3, DialogAssumption DEF DialogAssumption, Placed
    <3>5. InHand(task[h])'
      <4>1. /\ task'[h].at \in {"instruct", "invoice"}
            /\ task'[h].order = o /\ task'[h].plan = task[h].plan
        BY <3>2, CreatedIs DEF TypeOK
      <4> QED
        BY <2>14, <2>0, <4>1, <3>3, <3>4 DEF InsertOrder, InHand
    <3> QED
      BY <3>1, <3>5, OneInHand
  <2>15. CASE InsertRefused(h)
    <3>1. task'[h].at = "idle" /\ \A g \in Handlers \ {h} : task'[g] = task[g]
      BY <2>15 DEF InsertRefused, TypeOK, Idle
    <3> QED
      BY <3>1, OneInHand DEF InHand
  <2>16. CASE Instruct(h)
    <3>1. task'[h].at = "idle" /\ \A g \in Handlers \ {h} : task'[g] = task[g]
      BY <2>16 DEF Instruct, TypeOK, Idle
    <3> QED
      BY <3>1, OneInHand DEF InHand
  <2>17. CASE SendInvoice(h)
    <3>1. task'[h].at = "idle" /\ \A g \in Handlers \ {h} : task'[g] = task[g]
      BY <2>17 DEF SendInvoice, TypeOK, Idle
    <3> QED
      BY <3>1, OneInHand DEF InHand
  <2>18. ASSUME NEW a \in Attempts, AttachPaymentProof(h, a) PROVE TasksInHand'
    <3>1. \A g \in Handlers \ {h} : task'[g] = task[g]
      BY <2>18 DEF AttachPaymentProof, TypeOK
    <3>2. task'[h].at \in {"clear", "idle"}
      BY <2>18 DEF AttachPaymentProof, TypeOK, Tasks, Idle
    <3> QED
      BY <2>18, <3>1, <3>2, OneInHand DEF InHand
  <2>19. CASE ClearLate(h)
    <3>1. task'[h].at = "idle" /\ \A g \in Handlers \ {h} : task'[g] = task[g]
      BY <2>19 DEF ClearLate, TypeOK, Idle
    <3> QED
      BY <3>1, OneInHand DEF InHand
  <2>20. CASE AskReason(h)
    <3>1. task'[h].at = "idle" /\ \A g \in Handlers \ {h} : task'[g] = task[g]
      BY <2>20 DEF AskReason, TypeOK, Idle
    <3> QED
      BY <3>1, OneInHand DEF InHand
  <2>21. CASE OpenDialog(h)
    <3>1. task'[h].at = "idle" /\ \A g \in Handlers \ {h} : task'[g] = task[g]
      BY <2>21 DEF OpenDialog, TypeOK, Idle
    <3> QED
      BY <3>1, OneInHand DEF InHand
  <2>22. CASE RejectPayment(h)
    <3>1. task'[h].at = "idle" /\ \A g \in Handlers \ {h} : task'[g] = task[g]
      BY <2>22 DEF RejectPayment, TypeOK, Idle
    <3> QED
      BY <3>1, OneInHand DEF InHand
  <2>23. CASE AlreadyReviewed(h)
    <3>1. task'[h].at = "idle" /\ \A g \in Handlers \ {h} : task'[g] = task[g]
      BY <2>23 DEF AlreadyReviewed, TypeOK, Idle
    <3> QED
      BY <3>1, OneInHand DEF InHand
  <2>24. CASE AskRole(h)
    <3>1. task'[h].at = "idle" /\ \A g \in Handlers \ {h} : task'[g] = task[g]
      BY <2>24 DEF AskRole, TypeOK, Idle
    <3> QED
      BY <3>1, OneInHand DEF InHand
  <2>25. CASE TakeNewAdmin(h)
    <3>1. \A g \in Handlers \ {h} : task'[g] = task[g]
      BY <2>25 DEF TakeNewAdmin, TypeOK
    <3>2. CASE data.newAdmin = None
      <4>1. task'[h].at = "idle"
        BY <2>25, <3>2 DEF TakeNewAdmin, TypeOK, Idle
      <4> QED
        BY <3>1, <4>1, OneInHand DEF InHand
    <3>3. CASE data.newAdmin # None
      <4>1. task'[h] = [Idle EXCEPT !.at = "add", !.id = data.newAdmin]
        BY <2>25, <3>3 DEF TakeNewAdmin, TypeOK
      <4>2. task'[h].at = "add" /\ task'[h].id \in Ids
        BY <4>1, <3>3 DEF Idle, TypeOK, Data
      <4> QED
        BY <3>1, <4>2, OneInHand DEF InHand
    <3> QED
      BY <3>2, <3>3
  <2>26. CASE AddAdmin(h)
    <3>1. task'[h].at = "idle" /\ \A g \in Handlers \ {h} : task'[g] = task[g]
      BY <2>26 DEF AddAdmin, TypeOK, Idle
    <3> QED
      BY <3>1, OneInHand DEF InHand
  <2>27. CASE HandlerRaises(h)
    <3>1. task'[h].at = "idle" /\ \A g \in Handlers \ {h} : task'[g] = task[g]
      BY <2>27 DEF HandlerRaises, TypeOK, Idle
    <3> QED
      BY <3>1, OneInHand DEF InHand
  <2> QED
    BY <1>2, <2>1, <2>2, <2>3, <2>4, <2>5, <2>6, <2>7, <2>8, <2>9, <2>10, <2>11, <2>12,
       <2>13, <2>14, <2>15, <2>16, <2>17, <2>18, <2>19, <2>20, <2>21, <2>22, <2>23,
       <2>24, <2>25, <2>26, <2>27
    DEF Update, HandlerStep
<1>3. CASE Menu
  BY <1>3, NoneMoves DEF Menu
<1>4. CASE Restart
  BY <1>4 DEF Restart, TasksInHand, InHand, Idle
<1>5. CASE NextMinute
  BY <1>5, NoneMoves DEF NextMinute
<1>6. ASSUME NEW msg \in Orders \cup {None}, OnTestCustomer(msg) PROVE TasksInHand'
  BY <1>6, NoneMoves DEF OnTestCustomer
<1>7. ASSUME NEW msg \in Orders \cup {None}, OnNodeName(msg) PROVE TasksInHand'
  BY <1>7, NoneMoves DEF OnNodeName
<1>8. ASSUME NEW o \in Orders, PayInvoice(o) PROVE TasksInHand'
  BY <1>8, NoneMoves DEF PayInvoice
<1>9. ASSUME NEW o \in Orders, AskAgain(o) PROVE TasksInHand'
  BY <1>9, NoneMoves DEF AskAgain
<1> QED
  BY <1>1, <1>2, <1>3, <1>4, <1>5, <1>6, <1>7, <1>8, <1>9 DEF Next

----------------------------------------------------------------------------
(* The chat and the payments.                                              *)

\* Invoices are for orders that are there.
LEMMA PaymentsStep ==
    ASSUME TasksInHand, PaymentsPlaced, RowsGrow, [Next]_vars
    PROVE  PaymentsPlaced'
<1> USE DEF chat, rows, stars, vars, Clear, Return, Begin, Receive
<1>1. CASE UNCHANGED vars
  BY <1>1 DEF PaymentsPlaced, Placed
<1>2. ASSUME NEW h \in Handlers, Update(h) \/ HandlerStep(h) \/ HandlerRaises(h)
      PROVE  PaymentsPlaced'
  <2>0. InHand(task[h])
    BY DEF Inv, TypeOK, TasksInHand
  <2>1. ASSUME NEW p \in Plans, PayCard(h, p) PROVE PaymentsPlaced'
    BY <2>1 DEF PayCard, PaymentsPlaced, RowsGrow, Placed
  <2>2. ASSUME NEW p \in Plans, PayStars(h, p) PROVE PaymentsPlaced'
    BY <2>2 DEF PayStars, PaymentsPlaced, RowsGrow, Placed
  <2>3. ASSUME NEW n \in Names, OnDisplayName(h, n) PROVE PaymentsPlaced'
    BY <2>3 DEF OnDisplayName, PaymentsPlaced, RowsGrow, Placed
  <2>4. CASE OnPaymentProof(h)
    BY <2>4 DEF OnPaymentProof, PaymentsPlaced, RowsGrow, Placed
  <2>5. ASSUME NEW o \in Orders, OnSuccessfulPayment(h, o) PROVE PaymentsPlaced'
    BY <2>5 DEF OnSuccessfulPayment, PaymentsPlaced, RowsGrow, Placed
  <2>6. ASSUME NEW a \in Attempts, CbReviewReject(h, a) PROVE PaymentsPlaced'
    BY <2>6 DEF CbReviewReject, PaymentsPlaced, RowsGrow, Placed
  <2>7. ASSUME NEW d \in Dialogs, CbAdminPanel(h, d) PROVE PaymentsPlaced'
    BY <2>7 DEF CbAdminPanel, PaymentsPlaced, RowsGrow, Placed
  <2>8. ASSUME NEW msg \in Orders \cup {None}, OnRejectReason(h, msg) PROVE PaymentsPlaced'
    BY <2>8 DEF OnRejectReason, PaymentsPlaced, RowsGrow, Placed
  <2>9. ASSUME NEW i \in Ids, OnAdminTelegramId(h, i) PROVE PaymentsPlaced'
    BY <2>9 DEF OnAdminTelegramId, PaymentsPlaced, RowsGrow, Placed
  <2>10. CASE AdminPanelEntry(h)
    BY <2>10 DEF AdminPanelEntry, PaymentsPlaced, RowsGrow, Placed
  <2>11. CASE OnAdminRole(h)
    BY <2>11 DEF OnAdminRole, PaymentsPlaced, RowsGrow, Placed
  <2>12. CASE CardReady(h)
    BY <2>12 DEF CardReady, PaymentsPlaced, RowsGrow, Placed
  <2>13. CASE FindOrder(h)
    BY <2>13 DEF FindOrder, PaymentsPlaced, RowsGrow, Placed
  <2>14. ASSUME NEW o \in Orders, InsertOrder(h, o) PROVE PaymentsPlaced'
    BY <2>14 DEF InsertOrder, Insert, PaymentsPlaced, RowsGrow, Placed
  <2>15. CASE InsertRefused(h)
    BY <2>15 DEF InsertRefused, PaymentsPlaced, RowsGrow, Placed
  <2>16. CASE Instruct(h)
    BY <2>16 DEF Instruct, PaymentsPlaced, RowsGrow, Placed
  <2>17. CASE SendInvoice(h)
    BY <2>17, <2>0 DEF SendInvoice, InHand, PaymentsPlaced, RowsGrow, Placed
  <2>18. ASSUME NEW a \in Attempts, AttachPaymentProof(h, a) PROVE PaymentsPlaced'
    BY <2>18 DEF AttachPaymentProof, PaymentsPlaced, RowsGrow, Placed
  <2>19. CASE ClearLate(h)
    BY <2>19 DEF ClearLate, PaymentsPlaced, RowsGrow, Placed
  <2>20. CASE AskReason(h)
    BY <2>20 DEF AskReason, PaymentsPlaced, RowsGrow, Placed
  <2>21. CASE OpenDialog(h)
    BY <2>21 DEF OpenDialog, PaymentsPlaced, RowsGrow, Placed
  <2>22. CASE RejectPayment(h)
    BY <2>22 DEF RejectPayment, PaymentsPlaced, RowsGrow, Placed
  <2>23. CASE AlreadyReviewed(h)
    BY <2>23 DEF AlreadyReviewed, PaymentsPlaced, RowsGrow, Placed
  <2>24. CASE AskRole(h)
    BY <2>24 DEF AskRole, PaymentsPlaced, RowsGrow, Placed
  <2>25. CASE TakeNewAdmin(h)
    BY <2>25 DEF TakeNewAdmin, PaymentsPlaced, RowsGrow, Placed
  <2>26. CASE AddAdmin(h)
    BY <2>26 DEF AddAdmin, PaymentsPlaced, RowsGrow, Placed
  <2>27. CASE HandlerRaises(h)
    BY <2>27, <2>0 DEF HandlerRaises, Unanswered, InHand, PaymentsPlaced, RowsGrow, Placed
  <2> QED
    BY <1>2, <2>1, <2>2, <2>3, <2>4, <2>5, <2>6, <2>7, <2>8, <2>9, <2>10, <2>11, <2>12,
       <2>13, <2>14, <2>15, <2>16, <2>17, <2>18, <2>19, <2>20, <2>21, <2>22, <2>23,
       <2>24, <2>25, <2>26, <2>27
    DEF Update, HandlerStep
<1>3. CASE Menu
  BY <1>3 DEF Menu, PaymentsPlaced, RowsGrow, Placed
<1>4. CASE Restart
  BY <1>4 DEF Restart, Unanswered, TasksInHand, InHand, PaymentsPlaced, RowsGrow, Placed
<1>5. CASE NextMinute
  BY <1>5 DEF NextMinute, PaymentsPlaced, RowsGrow, Placed
<1>6. ASSUME NEW msg \in Orders \cup {None}, OnTestCustomer(msg) PROVE PaymentsPlaced'
  BY <1>6 DEF OnTestCustomer, PaymentsPlaced, RowsGrow, Placed
<1>7. ASSUME NEW msg \in Orders \cup {None}, OnNodeName(msg) PROVE PaymentsPlaced'
  BY <1>7 DEF OnNodeName, PaymentsPlaced, RowsGrow, Placed
<1>8. ASSUME NEW o \in Orders, PayInvoice(o) PROVE PaymentsPlaced'
  BY <1>8 DEF PayInvoice, PaymentsPlaced, RowsGrow, Placed
<1>9. ASSUME NEW o \in Orders, AskAgain(o) PROVE PaymentsPlaced'
  BY <1>9 DEF AskAgain, PaymentsPlaced, RowsGrow, Placed
<1> QED
  BY <1>1, <1>2, <1>3, <1>4, <1>5, <1>6, <1>7, <1>8, <1>9 DEF Next

\* Rows that stay leave a state its data.
LEMMA ChatKept == ASSUME TypeOK, DialogHasData, RowsGrow, UNCHANGED chat PROVE DialogHasData'
<1> USE DEF chat
<1>1. data.order \in Placed => data.order \in Placed' /\ order'[data.order].plan = order[data.order].plan
  BY DEF RowsGrow, Placed
<1> QED
  BY <1>1 DEF DialogHasData, RowsGrow

\* A state is set together with its data, from what the handler has in hand.
LEMMA DataStep ==
    ASSUME DialogAssumption, TypeOK, TasksInHand, DialogHasData, RowsGrow, [Next]_vars
    PROVE  DialogHasData'
<1> USE DEF chat, rows, stars, vars, Clear, Return, Begin, Receive
<1>1. CASE UNCHANGED vars
  BY <1>1, ChatKept
<1>2. ASSUME NEW h \in Handlers, Update(h) \/ HandlerStep(h) \/ HandlerRaises(h)
      PROVE  DialogHasData'
  <2>0. InHand(task[h])
    BY DEF Inv, TypeOK, TasksInHand
  <2>1. ASSUME NEW p \in Plans, PayCard(h, p) PROVE DialogHasData'
    BY <2>1, ChatKept DEF PayCard
  <2>2. ASSUME NEW p \in Plans, PayStars(h, p) PROVE DialogHasData'
    BY <2>2, ChatKept DEF PayStars
  <2>3. ASSUME NEW n \in Names, OnDisplayName(h, n) PROVE DialogHasData'
    BY <2>3, ChatKept DEF OnDisplayName
  <2>4. CASE OnPaymentProof(h)
    BY <2>4, ChatKept DEF OnPaymentProof
  <2>5. ASSUME NEW o \in Orders, OnSuccessfulPayment(h, o) PROVE DialogHasData'
    BY <2>5, ChatKept DEF OnSuccessfulPayment
  <2>6. ASSUME NEW a \in Attempts, CbReviewReject(h, a) PROVE DialogHasData'
    BY <2>6, ChatKept DEF CbReviewReject
  <2>7. ASSUME NEW d \in Dialogs, CbAdminPanel(h, d) PROVE DialogHasData'
    BY <2>7, ChatKept DEF CbAdminPanel
  <2>8. ASSUME NEW msg \in Orders \cup {None}, OnRejectReason(h, msg) PROVE DialogHasData'
    BY <2>8 DEF OnRejectReason, DialogHasData
  <2>9. ASSUME NEW i \in Ids, OnAdminTelegramId(h, i) PROVE DialogHasData'
    BY <2>9, ChatKept DEF OnAdminTelegramId
  <2>10. CASE AdminPanelEntry(h)
    BY <2>10, ChatKept DEF AdminPanelEntry
  <2>11. CASE OnAdminRole(h)
    BY <2>11, ChatKept DEF OnAdminRole
  <2>12. CASE CardReady(h)
    <3>1. state' = "name" /\ data'.plan = task[h].plan
      BY <2>12 DEF CardReady, TypeOK, Data
    <3> QED
      BY <2>12, <2>0, <3>1, DialogAssumption
      DEF DialogAssumption, CardReady, InHand, DialogHasData
  <2>13. CASE FindOrder(h)
    BY <2>13, ChatKept DEF FindOrder
  <2>14. ASSUME NEW o \in Orders, InsertOrder(h, o) PROVE DialogHasData'
    BY <2>14, ChatKept DEF InsertOrder, Insert
  <2>15. CASE InsertRefused(h)
    BY <2>15, ChatKept DEF InsertRefused
  <2>16. CASE Instruct(h)
    <3>1. state' = "proof" /\ data'.plan = task[h].plan /\ data'.order = task[h].order
      BY <2>16 DEF Instruct, TypeOK, Data
    <3> QED
      BY <2>16, <2>0, <3>1 DEF Instruct, InHand, DialogHasData, RowsGrow, Placed
  <2>17. CASE SendInvoice(h)
    BY <2>17, ChatKept DEF SendInvoice
  <2>18. ASSUME NEW a \in Attempts, AttachPaymentProof(h, a) PROVE DialogHasData'
    BY <2>18, ChatKept DEF AttachPaymentProof
  <2>19. CASE ClearLate(h)
    BY <2>19 DEF ClearLate, DialogHasData
  <2>20. CASE AskReason(h)
    <3>1. state' = "reject" /\ data'.reject = task[h].attempt
      BY <2>20 DEF AskReason, TypeOK, Data
    <3> QED
      BY <2>20, <2>0, <3>1 DEF AskReason, InHand, DialogHasData, RowsGrow
  <2>21. CASE OpenDialog(h)
    <3>1. /\ state' = AskedFor(task[h].dialog)
          /\ task[h].dialog = "test" => data'.test
      BY <2>21 DEF OpenDialog, TypeOK, Data
    <3> QED
      BY <2>21, <2>0, <3>1 DEF OpenDialog, AskedFor, InHand, Dialogs, DialogHasData
  <2>22. CASE RejectPayment(h)
    BY <2>22, ChatKept DEF RejectPayment
  <2>23. CASE AlreadyReviewed(h)
    BY <2>23, ChatKept DEF AlreadyReviewed
  <2>24. CASE AskRole(h)
    <3>1. state' = "adminRole" /\ data'.newAdmin = task[h].id
      BY <2>24 DEF AskRole, TypeOK, Data
    <3> QED
      BY <2>24, <2>0, <3>1, DialogAssumption
      DEF DialogAssumption, AskRole, InHand, DialogHasData
  <2>25. CASE TakeNewAdmin(h)
    BY <2>25 DEF TakeNewAdmin, DialogHasData
  <2>26. CASE AddAdmin(h)
    BY <2>26, ChatKept DEF AddAdmin
  <2>27. CASE HandlerRaises(h)
    BY <2>27, ChatKept DEF HandlerRaises
  <2> QED
    BY <1>2, <2>1, <2>2, <2>3, <2>4, <2>5, <2>6, <2>7, <2>8, <2>9, <2>10, <2>11, <2>12,
       <2>13, <2>14, <2>15, <2>16, <2>17, <2>18, <2>19, <2>20, <2>21, <2>22, <2>23,
       <2>24, <2>25, <2>26, <2>27
    DEF Update, HandlerStep
<1>3. CASE Menu
  BY <1>3 DEF Menu, DialogHasData
<1>4. CASE Restart
  BY <1>4 DEF Restart, DialogHasData
<1>5. CASE NextMinute
  BY <1>5, ChatKept DEF NextMinute
<1>6. ASSUME NEW msg \in Orders \cup {None}, OnTestCustomer(msg) PROVE DialogHasData'
  BY <1>6 DEF OnTestCustomer, DialogHasData
<1>7. ASSUME NEW msg \in Orders \cup {None}, OnNodeName(msg) PROVE DialogHasData'
  BY <1>7 DEF OnNodeName, DialogHasData
<1>8. ASSUME NEW o \in Orders, PayInvoice(o) PROVE DialogHasData'
  BY <1>8, ChatKept DEF PayInvoice
<1>9. ASSUME NEW o \in Orders, AskAgain(o) PROVE DialogHasData'
  BY <1>9, ChatKept DEF AskAgain
<1> QED
  BY <1>1, <1>2, <1>3, <1>4, <1>5, <1>6, <1>7, <1>8, <1>9 DEF Next

----------------------------------------------------------------------------
(* The keys.                                                               *)

\* A first order that was paid stays paid.
LEMMA FirstPaidStays ==
    ASSUME RowsGrow, NEW p, NEW m, FirstPaid(p, m) PROVE FirstPaid(p, m)'
<1>1. PICK o \in First(p, m) : order[o].status # "AWAITING_PAYMENT"
  BY DEF FirstPaid
<1>2. o \in First(p, m)' /\ order'[o].status # "AWAITING_PAYMENT"
  BY <1>1 DEF First, Placed, RowsGrow
<1> QED
  BY <1>2 DEF FirstPaid

\* Where no order is made, the keys are as unique as before.
LEMMA KeysKept ==
    ASSUME KeysUnique, RowsGrow, Placed' = Placed,
           \A g \in Handlers : task'[g].at = "insert" /\ ~task'[g].first
               => FirstPaid(task'[g].plan, task'[g].minute)
    PROVE  KeysUnique'
<1>1. \A o1, o2 \in Placed' :
          order'[o1].first /\ order'[o2].first /\ order'[o1].plan = order'[o2].plan
              /\ order'[o1].minute = order'[o2].minute => o1 = o2
  BY DEF KeysUnique, RowsGrow
<1>2. ASSUME NEW o \in Placed', ~order'[o].first
      PROVE  FirstPaid(order[o].plan, order[o].minute)'
  <2>1. /\ o \in Placed /\ ~order[o].first
        /\ order'[o].plan = order[o].plan /\ order'[o].minute = order[o].minute
    BY <1>2 DEF RowsGrow
  <2>2. FirstPaid(order[o].plan, order[o].minute)
    BY <2>1 DEF KeysUnique
  <2>3. PICK x \in First(order[o].plan, order[o].minute) : order[x].status # "AWAITING_PAYMENT"
    BY <2>2 DEF FirstPaid
  <2>4. x \in First(order[o].plan, order[o].minute)' /\ order'[x].status # "AWAITING_PAYMENT"
    BY <2>1, <2>3 DEF First, Placed, RowsGrow
  <2> QED
    BY <2>4 DEF FirstPaid
<1>3. ASSUME NEW g \in Handlers, task'[g].at = "insert", ~task'[g].first
      PROVE  FirstPaid(task[g].plan, task[g].minute)'
  <2>1. PICK x \in First(task'[g].plan, task'[g].minute) : order[x].status # "AWAITING_PAYMENT"
    BY <1>3 DEF FirstPaid
  <2>2. x \in First(task[g].plan, task[g].minute)' /\ order'[x].status # "AWAITING_PAYMENT"
    BY <2>1 DEF First, Placed, RowsGrow
  <2> QED
    BY <2>2 DEF FirstPaid
<1> QED
  BY <1>1, <1>2, <1>3 DEF KeysUnique

\* So they are where no handler begins to insert.
LEMMA KeysAside ==
    ASSUME KeysUnique, RowsGrow, Placed' = Placed,
           \A g \in Handlers : task'[g] = task[g] \/ task'[g].at # "insert"
    PROVE  KeysUnique'
<1>1. \A g \in Handlers : task'[g].at = "insert" /\ ~task'[g].first
          => FirstPaid(task'[g].plan, task'[g].minute)
  BY DEF KeysUnique
<1> QED
  BY <1>1, KeysKept

\* A second key is used only after the first order was paid.
LEMMA KeysStep ==
    ASSUME DialogAssumption, TypeOK, TasksInHand, KeysUnique, RowsGrow, [Next]_vars
    PROVE  KeysUnique'
<1> USE DEF chat, rows, stars, vars, Clear, Return, Begin, Receive
<1>1. CASE UNCHANGED vars
  BY <1>1, KeysAside DEF TypeOK, Placed, Idle
<1>2. ASSUME NEW h \in Handlers, Update(h) \/ HandlerStep(h) \/ HandlerRaises(h)
      PROVE  KeysUnique'
  <2>0. InHand(task[h])
    BY DEF Inv, TypeOK, TasksInHand
  <2>1. ASSUME NEW p \in Plans, PayCard(h, p) PROVE KeysUnique'
    <3>1. task'[h] = [Idle EXCEPT !.at = "card", !.plan = p]
      BY <2>1 DEF PayCard, TypeOK
    <3>2. task'[h].at # "insert"
      BY <3>1 DEF Idle
    <3> QED
      BY <2>1, <3>2, KeysAside DEF PayCard, TypeOK, Placed
  <2>2. ASSUME NEW p \in Plans, PayStars(h, p) PROVE KeysUnique'
    <3>1. task'[h] = [Idle EXCEPT !.at = "find", !.way = "stars", !.plan = p,
                          !.name = StarsName, !.minute = minute]
      BY <2>2 DEF PayStars, TypeOK
    <3>2. task'[h].at # "insert"
      BY <3>1 DEF Idle
    <3> QED
      BY <2>2, <3>2, KeysAside DEF PayStars, TypeOK, Placed
  <2>3. ASSUME NEW n \in Names, OnDisplayName(h, n) PROVE KeysUnique'
    <3>1. task'[h] = [Idle EXCEPT !.at = "find", !.plan = data.plan, !.name = n,
                          !.minute = minute]
      BY <2>3 DEF OnDisplayName, TypeOK
    <3>2. task'[h].at # "insert"
      BY <3>1 DEF Idle
    <3> QED
      BY <2>3, <3>2, KeysAside DEF OnDisplayName, TypeOK, Placed
  <2>4. CASE OnPaymentProof(h)
    <3>1. task'[h] = [Idle EXCEPT !.at = "attach", !.order = data.order]
      BY <2>4 DEF OnPaymentProof, TypeOK
    <3>2. task'[h].at # "insert"
      BY <3>1 DEF Idle
    <3> QED
      BY <2>4, <3>2, KeysAside DEF OnPaymentProof, TypeOK, Placed
  <2>5. ASSUME NEW o \in Orders, OnSuccessfulPayment(h, o) PROVE KeysUnique'
    <3>1. task'[h] = [Idle EXCEPT !.at = "attach", !.way = "stars", !.order = o]
      BY <2>5 DEF OnSuccessfulPayment, TypeOK
    <3>2. task'[h].at # "insert"
      BY <3>1 DEF Idle
    <3> QED
      BY <2>5, <3>2, KeysAside DEF OnSuccessfulPayment, TypeOK, Placed
  <2>6. ASSUME NEW a \in Attempts, CbReviewReject(h, a) PROVE KeysUnique'
    <3>1. task'[h] = [Idle EXCEPT !.at = "ask", !.attempt = a]
      BY <2>6 DEF CbReviewReject, TypeOK
    <3>2. task'[h].at # "insert"
      BY <3>1 DEF Idle
    <3> QED
      BY <2>6, <3>2, KeysAside DEF CbReviewReject, TypeOK, Placed
  <2>7. ASSUME NEW d \in Dialogs, CbAdminPanel(h, d) PROVE KeysUnique'
    <3>1. task'[h] = [Idle EXCEPT !.at = "panel", !.dialog = d]
      BY <2>7 DEF CbAdminPanel, TypeOK
    <3>2. task'[h].at # "insert"
      BY <3>1 DEF Idle
    <3> QED
      BY <2>7, <3>2, KeysAside DEF CbAdminPanel, TypeOK, Placed
  <2>8. ASSUME NEW msg \in Orders \cup {None}, OnRejectReason(h, msg) PROVE KeysUnique'
    <3>1. task'[h] = [Idle EXCEPT !.at = "reject", !.attempt = data.reject]
      BY <2>8 DEF OnRejectReason, TypeOK
    <3>2. task'[h].at # "insert"
      BY <3>1 DEF Idle
    <3> QED
      BY <2>8, <3>2, KeysAside DEF OnRejectReason, TypeOK, Placed
  <2>9. ASSUME NEW i \in Ids, OnAdminTelegramId(h, i) PROVE KeysUnique'
    <3>1. task'[h] = [Idle EXCEPT !.at = "adminId", !.id = i]
      BY <2>9 DEF OnAdminTelegramId, TypeOK
    <3>2. task'[h].at # "insert"
      BY <3>1 DEF Idle
    <3> QED
      BY <2>9, <3>2, KeysAside DEF OnAdminTelegramId, TypeOK, Placed
  <2>10. CASE AdminPanelEntry(h)
    <3>1. task'[h] = [Idle EXCEPT !.at = "clear"]
      BY <2>10 DEF AdminPanelEntry, TypeOK
    <3>2. task'[h].at # "insert"
      BY <3>1 DEF Idle
    <3> QED
      BY <2>10, <3>2, KeysAside DEF AdminPanelEntry, TypeOK, Placed
  <2>11. CASE OnAdminRole(h)
    <3>1. task'[h] = [Idle EXCEPT !.at = "role"]
      BY <2>11 DEF OnAdminRole, TypeOK
    <3>2. task'[h].at # "insert"
      BY <3>1 DEF Idle
    <3> QED
      BY <2>11, <3>2, KeysAside DEF OnAdminRole, TypeOK, Placed
  <2>12. CASE CardReady(h)
    BY <2>12, KeysAside DEF CardReady, TypeOK, Placed, Idle
  <2>13. CASE FindOrder(h)
    <3>1. /\ order' = order /\ Placed' = Placed
          /\ \A g \in Handlers \ {h} : task'[g] = task[g]
      BY <2>13 DEF FindOrder, TypeOK, Placed
    <3>2. ASSUME NEW o \in First(task[h].plan, task[h].minute),
                 task' = [task EXCEPT ![h] =
                     IF order[o].status = "AWAITING_PAYMENT"
                     THEN Created(task[h], o) ELSE [task[h] EXCEPT !.at = "insert"]]
          PROVE  task'[h].at = "insert" => FirstPaid(task'[h].plan, task'[h].minute)
      <4>1. CASE order[o].status = "AWAITING_PAYMENT"
        <5>1. task'[h] = Created(task[h], o) /\ o \in Orders
          BY <3>2, <4>1 DEF TypeOK, First, Placed
        <5>2. task'[h].at \in {"instruct", "invoice"}
          BY <5>1, CreatedIs DEF TypeOK
        <5> QED
          BY <5>2
      <4>2. CASE order[o].status # "AWAITING_PAYMENT"
        <5>1. task'[h] = [task[h] EXCEPT !.at = "insert"]
          BY <3>2, <4>2 DEF TypeOK
        <5>2. task'[h].plan = task[h].plan /\ task'[h].minute = task[h].minute
          BY <5>1 DEF TypeOK, Tasks
        <5> QED
          BY <5>2, <4>2, <3>2 DEF FirstPaid
      <4> QED
        BY <4>1, <4>2
    <3>3. CASE task' = [task EXCEPT ![h] = [task[h] EXCEPT !.at = "insert", !.first = TRUE]]
      <4>1. task'[h].first = TRUE
        BY <3>3 DEF TypeOK, Tasks
      <4> QED
        BY <4>1, <3>1, KeysKept DEF KeysUnique
    <3> QED
      BY <2>13, <3>1, <3>2, <3>3, KeysKept DEF FindOrder, KeysUnique
  <2>14. ASSUME NEW o \in Orders, InsertOrder(h, o) PROVE KeysUnique'
    <3> DEFINE p == task[h].plan
               m == task[h].minute
    <3>1. /\ o \notin Placed
          /\ task[h].at = "insert"
          /\ task[h].first => First(p, m) = {}
          /\ \A x \in Orders \ {o} : order'[x] = order[x]
      BY <2>14 DEF InsertOrder, Insert, TypeOK, Placed
    <3>2. /\ order'[o].plan = p /\ order'[o].minute = m
          /\ order'[o].first = task[h].first
      BY <2>14 DEF InsertOrder, Insert, TypeOK
    <3>3. Placed' \subseteq Placed \cup {o}
      BY <3>1 DEF Placed
    <3>4. ASSUME NEW o1 \in Placed', NEW o2 \in Placed', order'[o1].first, order'[o2].first,
                 order'[o1].plan = order'[o2].plan, order'[o1].minute = order'[o2].minute
          PROVE  o1 = o2
      <4>1. ASSUME NEW x \in Placed, order'[x].first,
                   order'[x].plan = p, order'[x].minute = m
            PROVE  ~task[h].first
        <5>1. x \in First(p, m)
          BY <4>1 DEF First, RowsGrow
        <5> QED
          BY <5>1, <3>1
      <4>2. CASE o1 \in Placed /\ o2 \in Placed
        BY <3>4, <4>2 DEF KeysUnique, RowsGrow
      <4> QED
        BY <3>2, <3>3, <3>4, <4>1, <4>2
    <3>5. ASSUME NEW x \in Placed', ~order'[x].first
          PROVE  FirstPaid(order[x].plan, order[x].minute)'
      <4>1. FirstPaid(order'[x].plan, order'[x].minute)
        <5>1. CASE x = o
          BY <3>1, <3>2, <3>5, <5>1 DEF KeysUnique
        <5>2. CASE x # o
          BY <3>3, <3>5, <5>2 DEF KeysUnique, RowsGrow
        <5> QED
          BY <5>1, <5>2
      <4>2. PICK y \in First(order'[x].plan, order'[x].minute) : order[y].status # "AWAITING_PAYMENT"
        BY <4>1 DEF FirstPaid
      <4>3. y \in First(order[x].plan, order[x].minute)' /\ order'[y].status # "AWAITING_PAYMENT"
        BY <4>2 DEF First, Placed, RowsGrow
      <4> QED
        BY <4>3 DEF FirstPaid
    <3>6. ASSUME NEW g \in Handlers, task'[g].at = "insert", ~task'[g].first
          PROVE  FirstPaid(task[g].plan, task[g].minute)'
      <4>1. g # h /\ task'[g] = task[g]
        <5>1. task'[h] = Created(task[h], o) /\ \A i \in Handlers \ {h} : task'[i] = task[i]
          BY <2>14 DEF InsertOrder, Insert, TypeOK
        <5>2. task'[h].at \in {"instruct", "invoice"}
          BY <5>1, CreatedIs DEF TypeOK
        <5> QED
          BY <5>1, <5>2, <3>6
      <4>2. FirstPaid(task'[g].plan, task'[g].minute)
        BY <4>1, <3>6 DEF KeysUnique
      <4>3. PICK y \in First(task'[g].plan, task'[g].minute) : order[y].status # "AWAITING_PAYMENT"
        BY <4>2 DEF FirstPaid
      <4>4. y \in First(task[g].plan, task[g].minute)' /\ order'[y].status # "AWAITING_PAYMENT"
        BY <4>3 DEF First, Placed, RowsGrow
      <4> QED
        BY <4>4 DEF FirstPaid
    <3> QED
      BY <3>4, <3>5, <3>6 DEF KeysUnique
  <2>15. CASE InsertRefused(h)
    BY <2>15, KeysAside DEF InsertRefused, TypeOK, Placed, Idle
  <2>16. CASE Instruct(h)
    BY <2>16, KeysAside DEF Instruct, TypeOK, Placed, Idle
  <2>17. CASE SendInvoice(h)
    BY <2>17, KeysAside DEF SendInvoice, TypeOK, Placed, Idle
  <2>18. ASSUME NEW a \in Attempts, AttachPaymentProof(h, a) PROVE KeysUnique'
    <3>1. /\ task'[h].at # "insert" /\ \A g \in Handlers \ {h} : task'[g] = task[g]
      BY <2>18 DEF AttachPaymentProof, TypeOK, Tasks, Idle
    <3>2. \A x \in Orders : order[x] = None => order'[x] = None
      BY <2>18, <2>0 DEF AttachPaymentProof, TypeOK, InHand, Placed
    <3>3. Placed' = Placed
      BY <3>2 DEF Placed, RowsGrow
    <3> QED
      BY <3>1, <3>3, KeysAside
  <2>19. CASE ClearLate(h)
    BY <2>19, KeysAside DEF ClearLate, TypeOK, Placed, Idle
  <2>20. CASE AskReason(h)
    BY <2>20, KeysAside DEF AskReason, TypeOK, Placed, Idle
  <2>21. CASE OpenDialog(h)
    BY <2>21, KeysAside DEF OpenDialog, TypeOK, Placed, Idle
  <2>22. CASE RejectPayment(h)
    BY <2>22, KeysAside DEF RejectPayment, TypeOK, Placed, Idle
  <2>23. CASE AlreadyReviewed(h)
    BY <2>23, KeysAside DEF AlreadyReviewed, TypeOK, Placed, Idle
  <2>24. CASE AskRole(h)
    BY <2>24, KeysAside DEF AskRole, TypeOK, Placed, Idle
  <2>25. CASE TakeNewAdmin(h)
    BY <2>25, KeysAside DEF TakeNewAdmin, TypeOK, Placed, Idle
  <2>26. CASE AddAdmin(h)
    BY <2>26, KeysAside DEF AddAdmin, TypeOK, Placed, Idle
  <2>27. CASE HandlerRaises(h)
    BY <2>27, KeysAside DEF HandlerRaises, TypeOK, Placed, Idle
  <2> QED
    BY <1>2, <2>1, <2>2, <2>3, <2>4, <2>5, <2>6, <2>7, <2>8, <2>9, <2>10, <2>11, <2>12,
       <2>13, <2>14, <2>15, <2>16, <2>17, <2>18, <2>19, <2>20, <2>21, <2>22, <2>23,
       <2>24, <2>25, <2>26, <2>27
    DEF Update, HandlerStep
<1>3. CASE Menu
  BY <1>3, KeysAside DEF Menu, TypeOK, Placed, Idle
<1>4. CASE Restart
  BY <1>4, KeysAside DEF Restart, TypeOK, Placed, Idle
<1>5. CASE NextMinute
  BY <1>5, KeysAside DEF NextMinute, TypeOK, Placed, Idle
<1>6. ASSUME NEW msg \in Orders \cup {None}, OnTestCustomer(msg) PROVE KeysUnique'
  BY <1>6, KeysAside DEF OnTestCustomer, TypeOK, Placed, Idle
<1>7. ASSUME NEW msg \in Orders \cup {None}, OnNodeName(msg) PROVE KeysUnique'
  BY <1>7, KeysAside DEF OnNodeName, TypeOK, Placed, Idle
<1>8. ASSUME NEW o \in Orders, PayInvoice(o) PROVE KeysUnique'
  BY <1>8, KeysAside DEF PayInvoice, TypeOK, Placed, Idle
<1>9. ASSUME NEW o \in Orders, AskAgain(o) PROVE KeysUnique'
  BY <1>9, KeysAside DEF AskAgain, TypeOK, Placed, Idle
<1> QED
  BY <1>1, <1>2, <1>3, <1>4, <1>5, <1>6, <1>7, <1>8, <1>9 DEF Next

----------------------------------------------------------------------------
LEMMA InvStep == ASSUME DialogAssumption, Inv, [Next]_vars PROVE Inv'
<1>1. TypeOK' /\ RowsGrow
  BY TypeStep, RowsStep DEF Inv
<1> QED
  BY <1>1, TasksStep, PaymentsStep, DataStep, KeysStep DEF Inv

LEMMA InvAlways == DialogAssumption => (Spec => []Inv)
<1> SUFFICES ASSUME DialogAssumption PROVE Spec => []Inv
  OBVIOUS
<1>1. Init => Inv
  BY InvInit
<1>2. Inv /\ [Next]_vars => Inv'
  BY InvStep
<1> QED
  BY <1>1, <1>2, PTL DEF Spec

\* The dialogue keeps the types of the chat's state and data, of the
\* handlers and of the rows.
THEOREM DialogTyped == DialogAssumption => (Spec => []TypeOK)
<1>1. Inv => TypeOK
  BY DEF Inv
<1> QED
  BY <1>1, InvAlways, PTL

\* Whatever late handlers do to a dialogue, its state has the data that the
\* handler of the state reads.
THEOREM AlwaysHasData == DialogAssumption => (Spec => []DialogHasData)
<1>1. Inv => DialogHasData
  BY DEF Inv
<1> QED
  BY <1>1, InvAlways, PTL

LEMMA InvAbsorbs == Inv => RepeatsAbsorbed
<1> SUFFICES ASSUME Inv, NEW o1 \in Placed, NEW o2 \in Placed, o1 # o2,
                    order[o1].plan = order[o2].plan, order[o1].minute = order[o2].minute
             PROVE  FirstPaid(order[o1].plan, order[o1].minute)
  BY DEF RepeatsAbsorbed, FirstPaid
<1>1. ~order[o1].first \/ ~order[o2].first
  BY DEF Inv, KeysUnique
<1> QED
  BY <1>1 DEF Inv, KeysUnique

\* A plan gets a second order in a minute only once the first was paid,
\* however the requests interleave.
THEOREM AlwaysAbsorbed == DialogAssumption => (Spec => []RepeatsAbsorbed)
  BY InvAbsorbs, InvAlways, PTL

=============================================================================
