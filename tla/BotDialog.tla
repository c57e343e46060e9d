----------------------------- MODULE BotDialog ------------------------------
(***************************************************************************)
(* The dialogue of the bot with one chat (control-plane/bot/router.py over *)
(* aiogram's state machine, bot/states.py).  The user may be a customer,   *)
(* an admin, or both.                                                      *)
(*                                                                         *)
(* Each update is handled by a coroutine of its own.  State and data of    *)
(* the chat are kept in memory and change without an await in between, so  *)
(* that a block of set_state, update_data and clear is one step; what a    *)
(* handler does after an await of the database or of Telegram is a later   *)
(* step, when the user may be elsewhere.  The first handler registered for *)
(* a message takes it: handlers of a state come before those of a content. *)
(***************************************************************************)
EXTENDS Naturals, FiniteSets

CONSTANTS
    Plans, Orders, Attempts, \* row ids
    Names,                   \* display names a customer may enter
    StarsName,               \* the name cb_pay_stars gives an order
    Ids,                     \* Telegram ids of admins to be
    Handlers,
    None,
    IsAdmin,                 \* the chat is that of an admin with every right
    Faults,                  \* what may go wrong
    MaxMinute                \* bound: minutes of the clock

States == {"none", "name", "proof", "reject", "adminId", "adminRole", "nodeName"}
Dialogs == {"test", "addadmin", "addnode"}
Minutes == 0..MaxMinute
OrderNames == Names \cup {StarsName}
Ways == {"card", "stars"}

OrderRows ==
    [plan : Plans, minute : Minutes,
     first : BOOLEAN,   \* has the plain idempotency key of plan and minute
     name : OrderNames, status : {"AWAITING_PAYMENT", "PAID"}]
AttemptRows ==
    [order : Orders, way : Ways, status : {"WAITING_REVIEW", "REJECTED"}]
Data == [plan : Plans \cup {None}, order : Orders \cup {None},
         name : OrderNames \cup {None}, reject : Attempts \cup {None},
         test : BOOLEAN, newAdmin : Ids \cup {None}]
Empty == [plan |-> None, order |-> None, name |-> None, reject |-> None,
          test |-> FALSE, newAdmin |-> None]

DialogAssumption ==
    /\ None \notin Plans \cup Orders \cup Attempts \cup Names \cup Ids
    /\ None \notin OrderRows \cup AttemptRows
    /\ StarsName # None
    /\ IsAdmin \in BOOLEAN
    /\ Faults \subseteq {"raised", "restart"}
    /\ MaxMinute \in Nat

VARIABLES
    state, data,  \* of the chat, in the dispatcher's memory
    task,         \* each handler that is under way
    order,        \* orders
    attempt,      \* payment_attempts
    admins,       \* Telegram ids added to admin_users
    minute,
    invoiced,     \* orders a Stars invoice was sent for
    paid,         \* orders whose invoice was paid
    payments      \* successful_payment messages on their way

chat == <<state, data>>
rows == <<order, attempt, admins>>
stars == <<invoiced, paid, payments>>
vars == <<chat, task, rows, minute, stars>>

Steps == {"idle", "card", "find", "insert", "instruct", "invoice", "attach",
          "clear", "ask", "reject", "panel", "adminId", "role", "add"}
Tasks == [at : Steps, way : Ways, plan : Plans \cup {None},
          order : Orders \cup {None}, name : OrderNames \cup {None},
          minute : Minutes, first : BOOLEAN, attempt : Attempts \cup {None},
          dialog : Dialogs \cup {None}, id : Ids \cup {None}]
Idle == [at |-> "idle", way |-> "card", plan |-> None, order |-> None,
         name |-> None, minute |-> 0, first |-> FALSE, attempt |-> None,
         dialog |-> None, id |-> None]

TypeOK ==
    /\ state \in States
    /\ data \in Data
    /\ task \in [Handlers -> Tasks]
    /\ order \in [Orders -> OrderRows \cup {None}]
    /\ attempt \in [Attempts -> AttemptRows \cup {None}]
    /\ admins \subseteq Ids
    /\ minute \in Minutes
    /\ invoiced \subseteq Orders
    /\ paid \subseteq Orders
    /\ payments \subseteq Orders

Init ==
    /\ state = "none" /\ data = Empty
    /\ task = [h \in Handlers |-> Idle]
    /\ order = [o \in Orders |-> None]
    /\ attempt = [a \in Attempts |-> None]
    /\ admins = {}
    /\ minute = 0
    /\ invoiced = {} /\ paid = {} /\ payments = {}

Placed == {o \in Orders : order[o] # None}
Sent == {a \in Attempts : attempt[a] # None}

\* A free handler takes an update and works up to its first await.
Begin(h, t) ==
    /\ task[h].at = "idle"
    /\ task' = [task EXCEPT ![h] = t]
Return(h) == task' = [task EXCEPT ![h] = Idle]

Clear == state' = "none" /\ data' = Empty

----------------------------------------------------------------------------
(* Menus, and the buttons that begin a purchase.                           *)

\* /start, and every menu button but those of a purchase.
Menu ==
    /\ Clear
    /\ UNCHANGED <<task, rows, minute, stars>>

PayCard(h, p) ==
    /\ Begin(h, [Idle EXCEPT !.at = "card", !.plan = p])
    /\ UNCHANGED <<chat, rows, minute, stars>>

\* The plan and the customer are loaded: the chat is asked for a name.
CardReady(h) ==
    /\ task[h].at = "card"
    /\ data' = [data EXCEPT !.plan = task[h].plan]
    /\ state' = "name"
    /\ Return(h)
    /\ UNCHANGED <<rows, minute, stars>>

\* A message in waiting_display_name that is a valid name; one that is not
\* is answered and changes nothing.
OnDisplayName(h, n) ==
    /\ state = "name"
    /\ Begin(h, [Idle EXCEPT !.at = "find", !.plan = data.plan, !.name = n,
                             !.minute = minute])
    /\ UNCHANGED <<chat, rows, minute, stars>>

PayStars(h, p) ==
    /\ Begin(h, [Idle EXCEPT !.at = "find", !.way = "stars", !.plan = p,
                             !.name = StarsName, !.minute = minute])
    /\ UNCHANGED <<chat, rows, minute, stars>>

----------------------------------------------------------------------------
(* create_order: the idempotency key is looked up, then inserted.          *)

\* The order that has the plain key of a plan and a minute.
First(p, m) ==
    {o \in Placed : order[o].plan = p /\ order[o].minute = m /\ order[o].first}

Created(t, o) ==
    [t EXCEPT !.order = o, !.at = IF t.way = "card" THEN "instruct" ELSE "invoice"]

\* An order that awaits its payment is the answer; one that was paid makes
\* way for a new order, whose key carries the second as well.
FindOrder(h) ==
    /\ task[h].at = "find"
    /\ \/ \E o \in First(task[h].plan, task[h].minute) :
              task' = [task EXCEPT ![h] =
                  IF order[o].status = "AWAITING_PAYMENT"
                  THEN Created(@, o) ELSE [@ EXCEPT !.at = "insert"]]
       \/ /\ First(task[h].plan, task[h].minute) = {}
          /\ task' = [task EXCEPT ![h] = [@ EXCEPT !.at = "insert", !.first = TRUE]]
    /\ UNCHANGED <<chat, rows, minute, stars>>

Insert(h, o) ==
    /\ order[o] = None
    /\ order' = [order EXCEPT ![o] =
           [plan |-> task[h].plan, minute |-> task[h].minute,
            first |-> task[h].first, name |-> task[h].name,
            status |-> "AWAITING_PAYMENT"]]
    /\ task' = [task EXCEPT ![h] = Created(@, o)]
    /\ UNCHANGED <<chat, attempt, admins, minute, stars>>

InsertOrder_NotUnique(h, o) ==
    /\ task[h].at = "insert"
    /\ Insert(h, o)

InsertOrder(h, o) ==
    /\ task[h].at = "insert"
    /\ task[h].first => First(task[h].plan, task[h].minute) = {}
    /\ Insert(h, o)

\* orders.idempotency_key is unique; two fresh orders of one second collide
\* as well.
InsertRefused(h) ==
    /\ task[h].at = "insert"
    /\ First(task[h].plan, task[h].minute) # {}
    /\ Return(h)
    /\ UNCHANGED <<chat, rows, minute, stars>>

Instruct_PlanNotRenewed(h) ==
    /\ task[h].at = "instruct"
    /\ data' = [data EXCEPT !.order = task[h].order, !.name = task[h].name]
    /\ state' = "proof"
    /\ Return(h)
    /\ UNCHANGED <<rows, minute, stars>>

\* The chat is told what to pay and waits for the photo, wherever it was.
Instruct(h) ==
    /\ task[h].at = "instruct"
    /\ data' = [data EXCEPT !.order = task[h].order, !.plan = task[h].plan,
                            !.name = task[h].name]
    /\ state' = "proof"
    /\ Return(h)
    /\ UNCHANGED <<rows, minute, stars>>

SendInvoice(h) ==
    /\ task[h].at = "invoice"
    /\ invoiced' = invoiced \cup {task[h].order}
    /\ Return(h)
    /\ UNCHANGED <<chat, rows, minute, paid, payments>>

----------------------------------------------------------------------------
(* Proof of payment, and payments with Stars.                              *)

OnPaymentProof(h) ==
    /\ state = "proof"
    /\ Begin(h, [Idle EXCEPT !.at = "attach", !.order = data.order])
    /\ UNCHANGED <<chat, rows, minute, stars>>

AttachPaymentProof(h, a) ==
    /\ task[h].at = "attach"
    /\ attempt[a] = None
    /\ attempt' = [attempt EXCEPT ![a] =
           [order |-> task[h].order, way |-> task[h].way, status |-> "WAITING_REVIEW"]]
    /\ order' = [order EXCEPT ![task[h].order].status = "PAID"]
    /\ IF task[h].way = "card"
       THEN task' = [task EXCEPT ![h].at = "clear"]
       ELSE Return(h)
    /\ UNCHANGED <<chat, admins, minute, stars>>

\* At the end of on_payment_proof, after the admins were told, and of
\* admin_panel_entry: whatever the chat has begun meanwhile is forgotten.
ClearLate(h) ==
    /\ task[h].at = "clear"
    /\ Clear
    /\ Return(h)
    /\ UNCHANGED <<rows, minute, stars>>

PayInvoice(o) ==
    /\ o \in invoiced \ paid
    /\ paid' = paid \cup {o}
    /\ payments' = payments \cup {o}
    /\ UNCHANGED <<chat, task, rows, minute, invoiced>>

\* on_successful_payment is registered last: it sees what no state handler
\* has taken before.  What follows on the attempt is the order flow.
OnSuccessfulPayment(h, o) ==
    /\ o \in payments
    /\ state \in {"none", "adminRole"}
    /\ Begin(h, [Idle EXCEPT !.at = "attach", !.way = "stars", !.order = o])
    /\ payments' = payments \ {o}
    /\ UNCHANGED <<chat, rows, minute, invoiced, paid>>

\* A message without a text is no valid name, no photo and no number: the
\* chat is asked again.
AskAgain(o) ==
    /\ o \in payments
    /\ state \in {"name", "proof", "adminId"}
    /\ payments' = payments \ {o}
    /\ UNCHANGED <<chat, task, rows, minute, invoiced, paid>>

\* A message is a text, or the message of a payment.
Receive(msg) ==
    /\ msg \in payments \cup {None}
    /\ payments' = payments \ {msg}
    /\ UNCHANGED <<invoiced, paid>>

----------------------------------------------------------------------------
(* The admin's dialogues.                                                  *)

\* Each handler asks for the role first, which is an await.
CbReviewReject(h, a) ==
    /\ IsAdmin
    /\ a \in Sent
    /\ Begin(h, [Idle EXCEPT !.at = "ask", !.attempt = a])
    /\ UNCHANGED <<chat, rows, minute, stars>>

AskReason(h) ==
    /\ task[h].at = "ask"
    /\ state' = "reject"
    /\ data' = [data EXCEPT !.reject = task[h].attempt]
    /\ Return(h)
    /\ UNCHANGED <<rows, minute, stars>>

CbAdminPanel(h, d) ==
    /\ IsAdmin
    /\ Begin(h, [Idle EXCEPT !.at = "panel", !.dialog = d])
    /\ UNCHANGED <<chat, rows, minute, stars>>

AskedFor(d) == CASE d = "test" -> "reject"
                 [] d = "addadmin" -> "adminId"
                 [] d = "addnode" -> "nodeName"

\* The state of a rejection serves the customer id of a test as well.
OpenDialog(h) ==
    LET d == task[h].dialog IN
    /\ task[h].at = "panel"
    /\ state' = AskedFor(d)
    /\ data' = [data EXCEPT !.test = (d = "test") \/ @]
    /\ Return(h)
    /\ UNCHANGED <<rows, minute, stars>>

AdminPanelEntry(h) ==
    /\ IsAdmin
    /\ state \notin {"name", "proof"}
    /\ Begin(h, [Idle EXCEPT !.at = "clear"])
    /\ UNCHANGED <<chat, rows, minute, stars>>

\* A text that is taken for the customer id of a test configuration.
OnTestCustomer(msg) ==
    /\ state = "reject" /\ data.test
    /\ Receive(msg)
    /\ Clear
    /\ UNCHANGED <<task, rows, minute>>

OnRejectReason(h, msg) ==
    /\ state = "reject" /\ ~data.test
    /\ Receive(msg)
    /\ Clear
    /\ Begin(h, [Idle EXCEPT !.at = "reject", !.attempt = data.reject])
    /\ UNCHANGED <<rows, minute>>

RejectPayment(h) ==
    /\ task[h].at = "reject"
    /\ attempt[task[h].attempt].status = "WAITING_REVIEW"
    /\ attempt' = [attempt EXCEPT ![task[h].attempt].status = "REJECTED"]
    /\ Return(h)
    /\ UNCHANGED <<chat, order, admins, minute, stars>>

AlreadyReviewed(h) ==
    /\ task[h].at = "reject"
    /\ attempt[task[h].attempt].status # "WAITING_REVIEW"
    /\ Return(h)
    /\ UNCHANGED <<chat, rows, minute, stars>>

\* What becomes of the name is the node provisioning.
OnNodeName(msg) ==
    /\ state = "nodeName"
    /\ Receive(msg)
    /\ Clear
    /\ UNCHANGED <<task, rows, minute>>

OnAdminTelegramId(h, i) ==
    /\ state = "adminId"
    /\ Begin(h, [Idle EXCEPT !.at = "adminId", !.id = i])
    /\ UNCHANGED <<chat, rows, minute, stars>>

AskRole(h) ==
    /\ task[h].at = "adminId"
    /\ data' = [data EXCEPT !.newAdmin = task[h].id]
    /\ state' = "adminRole"
    /\ Return(h)
    /\ UNCHANGED <<rows, minute, stars>>

\* The buttons with the roles stay in the chat.
OnAdminRole(h) ==
    /\ IsAdmin
    /\ Begin(h, [Idle EXCEPT !.at = "role"])
    /\ UNCHANGED <<chat, rows, minute, stars>>

TakeNewAdmin_EvenNone(h) ==
    /\ task[h].at = "role"
    /\ task' = [task EXCEPT ![h] = [Idle EXCEPT !.at = "add", !.id = data.newAdmin]]
    /\ Clear
    /\ UNCHANGED <<rows, minute, stars>>

TakeNewAdmin(h) ==
    /\ task[h].at = "role"
    /\ task' = [task EXCEPT ![h] =
           IF data.newAdmin = None THEN Idle
           ELSE [Idle EXCEPT !.at = "add", !.id = data.newAdmin]]
    /\ Clear
    /\ UNCHANGED <<rows, minute, stars>>

\* An id that is known already is told so; the column is unique besides.
AddAdmin(h) ==
    /\ task[h].at = "add"
    /\ admins' = admins \cup {task[h].id}
    /\ Return(h)
    /\ UNCHANGED <<chat, order, attempt, minute, stars>>

----------------------------------------------------------------------------
\* An update that was not answered is delivered again: this matters for a
\* payment, which the user does not send twice.
Unanswered(hs) ==
    {o \in Orders : \E h \in hs :
        task[h].at = "attach" /\ task[h].way = "stars" /\ task[h].order = o}

HandlerRaises(h) ==
    /\ "raised" \in Faults
    /\ task[h].at # "idle"
    /\ payments' = payments \cup Unanswered({h})
    /\ Return(h)
    /\ UNCHANGED <<chat, rows, minute, invoiced, paid>>

\* State and data are in memory, and so are the handlers.
Restart ==
    /\ "restart" \in Faults
    /\ Clear
    /\ payments' = payments \cup Unanswered(Handlers)
    /\ task' = [h \in Handlers |-> Idle]
    /\ UNCHANGED <<rows, minute, invoiced, paid>>

NextMinute ==
    /\ minute < MaxMinute
    /\ minute' = minute + 1
    /\ UNCHANGED <<chat, task, rows, stars>>

HandlerStep(h) ==
    \/ CardReady(h) \/ FindOrder(h)
    \/ \E o \in Orders : InsertOrder(h, o)
    \/ InsertRefused(h) \/ Instruct(h) \/ SendInvoice(h)
    \/ \E a \in Attempts : AttachPaymentProof(h, a)
    \/ ClearLate(h) \/ AskReason(h) \/ OpenDialog(h)
    \/ RejectPayment(h) \/ AlreadyReviewed(h)
    \/ AskRole(h) \/ TakeNewAdmin(h) \/ AddAdmin(h)

Update(h) ==
    \/ \E p \in Plans : PayCard(h, p) \/ PayStars(h, p)
    \/ \E n \in Names : OnDisplayName(h, n)
    \/ OnPaymentProof(h)
    \/ \E o \in Orders : OnSuccessfulPayment(h, o)
    \/ \E a \in Attempts : CbReviewReject(h, a)
    \/ \E d \in Dialogs : CbAdminPanel(h, d)
    \/ \E msg \in Orders \cup {None} : OnRejectReason(h, msg)
    \/ \E i \in Ids : OnAdminTelegramId(h, i)
    \/ AdminPanelEntry(h) \/ OnAdminRole(h)

Next ==
    \/ \E h \in Handlers : Update(h) \/ HandlerStep(h) \/ HandlerRaises(h)
    \/ Menu \/ Restart \/ NextMinute
    \/ \E msg \in Orders \cup {None} : OnTestCustomer(msg) \/ OnNodeName(msg)
    \/ \E o \in Orders : PayInvoice(o) \/ AskAgain(o)

Spec == Init /\ [][Next]_vars

----------------------------------------------------------------------------
\* Handlers that end late set states for a dialogue the user has left and
\* clear one the user has begun; still no state is ever without the data its
\* handler reads, and a photo is for an order of the plan it was asked for.
DialogHasData ==
    /\ state = "name" => data.plan # None
    /\ state = "proof" => data.order \in Placed /\ order[data.order].plan = data.plan
    /\ state = "reject" => data.test \/ data.reject \in Sent
    /\ state = "adminRole" => data.newAdmin # None

\* Repeated requests of one minute are absorbed, also when they interleave:
\* a plan gets a second order in a minute only once the first one was paid.
RepeatsAbsorbed ==
    \A o1, o2 \in Placed :
        /\ o1 # o2
        /\ order[o1].plan = order[o2].plan /\ order[o1].minute = order[o2].minute
        => \E o \in First(order[o1].plan, order[o1].minute) :
               order[o].status # "AWAITING_PAYMENT"

=============================================================================
