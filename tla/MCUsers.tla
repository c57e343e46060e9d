------------------------------ MODULE MCUsers -------------------------------
(***************************************************************************)
(* What the users meet: the device limit at a node (SessionAdmission), the *)
(* dialogue of the bot with one chat (BotDialog) and its tests             *)
(* (TestConfigs).  They share no state in these models, so that they are   *)
(* explored one after the other: `part` is chosen in the initial state and *)
(* says whose behaviour this is.  The dialogue is explored twice, of a     *)
(* customer and of an admin, for whom fewer plans and orders have to do.   *)
(***************************************************************************)
EXTENDS SessionAdmission, TLC

CONSTANTS
    Alike,           \* some of the connections: more would make TLC slower
    None,
    Plans, Orders, Attempts, Names, StarsName, Ids, Handlers, ChatFaults,
    MaxMinute,
    AdminPlans, AdminOrders, AdminNames, AdminMaxMinute,
    Configs, Customers, SelectorOutcomes, KvOutcomes

VARIABLES
    part,
    state, data, task, order, attempt, admins, minute, invoiced, paid, payments,
    test, expired, credential, testTask

chatVars == <<state, data, task, order, attempt, admins, minute, invoiced, paid,
              payments>>
testVars == <<test, expired, credential, testTask>>
userVars == <<part, vars, chatVars, testVars>>

Customer == INSTANCE BotDialog WITH IsAdmin <- FALSE, Faults <- ChatFaults
Admin == INSTANCE BotDialog WITH
    IsAdmin <- TRUE, Faults <- ChatFaults, MaxMinute <- AdminMaxMinute,
    Plans <- AdminPlans, Orders <- AdminOrders, Names <- AdminNames
Tests == INSTANCE TestConfigs WITH task <- testTask

ASSUME UsersAssumption ==
    /\ Customer!DialogAssumption
    /\ Admin!DialogAssumption
    /\ Tests!TestsAssumption

UserInit ==
    /\ part \in {"sessions", "customer", "admin", "tests"}
    /\ IF part = "admin" THEN Admin!Init ELSE Customer!Init
    /\ Init
    /\ Tests!Init

SessionsNext == part = "sessions" /\ Next /\ UNCHANGED <<part, chatVars, testVars>>
CustomerNext == part = "customer" /\ Customer!Next /\ UNCHANGED <<part, vars, testVars>>
AdminNext == part = "admin" /\ Admin!Next /\ UNCHANGED <<part, vars, testVars>>
TestsNext == part = "tests" /\ Tests!Next /\ UNCHANGED <<part, vars, chatVars>>

UserNext == SessionsNext \/ CustomerNext \/ AdminNext \/ TestsNext
UserSpec == UserInit /\ [][UserNext]_userVars

Symmetric ==
    Permutations(Alike) \cup Permutations(Orders) \cup Permutations(Handlers)

----------------------------------------------------------------------------
\* Dialogues and tests are in states the code can be in, and what a handler
\* finds is never of another kind than it expects.
ChatTypesOK ==
    /\ IF part = "admin" THEN Admin!TypeOK ELSE Customer!TypeOK
    /\ Tests!TypeOK

\* See BotDialog and TestConfigs.
DialogHasData == IF part = "admin" THEN Admin!DialogHasData ELSE Customer!DialogHasData
RepeatsAbsorbed == part = "customer" => Customer!RepeatsAbsorbed
TestsBounded == Tests!TestsBounded
=============================================================================
