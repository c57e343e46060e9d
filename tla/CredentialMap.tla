--------------------------- MODULE CredentialMap ----------------------------
(***************************************************************************)
(* The credential map of one node and everybody who writes it              *)
(* (control-plane/domain/kv_sync.py): handlers of the bot that sync the    *)
(* credential of an approved order or a test, and sweeps that disable      *)
(* exhausted ones.  Each reads the whole map, changes an entry, and writes *)
(* the whole map back, with two requests to Cloudflare in between.         *)
(***************************************************************************)
EXTENDS Naturals, FiniteSets

CONSTANTS
    Credentials,
    Syncers,        \* handlers that call sync_assignment
    Sweepers,       \* services that call set_entry_status
    Nothing,
    WriterOutcomes, \* what get_node_kv_writer may do
    MaxSyncs,       \* bound: calls of sync_assignment
    MaxFaults       \* bound: requests that fail or are misread

\* kv_sync.py does not import `select`: WriterOutcomes is {"raises"} as the code
\* stands, and no call writes anything; {"works"} is the code with the import.
ASSUME MapAssumption ==
    /\ Nothing \notin Credentials
    /\ Syncers \cap Sweepers = {}
    /\ WriterOutcomes \subseteq {"works", "raises"}
    /\ MaxSyncs \in Nat
    /\ MaxFaults \in Nat

Writers == Syncers \cup Sweepers
Entries == {"absent", "active", "disabled"}
Maps == [Credentials -> Entries]
NoMap == [c \in Credentials |-> "absent"]

VARIABLES
    kv,         \* the value of the key proxyUsers
    exhausted,  \* credentials whose quota is used up
    writer,     \* each call of sync_assignment or set_entry_status
    syncs,
    faults

mapVars == <<kv, exhausted, writer, syncs, faults>>

Calls == [at : {"idle", "read", "write"}, cred : Credentials \cup {Nothing},
          map : Maps]
Free == [at |-> "idle", cred |-> Nothing, map |-> NoMap]

MapTypeOK ==
    /\ kv \in Maps
    /\ exhausted \subseteq Credentials
    /\ writer \in [Writers -> Calls]
    /\ \A w \in Writers : writer[w].at # "idle" => writer[w].cred \in Credentials
    /\ syncs \in 0..MaxSyncs
    /\ faults \in 0..MaxFaults

MapInit ==
    /\ kv = NoMap
    /\ exhausted = {}
    /\ writer = [w \in Writers |-> Free]
    /\ syncs = 0
    /\ faults = 0

Call(w, c) ==
    /\ writer[w].at = "idle"
    /\ writer' = [writer EXCEPT ![w] = [Free EXCEPT !.at = "read", !.cred = c]]
Ends(w) == writer' = [writer EXCEPT ![w] = Free]

\* A new credential, or one whose approval was repeated.
SyncAssignment(w, c) ==
    /\ syncs < MaxSyncs
    /\ Call(w, c)
    /\ syncs' = syncs + 1
    /\ UNCHANGED <<kv, exhausted, faults>>

\* Every sweep disables every exhausted credential.
SetEntryStatus(s, c) ==
    /\ c \in exhausted
    /\ Call(s, c)
    /\ UNCHANGED <<kv, exhausted, syncs, faults>>

\* The NameError leaves both of them before a request is made.
GetNodeKvWriterRaises(w) ==
    /\ "raises" \in WriterOutcomes
    /\ writer[w].at = "read"
    /\ Ends(w)
    /\ UNCHANGED <<kv, exhausted, syncs, faults>>

ReadEntries(w) ==
    /\ "works" \in WriterOutcomes
    /\ writer[w].at = "read"
    /\ writer' = [writer EXCEPT ![w] = [@ EXCEPT !.at = "write", !.map = kv]]
    /\ UNCHANGED <<kv, exhausted, syncs, faults>>

\* A value that is no JSON, or a 404, is taken for an empty map.
MisreadEntries(w) ==
    /\ "works" \in WriterOutcomes
    /\ faults < MaxFaults
    /\ writer[w].at = "read"
    /\ writer' = [writer EXCEPT ![w] = [@ EXCEPT !.at = "write", !.map = NoMap]]
    /\ faults' = faults + 1
    /\ UNCHANGED <<kv, exhausted, syncs>>

\* What a call writes: its entry is active, or disabled if it was there.
Written(w) ==
    LET m == writer[w].map
        c == writer[w].cred IN
    IF w \in Syncers THEN [m EXCEPT ![c] = "active"]
                     ELSE [m EXCEPT ![c] = IF @ = "absent" THEN @ ELSE "disabled"]

\* set_entry_status writes nothing when its key is not in the map.
WriteEntries(w) ==
    /\ writer[w].at = "write"
    /\ kv' = IF w \in Sweepers /\ writer[w].map[writer[w].cred] = "absent"
             THEN kv ELSE Written(w)
    /\ Ends(w)
    /\ UNCHANGED <<exhausted, syncs, faults>>

\* The namespace is not found, or a request raises.
CallFails(w) ==
    /\ faults < MaxFaults
    /\ writer[w].at # "idle"
    /\ Ends(w)
    /\ faults' = faults + 1
    /\ UNCHANGED <<kv, exhausted, syncs>>

Exhaust(c) ==
    /\ exhausted' = exhausted \cup {c}
    /\ UNCHANGED <<kv, writer, syncs, faults>>

CallStep(w) == GetNodeKvWriterRaises(w) \/ ReadEntries(w) \/ WriteEntries(w)

MapNext ==
    \/ \E c \in Credentials :
           \/ Exhaust(c)
           \/ \E w \in Syncers : SyncAssignment(w, c)
           \/ \E s \in Sweepers : SetEntryStatus(s, c)
    \/ \E w \in Writers : CallStep(w) \/ MisreadEntries(w) \/ CallFails(w)

=============================================================================
