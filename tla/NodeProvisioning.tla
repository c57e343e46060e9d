-------------------------- MODULE NodeProvisioning --------------------------
(***************************************************************************)
(* Adding a node (control-plane/domain/provisioning.py, driven by          *)
(* on_node_name in bot/router.py): a chain of Cloudflare calls without     *)
(* compensation, and the node's row at its end.  Two admins may add nodes  *)
(* at once.  Cloudflare's side is external: a namespace title is unique in *)
(* an account, an upload replaces the script of that name.                 *)
(***************************************************************************)
EXTENDS Naturals, FiniteSets

CONSTANTS
    Nodes,    \* node ids
    Names,    \* worker script names
    Admins,   \* coroutines handling on_node_name
    None

VARIABLES
    namespace,  \* by name: the KV namespace, or None
    script,     \* by name: the uploaded worker, or None
    row,        \* by node id: its row in nodes, or None
    job         \* the local state of each coroutine

provisioningVars == <<namespace, script, row, job>>

Keys == {"nodeSecret", "proxyUsers"}
Namespaces == [owner : Nodes, keys : SUBSET Keys]
\* domain: mainDomain is embedded (the bundle refuses to boot without it);
\* public: the workers.dev route is on.
Scripts == [node : Nodes, domain : BOOLEAN, public : BOOLEAN]
States == {"PROVISIONING", "ONLINE", "DEGRADED", "OFFLINE"}
Scores == 0..100
Rows == [name : Names, state : States, score : Scores]

ASSUME ProvisioningAssumption ==
    /\ None \notin Nodes
    /\ None \notin Names
    /\ None \notin Namespaces
    /\ None \notin Scripts
    /\ None \notin Rows

Steps == {"idle", "namespace", "upload", "enable", "reupload", "reassert",
          "secret", "users", "insert"}
Jobs == [at : Steps, node : Nodes \cup {None}, name : Names \cup {None}]
Idle == [at |-> "idle", node |-> None, name |-> None]

ProvisioningTypeOK ==
    /\ namespace \in [Names -> Namespaces \cup {None}]
    /\ script \in [Names -> Scripts \cup {None}]
    /\ row \in [Nodes -> Rows \cup {None}]
    /\ job \in [Admins -> Jobs]
    /\ \A a \in Admins : job[a].at # "idle" =>
           job[a].node \in Nodes /\ job[a].name \in Names

ProvisioningInit ==
    /\ namespace = [x \in Names |-> None]
    /\ script = [x \in Names |-> None]
    /\ row = [n \in Nodes |-> None]
    /\ job = [a \in Admins |-> Idle]

Rowed == {n \in Nodes : row[n] # None}
\* A node id is a fresh UUID.
Used(n) ==
    \/ n \in Rowed
    \/ \E a \in Admins : job[a].node = n
    \/ \E x \in Names : namespace[x] # None /\ namespace[x].owner = n

Goto(a, step) == job' = [job EXCEPT ![a].at = step]

----------------------------------------------------------------------------
\* No node of that name is registered; the row may come two minutes later.
OnNodeName(a, n, x) ==
    /\ job[a].at = "idle"
    /\ ~Used(n)
    /\ \A m \in Rowed : row[m].name # x
    /\ job' = [job EXCEPT ![a] = [at |-> "namespace", node |-> n, name |-> x]]
    /\ UNCHANGED <<namespace, script, row>>

CreateNamespace(a) ==
    LET x == job[a].name IN
    /\ job[a].at = "namespace"
    /\ namespace[x] = None
    /\ namespace' = [namespace EXCEPT ![x] = [owner |-> job[a].node, keys |-> {}]]
    /\ Goto(a, "upload")
    /\ UNCHANGED <<script, row>>

\* The script is replaced; the upload may reset the workers.dev route.
Put(a, domain) ==
    LET x == job[a].name IN
    \E public \in {FALSE, script[x] # None /\ script[x].public} :
        script' = [script EXCEPT ![x] =
            [node |-> job[a].node, domain |-> domain, public |-> public]]

UploadWorkerScript(a) ==
    /\ job[a].at = "upload"
    /\ Put(a, FALSE)
    /\ Goto(a, "enable")
    /\ UNCHANGED <<namespace, row>>

\* The first call turns the route on and learns the URL.
EnableWorkersDev(a) ==
    LET x == job[a].name IN
    /\ job[a].at = "enable"
    /\ script[x] # None
    /\ script' = [script EXCEPT ![x].public = TRUE]
    /\ Goto(a, "reupload")
    /\ UNCHANGED <<namespace, row>>

Reupload_NotReasserted(a) ==
    /\ job[a].at = "reupload"
    /\ Put(a, TRUE)
    /\ Goto(a, "secret")
    /\ UNCHANGED <<namespace, row>>

\* The URL is embedded by a second upload.
Reupload(a) ==
    /\ job[a].at = "reupload"
    /\ Put(a, TRUE)
    /\ Goto(a, "reassert")
    /\ UNCHANGED <<namespace, row>>

\* The second call turns the route on again.
ReassertWorkersDev(a) ==
    LET x == job[a].name IN
    /\ job[a].at = "reassert"
    /\ script[x] # None
    /\ script' = [script EXCEPT ![x].public = TRUE]
    /\ Goto(a, "secret")
    /\ UNCHANGED <<namespace, row>>

PutValue(a, key) ==
    namespace' = [namespace EXCEPT ![job[a].name].keys = @ \cup {key}]

\* seed_node_kv writes two values, one request each.
SeedNodeSecret(a) ==
    /\ job[a].at = "secret"
    /\ namespace[job[a].name] # None
    /\ PutValue(a, "nodeSecret")
    /\ Goto(a, "users")
    /\ UNCHANGED <<script, row>>

SeedProxyUsers(a) ==
    /\ job[a].at = "users"
    /\ namespace[job[a].name] # None
    /\ PutValue(a, "proxyUsers")
    /\ Goto(a, "insert")
    /\ UNCHANGED <<script, row>>

InsertNode(a) ==
    /\ job[a].at = "insert"
    /\ row' = [row EXCEPT ![job[a].node] =
           [name |-> job[a].name, state |-> "PROVISIONING", score |-> 0]]
    /\ job' = [job EXCEPT ![a] = Idle]
    /\ UNCHANGED <<namespace, script>>

\* A call fails (a title that exists among the reasons), or the process is
\* restarted: what was created stays.  A call that took effect and then
\* failed is the call followed by this.
ProvisioningFails(a) ==
    /\ job[a].at # "idle"
    /\ job' = [job EXCEPT ![a] = Idle]
    /\ UNCHANGED <<namespace, script, row>>

----------------------------------------------------------------------------
Provision(a) ==
    \/ CreateNamespace(a) \/ UploadWorkerScript(a) \/ EnableWorkersDev(a)
    \/ Reupload(a) \/ ReassertWorkersDev(a)
    \/ SeedNodeSecret(a) \/ SeedProxyUsers(a)
    \/ InsertNode(a) \/ ProvisioningFails(a)

ProvisioningNext ==
    \E a \in Admins :
        \/ \E n \in Nodes, x \in Names : OnNodeName(a, n, x)
        \/ Provision(a)

----------------------------------------------------------------------------
\* A registered node is complete and its own: no step skipped, no resource
\* of another attempt adopted, whatever failed or ran at the same time.  So no
\* two nodes have one name, although the column is not unique and its check
\* and the insert are minutes apart.
RowsAreDeployed ==
    \A n \in Rowed :
        LET x == row[n].name IN
        /\ namespace[x] = [owner |-> n, keys |-> Keys]
        /\ script[x] = [node |-> n, domain |-> TRUE, public |-> TRUE]
=============================================================================
