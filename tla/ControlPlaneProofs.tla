------------------------- MODULE ControlPlaneProofs -------------------------
(***************************************************************************)
(* Proofs about what the control plane does on its own: NodeProvisioning   *)
(* and NodeHealth, for any number of nodes, names and admins, and          *)
(* StartupSeeds, for any number of instances and of starts.                *)
(***************************************************************************)
EXTENDS MCControlPlane, FiniteSetTheorems, TLAPS

Active(a) == job[a].at # "idle"
\* The job has passed the call that only one attempt at a name survives.
Past(a) == job[a].at \notin {"idle", "namespace"}

Deployed(n) == [node |-> n, domain |-> TRUE, public |-> TRUE]

\* What a job has reached so far, step by step.
Progress(a) ==
    LET x == job[a].name
        n == job[a].node IN
    /\ Past(a) => namespace[x] # None /\ namespace[x].owner = n
    /\ job[a].at \in {"enable", "reupload", "reassert"} =>
           script[x] # None /\ script[x].node = n
    /\ job[a].at = "reassert" => script[x].domain = TRUE
    /\ job[a].at \in {"secret", "users", "insert"} => script[x] = Deployed(n)
    /\ job[a].at \in {"users", "insert"} => "nodeSecret" \in namespace[x].keys
    /\ job[a].at = "insert" => "proxyUsers" \in namespace[x].keys

\* A node id belongs to one job or to one row.
FreshIds ==
    \A a \in Admins : Active(a) =>
        /\ row[job[a].node] = None
        /\ \A b \in Admins \ {a} : Active(b) => job[b].node # job[a].node

\* RowsAreDeployed needs the progress of the jobs that lead to the rows, and
\* the owner of a namespace to tell the jobs at one name apart.
ProvisioningInv ==
    /\ ProvisioningTypeOK
    /\ \A a \in Admins : job[a].at = "idle" => job[a].node = None
    /\ FreshIds
    /\ \A a \in Admins : Progress(a)
    /\ RowsAreDeployed

LEMMA ProvisioningInvInit == ProvisioningInit => ProvisioningInv
  BY ProvisioningAssumption
  DEF ProvisioningInit, ProvisioningInv, ProvisioningTypeOK, FreshIds, Progress,
      RowsAreDeployed, Rowed, Past, Active, Idle, Jobs, Steps

\* The job at work on a name past its namespace is the only one, and no
\* row has that name.
LEMMA NameIsOwned ==
    ASSUME ProvisioningInv, NEW a \in Admins, Past(a)
    PROVE  /\ job[a].name \in Names
           /\ job[a].node \in Nodes
           /\ \A b \in Admins \ {a} : Past(b) => job[b].name # job[a].name
           /\ \A n \in Rowed : row[n].name # job[a].name
<1>1. /\ job[a].name \in Names
      /\ job[a].node \in Nodes
  BY DEF ProvisioningInv, ProvisioningTypeOK, Past
<1>2. namespace[job[a].name] # None /\ namespace[job[a].name].owner = job[a].node
  BY DEF ProvisioningInv, Progress
<1>3. ASSUME NEW b \in Admins \ {a}, Past(b), job[b].name = job[a].name
      PROVE  FALSE
  <2>1. namespace[job[b].name].owner = job[b].node
    BY <1>3 DEF ProvisioningInv, Progress
  <2>2. job[b].node # job[a].node
    BY <1>3 DEF ProvisioningInv, FreshIds, Active, Past
  <2> QED
    BY <1>2, <1>3, <2>1, <2>2
<1>4. ASSUME NEW n \in Rowed, row[n].name = job[a].name
      PROVE  FALSE
  <2>1. namespace[row[n].name] = [owner |-> n, keys |-> Keys]
    BY DEF ProvisioningInv, RowsAreDeployed
  <2>2. row[job[a].node] = None
    BY DEF ProvisioningInv, FreshIds, Active, Past
  <2> QED
    BY <1>2, <1>4, <2>1, <2>2 DEF Rowed
<1> QED
  BY <1>1, <1>3, <1>4

\* The step of a job that leaves its id alone and touches nothing but its
\* name's namespace and script disturbs no other job and no row.
LEMMA OthersUndisturbed ==
    ASSUME ProvisioningInv, NEW a \in Admins, Past(a),
           NEW step \in Steps \ {"idle", "namespace"},
           Goto(a, step), UNCHANGED row,
           namespace' \in [Names -> Namespaces \cup {None}],
           script' \in [Names -> Scripts \cup {None}],
           \A x \in Names \ {job[a].name} :
               namespace'[x] = namespace[x] /\ script'[x] = script[x]
    PROVE  /\ ProvisioningTypeOK'
           /\ \A b \in Admins : job'[b].at = "idle" => job'[b].node = None
           /\ FreshIds'
           /\ \A b \in Admins \ {a} : Progress(b)'
           /\ RowsAreDeployed'
           /\ job'[a] = [job[a] EXCEPT !.at = step]
           /\ Past(a)'
<1>1. /\ job \in [Admins -> Jobs]
      /\ job' = [job EXCEPT ![a].at = step]
      /\ row' = row
  BY DEF Goto, ProvisioningInv, ProvisioningTypeOK
<1>2. /\ job'[a] = [job[a] EXCEPT !.at = step]
      /\ job'[a].at = step
      /\ job'[a].node = job[a].node
      /\ job'[a].name = job[a].name
      /\ \A b \in Admins \ {a} : job'[b] = job[b]
  BY <1>1 DEF Jobs
<1>3. job' \in [Admins -> Jobs]
  BY <1>1 DEF Jobs
<1>4. ProvisioningTypeOK'
  BY <1>1, <1>2, <1>3 DEF ProvisioningInv, ProvisioningTypeOK, Past
<1>5. \A b \in Admins : job'[b].at = "idle" => job'[b].node = None
  BY <1>2 DEF ProvisioningInv
<1>6. FreshIds'
  BY <1>1, <1>2 DEF ProvisioningInv, FreshIds, Active, Past
<1>7. ASSUME NEW b \in Admins \ {a}
      PROVE  Progress(b)'
  <2>1. CASE Past(b)
    <3>1. job[b].name \in Names \ {job[a].name}
      BY <2>1, NameIsOwned DEF ProvisioningInv, ProvisioningTypeOK, Past
    <3>2. /\ namespace'[job[b].name] = namespace[job[b].name]
          /\ script'[job[b].name] = script[job[b].name]
      BY <3>1
    <3>3. Progress(b)
      BY DEF ProvisioningInv
    <3> QED
      BY <1>2, <3>2, <3>3 DEF Progress, Past, Deployed
  <2>2. CASE ~Past(b)
    BY <1>2, <2>2 DEF Progress, Past
  <2> QED
    BY <2>1, <2>2
<1>8. RowsAreDeployed'
  <2>1. Rowed' = Rowed
    BY <1>1 DEF Rowed
  <2>2. ASSUME NEW n \in Rowed
        PROVE  /\ namespace'[row'[n].name] = [owner |-> n, keys |-> Keys]
               /\ script'[row'[n].name] = [node |-> n, domain |-> TRUE, public |-> TRUE]
    <3>1. row[n].name \in Names \ {job[a].name}
      BY NameIsOwned DEF ProvisioningInv, ProvisioningTypeOK, Rowed, Rows
    <3>2. /\ namespace[row[n].name] = [owner |-> n, keys |-> Keys]
          /\ script[row[n].name] = [node |-> n, domain |-> TRUE, public |-> TRUE]
      BY DEF ProvisioningInv, RowsAreDeployed
    <3> QED
      BY <1>1, <3>1, <3>2
  <2> QED
    BY <2>1, <2>2 DEF RowsAreDeployed, Keys
<1>9. Past(a)'
  BY <1>2 DEF Past
<1> QED
  BY <1>2, <1>4, <1>5, <1>6, <1>7, <1>8, <1>9

LEMMA OnNodeNamePreserves ==
    ASSUME ProvisioningInv, NEW a \in Admins, NEW n \in Nodes, NEW x \in Names,
           OnNodeName(a, n, x)
    PROVE  ProvisioningInv'
<1>1. /\ job[a].at = "idle"
      /\ row[n] = None
      /\ \A b \in Admins : job[b].node # n
      /\ job' = [job EXCEPT ![a] = [at |-> "namespace", node |-> n, name |-> x]]
      /\ namespace' = namespace /\ script' = script /\ row' = row
  BY DEF OnNodeName, Used, Rowed
<1>2. /\ job'[a] = [at |-> "namespace", node |-> n, name |-> x]
      /\ \A b \in Admins \ {a} : job'[b] = job[b]
      /\ job' \in [Admins -> Jobs]
  BY <1>1 DEF ProvisioningInv, ProvisioningTypeOK, Jobs, Steps
<1>3. ProvisioningTypeOK'
  BY <1>1, <1>2 DEF ProvisioningInv, ProvisioningTypeOK
<1>4. \A b \in Admins : job'[b].at = "idle" => job'[b].node = None
  BY <1>2 DEF ProvisioningInv
<1>5. FreshIds'
  BY <1>1, <1>2 DEF ProvisioningInv, FreshIds, Active
<1>6. ASSUME NEW b \in Admins
      PROVE  Progress(b)'
  BY <1>1, <1>2 DEF ProvisioningInv, Progress, Past, Deployed
<1>7. RowsAreDeployed'
  BY <1>1 DEF ProvisioningInv, RowsAreDeployed, Rowed
<1> QED
  BY <1>3, <1>4, <1>5, <1>6, <1>7 DEF ProvisioningInv

\* The title of a namespace is unique: no job past its namespace and no row
\* has the name whose namespace is created here.
LEMMA CreateNamespacePreserves ==
    ASSUME ProvisioningInv, NEW a \in Admins, CreateNamespace(a)
    PROVE  ProvisioningInv'
<1> DEFINE x == job[a].name
<1>1. /\ job[a].at = "namespace"
      /\ x \in Names
      /\ job[a].node \in Nodes
      /\ namespace[x] = None
      /\ namespace' = [namespace EXCEPT ![x] = [owner |-> job[a].node, keys |-> {}]]
      /\ job' = [job EXCEPT ![a].at = "upload"]
      /\ script' = script /\ row' = row
  BY DEF CreateNamespace, Goto, ProvisioningInv, ProvisioningTypeOK
<1>2. /\ job'[a] = [job[a] EXCEPT !.at = "upload"]
      /\ job'[a].at = "upload"
      /\ job'[a].node = job[a].node
      /\ job'[a].name = x
      /\ \A b \in Admins \ {a} : job'[b] = job[b]
      /\ job' \in [Admins -> Jobs]
  BY <1>1 DEF ProvisioningInv, ProvisioningTypeOK, Jobs, Steps
<1>3. /\ namespace'[x] = [owner |-> job[a].node, keys |-> {}]
      /\ \A y \in Names \ {x} : namespace'[y] = namespace[y]
      /\ namespace' \in [Names -> Namespaces \cup {None}]
      /\ namespace'[x] # None
  <2>1. [owner |-> job[a].node, keys |-> {}] \in Namespaces
    BY <1>1 DEF Namespaces
  <2>2. namespace' \in [Names -> Namespaces \cup {None}]
    BY <1>1, <2>1 DEF ProvisioningInv, ProvisioningTypeOK
  <2>3. [owner |-> job[a].node, keys |-> {}] # None
    BY <2>1, ProvisioningAssumption
  <2> QED
    BY <1>1, <2>2, <2>3 DEF ProvisioningInv, ProvisioningTypeOK
<1>4. ProvisioningTypeOK'
  BY <1>1, <1>2, <1>3 DEF ProvisioningInv, ProvisioningTypeOK
<1>5. \A b \in Admins : job'[b].at = "idle" => job'[b].node = None
  BY <1>2 DEF ProvisioningInv
<1>6. FreshIds'
  BY <1>1, <1>2 DEF ProvisioningInv, FreshIds, Active
<1>7. Progress(a)'
  BY <1>2, <1>3 DEF Progress, Past
<1>8. ASSUME NEW b \in Admins \ {a}
      PROVE  Progress(b)'
  <2>1. Progress(b)
    BY DEF ProvisioningInv
  <2>2. CASE Past(b)
    <3>1. job[b].name \in Names \ {x}
      BY <1>1, <2>1, <2>2 DEF Progress, ProvisioningInv, ProvisioningTypeOK, Past
    <3> QED
      BY <1>1, <1>2, <1>3, <2>1, <3>1 DEF Progress, Past, Deployed
  <2>3. CASE ~Past(b)
    BY <1>2, <2>3 DEF Progress, Past
  <2> QED
    BY <2>2, <2>3
<1>9. RowsAreDeployed'
  <2>1. ASSUME NEW n \in Rowed
        PROVE  row[n].name \in Names \ {x}
    <3>1. namespace[row[n].name] = [owner |-> n, keys |-> Keys]
      BY DEF ProvisioningInv, RowsAreDeployed
    <3>2. [owner |-> n, keys |-> Keys] # None
      BY ProvisioningAssumption DEF Namespaces, Rowed
    <3> QED
      BY <1>1, <3>1, <3>2 DEF ProvisioningInv, ProvisioningTypeOK, Rowed, Rows
  <2> QED
    BY <1>1, <1>3, <2>1 DEF ProvisioningInv, RowsAreDeployed, Rowed
<1> QED
  BY <1>4, <1>5, <1>6, <1>7, <1>8, <1>9 DEF ProvisioningInv

\* A script is written under the job's own name only.
LEMMA WriteScript ==
    ASSUME ProvisioningInv, NEW a \in Admins, Past(a), NEW s \in Scripts,
           script' = [script EXCEPT ![job[a].name] = s]
    PROVE  /\ script' \in [Names -> Scripts \cup {None}]
           /\ script'[job[a].name] = s
           /\ s # None
           /\ \A x \in Names \ {job[a].name} : script'[x] = script[x]
  BY NameIsOwned, ProvisioningAssumption DEF ProvisioningInv, ProvisioningTypeOK

LEMMA PutWrites ==
    ASSUME ProvisioningInv, NEW a \in Admins, Past(a), NEW domain \in BOOLEAN,
           Put(a, domain)
    PROVE  \E public \in BOOLEAN :
               script' = [script EXCEPT ![job[a].name] =
                   [node |-> job[a].node, domain |-> domain, public |-> public]]
<1>1. PICK public \in {FALSE, script[job[a].name] # None /\ script[job[a].name].public} :
          script' = [script EXCEPT ![job[a].name] =
              [node |-> job[a].node, domain |-> domain, public |-> public]]
  BY DEF Put
<1>2. public \in BOOLEAN
  BY NameIsOwned DEF ProvisioningInv, ProvisioningTypeOK, Scripts
<1> QED
  BY <1>1, <1>2

LEMMA UploadPreserves ==
    ASSUME ProvisioningInv, NEW a \in Admins, UploadWorkerScript(a)
    PROVE  ProvisioningInv'
<1>1. /\ job[a].at = "upload" /\ Past(a)
      /\ Put(a, FALSE) /\ Goto(a, "enable")
      /\ UNCHANGED row /\ namespace' = namespace
      /\ namespace' \in [Names -> Namespaces \cup {None}]
  BY DEF UploadWorkerScript, Past, ProvisioningInv, ProvisioningTypeOK
<1>2. PICK public \in BOOLEAN :
          script' = [script EXCEPT ![job[a].name] =
              [node |-> job[a].node, domain |-> FALSE, public |-> public]]
  BY <1>1, PutWrites
<1> DEFINE s == [node |-> job[a].node, domain |-> FALSE, public |-> public]
<1>3. s \in Scripts
  BY <1>1, NameIsOwned DEF Scripts
<1>4. /\ script' \in [Names -> Scripts \cup {None}]
      /\ script'[job[a].name] = s
      /\ s # None
      /\ \A x \in Names \ {job[a].name} : script'[x] = script[x]
  BY <1>1, <1>2, <1>3, WriteScript
<1>5. /\ ProvisioningTypeOK'
      /\ \A b \in Admins : job'[b].at = "idle" => job'[b].node = None
      /\ FreshIds'
      /\ \A b \in Admins \ {a} : Progress(b)'
      /\ RowsAreDeployed'
      /\ job'[a] = [job[a] EXCEPT !.at = "enable"]
  BY <1>1, <1>4, OthersUndisturbed DEF Steps
<1>6. Progress(a)'
  BY <1>1, <1>4, <1>5 DEF Progress, Past, ProvisioningInv, ProvisioningTypeOK, Jobs
<1> QED
  BY <1>5, <1>6 DEF ProvisioningInv

LEMMA EnablePreserves ==
    ASSUME ProvisioningInv, NEW a \in Admins, EnableWorkersDev(a)
    PROVE  ProvisioningInv'
<1>1. /\ job[a].at = "enable" /\ Past(a) /\ Progress(a)
      /\ script[job[a].name] # None /\ Goto(a, "reupload")
      /\ script' = [script EXCEPT ![job[a].name].public = TRUE]
      /\ UNCHANGED row /\ namespace' = namespace
      /\ namespace' \in [Names -> Namespaces \cup {None}]
  BY DEF EnableWorkersDev, Past, ProvisioningInv, ProvisioningTypeOK
<1> DEFINE s == [script[job[a].name] EXCEPT !.public = TRUE]
<1>2. /\ script[job[a].name] \in Scripts
      /\ script[job[a].name].node = job[a].node
  BY <1>1, NameIsOwned DEF ProvisioningInv, ProvisioningTypeOK, Progress
<1>3. s \in Scripts /\ script' = [script EXCEPT ![job[a].name] = s]
  BY <1>1, <1>2, NameIsOwned DEF Scripts, ProvisioningInv, ProvisioningTypeOK
<1>4. /\ script' \in [Names -> Scripts \cup {None}]
      /\ script'[job[a].name] = s
      /\ s # None
      /\ \A x \in Names \ {job[a].name} : script'[x] = script[x]
  BY <1>1, <1>3, WriteScript
<1>5. /\ ProvisioningTypeOK'
      /\ \A b \in Admins : job'[b].at = "idle" => job'[b].node = None
      /\ FreshIds'
      /\ \A b \in Admins \ {a} : Progress(b)'
      /\ RowsAreDeployed'
      /\ job'[a] = [job[a] EXCEPT !.at = "reupload"]
  BY <1>1, <1>4, OthersUndisturbed DEF Steps
<1>6. Progress(a)'
  BY <1>1, <1>2, <1>4, <1>5
  DEF Progress, Past, Deployed, ProvisioningInv, ProvisioningTypeOK, Jobs
<1> QED
  BY <1>5, <1>6 DEF ProvisioningInv

LEMMA ReuploadPreserves ==
    ASSUME ProvisioningInv, NEW a \in Admins, Reupload(a)
    PROVE  ProvisioningInv'
<1>1. /\ job[a].at = "reupload" /\ Past(a)
      /\ Put(a, TRUE) /\ Goto(a, "reassert")
      /\ UNCHANGED row /\ namespace' = namespace
      /\ namespace' \in [Names -> Namespaces \cup {None}]
  BY DEF Reupload, Past, ProvisioningInv, ProvisioningTypeOK
<1>2. PICK public \in BOOLEAN :
          script' = [script EXCEPT ![job[a].name] =
              [node |-> job[a].node, domain |-> TRUE, public |-> public]]
  BY <1>1, PutWrites
<1> DEFINE s == [node |-> job[a].node, domain |-> TRUE, public |-> public]
<1>3. s \in Scripts /\ script' = [script EXCEPT ![job[a].name] = s]
  BY <1>1, <1>2, NameIsOwned DEF Scripts, ProvisioningInv, ProvisioningTypeOK
<1>4. /\ script' \in [Names -> Scripts \cup {None}]
      /\ script'[job[a].name] = s
      /\ s # None
      /\ \A x \in Names \ {job[a].name} : script'[x] = script[x]
  BY <1>1, <1>3, WriteScript
<1>5. /\ ProvisioningTypeOK'
      /\ \A b \in Admins : job'[b].at = "idle" => job'[b].node = None
      /\ FreshIds'
      /\ \A b \in Admins \ {a} : Progress(b)'
      /\ RowsAreDeployed'
      /\ job'[a] = [job[a] EXCEPT !.at = "reassert"]
  BY <1>1, <1>4, OthersUndisturbed DEF Steps
<1>6. Progress(a)'
  <2>1. /\ job'[a].at = "reassert"
        /\ job'[a].name = job[a].name
        /\ job'[a].node = job[a].node
    BY <1>5 DEF ProvisioningInv, ProvisioningTypeOK, Jobs
  <2>2. /\ namespace[job[a].name] # None
        /\ namespace[job[a].name].owner = job[a].node
    BY <1>1 DEF Progress, ProvisioningInv
  <2>3. s.node = job[a].node /\ s.domain = TRUE
    BY <1>2 DEF Deployed, Scripts
  <2> HIDE DEF s
  <2> QED
    BY <1>1, <1>4, <2>1, <2>2, <2>3 DEF Progress
<1> QED
  BY <1>5, <1>6 DEF ProvisioningInv

LEMMA ReassertPreserves ==
    ASSUME ProvisioningInv, NEW a \in Admins, ReassertWorkersDev(a)
    PROVE  ProvisioningInv'
<1>1. /\ job[a].at = "reassert" /\ Past(a) /\ Progress(a)
      /\ script[job[a].name] # None /\ Goto(a, "secret")
      /\ script' = [script EXCEPT ![job[a].name].public = TRUE]
      /\ UNCHANGED row /\ namespace' = namespace
      /\ namespace' \in [Names -> Namespaces \cup {None}]
  BY DEF ReassertWorkersDev, Past, ProvisioningInv, ProvisioningTypeOK
<1> DEFINE s == [script[job[a].name] EXCEPT !.public = TRUE]
<1>2. /\ script[job[a].name] \in Scripts
      /\ script[job[a].name].node = job[a].node
      /\ script[job[a].name].domain = TRUE
  BY <1>1, NameIsOwned DEF ProvisioningInv, ProvisioningTypeOK, Progress
<1>3. s \in Scripts /\ script' = [script EXCEPT ![job[a].name] = s]
  BY <1>1, <1>2, NameIsOwned DEF Scripts, ProvisioningInv, ProvisioningTypeOK
<1>4. /\ script' \in [Names -> Scripts \cup {None}]
      /\ script'[job[a].name] = s
      /\ s # None
      /\ \A x \in Names \ {job[a].name} : script'[x] = script[x]
  BY <1>1, <1>3, WriteScript
<1>5. /\ ProvisioningTypeOK'
      /\ \A b \in Admins : job'[b].at = "idle" => job'[b].node = None
      /\ FreshIds'
      /\ \A b \in Admins \ {a} : Progress(b)'
      /\ RowsAreDeployed'
      /\ job'[a] = [job[a] EXCEPT !.at = "secret"]
  BY <1>1, <1>4, OthersUndisturbed DEF Steps
<1>6. Progress(a)'
  <2>1. /\ job'[a].at = "secret"
        /\ job'[a].name = job[a].name
        /\ job'[a].node = job[a].node
    BY <1>5 DEF ProvisioningInv, ProvisioningTypeOK, Jobs
  <2>2. /\ namespace[job[a].name] # None
        /\ namespace[job[a].name].owner = job[a].node
    BY <1>1 DEF Progress, ProvisioningInv
  <2>3. s = [node |-> job[a].node, domain |-> TRUE, public |-> TRUE]
    <3>1. s \in [node : Nodes, domain : BOOLEAN, public : BOOLEAN]
      BY <1>3 DEF Scripts
    <3>2. s.node = job[a].node /\ s.domain = TRUE /\ s.public = TRUE
      BY <1>2 DEF Scripts
    <3> HIDE DEF s
    <3> QED
      BY <3>1, <3>2
  <2> HIDE DEF s
  <2> QED
    BY <1>1, <1>4, <2>1, <2>2, <2>3 DEF Progress, Deployed
<1> QED
  BY <1>5, <1>6 DEF ProvisioningInv

LEMMA SeedSecretPreserves ==
    ASSUME ProvisioningInv, NEW a \in Admins, SeedNodeSecret(a)
    PROVE  ProvisioningInv'
<1>1. /\ job[a].at = "secret" /\ Past(a) /\ Progress(a)
      /\ namespace[job[a].name] # None /\ Goto(a, "users")
      /\ namespace' = [namespace EXCEPT ![job[a].name].keys = @ \cup {"nodeSecret"}]
      /\ UNCHANGED row /\ script' = script
      /\ script' \in [Names -> Scripts \cup {None}]
  BY DEF SeedNodeSecret, PutValue, Past, ProvisioningInv, ProvisioningTypeOK
<1> DEFINE old == namespace[job[a].name]
           new == [old EXCEPT !.keys = @ \cup {"nodeSecret"}]
<1>2. old \in Namespaces /\ old.owner = job[a].node
  BY <1>1, NameIsOwned DEF ProvisioningInv, ProvisioningTypeOK, Progress
<1>3. /\ new \in Namespaces /\ new.owner = job[a].node
      /\ new.keys = old.keys \cup {"nodeSecret"} /\ new # None
  <2>1. new \in Namespaces
    BY <1>2 DEF Namespaces, Keys
  <2> QED
    BY <1>2, <2>1, ProvisioningAssumption DEF Namespaces
<1>4. /\ namespace' \in [Names -> Namespaces \cup {None}]
      /\ namespace'[job[a].name] = new
      /\ \A x \in Names \ {job[a].name} : namespace'[x] = namespace[x]
  BY <1>1, <1>3, NameIsOwned DEF ProvisioningInv, ProvisioningTypeOK
<1>5. /\ ProvisioningTypeOK'
      /\ \A b \in Admins : job'[b].at = "idle" => job'[b].node = None
      /\ FreshIds'
      /\ \A b \in Admins \ {a} : Progress(b)'
      /\ RowsAreDeployed'
      /\ job'[a] = [job[a] EXCEPT !.at = "users"]
  BY <1>1, <1>4, OthersUndisturbed DEF Steps
<1>6. Progress(a)'
  <2>1. /\ job'[a].at = "users"
        /\ job'[a].name = job[a].name
        /\ job'[a].node = job[a].node
    BY <1>5 DEF ProvisioningInv, ProvisioningTypeOK, Jobs
  <2> HIDE DEF new
  <2> QED
    BY <1>1, <1>3, <1>4, <2>1 DEF Progress, Deployed
<1> QED
  BY <1>5, <1>6 DEF ProvisioningInv

LEMMA SeedUsersPreserves ==
    ASSUME ProvisioningInv, NEW a \in Admins, SeedProxyUsers(a)
    PROVE  ProvisioningInv'
<1>1. /\ job[a].at = "users" /\ Past(a) /\ Progress(a)
      /\ namespace[job[a].name] # None /\ Goto(a, "insert")
      /\ namespace' = [namespace EXCEPT ![job[a].name].keys = @ \cup {"proxyUsers"}]
      /\ UNCHANGED row /\ script' = script
      /\ script' \in [Names -> Scripts \cup {None}]
  BY DEF SeedProxyUsers, PutValue, Past, ProvisioningInv, ProvisioningTypeOK
<1> DEFINE old == namespace[job[a].name]
           new == [old EXCEPT !.keys = @ \cup {"proxyUsers"}]
<1>2. old \in Namespaces /\ old.owner = job[a].node
  BY <1>1, NameIsOwned DEF ProvisioningInv, ProvisioningTypeOK, Progress
<1>3. /\ new \in Namespaces /\ new.owner = job[a].node
      /\ new.keys = old.keys \cup {"proxyUsers"} /\ new # None
  <2>1. new \in Namespaces
    BY <1>2 DEF Namespaces, Keys
  <2> QED
    BY <1>2, <2>1, ProvisioningAssumption DEF Namespaces
<1>4. /\ namespace' \in [Names -> Namespaces \cup {None}]
      /\ namespace'[job[a].name] = new
      /\ \A x \in Names \ {job[a].name} : namespace'[x] = namespace[x]
  BY <1>1, <1>3, NameIsOwned DEF ProvisioningInv, ProvisioningTypeOK
<1>5. /\ ProvisioningTypeOK'
      /\ \A b \in Admins : job'[b].at = "idle" => job'[b].node = None
      /\ FreshIds'
      /\ \A b \in Admins \ {a} : Progress(b)'
      /\ RowsAreDeployed'
      /\ job'[a] = [job[a] EXCEPT !.at = "insert"]
  BY <1>1, <1>4, OthersUndisturbed DEF Steps
<1>6. Progress(a)'
  <2>1. /\ job'[a].at = "insert"
        /\ job'[a].name = job[a].name
        /\ job'[a].node = job[a].node
    BY <1>5 DEF ProvisioningInv, ProvisioningTypeOK, Jobs
  <2> HIDE DEF new
  <2> QED
    BY <1>1, <1>3, <1>4, <2>1 DEF Progress, Deployed
<1> QED
  BY <1>5, <1>6 DEF ProvisioningInv

LEMMA InsertNodePreserves ==
    ASSUME ProvisioningInv, NEW a \in Admins, InsertNode(a)
    PROVE  ProvisioningInv'
<1> DEFINE n == job[a].node
           x == job[a].name
           r == [name |-> x, state |-> "PROVISIONING", score |-> 0]
<1>1. /\ job[a].at = "insert" /\ Past(a) /\ Active(a) /\ Progress(a)
      /\ n \in Nodes /\ x \in Names
      /\ row' = [row EXCEPT ![n] = r]
      /\ job' = [job EXCEPT ![a] = Idle]
      /\ namespace' = namespace /\ script' = script
  BY DEF InsertNode, Past, Active, ProvisioningInv, ProvisioningTypeOK
<1>2. /\ job'[a] = Idle
      /\ \A b \in Admins \ {a} : job'[b] = job[b]
      /\ job' \in [Admins -> Jobs]
      /\ Idle.at = "idle" /\ Idle.node = None
  BY <1>1 DEF ProvisioningInv, ProvisioningTypeOK, Jobs, Steps, Idle
<1>3. r \in Rows /\ r.name = x
  BY <1>1 DEF Rows, States, Scores
<1> HIDE DEF r
<1>4. /\ row' \in [Nodes -> Rows \cup {None}]
      /\ row'[n] = r
      /\ \A m \in Nodes \ {n} : row'[m] = row[m]
  BY <1>1, <1>3 DEF ProvisioningInv, ProvisioningTypeOK
<1>5. ProvisioningTypeOK'
  BY <1>1, <1>2, <1>4 DEF ProvisioningInv, ProvisioningTypeOK
<1>6. \A b \in Admins : job'[b].at = "idle" => job'[b].node = None
  BY <1>2 DEF ProvisioningInv
<1>7. FreshIds'
  <2>1. ASSUME NEW b \in Admins, Active(b)'
        PROVE  b # a /\ Active(b) /\ job[b].node \in Nodes \ {n}
    BY <1>1, <1>2, <2>1 DEF ProvisioningInv, ProvisioningTypeOK, FreshIds, Active
  <2> QED
    BY <1>2, <1>4, <2>1 DEF ProvisioningInv, FreshIds, Active
<1>8. ASSUME NEW b \in Admins
      PROVE  Progress(b)'
  BY <1>1, <1>2 DEF ProvisioningInv, Progress, Past, Deployed
<1>9. RowsAreDeployed'
  <2>1. /\ namespace[x] = [owner |-> n, keys |-> Keys]
        /\ script[x] = [node |-> n, domain |-> TRUE, public |-> TRUE]
    <3>1. /\ namespace[x] \in Namespaces
          /\ namespace[x].owner = n
          /\ namespace[x].keys = Keys
          /\ script[x] = Deployed(n)
      BY <1>1 DEF Progress, ProvisioningInv, ProvisioningTypeOK, Namespaces, Keys
    <3> QED
      BY <3>1 DEF Namespaces, Deployed
  <2>2. ASSUME NEW m \in Rowed'
        PROVE  /\ namespace'[row'[m].name] = [owner |-> m, keys |-> Keys]
               /\ script'[row'[m].name] = [node |-> m, domain |-> TRUE, public |-> TRUE]
    <3>1. CASE m = n
      BY <1>1, <1>3, <1>4, <2>1, <3>1
    <3>2. CASE m # n
      <4>1. m \in Rowed /\ row'[m] = row[m]
        BY <1>4, <3>2 DEF Rowed
      <4> QED
        BY <1>1, <4>1 DEF ProvisioningInv, RowsAreDeployed
    <3> QED
      BY <3>1, <3>2
  <2> QED
    BY <2>2 DEF RowsAreDeployed, Keys
<1> QED
  BY <1>5, <1>6, <1>7, <1>8, <1>9 DEF ProvisioningInv

LEMMA FailurePreserves ==
    ASSUME ProvisioningInv, NEW a \in Admins, ProvisioningFails(a)
    PROVE  ProvisioningInv'
<1>1. /\ job' = [job EXCEPT ![a] = Idle]
      /\ namespace' = namespace /\ script' = script /\ row' = row
  BY DEF ProvisioningFails
<1>2. /\ job'[a] = Idle
      /\ \A b \in Admins \ {a} : job'[b] = job[b]
      /\ job' \in [Admins -> Jobs]
      /\ Idle.at = "idle" /\ Idle.node = None
  BY <1>1 DEF ProvisioningInv, ProvisioningTypeOK, Jobs, Steps, Idle
<1>3. ProvisioningTypeOK'
  BY <1>1, <1>2 DEF ProvisioningInv, ProvisioningTypeOK
<1>4. FreshIds'
  BY <1>1, <1>2 DEF ProvisioningInv, FreshIds, Active
<1>5. ASSUME NEW b \in Admins
      PROVE  Progress(b)'
  BY <1>1, <1>2 DEF ProvisioningInv, Progress, Past, Deployed
<1> QED
  BY <1>1, <1>2, <1>3, <1>4, <1>5 DEF ProvisioningInv, RowsAreDeployed, Rowed

LEMMA ProvisioningStep == ProvisioningInv /\ ProvisioningNext => ProvisioningInv'
<1> SUFFICES ASSUME ProvisioningInv, ProvisioningNext
             PROVE  ProvisioningInv'
  OBVIOUS
<1>1. PICK a \in Admins :
          \/ \E n \in Nodes, x \in Names : OnNodeName(a, n, x)
          \/ Provision(a)
  BY DEF ProvisioningNext
<1>2. CASE \E n \in Nodes, x \in Names : OnNodeName(a, n, x)
  BY <1>2, OnNodeNamePreserves
<1>3. CASE Provision(a)
  BY <1>3, CreateNamespacePreserves, UploadPreserves, EnablePreserves,
     ReuploadPreserves, ReassertPreserves, SeedSecretPreserves,
     SeedUsersPreserves, InsertNodePreserves, FailurePreserves
  DEF Provision
<1> QED
  BY <1>1, <1>2, <1>3

----------------------------------------------------------------------------
(* The health loop.                                                        *)

\* An ONLINE node is at the full score, or one failure below it.
ScoreTellsMisses ==
    \A n \in Rowed : row[n].state = "ONLINE" =>
        /\ missed[n] = 0 => row[n].score = 100
        /\ missed[n] = 1 => row[n].score = 75

\* What a pass has found is what it computes from the stored row.
FoundIsCurrent ==
    /\ pass.todo \subseteq Rowed
    /\ \A n \in Probed :
           /\ n \in Rowed
           /\ pass.found[n] \in {Better(row[n]), Worse(row[n])}

\* Nothing ever makes a node OFFLINE: failover_offline_nodes has no work.
NeverOffline == \A n \in Rowed : row[n].state # "OFFLINE"

HealthInv ==
    /\ TypeOK
    /\ ProvisioningInv
    /\ ScoreTellsMisses
    /\ NeverOffline
    /\ FoundIsCurrent

LEMMA HealthInvInit == Init => HealthInv
<1> SUFFICES ASSUME Init PROVE HealthInv
  OBVIOUS
<1>1. ProvisioningInv
  BY ProvisioningInvInit DEF Init
<1>2. TypeOK
  BY <1>1, HealthAssumption
  DEF Init, TypeOK, ProvisioningInv, NoPass, Findings, OfflineAfterFailures
<1>3. Rowed = {} /\ Probed = {} /\ pass.todo = {}
  BY DEF Init, ProvisioningInit, NoPass, Rowed, Probed
<1> QED
  BY <1>1, <1>2, <1>3 DEF HealthInv, ScoreTellsMisses, NeverOffline, FoundIsCurrent

\* The two outcomes of a probe.
LEMMA BetterOutcome ==
    ASSUME NEW r \in Rows
    PROVE  /\ Better(r) \in Findings
           /\ Better(r).ok
           /\ Better(r).state = "ONLINE" => Better(r).score = 100
           /\ r.score >= 75 => Better(r).state = "ONLINE"
           /\ Better(r).state # "OFFLINE"
  BY DEF Better, Rows, Findings, States, Scores

LEMMA WorseOutcome ==
    ASSUME NEW r \in Rows
    PROVE  /\ Worse(r) \in Findings
           /\ ~Worse(r).ok
           /\ r.state = "ONLINE" => Worse(r).state = "ONLINE"
           /\ r.state # "ONLINE" => Worse(r).state # "ONLINE"
           /\ r.score = 100 => Worse(r).score = 75
           /\ Worse(r).state # "OFFLINE"
<1>1. Lowered(r.score) \in 0..100 /\ (r.score = 100 => Lowered(r.score) = 75)
  BY DEF Lowered, Rows, Scores
<1>2. /\ ~(ConsecutiveFailures >= OfflineAfterFailures)
      /\ ConsecutiveFailures \notin DegradedAfterFailures..(OfflineAfterFailures - 1)
  BY DEF ConsecutiveFailures, OfflineAfterFailures, DegradedAfterFailures
<1>3. Worse(r) = [ok |-> FALSE, score |-> Lowered(r.score),
                  state |-> IF r.state = "OFFLINE" THEN "DEGRADED" ELSE r.state]
  BY <1>2 DEF Worse
<1> QED
  BY <1>1, <1>3 DEF Findings, Rows, States, Scores

LEMMA ProvisioningKeepsHealth ==
    ASSUME HealthInv, ProvisioningNext, UNCHANGED healthVars
    PROVE  HealthInv' /\ \A n \in Rowed : row'[n] = row[n]
<1>1. ProvisioningInv'
  BY ProvisioningStep DEF HealthInv
<1>2. TypeOK'
  BY <1>1 DEF HealthInv, TypeOK, ProvisioningInv, healthVars
<1>3. ASSUME NEW n \in Nodes, row'[n] # row[n]
      PROVE  row[n] = None /\ row'[n] # None /\ row'[n].state \notin {"ONLINE", "OFFLINE"}
  <2>1. PICK a \in Admins : InsertNode(a)
    BY <1>3 DEF ProvisioningNext, Provision, OnNodeName, CreateNamespace,
       UploadWorkerScript, EnableWorkersDev, Reupload, ReassertWorkersDev,
       SeedNodeSecret, SeedProxyUsers, ProvisioningFails
  <2> DEFINE r == [name |-> job[a].name, state |-> "PROVISIONING", score |-> 0]
  <2>2. /\ row' = [row EXCEPT ![job[a].node] = r]
        /\ Active(a)
    BY <2>1 DEF InsertNode, Active
  <2>3. n = job[a].node /\ row'[n] = r
    BY <1>3, <2>2 DEF HealthInv, ProvisioningInv, ProvisioningTypeOK
  <2>4. row[n] = None
    BY <2>2, <2>3 DEF HealthInv, ProvisioningInv, FreshIds
  <2> QED
    BY <1>3, <2>3, <2>4
<1>4. Rowed \subseteq Rowed' /\ \A n \in Rowed : row'[n] = row[n]
  BY <1>3 DEF Rowed
<1>5. ScoreTellsMisses'
  BY <1>3 DEF HealthInv, ScoreTellsMisses, healthVars, Rowed
<1>6. FoundIsCurrent'
  <2>1. Probed' = Probed /\ pass' = pass
    BY DEF Probed, healthVars
  <2> QED
    BY <1>4, <2>1 DEF HealthInv, FoundIsCurrent
<1>7. NeverOffline'
  BY <1>3 DEF HealthInv, NeverOffline, Rowed
<1> QED
  BY <1>1, <1>2, <1>4, <1>5, <1>6, <1>7 DEF HealthInv

LEMMA BeginKeepsHealth ==
    ASSUME HealthInv, HealthCheckPass
    PROVE  HealthInv'
<1>1. /\ pass' = [NoPass EXCEPT !.running = TRUE, !.todo = Rowed]
      /\ UNCHANGED <<namespace, script, row, job, up, faults, missed>>
  BY DEF HealthCheckPass
<1>2. pass'.running = TRUE /\ pass'.todo = Rowed /\ pass'.found = [n \in Nodes |-> None]
  BY <1>1 DEF NoPass
<1>3. pass' = [running |-> TRUE, todo |-> Rowed, found |-> [n \in Nodes |-> None]]
  BY <1>1 DEF NoPass
<1>4. TypeOK'
  <2>1. Rowed \in SUBSET Nodes
    BY DEF Rowed
  <2>2. pass' \in [running : BOOLEAN, todo : SUBSET Nodes,
                   found : [Nodes -> Findings \cup {None}]]
    BY <1>3, <2>1
  <2> QED
    BY <1>1, <2>2 DEF HealthInv, TypeOK, ProvisioningTypeOK
<1>5. ProvisioningInv'
  BY <1>1 DEF HealthInv, ProvisioningInv, ProvisioningTypeOK, FreshIds, Progress,
     RowsAreDeployed, Rowed, Past, Active
<1>6. Probed' = {} /\ Rowed' = Rowed
  BY <1>1, <1>2 DEF Probed, Rowed
<1> QED
  BY <1>1, <1>2, <1>4, <1>5, <1>6
  DEF HealthInv, ScoreTellsMisses, NeverOffline, FoundIsCurrent, Rowed

LEMMA ProbeKeepsHealth ==
    ASSUME HealthInv, NEW n \in Nodes, CheckNodeOnce(n)
    PROVE  HealthInv'
<1> DEFINE result == IF Answers(n) THEN Better(row[n]) ELSE Worse(row[n])
<1>1. /\ n \in pass.todo
      /\ pass' = [pass EXCEPT !.todo = @ \ {n}, !.found[n] = result]
      /\ UNCHANGED <<namespace, script, row, job, up, faults, missed>>
  BY DEF CheckNodeOnce
<1>2. n \in Rowed /\ row[n] \in Rows
  BY <1>1 DEF HealthInv, FoundIsCurrent, ProvisioningInv, ProvisioningTypeOK, Rowed
<1>3. result \in Findings /\ result \in {Better(row[n]), Worse(row[n])}
  BY <1>2, BetterOutcome, WorseOutcome
<1> HIDE DEF result
<1>4. /\ pass'.running = pass.running
      /\ pass'.todo = pass.todo \ {n}
      /\ pass'.found = [pass.found EXCEPT ![n] = result]
  BY <1>1 DEF HealthInv, TypeOK
<1>5. pass'.found[n] = result /\ \A m \in Nodes \ {n} : pass'.found[m] = pass.found[m]
  BY <1>4 DEF HealthInv, TypeOK
<1>6. TypeOK'
  <2>1. pass' \in [running : BOOLEAN, todo : SUBSET Nodes,
                   found : [Nodes -> Findings \cup {None}]]
    BY <1>1, <1>3 DEF HealthInv, TypeOK
  <2> QED
    BY <1>1, <2>1 DEF HealthInv, TypeOK, ProvisioningTypeOK
<1>7. ProvisioningInv'
  BY <1>1 DEF HealthInv, ProvisioningInv, ProvisioningTypeOK, FreshIds, Progress,
     RowsAreDeployed, Rowed, Past, Active
<1>8. ScoreTellsMisses'
  BY <1>1 DEF HealthInv, ScoreTellsMisses, Rowed
<1>9. FoundIsCurrent'
  <2>1. Rowed' = Rowed /\ row' = row
    BY <1>1 DEF Rowed
  <2>2. Probed' \subseteq Probed \cup {n}
    BY <1>5 DEF Probed
  <2>3. ASSUME NEW m \in Probed'
        PROVE  m \in Rowed /\ pass'.found[m] \in {Better(row[m]), Worse(row[m])}
    <3>1. CASE m = n
      BY <1>2, <1>3, <1>5, <3>1
    <3>2. CASE m # n
      BY <1>5, <2>2, <2>3, <3>2 DEF HealthInv, FoundIsCurrent, Probed
    <3> QED
      BY <3>1, <3>2
  <2>4. pass'.todo \subseteq Rowed
    BY <1>4 DEF HealthInv, FoundIsCurrent
  <2>5. \A m \in Rowed : Better(row[m])' = Better(row[m]) /\ Worse(row[m])' = Worse(row[m])
    BY <2>1 DEF Better, Worse, Lowered, ConsecutiveFailures
  <2> QED
    BY <2>1, <2>3, <2>4, <2>5 DEF FoundIsCurrent
<1>10. NeverOffline'
  BY <1>1 DEF HealthInv, NeverOffline, Rowed
<1> QED
  BY <1>6, <1>7, <1>8, <1>9, <1>10 DEF HealthInv

\* What the commit writes for one node.
LEMMA CommitOutcome ==
    ASSUME HealthInv, CommitPass, NEW n \in Nodes
    PROVE  /\ row'[n] \in Rows \cup {None}
           /\ row'[n] = None <=> row[n] = None
           /\ n \in Rowed => row'[n].name = row[n].name
           /\ missed'[n] \in 0..OfflineAfterFailures
           /\ n \in Rowed /\ row'[n].state = "ONLINE" =>
                  /\ missed'[n] = 0 => row'[n].score = 100
                  /\ missed'[n] = 1 => row'[n].score = 75
           /\ n \in Rowed => row'[n].state # "OFFLINE"
           /\ n \in Rowed /\ row[n].state = "ONLINE" /\ row'[n].state # "ONLINE"
                  => missed[n] >= DegradedAfterFailures
<1> DEFINE f == pass.found[n]
<1>1. /\ row'[n] = IF n \in Probed
                   THEN [row[n] EXCEPT !.state = f.state, !.score = f.score]
                   ELSE row[n]
      /\ missed'[n] = IF n \in Probed THEN Count(n) ELSE missed[n]
  BY DEF CommitPass
<1>2. row[n] \in Rows \cup {None} /\ missed[n] \in 0..5
  BY DEF HealthInv, TypeOK, ProvisioningTypeOK, OfflineAfterFailures
<1>3. CASE n \notin Probed
  BY <1>1, <1>2, <1>3
  DEF HealthInv, ScoreTellsMisses, NeverOffline, OfflineAfterFailures
<1>4. CASE n \in Probed
  <2>1. /\ n \in Rowed
        /\ row[n] \in Rows
        /\ f \in {Better(row[n]), Worse(row[n])}
    BY <1>2, <1>4 DEF HealthInv, FoundIsCurrent, Rowed
  <2>2. f \in Findings
    BY <2>1, BetterOutcome, WorseOutcome
  <2>3. row'[n] = [row[n] EXCEPT !.state = f.state, !.score = f.score]
    BY <1>1, <1>4
  <2>4. /\ row'[n] \in Rows
        /\ row'[n].name = row[n].name
        /\ row'[n].state = f.state
        /\ row'[n].score = f.score
    BY <2>1, <2>2, <2>3 DEF Rows, Findings
  <2>5. row'[n] # None /\ row'[n].state # "OFFLINE"
    BY <2>1, <2>4, ProvisioningAssumption, BetterOutcome, WorseOutcome
  <2>6. missed'[n] = Count(n)
    BY <1>1, <1>4
  <2>7. row[n].state = "ONLINE" =>
            /\ missed[n] = 0 => row[n].score = 100
            /\ missed[n] = 1 => row[n].score = 75
    BY <2>1 DEF HealthInv, ScoreTellsMisses
  <2>8. CASE f = Better(row[n])
    <3>1. missed'[n] = 0
      BY <2>1, <2>6, <2>8, BetterOutcome DEF Count
    <3>2. row'[n].state = "ONLINE" => row'[n].score = 100
      BY <2>1, <2>4, <2>8, BetterOutcome
    <3>3. row[n].state = "ONLINE" /\ row'[n].state # "ONLINE" => missed[n] >= 2
      BY <1>2, <2>1, <2>4, <2>7, <2>8, BetterOutcome
    <3> QED
      BY <2>1, <2>4, <2>5, <3>1, <3>2, <3>3
      DEF Rowed, OfflineAfterFailures, DegradedAfterFailures
  <2>9. CASE f = Worse(row[n])
    <3>1. missed'[n] = IF missed[n] = 5 THEN 5 ELSE missed[n] + 1
      BY <2>1, <2>6, <2>9, WorseOutcome DEF Count, OfflineAfterFailures
    <3>2. row'[n].state = "ONLINE" <=> row[n].state = "ONLINE"
      BY <2>1, <2>4, <2>9, WorseOutcome
    <3>3. row'[n].state = "ONLINE" /\ missed'[n] = 1 => row'[n].score = 75
      <4>1. missed'[n] = 1 => missed[n] = 0
        BY <1>2, <3>1
      <4> QED
        BY <2>1, <2>4, <2>7, <2>9, <3>2, <4>1, WorseOutcome
    <3>4. missed'[n] \in 1..5
      BY <1>2, <3>1
    <3> QED
      BY <2>1, <2>4, <2>5, <3>2, <3>3, <3>4 DEF Rowed, OfflineAfterFailures
  <2> QED
    BY <2>1, <2>8, <2>9
<1> QED
  BY <1>3, <1>4

LEMMA CommitKeepsHealth ==
    ASSUME HealthInv, CommitPass
    PROVE  HealthInv'
<1>1. /\ row' \in [Nodes -> Rows \cup {None}]
      /\ missed' \in [Nodes -> 0..OfflineAfterFailures]
      /\ pass' = NoPass
      /\ UNCHANGED <<namespace, script, job, up, faults>>
  <2>1. /\ row' = [n \in Nodes |-> row'[n]]
        /\ missed' = [n \in Nodes |-> missed'[n]]
    BY DEF CommitPass
  <2> QED
    BY <2>1, CommitOutcome DEF CommitPass
<1>2. Rowed' = Rowed /\ \A n \in Rowed : row'[n].name = row[n].name
  BY CommitOutcome DEF Rowed
<1>3. pass' \in [running : BOOLEAN, todo : SUBSET Nodes,
                 found : [Nodes -> Findings \cup {None}]]
  BY <1>1 DEF NoPass
<1>4. TypeOK'
  BY <1>1, <1>3 DEF HealthInv, TypeOK, ProvisioningTypeOK
<1>5. ProvisioningInv'
  <2>1. FreshIds'
    <3>1. ASSUME NEW n \in Nodes PROVE row'[n] = None <=> row[n] = None
      BY CommitOutcome
    <3>2. \A a \in Admins : Active(a) => job[a].node \in Nodes
      BY DEF HealthInv, TypeOK, ProvisioningTypeOK, Active
    <3> QED
      BY <1>1, <3>1, <3>2 DEF HealthInv, ProvisioningInv, FreshIds, Active
  <2>2. ASSUME NEW a \in Admins PROVE Progress(a)'
    BY <1>1 DEF HealthInv, ProvisioningInv, Progress, Past, Deployed
  <2>3. RowsAreDeployed'
    BY <1>1, <1>2 DEF HealthInv, ProvisioningInv, RowsAreDeployed, Keys
  <2> QED
    BY <1>1, <1>4, <2>1, <2>2, <2>3 DEF HealthInv, TypeOK, ProvisioningInv
<1>6. ScoreTellsMisses'
  BY <1>2, CommitOutcome DEF ScoreTellsMisses, Rowed
<1>7. FoundIsCurrent'
  <2>1. pass'.todo = {} /\ Probed' = {}
    BY <1>1 DEF NoPass, Probed
  <2> QED
    BY <2>1 DEF FoundIsCurrent
<1>8. NeverOffline'
  BY <1>2, CommitOutcome DEF NeverOffline, Rowed
<1> QED
  BY <1>4, <1>5, <1>6, <1>7, <1>8 DEF HealthInv

LEMMA OthersKeepHealth ==
    ASSUME HealthInv, \/ PassFails \/ (\E n \in Nodes : Toggle(n)) \/ UNCHANGED vars
    PROVE  HealthInv'
<1>1. /\ UNCHANGED <<namespace, script, row, job, missed>>
      /\ pass' \in {pass, NoPass}
  BY DEF PassFails, Toggle, vars
<1>2. NoPass \in [running : BOOLEAN, todo : SUBSET Nodes,
                  found : [Nodes -> Findings \cup {None}]]
  BY DEF NoPass
<1>3. up' \in SUBSET Nodes /\ faults' \in 0..MaxFaults
  BY HealthAssumption DEF PassFails, Toggle, vars, HealthInv, TypeOK
<1>4. TypeOK'
  BY <1>1, <1>2, <1>3 DEF HealthInv, TypeOK, ProvisioningTypeOK
<1>5. ProvisioningInv'
  BY <1>1 DEF HealthInv, ProvisioningInv, ProvisioningTypeOK, FreshIds, Progress,
     RowsAreDeployed, Rowed, Past, Active
<1>6. ScoreTellsMisses'
  BY <1>1 DEF HealthInv, ScoreTellsMisses, Rowed
<1>7. FoundIsCurrent'
  <2>1. Rowed' = Rowed /\ row' = row
    BY <1>1 DEF Rowed
  <2>2. CASE pass' = pass
    BY <2>1, <2>2 DEF HealthInv, FoundIsCurrent, Probed, Better, Worse, Lowered,
       ConsecutiveFailures
  <2>3. CASE pass' = NoPass
    BY <2>3 DEF FoundIsCurrent, Probed, NoPass
  <2> QED
    BY <1>1, <2>2, <2>3
<1>8. NeverOffline'
  BY <1>1 DEF HealthInv, NeverOffline, Rowed
<1> QED
  BY <1>4, <1>5, <1>6, <1>7, <1>8 DEF HealthInv

LEMMA HealthStep == HealthInv /\ [Next]_vars => HealthInv'
<1> SUFFICES ASSUME HealthInv, [Next]_vars PROVE HealthInv'
  OBVIOUS
<1>1. CASE ProvisioningNext /\ UNCHANGED healthVars
  BY <1>1, ProvisioningKeepsHealth
<1>2. CASE HealthLoop
  BY <1>2, BeginKeepsHealth, ProbeKeepsHealth, CommitKeepsHealth DEF HealthLoop
<1>3. CASE PassFails \/ (\E n \in Nodes : Toggle(n)) \/ UNCHANGED vars
  BY <1>3, OthersKeepHealth
<1> QED
  BY <1>1, <1>2, <1>3 DEF Next

LEMMA HealthAlways == Spec => []HealthInv
<1>1. Init => HealthInv
  BY HealthInvInit
<1>2. HealthInv /\ [Next]_vars => HealthInv'
  BY HealthStep
<1> QED
  BY <1>1, <1>2, PTL DEF Spec

----------------------------------------------------------------------------
\* Types hold in every reachable state: scores stay within 0..100, a pass
\* holds findings and a job the node and the name it works on.
THEOREM HealthTyped == Spec => []TypeOK
<1>1. HealthInv => TypeOK
  BY DEF HealthInv
<1> QED
  BY <1>1, HealthAlways, PTL

\* Whatever calls fail and whoever provisions at the same time, a registered
\* node has its own namespace with both keys and its own public worker.
THEOREM RowsAlwaysDeployed == Spec => []RowsAreDeployed
<1>1. HealthInv => RowsAreDeployed
  BY DEF HealthInv, ProvisioningInv
<1> QED
  BY <1>1, HealthAlways, PTL

\* However often a node fails, it is not OFFLINE: the failover that waits for
\* such a node never moves a configuration.
THEOREM FailoverHasNoWork == Spec => []NeverOffline
<1>1. HealthInv => NeverOffline
  BY DEF HealthInv
<1> QED
  BY <1>1, HealthAlways, PTL

\* No step takes a node out of ONLINE before a second failure in a row.
THEOREM NeverFlaps == Spec => NoFlap
<1> DEFINE Stays(n) == row[n] # None /\ row[n].state = "ONLINE" /\ row'[n].state # "ONLINE"
                           => missed[n] >= DegradedAfterFailures
<1>1. ASSUME HealthInv, Next, NEW n \in Nodes
      PROVE  Stays(n)
  <2>1. CASE ProvisioningNext /\ UNCHANGED healthVars
    BY <1>1, <2>1, ProvisioningKeepsHealth DEF Rowed
  <2>2. CASE CommitPass
    BY <1>1, <2>2, CommitOutcome DEF Rowed
  <2>3. CASE row' = row
    BY <2>3
  <2> QED
    BY <1>1, <2>1, <2>2, <2>3
    DEF Next, HealthLoop, HealthCheckPass, CheckNodeOnce, PassFails, Toggle
<1>2. HealthInv /\ [Next]_vars => [\A n \in Nodes : Stays(n)]_vars
  BY <1>1
<1> QED
  BY <1>2, HealthAlways, PTL DEF Spec, NoFlap

----------------------------------------------------------------------------
(* Starts of web instances.  The pool's row is the key to the plans: who   *)
(* inserts plans holds it, nobody holds it once it is committed, and it is *)
(* committed with the plans.  The profile's versions have no gap, so that  *)
(* a unique version number lets only the newest be superseded.             *)

\* One instance at a time is between the pool and the plans.
PoolGuardsPlans ==
    /\ pool <=> plans # <<>>
    /\ Len(plans) <= 1
    /\ \A i, j \in pool_held : i = j
    /\ pool_held # {} => ~pool
    /\ \A i \in Instances :
           /\ pc[i] \in {"find_gaming", "insert_plans"} => i \in pool_held
           /\ pc[i] = "count_plans" => pool \/ i \in pool_held

\* Of n versions the last is current, and nobody has read a later one.
LastIsCurrent(n) ==
    /\ versions = 1..n
    /\ current = IF n = 0 THEN {} ELSE {n}
    /\ \A i \in Instances : saw[i] <= n
VersionsInOrder == \E n \in Nat : LastIsCurrent(n)

\* An instance that has reported nothing has found or left what it passed,
\* where the bootstrap does not step back from an owner.
Truthful ==
    \A i \in Instances : errors[i] = {} =>
        /\ pc[i] \in ProfileSteps \cup PlanSteps \cup {"serving"} =>
               (owner_set /\ ~others => owner)
        /\ pc[i] = "serving" => plans # <<>>

SeedsInv == SeedsTypeOK /\ PoolGuardsPlans /\ VersionsInOrder /\ Truthful

----------------------------------------------------------------------------
LEMMA SeedsInvInit == SeedsInit => SeedsInv
<1> SUFFICES ASSUME SeedsInit PROVE SeedsInv
  OBVIOUS
<1>1. SeedsTypeOK
  <2>1. 0 \in 0..MaxBoots
    BY StartupAssumption
  <2>2. plans \in Seq(Nat)
    BY DEF SeedsInit
  <2> QED
    BY <2>1, <2>2 DEF SeedsInit, SeedsTypeOK, StartSteps
<1>2. PoolGuardsPlans
  BY DEF SeedsInit, PoolGuardsPlans
<1>3. VersionsInOrder
  <2>1. LastIsCurrent(0)
    BY DEF SeedsInit, LastIsCurrent
  <2> QED
    BY <2>1 DEF VersionsInOrder
<1>4. Truthful
  BY DEF SeedsInit, Truthful, ProfileSteps, PlanSteps
<1> QED
  BY <1>1, <1>2, <1>3, <1>4 DEF SeedsInv

\* Where the start goes on is a step.
LEMMA AfterIsStep ==
    ASSUME NEW s \in StartSteps
    PROVE  /\ After(s) \in {"find_profile", "count_pools", "serving"}
           /\ SeedOf(s) \in Seeds
           /\ s \in OwnerSteps => After(s) = "find_profile"
           /\ s \in ProfileSteps => After(s) = "count_pools"
           /\ s \in PlanSteps => After(s) = "serving"
  BY DEF StartSteps, OwnerSteps, ProfileSteps, PlanSteps, After, SeedOf, Seeds

----------------------------------------------------------------------------
(* Type correctness.                                                       *)

LEMMA RaisesTyped ==
    ASSUME SeedsTypeOK, NEW i \in Instances, pc[i] \in StartSteps, Raises(i),
           UNCHANGED setup
    PROVE  SeedsTypeOK'
<1>1. After(pc[i]) \in StartSteps \cup {"serving"} /\ SeedOf(pc[i]) \in Seeds
  BY AfterIsStep DEF StartSteps, OwnerSteps, ProfileSteps, PlanSteps
<1>2. pc' \in [Instances -> StartSteps \cup {"off", "serving"}]
  BY <1>1 DEF Raises, Step, SeedsTypeOK
<1>3. errors' \in [Instances -> SUBSET Seeds]
  BY <1>1 DEF Raises, SeedsTypeOK
<1>4. \A j \in pool_held' : j \in Instances /\ j # i /\ pc'[j] = pc[j]
  BY DEF Raises, Step, SeedsTypeOK
<1>5. pool_held' \subseteq
        {j \in Instances : pc'[j] \in {"count_plans", "find_gaming", "insert_plans"}}
  BY <1>4 DEF Raises, SeedsTypeOK
<1> QED
  BY <1>2, <1>3, <1>5 DEF Raises, SeedsTypeOK, tables, setup

\* Every step keeps the types.
LEMMA SeedsTypedStep ==
    ASSUME SeedsTypeOK, [SeedsNext]_seedsVars
    PROVE  SeedsTypeOK'
<1>0. CASE UNCHANGED seedsVars
  BY <1>0
  DEF SeedsTypeOK, StartSteps, OwnerSteps, ProfileSteps, PlanSteps, seedsVars, tables,
      setup
<1>1. ASSUME NEW i \in Instances, UNCHANGED setup,
             Start(i) \/ DatabaseRaises(i) \/ StopInstance(i)
      PROVE  SeedsTypeOK'
  <2>1. CASE Lifespan(i)
    <3>1. boots' \in [Instances -> 0..MaxBoots]
      BY <1>1, <2>1, StartupAssumption DEF Lifespan, SeedsTypeOK
    <3>2. pool_held' \subseteq
            {j \in Instances : pc'[j] \in {"count_plans", "find_gaming", "insert_plans"}}
      BY <1>1, <2>1 DEF Lifespan, Step, SeedsTypeOK
    <3> QED
      BY <1>1, <2>1, <3>1, <3>2
      DEF Lifespan, Step, SeedsTypeOK, StartSteps, OwnerSteps, ProfileSteps, PlanSteps,
          tables, setup
  <2>2. CASE EnsureBootstrapOwner(i)
    BY <1>1, <2>2
    DEF EnsureBootstrapOwner, Step, SeedsTypeOK, StartSteps, OwnerSteps, ProfileSteps,
        PlanSteps, tables, setup
  <2>14. CASE CountAdmins(i)
    BY <1>1, <2>14
    DEF CountAdmins, Step, SeedsTypeOK, StartSteps, OwnerSteps, ProfileSteps,
        PlanSteps, tables, setup
  <2>3. CASE InsertOwner(i)
    <3>1. CASE owner
      BY <1>1, <2>3, <3>1, RaisesTyped
      DEF InsertOwner, StartSteps, OwnerSteps, ProfileSteps, PlanSteps
    <3>2. CASE ~(owner)
      BY <1>1, <2>3, <3>2
      DEF InsertOwner, Step, SeedsTypeOK, StartSteps, OwnerSteps, ProfileSteps,
          PlanSteps, tables, setup
    <3> QED
      BY <3>1, <3>2
  <2>4. CASE SeedDefaultGamingProfile(i)
    BY <1>1, <2>4
    DEF SeedDefaultGamingProfile, Step, SeedsTypeOK, StartSteps, OwnerSteps,
        ProfileSteps, PlanSteps, tables, setup
  <2>5. CASE ReadVersion(i)
    <3>1. saw' \in [Instances -> Nat]
      BY <2>5 DEF ReadVersion, SeedsTypeOK, Versions
    <3>2. pool_held' \subseteq
            {j \in Instances : pc'[j] \in {"count_plans", "find_gaming", "insert_plans"}}
      BY <1>1, <2>5 DEF ReadVersion, Step, SeedsTypeOK
    <3> QED
      BY <1>1, <2>5, <3>1, <3>2
      DEF ReadVersion, Step, SeedsTypeOK, StartSteps, OwnerSteps, ProfileSteps,
          PlanSteps, tables, setup
  <2>6. CASE PublishProfile(i)
    <3>1. CASE saw[i] + 1 \in versions
      BY <1>1, <2>6, <3>1, RaisesTyped
      DEF PublishProfile, StartSteps, OwnerSteps, ProfileSteps, PlanSteps
    <3>2. CASE ~(saw[i] + 1 \in versions)
      <4>1. saw[i] + 1 \in Versions
        BY DEF SeedsTypeOK, Versions
      <4>2. versions' \subseteq Versions /\ current' \subseteq versions'
        BY <2>6, <3>2, <4>1 DEF PublishProfile, SeedsTypeOK
      <4> QED
        BY <1>1, <2>6, <3>2, <4>2
        DEF PublishProfile, Step, SeedsTypeOK, StartSteps, OwnerSteps, ProfileSteps,
            PlanSteps, setup
    <3> QED
      BY <3>1, <3>2
  <2>7. CASE CountPools(i)
    BY <1>1, <2>7
    DEF CountPools, Step, SeedsTypeOK, StartSteps, OwnerSteps, ProfileSteps, PlanSteps,
        tables, setup
  <2>8. CASE FlushPool(i)
    <3>1. CASE pool
      BY <1>1, <2>8, <3>1, RaisesTyped
      DEF FlushPool, StartSteps, OwnerSteps, ProfileSteps, PlanSteps
    <3>2. CASE ~(pool)
      BY <1>1, <2>8, <3>2
      DEF FlushPool, Step, SeedsTypeOK, StartSteps, OwnerSteps, ProfileSteps, PlanSteps,
          tables, setup
    <3> QED
      BY <3>1, <3>2
  <2>9. CASE CountPlans(i)
    BY <1>1, <2>9
    DEF CountPlans, Step, SeedsTypeOK, StartSteps, OwnerSteps, ProfileSteps, PlanSteps,
        tables, setup, CommitPool
  <2>10. CASE FindGamingProfile(i)
    <3>1. saw' \in [Instances -> Nat]
      BY <2>10 DEF FindGamingProfile, SeedsTypeOK, Versions
    <3>2. pool_held' \subseteq
            {j \in Instances : pc'[j] \in {"count_plans", "find_gaming", "insert_plans"}}
      BY <1>1, <2>10 DEF FindGamingProfile, Step, SeedsTypeOK
    <3> QED
      BY <1>1, <2>10, <3>1, <3>2
      DEF FindGamingProfile, Step, SeedsTypeOK, StartSteps, OwnerSteps, ProfileSteps,
          PlanSteps, tables, setup
  <2>11. CASE InsertPlans(i)
    BY <1>1, <2>11
    DEF InsertPlans, Step, SeedsTypeOK, StartSteps, OwnerSteps, ProfileSteps, PlanSteps,
        tables, setup, CommitPool
  <2>12. CASE DatabaseRaises(i)
    BY <1>1, <2>12, RaisesTyped DEF DatabaseRaises
  <2>13. CASE StopInstance(i)
    BY <1>1, <2>13
    DEF StopInstance, Step, SeedsTypeOK, StartSteps, OwnerSteps, ProfileSteps,
        PlanSteps, tables, setup
  <2> QED
    BY <1>1, <2>1, <2>2, <2>3, <2>4, <2>5, <2>6, <2>7, <2>8, <2>9, <2>10, <2>11, <2>12,
       <2>13, <2>14
    DEF Start
<1> QED
  BY <1>0, <1>1 DEF SeedsNext

----------------------------------------------------------------------------
(* The pool and the plans.                                                 *)

LEMMA RaisesPool ==
    ASSUME SeedsTypeOK, PoolGuardsPlans, NEW i \in Instances, pc[i] \in StartSteps, Raises(i)
    PROVE  PoolGuardsPlans'
<1>1. /\ UNCHANGED tables
      /\ pool_held' = pool_held \ {i}
      /\ \A j \in Instances : j # i => pc'[j] = pc[j]
  BY DEF Raises, Step, SeedsTypeOK
<1>2. pc'[i] \in {"find_profile", "count_pools", "serving"}
  BY AfterIsStep DEF Raises, Step, SeedsTypeOK
<1> QED
  BY <1>1, <1>2 DEF PoolGuardsPlans, tables

\* Who holds the pool's row keeps everybody else from the plans.
LEMMA PoolStep ==
    ASSUME SeedsTypeOK, PoolGuardsPlans, [SeedsNext]_seedsVars
    PROVE  PoolGuardsPlans'
<1>0. CASE UNCHANGED seedsVars
  BY <1>0 DEF PoolGuardsPlans, SeedsTypeOK, seedsVars, tables, setup
<1>1. ASSUME NEW i \in Instances, UNCHANGED setup,
             Start(i) \/ DatabaseRaises(i) \/ StopInstance(i)
      PROVE  PoolGuardsPlans'
  <2>1. CASE Lifespan(i)
    BY <2>1 DEF Lifespan, Step, PoolGuardsPlans, SeedsTypeOK, tables
  <2>2. CASE EnsureBootstrapOwner(i)
    BY <2>2 DEF EnsureBootstrapOwner, Step, PoolGuardsPlans, SeedsTypeOK, tables
  <2>14. CASE CountAdmins(i)
    BY <1>1, <2>14
    DEF CountAdmins, Step, PoolGuardsPlans, SeedsTypeOK, tables
  <2>3. CASE InsertOwner(i)
    <3>1. CASE owner
      BY <2>3, <3>1, RaisesPool
      DEF InsertOwner, StartSteps, OwnerSteps, ProfileSteps, PlanSteps
    <3>2. CASE ~(owner)
      BY <2>3, <3>2 DEF InsertOwner, Step, PoolGuardsPlans, SeedsTypeOK, tables
    <3> QED
      BY <3>1, <3>2
  <2>4. CASE SeedDefaultGamingProfile(i)
    BY <2>4 DEF SeedDefaultGamingProfile, Step, PoolGuardsPlans, SeedsTypeOK, tables
  <2>5. CASE ReadVersion(i)
    BY <2>5 DEF ReadVersion, Step, PoolGuardsPlans, SeedsTypeOK, tables
  <2>6. CASE PublishProfile(i)
    <3>1. CASE saw[i] + 1 \in versions
      BY <2>6, <3>1, RaisesPool
      DEF PublishProfile, StartSteps, OwnerSteps, ProfileSteps, PlanSteps
    <3>2. CASE ~(saw[i] + 1 \in versions)
      BY <2>6, <3>2
      DEF PublishProfile, Step, PoolGuardsPlans, SeedsTypeOK, tables, Versions
    <3> QED
      BY <3>1, <3>2
  <2>7. CASE CountPools(i)
    BY <2>7 DEF CountPools, Step, PoolGuardsPlans, SeedsTypeOK, tables
  <2>8. CASE FlushPool(i)
    <3>1. CASE pool
      BY <2>8, <3>1, RaisesPool
      DEF FlushPool, StartSteps, OwnerSteps, ProfileSteps, PlanSteps
    <3>2. CASE ~(pool)
      BY <2>8, <3>2 DEF FlushPool, Step, PoolGuardsPlans, SeedsTypeOK, tables
    <3> QED
      BY <3>1, <3>2
  <2>9. CASE CountPlans(i)
    BY <2>9 DEF CountPlans, Step, PoolGuardsPlans, SeedsTypeOK, tables, CommitPool
  <2>10. CASE FindGamingProfile(i)
    BY <2>10 DEF FindGamingProfile, Step, PoolGuardsPlans, SeedsTypeOK, tables
  <2>11. CASE InsertPlans(i)
    <3>1. i \in pool_held /\ ~pool /\ plans = <<>>
      BY <2>11 DEF InsertPlans, PoolGuardsPlans
    <3>2. plans' = <<saw[i]>>
      BY <2>11, <3>1 DEF InsertPlans
    <3>3. Len(plans') = 1 /\ plans' # <<>>
      BY <3>2
    <3>4. pool' /\ pool_held' = {}
      BY <2>11, <3>1 DEF InsertPlans, CommitPool, PoolGuardsPlans, SeedsTypeOK
    <3> QED
      BY <2>11, <3>3, <3>4 DEF InsertPlans, Step, PoolGuardsPlans, SeedsTypeOK
  <2>12. CASE DatabaseRaises(i)
    BY <2>12, RaisesPool DEF DatabaseRaises
  <2>13. CASE StopInstance(i)
    BY <2>13 DEF StopInstance, Step, PoolGuardsPlans, SeedsTypeOK, tables
  <2> QED
    BY <1>1, <2>1, <2>2, <2>3, <2>4, <2>5, <2>6, <2>7, <2>8, <2>9, <2>10, <2>11, <2>12,
       <2>13, <2>14
    DEF Start
<1> QED
  BY <1>0, <1>1 DEF SeedsNext

----------------------------------------------------------------------------
(* The versions of the profile.                                            *)

LEMMA RaisesVersions ==
    ASSUME VersionsInOrder, NEW i \in Instances, Raises(i)
    PROVE  VersionsInOrder'
  BY DEF Raises, VersionsInOrder, LastIsCurrent, tables

\* A version is published only by who has read the last one.
LEMMA VersionStep ==
    ASSUME SeedsTypeOK, VersionsInOrder, [SeedsNext]_seedsVars
    PROVE  VersionsInOrder'
<1>0. CASE UNCHANGED seedsVars
  BY <1>0 DEF VersionsInOrder, LastIsCurrent, SeedsTypeOK, seedsVars, tables, setup
<1>1. ASSUME NEW i \in Instances, UNCHANGED setup,
             Start(i) \/ DatabaseRaises(i) \/ StopInstance(i)
      PROVE  VersionsInOrder'
  <2>1. CASE Lifespan(i)
    BY <2>1 DEF Lifespan, Step, VersionsInOrder, LastIsCurrent, SeedsTypeOK, tables
  <2>2. CASE EnsureBootstrapOwner(i)
    BY <2>2
    DEF EnsureBootstrapOwner, Step, VersionsInOrder, LastIsCurrent, SeedsTypeOK, tables
  <2>14. CASE CountAdmins(i)
    BY <1>1, <2>14
    DEF CountAdmins, Step, VersionsInOrder, LastIsCurrent, SeedsTypeOK, tables
  <2>3. CASE InsertOwner(i)
    <3>1. CASE owner
      BY <2>3, <3>1, RaisesVersions
      DEF InsertOwner, StartSteps, OwnerSteps, ProfileSteps, PlanSteps
    <3>2. CASE ~(owner)
      BY <2>3, <3>2
      DEF InsertOwner, Step, VersionsInOrder, LastIsCurrent, SeedsTypeOK, tables
    <3> QED
      BY <3>1, <3>2
  <2>4. CASE SeedDefaultGamingProfile(i)
    BY <2>4
    DEF SeedDefaultGamingProfile, Step, VersionsInOrder, LastIsCurrent, SeedsTypeOK,
        tables
  <2>5. CASE ReadVersion(i)
    <3>1. PICK n \in Nat : LastIsCurrent(n)
      BY DEF VersionsInOrder
    <3>2. saw' = [saw EXCEPT ![i] = n]
      BY <2>5, <3>1 DEF ReadVersion, LastIsCurrent
    <3>3. LastIsCurrent(n)'
      BY <2>5, <3>1, <3>2 DEF ReadVersion, LastIsCurrent, SeedsTypeOK, tables
    <3> QED
      BY <3>3 DEF VersionsInOrder
  <2>6. CASE PublishProfile(i)
    <3>1. CASE saw[i] + 1 \in versions
      BY <2>6, <3>1, RaisesVersions DEF PublishProfile
    <3>2. CASE ~(saw[i] + 1 \in versions)
      <4>1. PICK n \in Nat : LastIsCurrent(n)
        BY DEF VersionsInOrder
      <4>2. saw[i] = n
        BY <3>2, <4>1 DEF LastIsCurrent, SeedsTypeOK
      <4>3. versions' = (1..n) \cup {n + 1} /\ saw' = saw
        BY <2>6, <3>2, <4>1, <4>2 DEF PublishProfile, LastIsCurrent
      <4>4. (1..n) \cup {n + 1} = 1..(n + 1)
        OBVIOUS
      <4>5. current \subseteq {n} /\ current' = (current \ {n}) \cup {n + 1}
        BY <2>6, <3>2, <4>1, <4>2 DEF PublishProfile, LastIsCurrent
      <4>6. current' = {n + 1}
        BY <4>5
      <4>7. LastIsCurrent(n + 1)'
        BY <4>1, <4>3, <4>4, <4>6 DEF LastIsCurrent, SeedsTypeOK
      <4> QED
        BY <4>7 DEF VersionsInOrder
    <3> QED
      BY <3>1, <3>2
  <2>7. CASE CountPools(i)
    BY <2>7 DEF CountPools, Step, VersionsInOrder, LastIsCurrent, SeedsTypeOK, tables
  <2>8. CASE FlushPool(i)
    <3>1. CASE pool
      BY <2>8, <3>1, RaisesVersions
      DEF FlushPool, StartSteps, OwnerSteps, ProfileSteps, PlanSteps
    <3>2. CASE ~(pool)
      BY <2>8, <3>2
      DEF FlushPool, Step, VersionsInOrder, LastIsCurrent, SeedsTypeOK, tables
    <3> QED
      BY <3>1, <3>2
  <2>9. CASE CountPlans(i)
    BY <2>9
    DEF CountPlans, Step, VersionsInOrder, LastIsCurrent, SeedsTypeOK, tables,
        CommitPool
  <2>10. CASE FindGamingProfile(i)
    <3>1. PICK n \in Nat : LastIsCurrent(n)
      BY DEF VersionsInOrder
    <3>2. saw' = [saw EXCEPT ![i] = n]
      BY <2>10, <3>1 DEF FindGamingProfile, LastIsCurrent
    <3>3. LastIsCurrent(n)'
      BY <2>10, <3>1, <3>2 DEF FindGamingProfile, LastIsCurrent, SeedsTypeOK, tables
    <3> QED
      BY <3>3 DEF VersionsInOrder
  <2>11. CASE InsertPlans(i)
    BY <2>11
    DEF InsertPlans, Step, VersionsInOrder, LastIsCurrent, SeedsTypeOK, tables,
        CommitPool
  <2>12. CASE DatabaseRaises(i)
    BY <2>12, RaisesVersions DEF DatabaseRaises
  <2>13. CASE StopInstance(i)
    BY <2>13 DEF StopInstance, Step, VersionsInOrder, LastIsCurrent, SeedsTypeOK, tables
  <2> QED
    BY <1>1, <2>1, <2>2, <2>3, <2>4, <2>5, <2>6, <2>7, <2>8, <2>9, <2>10, <2>11, <2>12,
       <2>13, <2>14
    DEF Start
<1> QED
  BY <1>0, <1>1 DEF SeedsNext

----------------------------------------------------------------------------
(* What an instance reports.                                               *)

LEMMA RaisesTruthful ==
    ASSUME SeedsTypeOK, Truthful, NEW i \in Instances, pc[i] \in StartSteps, Raises(i),
           UNCHANGED setup
    PROVE  Truthful'
<1>1. /\ UNCHANGED <<owner, plans, setup>>
      /\ \A j \in Instances \ {i} : pc'[j] = pc[j] /\ errors'[j] = errors[j]
      /\ pc'[i] = After(pc[i])
  BY DEF Raises, Step, SeedsTypeOK, tables, setup
<1>2. CASE pc[i] \in {"read_version", "insert_profile"}
  <2>1. errors'[i] = errors[i] /\ pc'[i] = "count_pools"
    BY <1>1, <1>2, AfterIsStep DEF Raises, SeedsTypeOK, ProfileSteps
  <2> QED
    BY <1>1, <1>2, <2>1 DEF Truthful, ProfileSteps, setup
<1>3. CASE pc[i] \notin {"read_version", "insert_profile"}
  <2>1. SeedOf(pc[i]) \in errors'[i]
    BY <1>3 DEF Raises, SeedsTypeOK
  <2> QED
    BY <1>1, <2>1 DEF Truthful, setup
<1> QED
  BY <1>2, <1>3

\* An instance that has reported nothing has passed over nothing.
LEMMA TruthStep ==
    ASSUME SeedsTypeOK, Truthful, [SeedsNext]_seedsVars
    PROVE  Truthful'
<1>0. CASE UNCHANGED seedsVars
  BY <1>0 DEF Truthful, SeedsTypeOK, ProfileSteps, PlanSteps, seedsVars, tables, setup
<1>1. ASSUME NEW i \in Instances, UNCHANGED setup,
             Start(i) \/ DatabaseRaises(i) \/ StopInstance(i)
      PROVE  Truthful'
  <2>1. CASE Lifespan(i)
    BY <1>1, <2>1
    DEF Lifespan, Step, Truthful, SeedsTypeOK, ProfileSteps, PlanSteps, tables, setup
  <2>2. CASE EnsureBootstrapOwner(i)
    BY <1>1, <2>2
    DEF EnsureBootstrapOwner, Step, Truthful, SeedsTypeOK, ProfileSteps, PlanSteps,
        tables, setup
  <2>14. CASE CountAdmins(i)
    BY <1>1, <2>14
    DEF CountAdmins, Step, Truthful, SeedsTypeOK, ProfileSteps, PlanSteps, tables,
        setup
  <2>3. CASE InsertOwner(i)
    <3>1. CASE owner
      BY <1>1, <2>3, <3>1, RaisesTruthful
      DEF InsertOwner, StartSteps, OwnerSteps, ProfileSteps, PlanSteps
    <3>2. CASE ~(owner)
      BY <1>1, <2>3, <3>2
      DEF InsertOwner, Step, Truthful, SeedsTypeOK, ProfileSteps, PlanSteps, tables, setup
    <3> QED
      BY <3>1, <3>2
  <2>4. CASE SeedDefaultGamingProfile(i)
    BY <1>1, <2>4
    DEF SeedDefaultGamingProfile, Step, Truthful, SeedsTypeOK, ProfileSteps, PlanSteps,
        tables, setup
  <2>5. CASE ReadVersion(i)
    BY <1>1, <2>5
    DEF ReadVersion, Step, Truthful, SeedsTypeOK, ProfileSteps, PlanSteps, tables, setup
  <2>6. CASE PublishProfile(i)
    <3>1. CASE saw[i] + 1 \in versions
      BY <1>1, <2>6, <3>1, RaisesTruthful
      DEF PublishProfile, StartSteps, OwnerSteps, ProfileSteps, PlanSteps
    <3>2. CASE ~(saw[i] + 1 \in versions)
      BY <1>1, <2>6, <3>2
      DEF PublishProfile, Step, Truthful, SeedsTypeOK, ProfileSteps, PlanSteps, tables, setup,
          Versions
    <3> QED
      BY <3>1, <3>2
  <2>7. CASE CountPools(i)
    BY <1>1, <2>7
    DEF CountPools, Step, Truthful, SeedsTypeOK, ProfileSteps, PlanSteps, tables, setup
  <2>8. CASE FlushPool(i)
    <3>1. CASE pool
      BY <1>1, <2>8, <3>1, RaisesTruthful
      DEF FlushPool, StartSteps, OwnerSteps, ProfileSteps, PlanSteps
    <3>2. CASE ~(pool)
      BY <1>1, <2>8, <3>2
      DEF FlushPool, Step, Truthful, SeedsTypeOK, ProfileSteps, PlanSteps, tables, setup
    <3> QED
      BY <3>1, <3>2
  <2>9. CASE CountPlans(i)
    BY <1>1, <2>9
    DEF CountPlans, Step, Truthful, SeedsTypeOK, ProfileSteps, PlanSteps, tables, setup,
        CommitPool
  <2>10. CASE FindGamingProfile(i)
    BY <1>1, <2>10
    DEF FindGamingProfile, Step, Truthful, SeedsTypeOK, ProfileSteps, PlanSteps, tables, setup
  <2>11. CASE InsertPlans(i)
    <3>1. plans' = Append(plans, saw[i]) /\ plans \in Seq(Nat)
      BY <2>11 DEF InsertPlans, SeedsTypeOK
    <3>2. Len(plans') = Len(plans) + 1 /\ Len(plans) \in Nat
      BY <3>1 DEF SeedsTypeOK
    <3>3. plans' # <<>>
      BY <3>2
    <3> QED
      BY <1>1, <2>11, <3>3
      DEF InsertPlans, Step, Truthful, SeedsTypeOK, ProfileSteps, PlanSteps, setup
  <2>12. CASE DatabaseRaises(i)
    BY <1>1, <2>12, RaisesTruthful DEF DatabaseRaises
  <2>13. CASE StopInstance(i)
    BY <1>1, <2>13
    DEF StopInstance, Step, Truthful, SeedsTypeOK, ProfileSteps, PlanSteps, tables, setup
  <2> QED
    BY <1>1, <2>1, <2>2, <2>3, <2>4, <2>5, <2>6, <2>7, <2>8, <2>9, <2>10, <2>11, <2>12,
       <2>13, <2>14
    DEF Start
<1> QED
  BY <1>0, <1>1 DEF SeedsNext

----------------------------------------------------------------------------
LEMMA SeedsInvStep == SeedsInv /\ [SeedsNext]_seedsVars => SeedsInv'
  BY SeedsTypedStep, PoolStep, VersionStep, TruthStep DEF SeedsInv

LEMMA SeedsInvAlways == SeedsSpec => []SeedsInv
  BY SeedsInvInit, SeedsInvStep, PTL DEF SeedsSpec

\* Starts keep the types of the instances' state and of the rows.
THEOREM StartTyped == SeedsSpec => []SeedsTypeOK
  BY SeedsInvAlways, PTL DEF SeedsInv, SeedsTypeOK

\* Plans, pool and profile are seeded once, however many instances start.
THEOREM AlwaysSeededOnce == SeedsSpec => []SeededOnce
<1>1. SeedsInv => SeededOnce
  <2> SUFFICES ASSUME SeedsInv PROVE SeededOnce
    OBVIOUS
  <2>1. PICK n \in Nat : current = IF n = 0 THEN {} ELSE {n}
    BY DEF SeedsInv, VersionsInOrder, LastIsCurrent
  <2>2. Cardinality(current) <= 1
    BY <2>1, FS_EmptySet, FS_Singleton
  <2> QED
    BY <2>2 DEF SeedsInv, PoolGuardsPlans, SeededOnce
<1> QED
  BY <1>1, SeedsInvAlways, PTL

\* A start that reports no error has left plans, and an OWNER wherever the
\* environment names one and nobody else began the table of admins.
THEOREM AlwaysReportedTruly == SeedsSpec => []ReportedTruly
<1>1. SeedsInv => ReportedTruly
  BY DEF SeedsInv, Truthful, ReportedTruly
<1> QED
  BY <1>1, SeedsInvAlways, PTL

----------------------------------------------------------------------------
\* Health loop and starts share nothing: in their composition each behaves
\* as it does alone, and what is proved of it alone holds there.
THEOREM PartsInControl ==
    ControlSpec =>
        /\ Spec /\ []TypeOK /\ []RowsAreDeployed /\ NoFlap
        /\ SeedsSpec /\ []SeededOnce /\ []ReportedTruly
<1>1. ControlInit => Init /\ SeedsInit
  BY DEF ControlInit
<1>2. [ControlNext]_controlVars => [Next]_vars /\ [SeedsNext]_seedsVars
  BY DEF ControlNext, Health, Starting, controlVars
<1>3. ControlSpec => Spec /\ SeedsSpec
  BY <1>1, <1>2, PTL DEF ControlSpec, Spec, SeedsSpec
<1> QED
  BY <1>3, HealthTyped, RowsAlwaysDeployed, NeverFlaps, AlwaysSeededOnce,
     AlwaysReportedTruly, PTL
=============================================================================
