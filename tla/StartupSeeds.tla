---------------------------- MODULE StartupSeeds ----------------------------
(***************************************************************************)
(* The start of a web instance (lifespan of api/main.py): the bootstrap    *)
(* OWNER, then the gaming profile, then the default pool and its plans.    *)
(* Each is read-then-insert in a session of its own, an exception of one   *)
(* does not stop the next, and instances overlap in a rolling deployment.  *)
(*                                                                         *)
(* A row under a unique key that a transaction has not committed makes an  *)
(* INSERT of that key wait.  Only the pool is inserted before its commit   *)
(* (flush), so it is the only key that is ever held.                       *)
(***************************************************************************)
EXTENDS Naturals, Sequences, FiniteSets

CONSTANTS
    Instances,   \* web instances
    MaxBoots,    \* bound: how often each may start
    StartFaults  \* of "database": a statement raises; "restart": an instance stops

ASSUME StartupAssumption ==
    /\ MaxBoots \in Nat
    /\ StartFaults \subseteq {"database", "restart"}

OwnerSteps == {"find_owner", "count_admins", "insert_owner"}
ProfileSteps == {"find_profile", "read_version", "insert_profile"}
PlanSteps == {"count_pools", "flush_pool", "count_plans", "find_gaming", "insert_plans"}
StartSteps == OwnerSteps \cup ProfileSteps \cup PlanSteps
Seeds == {"bootstrap owner", "gaming profile", "default plans"}

VARIABLES
    owner_set,  \* whether this environment sets TELEGRAM_OWNER_ID
    others,     \* whether the admins table holds rows of other people
    pc,         \* the next step of each instance, or off, serving
    boots,      \* how often it started
    errors,     \* startup_errors
    saw,        \* the version its last read of the profile found, 0: none
    pool_held,  \* the instance whose pool is flushed and not committed
    owner,      \* committed: the OWNER row
    versions,   \* ... the versions of the gaming profile
    current,    \* ... those with is_current
    pool,       \* ... the pool "general"
    plans       \* ... each seeding of plans: the version its gaming plan is bound to

setup == <<owner_set, others>>
tables == <<owner, versions, current, pool, plans>>
seedsVars == <<setup, pc, boots, errors, saw, pool_held, tables>>

Versions == Nat \ {0}

SeedsTypeOK ==
    /\ owner_set \in BOOLEAN /\ others \in BOOLEAN
    /\ pc \in [Instances -> StartSteps \cup {"off", "serving"}]
    /\ boots \in [Instances -> 0..MaxBoots]
    /\ errors \in [Instances -> SUBSET Seeds]
    /\ saw \in [Instances -> Nat]
    /\ pool_held \subseteq
           {i \in Instances : pc[i] \in {"count_plans", "find_gaming", "insert_plans"}}
    /\ owner \in BOOLEAN /\ pool \in BOOLEAN
    /\ versions \subseteq Versions /\ current \subseteq versions
    /\ plans \in Seq(Nat)

SeedsInit ==
    /\ owner_set \in BOOLEAN /\ others \in BOOLEAN
    /\ pc = [i \in Instances |-> "off"]
    /\ boots = [i \in Instances |-> 0]
    /\ errors = [i \in Instances |-> {}]
    /\ saw = [i \in Instances |-> 0]
    /\ pool_held = {}
    /\ owner = FALSE /\ versions = {} /\ current = {}
    /\ pool = FALSE /\ plans = <<>>

Step(i, step) == pc' = [pc EXCEPT ![i] = step]

\* The seed a step belongs to, and what comes after that seed.
SeedOf(step) ==
    CASE step \in OwnerSteps -> "bootstrap owner"
      [] step \in ProfileSteps -> "gaming profile"
      [] step \in PlanSteps -> "default plans"

After(step) ==
    CASE step \in OwnerSteps -> "find_profile"
      [] step \in ProfileSteps -> "count_pools"
      [] step \in PlanSteps -> "serving"

Raises_SessionLeaks(i) ==
    /\ Step(i, After(pc[i]))
    /\ errors' = [errors EXCEPT ![i] = @ \cup {SeedOf(pc[i])}]
    /\ UNCHANGED <<boots, saw, pool_held, tables>>

Raises_NotReported(i) ==
    /\ Step(i, After(pc[i]))
    /\ pool_held' = pool_held \ {i}
    /\ UNCHANGED <<boots, errors, saw, tables>>

\* The session is rolled back and the start goes on.  What publish_profile
\* raises is caught by the seed itself: nobody is told.
Raises(i) ==
    /\ Step(i, After(pc[i]))
    /\ errors' = [errors EXCEPT ![i] =
           IF pc[i] \in {"read_version", "insert_profile"} THEN @ ELSE @ \cup {SeedOf(pc[i])}]
    /\ pool_held' = pool_held \ {i}
    /\ UNCHANGED <<boots, saw, tables>>

----------------------------------------------------------------------------
Lifespan(i) ==
    /\ pc[i] = "off" /\ boots[i] < MaxBoots
    /\ Step(i, "find_owner")
    /\ boots' = [boots EXCEPT ![i] = @ + 1]
    /\ errors' = [errors EXCEPT ![i] = {}]
    /\ UNCHANGED <<saw, pool_held, tables>>

\* Without an id there is no owner to look for, and that is no error.
EnsureBootstrapOwner(i) ==
    /\ pc[i] = "find_owner"
    /\ Step(i, IF owner_set /\ ~owner THEN "count_admins" ELSE "find_profile")
    /\ UNCHANGED <<boots, errors, saw, pool_held, tables>>

\* The table is asked once more whether it is empty: only the first admin is
\* inserted here, and without a row the start goes on as if it had been.
CountAdmins(i) ==
    /\ pc[i] = "count_admins"
    /\ Step(i, IF owner \/ others THEN "find_profile" ELSE "insert_owner")
    /\ UNCHANGED <<boots, errors, saw, pool_held, tables>>

\* telegram_user_id is unique.
InsertOwner(i) ==
    /\ pc[i] = "insert_owner"
    /\ IF owner
       THEN Raises(i)
       ELSE /\ owner' = TRUE
            /\ Step(i, "find_profile")
            /\ UNCHANGED <<boots, errors, saw, pool_held, versions, current, pool,
                           plans>>

SeedDefaultGamingProfile(i) ==
    /\ pc[i] = "find_profile"
    /\ Step(i, IF current = {} THEN "read_version" ELSE "count_pools")
    /\ UNCHANGED <<boots, errors, saw, pool_held, tables>>

\* publish_profile looks again, and may find what another instance published.
ReadVersion(i) ==
    /\ pc[i] = "read_version"
    /\ saw' = [saw EXCEPT ![i] = IF current = {} THEN 0 ELSE CHOOSE v \in current : TRUE]
    /\ Step(i, "insert_profile")
    /\ UNCHANGED <<boots, errors, pool_held, tables>>

\* (name, version) is unique.
PublishProfile(i) ==
    /\ pc[i] = "insert_profile"
    /\ IF saw[i] + 1 \in versions
       THEN Raises(i)
       ELSE /\ versions' = versions \cup {saw[i] + 1}
            /\ current' = (current \ {saw[i]}) \cup {saw[i] + 1}
            /\ Step(i, "count_pools")
            /\ UNCHANGED <<boots, errors, saw, pool_held, owner, pool, plans>>

CountPools(i) ==
    /\ pc[i] = "count_pools"
    /\ Step(i, IF pool THEN "count_plans" ELSE "flush_pool")
    /\ UNCHANGED <<boots, errors, saw, pool_held, tables>>

FlushPool_Commits(i) ==
    /\ pc[i] = "flush_pool"
    /\ IF pool
       THEN Raises(i)
       ELSE /\ pool' = TRUE
            /\ Step(i, "count_plans")
            /\ UNCHANGED <<boots, errors, saw, pool_held, owner, versions, current,
                           plans>>

\* The name is unique: the INSERT waits while another instance holds it.
FlushPool(i) ==
    /\ pc[i] = "flush_pool"
    /\ pool_held = {}
    /\ IF pool
       THEN Raises(i)
       ELSE /\ pool_held' = {i}
            /\ Step(i, "count_plans")
            /\ UNCHANGED <<boots, errors, saw, tables>>

\* COMMIT, of the pool too if it was flushed.
CommitPool(i) ==
    /\ pool' = (pool \/ i \in pool_held)
    /\ pool_held' = pool_held \ {i}

CountPlans(i) ==
    /\ pc[i] = "count_plans"
    /\ IF plans # <<>>
       THEN CommitPool(i) /\ Step(i, "serving")
       ELSE Step(i, "find_gaming") /\ UNCHANGED <<pool, pool_held>>
    /\ UNCHANGED <<boots, errors, saw, owner, versions, current, plans>>

FindGamingProfile(i) ==
    /\ pc[i] = "find_gaming"
    /\ saw' = [saw EXCEPT ![i] = IF current = {} THEN 0 ELSE CHOOSE v \in current : TRUE]
    /\ Step(i, "insert_plans")
    /\ UNCHANGED <<boots, errors, pool_held, tables>>

InsertPlans(i) ==
    /\ pc[i] = "insert_plans"
    /\ plans' = Append(plans, saw[i])
    /\ CommitPool(i)
    /\ Step(i, "serving")
    /\ UNCHANGED <<boots, errors, saw, owner, versions, current>>

DatabaseRaises(i) ==
    /\ "database" \in StartFaults
    /\ pc[i] \in StartSteps
    /\ Raises(i)

\* An open transaction is rolled back.
StopInstance(i) ==
    /\ "restart" \in StartFaults
    /\ pc[i] # "off"
    /\ Step(i, "off")
    /\ pool_held' = pool_held \ {i}
    /\ UNCHANGED <<boots, errors, saw, tables>>

----------------------------------------------------------------------------
Start(i) ==
    \/ Lifespan(i)
    \/ EnsureBootstrapOwner(i) \/ CountAdmins(i) \/ InsertOwner(i)
    \/ SeedDefaultGamingProfile(i) \/ ReadVersion(i) \/ PublishProfile(i)
    \/ CountPools(i) \/ FlushPool(i) \/ CountPlans(i)
    \/ FindGamingProfile(i) \/ InsertPlans(i)

SeedsNext ==
    /\ UNCHANGED setup
    /\ \E i \in Instances : Start(i) \/ DatabaseRaises(i) \/ StopInstance(i)

SeedsSpec == SeedsInit /\ [][SeedsNext]_seedsVars
SeedsFairSpec ==
    SeedsSpec /\ \A i \in Instances : WF_seedsVars(Start(i) /\ UNCHANGED setup)

----------------------------------------------------------------------------
\* However many instances start together, stop and fail, the default plans
\* are seeded once, with their pool, whose unsaved row keeps the others out
\* until the plans are committed too; and one profile is current at most.
SeededOnce ==
    /\ Len(plans) <= 1
    /\ pool <=> plans # <<>>
    /\ Cardinality(current) <= 1

\* An instance that reports no failed start serves with plans, and with an
\* OWNER: unless the environment names none, or its admins table was begun by
\* somebody else, when the bootstrap steps back without an error.
ReportedTruly ==
    \A i \in Instances : pc[i] = "serving" /\ errors[i] = {} =>
        /\ plans # <<>>
        /\ owner_set /\ ~others => owner

\* Every start ends, although one may wait for the pool of another that
\* fails or stops.
StartEnds ==
    \A i \in Instances : pc[i] \in StartSteps ~> pc[i] \in {"serving", "off"}
=============================================================================
