----------------------------- MODULE Bootstrap -----------------------------
(***************************************************************************)
(* The first start on an empty database, by processes that may start at    *)
(* the same time and die at any point (bootstrap_service.py, init_data.py, *)
(* session.py): the fixed administrator and the seed resources are created *)
(* in one transaction, and whoever loses the race for the unique username  *)
(* looks again in a session of its own.  Then the administrator's password *)
(* is set once (api/auth.py), and the seeds are renamed and deleted as any *)
(* other resource.                                                         *)
(*                                                                         *)
(* READ COMMITTED: a transaction reads what is committed; an insert waits  *)
(* for the transaction that has inserted the same key.                     *)
(***************************************************************************)
EXTENDS Naturals, FiniteSets

CONSTANTS
    Processes, \* processes of the backend, and the requests of their clients
    Seeds,     \* entries of workspaces.yaml and agents.yaml
    NoProcess,
    MaxStarts  \* bound on starts of a process

ASSUME NoProcessAssumption == NoProcess \notin Processes

VARIABLES
    adminRow,  \* the committed row of the fixed administrator
    seedRow,   \* seedRow[s]: the resource created from a seed
    created,   \* created[s]: how often a resource was created from it
    setups,    \* passwords that were accepted by the setup
    boot,      \* boot[p]: how far the start of a process is
    setup,     \* setup[p]: how far its setup request is
    nameHeld,  \* who has inserted "admin" without having committed
    rowHeld,   \* who holds the row of the administrator
    starts

bootVars == <<adminRow, seedRow, created, setups, boot, setup, nameHeld, rowHeld, starts>>

BootInit ==
    /\ adminRow = [status |-> "absent", seeded |-> FALSE]
    /\ seedRow = [s \in Seeds |-> "absent"] /\ created = [s \in Seeds |-> 0]
    /\ setups = 0
    /\ boot = [p \in Processes |-> "down"] /\ setup = [p \in Processes |-> "none"]
    /\ nameHeld = NoProcess /\ rowHeld = NoProcess
    /\ starts = [p \in Processes |-> 0]

Seeded == adminRow.seeded
\* The names of the seeds that the unique index still holds: deleting leaves
\* the name in the index, renaming frees it.
NamesTaken == {s \in Seeds : seedRow[s] \in {"active", "deleted"}}

ToBoot(p, stage) == boot' = [boot EXCEPT ![p] = stage]
dataVars == <<adminRow, seedRow, created>>

----------------------------------------------------------------------------
(* ensure_initialized. *)

\* load_seed_resources, before the database is touched: a file that is
\* missing, too large or inconsistent keeps the process from starting.
StartProcess(p) ==
    /\ boot[p] = "down" /\ starts[p] < MaxStarts
    /\ starts' = [starts EXCEPT ![p] = @ + 1]
    /\ ToBoot(p, "reading")
    /\ UNCHANGED <<dataVars, setups, setup, nameHeld, rowHeld>>

\* Mutant: the seeds are looked up by their names.
NeedsSomeSeeds == ~Seeded \/ NamesTaken # Seeds
NeedsSeeds == ~Seeded

ReadAdmin(p) ==
    /\ boot[p] = "reading"
    /\ ToBoot(p, IF adminRow.status = "absent" THEN "inserting"
                 ELSE IF NeedsSeeds THEN "seeding" ELSE "ready")
    /\ UNCHANGED <<dataVars, setups, setup, nameHeld, rowHeld, starts>>

\* The flush of the new row: it waits for another that is being inserted, and
\* fails if one has been committed.
InsertAdmin(p) ==
    /\ boot[p] = "inserting" /\ nameHeld = NoProcess
    /\ IF adminRow.status = "absent"
         THEN ToBoot(p, "seeding") /\ nameHeld' = p
       ELSE ToBoot(p, "verifying") /\ UNCHANGED nameHeld
    /\ UNCHANGED <<dataVars, setups, setup, rowHeld, starts>>

Release(p) == nameHeld' = IF nameHeld = p THEN NoProcess ELSE nameHeld

\* The workspaces, then the agents that refer to them: a name that is taken
\* fails the transaction.
SeedCollides == NamesTaken # {}
CommitSeeds(p) ==
    /\ boot[p] = "seeding"
    /\ IF SeedCollides
         THEN ToBoot(p, "verifying") /\ UNCHANGED dataVars
       ELSE /\ ToBoot(p, "ready")
            /\ adminRow' = [status |-> IF adminRow.status = "absent" THEN "pending"
                                       ELSE adminRow.status,
                            seeded |-> TRUE]
            /\ seedRow' = [s \in Seeds |-> "active"]
            /\ created' = [s \in Seeds |-> created[s] + 1]
    /\ Release(p)
    /\ UNCHANGED <<setups, setup, rowHeld, starts>>

\* The verification after an IntegrityError, in a new session.
Initialized == adminRow.status \in {"pending", "completed"} /\ Seeded
Verify(p) ==
    /\ boot[p] = "verifying"
    /\ ToBoot(p, IF Initialized THEN "ready" ELSE "down")
    /\ UNCHANGED <<dataVars, setups, setup, nameHeld, rowHeld, starts>>

\* An error, a kill: whatever was not committed is rolled back.
StopProcess(p) ==
    /\ boot[p] # "down"
    /\ ToBoot(p, "down")
    /\ Release(p)
    /\ setup' = [setup EXCEPT ![p] = IF @ = "holding" THEN "refused" ELSE @]
    /\ rowHeld' = IF rowHeld = p THEN NoProcess ELSE rowHeld
    /\ UNCHANGED <<dataVars, setups, starts>>

----------------------------------------------------------------------------
(* The setup of the password, and the life of the seeds. *)

\* setup_initial_admin_password: the status is read from the locked row.
LockAdmin(p) ==
    /\ boot[p] = "ready" /\ setup[p] = "none" /\ rowHeld = NoProcess
    /\ IF adminRow.status = "pending"
         THEN setup' = [setup EXCEPT ![p] = "holding"] /\ rowHeld' = p
       ELSE setup' = [setup EXCEPT ![p] = "refused"] /\ UNCHANGED rowHeld
    /\ UNCHANGED <<dataVars, setups, boot, nameHeld, starts>>
CommitSetup(p) ==
    /\ setup[p] = "holding"
    /\ adminRow' = [adminRow EXCEPT !.status = "completed"]
    /\ setups' = setups + 1
    /\ setup' = [setup EXCEPT ![p] = "accepted"] /\ rowHeld' = NoProcess
    /\ UNCHANGED <<seedRow, created, boot, nameHeld, starts>>

\* The administrator renames or deletes what was seeded.
EditSeed(s) ==
    /\ adminRow.status = "completed" /\ \E p \in Processes : boot[p] = "ready"
    /\ \/ seedRow[s] = "active" /\ \E st \in {"renamed", "deleted"} :
              seedRow' = [seedRow EXCEPT ![s] = st]
       \/ seedRow[s] = "renamed" /\ seedRow' = [seedRow EXCEPT ![s] = "gone"]
    /\ UNCHANGED <<adminRow, created, setups, boot, setup, nameHeld, rowHeld, starts>>

BootNext ==
    \/ \E p \in Processes :
         \/ StartProcess(p) \/ ReadAdmin(p) \/ InsertAdmin(p) \/ CommitSeeds(p) \/ Verify(p)
         \/ StopProcess(p) \/ LockAdmin(p) \/ CommitSetup(p)
    \/ \E s \in Seeds : EditSeed(s)
BootSpec == BootInit /\ [][BootNext]_bootVars

----------------------------------------------------------------------------
(* Properties. *)

BootTypeOK ==
    /\ adminRow \in [status : {"absent", "pending", "completed"}, seeded : BOOLEAN]
    /\ seedRow \in [Seeds -> {"absent", "active", "renamed", "deleted", "gone"}]
    /\ boot \in [Processes -> {"down", "reading", "inserting", "seeding", "verifying", "ready"}]
    /\ setup \in [Processes -> {"none", "holding", "accepted", "refused"}]
    /\ created \in [Seeds -> Nat] /\ setups \in Nat
    /\ nameHeld \in Processes \cup {NoProcess} /\ rowHeld \in Processes \cup {NoProcess}

\* However many processes start at once, die and start again, a process that
\* is up finds the administrator and what was seeded; each seed is created
\* once, so that what was renamed or deleted since does not come back; and
\* one setup of the password is accepted (platform.md:206).
InitializedOnce ==
    /\ \A p \in Processes : boot[p] = "ready" => Initialized
    /\ \A s \in Seeds : created[s] = IF Initialized THEN 1 ELSE 0
    /\ setups <= 1
=============================================================================
