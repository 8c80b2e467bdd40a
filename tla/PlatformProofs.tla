---------------------------- MODULE PlatformProofs ----------------------------
(* What TLAPS proves of three small components: of Bootstrap, for any        *)
(* processes and seeds, of Lifespan, for any number of events, lifespans and *)
(* faults, and of AgentHome, for any files, texts, clients and locks,        *)
(* however keys are hashed to locks.                                         *)
EXTENDS Bootstrap, Lifespan, AgentHome, TLAPS

-----------------------------------------------------------------------------
(* Bootstrap: the inductive invariant *)

\* The administrator and the seeds are committed together, each seed once.
SeededTogether ==
    /\ Seeded <=> adminRow.status # "absent"
    /\ \A s \in Seeds : /\ created[s] = IF Seeded THEN 1 ELSE 0
                        /\ ~Seeded => seedRow[s] = "absent"

\* Who creates the seeds holds the administrator's name, and nobody is ready
\* before they are committed.
ProcessInv(p) ==
    /\ boot[p] = "seeding" => nameHeld = p /\ ~Seeded
    /\ boot[p] = "ready" => Seeded
    /\ setup[p] = "holding" => rowHeld = p /\ adminRow.status = "pending"

BootInv ==
    /\ BootTypeOK
    /\ SeededTogether
    /\ setups = IF adminRow.status = "completed" THEN 1 ELSE 0
    /\ \A p \in Processes : ProcessInv(p)

USE NoProcessAssumption

\* Nobody has started on an empty database.
LEMMA BootInitInv == BootInit => BootInv
  BY DEF BootInit, BootInv, BootTypeOK, SeededTogether, ProcessInv, Seeded

\* What only reads, or moves one process on, keeps what the rows say.
LEMMA BootReads ==
    ASSUME BootInv, NEW p \in Processes,
           StartProcess(p) \/ ReadAdmin(p) \/ InsertAdmin(p) \/ Verify(p)
    PROVE  BootInv'
<1>1. CASE StartProcess(p)
  BY <1>1 DEF BootInv, BootTypeOK, SeededTogether, ProcessInv, Seeded, StartProcess, ToBoot,
              dataVars
<1>2. CASE ReadAdmin(p)
  BY <1>2 DEF BootInv, BootTypeOK, SeededTogether, ProcessInv, Seeded, ReadAdmin, ToBoot,
              dataVars, NeedsSeeds
<1>3. CASE InsertAdmin(p)
  BY <1>3 DEF BootInv, BootTypeOK, SeededTogether, ProcessInv, Seeded, InsertAdmin, ToBoot,
              dataVars
<1>4. CASE Verify(p)
  BY <1>4 DEF BootInv, BootTypeOK, SeededTogether, ProcessInv, Seeded, Verify, ToBoot,
              dataVars, Initialized
<1> QED BY <1>1, <1>2, <1>3, <1>4

\* The names of the seeds are free: nothing collides, and everything is
\* created in this one transaction.
LEMMA SeedsCommitOnce ==
    ASSUME BootInv, NEW p \in Processes, CommitSeeds(p)
    PROVE  BootInv'
<1>1. ~Seeded /\ nameHeld = p /\ adminRow.status = "absent"
  BY DEF BootInv, ProcessInv, SeededTogether, CommitSeeds
<1>2. ~SeedCollides
  BY <1>1 DEF BootInv, SeededTogether, SeedCollides, NamesTaken
<1>3. /\ boot' = [boot EXCEPT ![p] = "ready"]
      /\ adminRow' = [status |-> "pending", seeded |-> TRUE]
      /\ seedRow' = [s \in Seeds |-> "active"]
      /\ created' = [s \in Seeds |-> created[s] + 1]
      /\ nameHeld' = NoProcess
      /\ UNCHANGED <<setups, setup, rowHeld, starts>>
  BY <1>1, <1>2 DEF CommitSeeds, Release, ToBoot
<1>4. BootTypeOK'
  BY <1>3 DEF BootInv, BootTypeOK
<1>5. SeededTogether' /\ setups' = IF adminRow'.status = "completed" THEN 1 ELSE 0
  BY <1>1, <1>3 DEF BootInv, BootTypeOK, SeededTogether, Seeded
<1>6. ASSUME NEW q \in Processes PROVE ProcessInv(q)'
  <2>1. boot[q] # "seeding" \/ q = p
    BY <1>1 DEF BootInv, ProcessInv
  <2>2. setup[q] # "holding"
    BY <1>1 DEF BootInv, ProcessInv
  <2> QED BY <1>3, <2>1, <2>2 DEF BootInv, BootTypeOK, ProcessInv, Seeded
<1> QED BY <1>4, <1>5, <1>6 DEF BootInv

\* A process that stops releases what it held.
LEMMA StopKeeps ==
    ASSUME BootInv, NEW p \in Processes, StopProcess(p)
    PROVE  BootInv'
<1>1. BootTypeOK'
  BY DEF BootInv, BootTypeOK, StopProcess, ToBoot, Release, dataVars
<1>2. SeededTogether' /\ setups' = IF adminRow'.status = "completed" THEN 1 ELSE 0
  BY DEF BootInv, BootTypeOK, SeededTogether, Seeded, StopProcess, dataVars
<1>3. ASSUME NEW q \in Processes PROVE ProcessInv(q)'
  <2>1. CASE q = p
    BY <2>1 DEF BootInv, BootTypeOK, ProcessInv, Seeded, StopProcess, ToBoot, Release, dataVars
  <2>2. CASE q # p
    BY <2>2 DEF BootInv, BootTypeOK, ProcessInv, Seeded, StopProcess, ToBoot, Release, dataVars
  <2> QED BY <2>1, <2>2
<1> QED BY <1>1, <1>2, <1>3 DEF BootInv

\* Whoever holds the row of the administrator is the only one, and has read
\* that no password is set.
LEMMA SetupOnce ==
    ASSUME BootInv, NEW p \in Processes, LockAdmin(p) \/ CommitSetup(p)
    PROVE  BootInv'
<1>1. CASE LockAdmin(p)
  BY <1>1 DEF BootInv, BootTypeOK, SeededTogether, ProcessInv, Seeded, LockAdmin, dataVars
<1>2. CASE CommitSetup(p)
  <2>1. rowHeld = p /\ adminRow.status = "pending" /\ setups = 0
    BY <1>2 DEF BootInv, ProcessInv, CommitSetup
  <2>2. /\ adminRow' = [adminRow EXCEPT !.status = "completed"] /\ setups' = 1
        /\ setup' = [setup EXCEPT ![p] = "accepted"] /\ rowHeld' = NoProcess
        /\ UNCHANGED <<seedRow, created, boot, nameHeld, starts>>
    BY <1>2, <2>1 DEF CommitSetup
  <2>3. BootTypeOK'
    BY <2>2 DEF BootInv, BootTypeOK
  <2>4. SeededTogether' /\ setups' = IF adminRow'.status = "completed" THEN 1 ELSE 0
    BY <2>1, <2>2 DEF BootInv, BootTypeOK, SeededTogether, Seeded
  <2>5. ASSUME NEW q \in Processes PROVE ProcessInv(q)'
    BY <2>1, <2>2 DEF BootInv, BootTypeOK, ProcessInv, Seeded
  <2> QED BY <2>3, <2>4, <2>5 DEF BootInv
<1> QED BY <1>1, <1>2

\* Renaming and deleting seeds touches nothing else.
LEMMA EditKeeps ==
    ASSUME BootInv, NEW s \in Seeds, EditSeed(s)
    PROVE  BootInv'
  BY DEF BootInv, BootTypeOK, SeededTogether, ProcessInv, Seeded, EditSeed

LEMMA BootNextInv == BootInv /\ [BootNext]_bootVars => BootInv'
<1> SUFFICES ASSUME BootInv, [BootNext]_bootVars PROVE BootInv'
  OBVIOUS
<1>1. CASE UNCHANGED bootVars
  BY <1>1 DEF bootVars, BootInv, BootTypeOK, SeededTogether, ProcessInv, Seeded
<1>2. CASE BootNext
  BY <1>2, BootReads, SeedsCommitOnce, StopKeeps, SetupOnce, EditKeeps DEF BootNext
<1> QED BY <1>1, <1>2

-----------------------------------------------------------------------------
(* Theorems *)

\* Every reachable state of any number of processes satisfies the invariant.
THEOREM BootInvariance == BootSpec => []BootInv
  BY BootInitInv, BootNextInv, PTL DEF BootSpec

\* However many processes start at once, die and start again: who is up finds
\* the administrator and the seeds, each seed was created once, and one setup
\* of the password was accepted (bootstrap_application and
\* setup_initial_admin_password).
THEOREM InitializedOnceAlways == BootSpec => []InitializedOnce
<1>1. BootInv => InitializedOnce
  BY DEF BootInv, BootTypeOK, SeededTogether, ProcessInv, InitializedOnce, Initialized, Seeded
<1> QED BY <1>1, BootInvariance, PTL

-----------------------------------------------------------------------------
(* Lifespan: the inductive invariant *)

\* A turn is made by a handler that then owns it, and is handed to an
\* execution at most once.
CallInv(c) ==
    /\ handler[c].stage \in {"idle", "admitted", "thread"} => turn[c] = "none"
    /\ handler[c].stage # "over" => execution[c] = "none"
    /\ c \in Unsettled => Owned(c) \/ c \in lost

\* What is already over at each phase of the shutdown, and stays so until the
\* next lifespan serves.
Quiet == {"join", "sockets", "aclose", "dispose", "down"} \cup Starting
PhaseInv ==
    /\ phase \in Stopping => gate
    /\ phase \in Quiet \cup {"executions"} => Active = {}
    /\ phase \in Quiet => Background = {}
    /\ phase \in Quiet \ {"join"} => indexer = "off"
    /\ indexer # "off" => started.worker

LifeInv == LifeTypeOK /\ PhaseInv /\ \A c \in Calls : CallInv(c)

USE DEF Starting, Stopping, Quiet, Active, Background, Unsettled, Owned, NotDrained,
        workVars, turnsVars

\* Nothing has started.
LEMMA LifeInitInv == LifeInit => LifeInv
<1> SUFFICES ASSUME LifeInit PROVE LifeInv
  OBVIOUS
<1>1. LifeTypeOK
  BY DEF LifeInit, LifeTypeOK, NoCall, Nothing
<1>2. PhaseInv
  BY DEF LifeInit, PhaseInv, NoCall
<1>3. \A c \in Calls : CallInv(c)
  BY DEF LifeInit, CallInv, NoCall
<1> QED BY <1>1, <1>2, <1>3 DEF LifeInv

-----------------------------------------------------------------------------
(* The lifespan and the worker's thread: no event and no execution moves. *)

LEMMA StartKeeps ==
    ASSUME LifeInv,
           Start \/ StartFails \/ BootstrapApplication \/ RecoverInterrupted
             \/ BuildRealtime \/ OpenNamespace \/ StartWorker
    PROVE  LifeInv'
<1>1. CASE Start
  BY <1>1 DEF Start, LifeInv, LifeTypeOK, PhaseInv, CallInv
<1>2. CASE StartFails
  BY <1>2 DEF StartFails, LifeInv, LifeTypeOK, PhaseInv, CallInv
<1>3. CASE BootstrapApplication
  BY <1>3 DEF BootstrapApplication, LifeInv, LifeTypeOK, PhaseInv, CallInv
<1>4. CASE RecoverInterrupted
  BY <1>4 DEF RecoverInterrupted, LifeInv, LifeTypeOK, PhaseInv, CallInv
<1>5. CASE BuildRealtime
  BY <1>5 DEF BuildRealtime, LifeInv, LifeTypeOK, PhaseInv, CallInv
<1>6. CASE OpenNamespace
  BY <1>6 DEF OpenNamespace, LifeInv, LifeTypeOK, PhaseInv, CallInv
<1>7. CASE StartWorker
  BY <1>7 DEF StartWorker, LifeInv, LifeTypeOK, PhaseInv, CallInv
<1> QED BY <1>1, <1>2, <1>3, <1>4, <1>5, <1>6, <1>7

LEMMA LifeStopKeeps ==
    ASSUME LifeInv,
           Shutdown \/ HandlersDrained \/ AskToStop \/ ExecutionsDrained \/ JoinWorker
             \/ CloseSockets \/ CloseRealtime \/ DisposeEngine
    PROVE  LifeInv'
<1>1. CASE Shutdown
  BY <1>1 DEF Shutdown, LifeInv, LifeTypeOK, PhaseInv, CallInv
<1>2. CASE HandlersDrained
  BY <1>2 DEF HandlersDrained, LifeInv, LifeTypeOK, PhaseInv, CallInv
<1>3. CASE AskToStop
  BY <1>3 DEF AskToStop, LifeInv, LifeTypeOK, PhaseInv, CallInv
<1>4. CASE ExecutionsDrained
  BY <1>4 DEF ExecutionsDrained, LifeInv, LifeTypeOK, PhaseInv, CallInv
<1>5. CASE JoinWorker
  BY <1>5 DEF JoinWorker, WorkerJoined, LifeInv, LifeTypeOK, PhaseInv, CallInv
<1>6. CASE CloseSockets
  BY <1>6 DEF CloseSockets, LifeInv, LifeTypeOK, PhaseInv, CallInv
<1>7. CASE CloseRealtime
  BY <1>7 DEF CloseRealtime, LifeInv, LifeTypeOK, PhaseInv, CallInv
<1>8. CASE DisposeEngine
  BY <1>8 DEF DisposeEngine, LifeInv, LifeTypeOK, PhaseInv, CallInv
<1> QED BY <1>1, <1>2, <1>3, <1>4, <1>5, <1>6, <1>7, <1>8

LEMMA IndexerKeeps ==
    ASSUME LifeInv, IndexerWorks \/ IndexerRests \/ IndexerStops
    PROVE  LifeInv'
  BY DEF IndexerWorks, IndexerRests, IndexerStops, LifeInv, LifeTypeOK, PhaseInv, CallInv

\* Whatever was unsettled when the process died is lost until the recovery.
LEMMA CrashKeeps == ASSUME LifeInv, Crash PROVE LifeInv'
<1>1. LifeTypeOK'
  BY DEF Crash, Fault, Nothing, LifeInv, LifeTypeOK
<1>2. PhaseInv'
  BY DEF Crash, Fault, Nothing, LifeInv, LifeTypeOK, PhaseInv
<1>3. \A c \in Calls : CallInv(c)'
  BY DEF Crash, Fault, LifeInv, LifeTypeOK, CallInv
<1> QED BY <1>1, <1>2, <1>3 DEF LifeInv

-----------------------------------------------------------------------------
(* A step of one event or execution. *)

\* It changes nothing but what belongs to its own call, and neither wakes an
\* event where all are drained nor starts an execution but from an event.
OnlyCall(c) ==
    /\ UNCHANGED <<phase, gate, asked, indexer, started>>
    /\ \A x \in Calls \ {c} : /\ handler'[x] = handler[x] /\ execution'[x] = execution[x]
                              /\ turn'[x] = turn[x] /\ (x \in lost => x \in lost')
Wakes(c) ==
    /\ c \in Active' => c \in Active \/ phase = "serving"
    /\ c \in Background' => c \in Background \/ c \in Active

LEMMA CallFrame ==
    ASSUME LifeInv, NEW c \in Calls, OnlyCall(c), Wakes(c), LifeTypeOK', CallInv(c)'
    PROVE  LifeInv'
<1>1. \A x \in Calls : CallInv(x)'
  BY DEF LifeInv, CallInv, OnlyCall
<1>2. PhaseInv'
  <2>1. phase' = phase /\ gate' = gate /\ indexer' = indexer /\ started' = started
    BY DEF OnlyCall
  <2>2. phase # "serving" /\ Active = {} => Active' = {}
    BY DEF OnlyCall, Wakes
  <2>3. phase # "serving" /\ Active = {} /\ Background = {} => Background' = {}
    BY DEF OnlyCall, Wakes
  <2> QED BY <2>1, <2>2, <2>3 DEF LifeInv, PhaseInv
<1> QED BY <1>1, <1>2 DEF LifeInv

\* A turn's outcome is stored or lost.
LEMMA Settles ==
    ASSUME LifeInv, NEW c \in Calls, NEW desired \in {"COMPLETED", "FAILED"},
           SettleTurn(c, desired)
    PROVE  /\ turn' \in [Calls -> {"none", "PENDING", "RUNNING", "COMPLETED", "FAILED", "CANCELLED"}]
           /\ lost' \subseteq Calls /\ lost \subseteq lost'
           /\ \A x \in Calls \ {c} : turn'[x] = turn[x]
           /\ turn'[c] \in {"PENDING", "RUNNING"} => c \in lost'
  BY DEF SettleTurn, Fault, LifeInv, LifeTypeOK

LEMMA HandlerKeeps ==
    ASSUME LifeInv, NEW c \in Calls,
           TriggerEvent(c) \/ BeginWork(c) \/ QueryEnds(c) \/ PrepareSend(c)
             \/ EnterAndSchedule(c) \/ CancelHandler(c)
    PROVE  LifeInv'
<1>1. CASE TriggerEvent(c)
  <2>1. LifeTypeOK' /\ OnlyCall(c) /\ CallInv(c)'
    BY <1>1 DEF TriggerEvent, LifeInv, LifeTypeOK, OnlyCall, CallInv
  <2>2. Wakes(c)
    BY <1>1 DEF TriggerEvent, Connected, Admitted, LifeInv, LifeTypeOK, PhaseInv, Wakes
  <2> QED BY <2>1, <2>2, CallFrame
<1>2. CASE BeginWork(c)
  <2>1. LifeTypeOK' /\ OnlyCall(c) /\ CallInv(c)' /\ Wakes(c)
    <3>1. LifeTypeOK'
      BY <1>2 DEF BeginWork, ToStage, LifeInv, LifeTypeOK
    <3>2. OnlyCall(c)
      BY <1>2 DEF BeginWork, ToStage, LifeInv, LifeTypeOK, OnlyCall
    <3>3. CallInv(c)'
      BY <1>2 DEF BeginWork, ToStage, LifeInv, LifeTypeOK, CallInv
    <3>4. Wakes(c)
      BY <1>2 DEF BeginWork, ToStage, LifeInv, LifeTypeOK, Wakes
    <3> QED BY <3>1, <3>2, <3>3, <3>4
  <2> QED BY <2>1, CallFrame
<1>3. CASE QueryEnds(c)
  <2>1. LifeTypeOK' /\ OnlyCall(c) /\ CallInv(c)' /\ Wakes(c)
    <3>1. LifeTypeOK'
      BY <1>3 DEF QueryEnds, ToStage, LifeInv, LifeTypeOK
    <3>2. OnlyCall(c)
      BY <1>3 DEF QueryEnds, ToStage, LifeInv, LifeTypeOK, OnlyCall
    <3>3. CallInv(c)'
      BY <1>3 DEF QueryEnds, ToStage, LifeInv, LifeTypeOK, CallInv
    <3>4. Wakes(c)
      BY <1>3 DEF QueryEnds, ToStage, LifeInv, LifeTypeOK, Wakes
    <3> QED BY <3>1, <3>2, <3>3, <3>4
  <2> QED BY <2>1, CallFrame
<1>4. CASE PrepareSend(c)
  <2>1. LifeTypeOK' /\ OnlyCall(c) /\ CallInv(c)' /\ Wakes(c)
    <3>1. LifeTypeOK'
      BY <1>4 DEF PrepareSend, Fault, ToStage, LifeInv, LifeTypeOK
    <3>2. OnlyCall(c)
      BY <1>4 DEF PrepareSend, Fault, ToStage, LifeInv, LifeTypeOK, OnlyCall
    <3>3. CallInv(c)'
      BY <1>4 DEF PrepareSend, Fault, ToStage, LifeInv, LifeTypeOK, CallInv
    <3>4. Wakes(c)
      BY <1>4 DEF PrepareSend, Fault, ToStage, LifeInv, LifeTypeOK, Wakes
    <3> QED BY <3>1, <3>2, <3>3, <3>4
  <2> QED BY <2>1, CallFrame
<1>5. CASE EnterAndSchedule(c)
  <2>1. LifeTypeOK' /\ OnlyCall(c) /\ CallInv(c)' /\ Wakes(c)
    <3>1. LifeTypeOK'
      BY <1>5 DEF EnterAndSchedule, ToStage, LifeInv, LifeTypeOK
    <3>2. OnlyCall(c)
      BY <1>5 DEF EnterAndSchedule, ToStage, LifeInv, LifeTypeOK, OnlyCall
    <3>3. CallInv(c)'
      BY <1>5 DEF EnterAndSchedule, ToStage, LifeInv, LifeTypeOK, CallInv
    <3>4. Wakes(c)
      BY <1>5 DEF EnterAndSchedule, ToStage, LifeInv, LifeTypeOK, Wakes
    <3> QED BY <3>1, <3>2, <3>3, <3>4
  <2> QED BY <2>1, CallFrame
<1>6. CASE CancelHandler(c)
  <2>1. LifeTypeOK' /\ OnlyCall(c) /\ CallInv(c)' /\ Wakes(c)
    <3>1. LifeTypeOK'
      BY <1>6 DEF CancelHandler, LifeInv, LifeTypeOK
    <3>2. OnlyCall(c)
      BY <1>6 DEF CancelHandler, LifeInv, LifeTypeOK, OnlyCall
    <3>3. CallInv(c)'
      BY <1>6 DEF CancelHandler, LifeInv, LifeTypeOK, CallInv
    <3>4. Wakes(c)
      BY <1>6 DEF CancelHandler, LifeInv, LifeTypeOK, Wakes
    <3> QED BY <3>1, <3>2, <3>3, <3>4
  <2> QED BY <2>1, CallFrame
<1> QED BY <1>1, <1>2, <1>3, <1>4, <1>5, <1>6

LEMMA TerminalizeKeeps ==
    ASSUME LifeInv, NEW c \in Calls, TerminalizeUnscheduled(c)
    PROVE  LifeInv'
<1>1. SettleTurn(c, "FAILED")
  BY DEF TerminalizeUnscheduled
<1>2. LifeTypeOK' /\ OnlyCall(c) /\ CallInv(c)' /\ Wakes(c)
  <2>1. LifeTypeOK'
    BY <1>1, Settles DEF TerminalizeUnscheduled, ToStage, LifeInv, LifeTypeOK
  <2>2. OnlyCall(c)
    BY <1>1, Settles DEF TerminalizeUnscheduled, ToStage, LifeInv, LifeTypeOK, OnlyCall
  <2>3. CallInv(c)'
    BY <1>1, Settles DEF TerminalizeUnscheduled, ToStage, LifeInv, LifeTypeOK, CallInv
  <2>4. Wakes(c)
    BY <1>1, Settles DEF TerminalizeUnscheduled, ToStage, LifeInv, LifeTypeOK, Wakes
  <2> QED BY <2>1, <2>2, <2>3, <2>4
<1> QED BY <1>2, CallFrame

LEMMA ExecutionKeeps ==
    ASSUME LifeInv, NEW c \in Calls,
           BeginExecution(c) \/ BeginFails(c) \/ StreamEnds(c) \/ ExecutionDone(c)
    PROVE  LifeInv'
<1>1. CASE BeginExecution(c)
  <2>1. CASE c \in asked
    <3>1. SettleTurn(c, "FAILED")
      BY <1>1, <2>1 DEF BeginExecution
    <3>2. LifeTypeOK' /\ OnlyCall(c) /\ CallInv(c)' /\ Wakes(c)
      <4>1. LifeTypeOK'
        BY <1>1, <2>1, <3>1, Settles DEF BeginExecution, LifeInv, LifeTypeOK
      <4>2. OnlyCall(c)
        BY <1>1, <2>1, <3>1, Settles DEF BeginExecution, LifeInv, LifeTypeOK, OnlyCall
      <4>3. CallInv(c)'
        BY <1>1, <2>1, <3>1, Settles DEF BeginExecution, LifeInv, LifeTypeOK, CallInv
      <4>4. Wakes(c)
        BY <1>1, <2>1, <3>1, Settles DEF BeginExecution, LifeInv, LifeTypeOK, Wakes
      <4> QED BY <4>1, <4>2, <4>3, <4>4
    <3> QED BY <3>2, CallFrame
  <2>2. CASE c \notin asked
    <3>1. LifeTypeOK' /\ OnlyCall(c) /\ CallInv(c)' /\ Wakes(c)
      <4>1. LifeTypeOK'
        BY <1>1, <2>2 DEF BeginExecution, LifeInv, LifeTypeOK
      <4>2. OnlyCall(c)
        BY <1>1, <2>2 DEF BeginExecution, LifeInv, LifeTypeOK, OnlyCall
      <4>3. CallInv(c)'
        BY <1>1, <2>2 DEF BeginExecution, LifeInv, LifeTypeOK, CallInv
      <4>4. Wakes(c)
        BY <1>1, <2>2 DEF BeginExecution, LifeInv, LifeTypeOK, Wakes
      <4> QED BY <4>1, <4>2, <4>3, <4>4
    <3> QED BY <3>1, CallFrame
  <2> QED BY <2>1, <2>2
<1>2. CASE BeginFails(c)
  <2>1. SettleTurn(c, "FAILED")
    BY <1>2 DEF BeginFails
  <2>2. LifeTypeOK' /\ OnlyCall(c) /\ CallInv(c)' /\ Wakes(c)
    <3>1. LifeTypeOK'
      BY <1>2, <2>1, Settles DEF BeginFails, LifeInv, LifeTypeOK
    <3>2. OnlyCall(c)
      BY <1>2, <2>1, Settles DEF BeginFails, LifeInv, LifeTypeOK, OnlyCall
    <3>3. CallInv(c)'
      BY <1>2, <2>1, Settles DEF BeginFails, LifeInv, LifeTypeOK, CallInv
    <3>4. Wakes(c)
      BY <1>2, <2>1, Settles DEF BeginFails, LifeInv, LifeTypeOK, Wakes
    <3> QED BY <3>1, <3>2, <3>3, <3>4
  <2> QED BY <2>2, CallFrame
<1>3. CASE StreamEnds(c)
  <2>1. PICK desired \in {"COMPLETED", "FAILED"} : SettleTurn(c, desired)
    BY <1>3 DEF StreamEnds
  <2>2. LifeTypeOK' /\ OnlyCall(c) /\ CallInv(c)' /\ Wakes(c)
    <3>1. LifeTypeOK'
      BY <1>3, <2>1, Settles DEF StreamEnds, LifeInv, LifeTypeOK
    <3>2. OnlyCall(c)
      BY <1>3, <2>1, Settles DEF StreamEnds, LifeInv, LifeTypeOK, OnlyCall
    <3>3. CallInv(c)'
      BY <1>3, <2>1, Settles DEF StreamEnds, LifeInv, LifeTypeOK, CallInv
    <3>4. Wakes(c)
      BY <1>3, <2>1, Settles DEF StreamEnds, LifeInv, LifeTypeOK, Wakes
    <3> QED BY <3>1, <3>2, <3>3, <3>4
  <2> QED BY <2>2, CallFrame
<1>4. CASE ExecutionDone(c)
  <2>1. LifeTypeOK' /\ OnlyCall(c) /\ CallInv(c)' /\ Wakes(c)
    <3>1. LifeTypeOK'
      BY <1>4 DEF ExecutionDone, LifeInv, LifeTypeOK
    <3>2. OnlyCall(c)
      BY <1>4 DEF ExecutionDone, LifeInv, LifeTypeOK, OnlyCall
    <3>3. CallInv(c)'
      BY <1>4 DEF ExecutionDone, LifeInv, LifeTypeOK, CallInv
    <3>4. Wakes(c)
      BY <1>4 DEF ExecutionDone, LifeInv, LifeTypeOK, Wakes
    <3> QED BY <3>1, <3>2, <3>3, <3>4
  <2> QED BY <2>1, CallFrame
<1> QED BY <1>1, <1>2, <1>3, <1>4

LEMMA LifeNextInv == LifeInv /\ [LifeNext]_lifeVars => LifeInv'
<1> SUFFICES ASSUME LifeInv, [LifeNext]_lifeVars PROVE LifeInv'
  OBVIOUS
<1>1. CASE UNCHANGED lifeVars
  BY <1>1 DEF lifeVars, LifeInv, LifeTypeOK, PhaseInv, CallInv
<1>2. CASE LifeNext
  BY <1>2, StartKeeps, LifeStopKeeps, IndexerKeeps, CrashKeeps, HandlerKeeps, TerminalizeKeeps,
     ExecutionKeeps DEF LifeNext, CallStep
<1> QED BY <1>1, <1>2

-----------------------------------------------------------------------------
(* Theorems *)

\* Every reachable state of the process satisfies the invariant.
THEOREM LifeInvariance == LifeSpec => []LifeInv
  BY LifeInitInv, LifeNextInv, PTL DEF LifeSpec

\* For any number of events: no turn is left that is neither settled, owned nor
\* to be recovered by the next start, and the stream store and the database are
\* closed when nobody uses them any more (ChatNamespace.shutdown, the cleanup of
\* the lifespan).
THEOREM NothingLeftBehindAlways == LifeSpec => []NothingLeftBehind
<1>1. LifeInv => NothingLeftBehind
  BY DEF LifeInv, PhaseInv, CallInv, NothingLeftBehind
<1> QED BY <1>1, LifeInvariance, PTL

-----------------------------------------------------------------------------
(* AgentHome *)

USE HomeAssumption

-----------------------------------------------------------------------------
(* AgentHome: the inductive invariant *)

Codes == {"", "context_too_large", "workspace_conflict", "workspace_unavailable",
          "workspace_file_not_found"}
Stages == {"idle", "ensure", "ensured", "call", "put", "reread", "walk", "stat"}
Requests ==
    [kind : Kinds \cup {"none"}, file : Files, text : Texts, expected : Texts \cup {Missing},
     stage : Stages, after : {"none", "ensure", "call"} \cup Files \cup Clients,
     replaced : Texts \cup {Missing}, effect : BOOLEAN, entries : SUBSET (Files \cup Clients),
     items : SUBSET (Files \cup Clients), code : Codes]

TypeInv ==
    /\ backend \in {"local", "s3"}
    /\ content \in [Files -> Texts \cup {Missing}]
    /\ writing \subseteq Clients
    /\ shard \in [LockShards -> Clients \cup {Nobody}]
    /\ request \in [Clients -> Requests]
    /\ etag \in [Clients -> [Files -> Texts \cup {Missing}]]
    /\ seen \in [Clients -> SUBSET (Files \X Texts)]

\* A put holds the lock of its file, and its condition still holds.
PutInv(c) ==
    /\ request[c].stage = "put" =>
         /\ shard[LockShardOf[Target(c)]] = c
         /\ request[c].after \in {"ensure", "call"}
         /\ request[c].after = "call" => request[c].kind \in {"create", "write"}
         /\ content[Target(c)] = IF request[c].after = "ensure" \/ request[c].kind = "create"
                                   THEN Missing ELSE request[c].expected
    /\ \A s \in LockShards :
         shard[s] = c => request[c].stage = "put" /\ s = LockShardOf[Target(c)]
    /\ request[c].stage = "stat" => request[c].after \in Files \cup Clients

\* What a request has changed, and how it was answered.
EffectInv(c) ==
    /\ request[c].kind = "create" => request[c].expected = Missing
    /\ request[c].kind = "delete" => request[c].file # Root
    /\ request[c].effect =>
         /\ request[c].stage \in {"idle", "reread"}
         /\ request[c].kind \in {"create", "write"} => request[c].replaced = request[c].expected
         /\ request[c].stage = "idle" =>
              request[c].code \notin {"workspace_conflict", "context_too_large"}

\* A browser has seen every text whose ETag it was given.
ShownInv(c) == c \in Browsers =>
    /\ \A f \in Files : etag[c][f] # Missing => <<f, etag[c][f]>> \in seen[c]
    /\ request[c].kind = "write" => <<request[c].file, request[c].expected>> \in seen[c]

ClientInv(c) == PutInv(c) /\ EffectInv(c) /\ ShownInv(c)
HomeInv == TypeInv /\ \A c \in Clients : ClientInv(c)

\* What no request has asked for yet.
LEMMA RequestTypes == NoRequest \in Requests
<1>1. "none" \in Kinds \cup {"none"} /\ "idle" \in Stages /\ FALSE \in BOOLEAN
  BY DEF Stages
<1>2. {} \in SUBSET (Files \cup Clients)
  OBVIOUS
<1>3. "" \in Codes
  BY DEF Codes
<1> QED BY <1>1, <1>2, <1>3 DEF NoRequest, Requests

\* Nothing is stored, nothing was asked.
LEMMA HomeInitInv == HomeInit => HomeInv
<1> SUFFICES ASSUME HomeInit PROVE HomeInv
  OBVIOUS
<1>2. TypeInv
  BY RequestTypes DEF HomeInit, TypeInv
<1>3. ASSUME NEW c \in Clients PROVE ClientInv(c)
  BY DEF HomeInit, NoRequest, ClientInv, PutInv, EffectInv, ShownInv
<1> QED BY <1>2, <1>3 DEF HomeInv

-----------------------------------------------------------------------------
(* What a step of one client leaves alone *)

\* The other clients' requests, what they were told and the locks they hold,
\* and every file under such a lock.
OnlyClient(c) ==
    /\ \A d \in Clients \ {c} :
         /\ request'[d] = request[d] /\ etag'[d] = etag[d] /\ seen'[d] = seen[d]
         /\ \A s \in LockShards : shard'[s] = d <=> shard[s] = d
    /\ \A f \in Files : shard[LockShardOf[f]] \in Clients \ {c} => content'[f] = content[f]

LEMMA HomeFrame ==
    ASSUME HomeInv, NEW c \in Clients, OnlyClient(c), TypeInv', ClientInv(c)'
    PROVE  HomeInv'
<1> SUFFICES ASSUME NEW d \in Clients \ {c} PROVE ClientInv(d)'
  BY DEF HomeInv
<1>1. /\ request'[d] = request[d] /\ etag'[d] = etag[d] /\ seen'[d] = seen[d]
      /\ \A s \in LockShards : shard'[s] = d <=> shard[s] = d
  BY DEF OnlyClient
<1>2. Target(d)' = Target(d) /\ Target(d) \in Files
  BY <1>1 DEF Target, HomeInv, TypeInv, Requests
<1>3. request[d].stage = "put" => content'[Target(d)] = content[Target(d)]
  BY <1>2 DEF OnlyClient, HomeInv, ClientInv, PutInv
<1>4. PutInv(d)'
  BY <1>1, <1>2, <1>3 DEF HomeInv, TypeInv, ClientInv, PutInv
<1>5. EffectInv(d)' /\ ShownInv(d)'
  BY <1>1 DEF HomeInv, ClientInv, EffectInv, ShownInv
<1> QED BY <1>4, <1>5 DEF ClientInv

\* A step that only moves the request of its client on.
Moves(c) == UNCHANGED <<backend, content, writing, shard, etag, seen>>

LEMMA MoveFrame ==
    ASSUME HomeInv, NEW c \in Clients, Moves(c), NEW q \in Requests,
           request' = [request EXCEPT ![c] = q],
           PutInv(c)', EffectInv(c)', ShownInv(c)'
    PROVE  HomeInv'
<1>1. TypeInv'
  BY DEF HomeInv, TypeInv, Moves
<1>2. OnlyClient(c)
  BY DEF HomeInv, TypeInv, Moves, OnlyClient
<1> QED BY <1>1, <1>2, HomeFrame DEF ClientInv

\* ... to another stage, but not to or from a put: what it asks for and what
\* it has changed stays.
LEMMA StageKeeps ==
    ASSUME HomeInv, NEW c \in Clients, Moves(c), NEW q \in Requests,
           request' = [request EXCEPT ![c] = q],
           /\ q.kind = request[c].kind /\ q.file = request[c].file
           /\ q.expected = request[c].expected /\ q.replaced = request[c].replaced
           /\ q.effect = request[c].effect,
           request[c].stage # "put", q.stage # "put",
           q.stage = "stat" => q.after \in Files \cup Clients,
           q.effect => /\ q.stage = "idle"
                       /\ q.code \notin {"workspace_conflict", "context_too_large"}
    PROVE  HomeInv'
<1>1. request'[c] = q
  BY DEF HomeInv, TypeInv
<1>2. PutInv(c)'
  BY <1>1 DEF HomeInv, ClientInv, PutInv, Moves
<1>3. EffectInv(c)'
  BY <1>1 DEF HomeInv, ClientInv, EffectInv
<1>4. ShownInv(c)'
  BY <1>1 DEF HomeInv, ClientInv, ShownInv, Moves
<1> QED BY <1>2, <1>3, <1>4, MoveFrame

LEMMA GotoKeeps ==
    ASSUME HomeInv, NEW c \in Clients, Moves(c), NEW s \in Stages \ {"put", "stat"},
           request[c].stage # "put", ~request[c].effect, Goto(c, s)
    PROVE  HomeInv'
<1> DEFINE q == [request[c] EXCEPT !.stage = s]
<1>1. request[c] \in Requests
  BY DEF HomeInv, TypeInv
<1>2. /\ q \in Requests /\ q.stage = s
      /\ q.kind = request[c].kind /\ q.file = request[c].file
      /\ q.expected = request[c].expected /\ q.replaced = request[c].replaced
      /\ q.effect = request[c].effect
  BY <1>1 DEF Requests
<1>3. request' = [request EXCEPT ![c] = q]
  BY DEF Goto
<1> QED BY <1>2, <1>3, StageKeeps

LEMMA DoneKeeps ==
    ASSUME HomeInv, NEW c \in Clients, Moves(c), NEW code \in Codes,
           request[c].stage # "put", Done(c, code),
           request[c].effect => code \notin {"workspace_conflict", "context_too_large"}
    PROVE  HomeInv'
<1> DEFINE q == [request[c] EXCEPT !.stage = "idle", !.code = code]
<1>1. request[c] \in Requests
  BY DEF HomeInv, TypeInv
<1>2. /\ q \in Requests /\ q.stage = "idle" /\ q.code = code
      /\ q.kind = request[c].kind /\ q.file = request[c].file
      /\ q.expected = request[c].expected /\ q.replaced = request[c].replaced
      /\ q.effect = request[c].effect
  BY <1>1 DEF Requests, Stages
<1>3. request' = [request EXCEPT ![c] = q]
  BY DEF Done
<1> QED BY <1>2, <1>3, StageKeeps

-----------------------------------------------------------------------------
(* Steps that change no file and hold no lock *)

\* A new request has changed nothing yet; a write names an ETag its client was
\* given, and AGENTS.md is never to be deleted.
LEMMA AskKeeps ==
    ASSUME HomeInv, NEW c \in Clients, AskHome(c)
    PROVE  HomeInv'
<1>1. PICK kind \in Kinds, f \in Files, t \in Texts :
         /\ kind = "delete" => Deletable(f)
         /\ kind = "write" => etag[c][f] # Missing
         /\ request' = [request EXCEPT ![c] =
              [NoRequest EXCEPT !.kind = kind, !.file = f, !.text = t,
                 !.expected = IF kind = "write" THEN etag[c][f] ELSE Missing,
                 !.stage = FirstStage(c, kind)]]
  BY DEF AskHome
<1> DEFINE q == [NoRequest EXCEPT !.kind = kind, !.file = f, !.text = t,
                   !.expected = IF kind = "write" THEN etag[c][f] ELSE Missing,
                   !.stage = FirstStage(c, kind)]
<1>2. /\ q.kind = kind /\ q.file = f /\ q.stage = FirstStage(c, kind) /\ ~q.effect
      /\ q.expected = IF kind = "write" THEN etag[c][f] ELSE Missing
  BY DEF NoRequest
<1>3. q \in Requests
  <2>1. NoRequest \in Requests
    BY RequestTypes
  <2>2. FirstStage(c, kind) \in Stages
    BY DEF FirstStage, Stages
  <2>3. (IF kind = "write" THEN etag[c][f] ELSE Missing) \in Texts \cup {Missing}
    BY DEF HomeInv, TypeInv
  <2> QED BY <2>1, <2>2, <2>3 DEF Requests
<1>4. request'[c] = q /\ Moves(c) /\ request[c].stage = "idle"
  BY <1>1 DEF AskHome, HomeInv, TypeInv, Moves
<1>5. PutInv(c)'
  BY <1>2, <1>4 DEF HomeInv, ClientInv, PutInv, Moves, FirstStage
<1>6. EffectInv(c)'
  BY <1>1, <1>2, <1>4 DEF EffectInv, Deletable
<1>7. ShownInv(c)'
  BY <1>1, <1>2, <1>4 DEF HomeInv, ClientInv, ShownInv, Moves
<1> QED BY <1>1, <1>3, <1>4, <1>5, <1>6, <1>7, MoveFrame

\* Nothing but a request that is over, or that reads what it wrote, has
\* changed anything.
LEMMA Unchanged ==
    ASSUME HomeInv, NEW c \in Clients, request[c].stage \notin {"idle", "reread"}
    PROVE  ~request[c].effect
  BY DEF HomeInv, ClientInv, EffectInv

LEMMA ReadsKeep ==
    ASSUME HomeInv, NEW c \in Clients,
           MutationTooLarge(c) \/ PutRefused(c) \/ EnsureReads(c) \/ ReadTooLarge(c) \/ ReadFails(c)
    PROVE  HomeInv'
<1> USE DEF Codes, Stages
<1>1. CASE MutationTooLarge(c)
  <2>1. Moves(c) /\ request[c].stage = "call"
    BY <1>1 DEF MutationTooLarge, Measured, Moves
  <2>2. ~request[c].effect
    BY <2>1, Unchanged
  <2>3. Done(c, "context_too_large")
    BY <1>1 DEF MutationTooLarge
  <2> QED BY <2>1, <2>2, <2>3, DoneKeeps
<1>2. CASE PutRefused(c)
  <2>1. Moves(c) /\ request[c].stage \in {"ensure", "call"}
    BY <1>2 DEF PutRefused, Moves
  <2>2. ~request[c].effect
    BY <2>1, Unchanged
  <2>3. CASE Goto(c, "ensured")
    BY <2>1, <2>2, <2>3, GotoKeeps
  <2>4. CASE Done(c, "workspace_conflict")
    BY <2>1, <2>2, <2>4, DoneKeeps
  <2> QED BY <1>2, <2>3, <2>4 DEF PutRefused
<1>3. CASE EnsureReads(c)
  <2>1. Moves(c) /\ request[c].stage = "ensured"
    BY <1>3 DEF EnsureReads, Moves
  <2>2. ~request[c].effect
    BY <2>1, Unchanged
  <2>3. CASE Done(c, "workspace_unavailable")
    BY <2>1, <2>2, <2>3, DoneKeeps
  <2>4. CASE Done(c, "")
    BY <2>1, <2>2, <2>4, DoneKeeps
  <2>5. CASE Goto(c, "call")
    BY <2>1, <2>2, <2>5, GotoKeeps
  <2> QED BY <1>3, <2>3, <2>4, <2>5 DEF EnsureReads
<1>4. CASE ReadTooLarge(c)
  <2>1. Moves(c) /\ request[c].stage = "call"
    BY <1>4 DEF ReadTooLarge, Moves
  <2>2. ~request[c].effect
    BY <2>1, Unchanged
  <2>3. Done(c, "context_too_large")
    BY <1>4 DEF ReadTooLarge
  <2> QED BY <2>1, <2>2, <2>3, DoneKeeps
<1>5. CASE ReadFails(c)
  <2>1. Moves(c) /\ request[c].stage # "put" /\ Done(c, "workspace_unavailable")
    BY <1>5 DEF ReadFails, Moves
  <2> QED BY <2>1, DoneKeeps
<1> QED BY <1>1, <1>2, <1>3, <1>4, <1>5

LEMMA ListingKeeps ==
    ASSUME HomeInv, NEW c \in Clients,
           ListScan(c) \/ ListLooks(c) \/ ListStats(c) \/ ListEnds(c)
    PROVE  HomeInv'
<1>1. request[c] \in Requests /\ Present \subseteq Files /\ writing \subseteq Clients
  BY DEF HomeInv, TypeInv, Present
<1>2. CASE ListScan(c)
  <2> DEFINE q == [request[c] EXCEPT !.stage = "walk",
                     !.entries = IF backend = "s3" THEN {} ELSE Entries,
                     !.items = IF backend = "s3" THEN Present ELSE {}]
  <2>1. /\ q \in Requests /\ q.stage = "walk"
        /\ q.kind = request[c].kind /\ q.file = request[c].file
        /\ q.expected = request[c].expected /\ q.replaced = request[c].replaced
        /\ q.effect = request[c].effect
    BY <1>1 DEF Requests, Stages, Entries
  <2>2. request' = [request EXCEPT ![c] = q] /\ Moves(c)
        /\ request[c].stage # "put" /\ ~request[c].effect
    BY <1>2, Unchanged DEF ListScan, Moves
  <2> QED BY <2>1, <2>2, StageKeeps
<1>3. CASE ListLooks(c)
  <2>1. PICK e \in request[c].entries :
           request' = IF There(e)
             THEN [request EXCEPT ![c].stage = "stat", ![c].after = e]
             ELSE [request EXCEPT ![c].entries = @ \ {e}]
    BY <1>3 DEF ListLooks
  <2> DEFINE q == IF There(e) THEN [request[c] EXCEPT !.stage = "stat", !.after = e]
                  ELSE [request[c] EXCEPT !.entries = @ \ {e}]
  <2>2. e \in Files \cup Clients /\ request[c].stage = "walk"
    BY <1>1, <1>3 DEF Requests, ListLooks
  <2>3. /\ q \in Requests /\ q.stage # "put"
        /\ q.stage = "stat" => q.after \in Files \cup Clients
        /\ q.kind = request[c].kind /\ q.file = request[c].file
        /\ q.expected = request[c].expected /\ q.replaced = request[c].replaced
        /\ q.effect = request[c].effect
    BY <1>1, <2>2 DEF Requests, Stages
  <2>4. request' = [request EXCEPT ![c] = q] /\ Moves(c) /\ ~request[c].effect
    BY <1>3, <2>1, <2>2, Unchanged DEF ListLooks, Moves
  <2> QED BY <2>2, <2>3, <2>4, StageKeeps
<1>4. CASE ListStats(c)
  <2> DEFINE e == request[c].after
             q == [request[c] EXCEPT !.stage = "walk", !.entries = @ \ {e},
                                     !.items = @ \cup {e}]
  <2>1. Moves(c) /\ request[c].stage = "stat"
    BY <1>4 DEF ListStats, Moves
  <2>2. ~request[c].effect
    BY <2>1, Unchanged
  <2>3. e \in Files \cup Clients
    BY <2>1 DEF HomeInv, ClientInv, PutInv
  <2>4. /\ q \in Requests /\ q.stage = "walk"
        /\ q.kind = request[c].kind /\ q.file = request[c].file
        /\ q.expected = request[c].expected /\ q.replaced = request[c].replaced
        /\ q.effect = request[c].effect
    BY <1>1, <2>3 DEF Requests, Stages
  <2>5. CASE Done(c, "workspace_file_not_found")
    BY <2>1, <2>2, <2>5, DoneKeeps DEF Codes
  <2>6. CASE request' = [request EXCEPT ![c] = q]
    BY <2>1, <2>2, <2>4, <2>6, StageKeeps
  <2> QED BY <1>4, <2>5, <2>6 DEF ListStats
<1>5. CASE ListEnds(c)
  <2>1. Moves(c) /\ request[c].stage = "walk"
    BY <1>5 DEF ListEnds, Moves
  <2>2. ~request[c].effect
    BY <2>1, Unchanged
  <2>3. PICK code \in Codes : Done(c, code)
    BY <1>5 DEF ListEnds, Codes
  <2> QED BY <2>1, <2>2, <2>3, DoneKeeps
<1> QED BY <1>2, <1>3, <1>4, <1>5

-----------------------------------------------------------------------------
(* Steps that take, hold or release a lock, or change a file *)

\* The lock was free, so no other client writes under it; and what the
\* comparison found stays true while the lock is held.
LEMMA PutBeginsKeeps ==
    ASSUME HomeInv, NEW c \in Clients, PutBegins(c)
    PROVE  HomeInv'
<1> DEFINE f == PutFile(c)
           q == [request[c] EXCEPT !.stage = "put", !.after = request[c].stage]
<1>1. /\ request[c] \in Requests /\ f \in Files /\ LockShardOf[f] \in LockShards
      /\ request[c].stage \in {"ensure", "call"}
  BY DEF HomeInv, TypeInv, Requests, PutFile, PutBegins
<1>2. ~request[c].effect
  BY <1>1, Unchanged
<1>3. /\ q \in Requests /\ q.stage = "put" /\ q.after = request[c].stage
      /\ q.kind = request[c].kind /\ q.file = request[c].file
      /\ q.expected = request[c].expected /\ q.replaced = request[c].replaced
      /\ q.effect = request[c].effect
  BY <1>1 DEF Requests, Stages
<1>4. request' = [request EXCEPT ![c] = q] /\ request'[c] = q
  BY DEF PutBegins, HomeInv, TypeInv
<1>5. /\ shard' = [shard EXCEPT ![LockShardOf[f]] = c]
      /\ shard[LockShardOf[f]] = Nobody
      /\ UNCHANGED <<backend, content, etag, seen>> /\ writing' \subseteq writing \cup {c}
  BY DEF PutBegins, Locked
<1>6. TypeInv'
  BY <1>1, <1>3, <1>4, <1>5 DEF HomeInv, TypeInv
<1>7. Target(c)' = f
  BY <1>1, <1>3, <1>4 DEF Target, PutFile
<1>8. content[f] = IF q.after = "ensure" \/ q.kind = "create" THEN Missing ELSE q.expected
  BY <1>1, <1>3 DEF PutBegins, ConditionFails, Creates
<1>9. \A s \in LockShards : shard[s] # c
  BY <1>1 DEF HomeInv, ClientInv, PutInv
<1>10. PutInv(c)'
  <2>1. q.after = "call" => q.kind \in {"create", "write"}
    BY <1>1, <1>3 DEF PutBegins
  <2>2. \A s \in LockShards : shard'[s] = c <=> s = LockShardOf[f]
    BY <1>1, <1>5, <1>9 DEF HomeInv, TypeInv
  <2> QED BY <1>1, <1>3, <1>4, <1>5, <1>7, <1>8, <2>1, <2>2 DEF PutInv
<1>11. EffectInv(c)' /\ ShownInv(c)'
  BY <1>2, <1>3, <1>4, <1>5 DEF HomeInv, ClientInv, EffectInv, ShownInv
<1>12. OnlyClient(c)
  <2>1. \A s \in LockShards : \A d \in Clients \ {c} : shard'[s] = d <=> shard[s] = d
    BY <1>1, <1>5 DEF HomeInv, TypeInv
  <2> QED BY <1>4, <1>5, <2>1 DEF HomeInv, TypeInv, OnlyClient
<1> QED BY <1>6, <1>10, <1>11, <1>12, HomeFrame DEF ClientInv

\* The target of a put, its lock and its text.
LEMMA PutTarget ==
    ASSUME HomeInv, NEW c \in Clients, request[c].stage = "put"
    PROVE  /\ Target(c) \in Files /\ TargetText(c) \in Texts /\ Missing # TargetText(c)
           /\ LockShardOf[Target(c)] \in LockShards /\ shard[LockShardOf[Target(c)]] = c
           /\ request[c].after \in {"ensure", "call"}
           /\ ~request[c].effect
<1>1. ~request[c].effect
  BY Unchanged
<1> QED BY <1>1 DEF HomeInv, TypeInv, Requests, ClientInv, PutInv, Target, TargetText

\* The lock is released and nobody else's is.
LEMMA UnlockKeeps ==
    ASSUME HomeInv, NEW c \in Clients, request[c].stage = "put", shard' = Unlock(c)
    PROVE  /\ shard' \in [LockShards -> Clients \cup {Nobody}]
           /\ \A s \in LockShards : shard'[s] # c
           /\ \A s \in LockShards : \A d \in Clients \ {c} : shard'[s] = d <=> shard[s] = d
<1>1. /\ LockShardOf[Target(c)] \in LockShards /\ shard[LockShardOf[Target(c)]] = c
      /\ shard \in [LockShards -> Clients \cup {Nobody}]
  BY PutTarget DEF HomeInv, TypeInv
<1>2. \A s \in LockShards : shard[s] = c => s = LockShardOf[Target(c)]
  BY DEF HomeInv, ClientInv, PutInv
<1> QED BY <1>1, <1>2 DEF Unlock

\* A put replaces its target, or nothing, while it holds the lock, and
\* remembers what it has written itself.
LEMMA StoreKeeps ==
    ASSUME HomeInv, NEW c \in Clients, request[c].stage = "put", shard' = Unlock(c),
           writing' = writing \ {c}, UNCHANGED <<backend, etag>>,
           \/ UNCHANGED <<content, seen>>
           \/ /\ content' = [content EXCEPT ![Target(c)] = TargetText(c)]
              /\ seen' = [seen EXCEPT ![c] = @ \cup {<<Target(c), TargetText(c)>>}],
           NEW q \in Requests, request' = [request EXCEPT ![c] = q],
           q.kind = request[c].kind, q.file = request[c].file,
           q.expected = request[c].expected, q.stage \notin {"put", "stat"},
           q.effect => q.stage = "reread"
                       /\ (q.kind \in {"create", "write"} => q.replaced = q.expected)
    PROVE  HomeInv'
<1>1. /\ Target(c) \in Files /\ TargetText(c) \in Texts
      /\ LockShardOf[Target(c)] \in LockShards /\ shard[LockShardOf[Target(c)]] = c
  BY PutTarget
<1>2. /\ shard' \in [LockShards -> Clients \cup {Nobody}]
      /\ \A s \in LockShards : shard'[s] # c
      /\ \A s \in LockShards : \A d \in Clients \ {c} : shard'[s] = d <=> shard[s] = d
  BY UnlockKeeps
<1>3. request'[c] = q
  BY DEF HomeInv, TypeInv
<1>4. content' \in [Files -> Texts \cup {Missing}] /\ seen' \in [Clients -> SUBSET (Files \X Texts)]
  <2> DEFINE w == <<Target(c), TargetText(c)>>
  <2>1. content' \in [Files -> Texts \cup {Missing}]
    BY <1>1 DEF HomeInv, TypeInv
  <2>2. w \in Files \X Texts
    BY <1>1
  <2>3. seen' = seen \/ seen' = [seen EXCEPT ![c] = @ \cup {w}]
    OBVIOUS
  <2> HIDE DEF w
  <2>4. seen' \in [Clients -> SUBSET (Files \X Texts)]
    BY <2>2, <2>3 DEF HomeInv, TypeInv
  <2> QED BY <2>1, <2>4
<1>5. TypeInv'
  BY <1>2, <1>4 DEF HomeInv, TypeInv
<1>6. PutInv(c)' /\ EffectInv(c)'
  BY <1>2, <1>3 DEF HomeInv, ClientInv, PutInv, EffectInv
<1>7. seen[c] \subseteq seen'[c] /\ \A d \in Clients \ {c} : seen'[d] = seen[d]
  BY DEF HomeInv, TypeInv
<1>8. ShownInv(c)'
  BY <1>3, <1>7 DEF HomeInv, ClientInv, ShownInv
<1>9. \A f \in Files : shard[LockShardOf[f]] \in Clients \ {c} => content'[f] = content[f]
  BY <1>1 DEF HomeInv, TypeInv
<1>10. OnlyClient(c)
  BY <1>2, <1>7, <1>9 DEF HomeInv, TypeInv, OnlyClient
<1> QED BY <1>5, <1>6, <1>8, <1>10, HomeFrame DEF ClientInv

LEMMA PutEndsKeeps ==
    ASSUME HomeInv, NEW c \in Clients, PutEnds(c)
    PROVE  HomeInv'
<1>1. request[c].stage = "put" /\ request[c] \in Requests
  BY DEF PutEnds, HomeInv, TypeInv
<1>2. /\ request[c].after \in {"ensure", "call"} /\ ~request[c].effect
      /\ Target(c) \in Files
  BY <1>1, PutTarget
<1>3. request[c].after = "call" =>
        /\ request[c].kind \in {"create", "write"}
        /\ content[Target(c)] = request[c].expected
  BY <1>1 DEF HomeInv, ClientInv, PutInv, EffectInv
<1> DEFINE stage == IF request[c].after = "ensure" THEN "ensured" ELSE "reread"
           effect == request[c].effect \/ request[c].after = "call"
           replaced == IF request[c].after = "call" THEN content[Target(c)]
                       ELSE request[c].replaced
           q == [request[c] EXCEPT !.stage = stage, !.effect = effect, !.replaced = replaced]
<1>4. content[Target(c)] \in Texts \cup {Missing}
  BY <1>2 DEF HomeInv, TypeInv
<1>5. /\ q \in Requests
      /\ q.kind = request[c].kind /\ q.file = request[c].file
      /\ q.expected = request[c].expected
      /\ q.stage = stage /\ q.effect = effect /\ q.replaced = replaced
  <2>1. stage \in Stages /\ effect \in BOOLEAN
    BY DEF Stages
  <2>2. replaced \in Texts \cup {Missing}
    BY <1>1, <1>4 DEF Requests
  <2> HIDE DEF stage, effect, replaced
  <2> QED BY <1>1, <2>1, <2>2 DEF Requests
<1>6. request' = [request EXCEPT ![c] = q]
  BY DEF PutEnds
<1>7. /\ shard' = Unlock(c) /\ writing' = writing \ {c} /\ UNCHANGED <<backend, etag>>
      /\ content' = [content EXCEPT ![Target(c)] = TargetText(c)]
      /\ seen' = [seen EXCEPT ![c] = @ \cup {<<Target(c), TargetText(c)>>}]
  BY DEF PutEnds
<1>8. q.stage \notin {"put", "stat"}
      /\ (q.effect => q.stage = "reread"
            /\ (q.kind \in {"create", "write"} => q.replaced = q.expected))
  <2> HIDE DEF q
  <2> QED BY <1>2, <1>3, <1>5
<1> HIDE DEF q
<1> QED BY <1>1, <1>5, <1>6, <1>7, <1>8, StoreKeeps

LEMMA PutFailsKeeps ==
    ASSUME HomeInv, NEW c \in Clients, PutFails(c)
    PROVE  HomeInv'
<1>1. request[c].stage = "put" /\ request[c] \in Requests
  BY DEF PutFails, HomeInv, TypeInv
<1>2. ~request[c].effect
  BY <1>1, PutTarget
<1> DEFINE q == [request[c] EXCEPT !.stage = "idle", !.code = "workspace_unavailable"]
<1>3. /\ q \in Requests /\ q.stage = "idle" /\ ~q.effect
      /\ q.kind = request[c].kind /\ q.file = request[c].file
      /\ q.expected = request[c].expected
  BY <1>1, <1>2 DEF Requests, Stages, Codes
<1>4. request' = [request EXCEPT ![c] = q]
  BY DEF PutFails, Done
<1>5. /\ shard' = Unlock(c) /\ writing' = writing \ {c} /\ UNCHANGED <<backend, etag>>
      /\ \/ UNCHANGED <<content, seen>>
         \/ /\ content' = [content EXCEPT ![Target(c)] = TargetText(c)]
            /\ seen' = [seen EXCEPT ![c] = @ \cup {<<Target(c), TargetText(c)>>}]
  BY DEF PutFails
<1>6. q.stage \notin {"put", "stat"}
  BY <1>3
<1> HIDE DEF q
<1> QED BY <1>1, <1>3, <1>4, <1>5, <1>6, StoreKeeps

\* A reader is given the ETag of the text it is shown; a tool that wrote is
\* given one without the text.
LEMMA ReadFileKeeps ==
    ASSUME HomeInv, NEW c \in Clients, ReadFile(c)
    PROVE  HomeInv'
<1> DEFINE f == request[c].file
<1>1. /\ request[c] \in Requests /\ f \in Files
      /\ request[c].stage \in {"call", "reread"}
      /\ UNCHANGED <<backend, content, writing, shard>>
  BY DEF ReadFile, HomeInv, TypeInv, Requests
<1>2. request[c].stage = "call" => ~request[c].effect
  BY Unchanged
<1>3. CASE Done(c, "workspace_file_not_found") /\ UNCHANGED <<etag, seen>>
  BY <1>1, <1>3, DoneKeeps DEF Codes, Moves
<1>4. CASE /\ content[f] # Missing /\ Done(c, "")
           /\ etag' = [etag EXCEPT ![c][f] = content[f]]
           /\ seen' = IF Told(c) THEN [seen EXCEPT ![c] = @ \cup {<<f, content[f]>>}] ELSE seen
  <2> DEFINE q == [request[c] EXCEPT !.stage = "idle", !.code = ""]
  <2>1. /\ q \in Requests /\ q.stage = "idle" /\ q.code = ""
        /\ q.kind = request[c].kind /\ q.file = f
        /\ q.expected = request[c].expected /\ q.replaced = request[c].replaced
        /\ q.effect = request[c].effect
    BY <1>1 DEF Requests, Stages, Codes
  <2>2. request' = [request EXCEPT ![c] = q] /\ request'[c] = q
    BY <1>4 DEF Done, HomeInv, TypeInv
  <2>3. content[f] \in Texts
    BY <1>1, <1>4 DEF HomeInv, TypeInv
  <2>4. /\ etag' \in [Clients -> [Files -> Texts \cup {Missing}]]
        /\ etag'[c] = [etag[c] EXCEPT ![f] = content[f]]
        /\ \A d \in Clients \ {c} : etag'[d] = etag[d]
    BY <1>1, <1>4, <2>3 DEF HomeInv, TypeInv
  <2>5. /\ seen' \in [Clients -> SUBSET (Files \X Texts)]
        /\ seen[c] \subseteq seen'[c]
        /\ c \in Browsers => <<f, content[f]>> \in seen'[c]
        /\ \A d \in Clients \ {c} : seen'[d] = seen[d]
    <3> DEFINE w == <<f, content[f]>>
    <3>1. w \in Files \X Texts
      BY <1>1, <2>3
    <3>2. IF Told(c) THEN seen' = [seen EXCEPT ![c] = @ \cup {w}] ELSE seen' = seen
      BY <1>4
    <3>3. c \in Browsers => Told(c)
      BY DEF Told
    <3> HIDE DEF w
    <3>4. /\ seen' \in [Clients -> SUBSET (Files \X Texts)]
          /\ seen[c] \subseteq seen'[c]
          /\ c \in Browsers => w \in seen'[c]
          /\ \A d \in Clients \ {c} : seen'[d] = seen[d]
      BY <3>1, <3>2, <3>3 DEF HomeInv, TypeInv
    <3> QED BY <3>4 DEF w
  <2>6. TypeInv'
    BY <1>1, <2>1, <2>2, <2>4, <2>5 DEF HomeInv, TypeInv
  <2>7. PutInv(c)' /\ EffectInv(c)'
    BY <1>1, <2>1, <2>2 DEF HomeInv, ClientInv, PutInv, EffectInv
  <2>8. ShownInv(c)'
    <3> HIDE DEF q
    <3>1. ASSUME NEW g \in Files, c \in Browsers, etag'[c][g] # Missing
          PROVE  <<g, etag'[c][g]>> \in seen'[c]
      <4>1. etag'[c][g] = IF g = f THEN content[f] ELSE etag[c][g]
        BY <1>1, <2>4 DEF HomeInv, TypeInv
      <4> QED BY <2>5, <3>1, <4>1 DEF HomeInv, ClientInv, ShownInv
    <3>2. c \in Browsers /\ q.kind = "write" => <<q.file, q.expected>> \in seen'[c]
      BY <2>1, <2>5 DEF HomeInv, ClientInv, ShownInv
    <3> QED BY <2>2, <3>1, <3>2 DEF ShownInv
  <2>9. OnlyClient(c)
    BY <1>1, <2>2, <2>4, <2>5 DEF HomeInv, TypeInv, OnlyClient
  <2> QED BY <2>6, <2>7, <2>8, <2>9, HomeFrame DEF ClientInv
<1> QED BY <1>3, <1>4 DEF ReadFile

\* A file is deleted while nobody holds its lock.
LEMMA DeleteKeeps ==
    ASSUME HomeInv, NEW c \in Clients, DeleteFile(c)
    PROVE  HomeInv'
<1> DEFINE f == request[c].file
           q == [request[c] EXCEPT !.stage = "idle", !.code = "", !.effect = TRUE]
<1>1. /\ request[c] \in Requests /\ f \in Files /\ LockShardOf[f] \in LockShards
      /\ request[c].stage = "call" /\ request[c].kind = "delete"
      /\ shard[LockShardOf[f]] = Nobody
      /\ UNCHANGED <<backend, writing, shard, seen>>
      /\ content' = [content EXCEPT ![f] = Missing]
      /\ etag' = [etag EXCEPT ![c][f] = Missing]
  BY DEF DeleteFile, HomeInv, TypeInv, Requests, Locked
<1>2. /\ q \in Requests /\ q.stage = "idle" /\ q.code = "" /\ q.kind = "delete"
      /\ q.file = f
  BY <1>1 DEF Requests, Stages, Codes
<1>3. request' = [request EXCEPT ![c] = q] /\ request'[c] = q
  BY DEF DeleteFile, HomeInv, TypeInv
<1>4. /\ etag' \in [Clients -> [Files -> Texts \cup {Missing}]]
      /\ \A g \in Files : etag'[c][g] = IF g = f THEN Missing ELSE etag[c][g]
      /\ \A d \in Clients \ {c} : etag'[d] = etag[d]
  BY <1>1 DEF HomeInv, TypeInv
<1>5. TypeInv'
  BY <1>1, <1>2, <1>3, <1>4 DEF HomeInv, TypeInv
<1>6. PutInv(c)'
  BY <1>1, <1>2, <1>3 DEF HomeInv, ClientInv, PutInv
<1>7. EffectInv(c)'
  BY <1>1, <1>2, <1>3 DEF HomeInv, ClientInv, EffectInv
<1>8. ShownInv(c)'
  BY <1>1, <1>2, <1>3, <1>4 DEF HomeInv, ClientInv, ShownInv
<1>9. OnlyClient(c)
  <2>1. ASSUME NEW g \in Files, shard[LockShardOf[g]] \in Clients \ {c}
        PROVE  content'[g] = content[g]
    BY <1>1, <2>1 DEF HomeInv, TypeInv
  <2> QED BY <1>1, <1>3, <1>4, <2>1 DEF HomeInv, TypeInv, OnlyClient
<1> QED BY <1>5, <1>6, <1>7, <1>8, <1>9, HomeFrame DEF ClientInv

LEMMA HomeNextInv == HomeInv /\ [HomeNext]_homeVars => HomeInv'
<1> SUFFICES ASSUME HomeInv, [HomeNext]_homeVars PROVE HomeInv'
  OBVIOUS
<1>1. CASE UNCHANGED homeVars
  <2>1. TypeInv'
    BY <1>1 DEF homeVars, HomeInv, TypeInv
  <2>2. ASSUME NEW c \in Clients PROVE ClientInv(c)'
    BY <1>1 DEF homeVars, HomeInv, ClientInv, PutInv, EffectInv, ShownInv, Target
  <2> QED BY <2>1, <2>2 DEF HomeInv
<1>2. CASE HomeNext
  <2>1. PICK c \in Clients : AskHome(c) \/ HomeStep(c)
    BY <1>2 DEF HomeNext
  <2> QED BY <2>1, AskKeeps, ReadsKeep, ListingKeeps, PutBeginsKeeps, PutEndsKeeps,
             PutFailsKeeps, ReadFileKeeps, DeleteKeeps DEF HomeStep
<1> QED BY <1>1, <1>2

-----------------------------------------------------------------------------
(* Theorems *)

\* Every reachable state of the files satisfies the invariant.
THEOREM HomeInvariance == HomeSpec => []HomeInv
  BY HomeInitInv, HomeNextInv, PTL DEF HomeSpec

\* However many browsers and tools edit however many files, and whatever keys
\* share a lock: what a write replaced is what its ETag named, a create
\* replaced nothing, and a refused request changed nothing
\* (AgentHomeService, the put of both stores).
THEOREM WritesAsAnsweredAlways == HomeSpec => []WritesAsAnswered
<1>1. HomeInv => WritesAsAnswered
  BY DEF HomeInv, ClientInv, EffectInv, WritesAsAnswered
<1> QED BY <1>1, HomeInvariance, PTL

\* A browser only overwrites a text it was shown (the answers of read_file,
\* create_file and write_file carry the text with the ETag).
THEOREM OverwritesWhatWasShownAlways == HomeSpec => []OverwritesWhatWasShown
<1>1. HomeInv => OverwritesWhatWasShown
  <2> SUFFICES ASSUME HomeInv, NEW c \in Browsers, request[c].effect,
                      request[c].kind = "write"
               PROVE  <<request[c].file, request[c].replaced>> \in seen[c]
    BY DEF OverwritesWhatWasShown
  <2> QED BY DEF HomeInv, ClientInv, EffectInv, ShownInv, Clients
<1> QED BY <1>1, HomeInvariance, PTL

\* AGENTS.md is never lost, and changes only by a write that asks for it:
\* ensure_agents_md and create_file put with a condition, and the comparison
\* and the replacement are under one lock.
THEOREM RootStaysAlways == HomeSpec => RootStays
<1> DEFINE Kept == content[Root] # Missing /\ content'[Root] # content[Root] =>
             \E c \in Clients : /\ request[c].stage = "put" /\ request[c].kind = "write"
                                /\ content'[Root] = request[c].text
<1>1. ASSUME HomeInv, [HomeNext]_homeVars PROVE [Kept]_homeVars
  <2> SUFFICES ASSUME content[Root] # Missing, content'[Root] # content[Root],
                      NEW c \in Clients, AskHome(c) \/ HomeStep(c)
               PROVE  /\ request[c].stage = "put" /\ request[c].kind = "write"
                      /\ content'[Root] = request[c].text
    BY <1>1 DEF HomeNext, homeVars
  <2>1. CASE DeleteFile(c)
    <3>1. request[c].file # Root
      BY <1>1, <2>1 DEF DeleteFile, HomeInv, ClientInv, EffectInv
    <3>2. content' = [content EXCEPT ![request[c].file] = Missing]
      BY <2>1 DEF DeleteFile
    <3>3. content'[Root] = content[Root]
      BY <1>1, <3>1, <3>2 DEF HomeInv, TypeInv
    <3> QED BY <3>3
  <2>2. CASE PutEnds(c) \/ PutFails(c)
    <3>1. /\ request[c].stage = "put"
          /\ content' = [content EXCEPT ![Target(c)] = TargetText(c)]
      BY <2>2 DEF PutEnds, PutFails
    <3>2. Target(c) = Root /\ content'[Root] = TargetText(c)
      BY <1>1, <3>1 DEF HomeInv, TypeInv
    <3>3. request[c].after = "call" /\ request[c].kind = "write"
      BY <1>1, <3>1, <3>2 DEF HomeInv, ClientInv, PutInv
    <3> QED BY <3>1, <3>2, <3>3 DEF TargetText
  <2> QED BY <2>1, <2>2 DEF HomeStep, AskHome, MutationTooLarge, PutRefused, PutBegins,
             EnsureReads, ReadFile, ReadTooLarge, ReadFails, ListScan, ListLooks,
             ListStats, ListEnds
<1> QED BY <1>1, HomeInvariance, PTL DEF HomeSpec, RootStays
=============================================================================
