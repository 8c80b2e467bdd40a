------------------------------ MODULE Lifespan ------------------------------
(***************************************************************************)
(* The life of the backend process: what the lifespan of the application   *)
(* starts and in which order it takes it down again (main.py,              *)
(* core/socketio.py, KnowledgeIndexWorker.start and stop), and how the     *)
(* chat namespace lets requests in, turns them into background executions  *)
(* and drains both (chat_namespace.py).                                    *)
(*                                                                         *)
(* TaskExecution models what an execution does to its turn, TaskStream     *)
(* what it emits; here a turn is its status, and an execution is what it   *)
(* still needs the database and the stream store for.                      *)
(***************************************************************************)
EXTENDS Naturals, FiniteSets

CONSTANTS
    Calls,        \* bound: events that clients send
    MaxLifespans, \* bound: times the application is started
    MaxFaults     \* bound: failed commits and failed steps of the start

VARIABLES
    phase,     \* where the lifespan is
    gate,      \* ChatNamespace._shutting_down
    handler,   \* handler[c]: the handler of an event
    execution, \* execution[c]: the background task of a turn
    asked,     \* turns whose cancellation was requested by the drain
    turn,      \* turn[c]: status of the Assistant a send committed
    lost,      \* turns whose outcome could not be stored
    indexer,   \* the knowledge worker's thread
    started,   \* worker_started, and whether the realtime backend was built
    lives,     \* lifespans so far
    faults     \* faults so far

lifeVars == <<phase, gate, handler, execution, asked, turn, lost, indexer, started,
              lives, faults>>

Starting == {"bootstrap", "recover", "realtime", "namespace", "worker"}
Stopping == {"handlers", "executions", "join", "sockets", "aclose", "dispose"}

NoCall == [stage |-> "idle", kind |-> "none", cancelled |-> FALSE]
Nothing == [worker |-> FALSE, realtime |-> FALSE]

LifeInit ==
    /\ phase = "down" /\ gate = FALSE
    /\ handler = [c \in Calls |-> NoCall] /\ execution = [c \in Calls |-> "none"]
    /\ asked = {} /\ turn = [c \in Calls |-> "none"] /\ lost = {}
    /\ indexer = "off" /\ started = Nothing /\ lives = 0 /\ faults = 0

Fault == faults < MaxFaults /\ faults' = faults + 1
Active == {c \in Calls : handler[c].stage \notin {"idle", "over"}}
Background == {c \in Calls : execution[c] \notin {"none", "done"}}
Unsettled == {c \in Calls : turn[c] \in {"PENDING", "RUNNING"}}

----------------------------------------------------------------------------
(* Starting. *)

workVars == <<handler, execution, asked>>
turnsVars == <<turn, lost>>

Start ==
    /\ phase = "down" /\ lives < MaxLifespans
    /\ phase' = "bootstrap" /\ lives' = lives + 1
    /\ UNCHANGED <<gate, workVars, turnsVars, indexer, started, faults>>

\* Any step of the start may raise: what was started is taken down.
StartFails ==
    /\ phase \in Starting /\ Fault
    /\ phase' = "handlers" /\ gate' = TRUE
    /\ UNCHANGED <<workVars, turnsVars, indexer, started, lives>>

BootstrapApplication ==
    /\ phase = "bootstrap" /\ phase' = "recover"
    /\ UNCHANGED <<gate, workVars, turnsVars, indexer, started, lives, faults>>

RecoverInterrupted ==
    /\ phase = "recover" /\ phase' = "realtime"
    /\ turn' = [c \in Calls |-> IF c \in Unsettled THEN "FAILED" ELSE turn[c]]
    /\ lost' = {}
    /\ UNCHANGED <<gate, workVars, indexer, started, lives, faults>>

BuildRealtime ==
    /\ phase = "realtime" /\ phase' = "namespace"
    /\ started' = [started EXCEPT !.realtime = TRUE]
    /\ UNCHANGED <<gate, workVars, turnsVars, indexer, lives, faults>>

\* startup() refuses a namespace that was not drained.
NotDrained == Active # {} \/ Background # {}
OpenNamespace ==
    /\ phase = "namespace"
    /\ IF NotDrained THEN phase' = "handlers" /\ gate' = TRUE
       ELSE phase' = "worker" /\ gate' = FALSE
    /\ UNCHANGED <<workVars, turnsVars, indexer, started, lives, faults>>

\* A thread that still runs is kept, otherwise a new one is started.
StartWorker ==
    /\ phase = "worker" /\ phase' = "serving"
    /\ started' = [started EXCEPT !.worker = TRUE]
    /\ indexer' = "polling"
    /\ UNCHANGED <<gate, workVars, turnsVars, lives, faults>>

----------------------------------------------------------------------------
(* The handlers of events. *)

\* Joining the worker blocks the event loop, and closing the sockets ends it.
Connected == phase \in {"serving", "handlers", "executions", "sockets"}
ToStage(c, stage) == handler' = [handler EXCEPT ![c].stage = stage]

\* Mutant: every event is let in.
LetIn == TRUE
\* _begin_handler, with no await between the check and the count.
Admitted == ~gate

\* trigger_event: an event is refused, or its handler is counted.
TriggerEvent(c) ==
    /\ Connected /\ handler[c].stage = "idle"
    /\ \E kind \in {"send", "query"} :
         handler' = [handler EXCEPT ![c] =
                       [stage |-> IF Admitted THEN "admitted" ELSE "over", kind |-> kind,
                        cancelled |-> FALSE]]
    /\ UNCHANGED <<phase, gate, execution, asked, turnsVars, indexer, started, lives, faults>>

\* A send looks at the gate again after it has read its session; a join, a
\* leave or a cancellation does not.
BeginWork(c) ==
    /\ handler[c].stage = "admitted"
    /\ ToStage(c, IF handler[c].kind = "send" /\ gate THEN "over" ELSE "thread")
    /\ UNCHANGED <<phase, gate, execution, asked, turnsVars, indexer, started, lives, faults>>

QueryEnds(c) ==
    /\ handler[c].stage = "thread" /\ handler[c].kind = "query"
    /\ ToStage(c, "over")
    /\ UNCHANGED <<phase, gate, execution, asked, turnsVars, indexer, started, lives, faults>>

\* The thread of prepare_send returns.  A cancellation that came meanwhile has
\* waited for it, and the turn it committed is failed.
PrepareSend(c) ==
    /\ handler[c].stage = "thread" /\ handler[c].kind = "send"
    /\ \/ /\ ToStage(c, "over") /\ UNCHANGED <<turnsVars, faults>>
       \/ /\ turn' = [turn EXCEPT ![c] = "PENDING"]
          /\ ToStage(c, IF handler[c].cancelled THEN "failing" ELSE "entering")
          /\ UNCHANGED <<lost, faults>>
       \/ /\ Fault \* committed, but the acknowledgement is lost
          /\ turn' = [turn EXCEPT ![c] = "PENDING"]
          /\ lost' = lost \cup {c}
          /\ ToStage(c, "over")
    /\ UNCHANGED <<phase, gate, execution, asked, indexer, started, lives>>

\* The room is entered, the gate is looked at once more and, without another
\* await, the execution is scheduled.
EnterAndSchedule(c) ==
    /\ handler[c].stage = "entering"
    /\ \/ ToStage(c, "failing") /\ UNCHANGED execution
       \/ /\ ~gate /\ ToStage(c, "over")
          /\ execution' = [execution EXCEPT ![c] = "created"]
    /\ UNCHANGED <<phase, gate, asked, turnsVars, indexer, started, lives, faults>>

\* The handler's task is cancelled at an await.
CancelHandler(c) ==
    /\ handler[c].stage \in {"admitted", "thread", "entering"}
    /\ handler' = [handler EXCEPT ![c] =
         [stage |-> CASE @.stage = "admitted" -> "over" [] @.stage = "entering" -> "failing"
                      [] OTHER -> @.stage,
          kind |-> @.kind, cancelled |-> TRUE]]
    /\ UNCHANGED <<phase, gate, execution, asked, turnsVars, indexer, started, lives, faults>>

\* The outcome of a turn is CANCELLED once that was asked; or it is lost.
SettleTurn(c, desired) ==
    \/ turn' = [turn EXCEPT ![c] = IF c \in asked THEN "CANCELLED" ELSE desired]
       /\ UNCHANGED <<lost, faults>>
    \/ lost' = lost \cup {c} /\ Fault /\ UNCHANGED turn

\* A turn that is not going to run is marked running and closed.
TerminalizeUnscheduled(c) ==
    /\ handler[c].stage = "failing"
    /\ SettleTurn(c, "FAILED")
    /\ ToStage(c, "over")
    /\ UNCHANGED <<phase, gate, execution, asked, indexer, started, lives>>

----------------------------------------------------------------------------
(* Executions. *)

\* mark_running, once the first emissions and the stream's start succeeded.
BeginExecution(c) ==
    /\ execution[c] = "created"
    /\ IF c \in asked
         THEN SettleTurn(c, "FAILED") /\ execution' = [execution EXCEPT ![c] = "told"]
       ELSE /\ turn' = [turn EXCEPT ![c] = "RUNNING"] /\ UNCHANGED <<lost, faults>>
            /\ execution' = [execution EXCEPT ![c] = "streaming"]
    /\ UNCHANGED <<phase, gate, handler, asked, indexer, started, lives>>

\* They failed: the generator is started only to be closed.
BeginFails(c) ==
    /\ execution[c] = "created"
    /\ SettleTurn(c, "FAILED")
    /\ execution' = [execution EXCEPT ![c] = "told"]
    /\ UNCHANGED <<phase, gate, handler, asked, indexer, started, lives>>

StreamEnds(c) ==
    /\ execution[c] = "streaming"
    /\ SettleTurn(c, "COMPLETED") \/ SettleTurn(c, "FAILED")
    /\ execution' = [execution EXCEPT ![c] = "told"]
    /\ UNCHANGED <<phase, gate, handler, asked, indexer, started, lives>>

\* The Task is read again and announced, and the task leaves the set.
ExecutionDone(c) ==
    /\ execution[c] = "told"
    /\ execution' = [execution EXCEPT ![c] = "done"]
    /\ UNCHANGED <<phase, gate, handler, asked, turnsVars, indexer, started, lives, faults>>

----------------------------------------------------------------------------
(* The knowledge worker. *)

IndexerWorks ==
    /\ indexer = "polling" /\ indexer' = "working"
    /\ UNCHANGED <<phase, gate, workVars, turnsVars, started, lives, faults>>
IndexerRests ==
    /\ indexer = "working" /\ indexer' = "polling"
    /\ UNCHANGED <<phase, gate, workVars, turnsVars, started, lives, faults>>
\* The loop looks at the stop event between documents.
IndexerStops ==
    /\ indexer = "polling" /\ phase = "join" /\ indexer' = "off"
    /\ UNCHANGED <<phase, gate, workVars, turnsVars, started, lives, faults>>

----------------------------------------------------------------------------
(* Stopping: cleanup() of the lifespan, which a cancellation waits for. *)

Shutdown ==
    /\ phase = "serving" /\ phase' = "handlers" /\ gate' = TRUE
    /\ UNCHANGED <<workVars, turnsVars, indexer, started, lives, faults>>

HandlersDrained ==
    /\ phase = "handlers" /\ Active = {} /\ phase' = "executions"
    /\ UNCHANGED <<gate, workVars, turnsVars, indexer, started, lives, faults>>

\* Everything in the background is asked to stop, then waited for, however
\* long it takes; a request that fails is logged.
AskToStop ==
    /\ phase = "executions" /\ ~(Background \subseteq asked)
    /\ \E cs \in SUBSET Background : asked' = asked \cup cs /\ cs # {}
    /\ UNCHANGED <<phase, gate, handler, execution, turnsVars, indexer, started, lives, faults>>
ExecutionsDrained ==
    /\ phase = "executions" /\ Background = {} /\ phase' = "join"
    /\ UNCHANGED <<gate, workVars, turnsVars, indexer, started, lives, faults>>

\* Mutant: a worker that does not stop in time is left alone.
WorkerGone == TRUE
\* stop(timeout=5), and stop(timeout=None) when that was not enough.
WorkerJoined == indexer = "off"
JoinWorker ==
    /\ phase = "join" /\ (started.worker => WorkerJoined)
    /\ phase' = "sockets" /\ started' = [started EXCEPT !.worker = FALSE]
    /\ UNCHANGED <<gate, workVars, turnsVars, indexer, lives, faults>>

\* Every stage runs whether or not the one before it raised.
CloseSockets ==
    /\ phase = "sockets" /\ phase' = "aclose"
    /\ UNCHANGED <<gate, workVars, turnsVars, indexer, started, lives, faults>>
CloseRealtime ==
    /\ phase = "aclose" /\ phase' = "dispose"
    /\ started' = [started EXCEPT !.realtime = FALSE]
    /\ UNCHANGED <<gate, workVars, turnsVars, indexer, lives, faults>>
DisposeEngine ==
    /\ phase = "dispose" /\ phase' = "down"
    /\ UNCHANGED <<gate, workVars, turnsVars, indexer, started, lives, faults>>

\* The process dies; the next one has a namespace of its own.
Crash ==
    /\ phase # "down" /\ Fault
    /\ phase' = "down" /\ gate' = FALSE
    /\ handler' = [c \in Calls |->
         IF handler[c].stage = "idle" THEN handler[c] ELSE [handler[c] EXCEPT !.stage = "over"]]
    /\ execution' = [c \in Calls |-> IF execution[c] = "none" THEN "none" ELSE "done"]
    /\ asked' = {} /\ lost' = lost \cup Unsettled
    /\ indexer' = "off" /\ started' = Nothing
    /\ UNCHANGED <<turn, lives>>

CallStep(c) ==
    \/ TriggerEvent(c) \/ BeginWork(c) \/ QueryEnds(c) \/ PrepareSend(c) \/ EnterAndSchedule(c)
    \/ CancelHandler(c) \/ TerminalizeUnscheduled(c)
    \/ BeginExecution(c) \/ BeginFails(c) \/ StreamEnds(c) \/ ExecutionDone(c)
LifeNext ==
    \/ Start \/ StartFails \/ BootstrapApplication \/ RecoverInterrupted \/ BuildRealtime
    \/ OpenNamespace \/ StartWorker \/ Shutdown \/ HandlersDrained \/ AskToStop
    \/ ExecutionsDrained \/ JoinWorker \/ CloseSockets \/ CloseRealtime \/ DisposeEngine
    \/ Crash \/ IndexerWorks \/ IndexerRests \/ IndexerStops
    \/ \E c \in Calls : CallStep(c)
LifeSpec == LifeInit /\ [][LifeNext]_lifeVars

----------------------------------------------------------------------------
(* Properties. *)

LifeTypeOK ==
    /\ phase \in {"down", "serving"} \cup Starting \cup Stopping
    /\ gate \in BOOLEAN /\ asked \subseteq Calls /\ lost \subseteq Calls
    /\ handler \in [Calls ->
         [stage : {"idle", "admitted", "thread", "entering", "failing", "over"},
          kind : {"none", "send", "query"}, cancelled : BOOLEAN]]
    /\ execution \in [Calls -> {"none", "created", "streaming", "told", "done"}]
    /\ turn \in [Calls -> {"none", "PENDING", "RUNNING", "COMPLETED", "FAILED", "CANCELLED"}]
    /\ indexer \in {"off", "polling", "working"} /\ started \in [worker : BOOLEAN, realtime : BOOLEAN]

\* Whatever is requested, cancelled and shut down at the same time, no turn is
\* left that is neither settled nor owned by a handler or an execution, but
\* those whose outcome could not be stored, and these only until the next
\* start has recovered them.
Owned(c) ==
    \/ handler[c].stage \in {"entering", "failing"}
    \/ execution[c] \in {"created", "streaming"}

\* And the stream store and the database are closed when nobody uses them any
\* more: no handler, no execution, no worker's thread.
NothingLeftBehind ==
    /\ \A c \in Unsettled : Owned(c) \/ c \in lost
    /\ phase \in {"aclose", "dispose", "down"} \cup Starting =>
         Active = {} /\ Background = {} /\ indexer = "off"
=============================================================================
