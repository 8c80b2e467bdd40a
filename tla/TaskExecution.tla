--------------------------- MODULE TaskExecution ---------------------------
(***************************************************************************)
(* The generations of one Task: chat:send and chat:retry requests, the     *)
(* execution each of them starts, cancellation, deletion, persistence      *)
(* failures and the recovery at startup.                                   *)
(*                                                                         *)
(* MySQL holds the row of the Task and one row per Assistant; the process  *)
(* holds TaskExecutionCancellationRegistry, one state object per Task.  No *)
(* transaction of the chat locks what it reads (READ COMMITTED), so each   *)
(* of them is a read and a later commit, and others commit in between.     *)
(* A thread of Threads serves a request and then drives the generator      *)
(* TaskExecutionService.execute as ChatNamespace.run_execution does: it    *)
(* advances it or closes it at a yield, and never closes one it has not    *)
(* started.                                                                *)
(***************************************************************************)
EXTENDS Naturals, FiniteSets

CONSTANTS
    Threads,     \* requests being prepared or executed at the same time
    States,      \* TaskExecutionState objects, recycled when nobody holds them
    Entries,     \* whether the stream store opens entries for chat:cancel to flag
    Overlap,     \* kinds of request sent before the previous one is prepared
    MaxTurns,    \* bound on the turns of the Task
    MaxOutages,  \* bound on process crashes and failed transactions
    NoState

ASSUME StateAssumption == NoState \notin States
ASSUME OverlapAssumption == Overlap \subseteq {"send", "retry"}
ASSUME EntriesAssumption == Entries \in BOOLEAN
ASSUME BoundAssumption == MaxTurns \in Nat \ {0} /\ MaxOutages \in Nat

VARIABLES
    task,      \* the row of tasks
    turn,      \* turn[n]: the n-th pair of rows of subtasks
    reg,       \* the state object the registry has for the Task
    object,    \* the contents of the state objects
    run,       \* the request or execution each thread is busy with
    accepted,  \* history: turns whose cancellation was accepted before their
               \* outcome was claimed
    stream,    \* the entry of the stream store, and the chat:cancel that flagged one
    outages    \* crashes and failed transactions so far

vars == <<task, turn, reg, object, run, accepted, stream, outages>>

-----------------------------------------------------------------------------
(* Types *)

Turns == 1 .. MaxTurns
Messages == 0 .. 2 * MaxTurns
Active == {"PENDING", "RUNNING"}
Terminal == {"COMPLETED", "FAILED", "CANCELLED"}

\* models.Task.  Status "absent" is a task that does not exist.
TaskStatus == {"absent"} \cup Active \cup Terminal
Task == [status : TaskStatus, active : BOOLEAN]

\* models.Subtask: the status of the Assistant, and the message_id of the User
\* it answers, which is one less than its own.
Turn == [status : {"none"} \cup Active \cup Terminal, user : Messages]
NoTurn == [status |-> "none", user |-> 0]

\* TaskExecutionState
Object == [turn : 0 .. MaxTurns, cancel : BOOLEAN,
           terminal : {"none"} \cup Terminal]

\* A request reads the task, then the last message or the failed Assistant,
\* commits, and registers its state object.
PrepareStages == {"send_checked", "send_numbered",
                  "retry_checked", "retry_resetting", "register"}
\* execute until it claims its outcome
OpenStages == {"prepared", "opened", "claimed", "starting", "marking", "started",
               "streaming", "finish"}
Unstarted == {"prepared", "opened"}   \* without a state object of its own
ClosingStages == {"persist", "write", "fallback", "event", "discard"}

\* last is the message_id read by create_turn, seen the status of the Task the
\* ORM loaded, outcome what execute desires and later what it claimed; open
\* says that the consumer of the generator still waits for events.
Run == [stage : {"idle"} \cup PrepareStages \cup OpenStages \cup ClosingStages,
        turn : 0 .. MaxTurns, last : Messages, seen : TaskStatus,
        state : States \cup {NoState}, outcome : {"none"} \cup Terminal,
        open : BOOLEAN]

Blank == [turn |-> 0, cancel |-> FALSE, terminal |-> "none"]
Idle == [stage |-> "idle", turn |-> 0, last |-> 0, seen |-> "absent",
         state |-> NoState, outcome |-> "none", open |-> TRUE]

\* ChatStreamStore: the Assistant whose stream is active, 0 if none is.  One
\* chat:cancel at a time has flagged an entry and is about to ask the registry:
\* ask is the Assistant of that entry, 0 if there is no such handler.
Stream == [entry : 0 .. MaxTurns, ask : 0 .. MaxTurns]

CoreTypes ==
    /\ task \in Task
    /\ turn \in [Turns -> Turn]
    /\ reg \in States \cup {NoState}
    /\ object \in [States -> Object]
    /\ run \in [Threads -> Run]
    /\ accepted \subseteq Turns
    /\ outages \in 0 .. MaxOutages
TypeOK == CoreTypes /\ stream \in Stream

Init ==
    /\ task = [status |-> "absent", active |-> FALSE]
    /\ turn = [n \in Turns |-> NoTurn]
    /\ reg = NoState
    /\ object = [s \in States |-> Blank]
    /\ run = [x \in Threads |-> Idle]
    /\ accepted = {}
    /\ stream = [entry |-> 0, ask |-> 0]
    /\ outages = 0

\* A crash, or a commit that fails or whose acknowledgement is lost.
Outage == outages < MaxOutages /\ outages' = outages + 1

GoTo(x, stage) == run' = [run EXCEPT ![x].stage = stage]
End(x) == run' = [run EXCEPT ![x] = Idle]

Used == {n \in Turns : turn[n].status # "none"}

-----------------------------------------------------------------------------
(* chat:send *)

Preparing(x) == run[x].stage \in PrepareStages

\* Whether the user sends a request while an earlier one is not answered yet,
\* from a second tab for instance.
MayBegin(kind) == kind \in Overlap \/ \A x \in Threads : ~Preparing(x)

\* Mutants: a message_id is left out, or used twice.
SkippedMessage(last) == last + 2
SameMessage(last) == IF last = 0 THEN 1 ELSE last
\* The message_id of a new User; the Assistant that answers it has the next.
NextMessage(last) == last + 1
LastMessage ==
    IF Used = {} THEN 0
    ELSE CHOOSE m \in {turn[n].user + 1 : n \in Used} :
            \A n \in Used : turn[n].user + 1 <= m

\* A prepare_send without task_id creates the Task with its first turn.
FirstTurn ==
    /\ task' = [status |-> "PENDING", active |-> TRUE]
    /\ turn' = [turn EXCEPT ![1] = [status |-> "PENDING", user |-> NextMessage(0)]]

CreateTask(x) ==
    /\ run[x].stage = "idle"
    /\ task.status = "absent"
    /\ FirstTurn
    /\ run' = [run EXCEPT ![x] = [Idle EXCEPT !.stage = "register", !.turn = 1]]
    /\ UNCHANGED <<reg, object, accepted, stream, outages>>

\* The commit succeeds, but the request is answered with an error.
CreateTaskLost(x) ==
    /\ Outage
    /\ run[x].stage = "idle"
    /\ task.status = "absent"
    /\ FirstTurn
    /\ UNCHANGED <<reg, object, run, accepted, stream>>

\* Mutant: the status of the Task is not looked at.
Sendable == task.active
Generatable == task.active /\ task.status \in Terminal

BeginSend(x) ==
    /\ run[x].stage = "idle"
    /\ MayBegin("send")
    /\ Generatable
    /\ Cardinality(Used) + Cardinality({y \in Threads :
            run[y].stage \in {"send_checked", "send_numbered"}}) < MaxTurns
    /\ run' = [run EXCEPT ![x] = [Idle EXCEPT !.stage = "send_checked",
                                              !.seen = task.status]]
    /\ UNCHANGED <<task, turn, reg, object, accepted, stream, outages>>

ReadLastMessage(x) ==
    /\ run[x].stage = "send_checked"
    /\ run' = [run EXCEPT ![x].stage = "send_numbered", ![x].last = LastMessage]
    /\ UNCHANGED <<task, turn, reg, object, accepted, stream, outages>>

\* The ORM writes the status of the Task only if it differs from the one it
\* loaded.
Store(x, n, t) ==
    /\ turn' = [turn EXCEPT ![n] = t]
    /\ task' = [task EXCEPT !.status =
                   IF run[x].seen = t.status THEN @ ELSE t.status]

\* create_turn; the ids of the new rows are the next ones.
NextTurn == CHOOSE n \in Turns \ Used : \A m \in Turns \ Used : n <= m
InsertTurn(x) ==
    Store(x, NextTurn, [status |-> "PENDING", user |-> NextMessage(run[x].last)])

CommitSend(x) ==
    /\ run[x].stage = "send_numbered"
    /\ InsertTurn(x)
    /\ run' = [run EXCEPT ![x].stage = "register", ![x].turn = NextTurn]
    /\ UNCHANGED <<reg, object, accepted, stream, outages>>

-----------------------------------------------------------------------------
(* chat:retry *)

BeginRetry(x, n) ==
    /\ run[x].stage = "idle"
    /\ MayBegin("retry")
    /\ Generatable
    /\ n \in Used
    /\ run' = [run EXCEPT ![x] = [Idle EXCEPT !.stage = "retry_checked",
                                    !.turn = n, !.seen = task.status]]
    /\ UNCHANGED <<task, turn, reg, object, accepted, stream, outages>>

\* Mutant: a cancelled Assistant is generated again as well.
RetryableIfCancelled(n) == turn[n].status \in {"FAILED", "CANCELLED"}
Retryable(n) == turn[n].status = "FAILED"

ReadFailedAssistant(x) ==
    /\ run[x].stage = "retry_checked"
    /\ IF Retryable(run[x].turn)
       THEN GoTo(x, "retry_resetting") ELSE End(x)
    /\ UNCHANGED <<task, turn, reg, object, accepted, stream, outages>>

\* reset_failed_assistant: the update names the row by its key alone.
ResetAssistant(x) ==
    /\ Store(x, run[x].turn, [turn[run[x].turn] EXCEPT !.status = "PENDING"])
    /\ accepted' = accepted \ {run[x].turn}

CommitRetry(x) ==
    /\ run[x].stage = "retry_resetting"
    /\ ResetAssistant(x)
    /\ GoTo(x, "register")
    /\ UNCHANGED <<reg, object, stream, outages>>

\* Any other error of prepare_send or prepare_retry rolls the request back.
RejectRequest(x) ==
    /\ run[x].stage \in {"send_checked", "send_numbered", "retry_resetting"}
    /\ End(x)
    /\ UNCHANGED <<task, turn, reg, object, accepted, stream, outages>>

\* The request is answered with an error although it was committed.
CommitLost(x) ==
    /\ Outage
    /\ \/ run[x].stage = "send_numbered" /\ InsertTurn(x) /\ UNCHANGED accepted
       \/ run[x].stage = "retry_resetting" /\ ResetAssistant(x)
    /\ End(x)
    /\ UNCHANGED <<reg, object, stream>>

-----------------------------------------------------------------------------
(* TaskExecutionCancellationRegistry *)

Held == {reg} \cup {run[x].state : x \in Threads}
NewObject(s, n) ==
    object' = [object EXCEPT ![s] = [Blank EXCEPT !.turn = n]]

\* prepare, after the commit: whatever the registry has is replaced.
Register(x) ==
    /\ run[x].stage = "register"
    /\ \E s \in States \ Held : NewObject(s, run[x].turn) /\ reg' = s
    /\ GoTo(x, "prepared")
    /\ UNCHANGED <<task, turn, accepted, stream, outages>>

\* run_execution opens the entry of its stream, which replaces an earlier one,
\* before it advances the generator.
StartStream(x) ==
    /\ Entries
    /\ run[x].stage = "prepared"
    /\ stream' = [stream EXCEPT !.entry = run[x].turn]
    /\ GoTo(x, "opened")
    /\ UNCHANGED <<task, turn, reg, object, accepted, outages>>

\* claim, the first step of the generator: the object of another Assistant is
\* replaced, the one of the same Assistant is used.  The entry may not have
\* been opened: the store failed, or the request was given up before.
Claim(x) ==
    /\ run[x].stage \in Unstarted
    /\ IF reg # NoState /\ object[reg].turn = run[x].turn
       THEN /\ run' = [run EXCEPT ![x].stage = "claimed", ![x].state = reg]
            /\ UNCHANGED <<reg, object>>
       ELSE \E s \in States \ Held :
            /\ NewObject(s, run[x].turn) /\ reg' = s
            /\ run' = [run EXCEPT ![x].stage = "claimed", ![x].state = s]
    /\ UNCHANGED <<task, turn, accepted, stream, outages>>

\* TaskExecutionState.request_cancel of the object the registry has.
Cancellable == reg # NoState /\ ~object[reg].cancel /\ object[reg].terminal = "none"
Won == IF Cancellable THEN {object[reg].turn} ELSE {}
\* Mutant: who has flagged the entry does not ask the registry.
FlagIsEnough == UNCHANGED object
RequestCancel ==
    object' = IF Cancellable THEN [object EXCEPT ![reg].cancel = TRUE] ELSE object

\* By chat:cancel that flagged no entry, by the execution that finds its entry
\* flagged after an event, or by the shutdown.
Cancel ==
    /\ Cancellable
    /\ object' = [object EXCEPT ![reg].cancel = TRUE]
    /\ accepted' = accepted \cup Won
    /\ UNCHANGED <<task, turn, reg, run, stream, outages>>

\* on_chat_cancel flags the entry it finds, whatever has become of its execution.
FlagEntry ==
    /\ stream.ask = 0 /\ stream.entry # 0
    /\ stream' = [stream EXCEPT !.ask = stream.entry]
    /\ UNCHANGED <<task, turn, reg, object, run, accepted, outages>>

\* Then it asks the registry.  It answers "accepted" whatever the registry says:
\* that counts for the Assistant of the entry if its outcome is not claimed yet.
Generating == {run[x].turn : x \in {y \in Threads : run[y].stage \in OpenStages}}
AnswerCancel ==
    /\ stream.ask # 0
    /\ RequestCancel
    /\ accepted' = accepted \cup Won \cup ({stream.ask} \cap Generating)
    /\ stream' = [stream EXCEPT !.ask = 0]
    /\ UNCHANGED <<task, turn, reg, run, outages>>

\* finalize, by the emitter after the terminal event or when the generator was
\* closed; an entry expires, too, and a store in memory ends with the process.
EntryGone ==
    /\ stream.entry # 0
    /\ stream' = [stream EXCEPT !.entry = 0]
    /\ UNCHANGED <<task, turn, reg, object, run, accepted, outages>>

\* Mutant: the state object of a later generation is removed.
DropAny(x) == reg' = NoState
Drop(x) == reg' = IF reg = run[x].state THEN NoState ELSE reg

Discard(x) ==
    /\ run[x].stage = "discard"
    /\ Drop(x)
    /\ End(x)
    /\ object' = [s \in States |-> IF s \in Held' THEN object[s] ELSE Blank]
    /\ UNCHANGED <<task, turn, accepted, stream, outages>>

-----------------------------------------------------------------------------
(* TaskExecutionService.execute *)

State(x) == object[run[x].state]
Finish(x, desired) ==
    run' = [run EXCEPT ![x].stage = "finish", ![x].outcome = desired]

CheckCancel(x) ==
    /\ run[x].stage = "claimed"
    /\ IF State(x).cancel THEN Finish(x, "CANCELLED") ELSE GoTo(x, "starting")
    /\ UNCHANGED <<task, turn, reg, object, accepted, stream, outages>>

\* _get_owned_assistant: the rows of a deleted Task are not found.
Loaded(x) == run' = [run EXCEPT ![x].seen = task.status,
    ![x].stage = IF @ = "starting" THEN "marking" ELSE "write"]

\* mark_running
ReadPending(x) ==
    /\ run[x].stage = "starting"
    /\ IF task.active /\ turn[run[x].turn].status = "PENDING"
       THEN Loaded(x) ELSE Finish(x, "FAILED")
    /\ UNCHANGED <<task, turn, reg, object, accepted, stream, outages>>

MarkRunning(x) == LET n == run[x].turn IN
    /\ run[x].stage = "marking"
    /\ Store(x, n, [turn[n] EXCEPT !.status = "RUNNING"])
    /\ GoTo(x, "started")
    /\ UNCHANGED <<reg, object, accepted, stream, outages>>

MarkRunningFails(x) == LET n == run[x].turn IN
    /\ Outage
    /\ run[x].stage = "marking"
    /\ \/ Store(x, n, [turn[n] EXCEPT !.status = "RUNNING"])
       \/ UNCHANGED <<task, turn>>
    /\ Finish(x, "FAILED")
    /\ UNCHANGED <<reg, object, accepted, stream>>

\* The consumer asks for the next event after "start": stream_turn and
\* attach_stream, unless the cancellation came first.
Attach(x) ==
    /\ run[x].stage = "started"
    /\ IF State(x).cancel \/ State(x).terminal # "none"
       THEN Finish(x, "CANCELLED")
       ELSE GoTo(x, "streaming") \/ Finish(x, "FAILED")
    /\ UNCHANGED <<task, turn, reg, object, accepted, stream, outages>>

\* The loop ends with the stream, its error or the cancellation; the events in
\* between change nothing here.
StreamEnds(x) ==
    /\ run[x].stage = "streaming"
    /\ \/ Finish(x, IF State(x).cancel THEN "CANCELLED" ELSE "COMPLETED")
       \/ Finish(x, "FAILED")
    /\ UNCHANGED <<task, turn, reg, object, accepted, stream, outages>>

\* Mutant: a generator that is closed does not settle its Assistant.
ClosedUnsettled(r) == [r EXCEPT !.stage = "discard", !.open = FALSE]
Closed(r) == [r EXCEPT !.stage = "finish", !.outcome = "FAILED", !.open = FALSE]

\* The consumer gives up at a yield: a stale generation, a failed emission, a
\* request that was cancelled before its execution was scheduled.
CloseGenerator(x) ==
    /\ run[x].stage \in {"started", "streaming"}
    /\ run' = [run EXCEPT ![x] = Closed(@)]
    /\ UNCHANGED <<task, turn, reg, object, accepted, stream, outages>>

-----------------------------------------------------------------------------
(* TaskExecutionService._finish_execution *)

Outcome(x) == IF State(x).cancel THEN "CANCELLED" ELSE run[x].outcome

\* claim_terminal.  A state object is settled once: whoever comes second ends
\* without an event.
ClaimTerminal(x) ==
    /\ run[x].stage = "finish"
    /\ IF State(x).terminal = "none"
       THEN /\ object' = [object EXCEPT ![run[x].state].terminal = Outcome(x)]
            /\ run' = [run EXCEPT ![x].stage = "persist", ![x].outcome = Outcome(x)]
       ELSE GoTo(x, "discard") /\ UNCHANGED object
    /\ UNCHANGED <<task, turn, reg, accepted, stream, outages>>

\* An error of the transaction: a COMPLETED or CANCELLED outcome falls back to
\* fail_active_assistant, a FAILED one ends the generator.
NotPersisted(x) ==
    GoTo(x, IF run[x].outcome = "FAILED" THEN "discard" ELSE "fallback")

\* finish_assistant, cancel_assistant
ReadActive(x) ==
    /\ run[x].stage = "persist"
    /\ IF task.active /\ turn[run[x].turn].status \in Active
       THEN Loaded(x) ELSE NotPersisted(x)
    /\ UNCHANGED <<task, turn, reg, object, accepted, stream, outages>>

Settle(x) == LET n == run[x].turn IN
    Store(x, n, [turn[n] EXCEPT !.status = run[x].outcome])

Tell(x, outcome) == run' = [run EXCEPT ![x].outcome = outcome,
    ![x].stage = IF run[x].open THEN "event" ELSE "discard"]

Persist(x) ==
    /\ run[x].stage = "write"
    /\ Settle(x)
    /\ Tell(x, run[x].outcome)
    /\ UNCHANGED <<reg, object, accepted, stream, outages>>

PersistFails(x) ==
    /\ Outage
    /\ run[x].stage = "write"
    /\ Settle(x) \/ UNCHANGED <<task, turn>>
    /\ NotPersisted(x)
    /\ UNCHANGED <<reg, object, accepted, stream>>

\* Mutant: a terminal commit that was only not acknowledged is overwritten.
FailableAlways(n) == TRUE
Failable(n) == turn[n].status \in Active

\* fail_active_assistant: conditional updates.  Without an active Assistant
\* there is nothing to do; without an active Task the update is rolled back.
FailActive(n) ==
    /\ turn' = [turn EXCEPT ![n].status = "FAILED"]
    /\ task' = [task EXCEPT !.status = "FAILED"]

\* Mutant: the client is told the outcome that could not be stored.
ToldClaimed(x) == run[x].outcome
Told(x) == "FAILED"

Fallback(x) == LET n == run[x].turn IN
    /\ run[x].stage = "fallback"
    /\ \/ ~Failable(n) /\ UNCHANGED <<task, turn>> /\ Tell(x, Told(x))
       \/ /\ Failable(n) /\ task.active /\ task.status \in Active
          /\ FailActive(n) /\ Tell(x, Told(x))
       \/ /\ Failable(n) /\ (~task.active \/ task.status \notin Active)
          /\ UNCHANGED <<task, turn>> /\ GoTo(x, "discard")
    /\ UNCHANGED <<reg, object, accepted, stream, outages>>

FallbackFails(x) == LET n == run[x].turn IN
    /\ Outage
    /\ run[x].stage = "fallback"
    /\ \/ UNCHANGED <<task, turn>>
       \/ Failable(n) /\ task.active /\ task.status \in Active /\ FailActive(n)
    /\ GoTo(x, "discard")
    /\ UNCHANGED <<reg, object, accepted, stream>>

\* "done", "cancelled" or "error" is emitted, and the generator is closed.
EmitTerminal(x) ==
    /\ run[x].stage = "event"
    /\ GoTo(x, "discard")
    /\ UNCHANGED <<task, turn, reg, object, accepted, stream, outages>>

-----------------------------------------------------------------------------
(* Deletion, crashes, and the system *)

\* soft_delete_if_terminal
DeleteTask ==
    /\ Generatable
    /\ task' = [task EXCEPT !.active = FALSE]
    /\ UNCHANGED <<turn, reg, object, run, accepted, stream, outages>>

\* recover_interrupted, before the next process serves requests.
Interrupted == {n \in Turns : turn[n].status \in Active}

Restart ==
    /\ Outage
    /\ reg' = NoState
    /\ run' = [x \in Threads |-> Idle]
    /\ turn' = [n \in Turns |-> IF n \in Interrupted
                 THEN [turn[n] EXCEPT !.status = "FAILED"] ELSE turn[n]]
    /\ task' = [task EXCEPT !.status = IF Interrupted = {} THEN @ ELSE "FAILED"]
    /\ object' = [s \in States |-> Blank]
    /\ stream' = [stream EXCEPT !.ask = 0]
    /\ UNCHANGED accepted

Request(x) == CreateTask(x) \/ BeginSend(x) \/ \E n \in Turns : BeginRetry(x, n)

PrepareStep(x) ==
    \/ ReadLastMessage(x) \/ CommitSend(x)
    \/ ReadFailedAssistant(x) \/ CommitRetry(x)
    \/ RejectRequest(x) \/ Register(x)

ExecuteStep(x) ==
    \/ StartStream(x) \/ Claim(x) \/ CheckCancel(x) \/ ReadPending(x)
    \/ MarkRunning(x) \/ Attach(x) \/ StreamEnds(x) \/ CloseGenerator(x)
    \/ ClaimTerminal(x) \/ ReadActive(x) \/ Persist(x) \/ Fallback(x)
    \/ EmitTerminal(x) \/ Discard(x)

Fault(x) ==
    \/ CreateTaskLost(x) \/ CommitLost(x)
    \/ MarkRunningFails(x) \/ PersistFails(x) \/ FallbackFails(x)

Next ==
    \/ \E x \in Threads : Request(x) \/ PrepareStep(x) \/ ExecuteStep(x) \/ Fault(x)
    \/ Cancel \/ FlagEntry \/ AnswerCancel \/ EntryGone
    \/ DeleteTask \/ Restart

Spec == Init /\ [][Next]_vars

\* Threads keep running, and the model calls of a stream end: each has a time
\* limit and their number is bounded.  Nothing is promised about requests,
\* cancellation or a restart.
FairSpec == Spec /\ \A x \in Threads : WF_vars(PrepareStep(x) \/ ExecuteStep(x))

-----------------------------------------------------------------------------
(* Safety when requests do not overlap *)

\* The status of the Task tells whether an Assistant is being generated, which
\* is all that sending, retrying and deleting look at; and no two are.
OneGeneration ==
    /\ task.status \in Active <=> Interrupted # {}
    /\ \A m, n \in Interrupted : m = n

\* A cancellation reaches the generation in progress from the moment it is
\* registered until its outcome is settled, although the execution of an
\* earlier turn may still be discarding its own state.
CancelReachable == \A x \in Threads : run[x].stage \in OpenStages =>
    /\ reg # NoState
    /\ object[reg].turn = run[x].turn /\ object[reg].terminal = "none"
    /\ run[x].stage \notin Unstarted => run[x].state = reg

\* A generation whose cancellation was accepted before it claimed its outcome, by
\* the registry or by chat:cancel on the word of the stream store, is never
\* COMPLETED, and no other is CANCELLED.  Nothing follows from an "accepted"
\* that comes later, while the entry of a settled Assistant is not finalized yet.
CancelHonoured == \A n \in Turns :
    /\ turn[n].status = "COMPLETED" => n \notin accepted
    /\ turn[n].status = "CANCELLED" => n \in accepted

\* message_id orders the messages of a Task, also while a request is between
\* its read of the last one and its commit.
MonotoneMessages == \A m, n \in Used : m < n => turn[m].user + 1 < turn[n].user

\* Readers see what TaskHistory promises.
History == INSTANCE TaskHistory WITH
    status <- task.status,
    answer <- [n \in Turns |-> turn[n].status]

HistorySpec == History!Spec

-----------------------------------------------------------------------------
(* Safety whatever requests overlap, as long as retries do not *)

\* A client that is told "done" or "cancelled" finds that outcome in MySQL, even
\* after a failed or unacknowledged commit and next to other generations.
EventIsDurable == \A x \in Threads :
    run[x].stage = "event" /\ run[x].outcome # "FAILED" =>
        turn[run[x].turn].status = run[x].outcome

\* An outcome is final, except that a FAILED Assistant may be generated again:
\* neither a fallback nor a late execution nor the recovery overwrites it.
OutcomeIsFinal == [][\A n \in Turns :
    turn[n].status \in Terminal /\ turn'[n] # turn[n] =>
        turn[n].status = "FAILED" /\ turn'[n].status = "PENDING"]_vars

\* Only a FAILED Assistant is reset to PENDING.
RetryOnlyFailed == [][\A n \in Turns :
    turn[n].status \in Terminal \cup {"RUNNING"} /\ turn'[n].status = "PENDING" =>
        turn[n].status = "FAILED"]_vars

-----------------------------------------------------------------------------
(* Liveness *)

\* Every Assistant enters COMPLETED, FAILED or CANCELLED in the end, unless its
\* Task is deleted.  (A turn whose partial result cannot be made, AgentTurn's
\* RAISED, claims no outcome and is left to the next start.)
EventuallySettled == \A n \in Turns :
    turn[n].status \in Active ~> turn[n].status \in Terminal \/ ~task.active
=============================================================================
