----------------------------- MODULE TaskStream -----------------------------
(***************************************************************************)
(* How one Task reaches one open page: the executions of the backend       *)
(* (ChatNamespace.run_execution), the stream store they keep for late      *)
(* joiners (MemoryChatStreamStore, RedisChatStreamStore), the events of    *)
(* the Task room (WebSocketChatEmitter), the handler of task:join, and the *)
(* page: useTaskChat with its reducer.                                     *)
(*                                                                         *)
(* A run is one execution of one Assistant, and its number is the          *)
(* generation the store gives it.  Requests come from other pages, one     *)
(* after the other, so that this page only watches: requests that overlap  *)
(* are the subject of TaskExecution.  Every await of the backend is the    *)
(* end of an action.  Text is a sequence of the units a run produced,      *)
(* numbered from 0: a unit lost, repeated or misplaced shows.              *)
(***************************************************************************)
EXTENDS Naturals, Sequences, FiniteSets, SequencesExt

CONSTANTS
    MaxTurns,        \* Assistants of the Task
    MaxRuns,         \* executions, retries included
    MaxUnits,        \* units of text of one run
    MaxBlocks,       \* blocks of one run
    Kinds,           \* of blocks: "text", "tool"
    MaxDrops,        \* connections the page loses
    MaxFaults,       \* emissions and joins that fail
    MaxOutages,      \* deaths of the backend process
    MaxInFlight,     \* events under way to the page, or held by it, when one is emitted
    StoreSurvives    \* the store is Redis, not the memory of the process

ASSUME BoundsAssumption ==
    /\ {MaxTurns, MaxRuns} \subseteq Nat \ {0}
    /\ {MaxUnits, MaxBlocks, MaxDrops, MaxFaults, MaxOutages} \subseteq Nat
    /\ Kinds \subseteq {"text", "tool"}
    /\ MaxInFlight \in Nat \ {0}
    /\ StoreSurvives \in BOOLEAN

Turns == 1 .. MaxTurns
Runs == 1 .. MaxRuns
Active == {"PENDING", "RUNNING"}
Terminal == {"COMPLETED", "FAILED", "CANCELLED"}

VARIABLES
    durable,   \* the Assistant rows: status and result
    status,    \* Task.status
    run,       \* the executions
    stream,    \* the stream store's entry of the Task
    room,      \* whether the page's connection is in the Task room
    ask,       \* the task:join handler of the page
    wire,      \* what the server sent on the page's connection, in order
    hook,      \* the refs of useTaskChat
    view,      \* the state of the reducer
    shown,     \* needsResync as the last commit of React showed it to the effects
    faults     \* faults so far: drops, failures, outages

server == <<durable, status, run, stream>>
page == <<hook, view, shown>>
vars == <<server, room, ask, wire, page, faults>>

-----------------------------------------------------------------------------
(* Blocks and messages *)

Block(id, kind) == [id |-> id, kind |-> kind, text |-> <<>>, open |-> TRUE]
Blank == [status |-> "none", blocks |-> <<>>]
NoEvent == [kind |-> "none"]
NoStream == [turn |-> 0, gen |-> 0, cached |-> <<>>, blocks |-> <<>>]
NoRun == [pc |-> "idle", turn |-> 0, blocks |-> <<>>, units |-> 0,
          pending |-> <<>>, event |-> NoEvent, brief |-> "none", then |-> "over"]
NoAsk == [pc |-> "none", after |-> 0, rows |-> <<>>, live |-> NoStream]

Grown(blocks, unit) ==
    [blocks EXCEPT ![Len(blocks)].text = Append(@, unit)]

\* What the database keeps of an interrupted or failed run: every block closed.
CloseAll(blocks) == [i \in DOMAIN blocks |-> [blocks[i] EXCEPT !.open = FALSE]]

WireFree == Len(wire) + Len(hook.queue) < MaxInFlight

\* Emission to a room the page is in; a copy of a Task status goes to the
\* user's own room too, which a connection enters when it is accepted.
ToRoom(m) == IF room THEN Append(wire, m) ELSE wire
ToUser(m) ==
    IF ~hook.up THEN wire ELSE Append(ToRoom(m), m)

TypeOK ==
    /\ durable \in [Turns -> [status : {"none"} \cup Active \cup Terminal,
                              blocks : Seq([id : Runs \X Nat, kind : {"text", "tool"},
                                            text : Seq(Nat), open : BOOLEAN])]]
    /\ status \in {"none"} \cup Active \cup Terminal
    /\ \A r \in Runs :
        /\ run[r].pc \in {"idle", "brief", "tell", "open", "begin", "store", "emit",
                          "loop", "finalize", "cleanup", "over"}
        /\ run[r].turn \in Turns \cup {0}
        /\ run[r].units \in 0 .. MaxUnits
    /\ stream.turn \in Turns \cup {0} /\ stream.gen \in Runs \cup {0}
    /\ room \in BOOLEAN
    /\ ask.pc \in {"none", "asked", "entered", "read", "snapped"}
    /\ hook.up \in BOOLEAN /\ hook.ready \in BOOLEAN /\ hook.joining \in BOOLEAN
    /\ \A n \in Turns :
        /\ view.msgs[n].status \in {"none"} \cup Active \cup Terminal
        /\ view.msgs[n].gen \in Runs \cup {0} /\ view.msgs[n].offset \in 0 .. MaxUnits
    /\ shown \in BOOLEAN /\ view.resync \in BOOLEAN

-----------------------------------------------------------------------------
(* Requests of other pages, and the rows they leave *)

Exists(n) == durable[n].status # "none"
NextRun(r) == run[r].pc = "idle" /\ \A q \in Runs : q < r => run[q].pc # "idle"
NextTurn(n) == ~Exists(n) /\ \A k \in Turns : k < n => Exists(k)

Prepare(r, n) ==
    /\ durable' = [durable EXCEPT ![n] = [Blank EXCEPT !.status = "PENDING"]]
    /\ status' = "PENDING"
    /\ run' = [run EXCEPT ![r] =
                  [NoRun EXCEPT !.pc = "brief", !.then = "open", !.turn = n]]
    /\ UNCHANGED <<stream, room, ask, wire, page, faults>>

\* chat:send and chat:retry: neither is accepted while a generation is active.
Send == \E r \in Runs, n \in Turns :
    /\ NextRun(r) /\ NextTurn(n) /\ status \notin Active
    /\ Prepare(r, n)

Retry == \E r \in Runs, n \in Turns :
    /\ NextRun(r) /\ durable[n].status = "FAILED" /\ status \notin Active
    /\ Prepare(r, n)

-----------------------------------------------------------------------------
(* run_execution *)

Goto(r, pc) == run' = [run EXCEPT ![r].pc = pc]
Brief(r, then) ==
    run' = [run EXCEPT ![r].pc = "brief", ![r].then = then, ![r].event = NoEvent,
                       ![r].pending = <<>>]
Told(r) == run' = [run EXCEPT ![r].pc = run[r].then, ![r].then = "over", ![r].brief = "none"]

\* The Task notification of _emit_task_state_best_effort: a read, an emission.
ReadBrief(r) ==
    /\ run[r].pc = "brief"
    /\ run' = [run EXCEPT ![r].brief = status, ![r].pc = "tell"]
    /\ UNCHANGED <<durable, status, stream, room, ask, wire, page, faults>>

Tell(r) ==
    /\ run[r].pc = "tell" /\ WireFree
    /\ wire' = ToUser([kind |-> "task", status |-> run[r].brief])
    /\ Told(r)
    /\ UNCHANGED <<durable, status, stream, room, ask, page, faults>>

TellFails(r) ==
    /\ run[r].pc = "tell" /\ faults.failed < MaxFaults
    /\ faults' = [faults EXCEPT !.failed = @ + 1]
    /\ Told(r)
    /\ UNCHANGED <<durable, status, stream, room, ask, wire, page>>

\* A new generation replaces the entry of the Task, whatever it was.
Open(r) ==
    /\ run[r].pc = "open"
    /\ stream' = [NoStream EXCEPT !.turn = run[r].turn, !.gen = r]
    /\ Goto(r, "begin")
    /\ UNCHANGED <<durable, status, room, ask, wire, page, faults>>

StartOf(r) == [kind |-> "start", turn |-> run[r].turn, gen |-> r]
Begin(r) ==
    /\ run[r].pc = "begin"
    /\ durable' = [durable EXCEPT ![run[r].turn].status = "RUNNING"]
    /\ status' = "RUNNING"
    /\ run' = [run EXCEPT ![r].event = StartOf(r),
                          ![r].pc = "store"]
    /\ UNCHANGED <<stream, room, ask, wire, page, faults>>

\* The reducer behind the execution takes an event of the runtime: a text
\* block opens with its first chunk, grows, and is complete with its assistant
\* message; a tool block opens and ends.  Its emissions follow one by one.
Tip(r) == Last(run[r].blocks)
Idle(r) == run[r].blocks # <<>> => ~Tip(r).open
Accepting(r) == run[r].pc = "loop" /\ run[r].pending = <<>>
Created(r, block) == [kind |-> "created", turn |-> run[r].turn, gen |-> r, block |-> block]
Updated(r, block) == [kind |-> "updated", turn |-> run[r].turn, gen |-> r, block |-> block]
Chunk(r, id, at) ==
    [kind |-> "chunk", turn |-> run[r].turn, gen |-> r, id |-> id, at |-> at,
     offset |-> run[r].units]

Accept(r, blocks, units, pending) ==
    /\ run' = [run EXCEPT ![r] = [@ EXCEPT !.blocks = blocks, !.units = units,
                                           !.pending = pending]]
    /\ UNCHANGED <<durable, status, stream, room, ask, wire, page, faults>>

NewBlock(r, kind) == Block(<<r, Len(run[r].blocks) + 1>>, kind)
Opening(r, kind) ==
    Accepting(r) /\ Idle(r) /\ Len(run[r].blocks) < MaxBlocks /\ kind \in Kinds

FirstDelta(r) == LET block == NewBlock(r, "text") IN
    /\ Opening(r, "text") /\ run[r].units < MaxUnits
    /\ Accept(r, Grown(Append(run[r].blocks, block), run[r].units), run[r].units + 1,
              <<Created(r, block), Chunk(r, block.id, 0)>>)

NextDelta(r) ==
    /\ Accepting(r) /\ ~Idle(r) /\ Tip(r).kind = "text" /\ run[r].units < MaxUnits
    /\ Accept(r, Grown(run[r].blocks, run[r].units), run[r].units + 1,
              <<Chunk(r, Tip(r).id, Len(Tip(r).text))>>)

StartTool(r) == LET block == NewBlock(r, "tool") IN
    /\ Opening(r, "tool")
    /\ Accept(r, Append(run[r].blocks, block), run[r].units, <<Created(r, block)>>)

\* The assistant message of a text, the result of a tool.
EndBlock(r) == LET block == [Tip(r) EXCEPT !.open = FALSE] IN
    /\ Accepting(r) /\ ~Idle(r)
    /\ Accept(r, Front(run[r].blocks) \o <<block>>, run[r].units, <<Updated(r, block)>>)

\* append_text, upsert_block: what the store keeps of an event before it is
\* emitted.  With requests that do not overlap only an outcome can find its
\* entry replaced: a retry is accepted once the outcome is stored.
Kept(e) ==
    IF e.kind = "chunk" THEN [stream EXCEPT !.cached = Append(@, e.offset)]
    ELSE IF e.kind = "created" THEN [stream EXCEPT !.blocks = Append(@, e.block)]
    ELSE [stream EXCEPT !.blocks = [@ EXCEPT ![Len(@)] = e.block]]

Yield(r) ==
    /\ run[r].pc = "loop" /\ run[r].pending # <<>> /\ stream.gen = r
    /\ stream' = Kept(Head(run[r].pending))
    /\ run' = [run EXCEPT ![r].event = Head(run[r].pending), ![r].pc = "emit",
                          ![r].pending = Tail(@)]
    /\ UNCHANGED <<durable, status, room, ask, wire, page, faults>>

\* The outcome is stored before its event is raised.
Settle(r, outcome, blocks) ==
    /\ durable' = [durable EXCEPT ![run[r].turn] = [status |-> outcome, blocks |-> blocks]]
    /\ status' = outcome

EndOf(r, outcome, blocks) ==
    [kind |-> "ended", turn |-> run[r].turn, gen |-> r, status |-> outcome, blocks |-> blocks]
Conclude(r, outcome, blocks) ==
    /\ Settle(r, outcome, blocks)
    /\ run' = [run EXCEPT ![r] = [@ EXCEPT !.event = EndOf(r, outcome, blocks),
                                           !.pc = "store", !.pending = <<>>]]
    /\ UNCHANGED <<stream, room, ask, wire, page, faults>>

Complete(r) ==
    /\ Accepting(r) /\ run[r].blocks # <<>>
    /\ Idle(r) /\ Tip(r).kind = "text"
    /\ Conclude(r, "COMPLETED", run[r].blocks)

\* A cancellation, accepted before the start or between two emissions, whose
\* blocks are then ahead of what was emitted.
Cancel(r) ==
    /\ run[r].pc \in {"begin", "loop"}
    /\ Conclude(r, "CANCELLED", CloseAll(run[r].blocks))

\* The start or the runtime fails.
Fail(r) ==
    /\ run[r].pc = "begin" \/ Accepting(r)
    /\ Conclude(r, "FAILED", CloseAll(run[r].blocks))

\* validate_generation, before the start or the outcome is emitted.
Validate(r) ==
    /\ run[r].pc = "store" /\ stream.gen = r
    /\ Goto(r, "emit")
    /\ UNCHANGED <<durable, status, stream, room, ask, wire, page, faults>>

\* A later generation owns the entry: the outcome is stored, its event is not
\* emitted.
Superseded(r) ==
    /\ run[r].pc = "store" /\ stream.gen # r
    /\ Brief(r, "over")
    /\ UNCHANGED <<durable, status, stream, room, ask, wire, page, faults>>

Finish(r) == run' = [run EXCEPT ![r].pc = "finalize", ![r].event = NoEvent]
After(r) ==
    IF run[r].event.kind = "start" THEN Brief(r, "loop")
    ELSE IF run[r].event.kind = "ended" THEN Finish(r)
    ELSE run' = [run EXCEPT ![r].pc = "loop", ![r].event = NoEvent]

Emit(r) ==
    /\ run[r].pc = "emit" /\ WireFree
    /\ wire' = ToRoom(run[r].event)
    /\ After(r)
    /\ UNCHANGED <<durable, status, stream, room, ask, page, faults>>

Finalize(r) ==
    /\ run[r].pc = "finalize"
    /\ stream' = IF stream.gen = r THEN NoStream ELSE stream
    /\ Brief(r, "over")
    /\ UNCHANGED <<durable, status, room, ask, wire, page, faults>>

\* A call of the store or an emission fails: the execution is closed, which
\* settles it as failed, the Task is announced and the entry removed.  The
\* entry of an outcome is removed although its event is lost.
EmitFails(r) ==
    /\ run[r].pc \in {"open", "store", "emit"} /\ faults.failed < MaxFaults
    /\ faults' = [faults EXCEPT !.failed = @ + 1]
    /\ IF run[r].event.kind = "ended"
       THEN /\ IF run[r].pc = "store" THEN Brief(r, "cleanup") ELSE Finish(r)
            /\ UNCHANGED <<durable, status>>
       ELSE /\ \E outcome \in {"FAILED", "CANCELLED"} :
                    Settle(r, outcome, CloseAll(run[r].blocks))
            /\ Brief(r, "cleanup")
    /\ UNCHANGED <<stream, room, ask, wire, page>>

Cleanup(r) ==
    /\ run[r].pc = "cleanup"
    /\ stream' = IF stream.gen = r THEN NoStream ELSE stream
    /\ Goto(r, "over")
    /\ UNCHANGED <<durable, status, room, ask, wire, page, faults>>

\* The time to live of an entry nobody touches any more.
Expire ==
    /\ stream # NoStream /\ run[stream.gen].pc = "over"
    /\ stream' = NoStream
    /\ UNCHANGED <<durable, status, run, room, ask, wire, page, faults>>

-----------------------------------------------------------------------------
(* The task:join handler: the room first, then the rows, then the store *)

JoinRoom ==
    /\ ask.pc = "asked"
    /\ room' = TRUE
    /\ ask' = [ask EXCEPT !.pc = "entered"]
    /\ UNCHANGED <<server, wire, page, faults>>

RowsAfter(after) == [n \in {k \in Turns : k > after /\ Exists(k)} |-> durable[n]]

JoinRead ==
    /\ ask.pc = "entered"
    /\ ask' = [ask EXCEPT !.rows = RowsAfter(ask.after), !.pc = "read"]
    /\ UNCHANGED <<server, room, wire, page, faults>>

JoinSnapshot ==
    /\ ask.pc = "read"
    /\ ask' = [ask EXCEPT !.live = stream, !.pc = "snapped"]
    /\ UNCHANGED <<server, room, wire, page, faults>>

JoinAck ==
    /\ ask.pc = "snapped"
    /\ wire' = Append(wire, [kind |-> "ack", rows |-> ask.rows, live |-> ask.live])
    /\ ask' = NoAsk
    /\ UNCHANGED <<server, room, page, faults>>

\* The rows or the entry cannot be read: the page leaves the room again.
JoinFails ==
    /\ ask.pc \in {"entered", "read"} /\ faults.failed < MaxFaults
    /\ faults' = [faults EXCEPT !.failed = @ + 1]
    /\ room' = FALSE
    /\ wire' = Append(wire, [kind |-> "refused"])
    /\ ask' = NoAsk
    /\ UNCHANGED <<server, page>>

-----------------------------------------------------------------------------
(* The reducer of the page *)

Absent == [status |-> "none", gen |-> 0, offset |-> 0, blocks |-> <<>>, known |-> FALSE]
FromRow(r) == [Absent EXCEPT !.status = r.status, !.blocks = r.blocks, !.known = TRUE]

\* Mutant: an event is applied whatever generation the page shows.
AnyGeneration(v, m) == TRUE
Matches(v, m) == v.msgs[m.turn].gen = m.gen
Place(blocks, id) == {i \in DOMAIN blocks : blocks[i].id = id}
Mutable(v) == {n \in Turns : v.msgs[n].status \in Active}

\* Text as a sum of the blocks before the i-th.
TextBefore(blocks, i) ==
    LET upTo[k \in 0 .. Len(blocks)] == IF k = 0 THEN 0 ELSE upTo[k - 1] + Len(blocks[k].text)
    IN  upTo[i - 1]

Started(v, m) ==
    LET old == v.msgs[m.turn] IN
    IF old.gen = m.gen /\ old.status = "RUNNING" THEN v
    ELSE [v EXCEPT !.msgs[m.turn] =
             [Absent EXCEPT !.status = "RUNNING", !.gen = m.gen, !.known = old.known]]

BlockCreated(v, m) ==
    IF ~Matches(v, m) \/ Place(v.msgs[m.turn].blocks, m.block.id) # {} THEN v
    ELSE [v EXCEPT !.msgs[m.turn].blocks = Append(@, m.block)]

BlockUpdated(v, m) ==
    LET at == Place(v.msgs[m.turn].blocks, m.block.id) IN
    IF ~Matches(v, m) THEN v
    ELSE IF at = {} THEN [v EXCEPT !.resync = TRUE]
    ELSE [v EXCEPT !.msgs[m.turn].blocks[CHOOSE i \in at : TRUE] = m.block]

\* Text is appended when both offsets agree; what is behind them was merged
\* already, what is ahead of them shows that something was missed.
\* Mutant: nothing is taken for a repetition.
NeverBehind(m, length, offset) == FALSE
Behind(m, length, offset) == m.at < length \/ m.offset < offset
Ahead(m, length, offset) == m.at > length \/ m.offset > offset

Merged(v, m) ==
    LET old == v.msgs[m.turn]
        at == Place(old.blocks, m.id)
        i == CHOOSE k \in at : TRUE
        length == IF at = {} THEN 0 ELSE Len(old.blocks[i].text)
        new == [Block(m.id, "text") EXCEPT !.text = <<m.offset>>]
        blocks == IF at = {} THEN Append(old.blocks, new)
                  ELSE [old.blocks EXCEPT ![i].text = Append(@, m.offset)]
        merged == [old EXCEPT !.blocks = blocks, !.offset = @ + 1]
    IN  IF ~Matches(v, m) \/ (at # {} /\ Behind(m, length, old.offset)) THEN v
        ELSE IF at = {} /\ (m.at # 0 \/ m.offset # old.offset) THEN [v EXCEPT !.resync = TRUE]
        ELSE IF at # {} /\ Ahead(m, length, old.offset) THEN [v EXCEPT !.resync = TRUE]
        ELSE [v EXCEPT !.msgs[m.turn] = merged]

\* Mutant: the blocks the page has are kept.
EndedInPlace(v, m) ==
    IF ~Matches(v, m) THEN v
    ELSE [v EXCEPT !.msgs[m.turn] = [@ EXCEPT !.status = m.status, !.gen = 0, !.offset = 0]]
Ended(v, m) ==
    IF ~Matches(v, m) THEN v
    ELSE [v EXCEPT !.msgs[m.turn] = [@ EXCEPT !.status = m.status, !.blocks = m.blocks,
                                              !.gen = 0, !.offset = 0]]

\* A Task that ended while an Assistant looks active: its row is fetched.
TaskTerminal(v, m) ==
    IF m.status \in Terminal /\ Mutable(v) # {} THEN [v EXCEPT !.resync = TRUE] ELSE v

Reduced(v, m) ==
    IF m.kind = "start" THEN Started(v, m)
    ELSE IF m.kind = "created" THEN BlockCreated(v, m)
    ELSE IF m.kind = "updated" THEN BlockUpdated(v, m)
    ELSE IF m.kind = "chunk" THEN Merged(v, m)
    ELSE IF m.kind = "ended" THEN Ended(v, m)
    ELSE TaskTerminal(v, m)

\* The held events are dispatched in the order in which they came.
Replayed(v, queue) ==
    LET after[k \in 0 .. Len(queue)] == IF k = 0 THEN v ELSE Reduced(after[k - 1], queue[k])
    IN  after[Len(queue)]

\* The text of the entry is ahead of its blocks, which are stored when they
\* open and when they close: the open one takes what the others leave.
OpenText(blocks) == {i \in DOMAIN blocks : blocks[i].kind = "text" /\ blocks[i].open}

Reconcilable(live) ==
    /\ OpenText(live.blocks) \subseteq {Len(live.blocks)}
    /\ \A i \in DOMAIN live.blocks \ OpenText(live.blocks) :
         live.blocks[i].kind = "text" =>
             live.blocks[i].text = SubSeq(live.cached, TextBefore(live.blocks, i) + 1,
                                          TextBefore(live.blocks, i + 1))
    /\ OpenText(live.blocks) = {} =>
         TextBefore(live.blocks, Len(live.blocks) + 1) = Len(live.cached)

Reconciled(live) ==
    [i \in DOMAIN live.blocks |->
        IF i \in OpenText(live.blocks)
        THEN [live.blocks[i] EXCEPT !.text =
                 SubSeq(live.cached, TextBefore(live.blocks, i) + 1, Len(live.cached))]
        ELSE live.blocks[i]]

\* Rows first, then the entry of the store over the row of its Assistant.
Hydrated(v, ack, replace) ==
    LET rows == [n \in Turns |->
                    IF n \in DOMAIN ack.rows THEN FromRow(ack.rows[n])
                    ELSE IF replace THEN Absent ELSE v.msgs[n]]
        live == ack.live
        merged == [rows EXCEPT ![live.turn] =
                      [@ EXCEPT !.status = "RUNNING", !.gen = live.gen,
                                !.offset = Len(live.cached),
                                !.blocks = IF Reconcilable(live) THEN Reconciled(live)
                                           ELSE live.blocks]]
    IN  [v EXCEPT !.msgs = IF live = NoStream THEN rows ELSE merged,
                  !.resync = live # NoStream /\ ~Reconcilable(live)]

-----------------------------------------------------------------------------
(* useTaskChat: a page that watches the Task *)

\* The reconnect cursor: the last message before the first that may change.
\* Messages that only a live event announced have no message_id yet.
\* Mutant: the last message, whatever its status.
LastKnown(v) ==
    LET known == {n \in Turns : v.msgs[n].known} IN IF known = {} THEN 0 ELSE Max(known)
Cursor(v) ==
    LET known == {n \in Turns : v.msgs[n].known}
        stable == {n \in known : \A k \in known \cap Mutable(v) : n < k}
    IN  IF stable = {} THEN 0 ELSE Max(stable)

\* joinAndHydrate up to its request.
Request(h, after, replace) ==
    /\ hook' = [h EXCEPT !.joining = TRUE, !.ready = FALSE, !.replace = replace,
                         !.queue = <<>>]
    /\ ask' = [NoAsk EXCEPT !.pc = "asked", !.after = after]

\* The first connection joins from the beginning, a later one from the cursor
\* of the last commit: the delay before a connection is tried again lets React
\* render what was received.
Connect ==
    /\ ~hook.up
    /\ Request([hook EXCEPT !.up = TRUE], Cursor(view), ~hook.hydrated)
    /\ UNCHANGED <<server, room, wire, view, shown, faults>>

\* The connection drops: what was under way on it is lost and a pending join
\* is rejected.
Cut(h) == [h EXCEPT !.up = FALSE, !.joining = FALSE, !.queue = <<>>]

Disconnect ==
    /\ hook.up /\ faults.drops < MaxDrops
    /\ faults' = [faults EXCEPT !.drops = @ + 1]
    /\ hook' = Cut(hook)
    /\ room' = FALSE /\ ask' = NoAsk /\ wire' = <<>>
    /\ UNCHANGED <<server, view, shown>>

Received(kinds) == wire # <<>> /\ Head(wire).kind \in kinds /\ wire' = Tail(wire)
Events == {"start", "created", "updated", "chunk", "ended", "task"}

\* A live event on a hydrated page.
Show ==
    /\ Received(Events) /\ hook.ready
    /\ view' = Reduced(view, Head(wire))
    /\ UNCHANGED <<server, room, ask, hook, shown, faults>>

\* A live event while a join is under way waits for its acknowledgement, and
\* is dropped on a page whose join failed.
Hold ==
    /\ Received(Events) /\ ~hook.ready
    /\ hook' = IF hook.joining
               THEN [hook EXCEPT !.queue = Append(@, Head(wire))] ELSE hook
    /\ UNCHANGED <<server, room, ask, view, shown, faults>>

\* The acknowledgement hydrates the page, and the held events follow it.
Hydrate ==
    /\ Received({"ack"}) /\ hook.joining
    /\ view' = Replayed(Hydrated(view, Head(wire), hook.replace), hook.queue)
    /\ hook' = [hook EXCEPT !.joining = FALSE, !.ready = TRUE, !.hydrated = TRUE, !.replace = FALSE,
                            !.queue = <<>>]
    /\ UNCHANGED <<server, room, ask, shown, faults>>

Refused ==
    /\ Received({"refused"}) /\ hook.joining
    /\ hook' = [hook EXCEPT !.joining = FALSE, !.queue = <<>>]
    /\ UNCHANGED <<server, room, ask, view, shown, faults>>

\* React renders what was dispatched and runs the effects whose input
\* changed: a new needsResync joins again from the beginning, unless a join is
\* under way or the connection is down, where the request throws.
Commit ==
    /\ shown # view.resync
    /\ shown' = view.resync
    /\ IF view.resync /\ ~hook.joining
       THEN IF hook.up THEN Request(hook, 0, TRUE)
            ELSE hook' = [hook EXCEPT !.ready = FALSE] /\ UNCHANGED ask
       ELSE UNCHANGED <<hook, ask>>
    /\ UNCHANGED <<server, room, wire, view, faults>>

-----------------------------------------------------------------------------
(* The backend process dies; the next one fails what was interrupted *)

Crash ==
    /\ faults.outages < MaxOutages
    /\ \E r \in Runs : run[r].pc \notin {"idle", "over"}
    /\ faults' = [faults EXCEPT !.outages = @ + 1]
    /\ durable' = [n \in Turns |-> IF durable[n].status \in Active
                                   THEN [Blank EXCEPT !.status = "FAILED"] ELSE durable[n]]
    /\ status' = IF status \in Active THEN "FAILED" ELSE status
    /\ run' = [r \in Runs |-> IF run[r].pc = "idle" THEN NoRun
                             ELSE [NoRun EXCEPT !.pc = "over", !.turn = run[r].turn,
                                                !.blocks = run[r].blocks]]
    /\ stream' = IF StoreSurvives THEN stream ELSE NoStream
    /\ hook' = Cut(hook)
    /\ room' = FALSE /\ ask' = NoAsk /\ wire' = <<>>
    /\ UNCHANGED <<view, shown>>

-----------------------------------------------------------------------------
Init ==
    /\ durable = [n \in Turns |-> Blank]
    /\ status = "none"
    /\ run = [r \in Runs |-> NoRun]
    /\ stream = NoStream
    /\ room = FALSE
    /\ ask = NoAsk
    /\ wire = <<>>
    /\ hook = [up |-> FALSE, joining |-> FALSE, ready |-> FALSE, hydrated |-> FALSE,
               replace |-> FALSE, queue |-> <<>>]
    /\ view = [msgs |-> [n \in Turns |-> Absent], resync |-> FALSE]
    /\ shown = FALSE
    /\ faults = [drops |-> 0, failed |-> 0, outages |-> 0]

RunStep(r) ==
    \/ ReadBrief(r) \/ Tell(r) \/ Open(r) \/ Begin(r)
    \/ FirstDelta(r) \/ NextDelta(r) \/ StartTool(r) \/ EndBlock(r) \/ Yield(r)
    \/ Complete(r) \/ Cancel(r) \/ Fail(r)
    \/ Validate(r) \/ Superseded(r) \/ Emit(r) \/ Finalize(r) \/ Cleanup(r)

JoinStep == JoinRoom \/ JoinRead \/ JoinSnapshot \/ JoinAck
PageStep == Show \/ Hold \/ Hydrate \/ Refused \/ Commit
Fault == Disconnect \/ JoinFails \/ Crash \/ \E r \in Runs : TellFails(r) \/ EmitFails(r)

Next ==
    \/ Send \/ Retry \/ Expire \/ Connect \/ JoinStep \/ PageStep \/ Fault
    \/ \E r \in Runs : RunStep(r)

Spec == Init /\ [][Next]_vars

FairSpec ==
    /\ Spec
    /\ \A r \in Runs : WF_vars(RunStep(r))
    /\ WF_vars(Connect) /\ WF_vars(JoinStep) /\ WF_vars(Commit)
    /\ WF_vars(Show \/ Hold \/ Hydrate \/ Refused)

-----------------------------------------------------------------------------
(* Properties *)

\* What a page shows of a generation is a beginning of what that generation
\* produced: no text of another generation, none lost, repeated or misplaced,
\* whatever was merged from the store, held during a join and received live.
Begins(shorter, longer) ==
    /\ Len(shorter) <= Len(longer)
    /\ \A i \in DOMAIN shorter :
         /\ shorter[i].id = longer[i].id
         /\ IsPrefix(shorter[i].text, longer[i].text)
         /\ ~shorter[i].open => shorter[i] = longer[i]

ShownIsProduced == \A n \in Turns :
    view.msgs[n].gen # 0 => Begins(view.msgs[n].blocks, run[view.msgs[n].gen].blocks)

\* A final outcome on the page is the one of the database, block by block: an
\* outcome is announced only after it is stored, and what the page merged
\* gives way to it.
OutcomeIsStored == \A n \in Turns :
    view.msgs[n].status \in {"COMPLETED", "CANCELLED"} =>
        durable[n] = [status |-> view.msgs[n].status, blocks |-> view.msgs[n].blocks]

\* The outcome of a run is not stored yet.
Unsettled(r) ==
    \/ run[r].pc \in {"open", "begin", "loop"}
    \/ run[r].pc \in {"store", "emit"} /\ run[r].event.kind # "ended"
    \/ run[r].then \in {"open", "loop"}

\* A page that shows a generation leaves it only when that generation is
\* settled, and only for a later one: no late event, held event or snapshot of
\* another execution of the same Assistant takes its place.
GenerationHeld == [][\A n \in Turns :
    LET old == view.msgs[n].gen
        new == view'.msgs[n].gen
    IN  old # 0 /\ new # old => ~Unsettled(old) /\ (new # 0 => new > old)]_vars

-----------------------------------------------------------------------------
(* Liveness *)

Quiet == \A r \in Runs : run[r].pc \in {"idle", "over"}
Agrees == \A n \in Turns : view.msgs[n].status # "none" =>
    /\ view.msgs[n].status = durable[n].status
    /\ view.msgs[n].blocks = durable[n].blocks

\* Once no execution is on and the connection stays up, whatever connections
\* were lost before, every Assistant the page shows becomes what the database
\* has: no answer stays open and none stays behind.  Nothing is promised when
\* an emission or a join failed, which nobody repeats.
HistoryPrevails == <>[](Quiet /\ hook.up /\ faults.failed = 0) => <>[]Agrees
=============================================================================
