# Auto Reign: specifications and proofs

Auto Reign is a self-hosted platform for chats with agents and for knowledge
collections: one FastAPI process with a Socket.IO namespace, MySQL, an object
store, Redis or process memory for live streams, Elasticsearch or Qdrant for
retrieval, and a Next.js client. This directory holds TLA+ modules of the parts
whose correctness depends on the order of things, the TLC configurations that
check them and, for all of these parts, proofs.

| module | models | section |
| --- | --- | --- |
| `KnowledgeIndex`, `PublishedDocuments` | the life of a knowledge document, and what readers of it are promised | 2 |
| `TaskExecution`, `TaskHistory` | requests, executions and outcomes of a Task, and what readers of it are promised | 3 |
| `TaskStream` | the way from an execution to a page | 4 |
| `AgentTurn` | one turn inside the runtime: budget, rounds, parallel tools, the stored result | 5 |
| `KnowledgeRetrieval` | one search while its documents change | 6 |
| `AgentHome` | files edited by a browser and by an agent's tools | 7 |
| `Resources` | transactions over rows that refer to one another, and drafts | 8 |
| `Lifespan` | the process: start, the gate of the namespace, the drain, stop | 9 |
| `Bootstrap` | the first start and the administrator's password | 10 |

`MCKnowledgeIndex`, `MCTaskExecution`, `MCTaskStream` and `MCPlatform` hold the
instances for TLC; `KnowledgeIndexProofs`, `TaskExecutionProofs`, `TaskStreamProofs`,
`TaskStreamTextProofs`, `AgentTurnProofs`, `KnowledgeRetrievalProofs`,
`ResourcesProofs` and `PlatformProofs` (of `Lifespan`, `Bootstrap` and `AgentHome`)
the theorems. `PROJECT.json` maps every definition to the
lines it models and lists the runs, the mutants that each property must reject,
the hazards, the findings and the theorems.

    tlasany M.tla                                    parses a module
    tlc -workers 2 -config X.cfg M                   checks a configuration
    tlapm M.tla                                      checks the proofs of a module


## 1. The parts of the system

| part | state | operations | talks to | what is hard |
| --- | --- | --- | --- | --- |
| Knowledge documents and their index worker (`knowledge_document_service`, `knowledge_index_worker`, `knowledge_document_repository`, `document_operation_coordinator`) | `knowledge_documents` rows, source and parsed objects, retriever records, process-local locks | upload, reindex, rename, delete, claim, process, publish, clean up | MySQL, object store, retriever; the collection's row | three stores without a common transaction, claims that time out, superseded attempts, crashes between two calls |
| Task execution (`task_execution_service`, `task_execution_cancellation`, `task_repository`) | `tasks`, `subtasks` rows; one state object per Task in the process | send, retry, cancel, delete, rename; the generator of one turn; recovery at startup | MySQL; the runtime it streams from; the namespace that consumes it | reads and commits without locks, cancellation at the moment of the outcome, a consumer that gives up, unacknowledged commits |
| Chat namespace (`api/ws/chat_namespace.py`) | rooms, handlers, background executions | connect, join, leave, send, cancel, retry; run an execution; drain at shutdown | execution service, stream store, emitter | everything is concurrent with everything; failures on the way to the client |
| Stream store and emitter (`chat_stream_*`, `api/ws/emitter.py`) | the live entry of each Task: generation, text, blocks, cancel flag, time to live | start, append, upsert, validate, finalize, expire | Redis or memory | superseded generations, entries that outlive their process |
| Browser chat client (`useTaskChat`, `task-chat-reducer`, `SocketContext`, `socket-client`) | the messages shown, refs of the hook, held events | join and hydrate, reduce events, send, retry, cancel, reconnect | the namespace over one connection | lost connections, snapshots against live events, React's delayed commits |
| Runtime (`react_loop`, `runtime_event_reducer`, `agent_runtime`, context assembly) | the blocks and the message chain of a turn, the token budget | model rounds, tool calls, compaction | providers, tools | bounds on rounds and tokens, unresolved tool calls |
| Subtask contexts | draft and bound attachments | upload, bind, delete | MySQL | one draft bound once |
| Knowledge retrieval | none of its own | scope, search, authoritative reading | retriever, rows, parsed objects | a document republished in the middle of a query |
| Collections, agents, workspaces | `resources` rows | create, update, close, delete | each other by reference | references to what is being deleted |
| Agent home and object stores | files of an agent, ETags | list, read, conditional write, delete | local disk or S3 | check and replace in two steps |
| Users, sessions, bootstrap | `users`, token versions | set up once, log in, administer | MySQL | two first requests; the last administrator |
| Extraction and chunking | none | extract, split with overlap | - | arithmetic at the edges |
| Process lifecycle | worker thread, namespace, start script | start in order, drain, stop | all of the above | a stop in the middle of a start |
| HTTP routes, configuration, pages, deployment, scripts | none that matters here | - | - | - |

What makes each of them correct:

* **Documents.** Search never uses a document whose records are not exactly the
  chunks of the parsed text its row names. A deletion reported complete left
  nothing and nothing comes back. An acknowledged source is never lost. Every
  queued document is settled, and every DELETE answered.
* **Execution.** One Assistant of a Task is generated at a time. A
  cancellation that is accepted before the generation in progress has claimed
  its outcome decides it; a later "accepted" promises nothing (section 3).
  Outcomes are final; only a FAILED one is generated again, in
  place. What the client is told is in MySQL. `message_id` orders messages.
* **Stream and client.** What a page shows of a running answer is a beginning
  of that answer; an outcome it shows is the stored one; late events of another
  generation change nothing; in the end the page shows what MySQL has.
* **Runtime.** The model is called with as much of the history as fits and
  never with more than the budget; the order in which tools answer never makes
  a turn fail; what is stored is what was shown, or as much of it as fits the
  limits of a result, with nothing left open.
* **Retrieval.** Sources come from the frozen scope, at the generation that was
  published when it was resolved; the best one comes first; `no_match` and every
  error say what is the case.
* **Agent home.** A conditional write replaces what its ETag names; AGENTS.md is
  never lost; nobody overwrites a text that was not shown.
* **Resources and contexts.** An active agent refers only to active rows; a
  draft is bound to one turn; requests that wait for one another in a circle are of
  the two kinds that section 8 names.
* **Process.** Every accepted request ends with a settled Assistant, and no
  store is closed under its user.
* **Bootstrap.** One administrator, every seed once, one setup of the password.


## 2. Knowledge documents: `KnowledgeIndex`, `PublishedDocuments`

### Correspondence

| in the module | in the code |
| --- | --- |
| `row` | a row of `knowledge_documents`; `stale` stands for "`updated_at` is older than the processing timeout", `parsed` for the generation in `parsed_object_key` |
| `collection` | the collection's row in `resources`: chunk configuration, active, deleted |
| `source`, `parsed[d][g]` | objects under the document's keys |
| `chunks[d][g]` | the retriever's records of one generation, upserted by index |
| `work[w]` | the locals of `run_once` between two calls |
| `req[r]` | the locals of the DELETE request |
| `lock` | `DocumentOperationCoordinator`, one lock per hash shard |
| `build` | the extractor of the running process: another deployment may extract another text |

A database transaction is one action: those of this component lock the rows
they decide on (`FOR UPDATE`, or a conditional `UPDATE` whose count is looked
at). Each call to the object store or the retriever is an action of its own and
may fail before, in the middle of or after its effect (`PartOf`). A commit may
fail or succeed unacknowledged. A restart forgets threads, locks and requests.
`claim_next` uses `SKIP LOCKED`, so any claimable document may be returned.

Left out: the status "uploaded", which is never committed; the branch of an
upload whose key already exists, which a fresh UUID excludes; the references of
agents that closing a collection checks (they are in `Resources`); the retriever's refresh and its version
conflicts, which the coordinator excludes within one process; content hashes,
whose mismatch is one of the failures of reading a source.

### What it is checked against

`PublishedDocuments` is the abstract view of readers: a document is published
one whole generation at a time, its content never changes in place, a withdrawn
generation never returns. `View` maps the rows and stores to it, and `ViewSpec`
says that every behaviour of the program is one of the abstract module.

| run | shows | bounds |
| --- | --- | --- |
| `index_faults` | `PublishedContent`, `DeletedLeavesNothing`, `AcceptedSourceKept`, `NoMutationOfPublished`, `ViewSpec` with two workers and a DELETE, failing stores and one outage | 1 document, 2 texts, 2 generations, 2 identities; 1,036,000 states |
| `index_two_docs` | `ClosedCollectionIsEmpty`, `NoLeftovers` with two documents on one lock shard and two configurations | no failures; 133,218 states |
| `index_liveness` | `EventuallySettled`, `DeleteAnswered` | 1 document, 1 worker (operations of two documents on one lock shard are in `index_two_docs` only, without liveness); 97,216 states |
| `index_failed_upload` | a finding, see section 12 | |

The shipped process has one worker. Two are checked because the attempt identity,
the disposition checks and the lock are written for more than one, and because
a late attempt of a claim that was taken over is what they are there for. Two
texts are needed for two builds that disagree, two generations for a superseded
and a later one; a third would repeat them. Identities are recycled once no row
and no thread holds them: one for a row and one for a worker whose claim was
taken over suffice for any number of attempts, except for a claim whose
acknowledgement is lost while another worker is late and which is then taken
over as well. `index_two_docs` has three identities, and the theorems of
`KnowledgeIndexProofs` hold for every set of them.

Fairness (`Fairness`): the worker thread and the request threads keep running.
It is strong, because they wait for a lock that others take again and again (a
Python lock is not a queue), and because a rename can put a stale claim off
between two polls. Time passes. Nothing is assumed of owners, outages or
restarts. With two workers that are both slower than the timeout, claims could
be taken over for ever, so the liveness run has the one worker that is shipped.

### What is proved: `KnowledgeIndexProofs`

For all documents, workers, requests, identities, texts, configurations, lock
shards, generations and failures, under the named assumptions of
`KnowledgeIndex` (identities differ from their null values, workers are not
requests, `Size` gives at least one chunk) only:

| theorem | states |
| --- | --- |
| `Invariance` | `Spec => []IInv` |
| `TypeCorrect` | `TypeOK` |
| `PublishedContentAlways` | `PublishedContent` |
| `DeletedLeavesNothingAlways` | `DeletedLeavesNothing` |
| `AcceptedSourceKeptAlways` | `AcceptedSourceKept` |
| `ClosedCollectionIsEmptyAlways` | `ClosedCollectionIsEmpty` |
| `NoMutationOfPublishedAlways` | `NoMutationOfPublished` |
| `ViewRefined` | `Spec => ViewSpec` |
| `NoLeftoversAlways` | `NoLeftovers`, if `MaxOutages = 0` and `~StoreFaults` (`NoFaults`) |

None of these formulas is inductive. Even the type of `chunks` needs to know
that a worker about to upsert carries a text. `IInv` is

    TypeOK /\ \A w : WorkerInv(w) /\ \A r : DeleterInv(r) /\ \A d : DocInv(d)

`WorkerInv` says what a worker may rely on at its stage: between a check and the
mutation that follows it the lock is held, so that the claim may have been
superseded but the generation cannot have been published by anyone else nor its
projection touched; after the deletion the generation's records are empty; before
publication they are exactly the chunks of the text it carries, and the parsed
object is that text. `DeleterInv` says the same of a DELETE: the document stays
isolated and what it deleted stays deleted. `DocInv` relates a row to the stores
and the collection.

The proof is layered: lemmas about what an update of a row may do (`RowKeeps`,
`OpenChange`); type lemmas; frame lemmas, which say that a step of one actor
preserves the invariant of every other, because they exclude each other by
document (`LockedStep`, `LockedFrame`) or because the step changes only what a
change from outside the lock may (`OpenStep`, `OpenFrame`); one lemma for each
group of actions; `InitInv`, `StutterInv`, `NextInv`; `InvSafe`, which derives
the properties. About 2,100 obligations.

Its second part shows, in about 600 more, that the component implements
`PublishedDocuments`. `IInv` carries the argument: what a worker does to the
stores is not seen, because the generation it mutates or clears is not the
published one (`NoMutationOfPublished`) and the cleanup after a publication is
about the generations before it (`WorkerStoreSeen`); what is published is the
whole of one text under the present configuration, because `DocInv` holds after
the step (`PublishSeen`); a change of the configuration renews exactly the
documents that readers have, because an active row exists (`ReconfigureSeen`).
Insertion, publication, failure, reindexing and isolation are the abstract
`Create`, `Publish`, `Fail`, `RenewOne` and `Delete` (one lemma each), and every
other step is a stutter: a claim, a rename, an upload's other steps, a repeated
deletion, a cleanup, a restart.

Its third part is about what a worker leaves behind. `NoLeftovers` is promised as
long as no call fails (every cleanup of the code is best effort, its errors are
logged and nothing retries it), which is `NoFaults`, the hypothesis of
`NoLeftoversAlways` and the instance of `index_two_docs`. It speaks of documents
that no worker is at; `LeftInv` says what holds while one is:

* `Settling`: a document is not ready and not failed while a worker is between a
  check and the mutation it allows, even if a reindexing has replaced the
  generation it mutates; so only a document that owes nothing is written to;
* `FutureClean`: generations after the row's are untouched;
* `OlderSwept`, `FailedSwept`: an older generation of a ready document, or the
  generation of a failed one, is clean or a worker that holds the present
  generation is still to clear it (`SweepsOld`, `SweepsOwn`), the chunks after
  the parsed object.

The steps fall into four kinds, a lemma each: those that make no document owe
anything (`CalmLeft`), of a sweeping worker (`SweepLeft`), of a mutating one
(`GrowLeft`), and those that publish or mark as failed (`SettleLeft`), where the
lock excludes a second mutating worker. That the worker which published does not
leave before it has cleared, although it reads the row again first, is
`PublishedDoc` of `IInv` (`CheckPublishedLeft`).

Model-checked only: liveness, which needs ENABLED and fairness that this prover
does not handle.


## 3. Task execution: `TaskExecution`, `TaskHistory`

### Correspondence

| in the module | in the code |
| --- | --- |
| `task`, `turn[n]` | the row of `tasks` and the User and Assistant rows of one turn |
| `reg`, `object` | `TaskExecutionCancellationRegistry._by_task` and its `TaskExecutionState` objects, compared by identity |
| `run[x]` | one request, then the generator `execute` it leads to; `seen` is the status the ORM loaded, because it writes a column only when it differs |
| `stream` | the entry of the stream store (whose Assistant is live) and the `chat:cancel` handler that has flagged one and is about to ask the registry |
| `accepted` | history: turns whose cancellation was accepted before their outcome was claimed |
| `Overlap` | the kinds of request that may be sent before the previous one is prepared |

The transactions of this component lock nothing (READ COMMITTED): each is a read
and a later commit, two actions. `prepare_send` is three: the status check, the
read of the last `message_id`, the commit. A generator is advanced or closed at
its yields; a commit fails or succeeds without being acknowledged; the process
dies and `recover_interrupted` runs before the next one serves. The events a
turn yields in between change nothing here; they are the subject of
`TaskStream`. State objects nobody references are recycled.

`chat:cancel` flags the entry of the stream store and then asks the registry, and
answers `accepted` if either took it (`chat_namespace.py:278-308`): `FlagEntry`,
`AnswerCancel`. The registry refuses once `claim_terminal` has decided the
outcome; the store accepts until the entry is finalized. So between the two, and
on an entry that a dead or superseded execution has left, a client is told
`accepted` for an Assistant that may be COMPLETED. No document promises more, and
`CancelHonoured` does not either: it speaks of what was accepted while the
generation had not claimed its outcome. Nor need the Assistant that the answer
names be the one that is cancelled: the answer takes `subtask_id` from the entry
it has flagged, while the registry cancels the generation it has by then, which
may be the next one; that one counts as accepted too. The cancel flag is also
read by `run_execution` after each event, which then asks the registry as well
(`Cancel`).

`TaskHistory` is the abstract promise to readers of a Task: one generation at a
time, the status of the Task is that of its generation or its outcome, COMPLETED
and CANCELLED answers never change.

| run | shows | bounds |
| --- | --- | --- |
| `task_serial` | `OneGeneration`, `CancelReachable`, `CancelHonoured`, `MonotoneMessages`, `EventIsDurable`, `HistorySpec` when requests do not overlap, as the pages send them | 2 threads, 2 turns, 2 outages, one `chat:cancel` handler at a time between its two questions; 1,145,554 states |
| `task_sends` | `OutcomeIsFinal` although two sends overlap, and `EventuallySettled` for each of their Assistants | 2 turns, no outage (what it says of COMPLETED and CANCELLED is checked with outages by `HistorySpec`), no entries in the stream store (`Entries = FALSE`: a cancellation only asks the registry); 725,137 states |
| `task_overlapping_sends` | a finding, see section 12 | |

Two threads are one execution that is still discarding its state and the next
request; a third can only be a second request, which `Overlap` is about. One
backend process is what `docs/operations/production.md` allows.
`CHECK_DEADLOCK FALSE`: users may stop sending, and turns are bounded.

Fairness: a thread that prepares or executes goes on; model calls have a
timeout and rounds a bound. `EventuallySettled` is checked without outages,
because after a failed fallback the Assistant stays active until the recovery of
the next start (`docs/architecture/platform.md` leaves it to that), and nothing
makes an operator restart. It also supposes that a partial result can be made: a
turn that `AgentTurn` calls `RAISED` (section 5) leaves `execute` with an error
before it has claimed an outcome, no fallback runs (`task_execution_service.py:403-414`,
an exception inside the handler of another), and the Assistant stays active until
the next start.

### What is proved: `TaskExecutionProofs`

For any number of threads, state objects, turns and outages, from
`StateAssumption` (`NoState` is not a state object), `BoundAssumption` (the bounds
are numbers) and `Overlap = {}` (a request is sent when the previous one is
prepared): `TypeCorrect`, `OneGenerationAlways`, `CancelReachableAlways`,
`CancelHonouredAlways`, `MonotoneMessagesAlways`, `EventIsDurableAlways` and
`HistoryRefined`, which is `Spec => HistorySpec`: every step of requests,
executions, failed transactions and restarts is a step of `TaskHistory` or none.

None of them is inductive: that a cancellation reaches the open generation
depends on nobody else holding its state object, that one generation is active
on the reads of a request still being true when it commits. `SInv` says so:

* `TurnInv`: turns are numbered without a gap, the messages of turn `n` are
  `2n - 1` and `2n`;
* `TaskInv`: the status of the Task is that of the one active Assistant, and is
  terminal when there is none;
* `Alone`: one request is being prepared; one thread owns the active Assistant
  (`Owning`: from its commit until its outcome is committed); the registry's
  object is that of the open generation, and no other thread holds it;
* `RequestInv`: what a request has read is still true, in particular that no
  Assistant is active and that the last message is the last one;
* `OwnerInv`, `OutcomeInv`: what an owner may rely on at each stage, * `OwnerInv`, `OutcomeInv`: what an owner may rely on at each stage, that the
  cancel flag of the state object says whether the cancellation was accepted
  before the outcome was claimed, and that what is told is what is stored.

The proof has three frames: a step that changes only its own request or
execution (`RunFrame`), a commit that makes an Assistant PENDING when none is
active (`StartFrame`), a commit of the owner (`OwnedFrame`). Each action of a
request or an execution is brought under one of them in a lemma of its own; the
registry's steps, the deletion and the restart change what others read and are
proved conjunct by conjunct. `SInv` is an invariant of `task_serial`'s instance
too. With overlapping sends the invariant does not hold (section 12 shows what
then happens to `MonotoneMessages`), and `OutcomeIsFinal` and `EventuallySettled`
stay with TLC.


## 4. From the execution to a page: `TaskStream`

### Correspondence

| in the module | in the code |
| --- | --- |
| `durable`, `status` | what MySQL has of the Assistants and the Task |
| `run[r]` | `run_execution` and the reducer behind it; `pending` are the emissions of one runtime event, `pc` the await it is at |
| `stream` | the entry of the Task in `MemoryChatStreamStore` or `RedisChatStreamStore` (`StoreSurvives`) |
| `room`, `ask`, `wire` | membership of the Task room, the `task:join` handler, and the server's messages on the page's connection, in order |
| `hook`, `view`, `shown` | the refs of `useTaskChat`, the state of `task-chat-reducer`, and `needsResync` as of React's last commit |

Text is a sequence of numbered units, so that a unit lost, repeated or out of
place is visible. Every await of the backend ends an action: the room is
entered, then the rows are read, then the entry, then the acknowledgement is
sent, and the execution goes on in between. The page is faithful to what React
batches: events are reduced when they arrive, effects run at the commit.

Abstractions: the page watches, and requests come from other pages one after
the other; the wire is FIFO, as one WebSocket is; the two copies of a Task status
(Task room and user room) are sent together; the cursor of a reconnection is
taken from the current messages, because the delay before a reconnection lets
React commit; a failure of the store on a streaming event is one with a failed
emission; entries expire only when nobody writes to them (the time to live is
renewed by every event, and calls have shorter time limits); one tool at a time
is open. Left out: the page's own sends (optimistic messages, adoption of a new
Task), its cancel and retry, its display of the Task status, leaving, join
timeouts, the status snapshot of compaction.

| run | shows | bounds |
| --- | --- | --- |
| `task_stream_faults` | `ShownIsProduced`, `OutcomeIsStored`, `HistoryPrevails` with a dropped connection, a failed emission or join, and a process that dies with its memory store | 1 execution, 2 units, 2 blocks; 603,013 states |
| `task_stream_generations` | `GenerationHeld` over two executions of one Assistant, the second a retry, with an entry that survives a crash in Redis | 1 turn, 1 unit, 1 text block, 2 events in flight; 826,536 states |
| `task_stream_restart` | a finding, see section 12 | |

Two units in two blocks give every position a merge can be wrong at: inside a
block, across blocks, after a tool. Two events in flight are needed for one that
is held by a join while a retry starts. `MaxInFlight` bounds the wire and the
held queue by making the emitter wait; the handlers it can delay wait for a real
socket as well. `CHECK_DEADLOCK FALSE`: everything may have been said.

Fairness: executions, join handlers, the connection's retry, delivery and React
go on. Users, expiry and faults are free.

`HistoryPrevails` supposes that no emission and no join failed: nobody repeats
them, so nothing can be promised. It is checked for one execution, because with
two a further case appears that the code leaves open (section 12).

### What is proved: `TaskStreamProofs` and `TaskStreamTextProofs`

For any number of turns, executions, units and blocks, any bound on what is in
flight, and either kind of store, from `BoundsAssumption` (the bounds are numbers):
`StreamTypesAlways`, `OutcomeIsStoredAlways` and `GenerationHeldAlways` from
`StreamInvariance`, and `ShownIsProducedAlways` from that and `TextInvariance`. No fault is excluded: crashes, expired entries, failed
emissions and joins, lost connections.

None of the properties is inductive. A message that shows COMPLETED got there by an
event that was on the wire, held in the queue, or by rows that a join read long
before; a generation is kept although a start of an earlier one may be under way.
`StreamInv` says why that cannot happen:

* `OneByOne`: executions follow one another; the one whose outcome is not stored
  is the last, and the Task and its Assistant are active meanwhile;
* `RunInOrder`: what each stage of an execution implies (`Stages`): whose events
  it holds, and when some are pending;
* `StreamInOrder`: the entry of the store is that of the generation under way, and
  has as much text as was counted, or one unit less while a chunk is pending;
* `EventHolds`, `EntryHolds`, `RowsHold`, `ViewHolds`: what events, entries, rows
  and the page say wherever they are: a start was announced (`Announced`), an end
  is settled and stored (`Settled`, `Stored`);
* `NotBehind`: a snapshot that was taken is not behind the page that waits for it,
  and has the generation it shows while that is not settled;
* `InOrder`: starts and snapshots reach the page in the order of generations, on
  the wire, from the queue before it and from what is shown before both;
* `OneAnswer`: the page waits for one answer at a time, and holds events only then.

The argument has three parts. What events, entries, rows and the view say is
never undone by the server (`Grows`: one lemma for each of them says it still
holds), so a step of an execution concerns the page only by what it sends
(`PageSame`, `PageSent`). What the reducer makes of an event is one relation,
`Applied`, whatever the kind of the event; the replay of held events and the
hydration lead to views that are `Reached`, by taking the first that is not. And
each stage of an execution is brought under one of a few frames (`RunMoves`,
`MovesAlone`, `WritesKeeps`, `AcceptKeeps`, `ConcludeKeeps`), which leave the
facts about its event and entry to prove.

`ShownIsProduced` is about the text itself: no unit lost, repeated or misplaced
between the execution, the entry, the rows, the queue, the wire and the page.
`TextInv` adds to `StreamInv`:

* `RunText`, `StreamText`: the blocks of an execution are numbered, only the last
  is open, and its units follow one another; the entry mirrors them, except for
  the text of its open block and for what is pending. Hence what
  `reconcileSnapshotBlocks` makes of an entry, the cached units after those of its
  closed blocks, is a beginning of the blocks (`MirrorIsText`);
* `Said`: what an event says of a block is so for good, at its offset, and was
  stored before it was emitted;
* `Listens`: an event finds the blocks before its own. They are on the page, in
  the entry a join has read, or among the events on their way before it
  (`Sequenced`, `Precede`). A join that has asked expects all of them from the
  wire or from an entry read after it is in the room; a page that is out of the
  room gets nothing an execution sent without the refusal behind it that drops
  what it holds (`Doomed`);
* `Reaches`: the rows of a join cover every message whose generation the page
  shows, and what it knows has no gap, so that the reconnect cursor skips nothing.

A step of an execution changes what is on its way only at the end of the wire
(`SequencedMore`), a step of the page only at its front (`SequencedNext`), and the
replay of held events is a walk along both (`TextReached`). What the reducer
makes of an event is again one relation (`TextReduced`).

`HistoryPrevails`, which is liveness, stays with TLC.


## 5. One turn of the runtime: `AgentTurn`

| in the module | in the code |
| --- | --- |
| `history`, `RenderTurn` | stored turns and what `project_history` and the assembler make of them: completed chains, partial values, contexts |
| `Prepare`, `OpenTurn` | `prepare_turn` in the request, `stream_turn` in the execution: the turns are selected twice, because AGENTS.md is read only the second time |
| `node`, `graph` | the LangGraph loop: the guard before each model call, the agent node, the tool node |
| `stream`, `Provider...` | the accumulator of `model_service`: text, reasoning, fragments of calls, an end or a break |
| `Share`, `FitResult` | the token shares of parallel calls in `react_loop` and `langchain_tool_adapter` |
| `events`, `TakeEvent` | what the suspended loop yields, and `execute` that feeds `RuntimeEventReducer` |
| `BlockFits`, `Oversized` | the JSON limits of a block whenever it changes (`chat_blocks.py:289`), of arguments (`_copy_tool_call`), of a text that is no valid Unicode, and of the result of a success (`finish_success`) |
| `FitsJson`, `PartialResult` | `validate_result_envelope`, and the cut of the value and the loop of `partial_result` that drops blocks from the end until the result fits |
| `outcome` | status, code and stored result, from `finish_success` or `partial_result` |

A text is its token count, its length and whether it is blank; the counter is a
sum with the same terms as the code's, including what it leaves out (a preamble
is not counted in the shares) and what it adds (`Slack`: a message counted alone
carries its wrapper).

The limits of `json_safety.py` (64 levels, 50,000 nodes, strings of 1,000,000
characters, 4 MiB) are `MaxDepth`, `MaxString` and `MaxJson`. Arguments are a
weight and a depth; nodes and bytes are one weight, since both add up over what a
value contains; the fixed keys and identifiers of a block or a message weigh
nothing; a text has as many characters as bytes; one that is no valid Unicode is
refused where a text that is too long is, and is modelled as one; a source weighs
one. The depths are the code's: data is one level deeper in its block and three
in the result, so that arguments of some depths pass the first check and fail the
second. The limits of the chain (256 messages, 128 calls) cannot be reached by 16
rounds of 8 calls. All of these errors become `runtime_output_invalid`
(`_safe_execution_error_code`).

Closing an open block adds to it that it was interrupted, and a block next to a
limit has no room for that: then `partial_result` raises, and `execute` with it
(`RAISED`, see section 3). What the properties call shown is what the reducer
holds; that may be one event more than what was emitted, if the turn is stopped
between the two.

Properties: `RefusedOnlyForCause` (a turn fails as `runtime_output_invalid` only
for a reused call id, a blank answer or a limit, in whatever order the tools
answer; and what one call was accepted to answer is accepted as input of the
next), `ResultIsWhole` (what is stored fits the limits; its blocks are a closed
beginning of the reducer's and its value their text, cut; anything missing would
not have fitted; a completed turn stores everything), `ResultsFitWithoutPreamble`,
`SelectionIsCurrent`. Left out: wording of prompts and notices, deduplication of
capability sources, JSON schemas of tools, compaction's status line.

### What is proved: `AgentTurnProofs`

For all call ids, histories, texts, results, sizes and bounds under
`TurnAssumption`: sizes are numbers; a text delta is not empty, because
`_content_delta_parts` (`model_service.py:552-581`) drops empty ones, and a call
has an id, because the accumulator (`model_service.py:84-91`) refuses one
without; a stored turn has a user's message.

| theorem | states |
| --- | --- |
| `TurnInvariance` | `TurnSpec => []TurnInv` |
| `TurnTypesAlways` | `TurnTypeOK` |
| `SelectionIsCurrentAlways` | `SelectionIsCurrent` |
| `ResultIsWholeAlways` | `ResultIsWhole` |
| `RefusedOnlyForCauseAlways` | `RefusedOnlyForCause` |
| `ResultsFitAlways` | `ResultsFitWithoutPreamble` |

`TurnInv` has two halves, as the code has two machines that only share events.
`ReducerInv` holds of the reducer whatever it is sent, since it refuses the
rest: what is shown is what was said (`Whole`), each started call has one block
and an unanswered one waits (`Tidy`), and the chain satisfies what
`validate_messages_chain` asks of it as soon as no call is open (`Chained`,
from which `ChainIsValid` gets `ValidChain`). `LoopInv` is about the
suspended generator: the order of the events it has yet to yield (`Queued`), the
messages of the graph (`Graphed`), and `InStep`, the heart of it: what the
reducer has been told, with what the queue and the pending message will tell
it, is what the loop did. `pending` makes this hard: the assistant message and
its `tool_start`s are only told when the first of the parallel answers arrives,
so that until then ids are running that the reducer has not heard of. Each
refusal of the reducer then contradicts `InStep` (`AssistantAccepted`,
`StartAccepted`, `ResultAccepted`), unless the provider used an id twice or the
event is `Oversized`; a success is refused for a blank answer or its size
(`RefusedByTaking`, `RefusedForCause`). For `ResultIsWhole`, `PartialIsWhole` says
what the loop of `partial_result` leaves: blocks are kept up to the greatest number
that fits (`GreatestIsThere`), and the empty result always fits (`EmptyFits`); it
holds as well with the empty text that a refused delta leaves behind (`SameStart`,
`LeftoverIs`).
`InShares` bounds the answers of a round by the shares of those that are no
longer running; `SharesAddUp` turns it into `ResultsFitWithoutPreamble` with the
arithmetic of `//`. It only holds while the calls of the message are bound: the
notice that answers an unbound one is not measured against its share.

The first attempt was not inductive: the invariant had to say besides that the
node `tools` comes with a message, that a graph at its `end` ends with a message
without calls, and that an `assistant` event never waits while the provider
streams. And the bound on shares was false where a call names a tool that is
not bound, which the property excludes and the invariant did not. About 5,000
obligations; lemmas over sequences conclude in a named relation (`Joined`, `Longer`,
`Yielded`, `Rest`), because SMT would expand the sequence operators where the
lemma is cited.


## 6. One search: `KnowledgeRetrieval`

`documents`, `parsedKeys` and `points` are what a search can observe of
`KnowledgeIndex`: rows, parsed objects, and records with the name they were
indexed under. `search` is one call of `search_knowledge`: the scope is resolved
in a transaction, parsed texts are read one by one as long as they fit
(`ReadDirect`), otherwise each collection's retriever is asked (one or, for
hybrid retrieval, two calls), each hit is checked against the parsed text
(`ValidateHit`), and the candidates are ranked, cut and fitted. Every access to a
store is an action, and between any two of them one document is claimed,
published, renamed, reindexed, isolated or deleted step by step.

A store may return any set of best records (ties are free); scores are quarters;
a few scorings, ties and orders reversed, are enumerated. `ErrorsAreExplained`,
`SourcesInScope`, `BestSourceFirst` compare the answer with a definition of what
matches (`Relevant`) that does not use the search. `BestSourceFirst` speaks of
vector and keyword retrieval; in hybrid retrieval a record outside both `top_k`
lists is not seen, which is the meaning of `top_k`. Its last part is about a
chunk only if every chunk that its collection ranks as high would fit on its
own: the attempt to prove it without that failed, and TLC found the instance
(now the question with three tokens): of two chunks that score the same,
`top_k = 1` keeps one that does not fit, and the next source is a worse one,
although the chunk left out would have fitted.

### What is proved: `KnowledgeRetrievalProofs`

For all documents, collections, scopes, configurations, scores, sizes and limits
under `SearchAssumption` (documents and chunks are finitely many; sizes and
scores are numbers; `top_k` and `knowledge_max_results` are positive and the two
weights not both zero, as `schemas/knowledge_collections.py:66`,
`core/limits.py` and `core/config.py` require) only:

| theorem | states |
| --- | --- |
| `SearchInvariance` | `SearchSpec => []SearchInv` |
| `SearchTypesAlways` | `SearchTypeOK` |
| `SourcesInScopeAlways` | `SourcesInScope` |
| `ErrorsAreExplainedAlways` | `ErrorsAreExplained` |
| `BestSourceFirstAlways` | `BestSourceFirst` |

The argument has three layers. The first is about the operators, of which the
retrieval is made: a finite set has exactly one sequence in a strict order
(`Ordered`, by induction over its size), resolved scopes hold every ready
document once (`ResolvedIs`), the documents of all groups follow one another
without a repetition (`AllDocumentsIs`), and the greedy choice takes sources of
the sequence in their order, none of them later than a candidate that fits on
its own (`FittedIs`, `Chosen`). The second is `Aged`: no change of the documents
takes back what a search relies on. A generation that was published has passed
for ever, its records keep the name they were written with, and a document that
is gone or misnamed stays so until the call ends (`DocumentsAge`, one lemma per
change). With it, `SearchInv` is inductive: what was resolved was published then
(`ScopeInv`), hits and candidates are records of the scope, each once
(`StageInv`, `CandidatesInv`), and whatever is refused is refused for a reason
that still holds at the end. The third is `CoverInv`, which `BestSourceFirst`
needs: every chunk that matches has a candidate or a pending hit of its own
collection that scores at least as high and itself matches (`Stands`,
`Covered`). A store keeps it although it is free among equals (`BestStands`), a
batch of keyword scores keeps it because the best of the batch is the best of
the collection, so that both are divided by the same number (`KeywordsAre`), and
it survives disturbances because it claims nothing of a disturbed scope
(`UndisturbedBefore`). About 3,900 obligations.


## 7. Files of an agent: `AgentHome`

`content` is the store of one Agent Home (both backends), `shard` the locks of
the object store, `writing` the temporary files of the local one, `request[c]`
the request of a browser or the tool call of an agent with the stage it is at:
AGENTS.md is ensured, the operation is done, what was written is read back. An
ETag is computed from the content, so it is modelled by the text it stands for
(two writers of the same text are not told apart, as in the code). A listing of
the local store takes no lock while it walks. A put may fail; on S3 also after
the object was replaced. Listings change nothing and no property is about what
they answer: they are modelled because a browser's listing ensures AGENTS.md
first, and what they show on the local store is among the observations
of section 12.

`WritesAsAnswered`, `OverwritesWhatWasShown`, `RootStays`. A tool is deliberately
absent from the second: see section 12.


## 8. Rows that refer to one another: `Resources`

A request is a sequence of numbered statements that lock rows (`Statement`):
the row it is about, what it refers to, the documents collection by collection,
the Task that is sent to, and last the drafts or the new name. A retry is
different: `prepare_retry` writes its Task and its Assistant
(`reset_failed_assistant` flushes, `task_repository.py:317-324`) before it locks
the agent and what the agent refers to, while `prepare_send` writes the same Task
(`create_turn`, `task_repository.py:174-177`) after that. Each statement locks its
rows from the lowest id up, the checks of each row follow once the statement has
returned (`RowValid`), then comes a commit or a rollback. InnoDB at READ
COMMITTED: `FOR UPDATE` and `UPDATE` wait, `FOR UPDATE` then reads what is
committed, other reads wait for nothing. A new name holds its entry of the unique
index. A created row has a new id (`Fresh`). Transactions are begun in the order
of their numbers, which loses nothing because they are alike.

A row of `TaskRows` stands for the row of `tasks` and the rows of `subtasks` that
are written with it. A send that creates its Task writes no row that others see; a
turn of a Task without an agent locks no agent and nothing it refers to, and is
not a request of this module; the transactions of an execution write the rows of
their Task and lock nothing else, so that they can only be waited for. What is
checked of a Task, and what becomes of it, is in `TaskExecution`.

`ReferencesAreLive`, `TurnHasItsDrafts`, `CirclesAreOfTwoKinds`. The last one says
which transactions can wait for one another in a circle. A create flushes its new
name before it locks what it refers to, an update flushes a new name after: one
kind. A retry of a FAILED Assistant holds the Task and waits for the agent while a
send to the same Task holds the agent and waits for the Task: the other, of rows
alone. InnoDB breaks either by choosing a victim, whose request fails with an
error and changes nothing; the property says that there is no third kind. The
order that the other requests keep (agent, referenced resources, documents, Task,
drafts) is the code's: `docs/architecture/platform.md:67` only says that chats
take no extra lock of a Task and that resource operations keep the order of their
services. The creation of workspaces and collections locks only a name and is left
out; so are lists and roles beyond the owner's.


## 9. The process: `Lifespan`

`phase` is where `lifespan` of `main.py` is; `gate` is `_shutting_down` of the
namespace; `handler[c]` a handler between two awaits, `execution[c]` the
background task, `turn[c]` what MySQL has of its Assistant; `indexer` the thread
of the knowledge worker. Any step of the start may raise, the cleanup runs every
stage whatever the one before did, a handler may be cancelled at any await
(which waits for the thread of `prepare_send`), and the process may die at any
point. `NothingLeftBehind` relates them.


## 10. The first start: `Bootstrap`

Processes race through `ensure_initialized`: read, insert the administrator
(waiting for the uncommitted insert of the other), the seeds, one commit; on an
IntegrityError look again in a session of its own. They may die anywhere and
start again. Then the password is set once, under the row lock, and seeds are
renamed and deleted. `InitializedOnce`.


## 11. The run `platform`, and the proofs of its components

`AgentTurn`, `KnowledgeRetrieval`, `AgentHome`, `Resources`, `Lifespan` and
`Bootstrap` share no state, so `MCPlatform` checks one after the other in one run:
a behaviour is of one component, chosen at the beginning, and the others stay as
they began. 1,590,265 states together, some three and a half minutes with two workers.

| component | instance | why it is enough |
| --- | --- | --- |
| turn | 2 tool calls, 2 rounds, 3 histories, a budget of 15; 3 deltas, 3 results, 5 kinds of arguments | a round whose answers compete, one more round that must be valid after it, a history that fits, one that is cut and one that does not fit; a text and a result beyond `MaxString`, arguments that fit everywhere, fit a block and not the result, are too deep for a block or a call, or leave no room for the notice of an interruption (`LargeCallsBound`, `ReasoningBound`: only the first message has reasoning, or large arguments in its last call, in one history; the proof covers the rest) |
| search | 4 documents in 3 collections (own, public, another's), of which one changes; 2 chunks; 10 questions, 4 scorings | a question answered directly, by each kind of retrieval, refused for its scope and for its size; equal scores of chunks that fit and do not; the proof covers the rest |
| home | a browser and a tool, 2 files on one lock, 2 texts, 2 requests each | every pair of operations overlaps at every stage; the proof covers the rest |
| resources | 3 overlapping transactions from 14 requests over 2 agents, 1 workspace, 2 collections, 3 documents, 1 Task, 1 draft, 1 name | three can close a circle of three; both kinds of circle occur |
| lifespan | 2 events, 2 lives, 2 faults | one in each stage of the drain; the proof covers the rest |
| bootstrap | 2 processes, 2 seeds, 2 starts each | the proof covers the rest |

`CHECK_DEADLOCK FALSE`: a turn ends, a search is answered, and requests, lives
and transactions are bounded. `FirstIdBound` fixes the id of a turn's first tool
call: the turn only compares ids. No fairness: the properties are safety.
`search_renamed` is the same instance with the one property the code violates.

Proved, for every value of the constants under the named assumptions:

| module | theorems | from |
| --- | --- | --- |
| `PlatformProofs` | `HomeInvariance`, `WritesAsAnsweredAlways`, `OverwritesWhatWasShownAlways`, `RootStaysAlways` | `HomeAssumption`: the root is a file, null values differ from values, any function assigns keys to locks |
| | `LifeInvariance`, `NothingLeftBehindAlways` | nothing |
| | `BootInvariance`, `InitializedOnceAlways` | `NoProcessAssumption` |
| `ResourcesProofs` | `ResourceInvariance`, `ResourceTypesAlways`, `ReferencesAreLiveAlways`, `TurnHasItsDraftsAlways`, `CirclesAreOfTwoKindsAlways` | `RowsAssumption`: the kinds of rows are apart, and there is a last id; `TransactionsAssumption`; `RequestsAssumption`: a request is about a row of its kind, and the name of an agent is not the name of anything else; `FirstConfigsAssumption`: what agents refer to at the beginning is there |
| `KnowledgeRetrievalProofs` | see section 6 | `SearchAssumption` |
| `AgentTurnProofs` | see section 5 | `TurnAssumption` |

None of the properties is inductive. `HomeInv` adds that a put that holds its
lock still finds what its comparison found, although other clients write
meanwhile (`PutInv`: each lock names the put that holds it), that only a request
which is over or reads its own write has changed anything (`EffectInv`), and that
a browser has seen the text of every ETag it holds (`ShownInv`). The proof has a
frame lemma (`HomeFrame`: a step of one client disturbs no other, because it
changes no file under another's lock), a lemma for steps that only move a
request on, and one lemma per kind of step. `LifeInv` ties the phase to what may
still run (`PhaseInv`: from the moment the handlers are drained the gate is shut
and nobody is active, and so on down to the closed database) and each event to
its turn (`CallInv`). `ResourceInv` has
two halves. `TxnInOrder` and `LocksAreTaken` say that a transaction holds
exactly the rows of the statements it has made (`Taken`), lowest first, and that
the statements it skipped lock nothing. `ChecksAreKept` says that what was
checked of those rows is still so (`RowKept`): for a row's own columns because
the row is locked, and for a search over other rows (`InUse`, which locks none of
the agents it reads) because an agent that is about to refer to the row would
have to lock it. `CreationsAreFresh` keeps rows that nobody can lock yet apart.
The proof has one lemma for what a commit may not disturb in each other
transaction (`OthersLockTheSame`, `OthersStayValid`), and one for what it must
leave true of all agents (`CommitKeepsLive`). From the invariant,
`CirclesAreKnown` follows by taking the last row that anybody in a circle waits
for: whoever holds it would have to wait for a later one (`HeldBeforeNext`), by
the order of the rows (`Before`), unless it holds the name of a creation or the
Task of a retry. Its theorem assumes
`NoAgentIsReferredTo`, and needs it: `_lock_and_validate_references` locks
resources by id and looks at their type afterwards, so that a request that names
an agent where a workspace belongs holds that agent's row, out of order, until it
is refused (`agent_service.py:466-500`). `BootInv` says that the administrator and the seeds are
committed together and that whoever holds the name or the row has read what is
still true.


## 12. Where code and documents disagree

Each of these is a run that TLC refutes.

* `index_failed_upload`: the commit of an upload raises although MySQL committed;
  the compensation deletes the source, the row stays queued, and a worker that
  has read the source already publishes the document. `knowledge.md:74`
  excludes a failed step that leaves a record passing for ready.
* `task_overlapping_sends`: two overlapping sends commit turns with equal
  `message_id`s; `platform.md:28` calls it monotone. (A Task with an agent is
  spared: `resolve_for_turn` locks the agent's row before the last id is read.)
* `task_stream_restart`: the Redis entry of a dead process outlives the recovery
  for up to its time to live, and a page that joins shows a running Assistant
  over the FAILED row; `frontend-contract-standard.md:37-41` lets the server's
  history override.
* `search_renamed`: a hit must carry the filename the row has now, while the
  records keep the one they were indexed with: after a rename every search that
  needs the retriever and matches the document fails as
  `knowledge_retriever_unavailable`, until it is indexed again. `knowledge.md:88`
  calls a rename pure metadata and `knowledge.md:148` reserves that code.

Met while modelling, and left without a run:

* two overlapping retries: the second resets an Assistant the first has made
  RUNNING or COMPLETED, while `platform.md:65` accepts FAILED ones only
  (`RetryOnlyFailed` of `TaskExecution` with `Overlap = {"retry"}`);
* the shares of parallel tool calls do not count the preamble that comes with
  them, so that a round with one may end in `context_too_large`
  (`platform.md:134`); hence the name of `ResultsFitWithoutPreamble`;
* a provider that reuses a tool call id makes the turn fail with
  `runtime_output_invalid`, not with the code `platform.md:145` gives;
* a tool that creates or writes a file is given the ETag of a second read, which
  may be another writer's, without the text: its next write overwrites what it
  never saw (`agent_home_service.py:250-288`, `platform.md:167`);
* a listing of the local store shows the temporary files of puts, and fails when
  a file disappears between two looks at it;
* a search during which a document is republished may answer `no_match`
  (`knowledge.md:140`): `BestSourceFirst` excludes it;
* `platform.md:171` says what happens to a copied agent when a public resource it
  refers to is disabled or deleted; `platform.md:203` and the code
  (`ReferencesAreLive`) do not let that happen while the copy is active;
* an overlapping retry and send of one Task, or a creation and a renaming of agents,
  can close a circle of locks, and one of the two requests fails with MySQL's error
  (section 8);
* a block that has no room for `execution_interrupted` makes `partial_result` raise:
  the Assistant stays RUNNING until the next start recovers it (section 5);
* `chat:cancel` may be answered `accepted` for an Assistant that is COMPLETED
  (section 3);
* names of deleted resources stay taken; a crash during an upload leaves its
  draft "parsing" for ever; changing a password reads and writes the token
  version without a lock;
* when storing FAILED fails as well, the Assistant stays RUNNING until the next
  start recovers it (`task_execution_service.py:629`);
* an outcome reached before `chat:start` carries a generation a watching page
  does not know and is dropped (`task-chat-reducer.ts:254`; the Task status
  usually makes up for it);
* a join that hydrates the page and applies a held terminal Task status in one
  render leaves `needsResync` true as the effect saw it before: no further join;
* on the failure path the Task is announced before the entry is removed, so that
  a page that joins in between sees it running (`chat_namespace.py:439`);
* a FAILED Assistant retried elsewhere lies behind the reconnect cursor;
* a rename writes `updated_at` and renews the stale claim of a dead worker;
* the `SKIP LOCKED` of `claim_next` joins the collection, whose row it locks too.


## 13. Not modelled, and what is left

* HTTP routes, request validation, response layout, logging, pages and styling,
  deployment files: no state of their own whose order matters.
* The start script and the maintenance scripts: run by hand, on a developer's
  machine or while the program is stopped.
* Extraction, chunking, hashing and encodings: pure functions over characters.
  `KnowledgeIndex` takes chunking as a function of text and configuration, and
  extraction as one that may fail or differ between builds.
* Accounts, logins and token versions: single rows changed by single statements.
* The page's own sends and retries (optimistic messages, adoption of a new Task),
  its cancel and leave; the cancel flag of the stream store in `TaskStream` (it is
  in `TaskExecution`), its status snapshot; the authentication of a connection.
* The HTTP clients of providers, metrics and embeddings: providers appear as
  streams that end or fail.

Only model-checked: `PlatformTypeOK` (its parts are proved where the components
need them; the conjunction of six modules is `MCPlatform`'s), and `OutcomeIsFinal`
of `TaskExecution` for overlapping sends. `NoLeftovers` is proved where it is
promised, without failing calls.

Beyond the prover: liveness under fairness and ENABLED. The induction theorems of
the library take an operator as a parameter, which the provers cannot
instantiate; where a proof needs induction it is over a set of numbers, whose
least element would be a counterexample (`LeastIsThere`, `UpTo`), and a recursive
function is shown to have its defining property by building it
(`ChainIsThere`). What the other folds and recursive functions compute for all
inputs stays with TLC. No module uses a RECURSIVE operator.
