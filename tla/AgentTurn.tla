----------------------------- MODULE AgentTurn -----------------------------
(***************************************************************************)
(* One turn of the agent runtime: the history is projected and selected    *)
(* under the token budget (task_execution_service.py, subtask_history.py,  *)
(* context_assembler.py, agent_runtime.py), the ReAct loop alternates      *)
(* model calls and parallel tool calls (model_service.py, react_loop.py,   *)
(* langchain_tool_adapter.py), and the reducer turns the loop's events     *)
(* into the stored result (runtime_event_reducer.py, message_chain.py,     *)
(* chat_blocks.py).  TaskExecution models what surrounds the turn.         *)
(*                                                                         *)
(* A text is its token count, its length in JSON and whether it is blank;  *)
(* a message is what the counter and the validators tell apart.            *)
(***************************************************************************)
EXTENDS Integers, Sequences, FiniteSets, FiniteSetsExt

CONSTANTS
    CallIds,       \* tool call ids the provider may use
    Budget,        \* chat_context_token_budget
    ResultReserve, \* tool_result_token_reserve
    Slack,         \* tokens of the wrapper a message counted alone carries
    PromptSize,    \* the system layers without AGENTS.md, and the tool schemas
    CallSize,      \* one declared tool call
    NoticeSize,    \* the context_too_large and tool_not_found results
    Pieces,        \* text deltas
    Arguments,     \* arguments a call may have: their weight and nesting depth
    Results,       \* what a tool may return
    OwnLength,     \* length of a result that the runtime writes itself
    ReasoningLength, \* length of the reasoning of a message
    MaxString,     \* MAX_JSON_STRING_CHARS
    MaxDepth,      \* MAX_JSON_NESTING_DEPTH
    MaxJson,       \* MAX_JSON_CANONICAL_BYTES
    MaxSources,    \* MAX_RESULT_SOURCES
    HomeSizes,     \* AGENTS.md as it is when the turn is streamed, 0 if none
    Histories,     \* stored turns; the last one is the turn to run
    MaxRounds,     \* runtime_max_tool_rounds
    MaxCalls,      \* MAX_PROVIDER_TOOL_CALLS_PER_TURN
    MaxDeltas      \* bound: text deltas of one model call

\* A text without tokens is empty and blank.  One that is no valid Unicode is
\* refused where a text that is too long is: it has a length beyond MaxString,
\* as arguments that are no JSON have a depth beyond MaxDepth.  A stored chain
\* of texts that no longer validates is Broken.
TextSet ==
    {t \in [size : Nat, length : Nat, blank : BOOLEAN] :
       t.size = 0 => t.length = 0 /\ t.blank}
DataSet == [weight : Nat, depth : Nat]
Broken == <<-1>>
ContextSet == [type : STRING, size : Nat]
TurnSet == [user : Nat, contexts : Seq(ContextSet),
          assistant : [status : STRING, chain : Seq(Nat) \cup {Broken}, value : Nat]]

\* The id of a text block, and the code of a turn that did not fail.
NoId == ""
NoCode == ""

\* _content_delta_parts drops empty texts, and the accumulator refuses a call
\* without an id; a turn has its user's message.
ASSUME TurnAssumption ==
    /\ NoId \notin CallIds
    /\ {Budget, ResultReserve, Slack, PromptSize, CallSize, NoticeSize} \subseteq Nat
    /\ {OwnLength, ReasoningLength, MaxString, MaxDepth, MaxJson, MaxSources} \subseteq Nat
    /\ {MaxRounds, MaxCalls, MaxDeltas} \subseteq Nat /\ HomeSizes \subseteq Nat
    /\ Pieces \subseteq {t \in TextSet : t.size > 0}
    /\ Arguments \subseteq DataSet
    /\ Results \subseteq [size : Nat, length : Nat, sources : Nat, error : BOOLEAN]
    /\ Histories \subseteq Seq(TurnSet) \ {<<>>}

VARIABLES
    history,   \* the Task's turns up to the current one
    tools,     \* whether a capability is bound to the turn
    stage,     \* "asked", "prepared", "loop", "over"
    selected,  \* how many of the last turns the model is given
    home,      \* size of the AGENTS.md the turn was assembled with
    node,      \* the graph's node: "guard", "agent", "tools", "end"
    graph,     \* messages the live graph state adds to the input
    stream,    \* what the provider has streamed of the current message
    pending,   \* the assistant message whose event was not yet yielded
    running,   \* tool calls that have not returned
    events,    \* events the suspended loop is about to yield
    reducer,   \* RuntimeEventReducer
    outcome    \* status, error code and stored result

turnVars == <<history, tools, stage, selected, home, node, graph, stream,
              pending, running, events, reducer, outcome>>

----------------------------------------------------------------------------
(* Texts, stored turns and their projection. *)

NoText == [size |-> 0, length |-> 0, blank |-> TRUE]
Join(t, p) == [size |-> t.size + p.size, length |-> t.length + p.length,
               blank |-> t.blank /\ p.blank]

Total(sizes) ==
    LET sum[k \in 0..Len(sizes)] == IF k = 0 THEN 0 ELSE sum[k - 1] + sizes[k]
    IN  sum[Len(sizes)]

\* What a stored Assistant contributes to a later turn: nothing while it is in
\* flight, its partial value when it failed or was cancelled, the texts of its
\* chain when it completed.
ProjectAssistant(a) ==
    IF a.status \in {"PENDING", "RUNNING"} THEN <<>>
    ELSE IF a.status = "COMPLETED" /\ a.chain # Broken THEN a.chain
    ELSE <<a.value>>

\* What a context of the user's message adds to the input: the documents
\* selected for retrieval scope the tool and are not read by the model.
ContextSize(c) == IF c.type = "selected_documents" THEN 0 ELSE c.size
RenderUser(t) == t.user + Total([i \in DOMAIN t.contexts |-> ContextSize(t.contexts[i])])

\* A turn as the model reads it: its user's message and every text of its
\* Assistant (the empty ones are left out, and would add nothing).
RenderTurn(t) == RenderUser(t) + Total(ProjectAssistant(t.assistant))

----------------------------------------------------------------------------
(* The token counter and the selection of turns. *)

InputSize(k, md) ==
    PromptSize + md + Total([i \in 1..k |-> RenderTurn(history[Len(history) + 1 - i])])

InputLimit == Budget - (IF tools THEN ResultReserve ELSE 0)

\* Mutant: the turns are selected as if there were no AGENTS.md.
SelectWithoutHome(md) ==
    LET fit == {k \in 1..Len(history) : \A j \in 1..k : InputSize(j, 0) <= InputLimit}
    IN  IF fit = {} THEN 0 ELSE Max(fit)

\* The newest turns that fit: the first one that does not ends the selection.
SelectTurns(md) ==
    LET fit == {k \in 1..Len(history) : \A j \in 1..k : InputSize(j, md) <= InputLimit}
    IN  IF fit = {} THEN 0 ELSE Max(fit)

\* The content of a message with calls: its preamble, or null when there is
\* none or when reasoning made the content a list.
NoContent == 0
ModelContent(m) == IF m.calls # <<>> /\ ~m.plain THEN NoContent ELSE m.text.size
MessageSize(m) ==
    IF m.role = "tool" THEN m.size ELSE ModelContent(m) + Len(m.calls) * CallSize

CountInput(messages) ==
    InputSize(selected, home) + Total([i \in DOMAIN messages |-> MessageSize(messages[i])])

\* A call or a result counted on its own.
CountAlone(size) == size + Slack

\* Mutant: each call is given all of the remaining budget.
WholeRemainder ==
    LET last == Max({i \in DOMAIN graph : graph[i].role = "ai"})
    IN  Budget - CountInput(SubSeq(graph, 1, last - 1))
               - Len(graph[last].calls) * CountAlone(CallSize)

\* What one of the parallel calls of the last assistant message may return.
\* Counted: everything before that message, and its calls with a null content.
Share ==
    LET last == CHOOSE i \in DOMAIN graph :
                  /\ graph[i].role = "ai"
                  /\ \A j \in DOMAIN graph : graph[j].role = "ai" => j <= i
        calls == graph[last].calls
    IN  (Budget - CountInput(SubSeq(graph, 1, last - 1))
                - Len(calls) * CountAlone(CallSize)) \div Len(calls)

\* What the model service accepts as the messages of a call.
CallsValid(calls) ==
    /\ calls # <<>> /\ Len(calls) <= MaxCalls
    /\ Cardinality({calls[i].id : i \in DOMAIN calls}) = Len(calls)
ToolMessageValid(m) == m.id \in CallIds
ValidMessages(messages) ==
    \A i \in DOMAIN messages :
       LET m == messages[i]
       IN  \/ m.role = "tool" /\ ToolMessageValid(m)
           \/ m.role = "ai" /\ CallsValid(m.calls)
           \/ m.role = "ai" /\ m.calls = <<>> /\ m.plain /\ m.text.size > 0

----------------------------------------------------------------------------
(* RuntimeEventReducer. *)

\* The messages of the chain.
AssistantMessage(e) ==
    [role |-> "assistant", text |-> e.text, plain |-> e.plain, calls |-> e.calls]
ToolMessage(e) == [role |-> "tool", id |-> e.id, length |-> e.result.length]

NewReducer == [chain |-> <<>>, blocks |-> <<>>, started |-> {}, resolved |-> {},
               textBlock |-> 0, deltas |-> NoText, value |-> 0, sources |-> 0]

IdsOf(calls) == {calls[i].id : i \in DOMAIN calls}
Assistants(chain) == {i \in DOMAIN chain : chain[i].role = "assistant"}
Declared(r) == UNION {IdsOf(r.chain[i].calls) : i \in Assistants(r.chain)}
Unresolved(r) == Declared(r) \ r.resolved

\* A text block shows a length of text, a tool block has data: the arguments
\* of the call and, once there is one, its output.
NoData == [weight |-> 0, depth |-> 0]
TextBlock == [type |-> "text", id |-> NoId, status |-> "streaming", length |-> 0, data |-> NoData]
ToolBlock(e) ==
    [type |-> "tool", id |-> e.id, status |-> "pending", length |-> 0, data |-> e.arguments]

\* canonical_json limits every string, the nesting and the whole; the number of
\* nodes is limited as the bytes are, and their sum is what weighs.  A block is
\* checked whenever it changes; in it its data is one level deeper.
Weight(b) == b.length + b.data.weight
BlockFits(b) ==
    b.length <= MaxString /\ b.data.depth + 1 <= MaxDepth /\ Weight(b) <= MaxJson

AppendText(b, length, status) == [b EXCEPT !.length = @ + length, !.status = status]
Output(b, length, status) ==
    [b EXCEPT !.data = [weight |-> @.weight + length, depth |-> @.depth], !.status = status]
ApplyResult(b, result) ==
    Output(b, result.length, IF result.error THEN "error" ELSE "done")
ToolBlockOf(r, id) == CHOOSE i \in DOMAIN r.blocks : r.blocks[i].id = id

\* A text that follows no open text opens a block.
Opened(r) == IF r.textBlock = 0 THEN Append(r.blocks, TextBlock) ELSE r.blocks
OpenedAt(r) == IF r.textBlock = 0 THEN Len(r.blocks) + 1 ELSE r.textBlock
Appended(r, e) == AppendText(Opened(r)[OpenedAt(r)], e.text.length, "streaming")

\* append_text_block and apply_tool_result refuse a block that is closed.
OpenText(r) == r.textBlock = 0 \/ r.blocks[r.textBlock].status = "streaming"
DeltaRefused(r, e) == Unresolved(r) # {} \/ ~OpenText(r)
AcceptDelta(r, e) ==
    [r EXCEPT !.blocks = [Opened(r) EXCEPT ![OpenedAt(r)] = Appended(r, e)],
              !.textBlock = OpenedAt(r),
              !.deltas = Join(@, e.text),
              !.value = @ + e.text.length]

AssistantRefused(r, e) ==
    \/ Unresolved(r) # {}
    \/ r.deltas # e.text \/ ~OpenText(r)
    \/ IdsOf(e.calls) \cap Declared(r) # {}
AcceptAssistant(r, e) ==
    LET blocks == IF r.textBlock = 0 THEN r.blocks
                  ELSE [r.blocks EXCEPT ![r.textBlock] = AppendText(@, 0, "done")]
    IN  [r EXCEPT !.blocks = blocks,
                  !.textBlock = 0,
                  !.deltas = NoText,
                  !.chain = Append(@, AssistantMessage(e))]

StartRefused(r, e) == e.id \notin Declared(r) \/ e.id \in r.started
AcceptStart(r, e) ==
    [r EXCEPT !.started = @ \cup {e.id}, !.blocks = Append(@, ToolBlock(e))]

ResultRefused(r, e) ==
    \/ e.id \notin Declared(r) \cap r.started
    \/ e.id \in r.resolved \/ r.blocks[ToolBlockOf(r, e.id)].status # "pending"
\* Sources beyond the limit are dropped; each weighs one.
AcceptResult(r, e) ==
    LET blocks == [r.blocks EXCEPT ![ToolBlockOf(r, e.id)] = ApplyResult(@, e.result)]
        all    == r.sources + e.result.sources
    IN  [r EXCEPT !.resolved = @ \cup {e.id},
                  !.blocks = blocks,
                  !.chain = Append(@, ToolMessage(e)),
                  !.sources = IF all <= MaxSources THEN all ELSE MaxSources]

\* An event out of its order, for which the reducer has a code each.
OutOfOrder(r, e) ==
    \/ e.type = "delta"     /\ DeltaRefused(r, e)
    \/ e.type = "assistant" /\ AssistantRefused(r, e)
    \/ e.type = "start"     /\ StartRefused(r, e)
    \/ e.type = "result"    /\ ResultRefused(r, e)

Accepted(r, e) ==
    CASE e.type = "delta"     -> AcceptDelta(r, e)
      [] e.type = "assistant" -> AcceptAssistant(r, e)
      [] e.type = "start"     -> AcceptStart(r, e)
      [] e.type = "result"    -> AcceptResult(r, e)

\* A text whose event is refused for its content leaves the block it opened.
Leftover(r, e) ==
    IF e.type = "delta" /\ ~DeltaRefused(r, e) THEN [r EXCEPT !.blocks = Opened(r)] ELSE r

\* validate_messages_chain: a declared id is new and is answered exactly once,
\* after its declaration and before the next assistant message.
ValidChain(chain) ==
    /\ chain # <<>>
    /\ \A i, j \in Assistants(chain) :
          i # j => IdsOf(chain[i].calls) \cap IdsOf(chain[j].calls) = {}
    /\ \A i \in Assistants(chain) : \A id \in IdsOf(chain[i].calls) :
          \E k \in DOMAIN chain \ Assistants(chain) :
             /\ i < k /\ chain[k].id = id
             /\ \A j \in Assistants(chain) : i < j => k < j
    /\ \A k \in DOMAIN chain \ Assistants(chain) :
          /\ \E i \in Assistants(chain) : i < k /\ chain[k].id \in IdsOf(chain[i].calls)
          /\ \A l \in DOMAIN chain \ Assistants(chain) : chain[l].id = chain[k].id => l = k

\* finish_success: the last message is a final answer that is not blank, and
\* nothing is left open.
Finishable(r) ==
    /\ r.chain # <<>>
    /\ LET last == r.chain[Len(r.chain)]
       IN  last.role = "assistant" /\ last.calls = <<>> /\ ~last.text.blank
    /\ r.deltas.size = 0
    /\ Unresolved(r) = {}
    /\ \A i \in DOMAIN r.blocks : r.blocks[i].type = "tool" => r.blocks[i].status # "pending"
    /\ ValidChain(r.chain)

FinishSuccess(r) ==
    [value |-> r.chain[Len(r.chain)].text.length, chain |-> r.chain, blocks |-> r.blocks,
     sources |-> r.sources]

\* In the chain the arguments of a call are a string.  Its limits of 256
\* messages and 128 calls are not reached by 16 rounds of 8 calls.
MessageWeight(m) ==
    IF m.role = "tool" THEN m.length
    ELSE m.text.length + (IF m.plain THEN 0 ELSE ReasoningLength)
         + Total([i \in DOMAIN m.calls |-> m.calls[i].arguments.weight])
StringsFit(chain) ==
    \A i \in Assistants(chain) :
       /\ chain[i].plain \/ ReasoningLength <= MaxString
       /\ \A k \in DOMAIN chain[i].calls : chain[i].calls[k].arguments.weight <= MaxString

\* validate_result_envelope (and validate_messages_chain, whose chain weighs
\* less than the result): the data of a block is three levels deeper in it.
FitsJson(result) ==
    /\ result.value <= MaxString
    /\ \A i \in DOMAIN result.blocks : result.blocks[i].data.depth + 3 <= MaxDepth
    /\ result.value + result.sources
       + Total([i \in DOMAIN result.chain |-> MessageWeight(result.chain[i])])
       + Total([i \in DOMAIN result.blocks |-> Weight(result.blocks[i])]) <= MaxJson
Storable(result) == StringsFit(result.chain) /\ FitsJson(result)

\* What an event, or the success at the end, holds beyond the limits of JSON.
Oversized(r, e) ==
    \/ e.type = "delta" /\ ~BlockFits(Appended(r, e))
    \/ e.type = "assistant" /\ \E i \in DOMAIN e.calls :
          LET data == e.calls[i].arguments IN data.depth > MaxDepth \/ data.weight > MaxJson
    \/ e.type = "start" /\ ~BlockFits(ToolBlock(e))
    \/ e.type = "result" /\ \E i \in DOMAIN r.blocks :
          /\ r.blocks[i].id = e.id
          /\ e.result.length > MaxString \/ ~BlockFits(ApplyResult(r.blocks[i], e.result))
    \/ e.type = "end" /\ ~Storable(FinishSuccess(r))

\* partial_result closes the open blocks: a text is done, a tool interrupted.
Closed(b) ==
    CASE b.type = "text"                       -> [b EXCEPT !.status = "done"]
      [] b.type = "tool" /\ b.status = "pending" -> Output(b, OwnLength, "error")
      [] OTHER                                 -> b
ClosedBlocks(r) == [i \in DOMAIN r.blocks |-> Closed(r.blocks[i])]

\* A block may be too large to be told that it was interrupted: then
\* partial_result raises.
Closable(r) == \A i \in DOMAIN r.blocks : BlockFits(Closed(r.blocks[i]))

\* What is stored of a turn without an answer, when k of its blocks are kept.
NoResult == [value |-> 0, chain |-> <<>>, blocks |-> <<>>, sources |-> 0]
Cut(length) == IF length <= MaxString THEN length ELSE MaxString
Keeping(r, k) ==
    [NoResult EXCEPT !.value = Cut(r.value), !.blocks = SubSeq(ClosedBlocks(r), 1, k)]

\* Mutant: every block is kept, whether the result fits or not.
AllBlocks(r) == Keeping(r, Len(r.blocks))

\* The value is cut, and blocks are dropped from the end, until the result
\* fits; the value is dropped last.
PartialResult(r) ==
    LET fitting == {k \in 0..Len(r.blocks) : FitsJson(Keeping(r, k))}
    IN  IF fitting = {} THEN NoResult ELSE Keeping(r, Max(fitting))

----------------------------------------------------------------------------
(* The turn. *)

NoMessage == [role |-> "none"]
NoStream == [text |-> NoText, deltas |-> 0, reasoning |-> FALSE, calls |-> <<>>]
NoOutcome == [status |-> "RUNNING", code |-> NoCode, result |-> NoResult]

TurnInit ==
    /\ history \in Histories /\ tools \in BOOLEAN
    /\ stage = "asked" /\ selected = 0 /\ home = 0
    /\ node = "guard" /\ graph = <<>> /\ stream = NoStream
    /\ pending = NoMessage /\ running = {} /\ events = <<>>
    /\ reducer = NewReducer /\ outcome = NoOutcome

loopVars == <<node, graph, stream, pending, running, events>>
Settle(status, code, result) ==
    /\ stage' = "over"
    /\ outcome' = [status |-> status, code |-> code, result |-> result]

\* What ends the turn early keeps the partial result, unless making it raises:
\* then execute() raises as well and settles nothing.
SettlePartly(status, code, r) ==
    IF Closable(r) THEN Settle(status, code, PartialResult(r))
    ELSE Settle("RAISED", NoCode, NoResult)

\* A failure reaches execute(), which keeps its safe code.
Fail(code) == SettlePartly("FAILED", code, reducer)

\* prepare_turn, in the request: the turn must fit before AGENTS.md is known.
Prepare ==
    /\ stage = "asked"
    /\ IF SelectTurns(0) = 0 THEN Settle("REFUSED", "context_too_large", NoResult)
       ELSE stage' = "prepared" /\ UNCHANGED outcome
    /\ UNCHANGED <<history, tools, selected, home, loopVars, reducer>>

\* A workspace whose store does not answer.
HomeUnavailable == -1

\* stream_turn: AGENTS.md is read and the turns are selected again with it.
OpenTurn ==
    /\ stage = "prepared"
    /\ \E md \in HomeSizes \cup {HomeUnavailable} :
         IF md = HomeUnavailable
           THEN Fail("workspace_unavailable") /\ UNCHANGED <<selected, home>>
         ELSE IF SelectTurns(md) = 0
           THEN Fail("context_too_large") /\ UNCHANGED <<selected, home>>
         ELSE /\ stage' = "loop" /\ selected' = SelectTurns(md) /\ home' = md
              /\ UNCHANGED outcome
    /\ UNCHANGED <<history, tools, loopVars, reducer>>

\* The user cancels.  execute() looks at the request before the loop and after
\* each of its steps, and keeps neither the event it was given nor the rest.
StopTurn ==
    /\ stage \in {"prepared", "loop"}
    /\ SettlePartly("CANCELLED", NoCode, reducer)
    /\ UNCHANGED <<history, tools, selected, home, loopVars, reducer>>

\* The loop is asked for its next event: it runs until it has one.
Pulled(at) == stage = "loop" /\ events = <<>> /\ node = at
Raise(code) == events' = <<[type |-> "raise", code |-> code]>>
unmoved == <<history, tools, stage, selected, home, reducer, outcome>>

Rounds(messages) ==
    Cardinality({i \in DOMAIN messages :
                   messages[i].role = "ai" /\ messages[i].calls # <<>>})

\* The hook before every model call.
ContextGuard ==
    /\ Pulled("guard")
    /\ IF Rounds(graph) >= MaxRounds
         THEN Raise("tool_call_limit_exceeded") /\ UNCHANGED <<node, stream>>
       ELSE IF CountInput(graph) > Budget
         THEN Raise("context_too_large") /\ UNCHANGED <<node, stream>>
       ELSE /\ node' = "agent" /\ stream' = NoStream /\ UNCHANGED events
    /\ UNCHANGED <<unmoved, graph, pending, running>>

\* One content delta.  Text that follows a tool call fragment is refused.
ProviderText ==
    /\ Pulled("agent") /\ stream.deltas < MaxDeltas
    /\ \E p \in Pieces :
         IF stream.calls # <<>>
           THEN Raise("provider_response_invalid") /\ UNCHANGED stream
         ELSE /\ stream' = [stream EXCEPT !.text = Join(@, p), !.deltas = @ + 1]
              /\ events' = <<[type |-> "delta", text |-> p]>>
    /\ UNCHANGED <<unmoved, node, graph, pending, running>>

ProviderReasoning ==
    /\ Pulled("agent") /\ ~stream.reasoning
    /\ stream' = [stream EXCEPT !.reasoning = TRUE]
    /\ UNCHANGED <<unmoved, node, graph, pending, running, events>>

\* Mutant: the limit is checked after a call too many was kept.
LimitExceeded(calls) == Len(calls) > MaxCalls

\* The calls of one message are limited as they are streamed.
LimitReached(calls) == Len(calls) = MaxCalls

\* The fragments of one tool call.
ProviderCall ==
    /\ Pulled("agent")
    /\ \E id \in CallIds, bound \in BOOLEAN, arguments \in Arguments :
         /\ bound => tools
         /\ IF LimitReached(stream.calls)
              THEN Raise("provider_tool_call_invalid") /\ UNCHANGED stream
            ELSE /\ stream' = [stream EXCEPT !.calls =
                                 Append(@, [id |-> id, bound |-> bound, arguments |-> arguments])]
                 /\ UNCHANGED events
    /\ UNCHANGED <<unmoved, node, graph, pending, running>>

\* finish(): the fragments may not add up to complete calls with a JSON object
\* as arguments, and an id may have been used twice.
WellFormed(calls) == Cardinality(IdsOf(calls)) = Len(calls)

\* The assistant's message, as the loop and the reducer are told of it.
AssistantEvent(m) ==
    [type |-> "assistant", text |-> m.text, plain |-> m.plain, calls |-> m.calls]
StartEvent(call) == [type |-> "start", id |-> call.id, arguments |-> call.arguments]

\* The stream ends: calls go to the tools, a text is the final answer.
ProviderEnd ==
    /\ Pulled("agent")
    /\ LET m == [role |-> "ai", text |-> stream.text, plain |-> ~stream.reasoning,
                 calls |-> stream.calls]
       IN  IF stream.calls # <<>>
             THEN \/ /\ Raise("provider_tool_call_invalid")
                     /\ UNCHANGED <<node, graph, pending, running>>
                  \/ /\ WellFormed(m.calls)
                     /\ graph' = Append(graph, m) /\ pending' = m
                     /\ running' = IdsOf(m.calls) /\ node' = "tools"
                     /\ UNCHANGED events
           ELSE IF stream.text.size = 0
             THEN Raise("provider_response_invalid")
                  /\ UNCHANGED <<node, graph, pending, running>>
           ELSE /\ graph' = Append(graph, m) /\ node' = "end"
                /\ events' = <<AssistantEvent(m), [type |-> "end"]>>
                /\ UNCHANGED <<pending, running>>
    /\ UNCHANGED <<unmoved, stream>>

\* A transport error, a malformed delta, a refused request.
ProviderBreaks ==
    /\ Pulled("agent")
    /\ Raise("provider_call_failed")
    /\ UNCHANGED <<unmoved, node, graph, stream, pending, running>>

\* execute_with_budget: a call without budget is not executed, an unbound tool
\* is answered by the registry, and what the tool returns must fit its share.
\* The calls see the same state, so only the order of their answers is free.
Own(size, terminal) == [size |-> size, length |-> OwnLength, sources |-> 0, error |-> TRUE,
                        terminal |-> terminal]
Terminal == Own(0, TRUE)
Notice == Own(NoticeSize, FALSE)
\* The registry's answer to a call of a tool that is not bound.
ToolNotFound == Notice
FitResult(result, share) ==
    IF CountAlone(result.size) <= share THEN result
    ELSE IF CountAlone(NoticeSize) <= share THEN Notice ELSE Terminal
ToolResults(call) ==
    IF Share <= 0 THEN {Terminal}
    ELSE IF ~call.bound THEN {ToolNotFound}
    ELSE {FitResult([size |-> r.size, length |-> r.length, sources |-> r.sources,
                     error |-> r.error, terminal |-> FALSE], Share) : r \in Results}

\* Mutant: the assistant's event is yielded without the starts of its calls.
FlushedWithoutStarts ==
    IF pending = NoMessage THEN <<>> ELSE <<AssistantEvent(pending)>>

\* The first answer of a round is preceded by the assistant's own event.
Flushed ==
    IF pending = NoMessage THEN <<>>
    ELSE <<AssistantEvent(pending)>>
         \o [i \in DOMAIN pending.calls |-> StartEvent(pending.calls[i])]

CurrentCalls == graph[Max({i \in DOMAIN graph : graph[i].role = "ai"})].calls

ToolReturns ==
    /\ Pulled("tools")
    /\ \E i \in DOMAIN CurrentCalls :
         LET call == CurrentCalls[i]
         IN  /\ call.id \in running
             /\ \E result \in ToolResults(call) :
                  /\ graph' = Append(graph, [role |-> "tool", id |-> call.id, size |-> result.size])
                  /\ events' = Flushed \o <<[type |-> "result", id |-> call.id, result |-> result]>>
                       \o (IF result.terminal
                             THEN <<[type |-> "raise", code |-> "context_too_large"]>> ELSE <<>>)
             /\ running' = running \ {call.id}
             /\ node' = IF running' = {} THEN "guard" ELSE "tools"
    /\ pending' = NoMessage
    /\ UNCHANGED <<unmoved, stream>>

\* A tool that raises takes the whole graph with it.
ToolRaises ==
    /\ Pulled("tools")
    /\ \E i \in DOMAIN CurrentCalls : CurrentCalls[i].id \in running /\ CurrentCalls[i].bound
    /\ Share > 0
    /\ Raise("provider_call_failed")
    /\ UNCHANGED <<unmoved, node, graph, stream, pending, running>>

\* execute() takes the next event: the reducer keeps it, or the turn fails.
TakeEvent ==
    /\ stage = "loop" /\ events # <<>>
    /\ events' = Tail(events)
    /\ LET e == Head(events)
       IN  IF e.type = "raise"
             THEN Fail(e.code) /\ UNCHANGED reducer
           ELSE IF e.type = "end"
             THEN /\ IF Finishable(reducer) /\ ~Oversized(reducer, e)
                       THEN Settle("COMPLETED", NoCode, FinishSuccess(reducer))
                       ELSE Fail("runtime_output_invalid")
                  /\ UNCHANGED reducer
           ELSE IF OutOfOrder(reducer, e) \/ Oversized(reducer, e)
             THEN /\ SettlePartly("FAILED", "runtime_output_invalid", Leftover(reducer, e))
                  /\ UNCHANGED reducer
           ELSE reducer' = Accepted(reducer, e) /\ UNCHANGED <<stage, outcome>>
    /\ UNCHANGED <<history, tools, selected, home, node, graph, stream, pending,
                   running>>

Provider == ProviderText \/ ProviderReasoning \/ ProviderCall \/ ProviderEnd \/ ProviderBreaks
TurnNext == StopTurn \/ Prepare \/ OpenTurn \/ ContextGuard \/ Provider
             \/ ToolReturns \/ ToolRaises \/ TakeEvent
TurnSpec == TurnInit /\ [][TurnNext]_turnVars

----------------------------------------------------------------------------
(* Properties. *)

TurnTypeOK ==
    /\ history \in Histories /\ tools \in BOOLEAN
    /\ stage \in {"asked", "prepared", "loop", "over"}
    /\ selected \in 0..Len(history) /\ home \in HomeSizes \cup {0}
    /\ node \in {"guard", "agent", "tools", "end"}
    /\ running \subseteq CallIds /\ reducer.resolved \subseteq reducer.started
    /\ reducer.started \subseteq CallIds /\ reducer.textBlock \in 0..Len(reducer.blocks)
    /\ Len(stream.calls) <= MaxCalls
    /\ outcome.status \in {"RUNNING", "REFUSED", "COMPLETED", "FAILED", "CANCELLED", "RAISED"}
    /\ (outcome.status = "RUNNING") <=> (stage # "over")

CalledIn(i) == graph[i].role = "ai" /\ graph[i].calls # <<>>
ReusedId ==
    \E i, j \in {k \in DOMAIN graph : CalledIn(k)} :
       i # j /\ IdsOf(graph[i].calls) \cap IdsOf(graph[j].calls) # {}

\* Whatever the order in which parallel tools answer, the reducer and the
\* validation of the chain find what the loop yields in its order: a turn fails
\* with runtime_output_invalid only when the provider reused a tool call id or
\* answered with blank text, or when what the reducer was to keep exceeds the
\* limits of JSON.  (platform.md:145 gives the reused id the code
\* runtime_tool_protocol_violation.)  And what one model call was accepted to
\* answer is accepted as the input of the next.
RoundOver == stage = "loop" /\ node = "guard" /\ events = <<>>
AnsweredBlank == LET last == graph[Len(graph)] IN last.role = "ai" /\ last.text.blank
RefusedOnlyForCause ==
    [][/\ RoundOver => ValidMessages(graph)
       /\ stage = "loop" /\ outcome'.code = "runtime_output_invalid" =>
             ReusedId \/ Oversized(reducer, Head(events)) \/ AnsweredBlank]_turnVars

ShownText(blocks) == Total([i \in DOMAIN blocks |-> blocks[i].length])
SaidText(chain) ==
    Total([i \in DOMAIN chain |-> IF i \in Assistants(chain) THEN chain[i].text.length ELSE 0])

\* A stored block is the one the reducer had at its place, closed; only an
\* empty text may have been opened by a text that was refused.
Kept(b, i) ==
    \/ i \in DOMAIN reducer.blocks /\ b = Closed(reducer.blocks[i])
    \/ i = Len(reducer.blocks) + 1 /\ b.type = "text" /\ b.length = 0

\* The partial result that would keep the first n blocks.
WithBlocks(n) ==
    [NoResult EXCEPT !.value = Cut(ShownText(reducer.blocks)),
                     !.blocks = SubSeq(ClosedBlocks(reducer), 1, n)]

\* What is stored of a turn that ended early are the blocks of the reducer up to
\* some block, with the text of all of its blocks or as much of it as a string
\* may hold; a block is missing only if the result would not have fit with it,
\* and the text only if it alone was too much.  A completed turn stores
\* everything: its value is the text of the last block, its chain holds every
\* text of the blocks, and each call the provider made has exactly one answer.
\* Either way the result fits the limits, and no block would stream or wait
\* for ever.
ResultIsWhole ==
    stage = "over" =>
       LET r     == outcome.result
           shown == reducer.blocks
       IN  /\ Storable(r)
           /\ \A i \in DOMAIN r.blocks :
                 Kept(r.blocks[i], i) /\ r.blocks[i].status \in {"done", "error"}
           /\ outcome.status \in {"FAILED", "CANCELLED"} =>
                 /\ \/ r.value = Cut(ShownText(shown))
                    \/ r.value = 0 /\ r.blocks = <<>> /\ ~FitsJson(WithBlocks(0))
                 /\ Len(r.blocks) >= Len(shown) \/ ~FitsJson(WithBlocks(Len(r.blocks) + 1))
           /\ outcome.status = "COMPLETED" =>
                 /\ r.blocks = shown /\ r.value = r.blocks[Len(r.blocks)].length
                 /\ ShownText(r.blocks) = SaidText(r.chain)
                 /\ \A i \in {k \in DOMAIN graph : CalledIn(k)} : \A id \in IdsOf(graph[i].calls) :
                       Cardinality({k \in DOMAIN r.chain :
                                      r.chain[k].role = "tool" /\ r.chain[k].id = id}) = 1

\* Answers of parallel tools that each fit their share fit together: after a
\* round whose message had no preamble and only bound tools, the next model
\* call is never refused for the size of the context.  (The shares do not
\* count the preamble that the guard then counts, so that with one the round
\* may end as platform.md:134 says it must not; without it the division by
\* the number of calls is what keeps the answers together within the budget.)
LastRoundIsPlain ==
    LET ais == {i \in DOMAIN graph : CalledIn(i)}
        m   == graph[Max(ais)]
    IN  /\ ais # {}
        /\ \A i \in DOMAIN m.calls : m.calls[i].bound
        /\ ModelContent(m) = NoContent
ResultsFitWithoutPreamble ==
    RoundOver /\ LastRoundIsPlain => CountInput(graph) <= Budget

\* The model is first called with the turns that were selected for the
\* AGENTS.md it is given: they leave the tools their reserve, and no older
\* turn would have fitted as well.
SelectionIsCurrent ==
    stage = "loop" =>
       /\ selected >= 1
       /\ CountInput(<<>>) <= Budget - (IF tools THEN ResultReserve ELSE 0)
       /\ selected < Len(history) => InputSize(selected + 1, home) > InputLimit
=============================================================================
