----------------------------- MODULE Resources -----------------------------
(***************************************************************************)
(* The transactions that refer from one row to another: agents are created *)
(* and edited with references to a workspace, to collections and to        *)
(* documents (agent_service.py); workspaces, collections and documents are *)
(* renamed, switched off and deleted (workspace_resource_service.py,       *)
(* knowledge_collection_service.py, knowledge_document_service.py); drafts *)
(* of attachments are uploaded, deleted and bound to the turn that is sent *)
(* (subtask_context_service.py, task_execution_service.prepare_send); a    *)
(* failed turn of a Task is tried again (prepare_retry).                   *)
(*                                                                         *)
(* MySQL runs at READ COMMITTED: a SELECT ... FOR UPDATE locks the rows it *)
(* returns until the commit, and every other read sees what is committed   *)
(* and waits for nothing.  A new or changed name holds its entry of the    *)
(* unique index as a row is held.  Requests are of users who may make      *)
(* them: the others are answered from the first row that is read.          *)
(***************************************************************************)
EXTENDS Naturals, Sequences, FiniteSets, FiniteSetsExt

CONSTANTS
    AgentRows, WorkspaceRows, CollectionRows, DocumentRows, TaskRows, DraftRows, NameRows,
                     \* disjoint sets of numbers: the order of the ids; a task
                     \* is its row and the rows of its subtasks that are written
                     \* with it, a name its entry of uq_resources_owner_type_name
    OwnerIdOf,       \* OwnerIdOf[r]: user_id of a resource, 0 if public
    HeldIn,          \* HeldIn[d]: the collection of a document
    FirstConfigs,    \* config_json of the agents at the beginning
    Existing,        \* resources and documents that exist at the beginning
    Transactions,    \* numbers: each makes one request, in the order they begin
    ResourceRequests \* requests: [kind, target, config, active, name, task, drafts]

VARIABLES
    state,    \* state[r]: of a resource or a document
    config,   \* config[a]: what an agent refers to
    name,     \* name[r]: a name that a request gave the resource
    draft,    \* draft[d]: status and subtask_id of a context
    lock,     \* lock[r]: the transaction that holds the row
    txn       \* txn[t]: the request and how far it is

resourceVars == <<state, config, name, draft, lock, txn>>

ResourceRows == AgentRows \cup WorkspaceRows \cup CollectionRows
Rows == ResourceRows \cup DocumentRows \cup TaskRows \cup DraftRows \cup NameRows

NoTransaction == 0
NoSubtask == 0
NoHome == 0
NoRename == 0
NoTask == 0

\* What each request is about, by kind.
AgentKinds == {"create_agent", "put_agent", "send", "retry", "delete_agent"}
DocumentKinds == {"upload", "delete_document"}
CollectionKinds == {"reconfigure"}          \* put_collection with another pipeline
ReferredKinds == {"put", "delete"}          \* of a workspace or a collection
RequestKinds == AgentKinds \cup DocumentKinds \cup CollectionKinds \cup ReferredKinds
                  \cup {"delete_draft"}
Creations == {"create_agent", "upload"}
Turns == {"send", "retry"}                  \* of the Task's agent
References == {"create_agent", "put_agent"} \cup Turns
Renames == {"create_agent", "put_agent", "put", "reconfigure"}

Configs == [home : ResourceRows \cup {NoHome}, collections : SUBSET ResourceRows,
            documents : SUBSET DocumentRows]

\* The rows an AgentConfig names: at most one home and some collections, and
\* for some of these the documents that are chosen one by one.
Refs(c) == (IF c.home = NoHome THEN {} ELSE {c.home}) \cup c.collections

\* _owner_is_allowed: a public agent refers to public rows only.
OwnerAllowed(a, r) == OwnerIdOf[r] \in {0, OwnerIdOf[a]}

\* What never changes of a row of Refs(c) that the agent a may refer to.
ReferenceAllowed(a, c, r) ==
    /\ OwnerAllowed(a, r)
    /\ r = c.home => r \in WorkspaceRows /\ r \notin c.collections
    /\ r \in c.collections => r \in CollectionRows

LastCollection == Max(CollectionRows \cup {0})
LastRow == Max(Rows)

ASSUME RowsAssumption ==
    /\ Rows \subseteq Nat \ {0}
    /\ AgentRows \cap (WorkspaceRows \cup CollectionRows) = {}
    /\ WorkspaceRows \cap CollectionRows = {}
    /\ ResourceRows \cap (DocumentRows \cup TaskRows \cup DraftRows \cup NameRows) = {}
    /\ DocumentRows \cap (TaskRows \cup DraftRows \cup NameRows) = {}
    /\ TaskRows \cap (DraftRows \cup NameRows) = {}
    /\ DraftRows \cap NameRows = {}
    /\ HeldIn \in [DocumentRows -> CollectionRows]
    /\ LastCollection \in Nat /\ \A c \in CollectionRows : c <= LastCollection
    /\ LastRow \in Nat /\ \A r \in Rows : r <= LastRow

ASSUME TransactionsAssumption == Transactions \subseteq Nat \ {0}

ASSUME RequestsAssumption ==
    \A q \in ResourceRequests :
      /\ q \in [kind : RequestKinds, target : Rows, config : Configs, active : BOOLEAN,
                name : NameRows \cup {NoRename}, task : TaskRows \cup {NoTask},
                drafts : SUBSET DraftRows]
      /\ q.kind \in AgentKinds => q.target \in AgentRows
      /\ q.kind \in DocumentKinds => q.target \in DocumentRows
      /\ q.kind \in CollectionKinds => q.target \in CollectionRows
      /\ q.kind \in ReferredKinds => q.target \in WorkspaceRows \cup CollectionRows
      /\ q.kind = "delete_draft" => q.target \in DraftRows
      /\ q.kind = "create_agent" => q.name # NoRename
      /\ q.kind \notin Renames => q.name = NoRename
      /\ q.kind # "send" => q.drafts = {}
      /\ q.kind \notin Turns => q.task = NoTask
      /\ q.kind = "retry" => q.task # NoTask
      /\ \A p \in ResourceRequests : \* the index has the type of the row
           q.kind \in AgentKinds /\ p.kind \notin AgentKinds /\ p.name = q.name => q.name = NoRename

ASSUME FirstConfigsAssumption ==
    /\ Existing \subseteq ResourceRows \cup DocumentRows
    /\ FirstConfigs \subseteq [AgentRows -> Configs]
    /\ \A c \in FirstConfigs, a \in AgentRows \cap Existing :
         /\ c[a].documents \subseteq Existing
         /\ \A r \in Refs(c[a]) : r \in Existing /\ ReferenceAllowed(a, c[a], r)

----------------------------------------------------------------------------
(* What is locked, in which order. *)

ActiveDocuments(c) == {d \in DocumentRows : HeldIn[d] = c /\ state[d] = "active"}

\* The agent's configuration whose references a request resolves.
ConfigOf(q) == IF q.kind \in Turns THEN config[q.target] ELSE q.config

\* Mutant: the document is locked before its collection.
DocumentFirst(q) == <<q.target, HeldIn[q.target]>>
\* The row a document's deletion locks first, and the one it locks then.
DocumentPlan(q) == <<HeldIn[q.target], q.target>>

\* reset_failed_assistant writes the Task and its Assistant, and flushes, before
\* the agent is locked; a send to a Task writes it when all but the drafts is
\* locked (create_turn), and one that creates a Task writes no row others see.
ResetRows(q) == IF q.kind = "retry" THEN {q.task} ELSE {}
TurnRows(q) == IF q.kind = "send" /\ q.task # NoTask THEN {q.task} ELSE {}

\* The new row of a create is flushed, with its name, before its references
\* are locked; the new name of an existing row is flushed after them.
FirstRow(q) ==
    IF q.kind = "create_agent" THEN q.name
    ELSE IF q.kind = "upload" THEN HeldIn[q.target]
    ELSE IF q.kind = "delete_document" THEN DocumentPlan(q)[1]
    ELSE q.target

\* _lock_and_validate_references: one statement for the resources, then one
\* for each collection's documents; put_collection locks those of its own.
SecondRows(q) ==
    IF q.kind \in References THEN Refs(ConfigOf(q))
    ELSE IF q.kind = "delete_document" THEN {DocumentPlan(q)[2]}
    ELSE {}
DocumentsOf(q) ==
    IF q.kind \in References THEN ConfigOf(q).documents
    ELSE IF q.kind = "reconfigure" THEN ActiveDocuments(q.target)
    ELSE {}
LastRows(q) ==
    IF q.kind = "send" THEN q.drafts
    ELSE IF q.kind = "create_agent" \/ q.name = NoRename THEN {}
    ELSE {q.name}

\* The statements that lock rows, by number: those for the documents are
\* numbered by their collection.
AtReset == 0
AtFirst == 1
AtSecond == 2
AtDocumentsOf(c) == 2 + c
AtTurn == 3 + LastCollection
AtLast == 4 + LastCollection
StatementNumbers ==
    {AtReset, AtFirst, AtSecond, AtTurn, AtLast} \cup {AtDocumentsOf(c) : c \in CollectionRows}
Beginning(q) == IF q.kind = "retry" THEN AtReset ELSE AtFirst

Statement(q, i) ==
    IF i = AtReset THEN ResetRows(q)
    ELSE IF i = AtFirst THEN {FirstRow(q)}
    ELSE IF i = AtSecond THEN SecondRows(q)
    ELSE IF i = AtTurn THEN TurnRows(q)
    ELSE IF i = AtLast THEN LastRows(q)
    ELSE {d \in DocumentsOf(q) : AtDocumentsOf(HeldIn[d]) = i}

----------------------------------------------------------------------------
(* The checks. *)

\* The checks of each row of Refs(c), for the agent a.
ReferenceValid(a, c, r) == state[r] = "active" /\ ReferenceAllowed(a, c, r)

\* Mutant: only the owner's agents are searched.
InUseByOwner(r) ==
    \E a \in AgentRows : state[a] = "active" /\ r \in Refs(config[a]) /\ OwnerIdOf[a] = OwnerIdOf[r]
\* _agent_references and _is_exactly_referenced, over list_active_agents.
InUse(r) ==
    \E a \in AgentRows : state[a] = "active" /\ r \in Refs(config[a]) \cup config[a].documents

\* _documents_block_collection_change
Blocked(c) == \E d \in DocumentRows : HeldIn[d] = c /\ state[d] \in {"active", "pending"}

\* Mutant: the draft may still be parsed.
BindableIfFree(d) == draft[d].subtask = NoSubtask
\* bind_drafts
Bindable(d) == draft[d].status = "ready" /\ draft[d].subtask = NoSubtask

NameTaken(n, r) == \E x \in ResourceRows \ {r} : state[x] # "absent" /\ name[x] = n

\* A workspace or a collection that turns cannot use any more.
SwitchesOff(q) == q.kind = "delete" \/ (q.kind \in {"put", "reconfigure"} /\ ~q.active)

TargetValid(q) ==
    LET r == q.target
    IN  /\ q.kind \in {"put_agent", "delete_agent", "put", "reconfigure", "delete"} =>
             state[r] \in {"active", "inactive"}
        /\ q.kind \in Turns => state[r] = "active"
        /\ SwitchesOff(q) => ~InUse(r) /\ (r \in CollectionRows => ~Blocked(r))
        /\ q.kind = "delete_document" =>
             state[r] \in {"active", "pending"} /\ (state[r] = "active" => ~InUse(r))
        /\ q.kind = "delete_draft" => draft[r].status # "absent" /\ draft[r].subtask = NoSubtask

\* What is checked of a row once the statement that locks it has returned.
RowValid(q, r) ==
    /\ r = q.target => TargetValid(q)
    /\ q.kind \in DocumentKinds /\ r = HeldIn[q.target] => state[r] = "active"
    /\ q.kind \in References /\ r \in Refs(ConfigOf(q)) => ReferenceValid(q.target, ConfigOf(q), r)
    /\ r \in DocumentsOf(q) => state[r] = "active"
    /\ r \in q.drafts => Bindable(r)
    /\ r \in NameRows => ~NameTaken(r, q.target)

----------------------------------------------------------------------------
(* Transactions. *)

NoRequestYet == [kind |-> "none"]

ResourceInit ==
    /\ state = [r \in ResourceRows \cup DocumentRows |->
                  IF r \in Existing THEN "active" ELSE "absent"]
    /\ config \in FirstConfigs
    /\ name = [r \in ResourceRows |-> NoRename]
    /\ draft = [d \in DraftRows |-> [status |-> "absent", subtask |-> NoSubtask]]
    /\ lock = [r \in Rows |-> NoTransaction]
    /\ txn = [t \in Transactions |->
                [stage |-> "idle", request |-> NoRequestYet, at |-> 0, next |-> {}]]

Unlocked(t) == [r \in Rows |-> IF lock[r] = t THEN NoTransaction ELSE lock[r]]
\* Of a transaction that is over, only what it has bound is of interest.
Over(t, stage) ==
    /\ txn' = [txn EXCEPT ![t] =
         [stage |-> stage, at |-> 0, next |-> {},
          request |-> IF stage = "committed" /\ @.request.kind = "send" THEN @.request
                      ELSE NoRequestYet]]
    /\ lock' = Unlocked(t)

\* A created row has a new id: no other creation has it.
Fresh(r) ==
    /\ state[r] = "absent"
    /\ \A u \in Transactions :
          txn[u].stage \in {"locking", "checked"} /\ txn[u].request.kind \in Creations =>
             txn[u].request.target # r

\* What is read without a lock before the first statement that takes one (of
\* the Task, in TaskExecution: a send and a retry of it may both begin).
Begin(t) ==
    /\ txn[t].stage = "idle"
    /\ \A u \in Transactions : u < t => txn[u].stage # "idle"
    /\ \E q \in ResourceRequests :
         /\ q.kind \in Creations => Fresh(q.target)
         /\ q.kind = "send" => q.drafts \subseteq {d \in DraftRows : draft[d].status # "absent"}
         /\ txn' = [txn EXCEPT ![t] = [stage |-> "locking", request |-> q,
                                        at |-> Beginning(q), next |-> Statement(q, Beginning(q))]]
    /\ UNCHANGED <<state, config, name, draft, lock>>

\* A statement locks its rows in the order of their ids and waits for each; one
\* that finds no rows waits for nothing.  What the later ones lock is read from
\* the rows that are locked by then.
NextRow(t) == Min(txn[t].next)
Following(q, at) == {i \in StatementNumbers : i > at /\ Statement(q, i) # {}}

LockRow(t) ==
    /\ txn[t].stage = "locking"
    /\ LET r == NextRow(t)
           q == txn[t].request
           at == txn[t].at
           last == txn[t].next = {r}
           following == Following(q, at)
       IN  /\ lock[r] \in {NoTransaction, t}
           /\ IF last /\ \E x \in Statement(q, at) : ~RowValid(q, x)
                THEN Over(t, "refused")
              ELSE /\ lock' = [lock EXCEPT ![r] = t]
                   /\ txn' = IF ~last
                        THEN [txn EXCEPT ![t].next = @ \ {r}]
                      ELSE IF following = {}
                        THEN [txn EXCEPT ![t].stage = "checked", ![t].next = {}]
                      ELSE [txn EXCEPT ![t].at = Min(following),
                                       ![t].next = Statement(q, Min(following))]
    /\ UNCHANGED <<state, config, name, draft>>

\* What the commit makes visible.
StateAfter(q) ==
    IF q.kind \in Creations THEN "active"
    ELSE IF q.kind \in {"delete_agent", "delete"} THEN "deleted"
    ELSE IF q.kind = "delete_document" THEN "pending"
    ELSE IF q.active THEN "active" ELSE "inactive"

DraftAfter(t, q, d) ==
    IF d \in q.drafts THEN [draft[d] EXCEPT !.subtask = t]
    ELSE IF q.kind = "delete_draft" /\ d = q.target THEN [status |-> "absent", subtask |-> NoSubtask]
    ELSE draft[d]

CommitRequest(t) ==
    LET q == txn[t].request
    IN  /\ txn[t].stage = "checked"
        /\ Over(t, "committed")
        /\ state' = IF q.kind \in Turns \cup {"delete_draft"} THEN state
                    ELSE [state EXCEPT ![q.target] = StateAfter(q)]
        /\ config' = IF q.kind \in {"create_agent", "put_agent"}
                       THEN [config EXCEPT ![q.target] = q.config] ELSE config
        /\ name' = IF q.name = NoRename THEN name ELSE [name EXCEPT ![q.target] = q.name]
        /\ draft' = [d \in DraftRows |-> DraftAfter(t, q, d)]

\* A deadlock's victim, a lock wait timeout, a lost connection, an error of a
\* later step of the request: everything is rolled back.
Rollback(t) ==
    /\ txn[t].stage \in {"locking", "checked"}
    /\ Over(t, "refused")
    /\ UNCHANGED <<state, config, name, draft>>

\* Transactions of one statement: the end of a document's cleanup, a draft's
\* upload and, when its text has been extracted, its outcome.
DocumentCleaned(d) ==
    /\ state[d] = "pending" /\ lock[d] = NoTransaction
    /\ state' = [state EXCEPT ![d] = "gone"]
    /\ UNCHANGED <<config, name, draft, lock, txn>>
CreateDraft(d) ==
    /\ draft[d].status = "absent"
    /\ draft' = [draft EXCEPT ![d].status = "parsing"]
    /\ UNCHANGED <<state, config, name, lock, txn>>
MarkParsed(d) ==
    /\ draft[d].status = "parsing" /\ draft[d].subtask = NoSubtask
    /\ lock[d] = NoTransaction
    /\ \E status \in {"ready", "failed"} : draft' = [draft EXCEPT ![d].status = status]
    /\ UNCHANGED <<state, config, name, lock, txn>>

ResourceNext ==
    \/ \E t \in Transactions : Begin(t) \/ LockRow(t) \/ CommitRequest(t) \/ Rollback(t)
    \/ \E d \in DocumentRows : DocumentCleaned(d)
    \/ \E d \in DraftRows : CreateDraft(d) \/ MarkParsed(d)
ResourceSpec == ResourceInit /\ [][ResourceNext]_resourceVars

----------------------------------------------------------------------------
(* Properties. *)

ResourceTypeOK ==
    /\ \A r \in DOMAIN state : state[r] \in {"absent", "active", "inactive", "deleted", "pending", "gone"}
    /\ lock \in [Rows -> Transactions \cup {NoTransaction}]
    /\ \A d \in DraftRows : /\ draft[d].status \in {"absent", "parsing", "ready", "failed"}
                            /\ draft[d].subtask \in Transactions \cup {NoSubtask}
    /\ \A t \in Transactions :
         /\ txn[t].stage \in {"idle", "locking", "checked", "committed", "refused"}
         /\ txn[t].stage \notin {"locking", "checked"} => \A r \in Rows : lock[r] # t

\* Whatever is created, edited, switched off and deleted at the same time, an
\* active agent only refers to rows that are active and that its owner may
\* use: a turn of it is never refused for its references.
ReferencesAreLive ==
    \A a \in AgentRows : state[a] = "active" =>
       /\ \A r \in Refs(config[a]) : ReferenceValid(a, config[a], r)
       /\ \A d \in config[a].documents : state[d] = "active"

\* A sent turn has all the drafts that were sent with it, as they were parsed,
\* however many sends, deletions and uploads of the same drafts overlap.
TurnHasItsDrafts ==
    \A t \in Transactions :
       txn[t].stage = "committed" /\ txn[t].request.kind = "send" =>
          \A d \in txn[t].request.drafts : draft[d] = [status |-> "ready", subtask |-> t]

\* The transactions that wait for one another in a circle.
Circle(ts) ==
    /\ ts # {}
    /\ \A t \in ts : txn[t].stage = "locking" /\ lock[NextRow(t)] \in ts \ {t}

\* Apart from two, every request locks rows in one order: agent, referenced
\* resources, documents, Task, drafts.  So there are only circles of two kinds:
\* an agent is renamed to the name of an agent that is being created, whose
\* creation holds the name before it locks what it refers to; or a turn is sent
\* to a Task while a failed turn of the same Task is tried again, which holds
\* the Task before it locks the agent.
WaitsForNewAgent(t, ts) ==
    /\ NextRow(t) \in NameRows
    /\ txn[t].request.kind = "put_agent"
    /\ \E u \in ts : txn[u].request.kind = "create_agent"
WaitsForRetry(t) ==
    /\ NextRow(t) \in TaskRows
    /\ txn[t].request.kind = "send"
    /\ txn[lock[NextRow(t)]].request.kind = "retry"
CirclesAreOfTwoKinds ==
    \A ts \in SUBSET Transactions : Circle(ts) =>
       \E t \in ts : WaitsForNewAgent(t, ts) \/ WaitsForRetry(t)
=============================================================================
