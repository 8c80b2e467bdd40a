----------------------------- MODULE AgentHome -----------------------------
(***************************************************************************)
(* The files of one Agent Home, edited at the same time by the agent's     *)
(* file tools (agent_home_capability.py) and by the browser through the    *)
(* workspace API (api/workspaces.py).  Both go through AgentHomeService,   *)
(* which creates AGENTS.md if it is missing, replaces a file only if its   *)
(* ETag is the one the writer names, and reads back what it wrote.         *)
(*                                                                         *)
(* The stores compute an ETag from the content, so an ETag is modelled by  *)
(* the text it stands for.  A put holds the lock of its key's shard from   *)
(* the comparison to the replacement; the local store writes a temporary   *)
(* file next to the target in between, and a listing takes no lock while   *)
(* it walks the directory.                                                 *)
(***************************************************************************)
EXTENDS Naturals, FiniteSets

CONSTANTS
    Files,        \* paths, and the names of temporary files of puts
    Root,         \* AGENTS.md
    Texts,        \* contents
    InitialText,  \* initial_agents_md of the workspace
    Browsers,     \* request threads: every request first ensures AGENTS.md
    AgentTools,   \* threads of the agent's tools
    LockShards,   \* the locks of the store
    LockShardOf,  \* LockShardOf[f]: the lock a key hashes to
    MaxRequests,  \* bound on requests of a client
    Missing, Nobody

Clients == Browsers \cup AgentTools

ASSUME HomeAssumption ==
    /\ Root \in Files /\ InitialText \in Texts /\ Missing \notin Texts
    /\ LockShardOf \in [Files -> LockShards] /\ Nobody \notin Clients

VARIABLES
    backend,   \* "local" or "s3"
    content,   \* content[f]: the stored text, or Missing
    writing,   \* temporary files of puts: the clients that are writing one
    shard,     \* shard[s]: who holds the lock
    request,   \* request[c]: what each client is doing
    etag,      \* etag[c][f]: the ETag a client was last given, or Missing
    seen,      \* what each client has read or written itself: <<file, text>>
    requests   \* requests made so far

homeVars == <<backend, content, writing, shard, request, etag, seen, requests>>

----------------------------------------------------------------------------
(* Requests. *)

Kinds == {"ensure", "read", "create", "write", "delete", "list"}
NoRequest == [kind |-> "none", file |-> Root, text |-> InitialText, expected |-> Missing,
              stage |-> "idle", after |-> "none", replaced |-> Missing, effect |-> FALSE,
              entries |-> {}, items |-> {}, code |-> ""]

Goto(c, stage) == request' = [request EXCEPT ![c].stage = stage]
Done(c, code) == request' = [request EXCEPT ![c].stage = "idle", ![c].code = code]

HomeInit ==
    /\ backend \in {"local", "s3"}
    /\ content = [f \in Files |-> Missing]
    /\ writing = {} /\ shard = [s \in LockShards |-> Nobody]
    /\ request = [c \in Clients |-> NoRequest]
    /\ etag = [c \in Clients |-> [f \in Files |-> Missing]]
    /\ seen = [c \in Clients |-> {}]
    /\ requests = [c \in Clients |-> 0]

\* Every request of the browser initializes the workspace, and so does the
\* beginning of a turn; a tool call goes straight to its operation.
FirstStage(c, kind) == IF c \in Browsers \/ kind = "ensure" THEN "ensure" ELSE "call"

\* The API and delete_file both refuse to delete AGENTS.md.
\* Mutant: any file may be deleted.
DeletableIfThere(f) == TRUE
Deletable(f) == f # Root

AskHome(c) ==
    /\ request[c].stage = "idle" /\ requests[c] < MaxRequests
    /\ requests' = [requests EXCEPT ![c] = @ + 1]
    /\ \E kind \in Kinds, f \in Files, t \in Texts :
         /\ kind \in {"read", "delete", "list", "ensure"} => t = InitialText
         /\ kind \in {"list", "ensure"} => f = Root
         /\ kind = "delete" => c \in Browsers /\ Deletable(f)
         /\ kind = "write" => etag[c][f] # Missing
         /\ request' = [request EXCEPT ![c] =
              [NoRequest EXCEPT !.kind = kind, !.file = f, !.text = t,
                 !.expected = IF kind = "write" THEN etag[c][f] ELSE Missing,
                 !.stage = FirstStage(c, kind)]]
    /\ UNCHANGED <<backend, content, writing, shard, etag, seen>>

\* The tool computes the size of the largest answer a mutation may give and
\* refuses before it mutates anything.
Measured(c) == request[c].stage = "call"
MutationTooLarge(c) ==
    /\ c \in AgentTools /\ Measured(c)
    /\ request[c].kind \in {"create", "write"}
    /\ Done(c, "context_too_large")
    /\ UNCHANGED <<backend, content, writing, shard, etag, seen, requests>>

----------------------------------------------------------------------------
(* ObjectStore.put: what is put, where, and under which condition. *)

\* ensure_agents_md creates, create_file creates, write_file replaces.
PutFile(c) == IF request[c].stage = "ensure" THEN Root ELSE request[c].file
PutText(c) == IF request[c].stage = "ensure" THEN InitialText ELSE request[c].text
Creates(c) == request[c].stage = "ensure" \/ request[c].kind = "create"

\* The file a put that holds its lock writes to.
Target(c) == IF request[c].after = "ensure" THEN Root ELSE request[c].file
TargetText(c) == IF request[c].after = "ensure" THEN InitialText ELSE request[c].text

Locked(f) == shard[LockShardOf[f]] # Nobody

\* Mutant: only the condition of a create is looked at.
OnlyCreatesAreRefused(c) == Creates(c) /\ content[PutFile(c)] # Missing
\* validate_put_conditions and the comparison, with the lock just taken.
ConditionFails(c) ==
    IF Creates(c) THEN content[PutFile(c)] # Missing
    ELSE content[PutFile(c)] # request[c].expected

Unlock(c) == [shard EXCEPT ![LockShardOf[Target(c)]] = Nobody]

\* A conflict while AGENTS.md is ensured only means that it is there.
PutRefused(c) ==
    /\ request[c].stage = "ensure" \/ request[c].kind \in {"create", "write"}
    /\ request[c].stage \in {"ensure", "call"}
    /\ ~Locked(PutFile(c)) /\ ConditionFails(c)
    /\ IF request[c].stage = "ensure" THEN Goto(c, "ensured")
       ELSE Done(c, "workspace_conflict")
    /\ UNCHANGED <<backend, content, writing, shard, etag, seen, requests>>

PutBegins(c) ==
    /\ request[c].stage = "ensure" \/ request[c].kind \in {"create", "write"}
    /\ request[c].stage \in {"ensure", "call"}
    /\ ~Locked(PutFile(c)) /\ ~ConditionFails(c)
    /\ shard' = [shard EXCEPT ![LockShardOf[PutFile(c)]] = c]
    /\ writing' = IF backend = "local" THEN writing \cup {c} ELSE writing
    /\ request' = [request EXCEPT ![c].stage = "put", ![c].after = request[c].stage]
    /\ UNCHANGED <<backend, content, etag, seen, requests>>

\* os.replace, or put_object; the lock is released.
PutEnds(c) ==
    /\ request[c].stage = "put"
    /\ content' = [content EXCEPT ![Target(c)] = TargetText(c)]
    /\ seen' = [seen EXCEPT ![c] = @ \cup {<<Target(c), TargetText(c)>>}]
    /\ shard' = Unlock(c)
    /\ writing' = writing \ {c}
    /\ request' = [request EXCEPT
         ![c].stage = IF request[c].after = "ensure" THEN "ensured" ELSE "reread",
         ![c].effect = @ \/ request[c].after = "call",
         ![c].replaced = IF request[c].after = "call" THEN content[Target(c)] ELSE @]
    /\ UNCHANGED <<backend, etag, requests>>

\* The disk or the provider fails: nothing is replaced, except that the answer
\* of S3 may be lost after the object was.
PutFails(c) ==
    /\ request[c].stage = "put"
    /\ \/ UNCHANGED <<content, seen>>
       \/ /\ backend = "s3"
          /\ content' = [content EXCEPT ![Target(c)] = TargetText(c)]
          /\ seen' = [seen EXCEPT ![c] = @ \cup {<<Target(c), TargetText(c)>>}]
    /\ shard' = Unlock(c)
    /\ writing' = writing \ {c}
    /\ Done(c, "workspace_unavailable")
    /\ UNCHANGED <<backend, etag, requests>>

----------------------------------------------------------------------------
(* Reading, and what a client is told. *)

\* After AGENTS.md is ensured it is read; the text is of no use to a request.
EnsureReads(c) ==
    /\ request[c].stage = "ensured" /\ ~Locked(Root)
    /\ IF content[Root] = Missing THEN Done(c, "workspace_unavailable")
       ELSE IF request[c].kind = "ensure" THEN Done(c, "")
       ELSE Goto(c, "call")
    /\ UNCHANGED <<backend, content, writing, shard, etag, seen, requests>>

\* read_file, and the read that ends create_file and write_file: whatever is
\* stored now.  A reader sees the text, and so does a browser that wrote; a
\* tool that wrote is only told the ETag.
\* Mutant: the answer to a write leaves the text out.
ToldReader(c) == request[c].kind = "read"
Told(c) == request[c].kind = "read" \/ c \in Browsers
ReadFile(c) ==
    LET f == request[c].file
    IN  /\ \/ request[c].stage = "call" /\ request[c].kind = "read"
           \/ request[c].stage = "reread"
        /\ ~Locked(f)
        /\ IF content[f] = Missing
             THEN Done(c, "workspace_file_not_found") /\ UNCHANGED <<etag, seen>>
           ELSE /\ Done(c, "")
                /\ etag' = [etag EXCEPT ![c][f] = content[f]]
                /\ seen' = IF Told(c) THEN [seen EXCEPT ![c] = @ \cup {<<f, content[f]>>}]
                           ELSE seen
        /\ UNCHANGED <<backend, content, writing, shard, requests>>

\* A text that does not fit the tool's share of the budget is not shown.
ReadTooLarge(c) ==
    /\ c \in AgentTools /\ request[c].stage = "call" /\ request[c].kind = "read"
    /\ ~Locked(request[c].file) /\ content[request[c].file] # Missing
    /\ Done(c, "context_too_large")
    /\ UNCHANGED <<backend, content, writing, shard, etag, seen, requests>>

\* The store, or the bytes of the file, cannot be read.
ReadFails(c) ==
    /\ request[c].stage \in {"ensured", "reread"}
          \/ (request[c].stage = "call" /\ request[c].kind \in {"read", "list", "delete"})
    /\ Done(c, "workspace_unavailable")
    /\ UNCHANGED <<backend, content, writing, shard, etag, seen, requests>>

\* delete is unconditional, and deleting nothing succeeds.
DeleteFile(c) ==
    LET f == request[c].file
    IN  /\ request[c].stage = "call" /\ request[c].kind = "delete" /\ ~Locked(f)
        /\ content' = [content EXCEPT ![f] = Missing]
        /\ request' = [request EXCEPT ![c].stage = "idle", ![c].code = "", ![c].effect = TRUE]
        /\ etag' = [etag EXCEPT ![c][f] = Missing]
        /\ UNCHANGED <<backend, writing, shard, seen, requests>>

----------------------------------------------------------------------------
(* Listing. *)

\* An entry is a path, or the temporary file of a client's put.
Present == {f \in Files : content[f] # Missing}
Entries == Present \cup writing
There(e) == IF e \in Clients THEN e \in writing ELSE content[e] # Missing

\* S3 answers a list request as of one moment; the local store walks.
ListScan(c) ==
    /\ request[c].stage = "call" /\ request[c].kind = "list"
    /\ request' = [request EXCEPT ![c].stage = "walk",
                      ![c].entries = IF backend = "s3" THEN {} ELSE Entries,
                      ![c].items = IF backend = "s3" THEN Present ELSE {}]
    /\ UNCHANGED <<backend, content, writing, shard, etag, seen, requests>>

\* An entry that is gone before is_file is left out.
ListLooks(c) ==
    /\ request[c].stage = "walk"
    /\ \E e \in request[c].entries :
         request' = IF There(e)
           THEN [request EXCEPT ![c].stage = "stat", ![c].after = e]
           ELSE [request EXCEPT ![c].entries = @ \ {e}]
    /\ UNCHANGED <<backend, content, writing, shard, etag, seen, requests>>

\* One that is gone afterwards fails the listing: the ETag is computed from
\* the bytes, under the entry's own lock.
ListStats(c) ==
    LET e == request[c].after
    IN  /\ request[c].stage = "stat"
        /\ e \in Files => ~Locked(e)
        /\ IF There(e)
             THEN request' = [request EXCEPT ![c].stage = "walk", ![c].entries = @ \ {e},
                                            ![c].items = @ \cup {e}]
             ELSE Done(c, "workspace_file_not_found")
        /\ UNCHANGED <<backend, content, writing, shard, etag, seen, requests>>

\* A tool's listing may exceed its share as well.
ListEnds(c) ==
    /\ request[c].stage = "walk" /\ request[c].entries = {}
    /\ \E code \in {""} \cup (IF c \in AgentTools THEN {"context_too_large"} ELSE {}) :
         Done(c, code)
    /\ UNCHANGED <<backend, content, writing, shard, etag, seen, requests>>

HomeStep(c) ==
    \/ MutationTooLarge(c) \/ PutRefused(c) \/ PutBegins(c) \/ PutEnds(c) \/ PutFails(c)
    \/ EnsureReads(c) \/ ReadFile(c) \/ ReadTooLarge(c) \/ ReadFails(c)
    \/ DeleteFile(c) \/ ListScan(c) \/ ListLooks(c) \/ ListStats(c) \/ ListEnds(c)
HomeNext == \E c \in Clients : AskHome(c) \/ HomeStep(c)
HomeSpec == HomeInit /\ [][HomeNext]_homeVars

----------------------------------------------------------------------------
(* Properties. *)

HomeTypeOK ==
    /\ content \in [Files -> Texts \cup {Missing}]
    /\ writing \subseteq Clients /\ shard \in [LockShards -> Clients \cup {Nobody}]
    /\ etag \in [Clients -> [Files -> Texts \cup {Missing}]]
    /\ seen \in [Clients -> SUBSET (Files \X Texts)]
    /\ \A c \in Clients :
         /\ request[c].stage \in {"idle", "ensure", "ensured", "call", "put", "reread",
                                  "walk", "stat"}
         /\ (request[c].stage = "put") <=> \E s \in LockShards : shard[s] = c

\* Compare and replace are one step for everybody else: what a write replaced
\* is what its ETag named, and a create replaced nothing.  A request that ends
\* in a conflict or for lack of budget changed nothing.
WritesAsAnswered ==
    \A c \in Clients :
       /\ request[c].effect /\ request[c].kind \in {"create", "write"} =>
             request[c].replaced = request[c].expected
       /\ request[c].stage = "idle"
          /\ request[c].code \in {"workspace_conflict", "context_too_large"} =>
             ~request[c].effect

\* AGENTS.md, once there, is never missing again and is never set back to the
\* initial text but by a client that asked for it.
RootStays ==
    [][content[Root] # Missing /\ content'[Root] # content[Root] =>
         \E c \in Clients : /\ request[c].stage = "put" /\ request[c].kind = "write"
                            /\ content'[Root] = request[c].text]_homeVars

\* A browser only overwrites a text it was shown: the ETag it is given by a
\* write that another writer followed comes with that writer's text.  (A tool
\* is given the ETag without the text, and may overwrite what it never read.)
OverwritesWhatWasShown ==
    \A c \in Browsers :
       request[c].effect /\ request[c].kind = "write" =>
          <<request[c].file, request[c].replaced>> \in seen[c]
=============================================================================
