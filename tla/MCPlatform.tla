----------------------------- MODULE MCPlatform -----------------------------
(* Instances for TLC of the components that share no state with one another: *)
(* a behaviour is of one of them, and the others stay as they began.         *)
EXTENDS AgentTurn, KnowledgeRetrieval, AgentHome, Resources, Lifespan, Bootstrap

VARIABLE component \* the component that runs

----------------------------------------------------------------------------
(* AgentTurn: a short history, one with an attachment, a failed chain and a  *)
(* cancelled turn, and one that does not fit.                                *)

Ctx(t, n) == [type |-> t, size |-> n]
Turn(n, cs, st, ch, v) ==
    [user |-> n, contexts |-> cs, assistant |-> [status |-> st, chain |-> ch, value |-> v]]
Current(n, cs) == Turn(n, cs, "PENDING", <<>>, 0)
MCHistories ==
    {<<Turn(2, <<>>, "COMPLETED", <<1, 0, 1>>, 1), Current(1, <<>>)>>,
     <<Turn(1, <<Ctx("attachment", 5)>>, "COMPLETED", Broken, 1),
       Turn(1, <<>>, "CANCELLED", <<>>, 1),
       Current(1, <<Ctx("knowledge_base", 1), Ctx("selected_documents", 9)>>)>>,
     <<Current(1, <<Ctx("attachment", 9)>>)>>}
Piece(n, l, b) == [size |-> n, length |-> l, blank |-> b]
MCPieces == {Piece(3, 3, FALSE), Piece(1, 1, TRUE), Piece(1, 6, FALSE)}
\* Arguments that fit everywhere, that fit a block and not the result, that are
\* too much for a block or for a call, and that leave no room for the notice that
\* the call was interrupted.
Data(w, d) == [weight |-> w, depth |-> d]
MCArguments == {Data(1, 1), Data(1, 3), Data(1, 4), Data(1, 5), Data(19, 1)}

\* Only the last call of the turn's first message has large arguments, in a
\* message without reasoning, in one history and without AGENTS.md.
Large(calls) == {i \in DOMAIN calls : calls[i].arguments # Data(1, 1)}
LargeCallsBound ==
    node = "agent" /\ Large(stream.calls) # {} =>
       /\ Large(stream.calls) = {Len(stream.calls)} /\ ~stream.reasoning
       /\ graph = <<>> /\ home = 0 /\ Len(history) = 2

\* Only the turn's first message has reasoning, in the same history.
ReasoningBound ==
    node = "agent" /\ stream.reasoning => graph = <<>> /\ home = 0 /\ Len(history) = 2

\* Identities of tool calls are only compared: the first call has the same one
\* in every behaviour.
FirstIdBound ==
    graph = <<>> /\ stream.calls # <<>> =>
       stream.calls[1].id = CHOOSE id \in CallIds : TRUE

MCResults ==
    {[size |-> 1, length |-> 1, sources |-> 1, error |-> FALSE],
     [size |-> 4, length |-> 4, sources |-> 0, error |-> TRUE],
     [size |-> 1, length |-> 6, sources |-> 0, error |-> FALSE]}

TurnIdle == TurnInit /\ ~tools /\ history = <<Current(1, <<Ctx("attachment", 9)>>)>>

----------------------------------------------------------------------------
(* KnowledgeRetrieval: collections of the caller, of everybody and of        *)
(* another user; questions that fit whole, that need the retriever and that  *)
(* do not fit at all.                                                        *)

MCCollectionOf == <<1, 1, 2, 3>>
MCOwnerOf == <<7, 0, 8>>
MCTextSize == <<3, 6, 2, 1>>
MCChunkSize == <<2, 3, 1, 1>>
Col(c, ids, mode, k, t) ==
    [collection |-> c, ids |-> ids, mode |-> mode, topK |-> k, threshold |-> t,
     vectorWeight |-> 1, keywordWeight |-> 1]
MCQuestions ==
    {[groups |-> <<Col(1, {0}, m, 1, 2), Col(2, {3}, "vector", 2, 0)>>, available |-> 6] :
        m \in {"vector", "keyword", "hybrid"}}
    \cup {[groups |-> <<Col(1, {1}, "vector", 2, 2)>>, available |-> a] : a \in {0, 1, 3, 4}}
    \cup {[groups |-> <<Col(1, {0}, "vector", 1, 2), Col(2, {3}, "vector", 2, 0)>>, available |-> 3],
          [groups |-> <<Col(3, {0}, "vector", 2, 2)>>, available |-> 9],
          [groups |-> <<Col(2, {3}, "vector", 2, 2), Col(2, {3}, "vector", 2, 2)>>,
           available |-> 9]}
Scores(v, k) == [vector |-> v, keyword |-> k]
MCScorings ==
    {[p \in Documents \X ChunkIndexes |->
        CASE p = <<1, 1>> -> Scores(ab[1], 0) [] p = <<1, 2>> -> Scores(1, 3)
          [] p = <<2, 1>> -> Scores(2, 6) [] p = <<2, 2>> -> Scores(0, 0)
          [] p = <<3, 1>> -> Scores(ab[2], 1) [] OTHER -> Scores(1, 1)] :
       ab \in {<<0, 4>>, <<2, 1>>, <<4, 1>>, <<4, 4>>}}

SearchIdle ==
    /\ SearchInit
    /\ \A d \in Documents : Published(d)
    /\ scoring = CHOOSE s \in MCScorings : TRUE
    /\ search.asked[1].collection = 3

----------------------------------------------------------------------------
(* AgentHome: every key hashes to the same lock of the store.                *)

MCLockShardOf == [f \in Files |-> CHOOSE s \in LockShards : TRUE]
HomeIdle == HomeInit /\ backend = "s3"

----------------------------------------------------------------------------
(* Resources: a private agent over a public workspace and a private          *)
(* collection; a second agent is created and the first one edited towards    *)
(* the public collection, while what they refer to is edited and deleted; a  *)
(* Task of the first agent is sent to and tried again.                       *)

MCOwnerIdOf == [r \in ResourceRows |-> IF r \in {21, 31} THEN 0 ELSE 7]
MCHeldIn == [d \in DocumentRows |-> IF d = 42 THEN 32 ELSE 31]
Conf(h, cs, ds) == [home |-> h, collections |-> cs, documents |-> ds]
MCFirstConfigs ==
    {[a \in AgentRows |-> IF a = 11 THEN Conf(21, {32}, {}) ELSE Conf(0, {}, {})]}
Req(k, r) == [kind |-> k, target |-> r, config |-> Conf(0, {}, {}), active |-> TRUE,
              name |-> 0, task |-> 0, drafts |-> {}]
MCResourceRequests ==
    {[Req("create_agent", 12) EXCEPT !.config = Conf(21, {31}, {41}), !.name = 90],
     [Req("put_agent", 11) EXCEPT !.config = Conf(21, {31, 32}, {41, 42}), !.name = 90],
     [Req("put_agent", 11) EXCEPT !.config = Conf(0, {32}, {}), !.active = FALSE],
     [Req("put", 21) EXCEPT !.active = FALSE],
     [Req("put", 31) EXCEPT !.active = FALSE],
     [Req("send", 11) EXCEPT !.task = 61, !.drafts = {51}], [Req("retry", 11) EXCEPT !.task = 61],
     Req("delete", 21), Req("delete", 32), Req("delete_document", 41),
     Req("reconfigure", 31), Req("upload", 43), Req("delete_draft", 51),
     Req("delete_agent", 11)}

----------------------------------------------------------------------------
Init ==
    /\ component \in {"turn", "search", "home", "resources", "lifespan", "bootstrap"}
    /\ IF component = "turn" THEN TurnInit ELSE TurnIdle
    /\ IF component = "search" THEN SearchInit ELSE SearchIdle
    /\ IF component = "home" THEN HomeInit ELSE HomeIdle
    /\ ResourceInit /\ LifeInit /\ BootInit

Next ==
    /\ UNCHANGED component
    /\ \/ /\ component = "turn" /\ TurnNext /\ LargeCallsBound' /\ ReasoningBound' /\ FirstIdBound'
          /\ UNCHANGED <<searchVars, homeVars, resourceVars, lifeVars, bootVars>>
       \/ /\ component = "search" /\ SearchNext
          /\ UNCHANGED <<turnVars, homeVars, resourceVars, lifeVars, bootVars>>
       \/ /\ component = "home" /\ HomeNext
          /\ UNCHANGED <<turnVars, searchVars, resourceVars, lifeVars, bootVars>>
       \/ /\ component = "resources" /\ ResourceNext
          /\ UNCHANGED <<turnVars, searchVars, homeVars, lifeVars, bootVars>>
       \/ /\ component = "lifespan" /\ LifeNext
          /\ UNCHANGED <<turnVars, searchVars, homeVars, resourceVars, bootVars>>
       \/ /\ component = "bootstrap" /\ BootNext
          /\ UNCHANGED <<turnVars, searchVars, homeVars, resourceVars, lifeVars>>

Spec == Init /\ [][Next]_<<component, turnVars, searchVars, homeVars, resourceVars, lifeVars, bootVars>>

\* The variables of the component that runs have the values its actions rely on.
PlatformTypeOK ==
    CASE component = "turn" -> TurnTypeOK [] component = "search" -> SearchTypeOK
      [] component = "home" -> HomeTypeOK [] component = "resources" -> ResourceTypeOK
      [] component = "lifespan" -> LifeTypeOK [] component = "bootstrap" -> BootTypeOK
=============================================================================
