------------------------- MODULE KnowledgeRetrieval -------------------------
(***************************************************************************)
(* One search_knowledge call (tools/knowledge.py) while the documents it   *)
(* searches are renamed, reindexed and deleted: the scope is resolved in a *)
(* transaction of its own (knowledge_scope_service.py), the parsed texts   *)
(* are read one by one and returned whole if they fit, and otherwise the   *)
(* retriever of each collection is asked (knowledge_retrievers/) and its   *)
(* hits are checked against the parsed texts                               *)
(* (knowledge_retrieval_service.py).                                       *)
(*                                                                         *)
(* KnowledgeIndex has the life of the documents in detail; here it is what *)
(* a search can observe of it.  A parsed text or a record of the index is  *)
(* its document and generation: what the two hold always agrees, because   *)
(* KnowledgeIndex publishes a generation only so (PublishedDocuments).     *)
(* Scores are quarters: 0 to 4 for a vector, any number for BM25.          *)
(***************************************************************************)
EXTENDS Naturals, Sequences, FiniteSets, SequencesExt, FiniteSetsExt

CONSTANTS
    Documents,     \* numbers, so that they have an order
    Changing,      \* bound: the documents that change during the call
    CollectionOf,  \* CollectionOf[d]: the collection of a document, a number
    OwnerOf,       \* OwnerOf[c]: the owner of a collection, 0 if public
    Caller,        \* the user whose turn searches
    ChunkIndexes,  \* chunks of every document
    TextSize,      \* TextSize[d]: tokens of the whole document as a source
    ChunkSize,     \* ChunkSize[d]: tokens of a chunk of it as a source
    EmptySize,     \* tokens of a result without sources
    Questions,     \* frozen scopes with the remaining tokens
    Scorings,      \* how well the query matches: [doc, index] to vector, keyword
    MaxResults,    \* knowledge_max_results
    MaxIndexGen,   \* bound on index_generation
    MaxRenames     \* bound on renames of a document

RetrievalModes == {"vector", "keyword", "hybrid"}
ScopeConfigs ==
    {c \in [collection : Nat, ids : SUBSET Nat, mode : RetrievalModes, topK : Nat \ {0},
            threshold : Nat, vectorWeight : Nat, keywordWeight : Nat] :
       c.vectorWeight + c.keywordWeight > 0}
ASSUME SearchAssumption ==
    /\ Documents \subseteq Nat /\ IsFiniteSet(Documents) /\ Changing \subseteq Documents
    /\ ChunkIndexes \subseteq Nat /\ IsFiniteSet(ChunkIndexes)
    /\ CollectionOf \in [Documents -> Nat]
    /\ {TextSize, ChunkSize} \subseteq [Documents -> Nat]
    /\ {EmptySize, MaxRenames} \subseteq Nat /\ {MaxResults, MaxIndexGen} \subseteq Nat \ {0}
    /\ Scorings \subseteq [Documents \X ChunkIndexes -> [vector : Nat, keyword : Nat]]
    /\ Questions \subseteq [groups : Seq(ScopeConfigs), available : Nat]

VARIABLES
    documents,  \* knowledge_documents
    parsedKeys, \* parsed objects that exist: <<document, generation>>
    points,     \* generations projected to the retriever, with the filename
    scoring,    \* how the query scores
    search      \* the call

searchVars == <<documents, parsedKeys, points, scoring, search>>

----------------------------------------------------------------------------
(* The documents, as a search observes them. *)

Published(d) == documents[d].active /\ documents[d].status = "ready"

\* claim_next keeps the name for the chunks the worker is going to index.
ClaimDocument(d) ==
    /\ documents[d].active /\ documents[d].status = "queued"
    /\ documents' = [documents EXCEPT ![d].status = "processing",
                                      ![d].claimed = documents[d].name]
    /\ UNCHANGED <<parsedKeys, points, scoring, search>>

PublishDocument(d) ==
    LET gen == documents[d].gen
    IN  /\ documents[d].active /\ documents[d].status = "processing"
        /\ parsedKeys' = parsedKeys \cup {<<d, gen>>}
        /\ points' = points \cup {[doc |-> d, gen |-> gen, name |-> documents[d].claimed]}
        /\ documents' = [documents EXCEPT ![d].status = "ready"]
        /\ UNCHANGED <<scoring, search>>

\* After the publication the worker deletes what is older, best effort: the
\* parsed texts, then the records.
\* Mutant: the text of the published generation goes with the older ones.
DeleteAllParsed(d) ==
    /\ Published(d)
    /\ parsedKeys' = {k \in parsedKeys : k[1] = d => k[2] > documents[d].gen}
    /\ UNCHANGED <<documents, points, scoring, search>>
DeleteOldParsed(d) ==
    /\ Published(d)
    /\ parsedKeys' = {k \in parsedKeys : k[1] = d => k[2] >= documents[d].gen}
    /\ UNCHANGED <<documents, points, scoring, search>>
DeleteOldPoints(d) ==
    /\ Published(d)
    /\ points' = {p \in points : p.doc = d => p.gen >= documents[d].gen}
    /\ UNCHANGED <<documents, parsedKeys, scoring, search>>

ReindexDocument(d) ==
    /\ Published(d) /\ documents[d].gen < MaxIndexGen
    /\ documents' = [documents EXCEPT ![d].status = "queued", ![d].gen = @ + 1]
    /\ UNCHANGED <<parsedKeys, points, scoring, search>>

\* rename writes the name of the row and nothing else.
RenameDocument(d) ==
    /\ documents[d].active /\ documents[d].name < MaxRenames
    /\ documents' = [documents EXCEPT ![d].name = @ + 1]
    /\ UNCHANGED <<parsedKeys, points, scoring, search>>

\* delete isolates the row, then empties the retriever, then the store.
IsolateDocument(d) ==
    /\ documents[d].active
    /\ documents' = [documents EXCEPT ![d].active = FALSE]
    /\ UNCHANGED <<parsedKeys, points, scoring, search>>
DeletePoints(d) ==
    /\ ~documents[d].active
    /\ points' = {p \in points : p.doc # d}
    /\ UNCHANGED <<documents, parsedKeys, scoring, search>>
DeleteParsed(d) ==
    /\ ~documents[d].active /\ \A p \in points : p.doc # d
    /\ parsedKeys' = {k \in parsedKeys : k[1] # d}
    /\ UNCHANGED <<documents, points, scoring, search>>

DocumentsChange ==
  /\ search.stage # "answered" \* bound: later changes are of no consequence
  /\ \E d \in Changing :
       \/ ClaimDocument(d) \/ PublishDocument(d) \/ DeleteOldParsed(d)
       \/ DeleteOldPoints(d) \/ ReindexDocument(d) \/ RenameDocument(d)
       \/ IsolateDocument(d) \/ DeletePoints(d) \/ DeleteParsed(d)

----------------------------------------------------------------------------
(* Resolving the scope. *)

NoAnswer == [status |-> "none", mode |-> "none", code |-> "", sources |-> <<>>]

\* Answer and Refuse end the call; a refusal is an error the model reads.
Answer(mode, sources) ==
    search' = [search EXCEPT !.stage = "answered",
                 !.answer = [status |-> IF sources = <<>> THEN "no_match" ELSE "hit",
                             mode |-> mode, code |-> "", sources |-> sources]]
Refuse(code, faulty) ==
    search' = [search EXCEPT !.stage = "answered", !.faulted = faulty,
                 !.answer = [NoAnswer EXCEPT !.status = "error", !.code = code]]

Everything == {0} \* document_ids = null

\* _validate_configured_scopes
\* Mutant: the owner is not looked at again.
RepeatedScopes(groups) ==
    \E i \in DOMAIN groups : \E j \in DOMAIN groups \ {i} :
       groups[j].collection = groups[i].collection
InvalidScopes(groups) ==
    \E i \in DOMAIN groups :
       \/ OwnerOf[groups[i].collection] \notin {0, Caller}
       \/ groups[i].ids = {}
       \/ \E j \in DOMAIN groups \ {i} :
            \/ groups[j].collection = groups[i].collection
            \/ groups[j].ids # Everything /\ groups[j].ids \cap groups[i].ids # {}

\* list_ready_for_scopes, in one snapshot, and _project_document
ReadyDocuments(group) ==
    {[doc |-> d, gen |-> documents[d].gen, name |-> documents[d].name] :
       d \in {x \in Documents : /\ CollectionOf[x] = group.collection
                                /\ (group.ids = Everything \/ x \in group.ids)
                                /\ Published(x)}}

\* The elements of a set in an order.
Ordered(S, Before(_, _)) ==
    CHOOSE s \in SetToSeqs(S) : \A i, j \in DOMAIN s : i < j => Before(s[i], s[j])

\* Collections without a ready document are left out.
Lower(i, j) == i < j
Resolved(groups) ==
    LET kept == Ordered({i \in DOMAIN groups : ReadyDocuments(groups[i]) # {}}, Lower)
    IN  [k \in DOMAIN kept |-> [config |-> groups[kept[k]], docs |-> ReadyDocuments(groups[kept[k]])]]

Earlier(a, b) == a.doc < b.doc
ByDocument(docs) == Ordered(docs, Earlier)
AllDocuments(groups) == FlattenSeq([i \in DOMAIN groups |-> ByDocument(groups[i].docs)])

\* execute() and the beginning of search(): a result must fit even if empty.
ResolveScope ==
    /\ search.stage = "asked"
    /\ LET groups == Resolved(search.asked)
       IN  \/ Refuse("knowledge_unavailable", TRUE)
           \/ /\ InvalidScopes(search.asked)
              /\ Refuse("knowledge_scope_unavailable", FALSE)
           \/ /\ ~InvalidScopes(search.asked)
              /\ IF EmptySize > search.available THEN Refuse("context_too_large", FALSE)
                 ELSE IF groups = <<>> THEN Answer("direct", <<>>)
                 ELSE search' = [search EXCEPT !.stage = "direct", !.groups = groups, !.at = 1]
    /\ UNCHANGED <<documents, parsedKeys, points, scoring>>

----------------------------------------------------------------------------
(* The direct path: whole texts, as long as they fit. *)

KeyOf(s) == <<s.doc, s.gen>>
SumOf(sizes) ==
    LET sum[k \in 0 .. Len(sizes)] == IF k = 0 THEN 0 ELSE sum[k - 1] + sizes[k]
    IN  sum[Len(sizes)]
SizeOf(sources) == EmptySize + SumOf([i \in DOMAIN sources |-> sources[i].size])
Fits(sources) == SizeOf(sources) <= search.available
WholeSource(s) == [doc |-> s.doc, gen |-> s.gen, index |-> 0, score |-> 0, size |-> TextSize[s.doc]]

\* A text read once is kept for the rest of the call.
Readable(key) == key \in search.read \cup parsedKeys

\* Reading a parsed object that was not read before: the text is kept for the
\* rest of the call.  An object that is gone is an error, as a fault is.
ReadDirect ==
    /\ search.stage = "direct"
    /\ LET all  == AllDocuments(search.groups)
           s    == all[search.at]
           read == [i \in 1..search.at |-> WholeSource(all[i])]
       IN  \/ Refuse("knowledge_content_unavailable", TRUE)
           \/ /\ ~Readable(KeyOf(s))
              /\ Refuse("knowledge_content_unavailable", search.faulted)
           \/ /\ Readable(KeyOf(s))
              /\ IF ~Fits(read)
                   THEN search' = [search EXCEPT !.stage = "retrieve", !.at = 1,
                                                 !.read = @ \cup {KeyOf(s)}]
                 ELSE IF search.at = Len(all) THEN Answer("direct", read)
                 ELSE search' = [search EXCEPT !.at = @ + 1, !.read = @ \cup {KeyOf(s)}]
    /\ UNCHANGED <<documents, parsedKeys, points, scoring>>

----------------------------------------------------------------------------
(* The retrievers. *)

Group == search.groups[search.at]

\* The exact generations of the group, whatever else the index holds.
InFilter(p) == \E s \in Group.docs : KeyOf(s) = KeyOf(p)
Records ==
    {[doc |-> p.doc, gen |-> p.gen, name |-> p.name, index |-> i] :
       p \in {q \in points : InFilter(q)}, i \in ChunkIndexes}

VectorScore(k) == scoring[<<k.doc, k.index>>].vector
KeywordScore(k) == scoring[<<k.doc, k.index>>].keyword

\* What a store may return as its best records: equal scores come in any order.
Best(records, limit, score) ==
    {T \in SUBSET records :
       /\ Cardinality(T) = Min({limit, Cardinality(records)})
       /\ \A t \in T, u \in records \ T : score[t] >= score[u]}

\* BM25 scores above 1 are divided by the best of the batch.
Normalized(k, batch) ==
    LET best == Max({KeywordScore(x) : x \in batch} \cup {4})
    IN  (KeywordScore(k) * 4) \div best

Fused(config, vector, keyword) ==
    (config.vectorWeight * vector + config.keywordWeight * keyword)
      \div (config.vectorWeight + config.keywordWeight)

\* _hybrid_search: a record that only one of the two searches found scores 0
\* in the other.
Merged(config, vectors, keywords) ==
    {[record |-> k,
      score |-> Fused(config, IF k \in vectors THEN VectorScore(k) ELSE 0,
                              IF k \in keywords THEN Normalized(k, keywords) ELSE 0)] :
       k \in vectors \cup keywords}

ChunkBefore(a, b) ==
    \/ CollectionOf[a.doc] < CollectionOf[b.doc]
    \/ CollectionOf[a.doc] = CollectionOf[b.doc] /\ a.doc < b.doc
    \/ a.doc = b.doc /\ a.index < b.index
BetterHit(a, b) ==
    a.score > b.score \/ (a.score = b.score /\ ChunkBefore(a.record, b.record))
Ranked(hits) == Ordered(hits, BetterHit)
TopOf(hits, limit) == SubSeq(Ranked(hits), 1, Min({limit, Cardinality(hits)}))

Found(hits) == search' = [search EXCEPT !.stage = "validate", !.hits = hits, !.vectors = {}]

RetrieverFails ==
    /\ search.stage \in {"retrieve", "keyword"}
    /\ Refuse("knowledge_retriever_unavailable", TRUE)
    /\ UNCHANGED <<documents, parsedKeys, points, scoring>>

VectorSearch ==
    /\ search.stage = "retrieve" /\ Group.config.mode \in {"vector", "hybrid"}
    /\ \E best \in Best(Records, Group.config.topK, [k \in Records |-> VectorScore(k)]) :
         IF Group.config.mode = "hybrid"
           THEN search' = [search EXCEPT !.stage = "keyword", !.vectors = best]
           ELSE Found(Ranked({[record |-> k, score |-> VectorScore(k)] : k \in best}))
    /\ UNCHANGED <<documents, parsedKeys, points, scoring>>

\* The second search of a hybrid one is a call of its own.
KeywordSearch ==
    /\ \/ search.stage = "retrieve" /\ Group.config.mode = "keyword"
       \/ search.stage = "keyword"
    /\ \E best \in Best({k \in Records : KeywordScore(k) > 0}, Group.config.topK,
                       [k \in Records |-> KeywordScore(k)]) :
         IF Group.config.mode = "hybrid"
           THEN Found(TopOf(Merged(Group.config, search.vectors, best), Group.config.topK))
           ELSE Found(Ranked({[record |-> k, score |-> Normalized(k, best)] : k \in best}))
    /\ UNCHANGED <<documents, parsedKeys, points, scoring>>

----------------------------------------------------------------------------
(* What the retriever returned is checked, ranked and cut. *)

Candidate(h) ==
    [doc |-> h.record.doc, gen |-> h.record.gen, index |-> h.record.index,
     score |-> h.score, size |-> ChunkSize[h.record.doc]]

\* _validate_hit, for the next hit: its filename must be the one resolved, its
\* text the one of the parsed object, its score not below the threshold.
ValidateHit ==
    /\ search.stage = "validate" /\ search.hits # <<>>
    /\ LET h     == Head(search.hits)
           key   == KeyOf(h.record)
           known == \E s \in Group.docs : KeyOf(s) = key /\ s.name = h.record.name
           kept  == IF h.score >= Group.config.threshold THEN {Candidate(h)} ELSE {}
       IN  \/ /\ ~known
              /\ Refuse("knowledge_retriever_unavailable", search.faulted)
           \/ /\ known /\ Readable(key)
              /\ search' = [search EXCEPT !.hits = Tail(@),
                                          !.read = @ \cup {key},
                                          !.candidates = @ \cup kept]
           \/ /\ known /\ key \notin search.read
              /\ \/ Refuse("knowledge_content_unavailable", TRUE)
                 \/ /\ ~Readable(key)
                    /\ Refuse("knowledge_content_unavailable", search.faulted)
    /\ UNCHANGED <<documents, parsedKeys, points, scoring>>

\* _candidate_sort_key
\* Mutant: sources are only ordered by where they come from.
SourceOrder(a, b) == ChunkBefore(a, b)
BetterSource(a, b) == a.score > b.score \/ (a.score = b.score /\ ChunkBefore(a, b))

\* _fit_candidates: a source that does not fit is passed over.
Fitted(candidates) ==
    LET chosen[k \in 0 .. Len(candidates)] ==
          IF k = 0 THEN <<>>
          ELSE IF Fits(Append(chosen[k - 1], candidates[k]))
            THEN Append(chosen[k - 1], candidates[k]) ELSE chosen[k - 1]
    IN  chosen[Len(candidates)]

NextGroup ==
    /\ search.stage = "validate" /\ search.hits = <<>>
    /\ LET ranked == Ordered(search.candidates, BetterSource)
           capped == SubSeq(ranked, 1, Min({MaxResults, Len(ranked)}))
       IN  IF search.at < Len(search.groups)
             THEN search' = [search EXCEPT !.stage = "retrieve", !.at = @ + 1]
           ELSE IF capped # <<>> /\ Fitted(capped) = <<>>
             THEN Refuse("context_too_large", search.faulted)
           ELSE Answer("rag", Fitted(capped))
    /\ UNCHANGED <<documents, parsedKeys, points, scoring>>

SearchStep == ResolveScope \/ ReadDirect \/ RetrieverFails \/ VectorSearch
                \/ KeywordSearch \/ ValidateHit \/ NextGroup

----------------------------------------------------------------------------
(* Specification. *)

FirstRows == {[active |-> TRUE, status |-> s, gen |-> 1, name |-> 0, claimed |-> 0] :
                s \in {"queued", "ready"}}

SearchInit ==
    /\ documents \in [Documents -> FirstRows]
    /\ parsedKeys = {<<d, 1>> : d \in {x \in Documents : Published(x)}}
    /\ points = {[doc |-> d, gen |-> 1, name |-> 0] : d \in {x \in Documents : Published(x)}}
    /\ scoring \in Scorings
    /\ search \in {[stage |-> "asked", asked |-> q.groups, available |-> q.available,
                    groups |-> <<>>, at |-> 0, read |-> {}, vectors |-> {}, hits |-> <<>>,
                    candidates |-> {}, faulted |-> FALSE, answer |-> NoAnswer] : q \in Questions}

SearchNext == DocumentsChange \/ SearchStep
SearchSpec == SearchInit /\ [][SearchNext]_searchVars

----------------------------------------------------------------------------
(* Properties. *)

Answered == search.stage = "answered"
Asked == UNION {search.groups[i].docs : i \in DOMAIN search.groups}

\* A document the scope holds that is no longer published at that generation,
\* and one whose records carry another filename than the row had.
Gone(s) == ~Published(s.doc) \/ documents[s.doc].gen # s.gen
Misnamed(s) == \E p \in points : KeyOf(p) = KeyOf(s) /\ p.name # s.name
Undisturbed == \A s \in Asked : ~Gone(s) /\ ~Misnamed(s)

SearchTypeOK ==
    /\ \A d \in Documents :
         /\ documents[d].status \in {"queued", "processing", "ready"}
         /\ documents[d].gen \in 1..MaxIndexGen /\ documents[d].name \in 0..MaxRenames
         /\ documents[d].active \in BOOLEAN /\ documents[d].claimed \in 0..MaxRenames
    /\ parsedKeys \subseteq Documents \X (1..MaxIndexGen)
    /\ search.read \subseteq Documents \X (1..MaxIndexGen)
    /\ search.stage \in {"asked", "direct", "retrieve", "keyword", "validate", "answered"}
    /\ search.answer.status \in {"none", "hit", "no_match", "error"}
    /\ Answered <=> (search.answer # NoAnswer)

\* How well a chunk matches, by the definition of its collection's mode.
Matching(group) ==
    LET best == Max({scoring[<<s.doc, i>>].keyword : s \in group.docs, i \in ChunkIndexes} \cup {4})
        scoreOf(s, i) == IF group.config.mode = "keyword"
                           THEN (scoring[<<s.doc, i>>].keyword * 4) \div best
                           ELSE scoring[<<s.doc, i>>].vector
    IN  {[doc |-> s.doc, gen |-> s.gen, index |-> i, score |-> scoreOf(s, i)] :
           s \in group.docs, i \in ChunkIndexes}
Relevant(group) ==
    {m \in Matching(group) : /\ group.config.mode # "hybrid"
                             /\ group.config.mode = "keyword" => m.score > 0
                             /\ m.score >= group.config.threshold}
AllRelevant == UNION {Relevant(search.groups[i]) : i \in DOMAIN search.groups}

\* An error names what went wrong: nothing but a fault, a document that was
\* taken away during the call or one that was renamed makes the search fail,
\* and a result is too large only if none of its sources fits.
ErrorsAreExplained ==
    LET code == search.answer.code
    IN  /\ code \in {"knowledge_retriever_unavailable", "knowledge_content_unavailable"} =>
             search.faulted \/ ~Undisturbed
        /\ code = "knowledge_content_unavailable" =>
             search.faulted \/ \E s \in Asked : Gone(s)
        /\ code = "knowledge_scope_unavailable" => InvalidScopes(search.asked)
        /\ code = "knowledge_unavailable" => search.faulted
        /\ code = "context_too_large" =>
             \/ EmptySize > search.available
             \/ \E c \in search.candidates : EmptySize + c.size > search.available

\* knowledge.md: a rename is metadata and needs nothing of the retriever, so a
\* search fails as "retriever unavailable" only if the retriever failed.
RetrieverErrorIsFault ==
    search.answer.code = "knowledge_retriever_unavailable" => search.faulted

\* Sources come only from documents the frozen scope names in collections the
\* user may read, at the generation that was published when it was resolved.
SourcesInScope ==
    \A i \in DOMAIN search.answer.sources :
       LET source == search.answer.sources[i]
       IN  /\ OwnerOf[CollectionOf[source.doc]] \in {0, Caller}
           /\ \E g \in DOMAIN search.asked :
                /\ search.asked[g].collection = CollectionOf[source.doc]
                /\ (search.asked[g].ids = Everything \/ source.doc \in search.asked[g].ids)
           /\ \E s \in Asked : KeyOf(s) = KeyOf(source)
           /\ \A j \in DOMAIN search.answer.sources :
                /\ search.answer.sources[j].doc = source.doc =>
                     search.answer.sources[j].gen = source.gen
                /\ j # i => search.answer.sources[j] # source

\* As long as no document of the scope is republished, reindexed or deleted
\* while it is searched, no_match says that nothing in scope matches
\* (knowledge.md:140), a direct answer leaves out no document of the scope, and
\* the first source is as good as any chunk of any collection, unless one that
\* its collection ranks as high does not fit: top_k may have kept that one only.
Alone(m) == EmptySize + ChunkSize[m.doc] <= search.available
BestSourceFirst ==
    Answered /\ Undisturbed =>
       /\ search.answer.status = "no_match" => AllRelevant = {}
       /\ search.answer.mode = "direct" =>
            {search.answer.sources[i].doc : i \in DOMAIN search.answer.sources}
              = {s.doc : s \in Asked}
       /\ search.answer.mode = "rag" =>
            \A i \in DOMAIN search.groups : \A m \in Relevant(search.groups[i]) :
               (\A n \in Relevant(search.groups[i]) : n.score >= m.score => Alone(n)) =>
                  search.answer.sources[1].score >= m.score
=============================================================================
