--------------------------- MODULE KnowledgeIndex ---------------------------
(***************************************************************************)
(* The life of Knowledge Documents in one backend process: upload, the     *)
(* index worker, reindexing, renaming, collection updates and deletion.    *)
(*                                                                         *)
(* MySQL holds one row per document.  The object store holds the source    *)
(* file and one parsed text per index generation; the retriever holds the  *)
(* chunk projection of every generation.  A database transaction is one    *)
(* action, because every transaction of the code locks the rows it decides *)
(* on; each call to the object store or to the retriever is an action of   *)
(* its own, and may fail before, in the middle of or after its effect.     *)
(* The worker and a delete request exclude each other per document through *)
(* DocumentOperationCoordinator, which reindexing, renaming, collection    *)
(* updates and the claim of another worker do not use.                     *)
(***************************************************************************)
EXTENDS Naturals, FiniteSets

CONSTANTS
    Docs,        \* documents of one collection
    Workers,     \* index worker threads sharing the coordinator (one is shipped)
    Deleters,    \* threads serving DELETE requests
    Ids,         \* values of uuid4(), recycled once nobody holds them
    Texts,       \* what the extractors of the deployed builds make of a file
    Configs,     \* the collection's chunk_size and chunk_overlap
    Size,        \* Size[t][c]: number of chunks text t is split into under c
    Shards,      \* the coordinator's locks
    ShardOf,     \* the lock a document hashes to
    MaxGen,      \* bound on index_generation
    MaxOutages,  \* bound on process crashes and failed transactions
    StoreFaults, \* whether object store and retriever calls may fail
    NoId, NoText, Free

ASSUME IdAssumption == NoId \notin Ids
ASSUME TextAssumption == NoText \notin Texts
ASSUME ActorAssumption ==
    /\ Workers \cap Deleters = {}
    /\ Free \notin Workers \cup Deleters
ASSUME ShardAssumption == ShardOf \in [Docs -> Shards]
ASSUME SizeAssumption == Size \in [Texts -> [Configs -> Nat \ {0}]]
ASSUME NonEmptyAssumption == Docs # {} /\ Configs # {}
ASSUME BoundAssumption ==
    /\ MaxGen \in Nat \ {0}
    /\ MaxOutages \in Nat
    /\ StoreFaults \in BOOLEAN

VARIABLES
    row,         \* knowledge_documents
    collection,  \* the collection's row in resources
    upload,      \* where the upload request of each document is
    source,      \* documents whose source object exists
    parsed,      \* parsed[d][g]: the parsed object of generation g
    chunks,      \* chunks[d][g]: the retriever's records of generation g
    work,        \* the claim each worker is processing
    req,         \* the DELETE request each thread is serving
    lock,        \* holder of each coordinator shard
    build,       \* the extractor of the running process
    outages      \* crashes and failed transactions so far

vars == <<row, collection, upload, source, parsed, chunks, work, req, lock,
          build, outages>>
stores == <<source, parsed, chunks>>

-----------------------------------------------------------------------------
(* Types *)

Gens == 1 .. MaxGen
Actors == Workers \cup Deleters
Chunk == [text : Texts, config : Configs, index : Nat]

\* models.KnowledgeDocument.  parsed_object_key is the generation of the key
\* (0 for NULL); stale says that updated_at is older than the processing
\* timeout.  Status "none" is a row that does not exist; "uploaded" is never
\* committed, because the upload queues the document in the same transaction.
Row == [status : {"none", "queued", "processing", "ready", "failed"},
        gen : 0 .. MaxGen, attempt : Ids \cup {NoId}, parsed : 0 .. MaxGen,
        active : BOOLEAN, cleanup : Ids \cup {NoId},
        error : {"none", "index", "cleanup_pending", "cleanup_failed"},
        stale : BOOLEAN]

NoRow == [status |-> "none", gen |-> 0, attempt |-> NoId, parsed |-> 0,
          active |-> FALSE, cleanup |-> NoId, error |-> "none",
          stale |-> FALSE]

UploadStates == {"none", "put", "insert", "compensate",
                 "accepted", "rejected", "lost"}

\* Stages at which a worker is inside coordinator.hold.
MutationStages == {"put", "check_delete", "delete", "check_upsert", "upsert",
                   "complete"}
StaleStages == {"stale_parsed", "stale_chunks"}
OldStages == {"old_parsed", "old_chunks"}
LockedStages == MutationStages \cup StaleStages \cup OldStages \cup
                {"check_put", "check_published", "check_after",
                 "fail", "check_fail"}
WorkStages == LockedStages \cup {"idle", "read", "lock", "failed_lock"}

Work == [stage : WorkStages, doc : Docs, gen : 0 .. MaxGen,
         attempt : Ids \cup {NoId}, config : Configs,
         text : Texts \cup {NoText}]

DeleteStages == {"isolate", "projections", "parsed", "source", "finish"}
Request == [stage : DeleteStages \cup {"idle", "lock"}, doc : Docs,
            cleanup : Ids \cup {NoId}, failed : BOOLEAN]

TypeOK ==
    /\ row \in [Docs -> Row]
    /\ collection \in [state : {"active", "inactive", "deleted"},
                       config : Configs]
    /\ upload \in [Docs -> UploadStates]
    /\ source \subseteq Docs
    /\ parsed \in [Docs -> [Gens -> Texts \cup {NoText}]]
    /\ chunks \in [Docs -> [Gens -> SUBSET Chunk]]
    /\ work \in [Workers -> Work]
    /\ req \in [Deleters -> Request]
    /\ lock \in [Shards -> Actors \cup {Free}]
    /\ build \in Texts
    /\ outages \in 0 .. MaxOutages

\* A worker between claims, and a request thread without a request.
NoWork == [stage |-> "idle", doc |-> CHOOSE d \in Docs : TRUE, gen |-> 0,
           attempt |-> NoId, config |-> CHOOSE c \in Configs : TRUE,
           text |-> NoText]
NoRequest == [stage |-> "idle", doc |-> CHOOSE d \in Docs : TRUE,
              cleanup |-> NoId, failed |-> FALSE]

Init ==
    /\ row = [d \in Docs |-> NoRow]
    /\ collection \in [state : {"active"}, config : Configs]
    /\ upload = [d \in Docs |-> "none"]
    /\ source = {}
    /\ parsed = [d \in Docs |-> [g \in Gens |-> NoText]]
    /\ chunks = [d \in Docs |-> [g \in Gens |-> {}]]
    /\ work = [w \in Workers |-> NoWork]
    /\ req = [r \in Deleters |-> NoRequest]
    /\ lock = [s \in Shards |-> Free]
    /\ build \in Texts
    /\ outages = 0

-----------------------------------------------------------------------------
(* The retriever and the object store, as the worker uses them *)

\* KnowledgeChunkService.split: the chunks of a text, identified by index.
Split(text, config) ==
    [text : {text}, config : {config}, index : 1 .. Size[text][config]]

\* upsert_generation overwrites the records that have the same index.
Overwrite(old, new) ==
    new \cup {k \in old : \A n \in new : n.index # k.index}

\* A failing call may have done any part of its work.
PartOf(S) == IF StoreFaults THEN SUBSET S ELSE {}

\* An outage is a crash, or a transaction whose commit is not acknowledged.
Outage == outages < MaxOutages /\ outages' = outages + 1

-----------------------------------------------------------------------------
(* DocumentOperationCoordinator *)

LockOf(d) == ShardOf[d]
\* Mutant: the lock is taken without waiting for its holder.
BargeIn(actor, d) == lock' = [lock EXCEPT ![LockOf(d)] = actor]
Acquire(actor, d) ==
    lock[LockOf(d)] = Free /\ lock' = [lock EXCEPT ![LockOf(d)] = actor]
Release(d) == lock' = [lock EXCEPT ![LockOf(d)] = Free]

-----------------------------------------------------------------------------
(* The index worker *)

ManageableCollection == collection.state = "active"

\* Mutant: a claim whose worker died is never taken over.
ClaimableOnce(d) ==
    ManageableCollection /\ row[d].active /\ row[d].status = "queued"
Claimable(d) ==
    /\ ManageableCollection
    /\ row[d].active
    /\ \/ row[d].status = "queued"
       \/ row[d].status = "processing" /\ row[d].stale

HeldAttempts == {row[d].attempt : d \in Docs} \cup
                {work[w].attempt : w \in Workers}

\* The updates claim_next makes.  SKIP LOCKED lets any claimable row be the
\* one returned, whatever the ORDER BY says of the rows before it.
Claimed(r, id) ==
    [r EXCEPT !.status = "processing", !.attempt = id, !.stale = FALSE]

ClaimNext(w, d) ==
    /\ work[w].stage = "idle"
    /\ Claimable(d)
    /\ \E id \in Ids \ HeldAttempts :
        /\ row' = [row EXCEPT ![d] = Claimed(@, id)]
        /\ work' = [work EXCEPT ![w] =
             [stage |-> "read", doc |-> d, gen |-> row[d].gen, attempt |-> id,
              config |-> collection.config, text |-> NoText]]
    /\ UNCHANGED <<collection, upload, stores, req, lock, build, outages>>

\* The claim commits, its acknowledgement is lost: nobody works on the claim.
ClaimNextLost(w, d) ==
    /\ Outage
    /\ work[w].stage = "idle"
    /\ Claimable(d)
    /\ \E id \in Ids \ HeldAttempts :
        row' = [row EXCEPT ![d] = Claimed(@, id)]
    /\ UNCHANGED <<collection, upload, stores, work, req, lock, build>>

\* run_once finds nothing to claim.
Poll(w) ==
    /\ work[w].stage = "idle"
    /\ ~ \E d \in Docs : Claimable(d)
    /\ UNCHANGED vars

GoTo(w, stage) == work' = [work EXCEPT ![w].stage = stage]
\* Mutant: the lock outlives the block that took it.
LeaveLocked(w) == work' = [work EXCEPT ![w] = NoWork] /\ UNCHANGED lock
Leave(w) == work' = [work EXCEPT ![w] = NoWork] /\ Release(work[w].doc)

\* An exception inside the block leaves coordinator.hold, and the handler
\* takes the lock again: others may get it in between.
Abort(w) == GoTo(w, "failed_lock") /\ Release(work[w].doc)

\* _read_verified_source, extract_required and split, outside the lock.
ReadSource(w) ==
    /\ work[w].stage = "read"
    /\ \/ /\ work[w].doc \in source
          /\ work' = [work EXCEPT ![w].stage = "lock", ![w].text = build]
       \/ GoTo(w, "failed_lock")
    /\ UNCHANGED <<row, collection, upload, stores, req, lock, build, outages>>

EnterHold(w) ==
    /\ \/ work[w].stage = "lock" /\ GoTo(w, "check_put")
       \/ work[w].stage = "failed_lock" /\ GoTo(w, "fail")
    /\ Acquire(w, work[w].doc)
    /\ UNCHANGED <<row, collection, upload, stores, req, build, outages>>

\* _claim_disposition
Obsolete(w) == LET r == row[work[w].doc] IN
    ~r.active \/ r.gen # work[w].gen
\* Mutant: rule 5 of the documentation alone, without the attempt's identity.
OwnedGeneration(w) == ~Obsolete(w)
Owned(w) == LET r == row[work[w].doc] IN
    /\ ~Obsolete(w)
    /\ r.status = "processing" /\ r.attempt = work[w].attempt

\* _prepare_for_mutation, before each of the three mutations.
Mutation == [check_put |-> "put", check_delete |-> "delete",
             check_upsert |-> "upsert"]

PrepareForMutation(w) ==
    /\ work[w].stage \in DOMAIN Mutation
    /\ \/ Owned(w) /\ GoTo(w, Mutation[work[w].stage]) /\ UNCHANGED lock
       \/ Obsolete(w) /\ GoTo(w, "stale_parsed") /\ UNCHANGED lock
       \/ ~Owned(w) /\ ~Obsolete(w) /\ Leave(w)
    /\ UNCHANGED <<row, collection, upload, stores, req, build, outages>>

\* Reading the attempt state fails; in the handler itself the error only ends
\* the iteration.
PrepareFails(w) ==
    /\ Outage
    /\ \/ work[w].stage \in DOMAIN Mutation \cup {"check_published", "check_after"}
          /\ Abort(w)
       \/ work[w].stage = "check_fail" /\ Leave(w)
    /\ UNCHANGED <<row, collection, upload, stores, req, build>>

\* _put_parsed_idempotently: if_none_match writes nothing over an object, and
\* an object that exists must hold the same text.
PutIfAbsent(w) == parsed' = [parsed EXCEPT ![work[w].doc][work[w].gen] =
                                IF @ = NoText THEN work[w].text ELSE @]

\* Mutant: whatever an earlier attempt stored is accepted.
AnyText(w) == TRUE
SameText(w) ==
    parsed[work[w].doc][work[w].gen] \in {NoText, work[w].text}

PutParsed(w) ==
    /\ work[w].stage = "put"
    /\ \/ SameText(w) /\ PutIfAbsent(w) /\ GoTo(w, "check_delete") /\ UNCHANGED lock
       \/ ~SameText(w) /\ UNCHANGED parsed /\ Abort(w)
       \/ StoreFaults /\ (UNCHANGED parsed \/ PutIfAbsent(w)) /\ Abort(w)
    /\ UNCHANGED <<row, collection, upload, source, chunks, req, build, outages>>

DeleteGeneration(w) == LET d == work[w].doc  g == work[w].gen IN
    /\ work[w].stage = "delete"
    /\ \/ /\ chunks' = [chunks EXCEPT ![d][g] = {}]
          /\ GoTo(w, "check_upsert") /\ UNCHANGED lock
       \/ /\ \E left \in PartOf(chunks[d][g]) :
                chunks' = [chunks EXCEPT ![d][g] = left]
          /\ Abort(w)
    /\ UNCHANGED <<row, collection, upload, source, parsed, req, build, outages>>

UpsertGeneration(w) ==
    LET d == work[w].doc
        g == work[w].gen
        new == Split(work[w].text, work[w].config)
    IN
    /\ work[w].stage = "upsert"
    /\ \/ /\ chunks' = [chunks EXCEPT ![d][g] = Overwrite(@, new)]
          /\ GoTo(w, "complete") /\ UNCHANGED lock
       \/ /\ \E done \in PartOf(new) :
                chunks' = [chunks EXCEPT ![d][g] = Overwrite(@, done)]
          /\ Abort(w)
    /\ UNCHANGED <<row, collection, upload, source, parsed, req, build, outages>>

\* Mutant: the key of the next generation is recorded.
CompletedNext(r) == [r EXCEPT !.status = "ready", !.parsed = r.gen + 1,
                              !.error = "none", !.attempt = NoId, !.stale = FALSE]
Completed(r) == [r EXCEPT !.status = "ready", !.parsed = r.gen,
                          !.error = "none", !.attempt = NoId, !.stale = FALSE]
Failed(r) == [r EXCEPT !.status = "failed", !.error = "index",
                       !.attempt = NoId, !.stale = FALSE]
Publication(w) == [row EXCEPT ![work[w].doc] = Completed(@)]
Failure(w) == [row EXCEPT ![work[w].doc] = Failed(@)]

\* The condition of both conditional updates is the one of Owned.
CompleteGeneration(w) ==
    /\ work[w].stage = "complete"
    /\ \/ Owned(w) /\ row' = Publication(w) /\ GoTo(w, "check_published")
       \/ ~Owned(w) /\ UNCHANGED row /\ GoTo(w, "check_after")
    /\ UNCHANGED <<collection, upload, stores, req, lock, build, outages>>

CompleteGenerationFails(w) ==
    /\ Outage
    /\ work[w].stage = "complete"
    /\ row' \in {row} \cup {r \in {Publication(w)} : Owned(w)}
    /\ Abort(w)
    /\ UNCHANGED <<collection, upload, stores, req, build>>

\* _cleanup_published_old_generations reads the state again; a document that
\* is no longer published at this generation is left to others.
CheckPublished(w) == LET r == row[work[w].doc] IN
    /\ work[w].stage = "check_published"
    /\ \/ /\ r.active /\ r.status = "ready"
          /\ r.gen = work[w].gen /\ r.parsed = work[w].gen
          /\ GoTo(w, "old_parsed") /\ UNCHANGED lock
       \/ /\ \/ ~r.active \/ r.status # "ready"
             \/ r.gen # work[w].gen \/ r.parsed # work[w].gen
          /\ Leave(w)
    /\ UNCHANGED <<row, collection, upload, stores, req, build, outages>>

\* Mutant: the generation just before the published one is kept.
MuchOlder(w) == {g \in Gens : g + 1 < work[w].gen}
Older(w) == {g \in Gens : g < work[w].gen}

\* Older generations only; errors are collected and logged.
CleanupOldParsed(w) == LET d == work[w].doc IN
    /\ work[w].stage = "old_parsed"
    /\ \E left \in {{}} \cup PartOf(Older(w)) :
        parsed' = [parsed EXCEPT ![d] = [g \in Gens |->
            IF g \in Older(w) \ left THEN NoText ELSE parsed[d][g]]]
    /\ GoTo(w, "old_chunks")
    /\ UNCHANGED <<row, collection, upload, source, chunks, req, lock, build, outages>>

CleanupOldChunks(w) == LET d == work[w].doc IN
    /\ work[w].stage = "old_chunks"
    /\ \E left \in {{}} \cup PartOf(Older(w)) :
        chunks' = [chunks EXCEPT ![d] = [g \in Gens |->
            IF g \in Older(w) \ left THEN {} ELSE chunks[d][g]]]
    /\ Leave(w)
    /\ UNCHANGED <<row, collection, upload, source, parsed, req, build, outages>>

\* The handler: fail_generation, if the attempt still owns the row.
FailGeneration(w) ==
    /\ work[w].stage = "fail"
    /\ \/ Owned(w) /\ row' = Failure(w) /\ GoTo(w, "stale_parsed")
       \/ ~Owned(w) /\ UNCHANGED row /\ GoTo(w, "check_fail")
    /\ UNCHANGED <<collection, upload, stores, req, lock, build, outages>>

FailGenerationFails(w) ==
    /\ Outage
    /\ work[w].stage = "fail"
    /\ row' \in {row} \cup {r \in {Failure(w)} : Owned(w)}
    /\ Leave(w)
    /\ UNCHANGED <<collection, upload, stores, req, build>>

\* Nothing was published or marked: clean up only what nobody else owns.
CheckObsolete(w) ==
    /\ work[w].stage \in {"check_after", "check_fail"}
    /\ \/ Obsolete(w) /\ GoTo(w, "stale_parsed") /\ UNCHANGED lock
       \/ ~Obsolete(w) /\ Leave(w)
    /\ UNCHANGED <<row, collection, upload, stores, req, build, outages>>

\* _cleanup_stale_attempt: the attempt's own generation, best effort.
CleanupStaleParsed(w) == LET d == work[w].doc  g == work[w].gen IN
    /\ work[w].stage = "stale_parsed"
    /\ \/ parsed' = [parsed EXCEPT ![d][g] = NoText]
       \/ StoreFaults /\ UNCHANGED parsed
    /\ GoTo(w, "stale_chunks")
    /\ UNCHANGED <<row, collection, upload, source, chunks, req, lock, build, outages>>

CleanupStaleChunks(w) == LET d == work[w].doc  g == work[w].gen IN
    /\ work[w].stage = "stale_chunks"
    /\ \E left \in {{}} \cup PartOf(chunks[d][g]) :
        chunks' = [chunks EXCEPT ![d][g] = left]
    /\ Leave(w)
    /\ UNCHANGED <<row, collection, upload, source, parsed, req, build, outages>>

-----------------------------------------------------------------------------
(* Requests that change a document or its collection *)

\* upload_committed: the read transaction, the PUT, the write transaction and,
\* after any failure, the compensating deletion of the source object.
ValidateUpload(d) ==
    /\ upload[d] = "none" /\ ManageableCollection
    /\ upload' = [upload EXCEPT ![d] = "put"]
    /\ UNCHANGED <<row, collection, stores, work, req, lock, build, outages>>

PutSource(d) ==
    /\ upload[d] = "put"
    /\ \/ source' = source \cup {d} /\ upload' = [upload EXCEPT ![d] = "insert"]
       \/ /\ StoreFaults
          /\ source' \in {source, source \cup {d}}
          /\ upload' = [upload EXCEPT ![d] = "compensate"]
    /\ UNCHANGED <<row, collection, parsed, chunks, work, req, lock, build, outages>>

\* KnowledgeDocumentRepository.queue
Queued(r) == [r EXCEPT !.status = "queued", !.attempt = NoId,
                       !.cleanup = NoId, !.error = "none", !.stale = FALSE]
\* A new generation: what reindex and _put_resource write before they queue.
\* Mutant: the document is queued again under its old generation.
SameGeneration(r) == Queued([r EXCEPT !.parsed = 0])
NextGeneration(r) == Queued([r EXCEPT !.gen = @ + 1, !.parsed = 0])

Inserted == Queued([NoRow EXCEPT !.gen = 1, !.active = TRUE])

InsertDocument(d) ==
    /\ upload[d] = "insert"
    /\ \/ /\ ManageableCollection
          /\ row' = [row EXCEPT ![d] = Inserted]
          /\ upload' = [upload EXCEPT ![d] = "accepted"]
       \/ /\ ~ManageableCollection
          /\ upload' = [upload EXCEPT ![d] = "compensate"] /\ UNCHANGED row
    /\ UNCHANGED <<collection, stores, work, req, lock, build, outages>>

\* The write transaction fails; it may have committed nevertheless.
InsertDocumentFails(d) ==
    /\ Outage
    /\ upload[d] = "insert"
    /\ row' \in {row} \cup {r \in {[row EXCEPT ![d] = Inserted]} : ManageableCollection}
    /\ upload' = [upload EXCEPT ![d] = "compensate"]
    /\ UNCHANGED <<collection, stores, work, req, lock, build>>

CompensateUpload(d) ==
    /\ upload[d] = "compensate"
    /\ \/ source' = source \ {d}
       \/ StoreFaults /\ UNCHANGED source
    /\ upload' = [upload EXCEPT ![d] = "rejected"]
    /\ UNCHANGED <<row, collection, parsed, chunks, work, req, lock, build, outages>>

\* A document is indexed once at a time: only a stale claim is superseded.
Reindex(d) ==
    /\ ManageableCollection
    /\ row[d].active
    /\ \/ row[d].status \in {"ready", "failed"}
       \/ row[d].status = "processing" /\ row[d].stale
    /\ row[d].gen < MaxGen
    /\ row' = [row EXCEPT ![d] = NextGeneration(@)]
    /\ UNCHANGED <<collection, upload, stores, work, req, lock, build, outages>>

\* The name is not modelled; updated_at, which dates the claim, is.
Rename(d) ==
    /\ ManageableCollection
    /\ row[d].active
    /\ row' = [row EXCEPT ![d].stale = FALSE]
    /\ UNCHANGED <<collection, upload, stores, work, req, lock, build, outages>>

\* Mutant: a deleted document does not block, even if its cleanup is pending.
BlockingWhenActive(d) == row[d].active
\* _documents_block_collection_change
Blocking(d) == row[d].active \/ row[d].error \in {"cleanup_pending", "cleanup_failed"}
CollectionInUse == \E d \in Docs : Blocking(d)

Rebuilt(d) == row[d].active

\* _put_resource: a change of chunk_size or chunk_overlap queues a new
\* generation of every active document, also of one being processed.
PutCollection(active, config) ==
    /\ collection.state # "deleted"
    /\ active \/ ~CollectionInUse
    /\ collection' = [state |-> IF active THEN "active" ELSE "inactive",
                      config |-> config]
    /\ IF config = collection.config
       THEN UNCHANGED row
       ELSE /\ \A d \in Docs : Rebuilt(d) => row[d].gen < MaxGen
            /\ row' = [d \in Docs |-> IF Rebuilt(d)
                                      THEN NextGeneration(row[d]) ELSE row[d]]
    /\ UNCHANGED <<upload, stores, work, req, lock, build, outages>>

DeleteCollection ==
    /\ collection.state # "deleted"
    /\ ~CollectionInUse
    /\ collection' = [collection EXCEPT !.state = "deleted"]
    /\ UNCHANGED <<row, upload, stores, work, req, lock, build, outages>>

-----------------------------------------------------------------------------
(* DELETE of a document: the whole request runs inside coordinator.hold *)

RequestDelete(r, d) ==
    /\ req[r].stage = "idle"
    /\ row[d].status # "none"
    /\ req' = [req EXCEPT ![r] = [NoRequest EXCEPT !.stage = "lock", !.doc = d]]
    /\ UNCHANGED <<row, collection, upload, stores, work, lock, build, outages>>

EnterDelete(r) ==
    /\ req[r].stage = "lock"
    /\ Acquire(r, req[r].doc)
    /\ req' = [req EXCEPT ![r].stage = "isolate"]
    /\ UNCHANGED <<row, collection, upload, stores, work, build, outages>>

LeaveDelete(r) == req' = [req EXCEPT ![r] = NoRequest] /\ Release(req[r].doc)

HeldCleanups == {row[d].cleanup : d \in Docs} \cup {req[r].cleanup : r \in Deleters}

\* Mutant: the document stays searchable until its cleanup is done.
IsolatedLate(r, id) == [r EXCEPT !.attempt = NoId, !.cleanup = id,
                                 !.error = "cleanup_pending", !.stale = FALSE]
\* begin_cleanup
Isolated(r, id) == [r EXCEPT !.active = FALSE, !.attempt = NoId, !.cleanup = id,
                             !.error = "cleanup_pending", !.stale = FALSE]

\* isolate_for_delete, and the commit that makes the document unsearchable.
\* An inactive document is isolated again: this is the explicit retry.
Isolate(r) ==
    /\ req[r].stage = "isolate"
    /\ \/ /\ ManageableCollection
          /\ \E id \in Ids \ HeldCleanups :
              /\ row' = [row EXCEPT ![req[r].doc] = Isolated(@, id)]
              /\ req' = [req EXCEPT ![r].stage = "projections", ![r].cleanup = id]
          /\ UNCHANGED lock
       \/ ~ManageableCollection /\ LeaveDelete(r) /\ UNCHANGED row
    /\ UNCHANGED <<collection, upload, stores, work, build, outages>>

IsolateFails(r) ==
    /\ Outage
    /\ req[r].stage = "isolate" /\ ManageableCollection
    /\ \/ UNCHANGED row
       \/ \E id \in Ids \ HeldCleanups :
            row' = [row EXCEPT ![req[r].doc] = Isolated(@, id)]
    /\ LeaveDelete(r)
    /\ UNCHANGED <<collection, upload, stores, work, build>>

\* _cleanup_inactive_locked: three kinds of deletions, each attempted whatever
\* became of the ones before it.
AfterDelete(r, stage, failed) ==
    req' = [req EXCEPT ![r].stage = stage, ![r].failed = @ \/ failed]

DeleteProjections(r) == LET d == req[r].doc IN
    /\ req[r].stage = "projections"
    /\ \/ /\ chunks' = [chunks EXCEPT ![d] = [g \in Gens |-> {}]]
          /\ AfterDelete(r, "parsed", FALSE)
       \/ /\ \E left \in PartOf(Gens) :
                chunks' = [chunks EXCEPT ![d] =
                    [g \in Gens |-> IF g \in left THEN chunks[d][g] ELSE {}]]
          /\ AfterDelete(r, "parsed", TRUE)
    /\ UNCHANGED <<row, collection, upload, source, parsed, work, lock, build, outages>>

DeleteParsed(r) == LET d == req[r].doc IN
    /\ req[r].stage = "parsed"
    /\ \/ /\ parsed' = [parsed EXCEPT ![d] = [g \in Gens |-> NoText]]
          /\ AfterDelete(r, "source", FALSE)
       \/ /\ \E left \in PartOf(Gens) :
                parsed' = [parsed EXCEPT ![d] =
                    [g \in Gens |-> IF g \in left THEN parsed[d][g] ELSE NoText]]
          /\ AfterDelete(r, "source", TRUE)
    /\ UNCHANGED <<row, collection, upload, source, chunks, work, lock, build, outages>>

DeleteSource(r) == LET d == req[r].doc IN
    /\ req[r].stage = "source"
    /\ \/ source' = source \ {d} /\ AfterDelete(r, "finish", FALSE)
       \/ /\ StoreFaults /\ source' \in {source, source \ {d}}
          /\ AfterDelete(r, "finish", TRUE)
    /\ UNCHANGED <<row, collection, upload, parsed, chunks, work, lock, build, outages>>

\* mark_cleanup_failed_if_inactive or clear_cleanup_error_if_inactive
Cleaned(r, error) == [r EXCEPT !.error = error, !.cleanup = NoId, !.stale = FALSE]

Finished(r) == LET d == req[r].doc IN
    IF ~row[d].active /\ row[d].cleanup = req[r].cleanup
    THEN [row EXCEPT ![d] =
            Cleaned(@, IF req[r].failed THEN "cleanup_failed" ELSE "none")]
    ELSE row

FinishCleanup(r) ==
    /\ req[r].stage = "finish"
    /\ row' = Finished(r)
    /\ LeaveDelete(r)
    /\ UNCHANGED <<collection, upload, stores, work, build, outages>>

FinishCleanupFails(r) ==
    /\ Outage
    /\ req[r].stage = "finish"
    /\ row' \in {row, Finished(r)}
    /\ LeaveDelete(r)
    /\ UNCHANGED <<collection, upload, stores, work, build>>

-----------------------------------------------------------------------------
(* Time and crashes *)

\* The processing timeout of a claim passes, whether or not it is worked on.
TimePasses(d) ==
    /\ row[d].status = "processing" /\ row[d].active /\ ~row[d].stale
    /\ row' = [row EXCEPT ![d].stale = TRUE]
    /\ UNCHANGED <<collection, upload, stores, work, req, lock, build, outages>>

\* The process dies and the next one starts, perhaps with another extractor.
\* The database, the object store and the retriever keep what they have.
Restart ==
    /\ Outage
    /\ work' = [w \in Workers |-> NoWork]
    /\ req' = [r \in Deleters |-> NoRequest]
    /\ lock' = [s \in Shards |-> Free]
    /\ upload' = [d \in Docs |-> IF upload[d] \in {"put", "insert", "compensate"}
                                 THEN "lost" ELSE upload[d]]
    /\ build' \in Texts
    /\ UNCHANGED <<row, collection, stores>>

WorkerStep(w) ==
    \/ \E d \in Docs : ClaimNext(w, d)
    \/ Poll(w)
    \/ ReadSource(w) \/ EnterHold(w) \/ PrepareForMutation(w)
    \/ PutParsed(w) \/ DeleteGeneration(w) \/ UpsertGeneration(w)
    \/ CompleteGeneration(w) \/ CheckPublished(w)
    \/ CleanupOldParsed(w) \/ CleanupOldChunks(w)
    \/ FailGeneration(w) \/ CheckObsolete(w)
    \/ CleanupStaleParsed(w) \/ CleanupStaleChunks(w)

WorkerOutage(w) ==
    \/ \E d \in Docs : ClaimNextLost(w, d)
    \/ PrepareFails(w) \/ CompleteGenerationFails(w) \/ FailGenerationFails(w)

UploadStep(d) ==
    \/ ValidateUpload(d) \/ PutSource(d) \/ InsertDocument(d)
    \/ InsertDocumentFails(d) \/ CompensateUpload(d)

CleanupStep(r) ==
    \/ EnterDelete(r) \/ Isolate(r) \/ DeleteProjections(r) \/ DeleteParsed(r)
    \/ DeleteSource(r) \/ FinishCleanup(r)

DeleteOutage(r) == IsolateFails(r) \/ FinishCleanupFails(r)

OwnerStep(d) == Reindex(d) \/ Rename(d)

CollectionStep ==
    \/ \E active \in BOOLEAN, config \in Configs : PutCollection(active, config)
    \/ DeleteCollection

Next ==
    \/ \E w \in Workers : WorkerStep(w) \/ WorkerOutage(w)
    \/ \E d \in Docs : UploadStep(d) \/ OwnerStep(d) \/ TimePasses(d)
    \/ \E r \in Deleters : CleanupStep(r) \/ DeleteOutage(r)
    \/ \E r \in Deleters, d \in Docs : RequestDelete(r, d)
    \/ CollectionStep
    \/ Restart

Spec == Init /\ [][Next]_vars

\* The worker thread and the request threads keep running, and time goes on.
\* Strong fairness, because a thread waits for a lock that is free again and
\* again (a Python RLock is not a queue) and because a rename may renew a claim
\* between two polls; it promises nothing about an outage or an owner's wish.
Fairness ==
    /\ \A w \in Workers : SF_vars(WorkerStep(w))
    /\ \A r \in Deleters : SF_vars(CleanupStep(r))
    /\ \A d \in Docs : WF_vars(TimePasses(d))

FairSpec == Spec /\ Fairness

-----------------------------------------------------------------------------
(* Safety *)

Published(d) == row[d].active /\ row[d].status = "ready"

\* What a document that search and preview may use consists of: the parsed
\* object its row names is the one of its generation, and the retriever holds
\* exactly the chunks of that text under the collection's present splitting -
\* whatever failed uploads of chunks, late attempts, crashes, cleanups, other
\* extractor versions and configuration changes preceded (docs/architecture/
\* knowledge.md, rules 5 to 7).
PublishedContent == \A d \in Docs : Published(d) =>
    LET g == row[d].gen IN
    /\ row[d].parsed = g
    /\ parsed[d][g] \in Texts
    /\ chunks[d][g] = Split(parsed[d][g], collection.config)

\* A deleted document whose cleanup is reported as complete left nothing in the
\* object store or in the retriever, and no late attempt writes it back.
DeletedLeavesNothing == \A d \in Docs :
    row[d].status # "none" /\ ~row[d].active /\ row[d].error = "none" =>
        /\ d \notin source
        /\ \A g \in Gens : parsed[d][g] = NoText /\ chunks[d][g] = {}

\* The source of a document whose upload was acknowledged stays until the
\* document is deleted: no failure of indexing and no cleanup removes it.
AcceptedSourceKept == \A d \in Docs :
    upload[d] = "accepted" /\ row[d].active => d \in source

\* A collection is closed only when it has neither documents nor cleanups left,
\* and none appears afterwards: an upload that began before is refused.
ClosedCollectionIsEmpty ==
    collection.state # "active" => \A d \in Docs :
        ~row[d].active /\ row[d].error \notin {"cleanup_pending", "cleanup_failed"}

\* As long as no call fails, a worker that has left a published or failed
\* document leaves no other generation of a published one behind, and nothing
\* of the generation that failed.
NoLeftovers == \A d \in Docs :
    /\ row[d].active
    /\ \A w \in Workers : work[w].stage = "idle" \/ work[w].doc # d
    => /\ row[d].status = "ready" =>
            \A g \in Gens \ {row[d].gen} : parsed[d][g] = NoText /\ chunks[d][g] = {}
       /\ row[d].status = "failed" =>
            parsed[d][row[d].gen] = NoText /\ chunks[d][row[d].gen] = {}

\* While a worker mutates the projection of a generation, that generation is
\* not the one search reads, although the claim of the worker may have been
\* superseded since it was checked.
NoMutationOfPublished == \A w \in Workers :
    work[w].stage \in MutationStages \cup StaleStages =>
        ~(Published(work[w].doc) /\ row[work[w].doc].gen = work[w].gen)

\* An upload that failed leaves no document that passes for a ready one.
FailedUploadNotReady == \A d \in Docs :
    upload[d] = "rejected" => ~Published(d)

-----------------------------------------------------------------------------
(* Refinement of the abstract view readers have *)

\* The phase of a document with row r, and what a reader gets of it when p are
\* its parsed objects and c its chunk projections.
PhaseOf(r) ==
    IF r.status = "none" THEN "absent"
    ELSE IF ~r.active THEN "deleted"
    ELSE [queued |-> "pending", processing |-> "pending",
          ready |-> "published", failed |-> "failed"][r.status]
ContentOf(r, p, c) ==
    IF r.active /\ r.status = "ready" THEN [text |-> p[r.gen], chunks |-> c[r.gen]]
    ELSE NoText

View == INSTANCE PublishedDocuments WITH
    NoContent <- NoText,
    config <- collection.config,
    phase <- [d \in Docs |-> PhaseOf(row[d])],
    gen <- [d \in Docs |-> row[d].gen],
    content <- [d \in Docs |-> ContentOf(row[d], parsed[d], chunks[d])]

\* Every behaviour of the program is one of the abstract specification: what
\* readers see of a document changes only by publishing one whole generation,
\* by withdrawing it for a later one, and by deletion.
ViewSpec == View!Spec

-----------------------------------------------------------------------------
(* Liveness *)

\* A document that waits for the index, or whose worker died, is eventually
\* published or reported as failed, unless it is deleted.
EventuallySettled == \A d \in Docs :
    row[d].active /\ row[d].status \in {"queued", "processing"} ~>
        ~row[d].active \/ row[d].status \in {"ready", "failed"}

\* A DELETE request gets the coordinator's lock in the end and is answered.
DeleteAnswered == \A r \in Deleters :
    req[r].stage # "idle" ~> req[r].stage = "idle"
=============================================================================
