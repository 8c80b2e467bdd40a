------------------------- MODULE KnowledgeIndexProofs -------------------------
(* What TLAPS proves of KnowledgeIndex, for every value of its constants. *)
EXTENDS KnowledgeIndex, TLAPS

USE DEF Gens, Actors

-----------------------------------------------------------------------------
(* The inductive invariant *)

TextStages == {"lock", "check_put", "check_published", "check_after"} \cup
              MutationStages \cup OldStages
StoredStages == MutationStages \ {"put"}
CleanupStages == DeleteStages \ {"isolate"}

\* What a worker knows of its claim at each stage.  A worker inside the hold
\* owns the lock; what it wrote is still there; and as long as it may mutate
\* the projection of its generation, that generation is not published, because
\* the row of this generation is still being processed or has failed.
WorkerInv(w) ==
    LET d == work[w].doc
        g == work[w].gen
        s == work[w].stage
    IN
    /\ s \in LockedStages => lock[LockOf(d)] = w
    /\ s # "idle" =>
        /\ g \in Gens /\ g <= row[d].gen /\ row[d].status # "none"
        /\ row[d].active /\ row[d].gen = g => work[w].config = collection.config
    /\ s \in TextStages => work[w].text \in Texts
    /\ s \in MutationStages =>
        row[d].active /\ (row[d].gen = g => row[d].status = "processing")
    /\ s \in StaleStages =>
        (row[d].active /\ row[d].gen = g => row[d].status = "failed")
    /\ s \in StoredStages => parsed[d][g] = work[w].text
    /\ s \in {"check_upsert", "upsert"} => chunks[d][g] = {}
    /\ s = "complete" => chunks[d][g] = Split(work[w].text, work[w].config)

\* A DELETE request works on a row it has made inactive, and remembers what it
\* has removed unless a call failed.
DeleterInv(r) ==
    LET d == req[r].doc
        s == req[r].stage
    IN
    /\ s \in DeleteStages => lock[LockOf(d)] = r
    /\ s # "idle" => row[d].status # "none"
    /\ s \in CleanupStages => ~row[d].active /\ row[d].error = "cleanup_pending"
    /\ s \in {"parsed", "source", "finish"} /\ ~req[r].failed =>
        \A g \in Gens : chunks[d][g] = {}
    /\ s \in {"source", "finish"} /\ ~req[r].failed =>
        \A g \in Gens : parsed[d][g] = NoText
    /\ s = "finish" /\ ~req[r].failed => d \notin source

PublishedDoc(d) == Published(d) =>
    LET g == row[d].gen IN
    /\ row[d].parsed = g
    /\ parsed[d][g] \in Texts
    /\ chunks[d][g] = Split(parsed[d][g], collection.config)
DeletedDoc(d) ==
    row[d].status # "none" /\ ~row[d].active /\ row[d].error = "none" =>
        /\ d \notin source
        /\ \A g \in Gens : parsed[d][g] = NoText /\ chunks[d][g] = {}
ClosedDoc(d) == collection.state # "active" =>
    ~row[d].active /\ row[d].error \notin {"cleanup_pending", "cleanup_failed"}

DocInv(d) ==
    /\ row[d].active => row[d].gen \in Gens /\ row[d].status # "none"
    /\ upload[d] \in {"none", "put", "insert"} => row[d] = NoRow
    /\ upload[d] = "insert" => d \in source
    /\ upload[d] = "accepted" /\ row[d].active => d \in source
    /\ PublishedDoc(d)
    /\ DeletedDoc(d)
    /\ ClosedDoc(d)

IInv ==
    /\ TypeOK
    /\ \A w \in Workers : WorkerInv(w)
    /\ \A r \in Deleters : DeleterInv(r)
    /\ \A d \in Docs : DocInv(d)

-----------------------------------------------------------------------------
(* The records of the model and the updates of a row *)

LEMMA IdleTypes == NoWork \in Work /\ NoRequest \in Request /\ NoRow \in Row
BY NonEmptyAssumption, BoundAssumption
   DEF NoWork, NoRequest, NoRow, Work, WorkStages, Request, Row, DeleteStages

LEMMA SplitType == \A t \in Texts, c \in Configs : Split(t, c) \subseteq Chunk
BY SizeAssumption DEF Split, Chunk

\* Each update keeps the fields it does not name.
LEMMA ClaimedRow == ASSUME NEW r \in Row, NEW id \in Ids
    PROVE /\ Claimed(r, id) \in Row
          /\ Claimed(r, id).gen = r.gen /\ Claimed(r, id).active = r.active
          /\ Claimed(r, id).status = "processing" /\ Claimed(r, id).error = r.error
          /\ Claimed(r, id).parsed = r.parsed
BY DEF Claimed, Row

LEMMA CompletedRow == ASSUME NEW r \in Row
    PROVE /\ Completed(r) \in Row
          /\ Completed(r).gen = r.gen /\ Completed(r).active = r.active
          /\ Completed(r).status = "ready" /\ Completed(r).parsed = r.gen
BY DEF Completed, Row

LEMMA FailedRow == ASSUME NEW r \in Row
    PROVE /\ Failed(r) \in Row
          /\ Failed(r).gen = r.gen /\ Failed(r).active = r.active
          /\ Failed(r).status = "failed"
BY DEF Failed, Row

LEMMA QueuedRow == ASSUME NEW r \in Row
    PROVE /\ Queued(r) \in Row
          /\ Queued(r).gen = r.gen /\ Queued(r).active = r.active
          /\ Queued(r).status = "queued"
BY DEF Queued, Row

LEMMA NextGenerationRow == ASSUME NEW r \in Row, r.gen < MaxGen
    PROVE /\ NextGeneration(r) \in Row
          /\ NextGeneration(r).gen = r.gen + 1
          /\ NextGeneration(r).active = r.active
          /\ NextGeneration(r).status = "queued"
<1> DEFINE n == [r EXCEPT !.gen = @ + 1, !.parsed = 0]
<1>1. r.gen + 1 \in 0 .. MaxGen /\ 0 \in 0 .. MaxGen
    BY BoundAssumption DEF Row
<1>2. n \in Row /\ n.gen = r.gen + 1 /\ n.active = r.active
    BY <1>1 DEF Row
<1>3. NextGeneration(r) = Queued(n)
    BY DEF NextGeneration
<1> HIDE DEF n
<1> QED BY <1>2, <1>3, QueuedRow

LEMMA InsertedRow == /\ Inserted \in Row
                     /\ Inserted.gen = 1 /\ Inserted.active
                     /\ Inserted.status = "queued"
<1> DEFINE n == [NoRow EXCEPT !.gen = 1, !.active = TRUE]
<1>1. 1 \in 0 .. MaxGen
    BY BoundAssumption
<1>2. n \in Row /\ n.gen = 1 /\ n.active
    BY <1>1, IdleTypes DEF Row
<1>3. Inserted = Queued(n)
    BY DEF Inserted
<1> HIDE DEF n
<1> QED BY <1>2, <1>3, QueuedRow

LEMMA IsolatedRow == ASSUME NEW r \in Row, NEW id \in Ids
    PROVE /\ Isolated(r, id) \in Row
          /\ Isolated(r, id).gen = r.gen /\ ~Isolated(r, id).active
          /\ Isolated(r, id).status = r.status
          /\ Isolated(r, id).error = "cleanup_pending"
BY DEF Isolated, Row

LEMMA CleanedRow == ASSUME NEW r \in Row,
                           NEW e \in {"none", "cleanup_failed"}
    PROVE /\ Cleaned(r, e) \in Row
          /\ Cleaned(r, e).gen = r.gen /\ Cleaned(r, e).active = r.active
          /\ Cleaned(r, e).status = r.status /\ Cleaned(r, e).error = e
BY DEF Cleaned, Row

\* A change of stage keeps the claim.
LEMMA GoToWork == ASSUME NEW k \in Work, NEW s \in WorkStages
    PROVE /\ [k EXCEPT !.stage = s] \in Work
          /\ [k EXCEPT !.stage = s].stage = s
          /\ [k EXCEPT !.stage = s].doc = k.doc
          /\ [k EXCEPT !.stage = s].gen = k.gen
          /\ [k EXCEPT !.stage = s].attempt = k.attempt
          /\ [k EXCEPT !.stage = s].config = k.config
          /\ [k EXCEPT !.stage = s].text = k.text
BY DEF Work

-----------------------------------------------------------------------------
(* Type correctness *)

LEMMA InitType == Init => TypeOK
<1> SUFFICES ASSUME Init PROVE TypeOK
    OBVIOUS
<1> QED
    BY IdleTypes, BoundAssumption, ShardAssumption DEF Init, TypeOK, UploadStates

\* What the steps do to the work of a worker and to the locks.
LEMMA GoToType == ASSUME TypeOK, NEW w \in Workers, NEW s \in WorkStages, GoTo(w, s)
                  PROVE  work' \in [Workers -> Work]
BY GoToWork DEF TypeOK, GoTo

LEMMA WorkDoc == ASSUME TypeOK, NEW w \in Workers
                 PROVE  work[w].doc \in Docs /\ LockOf(work[w].doc) \in Shards
BY ShardAssumption DEF TypeOK, Work, LockOf

LEMMA ReleaseType == ASSUME TypeOK, NEW d \in Docs, Release(d)
                     PROVE  lock' \in [Shards -> Actors \cup {Free}]
BY ShardAssumption DEF TypeOK, Release, LockOf

LEMMA AcquireType == ASSUME TypeOK, NEW d \in Docs, NEW a \in Actors, Acquire(a, d)
                     PROVE  lock' \in [Shards -> Actors \cup {Free}]
BY ShardAssumption DEF TypeOK, Acquire, LockOf

LEMMA LeaveType == ASSUME TypeOK, NEW w \in Workers, Leave(w)
                   PROVE  /\ work' \in [Workers -> Work]
                          /\ lock' \in [Shards -> Actors \cup {Free}]
<1>1. work' \in [Workers -> Work]
    BY IdleTypes DEF TypeOK, Leave
<1>2. lock' \in [Shards -> Actors \cup {Free}]
    BY WorkDoc, ReleaseType DEF Leave
<1> QED BY <1>1, <1>2

LEMMA AbortType == ASSUME TypeOK, NEW w \in Workers, Abort(w)
                   PROVE  /\ work' \in [Workers -> Work]
                          /\ lock' \in [Shards -> Actors \cup {Free}]
<1>1. work' \in [Workers -> Work]
    BY GoToType DEF Abort, WorkStages
<1>2. lock' \in [Shards -> Actors \cup {Free}]
    BY WorkDoc, ReleaseType DEF Abort
<1> QED BY <1>1, <1>2

LEMMA ClaimType == ASSUME TypeOK, NEW w \in Workers, NEW d \in Docs,
                          ClaimNext(w, d) \/ ClaimNextLost(w, d)
                   PROVE  TypeOK'
<1>1. CASE ClaimNext(w, d)
  <2>1. PICK id \in Ids : 
        /\ row' = [row EXCEPT ![d] = Claimed(@, id)]
        /\ work' = [work EXCEPT ![w] =
             [stage |-> "read", doc |-> d, gen |-> row[d].gen, attempt |-> id,
              config |-> collection.config, text |-> NoText]]
    BY <1>1 DEF ClaimNext
  <2>2. [stage |-> "read", doc |-> d, gen |-> row[d].gen, attempt |-> id,
              config |-> collection.config, text |-> NoText] \in Work
    BY DEF TypeOK, Work, WorkStages, Row
  <2>3. Claimed(row[d], id) \in Row
    BY ClaimedRow DEF TypeOK
  <2> QED
    BY <1>1, <2>1, <2>2, <2>3 DEF TypeOK, ClaimNext, stores
<1>2. CASE ClaimNextLost(w, d)
  <2>1. PICK id \in Ids : row' = [row EXCEPT ![d] = Claimed(@, id)]
    BY <1>2 DEF ClaimNextLost
  <2>2. Claimed(row[d], id) \in Row
    BY ClaimedRow DEF TypeOK
  <2> QED
    BY <1>2, <2>1, <2>2, BoundAssumption DEF TypeOK, ClaimNextLost, Outage, stores
<1> QED BY <1>1, <1>2

\* Steps of a worker that leave the row alone.
LEMMA StepType == ASSUME TypeOK, NEW w \in Workers,
        ReadSource(w) \/ EnterHold(w) \/ PrepareForMutation(w) \/ PrepareFails(w)
        \/ CheckPublished(w) \/ CheckObsolete(w)
                  PROVE  TypeOK'
<1>1. CASE ReadSource(w)
  <2>1. CASE work' = [work EXCEPT ![w].stage = "lock", ![w].text = build]
    <3>1. work[w] \in Work /\ build \in Texts
        BY DEF TypeOK
    <3>2. [work[w] EXCEPT !.stage = "lock", !.text = build] \in Work
        BY <3>1 DEF Work, WorkStages
    <3>3. work' = [work EXCEPT ![w] = [work[w] EXCEPT !.stage = "lock", !.text = build]]
        BY <2>1 DEF TypeOK
    <3> QED BY <1>1, <3>2, <3>3 DEF TypeOK, ReadSource, stores
  <2>2. CASE GoTo(w, "failed_lock")
    <3>1. work' \in [Workers -> Work]
        BY <2>2, GoToType DEF WorkStages
    <3> QED BY <1>1, <3>1 DEF TypeOK, ReadSource, stores
  <2> QED BY <1>1, <2>1, <2>2 DEF ReadSource
<1>2. CASE EnterHold(w)
  <2>1. work' \in [Workers -> Work]
      BY <1>2, GoToType DEF EnterHold, WorkStages, LockedStages
  <2>2. lock' \in [Shards -> Actors \cup {Free}]
      BY <1>2, WorkDoc, AcquireType DEF EnterHold
  <2> QED BY <1>2, <2>1, <2>2 DEF TypeOK, EnterHold, stores
<1>3. CASE PrepareForMutation(w)
  <2>1. Mutation[work[w].stage] \in WorkStages
      BY <1>3 DEF PrepareForMutation, Mutation, WorkStages, LockedStages, MutationStages
  <2>2. "stale_parsed" \in WorkStages
      BY DEF WorkStages, LockedStages, StaleStages
  <2>3. work' \in [Workers -> Work] /\ lock' \in [Shards -> Actors \cup {Free}]
      BY <1>3, <2>1, <2>2, GoToType, LeaveType DEF PrepareForMutation, TypeOK
  <2> QED BY <1>3, <2>3 DEF TypeOK, PrepareForMutation, stores
<1>4. CASE PrepareFails(w)
  <2>1. work' \in [Workers -> Work] /\ lock' \in [Shards -> Actors \cup {Free}]
      BY <1>4, AbortType, LeaveType DEF PrepareFails
  <2> QED BY <1>4, <2>1, BoundAssumption DEF TypeOK, PrepareFails, Outage, stores
<1>5. CASE CheckPublished(w)
  <2>1. "old_parsed" \in WorkStages
      BY DEF WorkStages, LockedStages, OldStages
  <2>2. work' \in [Workers -> Work] /\ lock' \in [Shards -> Actors \cup {Free}]
      BY <1>5, <2>1, GoToType, LeaveType DEF CheckPublished, TypeOK
  <2> QED BY <1>5, <2>2 DEF TypeOK, CheckPublished, stores
<1>6. CASE CheckObsolete(w)
  <2>1. "stale_parsed" \in WorkStages
      BY DEF WorkStages, LockedStages, StaleStages
  <2>2. work' \in [Workers -> Work] /\ lock' \in [Shards -> Actors \cup {Free}]
      BY <1>6, <2>1, GoToType, LeaveType DEF CheckObsolete, TypeOK
  <2> QED BY <1>6, <2>2 DEF TypeOK, CheckObsolete, stores
<1> QED BY <1>1, <1>2, <1>3, <1>4, <1>5, <1>6

-----------------------------------------------------------------------------
(* What the actors that do not take a step may rely on *)

\* No step revives a document, takes its generation back, publishes a failed
\* generation or reconfigures a generation.
RowKeeps(d) == row[d].status # "none" =>
    /\ row'[d].status # "none"
    /\ row'[d].gen >= row[d].gen
    /\ row'[d].active => row[d].active
    /\ row'[d].active /\ row'[d].gen = row[d].gen =>
        /\ collection'.config = collection.config
        /\ row[d].status = "failed" => row'[d].status = "failed"

\* What a step that does not hold the lock of d may do with d.
OpenChange(d) == row[d].status # "none" =>
    /\ parsed'[d] = parsed[d] /\ chunks'[d] = chunks[d]
    /\ d \in source' => d \in source
    /\ ~row[d].active => row'[d] = row[d]
    /\ row[d].active => row'[d].active
    /\ row'[d].gen = row[d].gen /\ row[d].status = "processing" =>
        row'[d].status = "processing"

LEMMA OtherWorker ==
    ASSUME TypeOK, TypeOK', NEW v \in Workers, WorkerInv(v), work'[v] = work[v],
           work[v].stage # "idle" => RowKeeps(work[v].doc),
           work[v].stage \in LockedStages =>
                /\ OpenChange(work[v].doc)
                /\ lock'[LockOf(work[v].doc)] = lock[LockOf(work[v].doc)]
    PROVE  WorkerInv(v)'
<1> DEFINE d == work[v].doc
           g == work[v].gen
           s == work[v].stage
<1> SUFFICES ASSUME s # "idle" PROVE WorkerInv(v)'
    BY DEF WorkerInv, LockedStages, TextStages, MutationStages, OldStages,
           StaleStages, StoredStages
<1>1. d \in Docs /\ g \in 0 .. MaxGen /\ row[d] \in Row /\ row'[d] \in Row
    BY DEF TypeOK, Work
<1>2. row[d].gen \in Nat /\ row'[d].gen \in Nat /\ g \in Nat
    BY <1>1, BoundAssumption DEF Row
<1>3. /\ g \in Gens /\ g <= row[d].gen /\ row[d].status # "none"
      /\ row[d].active /\ row[d].gen = g => work[v].config = collection.config
    BY DEF WorkerInv
<1>4. g \in Gens /\ g <= row'[d].gen /\ row'[d].status # "none"
    BY <1>2, <1>3 DEF RowKeeps
<1>5. row'[d].active /\ row'[d].gen = g =>
        /\ row[d].active /\ row[d].gen = g
        /\ work[v].config = collection'.config
        /\ row[d].status = "failed" => row'[d].status = "failed"
    BY <1>2, <1>3 DEF RowKeeps
<1>6. s \in LockedStages => lock'[LockOf(d)] = v
    BY DEF WorkerInv
<1>7. s \in MutationStages =>
        row'[d].active /\ (row'[d].gen = g => row'[d].status = "processing")
    BY <1>3, <1>5 DEF WorkerInv, OpenChange, LockedStages
<1>8. s \in StaleStages =>
        (row'[d].active /\ row'[d].gen = g => row'[d].status = "failed")
    BY <1>5 DEF WorkerInv
<1>9. s \in MutationStages => parsed'[d] = parsed[d] /\ chunks'[d] = chunks[d]
    BY <1>3 DEF OpenChange, LockedStages
<1>10. /\ s \in StoredStages => parsed'[d][g] = work[v].text
       /\ s \in {"check_upsert", "upsert"} => chunks'[d][g] = {}
       /\ s = "complete" => chunks'[d][g] = Split(work[v].text, work[v].config)
    BY <1>9 DEF WorkerInv, StoredStages, MutationStages
<1>11. s \in TextStages => work[v].text \in Texts
    BY DEF WorkerInv
<1> QED
    BY <1>4, <1>5, <1>6, <1>7, <1>8, <1>10, <1>11 DEF WorkerInv, LockOf

LEMMA OtherDeleter ==
    ASSUME TypeOK, NEW r \in Deleters, DeleterInv(r), req'[r] = req[r],
           req[r].stage # "idle" => RowKeeps(req[r].doc),
           req[r].stage \in DeleteStages =>
                /\ OpenChange(req[r].doc)
                /\ lock'[LockOf(req[r].doc)] = lock[LockOf(req[r].doc)]
    PROVE  DeleterInv(r)'
<1> DEFINE d == req[r].doc
           s == req[r].stage
<1>1. s # "idle" => row'[d].status # "none" /\ row[d].status # "none"
    BY DEF DeleterInv, RowKeeps
<1>2. s \in DeleteStages => lock'[LockOf(d)] = r
    BY DEF DeleterInv
<1>3. s \in CleanupStages =>
        /\ row'[d] = row[d] /\ parsed'[d] = parsed[d] /\ chunks'[d] = chunks[d]
        /\ d \in source' => d \in source
    BY <1>1 DEF DeleterInv, OpenChange, CleanupStages, DeleteStages
<1> QED
    BY <1>1, <1>2, <1>3 DEF DeleterInv, LockOf, CleanupStages, DeleteStages

\* A document that no step touches keeps its invariant.
LEMMA OtherDoc ==
    ASSUME NEW d \in Docs, DocInv(d), row'[d] = row[d], upload'[d] = upload[d],
           d \in source' <=> d \in source, parsed'[d] = parsed[d],
           chunks'[d] = chunks[d], collection' = collection
    PROVE  DocInv(d)'
BY DEF DocInv, PublishedDoc, DeletedDoc, ClosedDoc, Published

LEMMA RowNumbers == ASSUME TypeOK, NEW d \in Docs
    PROVE  row[d] \in Row /\ row[d].gen \in Nat /\ row[d].gen <= MaxGen
BY BoundAssumption DEF TypeOK, Row

\* What a step of actor a under the lock of d leaves alone.
LockedStep(a, d) ==
    /\ lock[LockOf(d)] = a
    /\ \A w \in Workers \ {a} : work'[w] = work[w]
    /\ \A r \in Deleters \ {a} : req'[r] = req[r]
    /\ \A e \in Docs \ {d} :
        /\ row'[e] = row[e] /\ parsed'[e] = parsed[e] /\ chunks'[e] = chunks[e]
        /\ e \in source' <=> e \in source
    /\ \A s \in Shards \ {LockOf(d)} : lock'[s] = lock[s]
    /\ UNCHANGED <<collection, upload>>
    /\ RowKeeps(d)

LEMMA LockedFrame ==
    ASSUME IInv, TypeOK', NEW a \in Actors, NEW d \in Docs, LockedStep(a, d)
    PROVE  /\ \A v \in Workers \ {a} : WorkerInv(v)'
           /\ \A r \in Deleters \ {a} : DeleterInv(r)'
           /\ \A e \in Docs \ {d} : DocInv(e)'
<1>1. ASSUME NEW v \in Workers \ {a} PROVE WorkerInv(v)'
  <2> DEFINE e == work[v].doc
  <2>1. WorkerInv(v) /\ work'[v] = work[v] /\ TypeOK
    BY <1>1 DEF IInv, LockedStep
  <2>2. e \in Docs /\ LockOf(e) \in Shards
    BY <2>1, WorkDoc
  <2>3. RowKeeps(e)
    <3>1. row[e].gen >= row[e].gen
        BY <2>1, <2>2, RowNumbers
    <3> QED BY <2>2, <3>1 DEF LockedStep, RowKeeps
  <2>4. work[v].stage \in LockedStages => LockOf(e) # LockOf(d) /\ e # d
    BY <2>1, <1>1 DEF WorkerInv, LockedStep
  <2>5. work[v].stage \in LockedStages =>
            OpenChange(e) /\ lock'[LockOf(e)] = lock[LockOf(e)]
    BY <2>2, <2>4 DEF LockedStep, OpenChange
  <2> QED BY <2>1, <2>3, <2>5, OtherWorker
<1>2. ASSUME NEW r \in Deleters \ {a} PROVE DeleterInv(r)'
  <2> DEFINE e == req[r].doc
  <2>1. DeleterInv(r) /\ req'[r] = req[r] /\ TypeOK
    BY <1>2 DEF IInv, LockedStep
  <2>2. e \in Docs /\ LockOf(e) \in Shards
    BY <2>1, ShardAssumption DEF TypeOK, Request, LockOf
  <2>3. RowKeeps(e)
    <3>1. row[e].gen >= row[e].gen
        BY <2>1, <2>2, RowNumbers
    <3> QED BY <2>2, <3>1 DEF LockedStep, RowKeeps
  <2>4. req[r].stage \in DeleteStages => LockOf(e) # LockOf(d) /\ e # d
    BY <2>1, <1>2 DEF DeleterInv, LockedStep
  <2>5. req[r].stage \in DeleteStages =>
            OpenChange(e) /\ lock'[LockOf(e)] = lock[LockOf(e)]
    BY <2>2, <2>4 DEF LockedStep, OpenChange
  <2> QED BY <2>1, <2>3, <2>5, OtherDeleter
<1>3. ASSUME NEW e \in Docs \ {d} PROVE DocInv(e)'
    BY <1>3, OtherDoc DEF IInv, LockedStep
<1> QED BY <1>1, <1>2, <1>3

\* What a step outside the coordinator, of actor a or of nobody, leaves alone.
OpenStep(a) ==
    /\ \A w \in Workers \ {a} : work'[w] = work[w]
    /\ \A r \in Deleters \ {a} : req'[r] = req[r]
    /\ \A d \in Docs : RowKeeps(d) /\ OpenChange(d)
    /\ \A s \in Shards : lock[s] # Free => lock'[s] = lock[s]

LEMMA OpenFrame ==
    ASSUME IInv, TypeOK', NEW a, OpenStep(a)
    PROVE  /\ \A v \in Workers \ {a} : WorkerInv(v)'
           /\ \A r \in Deleters \ {a} : DeleterInv(r)'
<1>1. ASSUME NEW v \in Workers \ {a} PROVE WorkerInv(v)'
  <2> DEFINE e == work[v].doc
  <2>1. WorkerInv(v) /\ work'[v] = work[v] /\ TypeOK
    BY <1>1 DEF IInv, OpenStep
  <2>2. e \in Docs /\ LockOf(e) \in Shards
    BY <2>1, WorkDoc
  <2>3. work[v].stage \in LockedStages => lock'[LockOf(e)] = lock[LockOf(e)]
    BY <2>1, <2>2, ActorAssumption DEF WorkerInv, OpenStep
  <2>4. RowKeeps(e) /\ OpenChange(e)
    BY <2>2 DEF OpenStep
  <2> QED BY <2>1, <2>3, <2>4, OtherWorker
<1>2. ASSUME NEW r \in Deleters \ {a} PROVE DeleterInv(r)'
  <2> DEFINE e == req[r].doc
  <2>1. DeleterInv(r) /\ req'[r] = req[r] /\ TypeOK
    BY <1>2 DEF IInv, OpenStep
  <2>2. e \in Docs /\ LockOf(e) \in Shards
    BY <2>1, ShardAssumption DEF TypeOK, Request, LockOf
  <2>3. req[r].stage \in DeleteStages => lock'[LockOf(e)] = lock[LockOf(e)]
    BY <2>1, <2>2, ActorAssumption DEF DeleterInv, OpenStep
  <2>4. RowKeeps(e) /\ OpenChange(e)
    BY <2>2 DEF OpenStep
  <2> QED BY <2>1, <2>3, <2>4, OtherDeleter
<1> QED BY <1>1, <1>2

-----------------------------------------------------------------------------
(* Steps of a worker under the lock of its document *)

\* A worker in the hold goes to another stage of it, or leaves it.
Moves(w) ==
    \/ UNCHANGED lock /\ \E s \in WorkStages : GoTo(w, s)
    \/ Leave(w)
    \/ Abort(w)

LEMMA MovesFrame ==
    ASSUME TypeOK, NEW w \in Workers, Moves(w)
    PROVE  /\ work' \in [Workers -> Work]
           /\ lock' \in [Shards -> Actors \cup {Free}]
           /\ \A v \in Workers \ {w} : work'[v] = work[v]
           /\ \A s \in Shards \ {LockOf(work[w].doc)} : lock'[s] = lock[s]
<1>1. work' \in [Workers -> Work] /\ lock' \in [Shards -> Actors \cup {Free}]
    BY GoToType, LeaveType, AbortType DEF Moves, TypeOK
<1>2. \A v \in Workers \ {w} : work'[v] = work[v]
    BY DEF TypeOK, Moves, Leave, Abort, GoTo
<1>3. \A s \in Shards \ {LockOf(work[w].doc)} : lock'[s] = lock[s]
    BY DEF TypeOK, Moves, Leave, Abort, Release
<1> QED BY <1>1, <1>2, <1>3

LEMMA GoToFields ==
    ASSUME TypeOK, NEW w \in Workers, NEW s \in WorkStages, GoTo(w, s)
    PROVE  /\ work'[w].stage = s /\ work'[w].doc = work[w].doc
           /\ work'[w].gen = work[w].gen /\ work'[w].config = work[w].config
           /\ work'[w].text = work[w].text
<1>1. work[w] \in Work
    BY DEF TypeOK
<1>2. work'[w] = [work[w] EXCEPT !.stage = s]
    BY DEF TypeOK, GoTo
<1> QED BY <1>1, <1>2, GoToWork

\* A worker that leaves the hold, or takes the failure to the handler.
LEMMA LeaveInv ==
    ASSUME IInv, TypeOK', NEW w \in Workers, Leave(w) \/ Abort(w),
           work[w].stage # "idle", RowKeeps(work[w].doc)
    PROVE  WorkerInv(w)'
<1> DEFINE d == work[w].doc
           g == work[w].gen
<1>1. CASE Leave(w)
  <2>1. work'[w].stage = "idle"
    BY <1>1 DEF IInv, TypeOK, Leave, NoWork
  <2> QED BY <2>1 DEF WorkerInv, LockedStages, TextStages, MutationStages,
                      OldStages, StaleStages, StoredStages
<1>2. CASE Abort(w)
  <2>1. /\ work'[w].stage = "failed_lock" /\ work'[w].doc = d
        /\ work'[w].gen = g /\ work'[w].config = work[w].config
    BY <1>2, GoToFields DEF Abort, WorkStages, IInv
  <2>2. d \in Docs /\ g \in Nat /\ row[d].gen \in Nat /\ row'[d].gen \in Nat
    <3>1. d \in Docs /\ row[d].gen \in Nat /\ work[w] \in Work
        BY WorkDoc, RowNumbers DEF IInv, TypeOK
    <3>2. row'[d] \in Row
        BY <3>1 DEF TypeOK
    <3> QED BY <3>1, <3>2, BoundAssumption DEF Work, Row
  <2>3. /\ g \in Gens /\ g <= row[d].gen /\ row[d].status # "none"
        /\ row[d].active /\ row[d].gen = g => work[w].config = collection.config
    BY DEF IInv, WorkerInv
  <2>4. /\ g \in Gens /\ g <= row'[d].gen /\ row'[d].status # "none"
        /\ row'[d].active /\ row'[d].gen = g => work[w].config = collection'.config
    BY <2>2, <2>3 DEF RowKeeps
  <2> QED BY <2>1, <2>4 DEF WorkerInv, LockedStages, TextStages, MutationStages,
                            OldStages, StaleStages, StoredStages
<1> QED BY <1>1, <1>2

\* The invariant of the whole from that of the worker and its document.
LEMMA WorkerFrame ==
    ASSUME IInv, TypeOK', NEW w \in Workers, work[w].stage \in LockedStages,
           NEW d \in Docs, d = work[w].doc, Moves(w), UNCHANGED <<req, collection, upload>>,
           RowKeeps(d),
           \A e \in Docs \ {d} :
                /\ row'[e] = row[e] /\ parsed'[e] = parsed[e] /\ chunks'[e] = chunks[e]
                /\ e \in source' <=> e \in source,
           Leave(w) \/ Abort(w) \/ WorkerInv(w)',
           DocInv(d)'
    PROVE  IInv'
<1>1. d \in Docs /\ w \in Actors
    OBVIOUS
<1>2. lock[LockOf(d)] = w
    BY DEF IInv, WorkerInv
<1>3. LockedStep(w, d)
    BY <1>2, MovesFrame DEF IInv, LockedStep
<1>4. WorkerInv(w)'
    BY LeaveInv DEF LockedStages, MutationStages, StaleStages, OldStages
<1>5. /\ \A v \in Workers \ {w} : WorkerInv(v)'
      /\ \A r \in Deleters \ {w} : DeleterInv(r)'
      /\ \A e \in Docs \ {d} : DocInv(e)'
    BY <1>1, <1>3, LockedFrame
<1>6. Deleters \ {w} = Deleters
    BY ActorAssumption
<1>7. \A v \in Workers : WorkerInv(v)'
    BY <1>4, <1>5
<1>8. \A r \in Deleters : DeleterInv(r)'
    BY <1>5, <1>6
<1>9. \A e \in Docs : DocInv(e)'
    BY <1>5
<1> QED BY <1>7, <1>8, <1>9 DEF IInv

LEMMA StageNames ==
    /\ MutationStages \cup StaleStages \cup OldStages \subseteq LockedStages
    /\ {"check_put", "check_published", "check_after", "fail", "check_fail"}
            \subseteq LockedStages
    /\ LockedStages \cup {"idle", "read", "lock", "failed_lock"} = WorkStages
BY DEF LockedStages, WorkStages

LEMMA MutationNames ==
    /\ DOMAIN Mutation = {"check_put", "check_delete", "check_upsert"}
    /\ Mutation["check_put"] = "put" /\ Mutation["check_delete"] = "delete"
    /\ Mutation["check_upsert"] = "upsert"
BY DEF Mutation

\* A row that stays as it is.
LEMMA SameRow == ASSUME TypeOK, NEW d \in Docs, row'[d] = row[d],
                        collection' = collection
                 PROVE  RowKeeps(d)
BY RowNumbers DEF RowKeeps

LEMMA PrepareInv ==
    ASSUME IInv, NEW w \in Workers,
           PrepareForMutation(w) \/ PrepareFails(w) \/ CheckPublished(w) \/ CheckObsolete(w)
    PROVE  IInv'
<1> DEFINE k == work[w].stage
<1> PICK d \in Docs : d = work[w].doc
    BY WorkDoc DEF IInv
<1>1. TypeOK /\ TypeOK' /\ WorkerInv(w) /\ DocInv(d)
    BY StepType DEF IInv
<1>2. k \in LockedStages
    BY MutationNames DEF PrepareForMutation, PrepareFails, CheckPublished,
                         CheckObsolete, LockedStages, MutationStages
<1>3. UNCHANGED <<row, collection, upload, source, parsed, chunks, req>>
    BY DEF PrepareForMutation, PrepareFails, CheckPublished, CheckObsolete, stores
<1>4. Moves(w)
  <2>1. PrepareForMutation(w) => Mutation[k] \in WorkStages
    BY DEF PrepareForMutation, Mutation, WorkStages, LockedStages, MutationStages
  <2>2. "stale_parsed" \in WorkStages /\ "old_parsed" \in WorkStages
    BY DEF WorkStages, LockedStages, StaleStages, OldStages
  <2> QED BY <2>1, <2>2 DEF PrepareForMutation, PrepareFails, CheckPublished,
                            CheckObsolete, Moves
<1>5. Leave(w) \/ Abort(w) \/ WorkerInv(w)'
  <2>1. CASE Owned(w) /\ k \in DOMAIN Mutation /\ GoTo(w, Mutation[k]) /\ UNCHANGED lock
    <3>1. /\ work'[w].stage = Mutation[k] /\ work'[w].doc = d
          /\ work'[w].gen = work[w].gen /\ work'[w].config = work[w].config
          /\ work'[w].text = work[w].text
      <4>1. Mutation[k] \in WorkStages
        BY <2>1 DEF Mutation, WorkStages, LockedStages, MutationStages
      <4> QED BY <2>1, <4>1, <1>1, GoToFields
    <3>2. \/ k = "check_put" /\ Mutation[k] = "put"
          \/ k = "check_delete" /\ Mutation[k] = "delete"
          \/ k = "check_upsert" /\ Mutation[k] = "upsert"
      BY <2>1, MutationNames
    <3>3. row[d].active /\ row[d].status = "processing"
      BY <2>1 DEF Owned, Obsolete
    <3>4. lock' = lock /\ LockOf(d) = LockOf(d)'
      BY <2>1 DEF LockOf
    <3> QED
      BY <1>1, <1>2, <1>3, <3>1, <3>2, <3>3, <3>4
         DEF WorkerInv, LockOf, MutationStages, LockedStages, TextStages, OldStages,
             StaleStages, StoredStages
  <2>2. CASE Obsolete(w) /\ GoTo(w, "stale_parsed") /\ UNCHANGED lock
    <3>1. /\ work'[w].stage = "stale_parsed" /\ work'[w].doc = d
          /\ work'[w].gen = work[w].gen /\ work'[w].config = work[w].config
      BY <2>2, <1>1, GoToFields DEF WorkStages, LockedStages, StaleStages
    <3>2. ~(row[d].active /\ row[d].gen = work[w].gen)
      BY <2>2 DEF Obsolete
    <3> QED
      BY <2>2, <1>1, <1>2, <1>3, <3>1, <3>2
         DEF WorkerInv, LockOf, MutationStages, LockedStages, TextStages, OldStages,
             StaleStages, StoredStages
  <2>3. CASE k = "check_published" /\ GoTo(w, "old_parsed") /\ UNCHANGED lock
    <3>1. /\ work'[w].stage = "old_parsed" /\ work'[w].doc = d
          /\ work'[w].gen = work[w].gen /\ work'[w].config = work[w].config
          /\ work'[w].text = work[w].text
      BY <2>3, <1>1, GoToFields DEF WorkStages, LockedStages, OldStages
    <3> QED
      BY <2>3, <1>1, <1>2, <1>3, <3>1
         DEF WorkerInv, LockOf, MutationStages, LockedStages, TextStages, OldStages,
             StaleStages, StoredStages
  <2> QED BY <2>1, <2>2, <2>3 DEF PrepareForMutation, PrepareFails, CheckPublished,
                                  CheckObsolete
<1>6. DocInv(d)'
    BY <1>1, <1>3, OtherDoc
<1>7. RowKeeps(d)
    BY <1>1, <1>3, SameRow
<1> QED BY <1>1, <1>2, <1>3, <1>4, <1>5, <1>6, <1>7, WorkerFrame

\* A step on the stores of d that spares what is published and does not write
\* to a document that was cleaned up.
LEMMA StoreDoc ==
    ASSUME NEW d \in Docs, DocInv(d), row' = row, upload' = upload, source' = source,
           collection' = collection,
           Published(d) => /\ parsed'[d][row[d].gen] = parsed[d][row[d].gen]
                           /\ chunks'[d][row[d].gen] = chunks[d][row[d].gen],
           row[d].status # "none" /\ ~row[d].active /\ row[d].error = "none" =>
                \A g \in Gens : parsed'[d][g] = NoText /\ chunks'[d][g] = {}
    PROVE  DocInv(d)'
BY DEF DocInv, PublishedDoc, DeletedDoc, ClosedDoc, Published

LEMMA PutInv == ASSUME IInv, NEW w \in Workers, PutParsed(w) PROVE IInv'
<1> PICK d \in Docs : d = work[w].doc
    BY WorkDoc DEF IInv
<1> DEFINE g == work[w].gen
           t == work[w].text
<1>1. TypeOK /\ WorkerInv(w) /\ DocInv(d)
    BY DEF IInv
<1>2. work[w].stage = "put" /\ work[w].stage \in LockedStages
    BY DEF PutParsed, LockedStages, MutationStages
<1>3. /\ t \in Texts /\ g \in Gens /\ row[d].active /\ row[d].status # "none"
      /\ row[d].gen = g => row[d].status = "processing"
      /\ lock[LockOf(d)] = w
      /\ row[d].active /\ row[d].gen = g => work[w].config = collection.config
    BY <1>1, <1>2 DEF WorkerInv, TextStages, MutationStages
<1>4. UNCHANGED <<row, collection, upload, source, chunks, req, build, outages>>
    BY DEF PutParsed
<1>5. Moves(w)
  <2>1. "check_delete" \in WorkStages
    BY DEF WorkStages, LockedStages, MutationStages
  <2> QED BY <2>1 DEF PutParsed, Moves
<1>6. PICK x \in Texts \cup {NoText} : parsed' = [parsed EXCEPT ![d][g] = x]
  <2>1. parsed \in [Docs -> [Gens -> Texts \cup {NoText}]]
    BY <1>1 DEF TypeOK
  <2>2. PutIfAbsent(w) => parsed' = [parsed EXCEPT ![d][g] =
                                IF parsed[d][g] = NoText THEN t ELSE parsed[d][g]]
    BY <2>1, <1>3 DEF PutIfAbsent
  <2>3. UNCHANGED parsed => parsed' = [parsed EXCEPT ![d][g] = parsed[d][g]]
    BY <2>1, <1>3
  <2>4. parsed[d][g] \in Texts \cup {NoText}
    BY <2>1, <1>3
  <2>5. UNCHANGED parsed \/ PutIfAbsent(w)
    BY DEF PutParsed
  <2> QED BY <2>2, <2>3, <2>4, <2>5, <1>3
<1>7. /\ parsed' \in [Docs -> [Gens -> Texts \cup {NoText}]]
      /\ \A e \in Docs \ {d} : parsed'[e] = parsed[e]
      /\ \A h \in Gens \ {g} : parsed'[d][h] = parsed[d][h]
    BY <1>1, <1>3, <1>6 DEF TypeOK
<1>8. TypeOK'
    BY <1>1, <1>4, <1>5, <1>7, MovesFrame DEF TypeOK
<1>9. Leave(w) \/ Abort(w) \/ WorkerInv(w)'
  <2>1. CASE SameText(w) /\ PutIfAbsent(w) /\ GoTo(w, "check_delete") /\ UNCHANGED lock
    <3>1. /\ work'[w].stage = "check_delete" /\ work'[w].doc = d
          /\ work'[w].gen = g /\ work'[w].config = work[w].config
          /\ work'[w].text = t
      BY <2>1, <1>1, GoToFields DEF WorkStages, LockedStages, MutationStages
    <3>2. parsed'[d][g] = t
      BY <2>1, <1>1, <1>3 DEF SameText, PutIfAbsent, TypeOK
    <3> QED
      BY <2>1, <1>1, <1>2, <1>3, <1>4, <3>1, <3>2
         DEF WorkerInv, LockOf, MutationStages, LockedStages, TextStages, OldStages,
             StaleStages, StoredStages
  <2> QED BY <2>1 DEF PutParsed
<1>10. DocInv(d)'
  <2>1. row[d].gen \in Gens /\ (Published(d) => row[d].gen # g)
    BY <1>1, <1>3 DEF DocInv, Published
  <2> QED BY <2>1, <1>1, <1>3, <1>4, <1>7, StoreDoc
<1>11. RowKeeps(d)
    BY <1>1, <1>4, SameRow
<1> QED BY <1>2, <1>4, <1>5, <1>7, <1>8, <1>9, <1>10, <1>11, WorkerFrame

LEMMA ProjectionInv ==
    ASSUME IInv, NEW w \in Workers, DeleteGeneration(w) \/ UpsertGeneration(w)
    PROVE  IInv'
<1> PICK d \in Docs : d = work[w].doc
    BY WorkDoc DEF IInv
<1> DEFINE g == work[w].gen
           t == work[w].text
           c == work[w].config
<1>1. TypeOK /\ WorkerInv(w) /\ DocInv(d)
    BY DEF IInv
<1>2. /\ work[w].stage \in {"delete", "upsert"}
      /\ work[w].stage \in LockedStages
      /\ work[w].stage \in StoredStages
    BY DEF DeleteGeneration, UpsertGeneration, LockedStages, MutationStages, StoredStages
<1>3. /\ t \in Texts /\ g \in Gens /\ c \in Configs
      /\ row[d].active /\ row[d].status # "none"
      /\ row[d].gen = g => row[d].status = "processing"
      /\ lock[LockOf(d)] = w
      /\ row[d].active /\ row[d].gen = g => c = collection.config
      /\ parsed[d][g] = t
    BY <1>1, <1>2 DEF WorkerInv, TextStages, MutationStages, TypeOK, Work
<1>4. UNCHANGED <<row, collection, upload, source, parsed, req, build, outages>>
    BY DEF DeleteGeneration, UpsertGeneration
<1>5. Moves(w)
  <2>1. "check_upsert" \in WorkStages /\ "complete" \in WorkStages
    BY DEF WorkStages, LockedStages, MutationStages
  <2> QED BY <2>1 DEF DeleteGeneration, UpsertGeneration, Moves
<1>6. PICK S : S \subseteq Chunk /\ chunks' = [chunks EXCEPT ![d][g] = S]
  <2>1. chunks[d][g] \subseteq Chunk /\ Split(t, c) \subseteq Chunk
    <3>1. chunks \in [Docs -> [Gens -> SUBSET Chunk]]
      BY <1>1 DEF TypeOK
    <3> QED BY <1>3, <3>1, SplitType
  <2>2. CASE DeleteGeneration(w)
    BY <2>1, <2>2 DEF DeleteGeneration, PartOf
  <2>3. CASE UpsertGeneration(w)
    <3>1. PICK new \in SUBSET Split(t, c) :
            chunks' = [chunks EXCEPT ![d][g] = Overwrite(@, new)]
      BY <2>3 DEF UpsertGeneration, PartOf
    <3>2. chunks' = [chunks EXCEPT ![d][g] = Overwrite(chunks[d][g], new)]
      BY <3>1, <1>1, <1>3 DEF TypeOK
    <3>3. Overwrite(chunks[d][g], new) \subseteq Chunk
      BY <2>1, <3>1 DEF Overwrite
    <3> QED BY <3>2, <3>3
  <2> QED BY <2>2, <2>3
<1>7. /\ chunks' \in [Docs -> [Gens -> SUBSET Chunk]]
      /\ \A e \in Docs \ {d} : chunks'[e] = chunks[e]
      /\ \A h \in Gens \ {g} : chunks'[d][h] = chunks[d][h]
    BY <1>1, <1>3, <1>6 DEF TypeOK
<1>8. TypeOK'
    BY <1>1, <1>4, <1>5, <1>7, MovesFrame DEF TypeOK
<1>9. Leave(w) \/ Abort(w) \/ WorkerInv(w)'
  <2>1. CASE /\ work[w].stage = "delete" /\ chunks' = [chunks EXCEPT ![d][g] = {}]
             /\ GoTo(w, "check_upsert") /\ UNCHANGED lock
    <3>1. /\ work'[w].stage = "check_upsert" /\ work'[w].doc = d
          /\ work'[w].gen = g /\ work'[w].config = c /\ work'[w].text = t
      BY <2>1, <1>1, GoToFields DEF WorkStages, LockedStages, MutationStages
    <3>2. chunks'[d][g] = {}
      BY <2>1, <1>1, <1>3 DEF TypeOK
    <3> QED
      BY <2>1, <1>1, <1>2, <1>3, <1>4, <3>1, <3>2
         DEF WorkerInv, LockOf, MutationStages, LockedStages, TextStages, OldStages,
             StaleStages, StoredStages
  <2>2. CASE /\ work[w].stage = "upsert"
             /\ chunks' = [chunks EXCEPT ![d][g] = Overwrite(@, Split(t, c))]
             /\ GoTo(w, "complete") /\ UNCHANGED lock
    <3>1. /\ work'[w].stage = "complete" /\ work'[w].doc = d
          /\ work'[w].gen = g /\ work'[w].config = c /\ work'[w].text = t
      BY <2>2, <1>1, GoToFields DEF WorkStages, LockedStages, MutationStages
    <3>2. chunks[d][g] = {}
      BY <2>2, <1>1 DEF WorkerInv
    <3>3. chunks'[d][g] = Overwrite(chunks[d][g], Split(t, c))
      BY <2>2, <1>1, <1>3 DEF TypeOK
    <3>4. chunks'[d][g] = Split(t, c)
      BY <3>2, <3>3 DEF Overwrite
    <3> QED
      BY <2>2, <1>1, <1>2, <1>3, <1>4, <3>1, <3>4
         DEF WorkerInv, LockOf, MutationStages, LockedStages, TextStages, OldStages,
             StaleStages, StoredStages
  <2> QED BY <2>1, <2>2 DEF DeleteGeneration, UpsertGeneration
<1>10. DocInv(d)'
  <2>1. row[d].gen \in Gens /\ (Published(d) => row[d].gen # g)
    BY <1>1, <1>3 DEF DocInv, Published
  <2> QED BY <2>1, <1>1, <1>3, <1>4, <1>7, StoreDoc
<1>11. RowKeeps(d)
    BY <1>1, <1>4, SameRow
<1> QED BY <1>2, <1>4, <1>5, <1>7, <1>8, <1>9, <1>10, <1>11, WorkerFrame

LEMMA OldInv ==
    ASSUME IInv, NEW w \in Workers, CleanupOldParsed(w) \/ CleanupOldChunks(w)
    PROVE  IInv'
<1> PICK d \in Docs : d = work[w].doc
    BY WorkDoc DEF IInv
<1> DEFINE g == work[w].gen
<1>1. TypeOK /\ WorkerInv(w) /\ DocInv(d)
    BY DEF IInv
<1>2. /\ work[w].stage \in OldStages /\ work[w].stage \in LockedStages
      /\ work[w].stage \in TextStages /\ work[w].stage # "idle"
    BY DEF CleanupOldParsed, CleanupOldChunks, LockedStages, OldStages, TextStages
<1>3. g \in Gens /\ g <= row[d].gen /\ row[d].status # "none" /\ lock[LockOf(d)] = w
    BY <1>1, <1>2 DEF WorkerInv
<1>4. UNCHANGED <<row, collection, upload, source, req, build, outages>>
    BY DEF CleanupOldParsed, CleanupOldChunks
<1>5. Moves(w)
  <2>1. "old_chunks" \in WorkStages
    BY DEF WorkStages, LockedStages, OldStages
  <2> QED BY <2>1 DEF CleanupOldParsed, CleanupOldChunks, Moves
<1>6. work[w].doc = d /\ d \in Docs /\ parsed \in [Docs -> [Gens -> Texts \cup {NoText}]]
      /\ chunks \in [Docs -> [Gens -> SUBSET Chunk]]
    BY <1>1 DEF TypeOK
<1>7. /\ parsed' \in [Docs -> [Gens -> Texts \cup {NoText}]]
      /\ \A e \in Docs \ {d} : parsed'[e] = parsed[e]
      /\ \A h \in Gens : parsed'[d][h] \in {parsed[d][h], NoText}
      /\ \A h \in Gens \ Older(w) : parsed'[d][h] = parsed[d][h]
  <2>1. CASE UNCHANGED parsed
    BY <1>6, <2>1
  <2>2. CASE CleanupOldParsed(w)
    <3>1. PICK left : parsed' = [parsed EXCEPT ![work[w].doc] = [h \in Gens |->
            IF h \in Older(w) \ left THEN NoText ELSE parsed[work[w].doc][h]]]
      BY <2>2, Zenon DEF CleanupOldParsed
    <3> DEFINE f == [h \in Gens |->
            IF h \in Older(w) \ left THEN NoText ELSE parsed[d][h]]
    <3>2. parsed' = [parsed EXCEPT ![d] = f]
      BY <3>1, <1>6, Zenon
    <3>3. /\ f \in [Gens -> Texts \cup {NoText}]
          /\ \A h \in Gens : f[h] \in {parsed[d][h], NoText}
          /\ \A k \in Gens \ Older(w) : f[k] = parsed[d][k]
      BY <1>6
    <3> HIDE DEF f
    <3> QED BY <3>2, <3>3, <1>6
  <2> QED BY <2>1, <2>2 DEF CleanupOldChunks
<1>8. /\ chunks' \in [Docs -> [Gens -> SUBSET Chunk]]
      /\ \A e \in Docs \ {d} : chunks'[e] = chunks[e]
      /\ \A h \in Gens : chunks'[d][h] \in {chunks[d][h], {}}
      /\ \A h \in Gens \ Older(w) : chunks'[d][h] = chunks[d][h]
  <2>1. CASE UNCHANGED chunks
    BY <1>6, <2>1
  <2>2. CASE CleanupOldChunks(w)
    <3>1. PICK left : chunks' = [chunks EXCEPT ![work[w].doc] = [h \in Gens |->
            IF h \in Older(w) \ left THEN {} ELSE chunks[work[w].doc][h]]]
      BY <2>2, Zenon DEF CleanupOldChunks
    <3> DEFINE f == [h \in Gens |->
            IF h \in Older(w) \ left THEN {} ELSE chunks[d][h]]
    <3>2. chunks' = [chunks EXCEPT ![d] = f]
      BY <3>1, <1>6, Zenon
    <3>3. /\ f \in [Gens -> SUBSET Chunk]
          /\ \A h \in Gens : f[h] \in {chunks[d][h], {}}
          /\ \A k \in Gens \ Older(w) : f[k] = chunks[d][k]
      BY <1>6
    <3> HIDE DEF f
    <3> QED BY <3>2, <3>3, <1>6
  <2> QED BY <2>1, <2>2 DEF CleanupOldParsed
<1>9. TypeOK'
    BY <1>1, <1>4, <1>5, <1>7, <1>8, MovesFrame DEF TypeOK
<1>10. Leave(w) \/ Abort(w) \/ WorkerInv(w)'
  <2>1. CASE GoTo(w, "old_chunks") /\ UNCHANGED lock
    <3>1. /\ work'[w].stage = "old_chunks" /\ work'[w].doc = d
          /\ work'[w].gen = work[w].gen /\ work'[w].config = work[w].config
          /\ work'[w].text = work[w].text
      BY <2>1, <1>1, GoToFields DEF WorkStages, LockedStages, OldStages
    <3> QED
      BY <2>1, <1>1, <1>2, <1>3, <1>4, <3>1
         DEF WorkerInv, LockOf, MutationStages, LockedStages, TextStages, OldStages,
             StaleStages, StoredStages
  <2> QED BY <2>1 DEF CleanupOldParsed, CleanupOldChunks
<1>11. DocInv(d)'
  <2>1. row[d].gen \in Nat /\ g \in Nat /\ row[d].gen \notin Older(w)
    BY <1>1, <1>3, RowNumbers DEF Older
  <2>2. Published(d) => row[d].gen \in Gens \ Older(w)
    BY <1>1, <2>1 DEF Published, DocInv
  <2>3. row[d].status # "none" /\ ~row[d].active /\ row[d].error = "none" =>
                \A h \in Gens : parsed'[d][h] = NoText /\ chunks'[d][h] = {}
    BY <1>1, <1>7, <1>8 DEF DocInv, DeletedDoc
  <2> QED BY <1>1, <1>4, <1>7, <1>8, <2>2, <2>3, StoreDoc
<1>12. RowKeeps(d)
    BY <1>1, <1>4, SameRow
<1> QED BY <1>2, <1>4, <1>5, <1>7, <1>8, <1>9, <1>10, <1>11, <1>12, WorkerFrame

LEMMA StaleInv ==
    ASSUME IInv, NEW w \in Workers, CleanupStaleParsed(w) \/ CleanupStaleChunks(w)
    PROVE  IInv'
<1> PICK d \in Docs : d = work[w].doc
    BY WorkDoc DEF IInv
<1> DEFINE g == work[w].gen
<1>1. TypeOK /\ WorkerInv(w) /\ DocInv(d)
    BY DEF IInv
<1>2. /\ work[w].stage \in StaleStages /\ work[w].stage \in LockedStages
      /\ work[w].stage # "idle"
    BY DEF CleanupStaleParsed, CleanupStaleChunks, LockedStages, StaleStages
<1>3. /\ g \in Gens /\ g <= row[d].gen /\ row[d].status # "none" /\ lock[LockOf(d)] = w
      /\ row[d].active /\ row[d].gen = g => row[d].status = "failed"
    BY <1>1, <1>2 DEF WorkerInv
<1>4. UNCHANGED <<row, collection, upload, source, req, build, outages>>
    BY DEF CleanupStaleParsed, CleanupStaleChunks
<1>5. Moves(w)
  <2>1. "stale_chunks" \in WorkStages
    BY DEF WorkStages, LockedStages, StaleStages
  <2> QED BY <2>1 DEF CleanupStaleParsed, CleanupStaleChunks, Moves
<1>6. /\ parsed \in [Docs -> [Gens -> Texts \cup {NoText}]]
      /\ chunks \in [Docs -> [Gens -> SUBSET Chunk]]
    BY <1>1 DEF TypeOK
<1>7. /\ parsed' \in [Docs -> [Gens -> Texts \cup {NoText}]]
      /\ chunks' \in [Docs -> [Gens -> SUBSET Chunk]]
      /\ \A e \in Docs \ {d} : parsed'[e] = parsed[e] /\ chunks'[e] = chunks[e]
      /\ \A h \in Gens \ {g} : parsed'[d][h] = parsed[d][h] /\ chunks'[d][h] = chunks[d][h]
      /\ \A h \in Gens : parsed'[d][h] \in {parsed[d][h], NoText}
                         /\ chunks'[d][h] \subseteq chunks[d][h]
  <2>1. CASE CleanupStaleParsed(w)
    <3>1. chunks' = chunks
      BY <2>1 DEF CleanupStaleParsed
    <3>2. PICK x \in {parsed[d][g], NoText} : parsed' = [parsed EXCEPT ![d][g] = x]
      <4>1. parsed = [parsed EXCEPT ![d][g] = parsed[d][g]]
        BY <1>3, <1>6
      <4> QED BY <4>1, <2>1 DEF CleanupStaleParsed
    <3>3. x \in Texts \cup {NoText}
      <4>1. parsed[d] \in [Gens -> Texts \cup {NoText}]
        BY <1>6
      <4>2. parsed[d][g] \in Texts \cup {NoText}
        BY <1>3, <4>1
      <4> QED BY <4>2, <3>2
    <3> QED BY <1>3, <1>6, <3>1, <3>2, <3>3
  <2>2. CASE CleanupStaleChunks(w)
    <3>1. parsed' = parsed
      BY <2>2 DEF CleanupStaleChunks
    <3>2. PICK S \in SUBSET chunks[d][g] : chunks' = [chunks EXCEPT ![d][g] = S]
      BY <2>2 DEF CleanupStaleChunks, PartOf
    <3> QED BY <1>3, <1>6, <3>1, <3>2
  <2> QED BY <2>1, <2>2
<1>8. TypeOK'
    BY <1>1, <1>4, <1>5, <1>7, MovesFrame DEF TypeOK
<1>9. Leave(w) \/ Abort(w) \/ WorkerInv(w)'
  <2>1. CASE GoTo(w, "stale_chunks") /\ UNCHANGED lock
    <3>1. /\ work'[w].stage = "stale_chunks" /\ work'[w].doc = d
          /\ work'[w].gen = work[w].gen /\ work'[w].config = work[w].config
      BY <2>1, <1>1, GoToFields DEF WorkStages, LockedStages, StaleStages
    <3> QED
      BY <2>1, <1>1, <1>2, <1>3, <1>4, <3>1
         DEF WorkerInv, LockOf, MutationStages, LockedStages, TextStages, OldStages,
             StaleStages, StoredStages
  <2> QED BY <2>1 DEF CleanupStaleParsed, CleanupStaleChunks
<1>10. DocInv(d)'
  <2>1. Published(d) => row[d].gen \in Gens \ {g}
    BY <1>1, <1>3 DEF DocInv, Published
  <2>2. row[d].status # "none" /\ ~row[d].active /\ row[d].error = "none" =>
                \A h \in Gens : parsed'[d][h] = NoText /\ chunks'[d][h] = {}
    BY <1>1, <1>7 DEF DocInv, DeletedDoc
  <2> QED BY <2>1, <2>2, <1>1, <1>4, <1>7, StoreDoc
<1>11. RowKeeps(d)
    BY <1>1, <1>4, SameRow
<1> QED BY <1>2, <1>4, <1>5, <1>7, <1>8, <1>9, <1>10, <1>11, WorkerFrame

LEMMA RowUpdate ==
    ASSUME TypeOK, NEW d \in Docs, NEW r \in Row, row' = [row EXCEPT ![d] = r]
    PROVE  /\ row' \in [Docs -> Row] /\ row'[d] = r
           /\ \A e \in Docs \ {d} : row'[e] = row[e]
BY DEF TypeOK

LEMMA CompleteInv ==
    ASSUME IInv, NEW w \in Workers, CompleteGeneration(w) \/ CompleteGenerationFails(w)
    PROVE  IInv'
<1> PICK d \in Docs : d = work[w].doc
    BY WorkDoc DEF IInv
<1> DEFINE g == work[w].gen
           t == work[w].text
           c == work[w].config
<1>1. TypeOK /\ WorkerInv(w) /\ DocInv(d) /\ row[d] \in Row
    BY RowNumbers DEF IInv
<1>2. work[w].stage = "complete" /\ work[w].stage \in LockedStages
    BY DEF CompleteGeneration, CompleteGenerationFails, LockedStages, MutationStages
<1>3. /\ t \in Texts /\ g \in Gens /\ g <= row[d].gen
      /\ row[d].active /\ row[d].status # "none"
      /\ lock[LockOf(d)] = w
      /\ row[d].active /\ row[d].gen = g => c = collection.config
      /\ parsed[d][g] = t /\ chunks[d][g] = Split(t, c)
    BY <1>1, <1>2 DEF WorkerInv, TextStages, MutationStages, StoredStages
<1>4. UNCHANGED <<collection, upload, source, parsed, chunks, req, build>>
    BY DEF CompleteGeneration, CompleteGenerationFails, stores
<1>5. Moves(w)
  <2>1. "check_published" \in WorkStages /\ "check_after" \in WorkStages
    BY DEF WorkStages, LockedStages
  <2> QED BY <2>1 DEF CompleteGeneration, CompleteGenerationFails, Moves
<1>6. CASE row' = row
  <2>1. TypeOK'
    BY <1>1, <1>4, <1>5, <1>6, MovesFrame, BoundAssumption
       DEF TypeOK, CompleteGeneration, CompleteGenerationFails, Outage
  <2>2. Abort(w) \/ GoTo(w, "check_published") \/ GoTo(w, "check_after")
    BY DEF CompleteGeneration, CompleteGenerationFails
  <2>3. Abort(w) \/ WorkerInv(w)'
    <3>1. ASSUME NEW s \in {"check_published", "check_after"}, GoTo(w, s), ~Abort(w)
          PROVE  WorkerInv(w)'
      <4>1. /\ work'[w].stage = s /\ work'[w].doc = d
            /\ work'[w].gen = g /\ work'[w].config = c /\ work'[w].text = t
        BY <3>1, <1>1, GoToFields DEF WorkStages, LockedStages
      <4>2. lock' = lock
        BY <3>1 DEF CompleteGeneration, CompleteGenerationFails
      <4> QED
        BY <1>1, <1>2, <1>3, <1>4, <1>6, <4>1, <4>2
           DEF WorkerInv, LockOf, MutationStages, LockedStages, TextStages, OldStages,
               StaleStages, StoredStages
    <3> QED BY <2>2, <3>1
  <2>4. DocInv(d)'
    BY <1>1, <1>4, <1>6, OtherDoc
  <2>5. RowKeeps(d)
    BY <1>1, <1>4, <1>6, SameRow
  <2> QED BY <1>2, <1>4, <1>5, <1>6, <2>1, <2>3, <2>4, <2>5, WorkerFrame
<1>7. CASE Owned(w) /\ row' = Publication(w)
  <2> DEFINE r == Completed(row[d])
  <2>1. /\ row[d].active /\ row[d].gen = g /\ row[d].status = "processing"
    BY <1>7 DEF Owned, Obsolete
  <2>2. /\ r \in Row /\ r.gen = g /\ r.active
        /\ r.status = "ready" /\ r.parsed = g
    BY <1>1, <2>1, CompletedRow
  <2>3. row' = [row EXCEPT ![d] = r]
    BY <1>1, <1>7 DEF Publication, TypeOK
  <2> HIDE DEF r
  <2>4. /\ row' \in [Docs -> Row] /\ row'[d] = r
        /\ \A e \in Docs \ {d} : row'[e] = row[e]
    BY <1>1, <2>2, <2>3, RowUpdate
  <2>5. TypeOK'
    BY <1>1, <1>4, <1>5, <2>4, MovesFrame, BoundAssumption
       DEF TypeOK, CompleteGeneration, CompleteGenerationFails, Outage
  <2>6. RowKeeps(d)
    BY <1>1, <1>4, <2>1, <2>2, <2>4, RowNumbers DEF RowKeeps
  <2>7. DocInv(d)'
    <3>1. collection.state = "active"
      BY <1>1, <2>1 DEF DocInv, ClosedDoc
    <3>2. upload[d] \notin {"none", "put", "insert"} /\
          (upload[d] = "accepted" => d \in source)
      BY <1>1, <2>1 DEF DocInv, NoRow
    <3> QED BY <1>3, <1>4, <2>1, <2>2, <2>4, <3>1, <3>2
               DEF DocInv, PublishedDoc, DeletedDoc, ClosedDoc
  <2>8. Abort(w) \/ WorkerInv(w)'
    <3>1. ASSUME ~Abort(w) PROVE WorkerInv(w)'
      <4>1. (GoTo(w, "check_published") \/ GoTo(w, "check_after")) /\ lock' = lock
        BY <3>1 DEF CompleteGeneration, CompleteGenerationFails
      <4>2. PICK s \in {"check_published", "check_after"} : GoTo(w, s)
        BY <4>1
      <4>3. /\ work'[w].stage = s /\ work'[w].doc = d
            /\ work'[w].gen = g /\ work'[w].config = c /\ work'[w].text = t
        BY <4>2, <1>1, GoToFields DEF WorkStages, LockedStages
      <4> QED
        BY <1>1, <1>2, <1>3, <1>4, <2>1, <2>2, <2>4, <4>1, <4>3
           DEF WorkerInv, LockOf, MutationStages, LockedStages, TextStages, OldStages,
               StaleStages, StoredStages
    <3> QED BY <3>1
  <2> QED BY <1>2, <1>4, <1>5, <2>4, <2>5, <2>6, <2>7, <2>8, WorkerFrame
<1>8. row' = row \/ (Owned(w) /\ row' = Publication(w))
    BY DEF CompleteGeneration, CompleteGenerationFails
<1> QED BY <1>6, <1>7, <1>8

LEMMA FailInv ==
    ASSUME IInv, NEW w \in Workers, FailGeneration(w) \/ FailGenerationFails(w)
    PROVE  IInv'
<1> PICK d \in Docs : d = work[w].doc
    BY WorkDoc DEF IInv
<1> DEFINE g == work[w].gen
           c == work[w].config
<1>1. TypeOK /\ WorkerInv(w) /\ DocInv(d) /\ row[d] \in Row
    BY RowNumbers DEF IInv
<1>2. work[w].stage = "fail" /\ work[w].stage \in LockedStages
    BY DEF FailGeneration, FailGenerationFails, LockedStages
<1>3. /\ g \in Gens /\ g <= row[d].gen /\ row[d].status # "none"
      /\ lock[LockOf(d)] = w
      /\ row[d].active /\ row[d].gen = g => c = collection.config
    BY <1>1, <1>2 DEF WorkerInv
<1>4. UNCHANGED <<collection, upload, source, parsed, chunks, req, build>>
    BY DEF FailGeneration, FailGenerationFails, stores
<1>5. Moves(w)
  <2>1. "stale_parsed" \in WorkStages /\ "check_fail" \in WorkStages
    BY DEF WorkStages, LockedStages, StaleStages
  <2> QED BY <2>1 DEF FailGeneration, FailGenerationFails, Moves
<1>6. CASE row' = row /\ (Leave(w) \/ (GoTo(w, "check_fail") /\ lock' = lock))
  <2>1. TypeOK'
    BY <1>1, <1>4, <1>5, <1>6, MovesFrame, BoundAssumption
       DEF TypeOK, FailGeneration, FailGenerationFails, Outage
  <2>2. Leave(w) \/ WorkerInv(w)'
    <3>1. ASSUME GoTo(w, "check_fail"), lock' = lock PROVE WorkerInv(w)'
      <4>1. /\ work'[w].stage = "check_fail" /\ work'[w].doc = d
            /\ work'[w].gen = g /\ work'[w].config = c
        BY <3>1, <1>1, GoToFields DEF WorkStages, LockedStages
      <4> QED
        BY <1>1, <1>2, <1>3, <1>4, <1>6, <4>1, <3>1
           DEF WorkerInv, LockOf, MutationStages, LockedStages, TextStages, OldStages,
               StaleStages, StoredStages
    <3> QED BY <1>6, <3>1
  <2>3. DocInv(d)'
    BY <1>1, <1>4, <1>6, OtherDoc
  <2>4. RowKeeps(d)
    BY <1>1, <1>4, <1>6, SameRow
  <2> QED BY <1>2, <1>4, <1>5, <1>6, <2>1, <2>2, <2>3, <2>4, WorkerFrame
<1>7. CASE /\ Owned(w) /\ row' = Failure(w)
           /\ Leave(w) \/ (GoTo(w, "stale_parsed") /\ lock' = lock)
  <2> DEFINE r == Failed(row[d])
  <2>1. /\ row[d].active /\ row[d].gen = g /\ row[d].status = "processing"
    BY <1>7 DEF Owned, Obsolete
  <2>2. r \in Row /\ r.gen = g /\ r.active /\ r.status = "failed"
    BY <1>1, <2>1, FailedRow
  <2>3. row' = [row EXCEPT ![d] = r]
    BY <1>1, <1>7 DEF Failure, TypeOK
  <2> HIDE DEF r
  <2>4. /\ row' \in [Docs -> Row] /\ row'[d] = r
        /\ \A e \in Docs \ {d} : row'[e] = row[e]
    BY <1>1, <2>2, <2>3, RowUpdate
  <2>5. TypeOK'
    BY <1>1, <1>4, <1>5, <2>4, MovesFrame, BoundAssumption
       DEF TypeOK, FailGeneration, FailGenerationFails, Outage
  <2>6. RowKeeps(d)
    BY <1>1, <1>4, <2>1, <2>2, <2>4, RowNumbers DEF RowKeeps
  <2>7. DocInv(d)'
    <3>1. collection.state = "active"
      BY <1>1, <2>1 DEF DocInv, ClosedDoc
    <3>2. upload[d] \notin {"none", "put", "insert"} /\
          (upload[d] = "accepted" => d \in source)
      BY <1>1, <2>1 DEF DocInv, NoRow
    <3> QED BY <1>3, <1>4, <2>1, <2>2, <2>4, <3>1, <3>2
               DEF DocInv, PublishedDoc, DeletedDoc, ClosedDoc, Published
  <2>8. Leave(w) \/ WorkerInv(w)'
    <3>1. ASSUME GoTo(w, "stale_parsed"), lock' = lock PROVE WorkerInv(w)'
      <4>1. /\ work'[w].stage = "stale_parsed" /\ work'[w].doc = d
            /\ work'[w].gen = g /\ work'[w].config = c
        BY <3>1, <1>1, GoToFields DEF WorkStages, LockedStages, StaleStages
      <4> QED
        BY <1>1, <1>2, <1>3, <1>4, <2>1, <2>2, <2>4, <3>1, <4>1
           DEF WorkerInv, LockOf, MutationStages, LockedStages, TextStages, OldStages,
               StaleStages, StoredStages
    <3> QED BY <1>7, <3>1
  <2> QED BY <1>2, <1>4, <1>5, <2>4, <2>5, <2>6, <2>7, <2>8, WorkerFrame
<1>8. \/ row' = row /\ (Leave(w) \/ (GoTo(w, "check_fail") /\ lock' = lock))
      \/ /\ Owned(w) /\ row' = Failure(w)
         /\ Leave(w) \/ (GoTo(w, "stale_parsed") /\ lock' = lock)
    BY DEF FailGeneration, FailGenerationFails
<1> QED BY <1>6, <1>7, <1>8

-----------------------------------------------------------------------------
(* Steps of a worker outside the lock *)

LEMMA OpenInv ==
    ASSUME IInv, TypeOK', NEW a, OpenStep(a),
           a \in Workers => WorkerInv(a)', a \in Deleters => DeleterInv(a)',
           \A d \in Docs : DocInv(d)'
    PROVE  IInv'
<1>1. /\ \A v \in Workers \ {a} : WorkerInv(v)'
      /\ \A r \in Deleters \ {a} : DeleterInv(r)'
    BY OpenFrame
<1>2. \A v \in Workers : WorkerInv(v)'
    BY <1>1
<1>3. \A r \in Deleters : DeleterInv(r)'
    BY <1>1
<1> QED BY <1>2, <1>3 DEF IInv

\* A document that stays as it is.
LEMMA SameOpen ==
    ASSUME TypeOK, NEW d \in Docs, row'[d] = row[d], collection' = collection,
           parsed'[d] = parsed[d], chunks'[d] = chunks[d],
           d \in source' <=> d \in source
    PROVE  RowKeeps(d) /\ OpenChange(d)
BY SameRow DEF OpenChange

LEMMA ClaimInv ==
    ASSUME IInv, NEW w \in Workers, NEW d \in Docs, ClaimNext(w, d) \/ ClaimNextLost(w, d)
    PROVE  IInv'
<1>1. TypeOK /\ TypeOK' /\ DocInv(d) /\ row[d] \in Row
    BY ClaimType, RowNumbers DEF IInv
<1>2. UNCHANGED <<collection, upload, source, parsed, chunks, req, lock>>
    BY DEF ClaimNext, ClaimNextLost, stores
<1>3. /\ collection.state = "active" /\ row[d].active
      /\ row[d].status \in {"queued", "processing"} /\ work[w].stage = "idle"
    BY DEF ClaimNext, ClaimNextLost, Claimable, ManageableCollection
<1>4. PICK id \in Ids :
        /\ row' = [row EXCEPT ![d] = Claimed(row[d], id)]
        /\ ClaimNext(w, d) => work' = [work EXCEPT ![w] =
             [stage |-> "read", doc |-> d, gen |-> row[d].gen, attempt |-> id,
              config |-> collection.config, text |-> NoText]]
    BY <1>1 DEF ClaimNext, ClaimNextLost, TypeOK
<1> DEFINE r == Claimed(row[d], id)
<1>5. /\ r \in Row /\ r.gen = row[d].gen /\ r.active /\ r.status = "processing"
    BY <1>1, <1>3, ClaimedRow
<1> HIDE DEF r
<1>6. row'[d] = r /\ \A e \in Docs \ {d} : row'[e] = row[e]
    BY <1>1, <1>4, <1>5, RowUpdate DEF r
<1>7. \A e \in Docs : RowKeeps(e) /\ OpenChange(e)
  <2>1. ASSUME NEW e \in Docs \ {d} PROVE RowKeeps(e) /\ OpenChange(e)
    BY <1>1, <1>2, <1>6, SameOpen
  <2>2. RowKeeps(d) /\ OpenChange(d)
    BY <1>1, <1>2, <1>3, <1>5, <1>6, RowNumbers DEF RowKeeps, OpenChange
  <2> QED BY <2>1, <2>2
<1>8. \A e \in Docs : DocInv(e)'
  <2>1. ASSUME NEW e \in Docs \ {d} PROVE DocInv(e)'
    BY <1>1, <1>2, <1>6, OtherDoc DEF IInv
  <2>2. DocInv(d)'
    BY <1>1, <1>2, <1>3, <1>5, <1>6
       DEF DocInv, PublishedDoc, DeletedDoc, ClosedDoc, Published, NoRow
  <2> QED BY <2>1, <2>2
<1>9. WorkerInv(w)'
  <2>1. CASE ClaimNext(w, d)
    <3>1. /\ work'[w].stage = "read" /\ work'[w].doc = d
          /\ work'[w].gen = row[d].gen /\ work'[w].config = collection.config
      BY <2>1, <1>1, <1>4 DEF TypeOK
    <3>2. row[d].gen \in Gens
      BY <1>1, <1>3 DEF DocInv
    <3> QED
      BY <1>2, <1>5, <1>6, <3>1, <3>2
         DEF WorkerInv, MutationStages, LockedStages, TextStages, OldStages,
             StaleStages, StoredStages
  <2>2. CASE ClaimNextLost(w, d)
    <3>1. work'[w].stage = "idle"
      BY <2>2, <1>3 DEF ClaimNextLost
    <3> QED BY <3>1 DEF WorkerInv, MutationStages, LockedStages, TextStages, OldStages,
                        StaleStages, StoredStages
  <2> QED BY <2>1, <2>2
<1>10. OpenStep(w)
  <2>1. \A v \in Workers \ {w} : work'[v] = work[v]
    BY <1>1, <1>4 DEF TypeOK, ClaimNext, ClaimNextLost
  <2> QED BY <2>1, <1>2, <1>7 DEF OpenStep
<1>11. w \notin Deleters
    BY ActorAssumption
<1> QED BY <1>1, <1>8, <1>9, <1>10, <1>11, OpenInv

LEMMA EnterInv ==
    ASSUME IInv, NEW w \in Workers, ReadSource(w) \/ EnterHold(w)
    PROVE  IInv'
<1> PICK d \in Docs : d = work[w].doc
    BY WorkDoc DEF IInv
<1> DEFINE g == work[w].gen
           c == work[w].config
<1>1. TypeOK /\ TypeOK' /\ WorkerInv(w)
    BY StepType DEF IInv
<1>2. UNCHANGED <<row, collection, upload, source, parsed, chunks, req>>
    BY DEF ReadSource, EnterHold, stores
<1>3. /\ g \in Gens /\ g <= row[d].gen /\ row[d].status # "none"
      /\ row[d].active /\ row[d].gen = g => c = collection.config
    BY <1>1 DEF WorkerInv, ReadSource, EnterHold
<1>4. \A e \in Docs : RowKeeps(e) /\ OpenChange(e)
    BY <1>1, <1>2, SameOpen
<1>5. \A e \in Docs : DocInv(e)'
    BY <1>2, OtherDoc DEF IInv
<1>6. /\ \A v \in Workers \ {w} : work'[v] = work[v]
      /\ \A s \in Shards : lock[s] # Free => lock'[s] = lock[s]
  <2>1. d \in Docs /\ LockOf(d) \in Shards
    BY <1>1, WorkDoc
  <2>2. CASE ReadSource(w)
    BY <1>1, <2>2 DEF TypeOK, ReadSource, GoTo
  <2>3. CASE EnterHold(w)
    BY <1>1, <2>1, <2>3 DEF TypeOK, EnterHold, GoTo, Acquire
  <2> QED BY <2>2, <2>3
<1>7. OpenStep(w)
    BY <1>2, <1>4, <1>6 DEF OpenStep
<1>8. WorkerInv(w)'
  <2>1. CASE GoTo(w, "failed_lock")
    <3>1. /\ work'[w].stage = "failed_lock" /\ work'[w].doc = d
          /\ work'[w].gen = g /\ work'[w].config = c
      BY <2>1, <1>1, GoToFields DEF WorkStages
    <3> QED BY <1>2, <1>3, <3>1
               DEF WorkerInv, MutationStages, LockedStages, TextStages, OldStages,
                   StaleStages, StoredStages
  <2>2. CASE work' = [work EXCEPT ![w].stage = "lock", ![w].text = build]
    <3>1. work[w] \in Work /\ build \in Texts
      BY <1>1 DEF TypeOK
    <3>2. work'[w] = [work[w] EXCEPT !.stage = "lock", !.text = build]
      BY <2>2, <1>1 DEF TypeOK
    <3>3. /\ work'[w].stage = "lock" /\ work'[w].doc = d
          /\ work'[w].gen = g /\ work'[w].config = c /\ work'[w].text \in Texts
      BY <3>1, <3>2 DEF Work
    <3> QED BY <1>2, <1>3, <3>3
               DEF WorkerInv, MutationStages, LockedStages, TextStages, OldStages,
                   StaleStages, StoredStages
  <2>3. CASE EnterHold(w)
    <3>1. lock'[LockOf(d)] = w
      <4>1. d \in Docs /\ LockOf(d) \in Shards
        BY <1>1, WorkDoc
      <4> QED BY <2>3, <4>1, <1>1 DEF EnterHold, Acquire, TypeOK
    <3>2. CASE work[w].stage = "lock" /\ GoTo(w, "check_put")
      <4>1. /\ work'[w].stage = "check_put" /\ work'[w].doc = d
            /\ work'[w].gen = g /\ work'[w].config = c /\ work'[w].text = work[w].text
        BY <3>2, <1>1, GoToFields DEF WorkStages, LockedStages
      <4> QED BY <1>1, <1>2, <1>3, <3>1, <3>2, <4>1
                 DEF WorkerInv, LockOf, MutationStages, LockedStages, TextStages,
                     OldStages, StaleStages, StoredStages
    <3>3. CASE GoTo(w, "fail")
      <4>1. /\ work'[w].stage = "fail" /\ work'[w].doc = d
            /\ work'[w].gen = g /\ work'[w].config = c
        BY <3>3, <1>1, GoToFields DEF WorkStages, LockedStages
      <4> QED BY <1>1, <1>2, <1>3, <3>1, <4>1
                 DEF WorkerInv, LockOf, MutationStages, LockedStages, TextStages,
                     OldStages, StaleStages, StoredStages
    <3> QED BY <2>3, <3>2, <3>3 DEF EnterHold
  <2> QED BY <2>1, <2>2, <2>3 DEF ReadSource
<1>9. w \notin Deleters
    BY ActorAssumption
<1> QED BY <1>1, <1>5, <1>7, <1>8, <1>9, OpenInv

-----------------------------------------------------------------------------
(* Uploads, and what owners and time do to a row *)

LEMMA UploadInv == ASSUME IInv, NEW d \in Docs, UploadStep(d) PROVE IInv'
<1>1. TypeOK /\ DocInv(d) /\ row[d] \in Row
    BY RowNumbers DEF IInv
<1>2. UNCHANGED <<collection, parsed, chunks, work, req, lock, build>>
    BY DEF UploadStep, ValidateUpload, PutSource, InsertDocument, InsertDocumentFails,
           CompensateUpload, stores
<1>3. /\ upload' \in [Docs -> UploadStates]
      /\ \A e \in Docs \ {d} : upload'[e] = upload[e]
    BY <1>1 DEF UploadStep, ValidateUpload, PutSource, InsertDocument,
                InsertDocumentFails, CompensateUpload, TypeOK, UploadStates
<1>4. /\ source' \subseteq Docs
      /\ \A e \in Docs \ {d} : e \in source' <=> e \in source
    BY <1>1 DEF UploadStep, ValidateUpload, PutSource, InsertDocument,
                InsertDocumentFails, CompensateUpload, TypeOK, stores
<1>5. outages' \in 0 .. MaxOutages
    BY <1>1, BoundAssumption
       DEF UploadStep, ValidateUpload, PutSource, InsertDocument, InsertDocumentFails,
           CompensateUpload, Outage, TypeOK
<1>6. \/ /\ row' = row /\ upload'[d] # "accepted"
         /\ upload'[d] = "insert" => d \in source'
         /\ upload'[d] \in {"none", "put", "insert"} =>
                upload[d] \in {"none", "put", "insert"}
      \/ /\ row' = [row EXCEPT ![d] = Inserted] /\ source' = source
         /\ upload[d] = "insert" /\ collection.state = "active"
         /\ upload'[d] \in {"accepted", "compensate"}
    BY <1>1 DEF UploadStep, ValidateUpload, PutSource, InsertDocument, TypeOK,
                InsertDocumentFails, CompensateUpload, ManageableCollection, stores
<1>7. \A e \in Docs \ {d} : row'[e] = row[e]
    BY <1>1, <1>6 DEF TypeOK
<1>8. row' \in [Docs -> Row]
    BY <1>1, <1>6, InsertedRow, RowUpdate DEF TypeOK
<1>9. TypeOK'
    BY <1>1, <1>2, <1>3, <1>4, <1>5, <1>8 DEF TypeOK
<1>10. DocInv(d)' /\ RowKeeps(d) /\ OpenChange(d)
  <2>1. CASE row' = row /\ upload'[d] # "accepted"
             /\ (upload'[d] = "insert" => d \in source')
             /\ (upload'[d] \in {"none", "put", "insert"} =>
                    upload[d] \in {"none", "put", "insert"})
    <3>1. (d \in source' => d \in source) \/ row[d] = NoRow
      BY <1>1 DEF UploadStep, ValidateUpload, PutSource, InsertDocument,
                  InsertDocumentFails, CompensateUpload, stores, DocInv
    <3>2. RowKeeps(d) /\ OpenChange(d)
      BY <1>1, <1>2, <2>1, <3>1, SameRow DEF OpenChange, NoRow
    <3>3. DocInv(d)'
      BY <1>1, <1>2, <2>1, <3>1
         DEF DocInv, PublishedDoc, DeletedDoc, ClosedDoc, Published, NoRow
    <3> QED BY <3>2, <3>3
  <2>2. CASE /\ row' = [row EXCEPT ![d] = Inserted] /\ source' = source
             /\ upload[d] = "insert" /\ collection.state = "active"
             /\ upload'[d] \in {"accepted", "compensate"}
    <3>1. row'[d] = Inserted
      BY <1>1, <2>2 DEF TypeOK
    <3>2. row[d].status = "none" /\ d \in source
      BY <1>1, <2>2 DEF DocInv, NoRow
    <3>3. 1 \in Gens
      BY BoundAssumption
    <3>4. DocInv(d)'
      BY <1>2, <2>2, <3>1, <3>2, <3>3, InsertedRow
         DEF DocInv, PublishedDoc, DeletedDoc, ClosedDoc, Published
    <3> QED BY <3>2, <3>4 DEF RowKeeps, OpenChange
  <2> QED BY <1>6, <2>1, <2>2
<1>11. \A e \in Docs : RowKeeps(e) /\ OpenChange(e)
  <2>1. ASSUME NEW e \in Docs \ {d} PROVE RowKeeps(e) /\ OpenChange(e)
    BY <1>1, <1>2, <1>4, <1>7, SameOpen
  <2> QED BY <2>1, <1>10
<1>12. \A e \in Docs : DocInv(e)'
  <2>1. ASSUME NEW e \in Docs \ {d} PROVE DocInv(e)'
    BY <1>2, <1>3, <1>4, <1>7, OtherDoc DEF IInv
  <2> QED BY <2>1, <1>10
<1>13. OpenStep(Free)
    BY <1>2, <1>11 DEF OpenStep
<1> QED BY <1>9, <1>12, <1>13, OpenInv, ActorAssumption

\* Steps on rows that neither worker nor DELETE request takes: each changed row
\* stays, goes to its next generation, or has its updated_at rewritten.
OwnerRow(d) == \E stale \in BOOLEAN :
    row'[d] \in {row[d], NextGeneration(row[d]), [row[d] EXCEPT !.stale = stale]}

LEMMA OwnerRowInv ==
    ASSUME IInv, NEW d \in Docs, OwnerRow(d),
           UNCHANGED <<upload, source, parsed, chunks>>,
           row'[d] # row[d] => row[d].active,
           row'[d] = NextGeneration(row[d]) => row[d].gen < MaxGen,
           row[d].active /\ row'[d].gen = row[d].gen =>
                collection'.config = collection.config,
           collection'.state # "active" => row'[d] = row[d] /\ ClosedDoc(d)'
    PROVE  row'[d] \in Row /\ RowKeeps(d) /\ OpenChange(d) /\ DocInv(d)'
<1>1. TypeOK /\ DocInv(d) /\ row[d] \in Row /\ row[d].gen \in Nat /\ row[d].gen <= MaxGen
    BY RowNumbers DEF IInv
<1>2. CASE row'[d] = row[d]
  <2>1. RowKeeps(d) /\ OpenChange(d)
    BY <1>1, <1>2 DEF RowKeeps, OpenChange
  <2>2. ClosedDoc(d)'
    BY <1>1, <1>2 DEF ClosedDoc
  <2>3. PublishedDoc(d)' /\ DeletedDoc(d)'
    BY <1>1, <1>2 DEF DocInv, PublishedDoc, DeletedDoc, Published
  <2> QED BY <1>1, <1>2, <2>1, <2>2, <2>3 DEF DocInv
<1>3. CASE row'[d] # row[d] /\ row'[d] = NextGeneration(row[d])
  <2>1. /\ row'[d] \in Row /\ row'[d].gen = row[d].gen + 1
        /\ row'[d].active /\ row'[d].status = "queued" /\ row[d].active
    BY <1>1, <1>3, NextGenerationRow
  <2>2. row'[d].gen \in Gens
    BY <1>1, <1>3, BoundAssumption, <2>1 DEF Row
  <2> QED BY <1>1, <1>3, <2>1, <2>2
             DEF RowKeeps, OpenChange, DocInv, PublishedDoc, DeletedDoc, ClosedDoc,
                 Published, NoRow
<1>4. CASE row'[d] # row[d] /\ \E stale \in BOOLEAN : row'[d] = [row[d] EXCEPT !.stale = stale]
  <2>1. /\ row'[d] \in Row /\ row'[d].gen = row[d].gen /\ row'[d].status = row[d].status
        /\ row'[d].active /\ row[d].active /\ row'[d].parsed = row[d].parsed
    BY <1>1, <1>4 DEF Row
  <2> QED BY <1>1, <1>4, <2>1
             DEF RowKeeps, OpenChange, DocInv, PublishedDoc, DeletedDoc, ClosedDoc,
                 Published, NoRow
<1> QED BY <1>2, <1>3, <1>4 DEF OwnerRow

LEMMA OwnerInv ==
    ASSUME IInv, NEW d \in Docs, Reindex(d) \/ Rename(d) \/ TimePasses(d)
    PROVE  IInv'
<1>1. TypeOK /\ row[d] \in Row
    BY RowNumbers DEF IInv
<1>2. /\ UNCHANGED <<collection, upload, source, parsed, chunks, work, req, lock,
                     build, outages>>
      /\ row[d].active
    BY DEF Reindex, Rename, TimePasses, stores
<1>3. collection.state = "active"
    BY <1>2 DEF IInv, DocInv, ClosedDoc
<1>4. PICK n : /\ row' = [row EXCEPT ![d] = n]
               /\ \/ n = NextGeneration(row[d]) /\ row[d].gen < MaxGen
                  \/ \E stale \in BOOLEAN : n = [row[d] EXCEPT !.stale = stale]
  <2>1. CASE Reindex(d)
    BY <1>1, <2>1 DEF Reindex, TypeOK
  <2>2. CASE Rename(d)
    BY <1>1, <2>2 DEF Rename, TypeOK
  <2>3. CASE TimePasses(d)
    BY <1>1, <2>3 DEF TimePasses, TypeOK
  <2> QED BY <2>1, <2>2, <2>3
<1>5. row'[d] = n /\ \A e \in Docs \ {d} : row'[e] = row[e]
    BY <1>1, <1>4 DEF TypeOK
<1>6. row'[d] = NextGeneration(row[d]) => row[d].gen < MaxGen
  <2>1. NextGeneration(row[d]).gen = row[d].gen + 1 /\ row[d].gen \in Nat
    BY <1>1, RowNumbers DEF NextGeneration, Queued, Row
  <2>2. CASE n = NextGeneration(row[d]) /\ row[d].gen < MaxGen
    BY <2>2
  <2>3. CASE \E stale \in BOOLEAN : n = [row[d] EXCEPT !.stale = stale]
    <3>1. n.gen = row[d].gen
      BY <1>1, <2>3 DEF Row
    <3> QED BY <1>5, <2>1, <3>1
  <2> QED BY <1>4, <2>2, <2>3
<1>7. OwnerRow(d)
    BY <1>4, <1>5 DEF OwnerRow
<1>8. row'[d] \in Row /\ RowKeeps(d) /\ OpenChange(d) /\ DocInv(d)'
    BY <1>2, <1>3, <1>6, <1>7, OwnerRowInv
<1>9. TypeOK'
  <2>1. row' \in [Docs -> Row]
    BY <1>1, <1>4, <1>5, <1>8, RowUpdate
  <2> QED BY <1>1, <1>2, <2>1 DEF TypeOK
<1>10. \A e \in Docs : RowKeeps(e) /\ OpenChange(e)
  <2>1. ASSUME NEW e \in Docs \ {d} PROVE RowKeeps(e) /\ OpenChange(e)
    BY <1>1, <1>2, <1>5, SameOpen
  <2> QED BY <2>1, <1>8
<1>11. \A e \in Docs : DocInv(e)'
  <2>1. ASSUME NEW e \in Docs \ {d} PROVE DocInv(e)'
    BY <1>2, <1>5, OtherDoc DEF IInv
  <2> QED BY <2>1, <1>8
<1>12. OpenStep(Free)
    BY <1>2, <1>10 DEF OpenStep
<1> QED BY <1>9, <1>11, <1>12, OpenInv, ActorAssumption

LEMMA CollectionInv == ASSUME IInv, CollectionStep PROVE IInv'
<1>1. TypeOK
    BY DEF IInv
<1>2. UNCHANGED <<upload, source, parsed, chunks, work, req, lock, build, outages>>
    BY DEF CollectionStep, PutCollection, DeleteCollection, stores
<1>3. collection' \in [state : {"active", "inactive", "deleted"}, config : Configs]
  <2>1. ASSUME NEW active \in BOOLEAN, NEW config \in Configs, PutCollection(active, config)
        PROVE  collection' \in [state : {"active", "inactive", "deleted"}, config : Configs]
    BY <2>1 DEF PutCollection
  <2>2. CASE DeleteCollection
    BY <1>1, <2>2 DEF DeleteCollection, TypeOK
  <2> QED BY <2>1, <2>2 DEF CollectionStep
<1>4. collection'.state # "active" => ~CollectionInUse
  <2>1. ASSUME NEW active \in BOOLEAN, NEW config \in Configs, PutCollection(active, config)
        PROVE  collection'.state # "active" => ~CollectionInUse
    BY <2>1 DEF PutCollection
  <2> QED BY <2>1 DEF CollectionStep, DeleteCollection
<1>5. \/ row' = row /\ collection'.config = collection.config
      \/ row' = [d \in Docs |-> IF row[d].active THEN NextGeneration(row[d]) ELSE row[d]]
         /\ \A d \in Docs : row[d].active => row[d].gen < MaxGen
  <2>1. ASSUME NEW active \in BOOLEAN, NEW config \in Configs, PutCollection(active, config)
        PROVE  \/ row' = row /\ collection'.config = collection.config
               \/ row' = [d \in Docs |-> IF row[d].active THEN NextGeneration(row[d])
                                         ELSE row[d]]
                  /\ \A d \in Docs : row[d].active => row[d].gen < MaxGen
    BY <2>1 DEF PutCollection, Rebuilt
  <2>2. CASE DeleteCollection
    BY <1>1, <2>2 DEF DeleteCollection, TypeOK
  <2> QED BY <2>1, <2>2 DEF CollectionStep
<1>6. ASSUME NEW d \in Docs
      PROVE  row'[d] \in Row /\ RowKeeps(d) /\ OpenChange(d) /\ DocInv(d)'
  <2>1. row[d] \in Row /\ row[d].gen \in Nat
    BY <1>1, RowNumbers
  <2>2. \/ row'[d] = row[d] /\ (row[d].active => collection'.config = collection.config)
        \/ /\ row'[d] = NextGeneration(row[d]) /\ row[d].active /\ row[d].gen < MaxGen
           /\ row'[d].gen # row[d].gen
    BY <1>5, <2>1, NextGenerationRow
  <2>3. collection'.state # "active" => ~row[d].active /\ ~Blocking(d)
    BY <1>4 DEF CollectionInUse, Blocking
  <2>4. collection'.state # "active" => row'[d] = row[d] /\ ClosedDoc(d)'
    BY <2>2, <2>3 DEF ClosedDoc, Blocking
  <2>5. row'[d] = NextGeneration(row[d]) => row[d].gen < MaxGen
    <3>1. NextGeneration(row[d]).gen = row[d].gen + 1
      BY <2>1 DEF NextGeneration, Queued, Row
    <3> QED BY <2>1, <2>2, <3>1
  <2>6. OwnerRow(d)
    BY <2>2 DEF OwnerRow
  <2> QED BY <1>2, <2>2, <2>4, <2>5, <2>6, OwnerRowInv
<1>7. TypeOK'
  <2>1. row' \in [Docs -> Row]
    BY <1>1, <1>5, <1>6 DEF TypeOK
  <2> QED BY <1>1, <1>2, <1>3, <2>1 DEF TypeOK
<1>8. OpenStep(Free)
    BY <1>2, <1>6 DEF OpenStep
<1> QED BY <1>6, <1>7, <1>8, OpenInv, ActorAssumption

-----------------------------------------------------------------------------
(* DELETE requests *)

LEMMA RequestDoc == ASSUME TypeOK, NEW r \in Deleters
                    PROVE  req[r].doc \in Docs /\ LockOf(req[r].doc) \in Shards
BY ShardAssumption DEF TypeOK, Request, LockOf

\* A change of stage keeps the request.
LEMMA AfterFields ==
    ASSUME TypeOK, NEW r \in Deleters, NEW s \in DeleteStages, NEW f \in BOOLEAN,
           AfterDelete(r, s, f)
    PROVE  /\ req' \in [Deleters -> Request]
           /\ req'[r].stage = s /\ req'[r].doc = req[r].doc
           /\ req'[r].failed = (req[r].failed \/ f)
           /\ \A q \in Deleters \ {r} : req'[q] = req[q]
<1>1. req[r] \in Request
    BY DEF TypeOK
<1> DEFINE n == [req[r] EXCEPT !.stage = s, !.failed = @ \/ f]
<1>2. req' = [req EXCEPT ![r] = n]
    BY DEF AfterDelete, TypeOK
<1>3. n.stage = s /\ n.doc = req[r].doc /\ n.failed = (req[r].failed \/ f)
    BY <1>1 DEF Request
<1>4. n \in Request
    BY <1>1 DEF Request
<1> HIDE DEF n
<1> QED BY <1>2, <1>3, <1>4 DEF TypeOK

LEMMA LeaveDeleteFields ==
    ASSUME TypeOK, NEW r \in Deleters, LeaveDelete(r)
    PROVE  /\ req' \in [Deleters -> Request]
           /\ lock' \in [Shards -> Actors \cup {Free}]
           /\ req'[r].stage = "idle"
           /\ \A q \in Deleters \ {r} : req'[q] = req[q]
           /\ \A s \in Shards \ {LockOf(req[r].doc)} : lock'[s] = lock[s]
<1>1. lock' \in [Shards -> Actors \cup {Free}]
    BY RequestDoc, ReleaseType DEF LeaveDelete
<1>2. /\ req' \in [Deleters -> Request] /\ req'[r].stage = "idle"
      /\ \A q \in Deleters \ {r} : req'[q] = req[q]
    BY IdleTypes DEF LeaveDelete, TypeOK, NoRequest
<1>3. \A s \in Shards \ {LockOf(req[r].doc)} : lock'[s] = lock[s]
    BY DEF LeaveDelete, TypeOK, Release
<1> QED BY <1>1, <1>2, <1>3

\* The invariant of the whole from that of the request and its document.
LEMMA DeleterFrame ==
    ASSUME IInv, TypeOK', NEW r \in Deleters, req[r].stage \in DeleteStages,
           NEW d \in Docs, d = req[r].doc,
           \A q \in Deleters \ {r} : req'[q] = req[q],
           \A s \in Shards \ {LockOf(d)} : lock'[s] = lock[s],
           UNCHANGED <<work, collection, upload>>,
           RowKeeps(d),
           \A e \in Docs \ {d} :
                /\ row'[e] = row[e] /\ parsed'[e] = parsed[e] /\ chunks'[e] = chunks[e]
                /\ e \in source' <=> e \in source,
           DeleterInv(r)', DocInv(d)'
    PROVE  IInv'
<1>1. lock[LockOf(d)] = r
    BY DEF IInv, DeleterInv
<1>2. LockedStep(r, d)
    BY <1>1 DEF LockedStep
<1>3. /\ \A v \in Workers \ {r} : WorkerInv(v)'
      /\ \A q \in Deleters \ {r} : DeleterInv(q)'
      /\ \A e \in Docs \ {d} : DocInv(e)'
    BY <1>2, LockedFrame
<1>4. Workers \ {r} = Workers
    BY ActorAssumption
<1>5. \A v \in Workers : WorkerInv(v)'
    BY <1>3, <1>4
<1>6. \A q \in Deleters : DeleterInv(q)'
    BY <1>3
<1>7. \A e \in Docs : DocInv(e)'
    BY <1>3
<1> QED BY <1>5, <1>6, <1>7 DEF IInv

LEMMA RequestInv ==
    ASSUME IInv, NEW r \in Deleters, NEW d \in Docs, RequestDelete(r, d) PROVE IInv'
<1>1. TypeOK /\ UNCHANGED <<row, collection, upload, source, parsed, chunks, work,
                            lock, build, outages>>
    BY DEF IInv, RequestDelete, stores
<1> DEFINE n == [NoRequest EXCEPT !.stage = "lock", !.doc = d]
<1>2. n \in Request /\ n.stage = "lock" /\ n.doc = d
    BY IdleTypes DEF Request
<1>3. req' = [req EXCEPT ![r] = n] /\ row[d].status # "none"
    BY DEF RequestDelete
<1> HIDE DEF n
<1>4. req' \in [Deleters -> Request] /\ req'[r] = n
      /\ \A q \in Deleters \ {r} : req'[q] = req[q]
    BY <1>1, <1>2, <1>3 DEF TypeOK
<1>5. TypeOK'
    BY <1>1, <1>4 DEF TypeOK
<1>6. DeleterInv(r)'
    BY <1>1, <1>2, <1>3, <1>4 DEF DeleterInv, CleanupStages, DeleteStages
<1>7. OpenStep(r) /\ \A e \in Docs : DocInv(e)'
    BY <1>1, <1>4, SameOpen, OtherDoc DEF OpenStep, IInv
<1> QED BY <1>5, <1>6, <1>7, OpenInv, ActorAssumption

LEMMA EnterDeleteInv == ASSUME IInv, NEW r \in Deleters, EnterDelete(r) PROVE IInv'
<1> PICK d \in Docs : d = req[r].doc
    BY RequestDoc DEF IInv
<1>1. /\ TypeOK /\ DeleterInv(r) /\ req[r] \in Request /\ LockOf(d) \in Shards
      /\ UNCHANGED <<row, collection, upload, source, parsed, chunks, work, build, outages>>
      /\ req[r].stage = "lock"
    BY RequestDoc DEF IInv, EnterDelete, stores, TypeOK
<1> DEFINE n == [req[r] EXCEPT !.stage = "isolate"]
<1>2. n \in Request /\ n.stage = "isolate" /\ n.doc = d
    BY <1>1 DEF Request, DeleteStages
<1>3. req' = [req EXCEPT ![r] = n]
    BY <1>1 DEF EnterDelete, TypeOK
<1> HIDE DEF n
<1>4. req' \in [Deleters -> Request] /\ req'[r] = n
      /\ \A q \in Deleters \ {r} : req'[q] = req[q]
    BY <1>1, <1>2, <1>3 DEF TypeOK
<1>5. /\ lock' \in [Shards -> Actors \cup {Free}] /\ lock'[LockOf(d)] = r
      /\ \A s \in Shards : lock[s] # Free => lock'[s] = lock[s]
    BY <1>1 DEF EnterDelete, Acquire, TypeOK
<1>6. TypeOK'
    BY <1>1, <1>4, <1>5 DEF TypeOK
<1>7. DeleterInv(r)'
    BY <1>1, <1>2, <1>4, <1>5 DEF DeleterInv, CleanupStages, DeleteStages, LockOf
<1>8. OpenStep(r) /\ \A e \in Docs : DocInv(e)'
    BY <1>1, <1>4, <1>5, SameOpen, OtherDoc DEF OpenStep, IInv
<1> QED BY <1>6, <1>7, <1>8, OpenInv, ActorAssumption

LEMMA IsolateInv ==
    ASSUME IInv, NEW r \in Deleters, Isolate(r) \/ IsolateFails(r) PROVE IInv'
<1> PICK d \in Docs : d = req[r].doc
    BY RequestDoc DEF IInv
<1>1. /\ TypeOK /\ DeleterInv(r) /\ DocInv(d) /\ req[r] \in Request /\ row[d] \in Row
      /\ UNCHANGED <<collection, upload, source, parsed, chunks, work, build>>
      /\ req[r].stage = "isolate" /\ req[r].stage \in DeleteStages
    BY RowNumbers DEF IInv, Isolate, IsolateFails, stores, TypeOK, DeleteStages
<1>2. row[d].status # "none" /\ lock[LockOf(d)] = r
    BY <1>1 DEF DeleterInv
<1>3. outages' \in 0 .. MaxOutages
    BY <1>1, BoundAssumption DEF Isolate, IsolateFails, Outage, TypeOK
<1>4. CASE LeaveDelete(r) /\ row' = row
  <2>1. TypeOK'
    BY <1>1, <1>3, <1>4, LeaveDeleteFields DEF TypeOK
  <2>2. DeleterInv(r)'
    BY <1>1, <1>4, LeaveDeleteFields DEF DeleterInv, CleanupStages, DeleteStages
  <2>3. DocInv(d)' /\ RowKeeps(d)
    BY <1>1, <1>4, OtherDoc, SameRow
  <2> QED BY <1>1, <1>4, <2>1, <2>2, <2>3, LeaveDeleteFields, DeleterFrame
<1>5. CASE \E id \in Ids : /\ collection.state = "active"
                           /\ row' = [row EXCEPT ![d] = Isolated(row[d], id)]
                           /\ \/ LeaveDelete(r)
                              \/ /\ req' = [req EXCEPT ![r].stage = "projections",
                                                       ![r].cleanup = id]
                                 /\ lock' = lock
  <2> PICK id \in Ids :
        /\ collection.state = "active"
        /\ row' = [row EXCEPT ![d] = Isolated(row[d], id)]
        /\ \/ LeaveDelete(r)
           \/ /\ req' = [req EXCEPT ![r].stage = "projections", ![r].cleanup = id]
              /\ lock' = lock
    BY <1>5
  <2> DEFINE n == Isolated(row[d], id)
             q == [req[r] EXCEPT !.stage = "projections", !.cleanup = id]
  <2>1. /\ n \in Row /\ n.gen = row[d].gen /\ ~n.active
        /\ n.status = row[d].status /\ n.error = "cleanup_pending"
    BY <1>1, IsolatedRow
  <2>2. q \in Request /\ q.stage = "projections" /\ q.doc = d
    BY <1>1 DEF Request, DeleteStages
  <2>3. \/ LeaveDelete(r)
        \/ req' = [req EXCEPT ![r] = q] /\ lock' = lock
    BY <1>1 DEF TypeOK
  <2> HIDE DEF n, q
  <2>4. /\ row' \in [Docs -> Row] /\ row'[d] = n
        /\ \A e \in Docs \ {d} : row'[e] = row[e]
    BY <1>1, <2>1, RowUpdate DEF n
  <2>5. /\ req' \in [Deleters -> Request] /\ lock' \in [Shards -> Actors \cup {Free}]
        /\ \A p \in Deleters \ {r} : req'[p] = req[p]
        /\ \A s \in Shards \ {LockOf(d)} : lock'[s] = lock[s]
        /\ req'[r].stage = "idle" \/ (req'[r] = q /\ lock' = lock)
    BY <1>1, <2>2, <2>3, LeaveDeleteFields DEF TypeOK
  <2>6. TypeOK'
    BY <1>1, <1>3, <2>4, <2>5 DEF TypeOK
  <2>7. DeleterInv(r)'
    BY <1>1, <1>2, <2>1, <2>2, <2>4, <2>5
       DEF DeleterInv, CleanupStages, DeleteStages, LockOf
  <2>8. DocInv(d)'
    BY <1>1, <1>2, <2>1, <2>4
       DEF DocInv, PublishedDoc, DeletedDoc, ClosedDoc, Published, NoRow
  <2>9. RowKeeps(d)
    BY <1>1, <1>2, <2>1, <2>4, RowNumbers DEF RowKeeps
  <2> QED BY <1>1, <2>4, <2>5, <2>6, <2>7, <2>8, <2>9, DeleterFrame
<1>6. \/ LeaveDelete(r) /\ row' = row
      \/ \E id \in Ids : /\ collection.state = "active"
                         /\ row' = [row EXCEPT ![d] = Isolated(row[d], id)]
                         /\ \/ LeaveDelete(r)
                            \/ /\ req' = [req EXCEPT ![r].stage = "projections",
                                                     ![r].cleanup = id]
                               /\ lock' = lock
    BY <1>1 DEF Isolate, IsolateFails, ManageableCollection, TypeOK
<1> QED BY <1>4, <1>5, <1>6

\* What is in the stores does not matter for a document being cleaned up.
LEMMA IsolatedDoc ==
    ASSUME NEW d \in Docs, DocInv(d), row'[d] = row[d], upload' = upload,
           collection' = collection, row[d].status # "none", ~row[d].active,
           row[d].error = "cleanup_pending"
    PROVE  DocInv(d)'
BY DEF DocInv, PublishedDoc, DeletedDoc, ClosedDoc, Published, NoRow

\* A deletion over all generations touches one document.
LEMMA ClearedProjections ==
    ASSUME TypeOK, NEW r \in Deleters, DeleteProjections(r)
    PROVE  /\ chunks' \in [Docs -> [Gens -> SUBSET Chunk]]
           /\ \A e \in Docs \ {req[r].doc} : chunks'[e] = chunks[e]
<1> DEFINE d == req[r].doc
<1>1. d \in Docs /\ chunks \in [Docs -> [Gens -> SUBSET Chunk]]
    BY RequestDoc DEF TypeOK
<1>2. CASE chunks' = [chunks EXCEPT ![d] = [g \in Gens |-> {}]]
    BY <1>1, <1>2
<1>3. CASE \E left \in PartOf(Gens) : chunks' = [chunks EXCEPT ![d] =
                [g \in Gens |-> IF g \in left THEN chunks[d][g] ELSE {}]]
  <2> PICK left : chunks' = [chunks EXCEPT ![d] =
                [g \in Gens |-> IF g \in left THEN chunks[d][g] ELSE {}]]
    BY <1>3
  <2> DEFINE F == [g \in Gens |-> IF g \in left THEN chunks[d][g] ELSE {}]
  <2>1. F \in [Gens -> SUBSET Chunk] /\ chunks' = [chunks EXCEPT ![d] = F]
    BY <1>1
  <2> HIDE DEF F
  <2> QED BY <1>1, <2>1
<1> QED BY <1>2, <1>3 DEF DeleteProjections

LEMMA ClearedParsed ==
    ASSUME TypeOK, NEW r \in Deleters, DeleteParsed(r)
    PROVE  /\ parsed' \in [Docs -> [Gens -> Texts \cup {NoText}]]
           /\ \A e \in Docs \ {req[r].doc} : parsed'[e] = parsed[e]
<1> DEFINE d == req[r].doc
<1>1. d \in Docs /\ parsed \in [Docs -> [Gens -> Texts \cup {NoText}]]
    BY RequestDoc DEF TypeOK
<1>2. CASE parsed' = [parsed EXCEPT ![d] = [g \in Gens |-> NoText]]
    BY <1>1, <1>2
<1>3. CASE \E left \in PartOf(Gens) : parsed' = [parsed EXCEPT ![d] =
                [g \in Gens |-> IF g \in left THEN parsed[d][g] ELSE NoText]]
  <2> PICK left : parsed' = [parsed EXCEPT ![d] =
                [g \in Gens |-> IF g \in left THEN parsed[d][g] ELSE NoText]]
    BY <1>3
  <2> DEFINE F == [g \in Gens |-> IF g \in left THEN parsed[d][g] ELSE NoText]
  <2>1. F \in [Gens -> Texts \cup {NoText}] /\ parsed' = [parsed EXCEPT ![d] = F]
    BY <1>1
  <2> HIDE DEF F
  <2> QED BY <1>1, <2>1
<1> QED BY <1>2, <1>3 DEF DeleteParsed

LEMMA DeleteInv ==
    ASSUME IInv, NEW r \in Deleters,
           DeleteProjections(r) \/ DeleteParsed(r) \/ DeleteSource(r)
    PROVE  IInv'
<1> PICK d \in Docs : d = req[r].doc
    BY RequestDoc DEF IInv
<1>1. /\ TypeOK /\ DeleterInv(r) /\ DocInv(d) /\ req[r] \in Request
      /\ UNCHANGED <<row, collection, upload, work, lock, build, outages>>
      /\ req[r].stage \in {"projections", "parsed", "source"}
      /\ req[r].stage \in DeleteStages /\ req[r].stage \in CleanupStages
    BY DEF IInv, DeleteProjections, DeleteParsed, DeleteSource, TypeOK, DeleteStages,
           CleanupStages
<1>2. /\ row[d].status # "none" /\ ~row[d].active /\ row[d].error = "cleanup_pending"
      /\ lock[LockOf(d)] = r
      /\ chunks \in [Docs -> [Gens -> SUBSET Chunk]]
      /\ parsed \in [Docs -> [Gens -> Texts \cup {NoText}]]
    BY <1>1 DEF DeleterInv, TypeOK
<1>3. PICK s \in DeleteStages, f \in BOOLEAN : AfterDelete(r, s, f) /\
        \/ /\ DeleteProjections(r) /\ s = "parsed"
           /\ ~f => chunks' = [chunks EXCEPT ![d] = [g \in Gens |-> {}]]
        \/ /\ DeleteParsed(r) /\ s = "source"
           /\ ~f => parsed' = [parsed EXCEPT ![d] = [g \in Gens |-> NoText]]
        \/ DeleteSource(r) /\ s = "finish" /\ (~f => source' = source \ {d})
  <2>1. CASE DeleteProjections(r)
    <3>1. \E f \in BOOLEAN : AfterDelete(r, "parsed", f) /\
            (~f => chunks' = [chunks EXCEPT ![d] = [g \in Gens |-> {}]])
      BY <2>1 DEF DeleteProjections
    <3>2. "parsed" \in DeleteStages
      BY DEF DeleteStages
    <3> QED BY <2>1, <3>1, <3>2
  <2>2. CASE DeleteParsed(r)
    <3>1. \E f \in BOOLEAN : AfterDelete(r, "source", f) /\
            (~f => parsed' = [parsed EXCEPT ![d] = [g \in Gens |-> NoText]])
      BY <2>2 DEF DeleteParsed
    <3>2. "source" \in DeleteStages
      BY DEF DeleteStages
    <3> QED BY <2>2, <3>1, <3>2
  <2>3. CASE DeleteSource(r)
    <3>1. \E f \in BOOLEAN : AfterDelete(r, "finish", f) /\
            (~f => source' = source \ {d})
      BY <2>3 DEF DeleteSource
    <3>2. "finish" \in DeleteStages
      BY DEF DeleteStages
    <3> QED BY <2>3, <3>1, <3>2
  <2> QED BY <2>1, <2>2, <2>3
<1>4. /\ req' \in [Deleters -> Request]
      /\ req'[r].stage = s /\ req'[r].doc = d
      /\ req'[r].failed = (req[r].failed \/ f)
      /\ \A q \in Deleters \ {r} : req'[q] = req[q]
    BY <1>1, <1>3, AfterFields
<1>5. CASE DeleteProjections(r) /\ s = "parsed"
  <2>1. source' = source /\ parsed' = parsed /\ req[r].stage = "projections"
    BY <1>5 DEF DeleteProjections
  <2>3. /\ chunks' \in [Docs -> [Gens -> SUBSET Chunk]]
        /\ \A e \in Docs \ {d} : chunks'[e] = chunks[e]
    BY <1>1, <1>5, ClearedProjections
  <2>4. TypeOK'
    BY <1>1, <1>4, <2>1, <2>3 DEF TypeOK
  <2>5. ~f => \A g \in Gens : chunks'[d][g] = {}
    BY <1>2, <1>3, <1>5
  <2>6. DeleterInv(r)'
    BY <1>1, <1>2, <1>4, <1>5, <2>5 DEF DeleterInv, CleanupStages, DeleteStages, LockOf
  <2> QED BY <1>1, <1>2, <1>4, <2>1, <2>3, <2>4, <2>6, IsolatedDoc, SameRow, DeleterFrame
<1>6. CASE DeleteParsed(r) /\ s = "source"
  <2>1. source' = source /\ chunks' = chunks /\ req[r].stage = "parsed"
    BY <1>6 DEF DeleteParsed
  <2>3. /\ parsed' \in [Docs -> [Gens -> Texts \cup {NoText}]]
        /\ \A e \in Docs \ {d} : parsed'[e] = parsed[e]
    BY <1>1, <1>6, ClearedParsed
  <2>4. TypeOK'
    BY <1>1, <1>4, <2>1, <2>3 DEF TypeOK
  <2>5. ~f => \A g \in Gens : parsed'[d][g] = NoText
    <3>1. ~f => parsed' = [parsed EXCEPT ![d] = [g \in Gens |-> NoText]]
      BY <1>3, <1>6
    <3>2. ASSUME ~f, NEW g \in Gens PROVE parsed'[d][g] = NoText
      <4>1. parsed'[d] = [h \in Gens |-> NoText]
        BY <1>2, <3>1, <3>2
      <4> QED BY <4>1
    <3> QED BY <3>2
  <2>6. DeleterInv(r)'
    BY <1>1, <1>2, <1>4, <1>6, <2>1, <2>5
       DEF DeleterInv, CleanupStages, DeleteStages, LockOf
  <2> QED BY <1>1, <1>2, <1>4, <2>1, <2>3, <2>4, <2>6, IsolatedDoc, SameRow, DeleterFrame
<1>7. CASE DeleteSource(r) /\ s = "finish"
  <2>1. /\ parsed' = parsed /\ chunks' = chunks /\ req[r].stage = "source"
        /\ source' \in {source, source \ {d}} /\ (~f => source' = source \ {d})
    BY <1>3, <1>7 DEF DeleteSource
  <2>2. TypeOK'
    BY <1>1, <1>4, <2>1 DEF TypeOK
  <2>3. DeleterInv(r)'
    BY <1>1, <1>2, <1>4, <1>7, <2>1 DEF DeleterInv, CleanupStages, DeleteStages, LockOf
  <2>4. \A e \in Docs \ {d} : e \in source' <=> e \in source
    BY <2>1
  <2> QED BY <1>1, <1>2, <1>4, <2>1, <2>2, <2>3, <2>4, IsolatedDoc, SameRow, DeleterFrame
<1> QED BY <1>3, <1>5, <1>6, <1>7

LEMMA FinishInv ==
    ASSUME IInv, NEW r \in Deleters, FinishCleanup(r) \/ FinishCleanupFails(r) PROVE IInv'
<1> PICK d \in Docs : d = req[r].doc
    BY RequestDoc DEF IInv
<1>1. /\ TypeOK /\ DeleterInv(r) /\ DocInv(d) /\ req[r] \in Request /\ row[d] \in Row
      /\ UNCHANGED <<collection, upload, source, parsed, chunks, work, build>>
      /\ req[r].stage = "finish" /\ LeaveDelete(r)
      /\ req[r].stage \in DeleteStages /\ req[r].stage \in CleanupStages
      /\ req[r].failed \in BOOLEAN
    BY RowNumbers DEF IInv, FinishCleanup, FinishCleanupFails, stores, TypeOK,
                      DeleteStages, CleanupStages, Request
<1>2. /\ row[d].status # "none" /\ ~row[d].active /\ row[d].error = "cleanup_pending"
      /\ ~req[r].failed => d \notin source /\ \A g \in Gens : parsed[d][g] = NoText
                                                            /\ chunks[d][g] = {}
    BY <1>1 DEF DeleterInv
<1>3. outages' \in 0 .. MaxOutages
    BY <1>1, BoundAssumption DEF FinishCleanup, FinishCleanupFails, Outage, TypeOK
<1>4. DeleterInv(r)'
    BY <1>1, LeaveDeleteFields DEF DeleterInv, CleanupStages, DeleteStages
<1>5. CASE row' = row
  <2>1. TypeOK'
    BY <1>1, <1>3, <1>5, LeaveDeleteFields DEF TypeOK
  <2> QED BY <1>1, <1>4, <1>5, <2>1, OtherDoc, SameRow, LeaveDeleteFields, DeleterFrame
<1>6. ASSUME NEW e \in {"none", "cleanup_failed"},
             e = IF req[r].failed THEN "cleanup_failed" ELSE "none",
             row' = [row EXCEPT ![d] = Cleaned(row[d], e)]
      PROVE  IInv'
  <2> DEFINE n == Cleaned(row[d], e)
  <2>1. /\ n \in Row /\ n.gen = row[d].gen /\ ~n.active
        /\ n.status = row[d].status /\ n.error = e
    BY <1>1, <1>2, CleanedRow
  <2> HIDE DEF n
  <2>2. /\ row' \in [Docs -> Row] /\ row'[d] = n
        /\ \A c \in Docs \ {d} : row'[c] = row[c]
    BY <1>1, <1>6, <2>1, RowUpdate DEF n
  <2>3. TypeOK'
    BY <1>1, <1>3, <2>2, LeaveDeleteFields DEF TypeOK
  <2>4. RowKeeps(d)
    BY <1>1, <1>2, <2>1, <2>2, RowNumbers DEF RowKeeps
  <2>5. collection.state = "active"
    BY <1>1, <1>2 DEF DocInv, ClosedDoc
  <2>6. DocInv(d)'
    BY <1>1, <1>2, <1>6, <2>1, <2>2, <2>5
       DEF DocInv, PublishedDoc, DeletedDoc, ClosedDoc, Published, NoRow
  <2> QED BY <1>1, <1>4, <2>2, <2>3, <2>4, <2>6, LeaveDeleteFields, DeleterFrame
<1>7. \/ row' = row
      \/ row' = [row EXCEPT ![d] =
                    Cleaned(row[d], IF req[r].failed THEN "cleanup_failed" ELSE "none")]
    BY <1>1 DEF FinishCleanup, FinishCleanupFails, Finished, TypeOK
<1> QED BY <1>5, <1>6, <1>7

-----------------------------------------------------------------------------
(* Crashes, and the invariant of the specification *)

LEMMA RestartInv == ASSUME IInv, Restart PROVE IInv'
<1>1. /\ TypeOK /\ UNCHANGED <<row, collection, source, parsed, chunks>>
      /\ work' = [w \in Workers |-> NoWork] /\ req' = [r \in Deleters |-> NoRequest]
      /\ \A d \in Docs : upload'[d] \in {upload[d], "lost"}
    BY DEF IInv, Restart, stores
<1>2. upload' \in [Docs -> UploadStates]
    BY <1>1 DEF Restart, TypeOK, UploadStates
<1>3. TypeOK'
    BY <1>1, <1>2, IdleTypes, BoundAssumption DEF Restart, Outage, TypeOK
<1>4. \A w \in Workers : work'[w].stage = "idle"
    BY <1>1 DEF NoWork
<1>5. \A r \in Deleters : req'[r].stage = "idle"
    BY <1>1 DEF NoRequest
<1>6. ASSUME NEW w \in Workers PROVE WorkerInv(w)'
    BY <1>4 DEF WorkerInv, LockedStages, TextStages, MutationStages, OldStages,
                StaleStages, StoredStages
<1>7. ASSUME NEW r \in Deleters PROVE DeleterInv(r)'
    BY <1>5 DEF DeleterInv, CleanupStages, DeleteStages
<1>8. ASSUME NEW d \in Docs PROVE DocInv(d)'
    BY <1>1 DEF IInv, DocInv, PublishedDoc, DeletedDoc, ClosedDoc, Published
<1> QED BY <1>3, <1>6, <1>7, <1>8 DEF IInv

LEMMA InitInv == Init => IInv
<1> SUFFICES ASSUME Init PROVE IInv
    OBVIOUS
<1>1. TypeOK
    BY InitType
<1>2. \A w \in Workers : WorkerInv(w)
    BY DEF Init, NoWork, WorkerInv, LockedStages, TextStages, MutationStages, OldStages,
           StaleStages, StoredStages
<1>3. \A r \in Deleters : DeleterInv(r)
    BY DEF Init, NoRequest, DeleterInv, CleanupStages, DeleteStages
<1>4. \A d \in Docs : DocInv(d)
    BY DEF Init, NoRow, DocInv, PublishedDoc, DeletedDoc, ClosedDoc, Published
<1> QED BY <1>1, <1>2, <1>3, <1>4 DEF IInv

LEMMA StutterInv == ASSUME IInv, UNCHANGED vars PROVE IInv'
<1>1. UNCHANGED <<row, collection, upload, source, parsed, chunks, work, req, lock>>
    BY DEF vars
<1>2. TypeOK /\ TypeOK'
    BY DEF vars, IInv, TypeOK
<1>3. OpenStep(Free) /\ \A d \in Docs : DocInv(d)'
    BY <1>1, <1>2, SameOpen, OtherDoc DEF OpenStep, IInv
<1> QED BY <1>2, <1>3, OpenInv, ActorAssumption

LEMMA NextInv == ASSUME IInv, [Next]_vars PROVE IInv'
<1>1. ASSUME NEW w \in Workers, WorkerStep(w) \/ WorkerOutage(w) PROVE IInv'
    BY <1>1, ClaimInv, EnterInv, PrepareInv, PutInv, ProjectionInv, CompleteInv, OldInv,
       FailInv, StaleInv, StutterInv DEF WorkerStep, WorkerOutage, Poll
<1>2. ASSUME NEW d \in Docs, UploadStep(d) \/ OwnerStep(d) \/ TimePasses(d) PROVE IInv'
    BY <1>2, UploadInv, OwnerInv DEF OwnerStep
<1>3. ASSUME NEW r \in Deleters, CleanupStep(r) \/ DeleteOutage(r) PROVE IInv'
    BY <1>3, EnterDeleteInv, IsolateInv, DeleteInv, FinishInv DEF CleanupStep, DeleteOutage
<1>4. ASSUME NEW r \in Deleters, NEW d \in Docs, RequestDelete(r, d) PROVE IInv'
    BY <1>4, RequestInv
<1>5. CASE CollectionStep
    BY <1>5, CollectionInv
<1>6. CASE Restart
    BY <1>6, RestartInv
<1>7. CASE UNCHANGED vars
    BY <1>7, StutterInv
<1> QED BY <1>1, <1>2, <1>3, <1>4, <1>5, <1>6, <1>7 DEF Next

\* The inductive invariant holds in every state of the program.
THEOREM Invariance == Spec => []IInv
<1>1. Init => IInv
    BY InitInv
<1>2. IInv /\ [Next]_vars => IInv'
    BY NextInv
<1> QED BY <1>1, <1>2, PTL DEF Spec

-----------------------------------------------------------------------------
(* What the invariant says of the program *)

LEMMA InvSafe ==
    ASSUME IInv
    PROVE  /\ PublishedContent /\ DeletedLeavesNothing /\ AcceptedSourceKept
           /\ ClosedCollectionIsEmpty /\ NoMutationOfPublished
<1>1. PublishedContent /\ DeletedLeavesNothing /\ AcceptedSourceKept
    BY DEF IInv, DocInv, PublishedDoc, DeletedDoc, PublishedContent,
           DeletedLeavesNothing, AcceptedSourceKept
<1>2. ClosedCollectionIsEmpty
    BY DEF IInv, DocInv, ClosedDoc, ClosedCollectionIsEmpty
<1>3. NoMutationOfPublished
    BY DEF IInv, WorkerInv, Published, NoMutationOfPublished, MutationStages, StaleStages
<1> QED BY <1>1, <1>2, <1>3

\* Every variable keeps its type.
THEOREM TypeCorrect == Spec => []TypeOK
<1>1. IInv => TypeOK
    BY DEF IInv
<1> QED BY <1>1, Invariance, PTL

\* What search and preview may use is one whole generation: the chunks of the
\* parsed text the row names, under the collection's present configuration.
THEOREM PublishedContentAlways == Spec => []PublishedContent
<1>1. IInv => PublishedContent
    BY InvSafe
<1> QED BY <1>1, Invariance, PTL

\* A deletion reported as complete left nothing, and no late worker, upload or
\* failed transaction brings anything back.
THEOREM DeletedLeavesNothingAlways == Spec => []DeletedLeavesNothing
<1>1. IInv => DeletedLeavesNothing
    BY InvSafe
<1> QED BY <1>1, Invariance, PTL

\* The source of an acknowledged upload stays until the document is deleted.
THEOREM AcceptedSourceKeptAlways == Spec => []AcceptedSourceKept
<1>1. IInv => AcceptedSourceKept
    BY InvSafe
<1> QED BY <1>1, Invariance, PTL

\* A collection that is inactive or deleted has no document and no pending
\* cleanup, and gets none from a request that began before.
THEOREM ClosedCollectionIsEmptyAlways == Spec => []ClosedCollectionIsEmpty
<1>1. IInv => ClosedCollectionIsEmpty
    BY InvSafe
<1> QED BY <1>1, Invariance, PTL

\* However late a worker acts on its last check, the generation it mutates is
\* not the published one.
THEOREM NoMutationOfPublishedAlways == Spec => []NoMutationOfPublished
<1>1. IInv => NoMutationOfPublished
    BY InvSafe
<1> QED BY <1>1, Invariance, PTL

-----------------------------------------------------------------------------
(* The refinement mapping, one document at a time *)

Phase == [d \in Docs |-> PhaseOf(row[d])]
Generation == [d \in Docs |-> row[d].gen]
Content == [d \in Docs |-> ContentOf(row[d], parsed[d], chunks[d])]

\* The phase is decided by whether the row exists, is active, and its status.
LEMMA Phases ==
    ASSUME NEW r \in Row
    PROVE  /\ r.status = "none" => PhaseOf(r) = "absent"
           /\ r.status # "none" /\ ~r.active => PhaseOf(r) = "deleted"
           /\ r.status = "ready" /\ r.active => PhaseOf(r) = "published"
           /\ r.status = "failed" /\ r.active => PhaseOf(r) = "failed"
           /\ r.status \in {"queued", "processing"} /\ r.active => PhaseOf(r) = "pending"
BY DEF PhaseOf, Row

\* What a reader sees of document d does not change.
SeenSame(d) ==
    /\ PhaseOf(row'[d]) = PhaseOf(row[d])
    /\ row'[d].gen = row[d].gen
    /\ ContentOf(row'[d], parsed'[d], chunks'[d]) = ContentOf(row[d], parsed[d], chunks[d])

LEMMA Stutters ==
    ASSUME \A d \in Docs : SeenSame(d), collection'.config = collection.config
    PROVE  UNCHANGED View!vars
<1>1. Phase' = Phase /\ Generation' = Generation /\ Content' = Content
    BY DEF SeenSame, Phase, Generation, Content
<1> QED BY <1>1 DEF View!vars, Phase, Generation, Content

\* A step seen in one document only, as an update of the three functions.
LEMMA OneDoc ==
    ASSUME NEW d \in Docs, \A e \in Docs \ {d} : SeenSame(e)
    PROVE  /\ Phase' = [Phase EXCEPT ![d] = PhaseOf(row'[d])]
           /\ Generation' = [Generation EXCEPT ![d] = row'[d].gen]
           /\ Content' = [Content EXCEPT ![d] = ContentOf(row'[d], parsed'[d], chunks'[d])]
BY DEF SeenSame, Phase, Generation, Content

\* Where the row that a step writes may lead a reader.
LEMMA CreateSeen ==
    ASSUME TypeOK, TypeOK', NEW d \in Docs, \A e \in Docs \ {d} : SeenSame(e),
           collection' = collection, row[d].status = "none",
           row'[d].status = "queued", row'[d].active, row'[d].gen = 1
    PROVE  View!Create(d)
<1>1. row[d] \in Row /\ row'[d] \in Row
    BY DEF TypeOK
<1>2. PhaseOf(row[d]) = "absent" /\ PhaseOf(row'[d]) = "pending"
    BY <1>1, Phases
<1>3. ContentOf(row[d], parsed[d], chunks[d]) = NoText
      /\ ContentOf(row'[d], parsed'[d], chunks'[d]) = NoText
    BY DEF ContentOf
<1>4. /\ Phase' = [Phase EXCEPT ![d] = "pending"]
      /\ Generation' = [Generation EXCEPT ![d] = 1]
      /\ Content' = [Content EXCEPT ![d] = NoText]
    BY <1>2, <1>3, OneDoc
<1>5. Content' = Content
    BY <1>3, <1>4 DEF Content
<1>6. Phase[d] = "absent"
    BY <1>2 DEF Phase
<1> QED BY <1>4, <1>5, <1>6 DEF View!Create, Phase, Generation, Content

LEMMA PublishSeen ==
    ASSUME IInv, IInv', NEW d \in Docs, \A e \in Docs \ {d} : SeenSame(e),
           collection' = collection, row[d].status = "processing", row[d].active,
           row'[d].status = "ready", row'[d].active, row'[d].gen = row[d].gen
    PROVE  View!Publish(d)
<1>1. row[d] \in Row /\ row'[d] \in Row
    BY DEF IInv, TypeOK
<1>2. PhaseOf(row[d]) = "pending" /\ PhaseOf(row'[d]) = "published"
    BY <1>1, Phases
<1> DEFINE t == parsed'[d][row'[d].gen]
<1>3. PublishedDoc(d)'
    BY DEF IInv, DocInv
<1>4. t \in Texts /\ chunks'[d][row'[d].gen] = Split(t, collection.config)
    BY <1>3 DEF PublishedDoc, Published, Split
<1>5. ContentOf(row'[d], parsed'[d], chunks'[d]) = View!Whole(t)
    BY <1>4 DEF ContentOf, View!Whole, View!Split, Split
<1>6. /\ Phase' = [Phase EXCEPT ![d] = "published"]
      /\ Generation' = [Generation EXCEPT ![d] = row[d].gen]
      /\ Content' = [Content EXCEPT ![d] = View!Whole(t)]
    BY <1>2, <1>5, OneDoc
<1>7. Generation' = Generation /\ Phase[d] = "pending"
    BY <1>2, <1>6 DEF Generation, Phase
<1> HIDE DEF t
<1> QED BY <1>4, <1>6, <1>7 DEF View!Publish, Phase, Generation, Content

LEMMA FailSeen ==
    ASSUME TypeOK, TypeOK', NEW d \in Docs, \A e \in Docs \ {d} : SeenSame(e),
           collection' = collection, row[d].status = "processing", row[d].active,
           row'[d].status = "failed", row'[d].active, row'[d].gen = row[d].gen
    PROVE  View!Fail(d)
<1>1. row[d] \in Row /\ row'[d] \in Row
    BY DEF TypeOK
<1>2. PhaseOf(row[d]) = "pending" /\ PhaseOf(row'[d]) = "failed"
    BY <1>1, Phases
<1>3. ContentOf(row[d], parsed[d], chunks[d]) = NoText
      /\ ContentOf(row'[d], parsed'[d], chunks'[d]) = NoText
    BY DEF ContentOf
<1>4. /\ Phase' = [Phase EXCEPT ![d] = "failed"]
      /\ Generation' = [Generation EXCEPT ![d] = row[d].gen]
      /\ Content' = [Content EXCEPT ![d] = NoText]
    BY <1>2, <1>3, OneDoc
<1>5. Generation' = Generation /\ Content' = Content /\ Phase[d] = "pending"
    BY <1>2, <1>3, <1>4 DEF Generation, Content, Phase
<1> QED BY <1>4, <1>5 DEF View!Fail, Phase, Generation, Content

LEMMA RenewSeen ==
    ASSUME TypeOK, TypeOK', NEW d \in Docs, \A e \in Docs \ {d} : SeenSame(e),
           collection' = collection, row[d].status # "none", row[d].active,
           row'[d].status = "queued", row'[d].active, row'[d].gen = row[d].gen + 1
    PROVE  View!RenewOne(d)
<1>1. row[d] \in Row /\ row'[d] \in Row
    BY DEF TypeOK
<1>2. PhaseOf(row[d]) \in {"pending", "published", "failed"} /\ PhaseOf(row'[d]) = "pending"
    BY <1>1, Phases DEF Row
<1>3. ContentOf(row'[d], parsed'[d], chunks'[d]) = NoText
    BY DEF ContentOf
<1>4. /\ Phase' = [Phase EXCEPT ![d] = "pending"]
      /\ Generation' = [Generation EXCEPT ![d] = row[d].gen + 1]
      /\ Content' = [Content EXCEPT ![d] = NoText]
    BY <1>2, <1>3, OneDoc
<1>5. Phase[d] \in {"pending", "published", "failed"}
    BY <1>2 DEF Phase
<1>6. /\ Phase' = [e \in Docs |-> IF e \in {d} THEN "pending" ELSE Phase[e]]
      /\ Generation' = [e \in Docs |-> IF e \in {d} THEN Generation[e] + 1 ELSE Generation[e]]
      /\ Content' = [e \in Docs |-> IF e \in {d} THEN NoText ELSE Content[e]]
    BY <1>4 DEF Phase, Generation, Content
<1> QED BY <1>5, <1>6 DEF View!RenewOne, View!Renew, View!Live, Phase, Generation, Content

LEMMA DeleteSeen ==
    ASSUME TypeOK, TypeOK', NEW d \in Docs, \A e \in Docs \ {d} : SeenSame(e),
           collection' = collection, row[d].status # "none", row[d].active,
           row'[d].status # "none", ~row'[d].active, row'[d].gen = row[d].gen
    PROVE  View!Delete(d)
<1>1. row[d] \in Row /\ row'[d] \in Row
    BY DEF TypeOK
<1>2. PhaseOf(row[d]) \in {"pending", "published", "failed"} /\ PhaseOf(row'[d]) = "deleted"
    BY <1>1, Phases DEF Row
<1>3. ContentOf(row'[d], parsed'[d], chunks'[d]) = NoText
    BY DEF ContentOf
<1>4. /\ Phase' = [Phase EXCEPT ![d] = "deleted"]
      /\ Generation' = [Generation EXCEPT ![d] = row[d].gen]
      /\ Content' = [Content EXCEPT ![d] = NoText]
    BY <1>2, <1>3, OneDoc
<1>5. Generation' = Generation /\ Phase[d] \in {"pending", "published", "failed"}
    BY <1>2, <1>4 DEF Generation, Phase
<1> QED BY <1>4, <1>5 DEF View!Delete, View!Live, Phase, Generation, Content

-----------------------------------------------------------------------------
(* What the steps leave as it was seen *)

\* A reader sees a step of the abstract specification, or nothing.
Seen == View!Next \/ UNCHANGED View!vars

LEMMA StoreSeen ==
    ASSUME NEW d \in Docs, row'[d] = row[d],
           Published(d) => /\ parsed'[d][row[d].gen] = parsed[d][row[d].gen]
                           /\ chunks'[d][row[d].gen] = chunks[d][row[d].gen]
    PROVE  SeenSame(d)
BY DEF SeenSame, ContentOf, Published

LEMMA WaitingSeen ==
    ASSUME TypeOK, TypeOK', NEW d \in Docs,
           row[d].status \in {"queued", "processing"}, row[d].active,
           row'[d].status \in {"queued", "processing"}, row'[d].active,
           row'[d].gen = row[d].gen
    PROVE  SeenSame(d)
<1>1. row[d] \in Row /\ row'[d] \in Row
    BY DEF TypeOK
<1>2. PhaseOf(row[d]) = "pending" /\ PhaseOf(row'[d]) = "pending"
    BY <1>1, Phases
<1> QED BY <1>2 DEF SeenSame, ContentOf

\* Nothing is seen of a deleted document, whatever is done to its remains.
LEMMA DeletedSeen ==
    ASSUME TypeOK, TypeOK', NEW d \in Docs,
           row[d].status # "none", ~row[d].active,
           row'[d].status # "none", ~row'[d].active, row'[d].gen = row[d].gen
    PROVE  SeenSame(d)
<1>1. row[d] \in Row /\ row'[d] \in Row
    BY DEF TypeOK
<1>2. PhaseOf(row[d]) = "deleted" /\ PhaseOf(row'[d]) = "deleted"
    BY <1>1, Phases
<1> QED BY <1>2 DEF SeenSame, ContentOf

LEMMA NothingSeen ==
    ASSUME UNCHANGED <<row, collection, parsed, chunks>>
    PROVE  Seen
BY StoreSeen, Stutters DEF Seen

\* Writing one generation leaves the others alone.
LEMMA Elsewhere ==
    ASSUME NEW S, NEW f \in [Docs -> [Gens -> S]], NEW d \in Docs, NEW g, NEW x,
           NEW e \in Docs, NEW k \in Gens, ~(e = d /\ k = g)
    PROVE  [f EXCEPT ![d][g] = x][e][k] = f[e][k]
<1>1. CASE e = d
    BY <1>1
<1>2. CASE e # d
    BY <1>2
<1> QED BY <1>1, <1>2

\* A worker that mutates or clears its generation changes nothing else.
LEMMA OwnGeneration ==
    ASSUME IInv, NEW w \in Workers, NEW e \in Docs, NEW k \in Gens,
           ~(e = work[w].doc /\ k = work[w].gen),
           \/ PutParsed(w) \/ DeleteGeneration(w) \/ UpsertGeneration(w)
           \/ CleanupStaleParsed(w) \/ CleanupStaleChunks(w)
    PROVE  parsed'[e][k] = parsed[e][k] /\ chunks'[e][k] = chunks[e][k]
<1> PICK d \in Docs : d = work[w].doc
    BY WorkDoc DEF IInv
<1> PICK g : g = work[w].gen
    OBVIOUS
<1>1. /\ parsed \in [Docs -> [Gens -> Texts \cup {NoText}]]
      /\ chunks \in [Docs -> [Gens -> SUBSET Chunk]]
    BY DEF IInv, TypeOK
<1>2. parsed' = parsed \/ \E x : parsed' = [parsed EXCEPT ![d][g] = x]
  <2>1. PutIfAbsent(w) => \E x : parsed' = [parsed EXCEPT ![d][g] = x]
    <3>1. ASSUME PutIfAbsent(w)
          PROVE  parsed' = [parsed EXCEPT ![d][g] =
                                IF parsed[d][g] = NoText THEN work[w].text ELSE parsed[d][g]]
      BY <3>1, <1>1 DEF PutIfAbsent
    <3> QED BY <3>1
  <2> QED BY <2>1 DEF PutParsed, DeleteGeneration, UpsertGeneration, CleanupStaleParsed,
                      CleanupStaleChunks
<1>3. chunks' = chunks \/ \E x : chunks' = [chunks EXCEPT ![d][g] = x]
  <2>1. CASE UpsertGeneration(w)
    <3>1. PICK new : chunks' = [chunks EXCEPT ![d][g] = Overwrite(@, new)]
      BY <2>1 DEF UpsertGeneration
    <3>2. chunks' = [chunks EXCEPT ![d][g] = Overwrite(chunks[d][g], new)]
      BY <3>1, <1>1
    <3> QED BY <3>2
  <2> QED BY <2>1 DEF PutParsed, DeleteGeneration, CleanupStaleParsed, CleanupStaleChunks
<1>4. parsed'[e][k] = parsed[e][k]
  <2>1. ASSUME NEW x, parsed' = [parsed EXCEPT ![d][g] = x] PROVE parsed'[e][k] = parsed[e][k]
    BY <1>1, <2>1, Elsewhere
  <2> QED BY <1>2, <2>1
<1>5. chunks'[e][k] = chunks[e][k]
  <2>1. ASSUME NEW x, chunks' = [chunks EXCEPT ![d][g] = x] PROVE chunks'[e][k] = chunks[e][k]
    BY <1>1, <2>1, Elsewhere
  <2> QED BY <1>3, <2>1
<1> QED BY <1>4, <1>5

\* The cleanup after a publication reaches older generations only.
LEMMA OlderGenerations ==
    ASSUME IInv, NEW w \in Workers, NEW e \in Docs, NEW k \in Gens,
           ~(e = work[w].doc /\ k \in Older(w)),
           CleanupOldParsed(w) \/ CleanupOldChunks(w)
    PROVE  parsed'[e][k] = parsed[e][k] /\ chunks'[e][k] = chunks[e][k]
<1> PICK d \in Docs : d = work[w].doc
    BY WorkDoc DEF IInv
<1>1. /\ parsed \in [Docs -> [Gens -> Texts \cup {NoText}]]
      /\ chunks \in [Docs -> [Gens -> SUBSET Chunk]]
    BY DEF IInv, TypeOK
<1>2. CASE CleanupOldParsed(w)
  <2>1. PICK left : parsed' = [parsed EXCEPT ![work[w].doc] = [h \in Gens |->
            IF h \in Older(w) \ left THEN NoText ELSE parsed[work[w].doc][h]]]
    BY <1>2, Zenon DEF CleanupOldParsed
  <2> DEFINE f == [h \in Gens |-> IF h \in Older(w) \ left THEN NoText ELSE parsed[d][h]]
  <2>2. parsed' = [parsed EXCEPT ![d] = f]
    BY <2>1, Zenon
  <2>3. k \notin Older(w) => f[k] = parsed[d][k]
    OBVIOUS
  <2> HIDE DEF f
  <2>4. parsed'[e][k] = parsed[e][k]
    BY <1>1, <2>2, <2>3
  <2> QED BY <1>2, <2>4 DEF CleanupOldParsed
<1>3. CASE CleanupOldChunks(w)
  <2>1. PICK left : chunks' = [chunks EXCEPT ![work[w].doc] = [h \in Gens |->
            IF h \in Older(w) \ left THEN {} ELSE chunks[work[w].doc][h]]]
    BY <1>3, Zenon DEF CleanupOldChunks
  <2> DEFINE f == [h \in Gens |-> IF h \in Older(w) \ left THEN {} ELSE chunks[d][h]]
  <2>2. chunks' = [chunks EXCEPT ![d] = f]
    BY <2>1, Zenon
  <2>3. k \notin Older(w) => f[k] = chunks[d][k]
    OBVIOUS
  <2> HIDE DEF f
  <2>4. chunks'[e][k] = chunks[e][k]
    BY <1>1, <2>2, <2>3
  <2> QED BY <1>3, <2>4 DEF CleanupOldChunks
<1> QED BY <1>2, <1>3

\* What a worker does to the stores is not seen: a document under mutation or
\* stale cleanup is not published at that generation, and the cleanup after a
\* publication is about the generations before it.
LEMMA WorkerStoreSeen ==
    ASSUME IInv, NEW w \in Workers,
           \/ PutParsed(w) \/ DeleteGeneration(w) \/ UpsertGeneration(w)
           \/ CleanupStaleParsed(w) \/ CleanupStaleChunks(w)
           \/ CleanupOldParsed(w) \/ CleanupOldChunks(w)
    PROVE  Seen
<1>1. UNCHANGED <<row, collection>>
    BY DEF PutParsed, DeleteGeneration, UpsertGeneration, CleanupStaleParsed,
           CleanupStaleChunks, CleanupOldParsed, CleanupOldChunks
<1>2. ASSUME NEW e \in Docs, Published(e)
      PROVE  /\ parsed'[e][row[e].gen] = parsed[e][row[e].gen]
             /\ chunks'[e][row[e].gen] = chunks[e][row[e].gen]
  <2> DEFINE k == row[e].gen
  <2>1. k \in Gens
    BY <1>2 DEF IInv, DocInv, Published
  <2>2. CASE \/ PutParsed(w) \/ DeleteGeneration(w) \/ UpsertGeneration(w)
             \/ CleanupStaleParsed(w) \/ CleanupStaleChunks(w)
    <3>1. work[w].stage \in MutationStages \cup StaleStages
      BY <2>2 DEF PutParsed, DeleteGeneration, UpsertGeneration, CleanupStaleParsed,
                  CleanupStaleChunks, MutationStages, StaleStages
    <3>2. ~(e = work[w].doc /\ k = work[w].gen)
      BY <1>2, <3>1, InvSafe DEF NoMutationOfPublished
    <3> HIDE DEF k
    <3> QED BY <2>1, <2>2, <3>2, OwnGeneration DEF k
  <2>3. CASE CleanupOldParsed(w) \/ CleanupOldChunks(w)
    <3>1. work[w].stage # "idle" /\ TypeOK
      BY <2>3 DEF CleanupOldParsed, CleanupOldChunks, IInv
    <3>2. e = work[w].doc => work[w].gen <= k
      BY <3>1 DEF IInv, WorkerInv
    <3>3. work[w].gen \in Nat /\ k \in Nat
      BY <3>1, <2>1, BoundAssumption DEF TypeOK, Work, Gens
    <3>4. ~(e = work[w].doc /\ k \in Older(w))
      BY <3>2, <3>3 DEF Older
    <3> HIDE DEF k
    <3> QED BY <2>1, <2>3, <3>4, OlderGenerations DEF k
  <2> QED BY <2>2, <2>3
<1>3. \A e \in Docs : SeenSame(e)
    BY <1>1, <1>2, StoreSeen
<1> QED BY <1>1, <1>3, Stutters DEF Seen

-----------------------------------------------------------------------------
(* The steps that write a row *)

\* The rows the step does not write, when it leaves the stores alone.
LEMMA OtherRows ==
    ASSUME NEW d \in Docs, \A e \in Docs \ {d} : row'[e] = row[e],
           UNCHANGED <<parsed, chunks>>
    PROVE  \A e \in Docs \ {d} : SeenSame(e)
BY StoreSeen

LEMMA ClaimSeen ==
    ASSUME IInv, IInv', NEW w \in Workers, NEW d \in Docs,
           ClaimNext(w, d) \/ ClaimNextLost(w, d)
    PROVE  Seen
<1>1. TypeOK /\ TypeOK' /\ row[d] \in Row
    BY DEF IInv, TypeOK
<1>2. UNCHANGED <<collection, parsed, chunks>> /\ Claimable(d)
    BY DEF ClaimNext, ClaimNextLost, stores
<1>3. PICK id \in Ids : row' = [row EXCEPT ![d] = Claimed(row[d], id)]
    BY <1>1 DEF ClaimNext, ClaimNextLost, TypeOK
<1>4. /\ row'[d] = Claimed(row[d], id)
      /\ \A e \in Docs \ {d} : row'[e] = row[e]
    BY <1>1, <1>3 DEF TypeOK
<1>5. SeenSame(d)
    BY <1>1, <1>2, <1>4, ClaimedRow, WaitingSeen DEF Claimable
<1>6. \A e \in Docs : SeenSame(e)
    BY <1>2, <1>4, <1>5, OtherRows
<1> QED BY <1>2, <1>6, Stutters DEF Seen

LEMMA CompleteSeen ==
    ASSUME IInv, IInv', NEW w \in Workers, CompleteGeneration(w) \/ CompleteGenerationFails(w)
    PROVE  Seen
<1> PICK d \in Docs : d = work[w].doc
    BY WorkDoc DEF IInv
<1>1. TypeOK /\ row[d] \in Row
    BY DEF IInv, TypeOK
<1>2. UNCHANGED <<collection, parsed, chunks>>
    BY DEF CompleteGeneration, CompleteGenerationFails, stores
<1>3. CASE Owned(w) /\ row' = Publication(w)
  <2>1. row[d].active /\ row[d].status = "processing"
    BY <1>3 DEF Owned, Obsolete
  <2>2. /\ row'[d] = Completed(row[d])
        /\ \A e \in Docs \ {d} : row'[e] = row[e]
    BY <1>1, <1>3 DEF Publication, TypeOK
  <2>3. View!Publish(d)
    BY <1>1, <1>2, <2>1, <2>2, CompletedRow, OtherRows, PublishSeen
  <2> QED BY <2>3 DEF Seen, View!Next
<1>4. CASE row' = row
    BY <1>2, <1>4, NothingSeen
<1> QED BY <1>3, <1>4 DEF CompleteGeneration, CompleteGenerationFails

LEMMA FailGenerationSeen ==
    ASSUME IInv, IInv', NEW w \in Workers, FailGeneration(w) \/ FailGenerationFails(w)
    PROVE  Seen
<1> PICK d \in Docs : d = work[w].doc
    BY WorkDoc DEF IInv
<1>1. TypeOK /\ TypeOK' /\ row[d] \in Row
    BY DEF IInv, TypeOK
<1>2. UNCHANGED <<collection, parsed, chunks>>
    BY DEF FailGeneration, FailGenerationFails, stores
<1>3. CASE Owned(w) /\ row' = Failure(w)
  <2>1. row[d].active /\ row[d].status = "processing"
    BY <1>3 DEF Owned, Obsolete
  <2>2. /\ row'[d] = Failed(row[d])
        /\ \A e \in Docs \ {d} : row'[e] = row[e]
    BY <1>1, <1>3 DEF Failure, TypeOK
  <2>3. View!Fail(d)
    BY <1>1, <1>2, <2>1, <2>2, FailedRow, OtherRows, FailSeen
  <2> QED BY <2>3 DEF Seen, View!Next
<1>4. CASE row' = row
    BY <1>2, <1>4, NothingSeen
<1> QED BY <1>3, <1>4 DEF FailGeneration, FailGenerationFails

LEMMA WorkerSeen ==
    ASSUME IInv, IInv', NEW w \in Workers, WorkerStep(w) \/ WorkerOutage(w)
    PROVE  Seen
<1>1. CASE \/ Poll(w) \/ ReadSource(w) \/ EnterHold(w) \/ PrepareForMutation(w)
           \/ CheckPublished(w) \/ CheckObsolete(w) \/ PrepareFails(w)
    BY <1>1, NothingSeen DEF Poll, vars, ReadSource, EnterHold, PrepareForMutation,
       CheckPublished, CheckObsolete, PrepareFails, stores
<1> QED BY <1>1, WorkerStoreSeen, ClaimSeen, CompleteSeen, FailGenerationSeen
           DEF WorkerStep, WorkerOutage

LEMMA InsertSeen ==
    ASSUME IInv, IInv', NEW d \in Docs, InsertDocument(d) \/ InsertDocumentFails(d)
    PROVE  Seen
<1>1. TypeOK /\ TypeOK' /\ row[d].status = "none"
    BY DEF IInv, DocInv, InsertDocument, InsertDocumentFails, NoRow
<1>2. UNCHANGED <<collection, parsed, chunks>>
    BY DEF InsertDocument, InsertDocumentFails, stores
<1>3. CASE row' = [row EXCEPT ![d] = Inserted]
  <2>1. /\ row'[d] = Inserted
        /\ \A e \in Docs \ {d} : row'[e] = row[e]
    BY <1>1, <1>3 DEF TypeOK
  <2>2. View!Create(d)
    BY <1>1, <1>2, <2>1, InsertedRow, OtherRows, CreateSeen
  <2> QED BY <2>2 DEF Seen, View!Next
<1>4. CASE row' = row
    BY <1>2, <1>4, NothingSeen
<1> QED BY <1>3, <1>4 DEF InsertDocument, InsertDocumentFails

LEMMA UploadSeen ==
    ASSUME IInv, IInv', NEW d \in Docs, UploadStep(d)
    PROVE  Seen
<1>1. CASE ValidateUpload(d) \/ PutSource(d) \/ CompensateUpload(d)
    BY <1>1, NothingSeen DEF ValidateUpload, PutSource, CompensateUpload, stores
<1> QED BY <1>1, InsertSeen DEF UploadStep

LEMMA ReindexSeen ==
    ASSUME IInv, IInv', NEW d \in Docs, Reindex(d)
    PROVE  Seen
<1>1. TypeOK /\ TypeOK' /\ row[d] \in Row
    BY DEF IInv, TypeOK
<1>2. /\ UNCHANGED <<collection, parsed, chunks>>
      /\ row[d].active /\ row[d].status # "none" /\ row[d].gen < MaxGen
    BY DEF Reindex, stores
<1>3. /\ row'[d] = NextGeneration(row[d])
      /\ \A e \in Docs \ {d} : row'[e] = row[e]
    BY <1>1 DEF Reindex, TypeOK
<1>4. View!RenewOne(d)
    BY <1>1, <1>2, <1>3, NextGenerationRow, OtherRows, RenewSeen
<1> QED BY <1>4 DEF Seen, View!Next

\* The clock of a claim is not seen.
LEMMA ClockSeen ==
    ASSUME IInv, NEW d \in Docs, Rename(d) \/ TimePasses(d)
    PROVE  Seen
<1>1. UNCHANGED <<collection, parsed, chunks>> /\ row \in [Docs -> Row]
    BY DEF Rename, TimePasses, stores, IInv, TypeOK
<1>2. PICK b \in BOOLEAN : row' = [row EXCEPT ![d].stale = b]
    BY DEF Rename, TimePasses
<1>3. \A e \in Docs \ {d} : row'[e] = row[e]
    BY <1>1, <1>2
<1>4. /\ row'[d].status = row[d].status /\ row'[d].active = row[d].active
      /\ row'[d].gen = row[d].gen
    BY <1>1, <1>2 DEF Row
<1>5. SeenSame(d)
    BY <1>1, <1>4 DEF SeenSame, PhaseOf, ContentOf
<1>6. \A e \in Docs : SeenSame(e)
    BY <1>1, <1>3, <1>5, OtherRows
<1> QED BY <1>1, <1>6, Stutters DEF Seen

LEMMA OwnerSeen ==
    ASSUME IInv, IInv', NEW d \in Docs, OwnerStep(d) \/ TimePasses(d)
    PROVE  Seen
BY ReindexSeen, ClockSeen DEF OwnerStep

\* A new configuration queues a new generation of every document readers have.
LEMMA ReconfigureSeen ==
    ASSUME IInv, IInv', NEW a \in BOOLEAN, NEW c \in Configs, PutCollection(a, c),
           c # collection.config
    PROVE  Seen
<1>1. /\ \A d \in Docs : row[d] \in Row /\ row'[d] \in Row
      /\ \A d \in Docs : row[d].active => row[d].status # "none"
    BY DEF IInv, DocInv, TypeOK
<1>2. /\ UNCHANGED <<parsed, chunks>> /\ collection'.config = c
      /\ \A d \in Docs : row[d].active => row[d].gen < MaxGen
      /\ \A d \in Docs : row'[d] = IF row[d].active THEN NextGeneration(row[d]) ELSE row[d]
    BY DEF PutCollection, Rebuilt, stores
<1>3. ASSUME NEW d \in Docs, row[d].active
      PROVE  /\ Phase[d] \in {"pending", "published", "failed"} /\ Phase'[d] = "pending"
             /\ Generation'[d] = Generation[d] + 1
             /\ Content'[d] = NoText
  <2>1. /\ row'[d].status = "queued" /\ row'[d].active
        /\ row'[d].gen = row[d].gen + 1
    BY <1>1, <1>2, <1>3, NextGenerationRow
  <2>2. PhaseOf(row[d]) \in {"pending", "published", "failed"} /\ PhaseOf(row'[d]) = "pending"
    BY <1>1, <1>3, <2>1, Phases DEF Row
  <2>3. ContentOf(row'[d], parsed'[d], chunks'[d]) = NoText
    BY <2>1 DEF ContentOf
  <2> QED BY <2>1, <2>2, <2>3 DEF Phase, Generation, Content
<1>4. ASSUME NEW d \in Docs, ~row[d].active
      PROVE  /\ Phase[d] \in {"absent", "deleted"} /\ Phase'[d] = Phase[d]
             /\ Generation'[d] = Generation[d] /\ Content'[d] = Content[d]
  <2>1. PhaseOf(row[d]) \in {"absent", "deleted"}
    BY <1>1, <1>4, Phases
  <2> QED BY <1>2, <1>4, <2>1 DEF Phase, Generation, Content
<1>5. {d \in Docs : Phase[d] \in {"pending", "published", "failed"}} = {d \in Docs : row[d].active}
    BY <1>3, <1>4
<1>6. \A d \in Docs :
        /\ Phase'[d] = IF row[d].active THEN "pending" ELSE Phase[d]
        /\ Generation'[d] = IF row[d].active THEN Generation[d] + 1 ELSE Generation[d]
        /\ Content'[d] = IF row[d].active THEN NoText ELSE Content[d]
    BY <1>3, <1>4
<1> DEFINE D == {d \in Docs : row[d].active}
<1>7. /\ Phase' = [d \in Docs |-> IF d \in D THEN "pending" ELSE Phase[d]]
      /\ Generation' = [d \in Docs |-> IF d \in D THEN Generation[d] + 1 ELSE Generation[d]]
      /\ Content' = [d \in Docs |-> IF d \in D THEN NoText ELSE Content[d]]
    BY <1>6 DEF Phase, Generation, Content
<1> HIDE DEF D
<1>8. {d \in Docs : View!Live(d)} = D
    BY <1>5 DEF View!Live, Phase, D
<1>9. View!Renew({d \in Docs : View!Live(d)})
    BY <1>7, <1>8 DEF View!Renew, Phase, Generation, Content
<1>10. View!Reconfigure(c)
    BY <1>2, <1>9, Zenon DEF View!Reconfigure
<1> QED BY <1>10 DEF Seen, View!Next

LEMMA CollectionSeen ==
    ASSUME IInv, IInv', CollectionStep
    PROVE  Seen
<1>1. CASE DeleteCollection
  <2>1. collection'.config = collection.config /\ UNCHANGED <<row, parsed, chunks>>
    BY <1>1 DEF DeleteCollection, stores, IInv, TypeOK
  <2> QED BY <2>1, StoreSeen, Stutters DEF Seen
<1>2. ASSUME NEW a \in BOOLEAN, NEW c \in Configs, PutCollection(a, c), c = collection.config
      PROVE  Seen
  <2>1. collection'.config = collection.config /\ UNCHANGED <<row, parsed, chunks>>
    BY <1>2 DEF PutCollection, stores
  <2> QED BY <2>1, StoreSeen, Stutters DEF Seen
<1> QED BY <1>1, <1>2, ReconfigureSeen DEF CollectionStep

\* begin_cleanup withdraws a document; the retry of a deletion is not seen.
LEMMA IsolateSeen ==
    ASSUME IInv, IInv', NEW r \in Deleters, Isolate(r) \/ IsolateFails(r)
    PROVE  Seen
<1> PICK d \in Docs : d = req[r].doc
    BY RequestDoc DEF IInv
<1>1. TypeOK /\ TypeOK' /\ row[d] \in Row /\ row[d].status # "none"
    BY DEF IInv, TypeOK, DeleterInv, Isolate, IsolateFails
<1>2. UNCHANGED <<collection, parsed, chunks>>
    BY DEF Isolate, IsolateFails, stores
<1>3. ASSUME NEW id \in Ids, row' = [row EXCEPT ![d] = Isolated(row[d], id)]
      PROVE  Seen
  <2>1. /\ row'[d] = Isolated(row[d], id)
        /\ \A e \in Docs \ {d} : row'[e] = row[e]
    BY <1>1, <1>3 DEF TypeOK
  <2>2. /\ row'[d].gen = row[d].gen /\ ~row'[d].active
        /\ row'[d].status # "none"
    BY <1>1, <2>1, IsolatedRow
  <2>3. CASE row[d].active
    <3>1. View!Delete(d)
      BY <1>1, <1>2, <2>1, <2>2, <2>3, OtherRows, DeleteSeen
    <3> QED BY <3>1 DEF Seen, View!Next
  <2>4. CASE ~row[d].active
    <3>1. SeenSame(d)
      BY <1>1, <2>2, <2>4, DeletedSeen
    <3>2. \A e \in Docs : SeenSame(e)
      BY <1>2, <2>1, <3>1, OtherRows
    <3> QED BY <1>2, <3>2, Stutters DEF Seen
  <2> QED BY <2>3, <2>4
<1>4. \/ row' = row
      \/ \E id \in Ids : row' = [row EXCEPT ![d] = Isolated(row[d], id)]
    BY <1>1 DEF Isolate, IsolateFails, TypeOK
<1> QED BY <1>2, <1>3, <1>4, NothingSeen

\* The cleanup removes what nobody sees, and records how it ended.
LEMMA CleanupSeen ==
    ASSUME IInv, IInv', NEW r \in Deleters,
           \/ DeleteProjections(r) \/ DeleteParsed(r) \/ DeleteSource(r)
           \/ FinishCleanup(r) \/ FinishCleanupFails(r)
    PROVE  Seen
<1> PICK d \in Docs : d = req[r].doc
    BY RequestDoc DEF IInv
<1>1. TypeOK /\ TypeOK' /\ row[d] \in Row /\ collection' = collection
    BY DEF IInv, TypeOK, DeleteProjections, DeleteParsed, DeleteSource, FinishCleanup,
           FinishCleanupFails
<1>2. row[d].status # "none" /\ ~row[d].active
  <2>1. req[r].stage \in CleanupStages /\ req[r].stage # "idle"
    BY DEF DeleteProjections, DeleteParsed, DeleteSource, FinishCleanup, FinishCleanupFails,
           CleanupStages, DeleteStages
  <2> QED BY <2>1 DEF IInv, DeleterInv
<1>3. CASE DeleteProjections(r) \/ DeleteParsed(r) \/ DeleteSource(r)
  <2>1. row' = row
    BY <1>3 DEF DeleteProjections, DeleteParsed, DeleteSource
  <2>2. \A e \in Docs \ {d} : parsed'[e] = parsed[e] /\ chunks'[e] = chunks[e]
    <3>1. CASE DeleteProjections(r)
      BY <1>1, <3>1, ClearedProjections DEF DeleteProjections
    <3>2. CASE DeleteParsed(r)
      BY <1>1, <3>2, ClearedParsed DEF DeleteParsed
    <3>3. CASE DeleteSource(r)
      BY <3>3 DEF DeleteSource
    <3> QED BY <1>3, <3>1, <3>2, <3>3
  <2>3. SeenSame(d)
    BY <1>1, <1>2, <2>1, DeletedSeen
  <2>4. \A e \in Docs : SeenSame(e)
    BY <2>1, <2>2, <2>3, StoreSeen
  <2> QED BY <1>1, <2>4, Stutters DEF Seen
<1>4. CASE FinishCleanup(r) \/ FinishCleanupFails(r)
  <2>1. UNCHANGED <<parsed, chunks>> /\ row' \in {row, Finished(r)}
    BY <1>4 DEF FinishCleanup, FinishCleanupFails, stores
  <2>2. \/ row' = row
        \/ \E x \in {"none", "cleanup_failed"} : row' = [row EXCEPT ![d] = Cleaned(row[d], x)]
    BY <1>1, <2>1 DEF Finished, TypeOK
  <2>3. ASSUME NEW x \in {"none", "cleanup_failed"}, row' = [row EXCEPT ![d] = Cleaned(row[d], x)]
        PROVE  Seen
    <3>1. /\ row'[d] = Cleaned(row[d], x)
          /\ \A e \in Docs \ {d} : row'[e] = row[e]
      BY <1>1, <2>3 DEF TypeOK
    <3>2. SeenSame(d)
      BY <1>1, <1>2, <3>1, CleanedRow, DeletedSeen
    <3>3. \A e \in Docs : SeenSame(e)
      BY <2>1, <3>1, <3>2, OtherRows
    <3> QED BY <1>1, <3>3, Stutters DEF Seen
  <2> QED BY <1>1, <2>1, <2>2, <2>3, NothingSeen
<1> QED BY <1>3, <1>4

-----------------------------------------------------------------------------
(* The refinement *)

LEMMA StepSeen == ASSUME IInv, IInv', [Next]_vars PROVE Seen
<1>1. ASSUME NEW w \in Workers, WorkerStep(w) \/ WorkerOutage(w) PROVE Seen
    BY <1>1, WorkerSeen
<1>2. ASSUME NEW d \in Docs, UploadStep(d) \/ OwnerStep(d) \/ TimePasses(d) PROVE Seen
    BY <1>2, UploadSeen, OwnerSeen
<1>3. ASSUME NEW r \in Deleters, CleanupStep(r) \/ DeleteOutage(r) PROVE Seen
  <2>1. CASE EnterDelete(r)
    BY <2>1, NothingSeen DEF EnterDelete, stores
  <2> QED BY <1>3, <2>1, IsolateSeen, CleanupSeen DEF CleanupStep, DeleteOutage
<1>4. ASSUME NEW r \in Deleters, NEW d \in Docs, RequestDelete(r, d) PROVE Seen
    BY <1>4, NothingSeen DEF RequestDelete, stores
<1>5. CASE CollectionStep
    BY <1>5, CollectionSeen
<1>6. CASE Restart
    BY <1>6, NothingSeen DEF Restart, stores
<1>7. CASE UNCHANGED vars
    BY <1>7, NothingSeen DEF vars
<1> QED BY <1>1, <1>2, <1>3, <1>4, <1>5, <1>6, <1>7 DEF Next

LEMMA InitSeen == Init => View!Init
<1> SUFFICES ASSUME Init PROVE View!Init
    OBVIOUS
<1>1. \A d \in Docs : row[d] = NoRow
    BY DEF Init
<1>2. PhaseOf(NoRow) = "absent" /\ NoRow.gen = 0 /\ ~NoRow.active
    BY DEF PhaseOf, NoRow
<1>3. /\ Phase = [d \in Docs |-> "absent"] /\ Generation = [d \in Docs |-> 0]
      /\ Content = [d \in Docs |-> NoText]
    BY <1>1, <1>2 DEF Phase, Generation, Content, ContentOf
<1>4. collection.config \in Configs
    BY DEF Init
<1> QED BY <1>3, <1>4 DEF View!Init, Phase, Generation, Content

\* Whatever workers, uploads, owners, deletions, failures and restarts do to the
\* rows and stores of a collection, its readers see a behaviour of
\* PublishedDocuments: whole generations, published once and withdrawn for good.
THEOREM ViewRefined == Spec => ViewSpec
<1>1. Init => View!Init
    BY InitSeen
<1>2. IInv /\ IInv' /\ [Next]_vars => [View!Next]_(View!vars)
    BY StepSeen DEF Seen
<1> QED BY <1>1, <1>2, Invariance, PTL DEF Spec, ViewSpec, View!Spec
-----------------------------------------------------------------------------
(* Nothing is left behind while no call fails *)

\* The deployment of NoLeftovers: no process crashes, no transaction fails, and
\* every call to the object store and to the retriever does what it is asked.
NoFaults == MaxOutages = 0 /\ ~StoreFaults

SettledStatus == {"ready", "failed"}
WaitingStatus == {"queued", "processing"}
SweepStages == StaleStages \cup OldStages \cup {"check_published"}

\* Generation g of d has neither a parsed object nor chunks.
Clean(d, g) == parsed[d][g] = NoText /\ chunks[d][g] = {}

\* A document is not settled under a worker that mutates one of its
\* generations, be it the present one or one that a reindexing has replaced.
Settling(w) == work[w].stage \in MutationStages =>
    row[work[w].doc].status \in WaitingStatus

\* Worker w works on the present generation of d, and is yet to clear
\* generation g of it, or is yet to clear that generation itself.
Attends(w, d) == work[w].doc = d /\ work[w].gen = row[d].gen
SweepsOld(w, d, g) == Attends(w, d) /\
    \/ work[w].stage \in {"check_published", "old_parsed"}
    \/ work[w].stage = "old_chunks" /\ parsed[d][g] = NoText
SweepsOwn(w, d) == Attends(w, d) /\
    \/ work[w].stage = "stale_parsed"
    \/ work[w].stage = "stale_chunks" /\ parsed[d][row[d].gen] = NoText

FutureClean(d) == \A g \in Gens : g > row[d].gen => Clean(d, g)
OlderSwept(d) == row[d].active /\ row[d].status = "ready" =>
    \A g \in Gens : g < row[d].gen =>
        Clean(d, g) \/ \E w \in Workers : SweepsOld(w, d, g)
FailedSwept(d) == row[d].active /\ row[d].status = "failed" =>
    Clean(d, row[d].gen) \/ \E w \in Workers : SweepsOwn(w, d)

LeftDoc(d) == FutureClean(d) /\ OlderSwept(d) /\ FailedSwept(d)

\* What a settled document owes, a worker on its present generation is about to
\* do; and the generations to come are untouched.
LeftInv ==
    /\ \A w \in Workers : Settling(w)
    /\ \A d \in Docs : LeftDoc(d)

LEMMA NoFaultsStep ==
    ASSUME NoFaults, TypeOK
    PROVE  ~Outage /\ \A S : PartOf(S) = {}
BY DEF NoFaults, TypeOK, Outage, PartOf

\* How a step may change the row of d, and the stores of d, without making it
\* owe anything.
RowCalm(d) ==
    /\ row'[d].gen >= row[d].gen
    /\ row'[d].status \in WaitingStatus \/ row'[d].status = row[d].status
    /\ row'[d].active /\ row'[d].status \in SettledStatus =>
        row[d].active /\ row'[d].gen = row[d].gen
StoreCalm(d) == \A g \in Gens :
    /\ parsed[d][g] = NoText => parsed'[d][g] = NoText
    /\ chunks[d][g] = {} => chunks'[d][g] = {}

LEMMA LeftFrame ==
    ASSUME IInv, IInv', NEW d \in Docs, LeftDoc(d), RowCalm(d), StoreCalm(d),
           \A w \in Workers : Attends(w, d) /\ work[w].stage \in SweepStages =>
                work'[w] = work[w]
    PROVE  LeftDoc(d)'
<1>1. /\ row[d].gen \in Nat /\ row'[d].gen \in Nat /\ row[d].gen <= MaxGen
      /\ row'[d] \in Row
    BY RowNumbers, BoundAssumption DEF IInv, TypeOK, Row
<1>2. ASSUME NEW g \in Gens, Clean(d, g) PROVE Clean(d, g)'
    BY <1>2 DEF Clean, StoreCalm
<1>3. FutureClean(d)'
  <2> SUFFICES ASSUME NEW g \in Gens, g > row'[d].gen PROVE Clean(d, g)'
    BY DEF FutureClean
  <2>1. g > row[d].gen
    BY <1>1, BoundAssumption DEF RowCalm
  <2> QED BY <1>2, <2>1 DEF LeftDoc, FutureClean
<1>4. OlderSwept(d)'
  <2> SUFFICES ASSUME row'[d].active, row'[d].status = "ready",
                      NEW g \in Gens, g < row'[d].gen
               PROVE  Clean(d, g)' \/ \E w \in Workers : SweepsOld(w, d, g)'
    BY DEF OlderSwept
  <2>1. row[d].active /\ row[d].status = "ready" /\ row'[d].gen = row[d].gen
    BY DEF RowCalm, WaitingStatus, SettledStatus
  <2>2. Clean(d, g) \/ \E w \in Workers : SweepsOld(w, d, g)
    BY <2>1 DEF LeftDoc, OlderSwept
  <2>3. ASSUME NEW w \in Workers, SweepsOld(w, d, g) PROVE SweepsOld(w, d, g)'
    <3>1. work[w].stage \in SweepStages /\ Attends(w, d)
      BY <2>3 DEF SweepsOld, SweepStages, OldStages
    <3>2. work'[w] = work[w]
      BY <3>1
    <3> QED BY <2>1, <2>3, <3>2 DEF SweepsOld, Attends, StoreCalm
  <2> QED BY <1>2, <2>2, <2>3
<1>5. FailedSwept(d)'
  <2> SUFFICES ASSUME row'[d].active, row'[d].status = "failed"
               PROVE  Clean(d, row[d].gen)' \/ \E w \in Workers : SweepsOwn(w, d)'
    BY DEF FailedSwept
  <2>1. row[d].active /\ row[d].status = "failed" /\ row'[d].gen = row[d].gen
    BY DEF RowCalm, WaitingStatus, SettledStatus
  <2>2. row[d].gen \in Gens
    BY <2>1 DEF IInv, DocInv
  <2>3. Clean(d, row[d].gen) \/ \E w \in Workers : SweepsOwn(w, d)
    BY <2>1 DEF LeftDoc, FailedSwept
  <2>4. Clean(d, row[d].gen) => Clean(d, row[d].gen)'
    BY <2>1, <2>2 DEF Clean, StoreCalm
  <2>5. ASSUME NEW w \in Workers, SweepsOwn(w, d) PROVE SweepsOwn(w, d)'
    <3>1. work[w].stage \in SweepStages /\ Attends(w, d)
      BY <2>5 DEF SweepsOwn, SweepStages, StaleStages
    <3>2. work'[w] = work[w]
      BY <3>1
    <3> QED BY <2>1, <2>2, <2>5, <3>2 DEF SweepsOwn, Attends, StoreCalm
  <2> QED BY <2>3, <2>4, <2>5
<1> QED BY <1>3, <1>4, <1>5 DEF LeftDoc

\* A step that makes no document owe anything, of an actor that does not sweep.
LEMMA CalmLeft ==
    ASSUME IInv, IInv', LeftInv, NEW a, \A w \in Workers \ {a} : work'[w] = work[w],
           \A d \in Docs : RowCalm(d) /\ StoreCalm(d),
           a \in Workers => work[a].stage \notin SweepStages /\ Settling(a)'
    PROVE  LeftInv'
<1>1. ASSUME NEW w \in Workers PROVE Settling(w)'
  <2>1. CASE w # a
    <3>1. work'[w] = work[w] /\ work[w].doc \in Docs /\ Settling(w)
      BY <2>1, WorkDoc DEF IInv, LeftInv
    <3> QED BY <3>1 DEF Settling, RowCalm
  <2> QED BY <2>1
<1>2. ASSUME NEW d \in Docs PROVE LeftDoc(d)'
    BY LeftFrame DEF LeftInv
<1> QED BY <1>1, <1>2 DEF LeftInv

\* A step of a sweeping worker: what it was yet to clear is clear, or still is.
LEMMA SweepLeft ==
    ASSUME IInv, IInv', LeftInv, NEW w \in Workers, NEW d \in Docs, d = work[w].doc,
           row' = row, \A e \in Docs : StoreCalm(e),
           \A v \in Workers \ {w} : work'[v] = work[v],
           work'[w].stage \notin MutationStages,
           \A g \in Gens : row[d].active /\ row[d].status = "ready" /\ g < row[d].gen
                /\ SweepsOld(w, d, g) => Clean(d, g)' \/ SweepsOld(w, d, g)',
           row[d].active /\ row[d].status = "failed" /\ SweepsOwn(w, d) =>
                Clean(d, row[d].gen)' \/ SweepsOwn(w, d)'
    PROVE  LeftInv'
<1>1. ASSUME NEW e \in Docs PROVE RowCalm(e)
    BY <1>1, RowNumbers DEF IInv, RowCalm
<1>2. ASSUME NEW v \in Workers PROVE Settling(v)'
  <2>1. CASE v # w
    <3>1. work'[v] = work[v] /\ Settling(v)
      BY <2>1 DEF LeftInv
    <3> QED BY <3>1 DEF Settling
  <2> QED BY <2>1 DEF Settling
<1>3. ASSUME NEW e \in Docs \ {d} PROVE LeftDoc(e)'
    BY <1>1, <1>3, LeftFrame DEF LeftInv, Attends
<1>4. LeftDoc(d)'
  <2>1. ASSUME NEW g \in Gens, Clean(d, g) PROVE Clean(d, g)'
    BY <2>1 DEF Clean, StoreCalm
  <2>2. FutureClean(d)'
    BY <2>1 DEF LeftInv, LeftDoc, FutureClean
  <2>3. OlderSwept(d)'
    <3> SUFFICES ASSUME row[d].active, row[d].status = "ready",
                        NEW g \in Gens, g < row[d].gen
                 PROVE  Clean(d, g)' \/ \E v \in Workers : SweepsOld(v, d, g)'
      BY DEF OlderSwept
    <3>1. Clean(d, g) \/ \E v \in Workers : SweepsOld(v, d, g)
      BY DEF LeftInv, LeftDoc, OlderSwept
    <3>2. ASSUME NEW v \in Workers, v # w, SweepsOld(v, d, g) PROVE SweepsOld(v, d, g)'
      BY <3>2 DEF SweepsOld, Attends, StoreCalm
    <3> QED BY <2>1, <3>1, <3>2
  <2>4. FailedSwept(d)'
    <3> SUFFICES ASSUME row[d].active, row[d].status = "failed"
                 PROVE  Clean(d, row[d].gen)' \/ \E v \in Workers : SweepsOwn(v, d)'
      BY DEF FailedSwept
    <3>1. Clean(d, row[d].gen) \/ \E v \in Workers : SweepsOwn(v, d)
      BY DEF LeftInv, LeftDoc, FailedSwept
    <3>2. row[d].gen \in Gens
      BY DEF IInv, DocInv
    <3>3. Clean(d, row[d].gen) => Clean(d, row[d].gen)'
      BY <3>2 DEF Clean, StoreCalm
    <3>4. ASSUME NEW v \in Workers, v # w, SweepsOwn(v, d) PROVE SweepsOwn(v, d)'
      BY <3>2, <3>4 DEF SweepsOwn, Attends, StoreCalm
    <3> QED BY <3>1, <3>3, <3>4
  <2> QED BY <2>2, <2>3, <2>4 DEF LeftDoc
<1> QED BY <1>2, <1>3, <1>4 DEF LeftInv

\* A step of a mutating worker, which may write the generation of its claim: its
\* document owes nothing before it is settled.
LEMMA GrowLeft ==
    ASSUME IInv, IInv', LeftInv, NEW w \in Workers, NEW d \in Docs, d = work[w].doc,
           row' = row, row[d].status \in WaitingStatus, work'[w].doc = d,
           \A v \in Workers \ {w} : work'[v] = work[v],
           \A e \in Docs \ {d} : StoreCalm(e),
           \A g \in Gens : g > row[d].gen /\ Clean(d, g) => Clean(d, g)'
    PROVE  LeftInv'
<1>1. ASSUME NEW e \in Docs PROVE RowCalm(e)
    BY <1>1, RowNumbers DEF IInv, RowCalm
<1>2. ASSUME NEW v \in Workers PROVE Settling(v)'
  <2>1. CASE v # w
    <3>1. work'[v] = work[v] /\ Settling(v)
      BY <2>1 DEF LeftInv
    <3> QED BY <3>1 DEF Settling
  <2> QED BY <2>1 DEF Settling
<1>3. ASSUME NEW e \in Docs \ {d} PROVE LeftDoc(e)'
    BY <1>1, <1>3, LeftFrame DEF LeftInv, Attends
<1>4. LeftDoc(d)'
  <2>1. FutureClean(d)'
    BY DEF LeftInv, LeftDoc, FutureClean
  <2>2. OlderSwept(d)' /\ FailedSwept(d)'
    BY DEF OlderSwept, FailedSwept, WaitingStatus
  <2> QED BY <2>1, <2>2 DEF LeftDoc
<1> QED BY <1>2, <1>3, <1>4 DEF LeftInv

\* A worker that publishes its generation is to clear the older ones, and one
\* that marks it as failed is to clear that generation itself.
LEMMA SettleLeft ==
    ASSUME IInv, IInv', LeftInv, NEW w \in Workers, NEW d \in Docs, d = work[w].doc,
           work[w].stage \in LockedStages \ SweepStages,
           \A v \in Workers \ {w} : work'[v] = work[v],
           \A e \in Docs \ {d} : row'[e] = row[e],
           UNCHANGED <<parsed, chunks>>,
           row'[d].gen = row[d].gen, work[w].gen = row[d].gen,
           work'[w].doc = d, work'[w].gen = work[w].gen,
           \/ row'[d].status = "ready" /\ work'[w].stage = "check_published"
           \/ row'[d].status = "failed" /\ work'[w].stage = "stale_parsed"
    PROVE  LeftInv'
<1>1. lock[LockOf(d)] = w
    BY DEF IInv, WorkerInv
<1>2. ASSUME NEW v \in Workers PROVE Settling(v)'
  <2>1. CASE v # w
    <3>1. work'[v] = work[v] /\ Settling(v) /\ work[v].doc \in Docs /\ WorkerInv(v)
      BY <2>1, WorkDoc DEF IInv, LeftInv
    <3>2. work[v].stage \in MutationStages => work[v].doc # d
      BY <1>1, <2>1, <3>1, StageNames DEF WorkerInv
    <3> QED BY <3>1, <3>2 DEF Settling
  <2>2. CASE v = w
    BY <2>2 DEF Settling, MutationStages
  <2> QED BY <2>1, <2>2
<1>3. ASSUME NEW e \in Docs \ {d} PROVE LeftDoc(e)'
  <2>1. RowCalm(e) /\ StoreCalm(e)
    BY <1>3, RowNumbers DEF IInv, RowCalm, StoreCalm
  <2> QED BY <1>3, <2>1, LeftFrame DEF LeftInv, Attends
<1>4. LeftDoc(d)'
  <2>1. FutureClean(d)'
    BY DEF LeftInv, LeftDoc, FutureClean, Clean
  <2>2. CASE row'[d].status = "ready" /\ work'[w].stage = "check_published"
    <3>1. \A g \in Gens : SweepsOld(w, d, g)'
      BY <2>2 DEF SweepsOld, Attends
    <3> QED BY <2>1, <2>2, <3>1 DEF LeftDoc, OlderSwept, FailedSwept
  <2>3. CASE row'[d].status = "failed" /\ work'[w].stage = "stale_parsed"
    <3>1. SweepsOwn(w, d)'
      BY <2>3 DEF SweepsOwn, Attends
    <3> QED BY <2>1, <2>3, <3>1 DEF LeftDoc, OlderSwept, FailedSwept
  <2> QED BY <2>2, <2>3
<1> QED BY <1>2, <1>3, <1>4 DEF LeftInv

\* A step of a worker that reads, takes or leaves the lock, or decides where to
\* go on.
LEMMA QuietLeft ==
    ASSUME IInv, IInv', LeftInv, NEW w \in Workers, UNCHANGED <<row, parsed, chunks>>,
           \A v \in Workers \ {w} : work'[v] = work[v],
           work[w].stage \notin SweepStages,
           work'[w].stage \in MutationStages =>
                /\ work'[w].doc = work[w].doc
                /\ row[work[w].doc].status \in WaitingStatus
    PROVE  LeftInv'
<1>1. ASSUME NEW d \in Docs PROVE RowCalm(d) /\ StoreCalm(d)
    BY <1>1, RowNumbers DEF IInv, RowCalm, StoreCalm
<1>2. Settling(w)'
    BY DEF Settling
<1> QED BY <1>1, <1>2, CalmLeft

LEMMA OtherWork ==
    ASSUME TypeOK, NEW w \in Workers, Leave(w) \/ \E s \in WorkStages : GoTo(w, s)
    PROVE  \A v \in Workers \ {w} : work'[v] = work[v]
BY DEF TypeOK, Leave, GoTo

LEMMA LeaveStage ==
    ASSUME TypeOK, NEW w \in Workers, Leave(w)
    PROVE  work'[w].stage = "idle"
BY DEF TypeOK, Leave, NoWork

LEMMA ReadLeft ==
    ASSUME IInv, IInv', LeftInv, NEW w \in Workers, ReadSource(w) \/ EnterHold(w)
    PROVE  LeftInv'
<1>1. TypeOK /\ work[w] \in Work /\ UNCHANGED <<row, parsed, chunks>>
    BY DEF IInv, TypeOK, ReadSource, EnterHold, stores
<1>2. \A v \in Workers \ {w} : work'[v] = work[v]
    BY <1>1 DEF TypeOK, ReadSource, EnterHold, GoTo
<1>3. work[w].stage \notin SweepStages
    BY DEF ReadSource, EnterHold, SweepStages, StaleStages, OldStages
<1>4. work'[w].stage \in {"lock", "failed_lock", "check_put", "fail"}
  <2>1. CASE ReadSource(w)
    <3>1. CASE GoTo(w, "failed_lock")
      BY <1>1, <3>1, GoToFields DEF WorkStages
    <3>2. CASE work' = [work EXCEPT ![w].stage = "lock", ![w].text = build]
      BY <1>1, <3>2 DEF TypeOK, Work
    <3> QED BY <2>1, <3>1, <3>2 DEF ReadSource
  <2>2. CASE EnterHold(w)
    BY <1>1, <2>2, GoToFields DEF EnterHold, WorkStages, LockedStages
  <2> QED BY <2>1, <2>2
<1>5. work'[w].stage \notin MutationStages
    BY <1>4 DEF MutationStages
<1> QED BY <1>1, <1>2, <1>3, <1>5, QuietLeft

LEMMA PrepareLeft ==
    ASSUME IInv, IInv', LeftInv, NEW w \in Workers,
           PrepareForMutation(w) \/ CheckObsolete(w)
    PROVE  LeftInv'
<1>1. TypeOK /\ UNCHANGED <<row, parsed, chunks>>
    BY DEF IInv, PrepareForMutation, CheckObsolete, stores
<1>2. work[w].stage \in {"check_put", "check_delete", "check_upsert", "check_after", "check_fail"}
    BY MutationNames DEF PrepareForMutation, CheckObsolete
<1>3. work[w].stage \notin SweepStages
    BY <1>2 DEF SweepStages, StaleStages, OldStages
<1>4. \/ Leave(w)
      \/ GoTo(w, "stale_parsed")
      \/ Owned(w) /\ \E s \in WorkStages : GoTo(w, s)
  <2>1. work[w].stage \in DOMAIN Mutation => Mutation[work[w].stage] \in WorkStages
    BY MutationNames DEF WorkStages, LockedStages, MutationStages
  <2> QED BY <2>1 DEF PrepareForMutation, CheckObsolete
<1>5. \A v \in Workers \ {w} : work'[v] = work[v]
    BY <1>1, <1>4, OtherWork DEF WorkStages, LockedStages, StaleStages
<1>6. work'[w].stage \in MutationStages =>
        /\ work'[w].doc = work[w].doc
        /\ row[work[w].doc].status \in WaitingStatus
  <2>1. CASE Leave(w)
    BY <1>1, <2>1, LeaveStage DEF MutationStages
  <2>2. CASE GoTo(w, "stale_parsed")
    BY <1>1, <2>2, GoToFields DEF MutationStages, WorkStages, LockedStages, StaleStages
  <2>3. CASE Owned(w) /\ \E s \in WorkStages : GoTo(w, s)
    BY <1>1, <2>3, GoToFields DEF Owned, WaitingStatus
  <2> QED BY <1>4, <2>1, <2>2, <2>3
<1> QED BY <1>1, <1>3, <1>5, <1>6, QuietLeft

\* What a mutating worker may rely on: its document is not settled.
LEMMA MutatingDoc ==
    ASSUME IInv, LeftInv, NEW w \in Workers, work[w].stage \in MutationStages
    PROVE  /\ row[work[w].doc].status \in WaitingStatus
           /\ work[w].gen \in Gens /\ work[w].gen <= row[work[w].doc].gen
BY DEF IInv, LeftInv, Settling, WorkerInv, MutationStages

LEMMA MutateLeft ==
    ASSUME IInv, IInv', LeftInv, NEW w \in Workers, NoFaults,
           PutParsed(w) \/ DeleteGeneration(w) \/ UpsertGeneration(w)
    PROVE  LeftInv'
<1> PICK d \in Docs : d = work[w].doc
    BY WorkDoc DEF IInv
<1>1. TypeOK /\ row' = row /\ work[w].stage \in MutationStages
    BY DEF IInv, PutParsed, DeleteGeneration, UpsertGeneration, MutationStages
<1>2. \/ GoTo(w, "check_delete") \/ GoTo(w, "check_upsert")
      \/ GoTo(w, "complete") \/ GoTo(w, "failed_lock")
    BY DEF PutParsed, DeleteGeneration, UpsertGeneration, Abort
<1>3. {"check_delete", "check_upsert", "complete", "failed_lock"} \subseteq WorkStages
    BY DEF WorkStages, LockedStages, MutationStages
<1>4. work'[w].doc = d
    BY <1>1, <1>2, <1>3, GoToFields
<1>5. \A v \in Workers \ {w} : work'[v] = work[v]
    BY <1>1, <1>2, <1>3, OtherWork
<1>6. ASSUME NEW e \in Docs \ {d} PROVE StoreCalm(e)
    BY <1>6, OwnGeneration DEF StoreCalm
<1>7. ASSUME NEW g \in Gens, g > row[d].gen, Clean(d, g) PROVE Clean(d, g)'
  <2>1. g # work[w].gen
    BY <1>1, <1>7, MutatingDoc, RowNumbers
  <2>2. parsed'[d][g] = parsed[d][g] /\ chunks'[d][g] = chunks[d][g]
    BY <1>7, <2>1, OwnGeneration
  <2> QED BY <1>7, <2>2 DEF Clean
<1>8. row[d].status \in WaitingStatus
    BY <1>1, MutatingDoc
<1> QED BY <1>1, <1>4, <1>5, <1>6, <1>7, <1>8, GrowLeft

LEMMA SettleStepLeft ==
    ASSUME IInv, IInv', LeftInv, NEW w \in Workers,
           CompleteGeneration(w) \/ FailGeneration(w)
    PROVE  LeftInv'
<1> PICK d \in Docs : d = work[w].doc
    BY WorkDoc DEF IInv
<1>1. TypeOK /\ UNCHANGED <<parsed, chunks>> /\ work[w].stage \in {"complete", "fail"}
      /\ row[d] \in Row
    BY RowNumbers DEF IInv, CompleteGeneration, FailGeneration, stores
<1>2. work[w].stage \in LockedStages \ SweepStages
    BY <1>1 DEF LockedStages, MutationStages, SweepStages, StaleStages, OldStages
<1>3. {"check_published", "check_after", "stale_parsed", "check_fail"} \subseteq WorkStages
    BY DEF WorkStages, LockedStages, StaleStages
<1>4. \A v \in Workers \ {w} : work'[v] = work[v]
    BY <1>1, <1>3, OtherWork DEF CompleteGeneration, FailGeneration
<1>5. CASE row' = row /\ (GoTo(w, "check_after") \/ GoTo(w, "check_fail"))
  <2>1. work'[w].stage \notin MutationStages
    BY <1>1, <1>3, <1>5, GoToFields DEF MutationStages
  <2> QED BY <1>1, <1>2, <1>4, <1>5, <2>1, QuietLeft
<1>6. CASE \/ Owned(w) /\ row' = Publication(w) /\ GoTo(w, "check_published")
           \/ Owned(w) /\ row' = Failure(w) /\ GoTo(w, "stale_parsed")
  <2>1. row[d].gen = work[w].gen
    BY <1>6 DEF Owned, Obsolete
  <2>2. \A e \in Docs \ {d} : row'[e] = row[e]
    BY <1>1, <1>6 DEF Publication, Failure, TypeOK
  <2>3. work'[w].doc = d /\ work'[w].gen = work[w].gen
    BY <1>1, <1>3, <1>6, GoToFields
  <2>4. /\ row'[d].gen = row[d].gen
        /\ \/ row'[d].status = "ready" /\ work'[w].stage = "check_published"
           \/ row'[d].status = "failed" /\ work'[w].stage = "stale_parsed"
    <3>1. CASE row' = Publication(w) /\ GoTo(w, "check_published")
      <4>1. row'[d] = Completed(row[d])
        BY <1>1, <3>1 DEF Publication, TypeOK
      <4> QED BY <1>1, <1>3, <3>1, <4>1, CompletedRow, GoToFields
    <3>2. CASE row' = Failure(w) /\ GoTo(w, "stale_parsed")
      <4>1. row'[d] = Failed(row[d])
        BY <1>1, <3>2 DEF Failure, TypeOK
      <4> QED BY <1>1, <1>3, <3>2, <4>1, FailedRow, GoToFields
    <3> QED BY <1>6, <3>1, <3>2
  <2> QED BY <1>1, <1>2, <1>4, <2>1, <2>2, <2>3, <2>4, SettleLeft
<1> QED BY <1>5, <1>6 DEF CompleteGeneration, FailGeneration

LEMMA CheckPublishedLeft ==
    ASSUME IInv, IInv', LeftInv, NEW w \in Workers, CheckPublished(w)
    PROVE  LeftInv'
<1> PICK d \in Docs : d = work[w].doc
    BY WorkDoc DEF IInv
<1>1. TypeOK /\ UNCHANGED <<row, parsed, chunks>> /\ work[w].stage = "check_published"
    BY DEF IInv, CheckPublished, stores
<1>2. "old_parsed" \in WorkStages
    BY DEF WorkStages, LockedStages, OldStages
<1>3. \A v \in Workers \ {w} : work'[v] = work[v]
    BY <1>1, <1>2, OtherWork DEF CheckPublished
<1>4. work'[w].stage \in {"old_parsed", "idle"}
    BY <1>1, <1>2, GoToFields, LeaveStage DEF CheckPublished
<1>5. ASSUME NEW g \in Gens, row[d].active, row[d].status = "ready", SweepsOld(w, d, g)
      PROVE  SweepsOld(w, d, g)'
  <2>1. work[w].gen = row[d].gen
    BY <1>5 DEF SweepsOld, Attends
  <2>2. row[d].parsed = row[d].gen
    BY <1>5 DEF IInv, DocInv, PublishedDoc, Published
  <2>3. GoTo(w, "old_parsed")
    BY <1>5, <2>1, <2>2 DEF CheckPublished
  <2>4. /\ work'[w].stage = "old_parsed" /\ work'[w].doc = d
        /\ work'[w].gen = row'[d].gen
    BY <1>1, <1>2, <2>1, <2>3, GoToFields
  <2> QED BY <2>4 DEF SweepsOld, Attends
<1>6. ~SweepsOwn(w, d)
    BY <1>1 DEF SweepsOwn
<1>7. \A e \in Docs : StoreCalm(e)
    BY <1>1 DEF StoreCalm
<1>8. work'[w].stage \notin MutationStages
    BY <1>4 DEF MutationStages
<1> QED BY <1>1, <1>3, <1>5, <1>6, <1>7, <1>8, SweepLeft

LEMMA CleanupOldLeft ==
    ASSUME IInv, IInv', LeftInv, NEW w \in Workers, NoFaults,
           CleanupOldParsed(w) \/ CleanupOldChunks(w)
    PROVE  LeftInv'
<1> PICK d \in Docs : d = work[w].doc
    BY WorkDoc DEF IInv
<1>1. TypeOK /\ row' = row /\ work[w].stage \in OldStages
      /\ parsed \in [Docs -> [Gens -> Texts \cup {NoText}]]
      /\ chunks \in [Docs -> [Gens -> SUBSET Chunk]]
    BY DEF IInv, TypeOK, CleanupOldParsed, CleanupOldChunks, OldStages
<1>2. "old_chunks" \in WorkStages
    BY DEF WorkStages, LockedStages, OldStages
<1>3. \A v \in Workers \ {w} : work'[v] = work[v]
    BY <1>1, <1>2, OtherWork DEF CleanupOldParsed, CleanupOldChunks
<1>4. work'[w].stage \in {"old_chunks", "idle"}
    BY <1>1, <1>2, GoToFields, LeaveStage DEF CleanupOldParsed, CleanupOldChunks
<1>5. CleanupOldParsed(w) => \A g \in Older(w) : parsed'[d][g] = NoText
  <2> SUFFICES ASSUME CleanupOldParsed(w), NEW g \in Older(w) PROVE parsed'[d][g] = NoText
    OBVIOUS
  <2>1. PICK left \in {{}} \cup PartOf(Older(w)) :
            parsed' = [parsed EXCEPT ![work[w].doc] = [h \in Gens |->
                IF h \in Older(w) \ left THEN NoText ELSE parsed[work[w].doc][h]]]
    BY Zenon DEF CleanupOldParsed
  <2>2. left = {}
    BY <1>1, <2>1, NoFaultsStep
  <2> DEFINE f == [h \in Gens |-> IF h \in Older(w) \ left THEN NoText ELSE parsed[d][h]]
  <2>3. parsed' = [parsed EXCEPT ![d] = f]
    BY <2>1, Zenon
  <2>4. f[g] = NoText
    BY <2>2 DEF Older
  <2> HIDE DEF f
  <2> QED BY <1>1, <2>3, <2>4
<1>6. CleanupOldChunks(w) => \A g \in Older(w) : chunks'[d][g] = {}
  <2> SUFFICES ASSUME CleanupOldChunks(w), NEW g \in Older(w) PROVE chunks'[d][g] = {}
    OBVIOUS
  <2>1. PICK left \in {{}} \cup PartOf(Older(w)) :
            chunks' = [chunks EXCEPT ![work[w].doc] = [h \in Gens |->
                IF h \in Older(w) \ left THEN {} ELSE chunks[work[w].doc][h]]]
    BY Zenon DEF CleanupOldChunks
  <2>2. left = {}
    BY <1>1, <2>1, NoFaultsStep
  <2> DEFINE f == [h \in Gens |-> IF h \in Older(w) \ left THEN {} ELSE chunks[d][h]]
  <2>3. chunks' = [chunks EXCEPT ![d] = f]
    BY <2>1, Zenon
  <2>4. f[g] = {}
    BY <2>2 DEF Older
  <2> HIDE DEF f
  <2> QED BY <1>1, <2>3, <2>4
<1>7. \A e \in Docs : StoreCalm(e)
  <2> SUFFICES ASSUME NEW e \in Docs, NEW g \in Gens
               PROVE  /\ parsed[e][g] = NoText => parsed'[e][g] = NoText
                      /\ chunks[e][g] = {} => chunks'[e][g] = {}
    BY DEF StoreCalm
  <2>1. CASE e = d /\ g \in Older(w)
    BY <1>5, <1>6, <2>1 DEF CleanupOldParsed, CleanupOldChunks
  <2>2. CASE ~(e = d /\ g \in Older(w))
    BY <2>2, OlderGenerations
  <2> QED BY <2>1, <2>2
<1>8. ASSUME NEW g \in Gens, g < row[d].gen, SweepsOld(w, d, g)
      PROVE  Clean(d, g)' \/ SweepsOld(w, d, g)'
  <2>1. work[w].gen = row[d].gen /\ g \in Older(w)
    BY <1>8 DEF SweepsOld, Attends, Older
  <2>2. CASE CleanupOldParsed(w)
    <3>1. GoTo(w, "old_chunks")
      BY <2>2 DEF CleanupOldParsed
    <3>2. /\ work'[w].stage = "old_chunks" /\ work'[w].doc = d
          /\ work'[w].gen = row'[d].gen
      BY <1>1, <1>2, <2>1, <3>1, GoToFields
    <3> QED BY <1>5, <2>1, <2>2, <3>2 DEF SweepsOld, Attends
  <2>3. CASE CleanupOldChunks(w)
    <3>1. parsed[d][g] = NoText /\ parsed' = parsed
      BY <1>8, <2>3 DEF CleanupOldChunks, SweepsOld
    <3> QED BY <1>6, <2>1, <2>3, <3>1 DEF Clean
  <2> QED BY <2>2, <2>3
<1>9. ~SweepsOwn(w, d)
    BY <1>1 DEF SweepsOwn, OldStages
<1>10. work'[w].stage \notin MutationStages
    BY <1>4 DEF MutationStages
<1> QED BY <1>1, <1>3, <1>7, <1>8, <1>9, <1>10, SweepLeft

LEMMA CleanupStaleLeft ==
    ASSUME IInv, IInv', LeftInv, NEW w \in Workers, NoFaults,
           CleanupStaleParsed(w) \/ CleanupStaleChunks(w)
    PROVE  LeftInv'
<1> PICK d \in Docs : d = work[w].doc
    BY WorkDoc DEF IInv
<1> PICK k : k = work[w].gen
    OBVIOUS
<1>1. TypeOK /\ row' = row /\ work[w].stage \in StaleStages /\ k \in Gens
      /\ parsed \in [Docs -> [Gens -> Texts \cup {NoText}]]
      /\ chunks \in [Docs -> [Gens -> SUBSET Chunk]]
    BY DEF IInv, TypeOK, WorkerInv, CleanupStaleParsed, CleanupStaleChunks, StaleStages
<1>2. "stale_chunks" \in WorkStages
    BY DEF WorkStages, LockedStages, StaleStages
<1>3. \A v \in Workers \ {w} : work'[v] = work[v]
    BY <1>1, <1>2, OtherWork DEF CleanupStaleParsed, CleanupStaleChunks
<1>4. work'[w].stage \in {"stale_chunks", "idle"}
    BY <1>1, <1>2, GoToFields, LeaveStage DEF CleanupStaleParsed, CleanupStaleChunks
<1>5. CleanupStaleParsed(w) => parsed'[d][k] = NoText
  <2> SUFFICES ASSUME CleanupStaleParsed(w) PROVE parsed'[d][k] = NoText
    OBVIOUS
  <2>1. parsed' = [parsed EXCEPT ![work[w].doc][work[w].gen] = NoText]
    BY Zenon DEF CleanupStaleParsed, NoFaults
  <2> QED BY <1>1, <2>1
<1>6. CleanupStaleChunks(w) => chunks'[d][k] = {}
  <2> SUFFICES ASSUME CleanupStaleChunks(w) PROVE chunks'[d][k] = {}
    OBVIOUS
  <2>1. PICK left \in {{}} \cup PartOf(chunks[d][k]) :
            chunks' = [chunks EXCEPT ![d][k] = left]
    BY DEF CleanupStaleChunks
  <2>2. left = {}
    BY <1>1, <2>1, NoFaultsStep
  <2> QED BY <1>1, <2>1, <2>2
<1>7. \A e \in Docs : StoreCalm(e)
  <2> SUFFICES ASSUME NEW e \in Docs, NEW g \in Gens
               PROVE  /\ parsed[e][g] = NoText => parsed'[e][g] = NoText
                      /\ chunks[e][g] = {} => chunks'[e][g] = {}
    BY DEF StoreCalm
  <2>1. CASE e = d /\ g = k
    BY <1>5, <1>6, <2>1 DEF CleanupStaleParsed, CleanupStaleChunks
  <2>2. CASE ~(e = d /\ g = k)
    BY <2>2, OwnGeneration
  <2> QED BY <2>1, <2>2
<1>8. ASSUME SweepsOwn(w, d)
      PROVE  Clean(d, row[d].gen)' \/ SweepsOwn(w, d)'
  <2>1. k = row[d].gen
    BY <1>8 DEF SweepsOwn, Attends
  <2>2. CASE CleanupStaleParsed(w)
    <3>1. GoTo(w, "stale_chunks")
      BY <2>2 DEF CleanupStaleParsed
    <3>2. /\ work'[w].stage = "stale_chunks" /\ work'[w].doc = d
          /\ work'[w].gen = row'[d].gen /\ row'[d].gen = k
      BY <1>1, <1>2, <2>1, <3>1, GoToFields
    <3> QED BY <1>5, <2>2, <3>2 DEF SweepsOwn, Attends
  <2>3. CASE CleanupStaleChunks(w)
    <3>1. parsed[d][k] = NoText /\ parsed' = parsed
      BY <1>8, <2>1, <2>3 DEF CleanupStaleChunks, SweepsOwn
    <3> QED BY <1>1, <1>6, <2>1, <2>3, <3>1 DEF Clean
  <2> QED BY <2>2, <2>3
<1>9. \A g \in Gens : ~SweepsOld(w, d, g)
    BY <1>1 DEF SweepsOld, StaleStages
<1>10. work'[w].stage \notin MutationStages
    BY <1>4 DEF MutationStages
<1> QED BY <1>1, <1>3, <1>7, <1>8, <1>9, <1>10, SweepLeft

\* The rows that are not written, when one is.
LEMMA OneRowCalm ==
    ASSUME TypeOK, NEW d \in Docs, RowCalm(d), \A e \in Docs \ {d} : row'[e] = row[e],
           UNCHANGED <<parsed, chunks>>
    PROVE  \A e \in Docs : RowCalm(e) /\ StoreCalm(e)
<1>1. ASSUME NEW e \in Docs PROVE RowCalm(e)
  <2>1. row[e].gen >= row[e].gen
    BY RowNumbers
  <2> QED BY <1>1, <2>1 DEF RowCalm
<1> QED BY <1>1 DEF StoreCalm

LEMMA ClaimLeft ==
    ASSUME IInv, IInv', LeftInv, NEW w \in Workers, NEW d \in Docs, ClaimNext(w, d)
    PROVE  LeftInv'
<1>1. TypeOK /\ row[d] \in Row /\ row[d].gen \in Nat /\ work[w].stage = "idle"
      /\ UNCHANGED <<parsed, chunks>>
    BY RowNumbers DEF IInv, ClaimNext, stores
<1>2. PICK id \in Ids :
        /\ row' = [row EXCEPT ![d] = Claimed(row[d], id)]
        /\ \E k : k.stage = "read" /\ work' = [work EXCEPT ![w] = k]
    BY <1>1 DEF ClaimNext, TypeOK
<1>3. row'[d] = Claimed(row[d], id) /\ \A e \in Docs \ {d} : row'[e] = row[e]
    BY <1>1, <1>2 DEF TypeOK
<1>4. RowCalm(d)
    BY <1>1, <1>3, ClaimedRow DEF RowCalm, WaitingStatus, SettledStatus
<1>5. work'[w].stage = "read" /\ \A v \in Workers \ {w} : work'[v] = work[v]
    BY <1>1, <1>2 DEF TypeOK
<1>6. work[w].stage \notin SweepStages /\ Settling(w)'
    BY <1>1, <1>5 DEF Settling, SweepStages, StaleStages, OldStages, MutationStages
<1> QED BY <1>1, <1>3, <1>4, <1>5, <1>6, OneRowCalm, CalmLeft

LEMMA WorkerLeft ==
    ASSUME IInv, IInv', LeftInv, NoFaults, NEW w \in Workers, WorkerStep(w)
    PROVE  LeftInv'
<1>1. CASE Poll(w)
    BY <1>1 DEF Poll, vars, LeftInv, Settling, LeftDoc, FutureClean, OlderSwept, FailedSwept,
                Clean, SweepsOld, SweepsOwn, Attends
<1> QED BY <1>1, ClaimLeft, ReadLeft, PrepareLeft, MutateLeft, SettleStepLeft,
           CheckPublishedLeft, CleanupOldLeft, CleanupStaleLeft DEF WorkerStep

\* The steps of which no worker takes part, and that write one row at most.
LEMMA RequestLeft ==
    ASSUME IInv, IInv', LeftInv, NEW d \in Docs, UNCHANGED <<work, parsed, chunks>>,
           \A e \in Docs \ {d} : row'[e] = row[e], RowCalm(d)
    PROVE  LeftInv'
<1>1. TypeOK /\ Free \notin Workers
    BY ActorAssumption DEF IInv
<1>2. \A e \in Docs : RowCalm(e) /\ StoreCalm(e)
    BY <1>1, OneRowCalm
<1> QED BY <1>1, <1>2, CalmLeft

LEMMA UploadLeft ==
    ASSUME IInv, IInv', LeftInv, NoFaults, NEW d \in Docs, UploadStep(d)
    PROVE  LeftInv'
<1>1. TypeOK /\ ~Outage /\ row[d].gen \in Nat
    BY NoFaultsStep, RowNumbers DEF IInv
<1>2. UNCHANGED <<work, parsed, chunks>>
    BY <1>1 DEF UploadStep, ValidateUpload, PutSource, InsertDocument, InsertDocumentFails,
                CompensateUpload, stores
<1>3. CASE row' = row
  <2>1. RowCalm(d)
    BY <1>1, <1>3 DEF RowCalm
  <2> QED BY <1>2, <1>3, <2>1, RequestLeft
<1>4. CASE upload[d] = "insert" /\ row' = [row EXCEPT ![d] = Inserted]
  <2>1. row[d].gen = 0
    BY <1>4 DEF IInv, DocInv, NoRow
  <2>2. row'[d] = Inserted /\ \A e \in Docs \ {d} : row'[e] = row[e]
    BY <1>1, <1>4 DEF TypeOK
  <2>3. RowCalm(d)
    BY <2>1, <2>2, InsertedRow DEF RowCalm, WaitingStatus, SettledStatus
  <2> QED BY <1>2, <2>2, <2>3, RequestLeft
<1> QED BY <1>1, <1>3, <1>4 DEF UploadStep, ValidateUpload, PutSource, InsertDocument,
                               InsertDocumentFails, CompensateUpload

LEMMA OwnerLeft ==
    ASSUME IInv, IInv', LeftInv, NEW d \in Docs, Reindex(d) \/ Rename(d) \/ TimePasses(d)
    PROVE  LeftInv'
<1>1. TypeOK /\ row[d] \in Row /\ row[d].gen \in Nat
    BY RowNumbers DEF IInv
<1>2. UNCHANGED <<work, parsed, chunks>>
    BY DEF Reindex, Rename, TimePasses, stores
<1>3. CASE Reindex(d)
  <2>1. row' = [row EXCEPT ![d] = NextGeneration(row[d])] /\ row[d].gen < MaxGen
    BY <1>1, <1>3 DEF Reindex, TypeOK
  <2>2. row'[d] = NextGeneration(row[d]) /\ \A e \in Docs \ {d} : row'[e] = row[e]
    BY <1>1, <2>1 DEF TypeOK
  <2>3. RowCalm(d)
    BY <1>1, <2>1, <2>2, NextGenerationRow DEF RowCalm, WaitingStatus, SettledStatus
  <2> QED BY <1>2, <2>2, <2>3, RequestLeft
<1>4. CASE Rename(d) \/ TimePasses(d)
  <2>1. PICK stale \in BOOLEAN : row' = [row EXCEPT ![d].stale = stale]
    BY <1>4 DEF Rename, TimePasses
  <2>2. /\ row'[d] = [row[d] EXCEPT !.stale = stale]
        /\ \A e \in Docs \ {d} : row'[e] = row[e]
    BY <1>1, <2>1 DEF TypeOK
  <2>3. /\ row'[d].gen = row[d].gen /\ row'[d].status = row[d].status
        /\ row'[d].active = row[d].active
    BY <1>1, <2>2 DEF Row
  <2>4. RowCalm(d)
    BY <1>1, <2>3 DEF RowCalm
  <2> QED BY <1>2, <2>2, <2>4, RequestLeft
<1> QED BY <1>3, <1>4

LEMMA CollectionLeft ==
    ASSUME IInv, IInv', LeftInv, CollectionStep
    PROVE  LeftInv'
<1>1. TypeOK /\ Free \notin Workers /\ UNCHANGED <<work, parsed, chunks>>
    BY ActorAssumption DEF IInv, CollectionStep, PutCollection, DeleteCollection, stores
<1>2. ASSUME NEW d \in Docs PROVE RowCalm(d) /\ StoreCalm(d)
  <2>1. row[d] \in Row /\ row[d].gen \in Nat
    BY <1>1, RowNumbers
  <2>2. \/ row'[d] = row[d]
        \/ row'[d] = NextGeneration(row[d]) /\ row[d].gen < MaxGen
    BY DEF CollectionStep, PutCollection, DeleteCollection, Rebuilt
  <2>3. RowCalm(d)
    BY <2>1, <2>2, NextGenerationRow DEF RowCalm, WaitingStatus, SettledStatus
  <2> QED BY <1>1, <2>3 DEF StoreCalm
<1> QED BY <1>1, <1>2, CalmLeft

LEMMA CleanupLeft ==
    ASSUME IInv, IInv', LeftInv, NoFaults, NEW r \in Deleters, CleanupStep(r)
    PROVE  LeftInv'
<1> PICK d \in Docs : d = req[r].doc
    BY RequestDoc DEF IInv
<1>1. TypeOK /\ row[d] \in Row /\ row[d].gen \in Nat
    BY RowNumbers DEF IInv
<1>2. work' = work
    BY DEF CleanupStep, EnterDelete, Isolate, DeleteProjections, DeleteParsed, DeleteSource,
           FinishCleanup
<1>3. CASE EnterDelete(r) \/ DeleteSource(r) \/ (Isolate(r) /\ row' = row)
  <2>1. UNCHANGED <<row, parsed, chunks>>
    BY <1>3 DEF EnterDelete, DeleteSource, Isolate, stores
  <2>2. RowCalm(d)
    BY <1>1, <2>1 DEF RowCalm
  <2> QED BY <1>2, <2>1, <2>2, RequestLeft
<1>4. CASE Isolate(r) /\ row' # row
  <2>1. PICK id \in Ids : row' = [row EXCEPT ![d] = Isolated(row[d], id)]
    BY <1>1, <1>4 DEF Isolate, TypeOK
  <2>2. row'[d] = Isolated(row[d], id) /\ \A e \in Docs \ {d} : row'[e] = row[e]
    BY <1>1, <2>1 DEF TypeOK
  <2>3. RowCalm(d)
    BY <1>1, <2>2, IsolatedRow DEF RowCalm
  <2> QED BY <1>2, <1>4, <2>2, <2>3, RequestLeft DEF Isolate, stores
<1>5. CASE DeleteProjections(r) \/ DeleteParsed(r)
  <2>1. row' = row /\ Free \notin Workers
    BY <1>5, ActorAssumption DEF DeleteProjections, DeleteParsed
  <2>2. ASSUME NEW e \in Docs PROVE RowCalm(e)
    BY <1>1, <2>1, RowNumbers DEF RowCalm
  <2>3. /\ chunks' = chunks \/ chunks' = [chunks EXCEPT ![d] = [g \in Gens |-> {}]]
        /\ parsed' = parsed \/ parsed' = [parsed EXCEPT ![d] = [g \in Gens |-> NoText]]
    <3>1. \A left : left \notin PartOf(Gens)
      BY <1>1, NoFaultsStep
    <3>2. DeleteProjections(r) =>
            chunks' = [chunks EXCEPT ![d] = [g \in Gens |-> {}]] /\ parsed' = parsed
      BY <3>1, Zenon DEF DeleteProjections
    <3>3. DeleteParsed(r) =>
            parsed' = [parsed EXCEPT ![d] = [g \in Gens |-> NoText]] /\ chunks' = chunks
      BY <3>1, Zenon DEF DeleteParsed
    <3> QED BY <1>5, <3>2, <3>3
  <2>4. ASSUME NEW e \in Docs PROVE StoreCalm(e)
    <3>1. /\ chunks'[e] = chunks[e] \/ \A g \in Gens : chunks'[e][g] = {}
          /\ parsed'[e] = parsed[e] \/ \A g \in Gens : parsed'[e][g] = NoText
      <4>1. chunks' = [chunks EXCEPT ![d] = [g \in Gens |-> {}]] =>
                chunks'[e] = chunks[e] \/ \A g \in Gens : chunks'[e][g] = {}
        BY <1>1 DEF TypeOK
      <4>2. parsed' = [parsed EXCEPT ![d] = [g \in Gens |-> NoText]] =>
                parsed'[e] = parsed[e] \/ \A g \in Gens : parsed'[e][g] = NoText
        BY <1>1 DEF TypeOK
      <4> QED BY <2>3, <4>1, <4>2, Zenon
    <3> QED BY <3>1 DEF StoreCalm
  <2> QED BY <1>2, <2>1, <2>2, <2>4, CalmLeft
<1>6. CASE FinishCleanup(r)
  <2>1. row' = Finished(r) /\ UNCHANGED <<parsed, chunks>>
    BY <1>6 DEF FinishCleanup, stores
  <2>2. PICK e \in {"none", "cleanup_failed"} :
            row' = row \/ row' = [row EXCEPT ![d] = Cleaned(row[d], e)]
    BY <1>1, <2>1 DEF Finished, TypeOK
  <2>3. /\ row'[d] = row[d] \/ row'[d] = Cleaned(row[d], e)
        /\ \A x \in Docs \ {d} : row'[x] = row[x]
    BY <1>1, <2>2 DEF TypeOK
  <2>4. RowCalm(d)
    BY <1>1, <2>3, CleanedRow DEF RowCalm
  <2> QED BY <1>2, <2>1, <2>3, <2>4, RequestLeft
<1> QED BY <1>3, <1>4, <1>5, <1>6 DEF CleanupStep

LEMMA StepLeft == ASSUME IInv, IInv', LeftInv, NoFaults, [Next]_vars PROVE LeftInv'
<1>1. ~Outage
    BY NoFaultsStep DEF IInv
<1>2. ASSUME NEW w \in Workers, WorkerStep(w) \/ WorkerOutage(w) PROVE LeftInv'
    BY <1>1, <1>2, WorkerLeft DEF WorkerOutage, ClaimNextLost, PrepareFails,
                                  CompleteGenerationFails, FailGenerationFails
<1>3. ASSUME NEW d \in Docs, UploadStep(d) \/ OwnerStep(d) \/ TimePasses(d) PROVE LeftInv'
    BY <1>3, UploadLeft, OwnerLeft DEF OwnerStep
<1>4. ASSUME NEW r \in Deleters, CleanupStep(r) \/ DeleteOutage(r) PROVE LeftInv'
    BY <1>1, <1>4, CleanupLeft DEF DeleteOutage, IsolateFails, FinishCleanupFails
<1>5. ASSUME UNCHANGED <<row, work, parsed, chunks>> PROVE LeftInv'
    BY <1>5 DEF LeftInv, Settling, LeftDoc, FutureClean, OlderSwept, FailedSwept,
                Clean, SweepsOld, SweepsOwn, Attends
<1>6. ASSUME NEW r \in Deleters, NEW d \in Docs, RequestDelete(r, d) PROVE LeftInv'
    BY <1>5, <1>6 DEF RequestDelete, stores
<1>7. CASE CollectionStep
    BY <1>7, CollectionLeft
<1>8. CASE Restart
    BY <1>1, <1>8 DEF Restart
<1>9. CASE UNCHANGED vars
    BY <1>5, <1>9 DEF vars
<1> QED BY <1>2, <1>3, <1>4, <1>6, <1>7, <1>8, <1>9 DEF Next

LEMMA InitLeft == Init => LeftInv
<1> SUFFICES ASSUME Init PROVE LeftInv
    OBVIOUS
<1>1. ASSUME NEW w \in Workers PROVE Settling(w)
    BY DEF Init, NoWork, Settling, MutationStages
<1>2. ASSUME NEW d \in Docs PROVE LeftDoc(d)
    BY <1>2 DEF Init, NoRow, LeftDoc, FutureClean, OlderSwept, FailedSwept, Clean
<1> QED BY <1>1, <1>2 DEF LeftInv

LEMMA LeftSafe == ASSUME IInv, LeftInv PROVE NoLeftovers
<1> SUFFICES ASSUME NEW d \in Docs, row[d].active,
                    \A w \in Workers : work[w].stage = "idle" \/ work[w].doc # d
             PROVE  /\ row[d].status = "ready" =>
                        \A g \in Gens \ {row[d].gen} : Clean(d, g)
                    /\ row[d].status = "failed" => Clean(d, row[d].gen)
    BY DEF NoLeftovers, Clean
<1>1. \A w \in Workers, g \in Gens : ~SweepsOld(w, d, g) /\ ~SweepsOwn(w, d)
    BY DEF SweepsOld, SweepsOwn, Attends
<1>2. LeftDoc(d) /\ row[d].gen \in Nat
    BY RowNumbers DEF LeftInv, IInv
<1>3. ASSUME row[d].status = "ready", NEW g \in Gens \ {row[d].gen} PROVE Clean(d, g)
  <2>1. g > row[d].gen \/ g < row[d].gen
    BY <1>2, <1>3, BoundAssumption
  <2> QED BY <1>1, <1>2, <1>3, <2>1 DEF LeftDoc, FutureClean, OlderSwept
<1>4. ASSUME row[d].status = "failed" PROVE Clean(d, row[d].gen)
  <2>1. row[d].gen \in Gens
    BY DEF IInv, DocInv
  <2> QED BY <1>1, <1>2, <1>4, <2>1 DEF LeftDoc, FailedSwept
<1> QED BY <1>3, <1>4

\* While no call fails, a worker that has left a published document leaves none
\* of its other generations behind, and one that has left a failed document
\* nothing of the generation that failed - although claims are taken over,
\* generations are replaced and documents deleted while it works.
THEOREM NoLeftoversAlways ==
    ASSUME NoFaults
    PROVE  Spec => []NoLeftovers
<1>1. Init => IInv /\ LeftInv
    BY InitInv, InitLeft
<1>2. IInv /\ LeftInv /\ [Next]_vars => (IInv /\ LeftInv)'
    BY NextInv, StepLeft
<1>3. IInv /\ LeftInv => NoLeftovers
    BY LeftSafe
<1> QED BY <1>1, <1>2, <1>3, PTL DEF Spec
=============================================================================
