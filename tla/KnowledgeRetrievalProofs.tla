----------------------- MODULE KnowledgeRetrievalProofs -----------------------
(***************************************************************************)
(* What TLAPS proves of KnowledgeRetrieval, for any documents, scopes,     *)
(* configurations and scores, and whatever is reindexed, renamed or        *)
(* deleted while the search goes on.                                       *)
(***************************************************************************)
EXTENDS KnowledgeRetrieval, FiniteSetTheorems, WellFoundedInduction, TLAPS

-----------------------------------------------------------------------------
(* The inductive invariant *)

\* What the variables range over.
Gens == 1 .. MaxIndexGen
Names == 0 .. MaxRenames
RowSet == [active : BOOLEAN, status : {"queued", "processing", "ready"}, gen : Gens,
           name : Names, claimed : Names]
DocSet == [doc : Documents, gen : Gens, name : Names]
RecordSet == [doc : Documents, gen : Gens, name : Names, index : ChunkIndexes]
HitSet == [record : RecordSet, score : Nat]
SourceSet == [doc : Documents, gen : Gens, index : Nat, score : Nat, size : Nat]
GroupSet == [config : ScopeConfigs, docs : SUBSET DocSet]
Codes == {"", "knowledge_unavailable", "knowledge_scope_unavailable", "context_too_large",
          "knowledge_content_unavailable", "knowledge_retriever_unavailable"}
AnswerSet == [status : {"none", "hit", "no_match", "error"}, mode : {"none", "direct", "rag"},
              code : Codes, sources : Seq(SourceSet)]
CallSet == [stage : {"asked", "direct", "retrieve", "keyword", "validate", "answered"},
            asked : Seq(ScopeConfigs), available : Nat, groups : Seq(GroupSet), at : Nat,
            read : SUBSET (Documents \X Gens), vectors : SUBSET RecordSet, hits : Seq(HitSet),
            candidates : SUBSET SourceSet, faulted : BOOLEAN, answer : AnswerSet]

SearchTypes ==
    /\ documents \in [Documents -> RowSet]
    /\ parsedKeys \subseteq Documents \X Gens
    /\ points \subseteq DocSet /\ IsFiniteSet(points)
    /\ scoring \in [Documents \X ChunkIndexes -> [vector : Nat, keyword : Nat]]
    /\ search \in CallSet

\* Records have one name in each generation, which is written when it is
\* published; a published generation has its parsed text and its records.
Passed(p) ==
    /\ p.gen <= documents[p.doc].gen
    /\ p.gen = documents[p.doc].gen => documents[p.doc].status = "ready"
SameName(k, p) == KeyOf(k) = KeyOf(p) => k.name = p.name
IndexInv ==
    /\ \A d \in Documents : Published(d) =>
         /\ <<d, documents[d].gen>> \in parsedKeys
         /\ \E p \in points : KeyOf(p) = <<d, documents[d].gen>>
    /\ \A p \in points : Passed(p)
    /\ \A p, q \in points : SameName(p, q)

\* The groups are those of the frozen scope, each of its own collection.
Allowed(s, config) ==
    /\ CollectionOf[s.doc] = config.collection
    /\ config.ids = Everything \/ s.doc \in config.ids
GroupInScope(group) ==
    /\ \E g \in DOMAIN search.asked : group.config = search.asked[g]
    /\ OwnerOf[group.config.collection] \in {0, Caller}
    /\ IsFiniteSet(group.docs)
    /\ \A s \in group.docs : Allowed(s, group.config) /\ Passed(s)
    /\ \A s, t \in group.docs : s.doc = t.doc => s = t
ScopeInv ==
    /\ \A i \in DOMAIN search.groups : GroupInScope(search.groups[i])
    /\ \A i, j \in DOMAIN search.groups : i # j =>
         search.groups[i].config.collection # search.groups[j].config.collection

\* What is known of a record: it is of a document of the group, and has another
\* name only if the document was republished, deleted or renamed.
RecordInv(k) ==
    \E s \in Group.docs : /\ KeyOf(s) = KeyOf(k)
                          /\ k.name = s.name \/ Gone(s) \/ Misnamed(s)
VectorsInv ==
    /\ IsFiniteSet(search.vectors)
    /\ \A k \in search.vectors : Passed(k) /\ RecordInv(k)
    /\ \A k \in search.vectors, p \in points : SameName(k, p)
    /\ \A k, l \in search.vectors : SameName(k, l)
CandidatesInv ==
    /\ IsFiniteSet(search.candidates)
    /\ \A c \in search.candidates : /\ c.size = ChunkSize[c.doc]
                                    /\ \E s \in Asked : KeyOf(s) = KeyOf(c)
StageInv ==
    /\ Answered \/ search.answer = NoAnswer
    /\ Answered => search.answer.status # "none"
    /\ search.stage = "asked" => search.groups = <<>>
    /\ search.stage \in {"asked", "direct"} => search.candidates = {}
    /\ search.stage = "direct" => search.at \in 1 .. Len(AllDocuments(search.groups))
    /\ search.stage \in {"retrieve", "keyword", "validate"} => search.at \in DOMAIN search.groups
    /\ search.stage = "keyword" => VectorsInv
    /\ search.stage = "validate" => \A i \in DOMAIN search.hits : RecordInv(search.hits[i].record)

SearchInv ==
    /\ SearchTypes /\ IndexInv /\ ScopeInv /\ CandidatesInv /\ StageInv
    /\ SourcesInScope /\ ErrorsAreExplained

-----------------------------------------------------------------------------
(* Sequences that are in an order *)

SmallerNumber == {p \in Nat \X Nat : p[1] < p[2]}

\* A set of natural numbers that is not empty has a least element.
LEMMA LeastIsThere ==
    ASSUME NEW S \in SUBSET Nat, S # {}
    PROVE  \E x \in S : \A y \in S : x <= y
<1>1. IsWellFoundedOn(SmallerNumber, Nat)
  BY NatLessThanWellFounded DEF OpToRel, SmallerNumber
<1>2. PICK x \in S : \A y \in S : <<y, x>> \notin SmallerNumber
  BY <1>1, WFMin, Zenon
<1>3. \A y \in S : ~(y < x)
  BY <1>2 DEF SmallerNumber
<1>4. \A y \in S : x <= y
  BY <1>3
<1> QED BY <1>4

\* R orders the elements of S.
Orders(R, S) ==
    /\ \A x \in S : <<x, x>> \notin R
    /\ \A x, y, z \in S : <<x, y>> \in R /\ <<y, z>> \in R => <<x, z>> \in R
    /\ \A x, y \in S : x # y => <<x, y>> \in R \/ <<y, x>> \in R

\* The one with the fewest elements before it is the first.
IsFirst(x, R, S) == x \in S /\ \A y \in S \ {x} : <<x, y>> \in R

\* A finite set has a first element in every order of it.
LEMMA FirstIsThere ==
    ASSUME NEW S, IsFiniteSet(S), S # {}, NEW R, Orders(R, S)
    PROVE  \E x : IsFirst(x, R, S)
<1> DEFINE before(x) == {y \in S : <<y, x>> \in R}
           sizes == {Cardinality(before(x)) : x \in S}
<1>1. \A x \in S : IsFiniteSet(before(x)) /\ Cardinality(before(x)) \in Nat
  BY FS_Subset, FS_CardinalityType
<1>2. PICK x \in S : \A y \in S : Cardinality(before(x)) <= Cardinality(before(y))
  <2>1. sizes \in SUBSET Nat /\ sizes # {}
    BY <1>1
  <2>2. PICK n \in sizes : \A m \in sizes : n <= m
    BY <2>1, LeastIsThere
  <2> QED BY <2>2
<1>3. before(x) = {}
  <2> SUFFICES ASSUME NEW y \in S, <<y, x>> \in R
               PROVE  FALSE
    OBVIOUS
  <2>1. before(y) \in SUBSET before(x) /\ y \in before(x) /\ y \notin before(y)
    BY DEF Orders
  <2>2. Cardinality(before(y)) <= Cardinality(before(x))
        /\ (Cardinality(before(x)) = Cardinality(before(y)) => before(x) = before(y))
    BY <1>1, <2>1, FS_Subset
  <2>3. Cardinality(before(y)) # Cardinality(before(x))
    BY <2>1, <2>2
  <2> HIDE DEF before
  <2> QED BY <1>1, <1>2, <2>2, <2>3
<1>4. \A y \in S \ {x} : <<x, y>> \in R
  BY <1>3 DEF Orders
<1> QED BY <1>4 DEF IsFirst

\* The sequences of all elements of a set.
LEMMA SequencesOf ==
    ASSUME NEW S, IsFiniteSet(S), NEW s \in SetToSeqs(S)
    PROVE  /\ Cardinality(S) \in Nat /\ s \in Seq(S) /\ Len(s) = Cardinality(S)
           /\ DOMAIN s = 1 .. Cardinality(S)
           /\ \A i \in DOMAIN s : s[i] \in S
           /\ \A i, j \in DOMAIN s : i # j => s[i] # s[j]
  BY FS_CardinalityType DEF SetToSeqs

\* A sequence as long as the set, of elements of it and without repetition.
LEMMA SequencesAre ==
    ASSUME NEW S, NEW s \in [1 .. Cardinality(S) -> S], \A i, j \in 1 .. Cardinality(S) : i # j => s[i] # s[j]
    PROVE  s \in SetToSeqs(S)
  BY DEF SetToSeqs

\* R orders a sequence.
Sorted(R, s) == \A i, j \in DOMAIN s : i < j => <<s[i], s[j]>> \in R

\* The first element, and then the others in their order.
LEMMA FirstAndRest ==
    ASSUME NEW S, IsFiniteSet(S), NEW R, NEW x \in S, \A y \in S \ {x} : <<x, y>> \in R,
           NEW t \in SetToSeqs(S \ {x}), Sorted(R, t)
    PROVE  \E s \in SetToSeqs(S) : Sorted(R, s)
<1> DEFINE n == Cardinality(S)
           s == [i \in 1 .. n |-> IF i = 1 THEN x ELSE t[i - 1]]
<1>1. n \in Nat /\ Cardinality(S \ {x}) = n - 1 /\ IsFiniteSet(S \ {x}) /\ n - 1 \in Nat
  <2>1. n \in Nat /\ Cardinality(S \ {x}) = n - 1 /\ IsFiniteSet(S \ {x})
    BY FS_RemoveElement, FS_CardinalityType
  <2>2. Cardinality(S \ {x}) \in Nat
    BY <2>1, FS_CardinalityType
  <2> QED BY <2>1, <2>2
<1>2. /\ DOMAIN t = 1 .. n - 1
      /\ \A i \in 1 .. n - 1 : t[i] \in S \ {x}
      /\ \A i, j \in 1 .. n - 1 : i # j => t[i] # t[j]
  BY <1>1, SequencesOf
<1> HIDE DEF n
<1>3. \A i \in 1 .. n : i # 1 => i - 1 \in 1 .. n - 1
  BY <1>1
<1>4. s \in [1 .. n -> S]
  BY <1>2, <1>3
<1>5. DOMAIN s = 1 .. n /\ s[1] = x /\ \A i \in 1 .. n : i # 1 => s[i] = t[i - 1] /\ s[i] \in S \ {x}
  <2>1. 1 \in 1 .. n
    BY <1>1
  <2> QED BY <1>2, <1>3, <2>1
<1> HIDE DEF s
<1>6. ASSUME NEW i \in 1 .. n, NEW j \in 1 .. n, i < j
      PROVE  s[i] # s[j] /\ <<s[i], s[j]>> \in R
  <2>1. j # 1
    BY <1>1, <1>6
  <2>2. CASE i = 1
    BY <1>5, <2>1, <2>2
  <2>3. CASE i # 1
    <3>1. i - 1 \in DOMAIN t /\ j - 1 \in DOMAIN t /\ i - 1 < j - 1 /\ i - 1 # j - 1
      BY <1>2, <1>3, <1>6, <2>1, <2>3
    <3> QED BY <1>2, <1>5, <2>1, <2>3, <3>1 DEF Sorted
  <2> QED BY <2>2, <2>3
<1>7. \A i, j \in 1 .. n : i # j => s[i] # s[j]
  <2> SUFFICES ASSUME NEW i \in 1 .. n, NEW j \in 1 .. n, i # j
               PROVE  s[i] # s[j]
    OBVIOUS
  <2>1. i < j \/ j < i
    OBVIOUS
  <2> QED BY <2>1, <1>6
<1>8. s \in SetToSeqs(S)
  BY <1>4, <1>7, SequencesAre DEF n
<1> QED BY <1>5, <1>6, <1>8 DEF Sorted

\* The elements of a finite set can be put in an order: take a smallest set for
\* which this is not so.
LEMMA SortedIsThere ==
    ASSUME NEW S, IsFiniteSet(S), NEW R, Orders(R, S)
    PROVE  \E s \in SetToSeqs(S) : Sorted(R, s)
<1> DEFINE bad(T) == ~\E s \in SetToSeqs(T) : Sorted(R, s)
           sizes == {Cardinality(T) : T \in {U \in SUBSET S : bad(U)}}
<1>1. \A T \in SUBSET S : IsFiniteSet(T) /\ Cardinality(T) \in Nat /\ Orders(R, T)
  BY FS_Subset, FS_CardinalityType DEF Orders
<1>2. SUFFICES ASSUME bad(S)
               PROVE  FALSE
  OBVIOUS
<1>3. sizes \in SUBSET Nat /\ sizes # {}
  BY <1>1, <1>2
<1>4. PICK n \in sizes : \A m \in sizes : n <= m
  BY <1>3, LeastIsThere
<1>5. PICK T \in SUBSET S : bad(T) /\ n = Cardinality(T)
  BY <1>4
<1>6. IsFiniteSet(T) /\ Orders(R, T) /\ n \in Nat
  BY <1>1, <1>5
<1>7. CASE T = {}
  <2> DEFINE s == [i \in 1 .. Cardinality(T) |-> i]
  <2>1. Cardinality(T) = 0
    BY <1>7, FS_EmptySet
  <2>2. s \in [1 .. Cardinality(T) -> T] /\ DOMAIN s = {}
    BY <2>1
  <2>3. s \in SetToSeqs(T)
    BY <2>1, <2>2 DEF SetToSeqs
  <2>4. Sorted(R, s)
    BY <2>2 DEF Sorted
  <2> QED BY <1>5, <2>3, <2>4
<1>8. CASE T # {}
  <2>1. PICK x \in T : \A y \in T \ {x} : <<x, y>> \in R
    BY <1>6, <1>8, FirstIsThere DEF IsFirst
  <2>2. Cardinality(T \ {x}) = n - 1
    BY <1>5, <1>6, FS_RemoveElement
  <2>3. ~bad(T \ {x})
    <3>1. T \ {x} \in SUBSET S
      OBVIOUS
    <3>2. bad(T \ {x}) => n <= n - 1
      BY <1>4, <2>2, <3>1
    <3> QED BY <1>6, <3>2
  <2>4. PICK t \in SetToSeqs(T \ {x}) : Sorted(R, t)
    BY <2>3
  <2> QED BY <1>5, <1>6, <2>1, <2>4, FirstAndRest
<1> QED BY <1>7, <1>8

-----------------------------------------------------------------------------
(* The orders of the search *)

\* Indexes, by number.
LEMMA IndexesOrdered ==
    ASSUME NEW S \in SUBSET Nat, IsFiniteSet(S)
    PROVE  /\ Ordered(S, Lower) \in SetToSeqs(S)
           /\ \A i, j \in DOMAIN Ordered(S, Lower) : i < j => Ordered(S, Lower)[i] < Ordered(S, Lower)[j]
<1> DEFINE R == {p \in S \X S : p[1] < p[2]}
<1>1. Orders(R, S)
  BY DEF Orders
<1>2. PICK s \in SetToSeqs(S) : Sorted(R, s)
  BY <1>1, SortedIsThere
<1>3. \A i, j \in DOMAIN s : i < j => Lower(s[i], s[j])
  BY <1>2 DEF Sorted, Lower
<1>4. /\ Ordered(S, Lower) \in SetToSeqs(S)
      /\ \A i, j \in DOMAIN Ordered(S, Lower) :
           i < j => Lower(Ordered(S, Lower)[i], Ordered(S, Lower)[j])
  BY <1>3, Zenon DEF Ordered
<1> QED BY <1>4 DEF Lower

\* The documents of a group, by number.
LEMMA DocumentsOrdered ==
    ASSUME NEW S \in SUBSET DocSet, IsFiniteSet(S), \A s, t \in S : s.doc = t.doc => s = t
    PROVE  ByDocument(S) \in SetToSeqs(S)
<1> DEFINE R == {p \in S \X S : p[1].doc < p[2].doc}
<1>1. \A s \in S : s.doc \in Nat
  BY SearchAssumption DEF DocSet
<1>2. Orders(R, S)
  BY <1>1 DEF Orders
<1>3. PICK s \in SetToSeqs(S) : Sorted(R, s)
  BY <1>2, SortedIsThere
<1>4. \A i, j \in DOMAIN s : i < j => Earlier(s[i], s[j])
  BY <1>3 DEF Sorted, Earlier
<1> QED BY <1>4, Zenon DEF ByDocument, Ordered

\* Chunks, by where they come from.
LEMMA ChunksOrdered ==
    ASSUME NEW a, NEW b, NEW c, a.doc \in Documents, b.doc \in Documents, c.doc \in Documents,
           a.index \in Nat, b.index \in Nat, c.index \in Nat
    PROVE  /\ ~ChunkBefore(a, a)
           /\ ChunkBefore(a, b) /\ ChunkBefore(b, c) => ChunkBefore(a, c)
           /\ a.doc # b.doc \/ a.index # b.index => ChunkBefore(a, b) \/ ChunkBefore(b, a)
<1>1. \A d \in Documents : d \in Nat /\ CollectionOf[d] \in Nat
  BY SearchAssumption
<1>2. /\ a.doc \in Nat /\ b.doc \in Nat /\ c.doc \in Nat
      /\ CollectionOf[a.doc] \in Nat /\ CollectionOf[b.doc] \in Nat /\ CollectionOf[c.doc] \in Nat
  BY <1>1
<1> QED BY <1>2 DEF ChunkBefore

\* The hits of a retriever, the best score first.
LEMMA HitsOrdered ==
    ASSUME NEW S \in SUBSET HitSet, IsFiniteSet(S),
           \A h, k \in S : h.record.doc = k.record.doc /\ h.record.index = k.record.index
                             => h.record = k.record
    PROVE  /\ Ranked(S) \in SetToSeqs(S)
           /\ \A i, j \in DOMAIN Ranked(S) : i < j => BetterHit(Ranked(S)[i], Ranked(S)[j])
<1> DEFINE R == {p \in S \X S : BetterHit(p[1], p[2])}
<1>1. \A h \in S : /\ h.score \in Nat /\ h.record.doc \in Documents /\ h.record.index \in Nat
                   /\ h = [record |-> h.record, score |-> h.score]
  <2>1. \A h \in S : /\ h.score \in Nat /\ h.record \in RecordSet
                     /\ h = [record |-> h.record, score |-> h.score]
    BY DEF HitSet
  <2>2. \A k \in RecordSet : k.doc \in Documents /\ k.index \in Nat
    BY SearchAssumption DEF RecordSet
  <2> QED BY <2>1, <2>2
<1>2. \A h \in S : <<h, h>> \notin R
  BY <1>1, ChunksOrdered DEF BetterHit
<1>3. ASSUME NEW h \in S, NEW k \in S, NEW l \in S, <<h, k>> \in R, <<k, l>> \in R
      PROVE  <<h, l>> \in R
  <2>1. BetterHit(h, k) /\ BetterHit(k, l)
    BY <1>3
  <2>2. ChunkBefore(h.record, k.record) /\ ChunkBefore(k.record, l.record) => ChunkBefore(h.record, l.record)
    BY <1>1, ChunksOrdered
  <2>3. BetterHit(h, l)
    BY <1>1, <2>1, <2>2 DEF BetterHit
  <2> QED BY <2>3
<1>4. ASSUME NEW h \in S, NEW k \in S, h # k
      PROVE  <<h, k>> \in R \/ <<k, h>> \in R
  <2>1. h.score # k.score \/ h.record.doc # k.record.doc \/ h.record.index # k.record.index
    BY <1>1, <1>4
  <2>2. h.record.doc # k.record.doc \/ h.record.index # k.record.index
          => ChunkBefore(h.record, k.record) \/ ChunkBefore(k.record, h.record)
    BY <1>1, ChunksOrdered
  <2>3. BetterHit(h, k) \/ BetterHit(k, h)
    BY <1>1, <2>1, <2>2 DEF BetterHit
  <2> QED BY <2>3
<1>5. Orders(R, S)
  BY <1>2, <1>3, <1>4 DEF Orders
<1>6. PICK s \in SetToSeqs(S) : Sorted(R, s)
  BY <1>5, SortedIsThere
<1>7. \A i, j \in DOMAIN s : i < j => BetterHit(s[i], s[j])
  BY <1>6 DEF Sorted
<1> QED BY <1>7, Zenon DEF Ranked, Ordered

\* The candidates of all collections, the best score first.
LEMMA SourcesOrdered ==
    ASSUME NEW S \in SUBSET SourceSet, IsFiniteSet(S),
           \A c, d \in S : c.doc = d.doc => c.gen = d.gen /\ c.size = d.size
    PROVE  /\ Ordered(S, BetterSource) \in SetToSeqs(S)
           /\ \A i, j \in DOMAIN Ordered(S, BetterSource) :
                i < j => BetterSource(Ordered(S, BetterSource)[i], Ordered(S, BetterSource)[j])
<1> DEFINE R == {p \in S \X S : BetterSource(p[1], p[2])}
<1>1. \A c \in S : /\ c.score \in Nat /\ c.doc \in Documents /\ c.index \in Nat
                   /\ c = [doc |-> c.doc, gen |-> c.gen, index |-> c.index, score |-> c.score,
                           size |-> c.size]
  BY DEF SourceSet
<1>2. \A c \in S : <<c, c>> \notin R
  BY <1>1, ChunksOrdered DEF BetterSource
<1>3. ASSUME NEW c \in S, NEW d \in S, NEW e \in S, <<c, d>> \in R, <<d, e>> \in R
      PROVE  <<c, e>> \in R
  <2>1. BetterSource(c, d) /\ BetterSource(d, e)
    BY <1>3
  <2>2. ChunkBefore(c, d) /\ ChunkBefore(d, e) => ChunkBefore(c, e)
    BY <1>1, ChunksOrdered
  <2>3. BetterSource(c, e)
    BY <1>1, <2>1, <2>2 DEF BetterSource
  <2> QED BY <2>3
<1>4. ASSUME NEW c \in S, NEW d \in S, c # d
      PROVE  <<c, d>> \in R \/ <<d, c>> \in R
  <2>1. c.score # d.score \/ c.doc # d.doc \/ c.index # d.index
    BY <1>1, <1>4
  <2>2. c.doc # d.doc \/ c.index # d.index => ChunkBefore(c, d) \/ ChunkBefore(d, c)
    BY <1>1, ChunksOrdered
  <2>3. BetterSource(c, d) \/ BetterSource(d, c)
    BY <1>1, <2>1, <2>2 DEF BetterSource
  <2> QED BY <2>3
<1>5. Orders(R, S)
  BY <1>2, <1>3, <1>4 DEF Orders
<1>6. PICK s \in SetToSeqs(S) : Sorted(R, s)
  BY <1>5, SortedIsThere
<1>7. \A i, j \in DOMAIN s : i < j => BetterSource(s[i], s[j])
  BY <1>6 DEF Sorted
<1> QED BY <1>7, Zenon DEF Ordered


-----------------------------------------------------------------------------
(* Recursive definitions *)

\* Induction up to n, over a set.
LEMMA UpTo ==
    ASSUME NEW n \in Nat, NEW S, 0 \in S, \A k \in 1 .. n : k - 1 \in S => k \in S
    PROVE  \A k \in 0 .. n : k \in S
<1> DEFINE T == {k \in 0 .. n : k \notin S}
<1>1. SUFFICES ASSUME T # {} PROVE FALSE
  OBVIOUS
<1>2. T \in SUBSET Nat
  OBVIOUS
<1>3. PICK k \in T : \A y \in T : k <= y
  BY <1>1, <1>2, LeastIsThere
<1>4. k # 0 /\ k \in 1 .. n /\ k - 1 \in 0 .. n /\ ~(k <= k - 1)
  <2>1. k \in 0 .. n /\ k \notin S
    BY <1>3
  <2>2. k # 0
    BY <2>1
  <2> QED BY <2>1, <2>2
<1>5. k - 1 \in S
  BY <1>3, <1>4
<1> QED BY <1>3, <1>4, <1>5

\* A function on 0 .. n, every value of which follows from the one before.
Chain(n, X, first, step, f) ==
    f \in [0 .. n -> X] /\ f[0] = first /\ \A k \in 1 .. n : f[k] = step[k][f[k - 1]]

\* There is such a function, whatever the steps.
LEMMA ChainIsThere ==
    ASSUME NEW n \in Nat, NEW X, NEW first \in X, NEW step \in [1 .. n -> [X -> X]]
    PROVE  \E f : Chain(n, X, first, step, f)
<1> DEFINE chain(m, f) == f[0] = first /\ \A k \in 1 .. m : f[k] = step[k][f[k - 1]]
           S == {m \in 0 .. n : \E f \in [0 .. m -> X] : chain(m, f)}
<1>1. 0 \in S
  <2>1. [k \in 0 .. 0 |-> first] \in [0 .. 0 -> X] /\ chain(0, [k \in 0 .. 0 |-> first])
    OBVIOUS
  <2>2. 0 \in 0 .. n
    OBVIOUS
  <2> HIDE DEF chain
  <2> QED BY <2>1, <2>2
<1>2. ASSUME NEW m \in 1 .. n, m - 1 \in S
      PROVE  m \in S
  <2>1. PICK f \in [0 .. m - 1 -> X] : chain(m - 1, f)
    BY <1>2
  <2> DEFINE g == [k \in 0 .. m |-> IF k = m THEN step[m][f[m - 1]] ELSE f[k]]
  <2>2. m - 1 \in 0 .. m - 1 /\ f[m - 1] \in X /\ step[m] \in [X -> X]
    BY <2>1
  <2>3. step[m][f[m - 1]] \in X
    BY <2>2
  <2>4. \A k \in 0 .. m : k # m => k \in 0 .. m - 1 /\ f[k] \in X
    BY <2>1
  <2>5. g \in [0 .. m -> X]
    BY <2>3, <2>4
  <2>6. \A k \in 0 .. m : k # m => g[k] = f[k]
    OBVIOUS
  <2>7. g[m] = step[m][f[m - 1]]
    OBVIOUS
  <2> HIDE DEF g
  <2>8. g[0] = first
    BY <2>1, <2>6
  <2>9. ASSUME NEW k \in 1 .. m
        PROVE  g[k] = step[k][g[k - 1]]
    <3>1. g[k - 1] = f[k - 1]
      BY <2>6
    <3>2. CASE k = m
      BY <2>7, <3>1, <3>2
    <3>3. CASE k # m
      <4>1. k \in 1 .. m - 1 /\ k \in 0 .. m
        BY <3>3
      <4>2. g[k] = f[k]
        BY <2>6, <3>3, <4>1
      <4> QED BY <2>1, <3>1, <4>1, <4>2
    <3> QED BY <3>2, <3>3
  <2>10. chain(m, g)
    BY <2>8, <2>9
  <2> QED BY <2>5, <2>10
<1>3. n \in S
  <2> HIDE DEF S
  <2>1. \A k \in 0 .. n : k \in S
    BY <1>1, <1>2, UpTo
  <2> QED BY <2>1
<1> QED BY <1>3 DEF Chain

\* The tokens of one source.
LEMMA SumOfOne ==
    ASSUME NEW x \in Nat
    PROVE  SumOf(<<x>>) = x
<1> DEFINE is(f) == f = [k \in 0 .. 1 |-> IF k = 0 THEN 0 ELSE f[k - 1] + <<x>>[k]]
           f == CHOOSE g : is(g)
           h == [k \in 0 .. 1 |-> IF k = 0 THEN 0 ELSE x]
<1>1. is(h)
  <2>1. \A k \in 0 .. 1 : h[k] = IF k = 0 THEN 0 ELSE h[k - 1] + <<x>>[k]
    <3>1. h[0] = 0 /\ h[1] = x /\ <<x>>[1] = x
      OBVIOUS
    <3>2. \A k \in 0 .. 1 : k = 0 \/ k = 1
      OBVIOUS
    <3> HIDE DEF h
    <3> QED BY <3>1, <3>2
  <2>2. h = [k \in 0 .. 1 |-> h[k]]
    OBVIOUS
  <2> HIDE DEF h
  <2> QED BY <2>1, <2>2
<1>2. is(f)
  BY <1>1
<1>3. SumOf(<<x>>) = f[1]
  BY DEF SumOf
<1> HIDE DEF f
<1>4. f[0] = 0 /\ f[1] = f[0] + <<x>>[1]
  BY <1>2
<1> QED BY <1>3, <1>4

\* A single source fits if what it adds to an empty result does.
LEMMA FitsAlone ==
    ASSUME NEW c \in SourceSet
    PROVE  Fits(<<c>>) <=> EmptySize + c.size <= search.available
<1>1. c.size \in Nat
  BY DEF SourceSet
<1>2. [i \in DOMAIN <<c>> |-> <<c>>[i].size] = <<c.size>>
  OBVIOUS
<1> QED BY <1>1, <1>2, SumOfOne DEF Fits, SizeOf

\* The sources that were chosen are candidates, each of them once, and the first
\* of them comes no later than any candidate that fits on its own.
Chosen(c, k, t) ==
    /\ t \in Seq(SourceSet)
    /\ \A i \in DOMAIN t : \E j \in 1 .. k : t[i] = c[j]
    /\ \A i, j \in DOMAIN t : i # j => t[i] # t[j]
    /\ \A p \in 1 .. k : Fits(<<c[p]>>) => t # <<>> /\ \E j \in 1 .. p : t[1] = c[j]

\* The sources that Fitted chooses are chosen from the whole sequence.
LEMMA FittedIs ==
    ASSUME NEW c \in Seq(SourceSet), \A i, j \in DOMAIN c : i # j => c[i] # c[j]
    PROVE  Chosen(c, Len(c), Fitted(c))
<1> DEFINE n == Len(c)
           is(f) == f = [k \in 0 .. n |->
                           IF k = 0 THEN <<>>
                           ELSE IF Fits(Append(f[k - 1], c[k])) THEN Append(f[k - 1], c[k]) ELSE f[k - 1]]
           X == Seq(SourceSet)
           step == [k \in 1 .. n |-> [t \in X |-> IF Fits(Append(t, c[k])) THEN Append(t, c[k]) ELSE t]]
           f == CHOOSE g : is(g)
<1>1. n \in Nat /\ DOMAIN c = 1 .. n /\ \A k \in 1 .. n : c[k] \in SourceSet
  OBVIOUS
<1>2. \E g : is(g)
  <2>1. step \in [1 .. n -> [X -> X]]
    <3>1. \A k \in 1 .. n : \A t \in X : Append(t, c[k]) \in X
      OBVIOUS
    <3> HIDE DEF X
    <3> QED BY <3>1
  <2>2. <<>> \in X
    OBVIOUS
  <2>3. \A k \in 1 .. n : \A t \in X : step[k][t] = IF Fits(Append(t, c[k])) THEN Append(t, c[k]) ELSE t
    <3> HIDE DEF X
    <3> QED OBVIOUS
  <2> HIDE DEF step, X, n
  <2>4. PICK g \in [0 .. n -> X] : g[0] = <<>> /\ \A k \in 1 .. n : g[k] = step[k][g[k - 1]]
    <3>1. n \in Nat
      BY <1>1
    <3>2. PICK g : Chain(n, X, <<>>, step, g)
      BY <2>1, <2>2, <3>1, ChainIsThere
    <3> QED BY <3>2 DEF Chain
  <2>5. ASSUME NEW k \in 0 .. n
        PROVE  g[k] = IF k = 0 THEN <<>>
                      ELSE IF Fits(Append(g[k - 1], c[k])) THEN Append(g[k - 1], c[k]) ELSE g[k - 1]
    <3>1. CASE k = 0
      BY <2>4, <3>1
    <3>2. CASE k # 0
      <4>1. k \in 1 .. n /\ k - 1 \in 0 .. n
        BY <1>1, <3>2
      <4>2. g[k - 1] \in X
        BY <4>1
      <4> QED BY <2>3, <2>4, <3>2, <4>1, <4>2
    <3> QED BY <3>1, <3>2
  <2>6. g = [k \in 0 .. n |-> g[k]]
    OBVIOUS
  <2>7. g = [k \in 0 .. n |->
               IF k = 0 THEN <<>>
               ELSE IF Fits(Append(g[k - 1], c[k])) THEN Append(g[k - 1], c[k]) ELSE g[k - 1]]
    BY <2>5, <2>6, Zenon
  <2> QED BY <2>7, Zenon
<1>3. is(f)
  BY <1>2
<1>4. Fitted(c) = f[n]
  BY DEF Fitted
<1> HIDE DEF f
<1>5. /\ f[0] = <<>>
      /\ \A k \in 1 .. n : f[k] = IF Fits(Append(f[k - 1], c[k])) THEN Append(f[k - 1], c[k]) ELSE f[k - 1]
  <2>1. 0 \in 0 .. n
    BY <1>1
  <2>2. \A k \in 1 .. n : k \in 0 .. n /\ k # 0
    BY <1>1
  <2> QED BY <1>3, <2>1, <2>2
<1> DEFINE S == {k \in 0 .. n : Chosen(c, k, f[k])}
<1>6. 0 \in S
  <2>1. 0 \in 0 .. n /\ f[0] = <<>>
    BY <1>1, <1>5
  <2>2. Chosen(c, 0, <<>>)
    BY DEF Chosen
  <2> QED BY <2>1, <2>2
<1> HIDE DEF n
<1>7. ASSUME NEW k \in 1 .. n, k - 1 \in S
      PROVE  k \in S
  <2> DEFINE t == f[k - 1]
             u == f[k]
  <2>1. /\ t \in Seq(SourceSet) /\ k - 1 \in 0 .. n /\ k \in 0 .. n
        /\ \A i \in DOMAIN t : \E j \in 1 .. k - 1 : t[i] = c[j]
        /\ \A i, j \in DOMAIN t : i # j => t[i] # t[j]
        /\ \A p \in 1 .. k - 1 : Fits(<<c[p]>>) => t # <<>> /\ \E j \in 1 .. p : t[1] = c[j]
    BY <1>1, <1>7 DEF Chosen
  <2>2. u = IF Fits(Append(t, c[k])) THEN Append(t, c[k]) ELSE t
    BY <1>5
  <2>3. c[k] \in SourceSet /\ \A j \in 1 .. k - 1 : c[j] # c[k] /\ j \in 1 .. k
    BY <1>1
  <2>4. \A p \in 1 .. k : p = k \/ p \in 1 .. k - 1
    BY <1>1
  <2> HIDE DEF t, u, S
  <2>5. CASE Fits(Append(t, c[k]))
    <3>1. /\ u \in Seq(SourceSet) /\ u # <<>> /\ Len(u) = Len(t) + 1
          /\ DOMAIN t = 1 .. Len(t) /\ DOMAIN u = 1 .. Len(t) + 1 /\ Len(t) \in Nat
          /\ u[Len(t) + 1] = c[k] /\ \A i \in DOMAIN t : u[i] = t[i]
      BY <2>1, <2>2, <2>3, <2>5
    <3>2. \A i \in DOMAIN u : i # Len(t) + 1 => i \in DOMAIN t
      BY <3>1
    <3>3. \A i \in DOMAIN u : \E j \in 1 .. k : u[i] = c[j]
      <4> SUFFICES ASSUME NEW i \in DOMAIN u
                   PROVE  \E j \in 1 .. k : u[i] = c[j]
        OBVIOUS
      <4>1. CASE i = Len(t) + 1
        BY <3>1, <4>1
      <4>2. CASE i # Len(t) + 1
        BY <2>1, <2>3, <3>1, <3>2, <4>2
      <4> QED BY <4>1, <4>2
    <3>4. \A i \in DOMAIN t : t[i] # c[k]
      BY <2>1, <2>3
    <3>5. ASSUME NEW i \in DOMAIN u, NEW j \in DOMAIN u, i # j
          PROVE  u[i] # u[j]
      <4>1. CASE i = Len(t) + 1
        <5>1. j \in DOMAIN t
          BY <3>2, <3>5, <4>1
        <5> QED BY <3>1, <3>4, <4>1, <5>1
      <4>2. CASE j = Len(t) + 1
        <5>1. i \in DOMAIN t
          BY <3>2, <3>5, <4>2
        <5> QED BY <3>1, <3>4, <4>2, <5>1
      <4>3. CASE i # Len(t) + 1 /\ j # Len(t) + 1
        BY <2>1, <3>1, <3>2, <3>5, <4>3
      <4> QED BY <4>1, <4>2, <4>3
    <3>6. ASSUME NEW p \in 1 .. k, Fits(<<c[p]>>)
          PROVE  u # <<>> /\ \E j \in 1 .. p : u[1] = c[j]
      <4>1. CASE t = <<>>
        <5>1. p = k /\ u[1] = c[k] /\ k \in 1 .. k
          BY <1>1, <2>1, <2>4, <3>1, <3>6, <4>1
        <5> QED BY <3>1, <5>1
      <4>2. CASE t # <<>>
        <5>1. 1 \in DOMAIN t /\ u[1] = t[1]
          BY <2>1, <3>1, <4>2
        <5>2. CASE p = k
          <6>1. \A j \in 1 .. k - 1 : j \in 1 .. k
            BY <1>1
          <6> QED BY <2>1, <3>1, <5>1, <5>2, <6>1
        <5>3. CASE p \in 1 .. k - 1
          BY <2>1, <3>1, <3>6, <5>1, <5>3
        <5> QED BY <2>4, <5>2, <5>3
      <4> QED BY <4>1, <4>2
    <3>7. Chosen(c, k, u)
      BY <3>1, <3>3, <3>5, <3>6 DEF Chosen
    <3> QED BY <2>1, <3>7 DEF u, S
  <2>6. CASE ~Fits(Append(t, c[k]))
    <3>1. u = t
      BY <2>2, <2>6
    <3>2. t = <<>> => ~Fits(<<c[k]>>)
      <4>1. Append(<<>>, c[k]) = <<c[k]>>
        BY <2>3
      <4> QED BY <2>6, <4>1
    <3>3. ASSUME NEW p \in 1 .. k, Fits(<<c[p]>>)
          PROVE  u # <<>> /\ \E j \in 1 .. p : u[1] = c[j]
      <4>1. CASE p = k
        <5>1. 1 \in DOMAIN t /\ \A j \in 1 .. k - 1 : j \in 1 .. k
          BY <1>1, <2>1, <3>2, <3>3, <4>1
        <5> QED BY <2>1, <3>1, <3>2, <3>3, <4>1, <5>1
      <4>2. CASE p \in 1 .. k - 1
        BY <2>1, <3>1, <3>3, <4>2
      <4> QED BY <2>4, <4>1, <4>2
    <3>4. Chosen(c, k, u)
      BY <2>1, <2>3, <3>1, <3>3 DEF Chosen
    <3> QED BY <2>1, <3>4 DEF u, S
  <2> QED BY <2>5, <2>6
<1>8. n \in S
  <2>1. \A k \in 0 .. n : k \in S
    <3> HIDE DEF S
    <3> QED BY <1>1, <1>6, <1>7, UpTo
  <2> QED BY <1>1, <2>1
<1> QED BY <1>4, <1>8 DEF n

-----------------------------------------------------------------------------
(* The documents of the scope, one after the other *)

\* A sequence of all elements of a set leaves out none.
LEMMA AllAreThere ==
    ASSUME NEW S, IsFiniteSet(S), NEW s \in SetToSeqs(S)
    PROVE  \A x \in S : \E i \in DOMAIN s : s[i] = x
<1> DEFINE n == Cardinality(S)
<1>1. n \in Nat /\ n \in Int /\ 1 \in Int
  BY FS_CardinalityType
<1>2. s \in [1 .. n -> S] /\ \A i, j \in 1 .. n : i # j => s[i] # s[j]
  BY DEF SetToSeqs
<1>3. s \in Injection(1 .. n, S)
  BY <1>2 DEF Injection, IsInjective
<1>4. IsFiniteSet(1 .. n) /\ Cardinality(1 .. n) = n
  BY <1>1, FS_Interval
<1>5. s \in Surjection(1 .. n, S)
  BY <1>3, <1>4, FS_Injection DEF n
<1> QED BY <1>2, <1>5 DEF Surjection

\* The documents of the first k groups.
DocsUpTo(groups, k, t) ==
    /\ t \in Seq(DocSet)
    /\ \A a \in DOMAIN t : \E i \in 1 .. k : t[a] \in groups[i].docs
    /\ \A i \in 1 .. k : \A s \in groups[i].docs : \E a \in DOMAIN t : t[a] = s
    /\ \A a, b \in DOMAIN t : a # b => t[a] # t[b]

\* The documents of one more group are appended.
LEMMA DocsOfOneMore ==
    ASSUME NEW groups, NEW k \in Nat, NEW t, DocsUpTo(groups, k, t), NEW u \in Seq(DocSet),
           \A a \in DOMAIN u : u[a] \in groups[k + 1].docs,
           \A s \in groups[k + 1].docs : \E a \in DOMAIN u : u[a] = s,
           \A a, b \in DOMAIN u : a # b => u[a] # u[b],
           \A i \in 1 .. k : groups[i].docs \cap groups[k + 1].docs = {}
    PROVE  DocsUpTo(groups, k + 1, t \o u)
<1> DEFINE v == t \o u
<1>1. /\ t \in Seq(DocSet) /\ v \in Seq(DocSet) /\ Len(v) = Len(t) + Len(u)
      /\ DOMAIN t = 1 .. Len(t) /\ DOMAIN u = 1 .. Len(u) /\ DOMAIN v = 1 .. Len(v)
      /\ Len(t) \in Nat /\ Len(u) \in Nat
      /\ \A a \in DOMAIN t : v[a] = t[a]
      /\ \A a \in DOMAIN v : a \notin DOMAIN t => a - Len(t) \in DOMAIN u /\ v[a] = u[a - Len(t)]
      /\ \A a \in DOMAIN u : Len(t) + a \in DOMAIN v /\ v[Len(t) + a] = u[a]
  BY DEF DocsUpTo
<1>2. k + 1 \in 1 .. k + 1 /\ \A i \in 1 .. k : i \in 1 .. k + 1
  OBVIOUS
<1>3. \A i \in 1 .. k + 1 : i = k + 1 \/ i \in 1 .. k
  OBVIOUS
<1> HIDE DEF v
<1>4. ASSUME NEW a \in DOMAIN v
      PROVE  \E i \in 1 .. k + 1 : v[a] \in groups[i].docs
  <2>1. CASE a \in DOMAIN t
    BY <1>1, <1>2, <2>1 DEF DocsUpTo
  <2>2. CASE a \notin DOMAIN t
    BY <1>1, <1>2, <2>2
  <2> QED BY <2>1, <2>2
<1>5. ASSUME NEW i \in 1 .. k + 1, NEW s \in groups[i].docs
      PROVE  \E a \in DOMAIN v : v[a] = s
  <2>1. CASE i = k + 1
    <3>1. PICK a \in DOMAIN u : u[a] = s
      BY <2>1
    <3> QED BY <1>1, <3>1
  <2>2. CASE i \in 1 .. k
    <3>1. PICK a \in DOMAIN t : t[a] = s
      BY <2>2 DEF DocsUpTo
    <3>2. a \in DOMAIN v
      BY <1>1
    <3> QED BY <1>1, <3>1, <3>2
  <2> QED BY <1>3, <2>1, <2>2
<1>6. ASSUME NEW a \in DOMAIN t, NEW b \in DOMAIN v, b \notin DOMAIN t
      PROVE  v[a] # v[b]
  <2>1. PICK i \in 1 .. k : v[a] \in groups[i].docs
    BY <1>1 DEF DocsUpTo
  <2>2. v[b] \in groups[k + 1].docs
    BY <1>1, <1>6
  <2> QED BY <2>1, <2>2
<1>7. ASSUME NEW a \in DOMAIN v, NEW b \in DOMAIN v, a # b
      PROVE  v[a] # v[b]
  <2>1. CASE a \in DOMAIN t /\ b \in DOMAIN t
    BY <1>1, <1>7, <2>1 DEF DocsUpTo
  <2>2. CASE a \notin DOMAIN t /\ b \notin DOMAIN t
    <3>1. a - Len(t) # b - Len(t)
      BY <1>1, <1>7
    <3> QED BY <1>1, <2>2, <3>1
  <2> QED BY <1>6, <2>1, <2>2
<1>8. DocsUpTo(groups, k + 1, v)
  BY <1>1, <1>4, <1>5, <1>7 DEF DocsUpTo
<1> QED BY <1>8 DEF v

\* What the groups of a search are.
TypedGroups(groups) ==
    /\ groups \in Seq(GroupSet)
    /\ \A i \in DOMAIN groups : /\ IsFiniteSet(groups[i].docs)
                                /\ \A s, t \in groups[i].docs : s.doc = t.doc => s = t
    /\ \A i, j \in DOMAIN groups : i # j => groups[i].docs \cap groups[j].docs = {}

\* All documents of all groups, each of them once.
LEMMA AllDocumentsIs ==
    ASSUME NEW groups, TypedGroups(groups), groups # <<>>
    PROVE  DocsUpTo(groups, Len(groups), AllDocuments(groups))
<1> DEFINE n == Len(groups)
           seqs == [i \in DOMAIN groups |-> ByDocument(groups[i].docs)]
           is(f) == f = [i \in 1 .. n |-> IF i = 1 THEN seqs[i] ELSE f[i - 1] \o seqs[i]]
           X == Seq(DocSet)
           step == [k \in 1 .. n |-> [t \in X |-> t \o seqs[k]]]
           f == CHOOSE g : is(g)
<1>1. n \in Nat /\ n # 0 /\ DOMAIN groups = 1 .. n /\ n \in 1 .. n
  BY DEF TypedGroups
<1>2. ASSUME NEW i \in 1 .. n
      PROVE  /\ seqs[i] \in X
             /\ \A a \in DOMAIN seqs[i] : seqs[i][a] \in groups[i].docs
             /\ \A s \in groups[i].docs : \E a \in DOMAIN seqs[i] : seqs[i][a] = s
             /\ \A a, b \in DOMAIN seqs[i] : a # b => seqs[i][a] # seqs[i][b]
  <2> DEFINE S == groups[i].docs
             u == ByDocument(S)
  <2>1. S \in SUBSET DocSet /\ IsFiniteSet(S) /\ \A s, t \in S : s.doc = t.doc => s = t
    <3>1. groups[i] \in GroupSet
      BY DEF TypedGroups
    <3> QED BY <1>1, <3>1 DEF TypedGroups, GroupSet
  <2>2. seqs[i] = u
    BY <1>1
  <2> HIDE DEF S
  <2>3. u \in SetToSeqs(S)
    BY <2>1, DocumentsOrdered
  <2> HIDE DEF u
  <2>4. u \in Seq(S) /\ (\A a \in DOMAIN u : u[a] \in S) /\ (\A a, b \in DOMAIN u : a # b => u[a] # u[b])
    BY <2>1, <2>3, SequencesOf
  <2>5. \A s \in S : \E a \in DOMAIN u : u[a] = s
    BY <2>1, <2>3, AllAreThere
  <2>6. u \in X
    BY <2>1, <2>4
  <2> HIDE DEF seqs, X
  <2> QED BY <2>2, <2>4, <2>5, <2>6 DEF S
<1>3. AllDocuments(groups) = f[n]
  <2>1. DOMAIN seqs = 1 .. n /\ Len(seqs) = n
    BY <1>1
  <2>2. AllDocuments(groups) = FlattenSeq(seqs)
    BY DEF AllDocuments
  <2> HIDE DEF seqs, n
  <2> QED BY <1>1, <2>1, <2>2 DEF FlattenSeq
<1> HIDE DEF seqs
<1>4. \E g : is(g)
  <2>1. step \in [1 .. n -> [X -> X]]
    <3>1. \A k \in 1 .. n : \A t \in X : t \o seqs[k] \in X
      BY <1>2
    <3> HIDE DEF X
    <3> QED BY <3>1
  <2>2. <<>> \in X
    OBVIOUS
  <2>3. \A k \in 1 .. n : \A t \in X : step[k][t] = t \o seqs[k]
    <3> HIDE DEF X
    <3> QED OBVIOUS
  <2>4. <<>> \o seqs[1] = seqs[1]
    <3>1. seqs[1] \in X
      BY <1>1, <1>2
    <3> QED BY <3>1
  <2> HIDE DEF step, X, n
  <2>5. PICK h : Chain(n, X, <<>>, step, h)
    BY <1>1, <2>1, <2>2, ChainIsThere
  <2>6. /\ h \in [0 .. n -> X] /\ h[0] = <<>> /\ \A k \in 1 .. n : h[k] = h[k - 1] \o seqs[k]
    <3>1. h \in [0 .. n -> X] /\ h[0] = <<>> /\ \A k \in 1 .. n : h[k] = step[k][h[k - 1]]
      BY <2>5 DEF Chain
    <3>2. \A k \in 1 .. n : h[k - 1] \in X
      BY <1>1, <3>1
    <3> QED BY <2>3, <3>1, <3>2
  <2> DEFINE g == [k \in 1 .. n |-> h[k]]
  <2>7. ASSUME NEW i \in 1 .. n
        PROVE  g[i] = IF i = 1 THEN seqs[i] ELSE g[i - 1] \o seqs[i]
    <3>1. CASE i = 1
      <4>0. 1 \in 1 .. n /\ 1 - 1 = 0
        BY <3>1
      <4>1. g[1] = h[1] /\ h[1] = h[1 - 1] \o seqs[1]
        <5>1. g[1] = h[1]
          BY <4>0
        <5>2. h[1] = h[1 - 1] \o seqs[1]
          BY <2>6, <4>0, Zenon
        <5> QED BY <5>1, <5>2
      <4> HIDE DEF g
      <4> QED BY <2>4, <2>6, <3>1, <4>0, <4>1
    <3>2. CASE i # 1
      <4>1. i - 1 \in 1 .. n
        BY <1>1, <3>2
      <4> QED BY <2>6, <3>2, <4>1
    <3> QED BY <3>1, <3>2
  <2>8. g = [i \in 1 .. n |-> g[i]]
    OBVIOUS
  <2> HIDE DEF g
  <2>9. g = [i \in 1 .. n |-> IF i = 1 THEN seqs[i] ELSE g[i - 1] \o seqs[i]]
    BY <2>7, <2>8, Zenon
  <2> QED BY <2>9, Zenon
<1>5. is(f)
  BY <1>4
<1> HIDE DEF f
<1>6. f[1] = seqs[1] /\ \A k \in 1 .. n : k # 1 => f[k] = f[k - 1] \o seqs[k]
  <2>1. 1 \in 1 .. n
    BY <1>1
  <2> QED BY <1>5, <2>1
<1> DEFINE S == {k \in 0 .. n : k = 0 \/ DocsUpTo(groups, k, f[k])}
<1>7. 0 \in S
  BY <1>1
<1> HIDE DEF n
<1>8. ASSUME NEW k \in 1 .. n, k - 1 \in S
      PROVE  k \in S
  <2> DEFINE t == IF k = 1 THEN <<>> ELSE f[k - 1]
  <2>1. k \in 0 .. n /\ k - 1 \in Nat /\ (k - 1) + 1 = k
    BY <1>1
  <2>2. DocsUpTo(groups, k - 1, t)
    <3>1. CASE k = 1
      <4>1. DocsUpTo(groups, 0, <<>>)
        BY DEF DocsUpTo
      <4> QED BY <3>1, <4>1
    <3>2. CASE k # 1
      <4>1. k - 1 # 0
        BY <1>1, <3>2
      <4> QED BY <1>8, <3>2, <4>1
    <3> QED BY <3>1, <3>2
  <2>3. f[k] = t \o seqs[k]
    <3>1. seqs[k] \in X
      BY <1>2
    <3>2. <<>> \o seqs[k] = seqs[k]
      BY <3>1
    <3> HIDE DEF X, S
    <3>3. CASE k = 1
      BY <1>6, <3>2, <3>3
    <3>4. CASE k # 1
      BY <1>6, <3>4
    <3> QED BY <3>3, <3>4
  <2>4. \A i \in 1 .. k - 1 : groups[i].docs \cap groups[k].docs = {}
    <3>1. \A i \in 1 .. k - 1 : i \in DOMAIN groups /\ i # k
      BY <1>1
    <3> QED BY <1>1, <3>1 DEF TypedGroups
  <2> DEFINE u == seqs[k]
  <2>5. /\ u \in Seq(DocSet)
        /\ \A a \in DOMAIN u : u[a] \in groups[k].docs
        /\ \A s \in groups[k].docs : \E a \in DOMAIN u : u[a] = s
        /\ \A a, b \in DOMAIN u : a # b => u[a] # u[b]
    BY <1>2
  <2> HIDE DEF t, u, S, X
  <2>6. DocsUpTo(groups, (k - 1) + 1, t \o u)
    BY <2>1, <2>2, <2>4, <2>5, DocsOfOneMore
  <2>7. DocsUpTo(groups, k, f[k])
    BY <2>1, <2>3, <2>6 DEF u
  <2> QED BY <2>1, <2>7 DEF S
<1>9. n \in S
  <2> HIDE DEF S
  <2>1. \A k \in 0 .. n : k \in S
    BY <1>1, <1>7, <1>8, UpTo
  <2> QED BY <1>1, <2>1
<1> QED BY <1>1, <1>3, <1>9 DEF n

-----------------------------------------------------------------------------
(* The documents change *)

\* Generations are numbers.
LEMMA GensAreNumbers == Gens \subseteq Nat
  BY SearchAssumption DEF Gens

\* What a change of the documents leaves as it was for a search: what has passed
\* has passed, a name stays the name of its generation, and what is gone or
\* misnamed does not come back.
Known(k) == k.doc \in Documents /\ k.gen \in Gens /\ Passed(k)
Aged ==
    /\ documents' \in [Documents -> RowSet]
    /\ parsedKeys' \subseteq Documents \X Gens
    /\ points' \subseteq DocSet /\ IsFiniteSet(points')
    /\ UNCHANGED <<scoring, search>>
    /\ IndexInv'
    /\ \A k : Known(k) => /\ Passed(k)'
                          /\ (\A p \in points : SameName(k, p)) => \A p \in points' : SameName(k, p)
                          /\ Gone(k) => Gone(k)'
                          /\ Misnamed(k) => Gone(k)' \/ Misnamed(k)'

\* A row changes, and nothing else.
RowChanges(d) ==
    /\ documents' \in [Documents -> RowSet]
    /\ \A x \in Documents \ {d} : documents'[x] = documents[x]
    /\ documents'[d].gen >= documents[d].gen
    /\ documents'[d].active => documents[d].active
    /\ documents'[d].gen = documents[d].gen /\ documents[d].status = "ready"
         => documents'[d].status = "ready"
    /\ documents'[d].active /\ documents'[d].status = "ready"
         => documents[d].status = "ready" /\ documents'[d].gen = documents[d].gen
    /\ UNCHANGED <<parsedKeys, points, scoring, search>>

\* A change of one row that takes back nothing ages the documents.
LEMMA RowChangesAges ==
    ASSUME SearchTypes, IndexInv, NEW d \in Documents, RowChanges(d)
    PROVE  Aged
<1>1. \A x \in Documents : /\ documents[x].gen \in Gens /\ documents'[x].gen \in Gens
                           /\ documents'[x].gen >= documents[x].gen
  <2>1. \A x \in Documents : documents[x] \in RowSet /\ documents'[x] \in RowSet
    BY DEF RowChanges, SearchTypes
  <2>2. \A x \in Documents : documents[x].gen \in Gens /\ documents'[x].gen \in Gens
    BY <2>1 DEF RowSet
  <2> QED BY <2>2, SearchAssumption DEF RowChanges, Gens
<1>2. \A x \in Documents : Published(x)' => Published(x) /\ documents'[x].gen = documents[x].gen
  BY DEF RowChanges, Published
<1>3. ASSUME NEW k, Known(k)
      PROVE  /\ Passed(k)'
             /\ (\A p \in points : SameName(k, p)) => \A p \in points' : SameName(k, p)
             /\ Gone(k) => Gone(k)'
             /\ Misnamed(k) => Gone(k)' \/ Misnamed(k)'
  <2>1. k.doc \in Documents /\ k.gen \in Nat /\ Passed(k)
    BY <1>3, SearchAssumption DEF Known, Gens
  <2>2. documents[k.doc].gen \in Nat /\ documents'[k.doc].gen \in Nat
    BY <1>1, <2>1, GensAreNumbers
  <2>3. Passed(k)'
    BY <1>1, <2>1, <2>2 DEF RowChanges, Passed
  <2>4. Gone(k) => Gone(k)'
    BY <1>1, <1>2, <2>1, <2>2 DEF Gone, Passed
  <2>5. points' = points
    BY DEF RowChanges
  <2>6. Misnamed(k) => Misnamed(k)'
    BY <2>5 DEF Misnamed
  <2> QED BY <2>3, <2>4, <2>5, <2>6
<1>4. IndexInv'
  <2>1. points' = points /\ parsedKeys' = parsedKeys
    BY DEF RowChanges
  <2>2. \A x \in Documents : Published(x)' =>
           /\ <<x, documents'[x].gen>> \in parsedKeys'
           /\ \E p \in points' : KeyOf(p) = <<x, documents'[x].gen>>
    BY <1>2, <2>1 DEF IndexInv
  <2>3. \A p \in points' : Passed(p)'
    <3>1. \A p \in points : Known(p)
      BY DEF Known, SearchTypes, DocSet, IndexInv
    <3> QED BY <1>3, <2>1, <3>1
  <2>4. \A p, q \in points' : SameName(p, q)
    BY <2>1 DEF IndexInv
  <2> QED BY <2>2, <2>3, <2>4 DEF IndexInv, SameName
<1>5. /\ documents' \in [Documents -> RowSet] /\ UNCHANGED <<scoring, search>>
      /\ parsedKeys' \subseteq Documents \X Gens
      /\ points' \subseteq DocSet /\ IsFiniteSet(points')
  BY DEF RowChanges, SearchTypes
<1> QED BY <1>3, <1>4, <1>5 DEF Aged

\* The worker claims a document.
LEMMA ClaimAges ==
    ASSUME SearchTypes, IndexInv, NEW d \in Documents, ClaimDocument(d)
    PROVE  Aged
<1>1. documents[d] \in RowSet
  BY DEF SearchTypes
<1>2. documents' \in [Documents -> RowSet]
  BY <1>1 DEF ClaimDocument, SearchTypes, RowSet
<1>3. documents[d].gen \in Nat
  BY <1>1, SearchAssumption DEF RowSet, Gens
<1>4. RowChanges(d)
  BY <1>2, <1>3 DEF RowChanges, ClaimDocument, SearchTypes, RowSet
<1> QED BY <1>4, RowChangesAges

\* A document gets a new generation.
LEMMA ReindexAges ==
    ASSUME SearchTypes, IndexInv, NEW d \in Documents, ReindexDocument(d)
    PROVE  Aged
<1>1. documents[d] \in RowSet
  BY DEF SearchTypes
<1>2. documents[d].gen \in Nat /\ documents[d].gen + 1 \in Gens
  BY <1>1, SearchAssumption DEF RowSet, Gens, ReindexDocument
<1>3. documents' \in [Documents -> RowSet]
  BY <1>1, <1>2 DEF ReindexDocument, SearchTypes, RowSet
<1>4. documents'[d].gen = documents[d].gen + 1 /\ documents'[d].status = "queued"
  BY <1>1 DEF ReindexDocument, SearchTypes, RowSet
<1>5. RowChanges(d)
  BY <1>2, <1>3, <1>4 DEF RowChanges, ReindexDocument, SearchTypes, Published
<1> QED BY <1>5, RowChangesAges

\* A rename concerns the row only.
LEMMA RenameAges ==
    ASSUME SearchTypes, IndexInv, NEW d \in Documents, RenameDocument(d)
    PROVE  Aged
<1>1. documents[d] \in RowSet
  BY DEF SearchTypes
<1>2. documents[d].gen \in Nat /\ documents[d].name + 1 \in Names
  BY <1>1, SearchAssumption DEF RowSet, Gens, Names, RenameDocument
<1>3. documents' \in [Documents -> RowSet]
  BY <1>1, <1>2 DEF RenameDocument, SearchTypes, RowSet
<1>4. RowChanges(d)
  BY <1>2, <1>3 DEF RowChanges, RenameDocument, SearchTypes, RowSet
<1> QED BY <1>4, RowChangesAges

\* A deleted document is out of every scope.
LEMMA IsolateAges ==
    ASSUME SearchTypes, IndexInv, NEW d \in Documents, IsolateDocument(d)
    PROVE  Aged
<1>1. documents[d] \in RowSet
  BY DEF SearchTypes
<1>2. documents[d].gen \in Nat
  BY <1>1, SearchAssumption DEF RowSet, Gens
<1>3. documents' \in [Documents -> RowSet]
  BY <1>1 DEF IsolateDocument, SearchTypes, RowSet
<1>4. RowChanges(d)
  BY <1>2, <1>3 DEF RowChanges, IsolateDocument, SearchTypes, RowSet
<1> QED BY <1>4, RowChangesAges

\* Texts and records are deleted that no published generation needs.
Deletes ==
    /\ UNCHANGED <<documents, scoring, search>>
    /\ parsedKeys' \subseteq parsedKeys /\ points' \subseteq points
    /\ \A d \in Documents : Published(d) /\ <<d, documents[d].gen>> \in parsedKeys
                              => <<d, documents[d].gen>> \in parsedKeys'
    /\ \A p \in points \ points' : ~documents[p.doc].active \/ p.gen < documents[p.doc].gen

\* What is deleted from a store is of an older generation or of no document.
LEMMA DeletesAges ==
    ASSUME SearchTypes, IndexInv, Deletes
    PROVE  Aged
<1>1. documents' = documents /\ parsedKeys' \subseteq parsedKeys /\ points' \subseteq points
  BY DEF Deletes
<1>2. /\ documents' \in [Documents -> RowSet] /\ UNCHANGED <<scoring, search>>
      /\ parsedKeys' \subseteq Documents \X Gens
      /\ points' \subseteq DocSet /\ IsFiniteSet(points')
  BY <1>1, FS_Subset DEF Deletes, SearchTypes
<1>3. \A p \in points : p.doc \in Documents /\ p.gen \in Nat /\ documents[p.doc].gen \in Nat
  <2>1. \A p \in points : p.doc \in Documents /\ p.gen \in Gens
    BY DEF SearchTypes, DocSet
  <2>2. \A x \in Documents : documents[x].gen \in Gens
    BY DEF SearchTypes, RowSet
  <2> QED BY <2>1, <2>2, GensAreNumbers
<1>4. ASSUME NEW p \in points \ points', NEW k, KeyOf(p) = KeyOf(k)
      PROVE  Gone(k)
  <2>1. p.doc = k.doc /\ p.gen = k.gen
    BY <1>4 DEF KeyOf
  <2> QED BY <1>3, <2>1 DEF Deletes, Gone, Published
<1>5. \A k : (Passed(k)' <=> Passed(k)) /\ (Gone(k)' <=> Gone(k))
  BY <1>1 DEF Passed, Gone, Published
<1>6. \A k : Misnamed(k) => Gone(k)' \/ Misnamed(k)'
  <2> SUFFICES ASSUME NEW k, Misnamed(k), ~Gone(k)'
               PROVE  Misnamed(k)'
    OBVIOUS
  <2>1. PICK p \in points : KeyOf(p) = KeyOf(k) /\ p.name # k.name
    BY DEF Misnamed
  <2>2. p \in points'
    BY <1>4, <1>5, <2>1
  <2> QED BY <2>1, <2>2 DEF Misnamed
<1>7. IndexInv'
  <2>1. ASSUME NEW d \in Documents, Published(d)'
        PROVE  /\ <<d, documents'[d].gen>> \in parsedKeys'
               /\ \E p \in points' : KeyOf(p) = <<d, documents'[d].gen>>
    <3>1. Published(d) /\ <<d, documents[d].gen>> \in parsedKeys
      BY <1>1, <2>1 DEF IndexInv, Published
    <3>2. PICK p \in points : KeyOf(p) = <<d, documents[d].gen>>
      BY <3>1 DEF IndexInv
    <3>3. p \in points'
      <4>1. p.doc = d /\ p.gen = documents[d].gen
        BY <3>2 DEF KeyOf
      <4> QED BY <1>3, <3>1, <4>1 DEF Deletes, Published
    <3> QED BY <1>1, <3>1, <3>2, <3>3 DEF Deletes
  <2>2. \A p \in points' : Passed(p)'
    BY <1>1, <1>5 DEF IndexInv
  <2>3. \A p, q \in points' : SameName(p, q)
    BY <1>1 DEF IndexInv
  <2> QED BY <2>1, <2>2, <2>3 DEF IndexInv, SameName
<1>8. \A k : (\A p \in points : SameName(k, p)) => \A p \in points' : SameName(k, p)
  BY <1>1
<1> QED BY <1>2, <1>5, <1>6, <1>7, <1>8 DEF Aged, Known

\* What the worker deletes after a publication, and a deletion.
LEMMA DeletionsAge ==
    ASSUME SearchTypes, IndexInv, NEW d \in Documents,
           DeleteOldParsed(d) \/ DeleteOldPoints(d) \/ DeletePoints(d) \/ DeleteParsed(d)
    PROVE  Aged
<1>1. \A x \in Documents : documents[x].gen \in Nat
  <2>1. \A x \in Documents : documents[x].gen \in Gens
    BY DEF SearchTypes, RowSet
  <2> QED BY <2>1, GensAreNumbers
<1>2. \A p \in points : p.doc \in Documents /\ p.gen \in Nat
  <2>1. \A p \in points : p.doc \in Documents /\ p.gen \in Gens
    BY DEF SearchTypes, DocSet
  <2> QED BY <2>1, GensAreNumbers
<1>3. CASE DeleteOldParsed(d)
  BY <1>1, <1>3, DeletesAges DEF DeleteOldParsed, Deletes
<1>4. CASE DeleteOldPoints(d)
  <2>1. \A p \in points \ points' : p.doc = d /\ p.gen < documents[d].gen
    BY <1>1, <1>2, <1>4 DEF DeleteOldPoints
  <2> QED BY <1>4, <2>1, DeletesAges DEF DeleteOldPoints, Deletes
<1>5. CASE DeletePoints(d)
  BY <1>5, DeletesAges DEF DeletePoints, Deletes
<1>6. CASE DeleteParsed(d)
  BY <1>6, DeletesAges DEF DeleteParsed, Deletes, Published
<1> QED BY <1>3, <1>4, <1>5, <1>6

\* A publication adds the text and the records of a generation that has none.
LEMMA PublishAges ==
    ASSUME SearchTypes, IndexInv, NEW d \in Documents, PublishDocument(d)
    PROVE  Aged
<1> DEFINE gen == documents[d].gen
<1>1. documents[d] \in RowSet /\ documents[d].active /\ documents[d].status = "processing"
  BY DEF SearchTypes, PublishDocument
<1>2. gen \in Gens /\ gen \in Nat /\ documents[d].claimed \in Names
  BY <1>1, SearchAssumption DEF RowSet, Gens
<1>3. PICK new : new = [doc |-> d, gen |-> gen, name |-> documents[d].claimed]
  OBVIOUS
<1>4. /\ documents' \in [Documents -> RowSet]
      /\ parsedKeys' = parsedKeys \cup {<<d, gen>>}
      /\ points' = points \cup {new} /\ new \in DocSet /\ UNCHANGED <<scoring, search>>
  BY <1>1, <1>2, <1>3 DEF PublishDocument, SearchTypes, RowSet, DocSet
<1>5. parsedKeys' \subseteq Documents \X Gens /\ points' \subseteq DocSet /\ IsFiniteSet(points')
  <2>1. IsFiniteSet(points \cup {new})
    BY FS_AddElement DEF SearchTypes
  <2> QED BY <1>2, <1>4, <2>1 DEF SearchTypes
<1>6. /\ \A x \in Documents \ {d} : documents'[x] = documents[x]
      /\ documents'[d].gen = gen /\ documents'[d].status = "ready" /\ documents'[d].active
  BY <1>1 DEF PublishDocument, SearchTypes, RowSet
<1>7. KeyOf(new) = <<d, gen>> /\ new.name = documents[d].claimed /\ new.doc = d /\ new.gen = gen
  BY <1>3 DEF KeyOf
<1>8. \A k : Known(k) => KeyOf(k) # KeyOf(new)
  <2>1. \A k : Known(k) /\ k.doc = d => k.gen # gen
    BY <1>1 DEF Known, Passed
  <2> QED BY <1>7, <2>1 DEF KeyOf
<1>9. \A k : Known(k) => Passed(k)' /\ (Gone(k) => Gone(k)')
  <2> SUFFICES ASSUME NEW k, Known(k)
               PROVE  Passed(k)' /\ (Gone(k) => Gone(k)')
    OBVIOUS
  <2>1. CASE k.doc = d
    <3>1. k.gen <= gen /\ k.gen # gen /\ k.gen \in Nat
      BY <1>1, <2>1, SearchAssumption DEF Known, Passed, Gens
    <3> QED BY <1>6, <2>1, <3>1 DEF Passed, Gone
  <2>2. CASE k.doc # d
    <3>1. documents'[k.doc] = documents[k.doc]
      BY <1>6, <2>2 DEF Known
    <3> QED BY <3>1 DEF Passed, Gone, Published, Known
  <2> QED BY <2>1, <2>2
<1>10. \A k : Known(k) => /\ (\A p \in points : SameName(k, p)) => \A p \in points' : SameName(k, p)
                          /\ Misnamed(k) => Misnamed(k)'
  BY <1>4, <1>8 DEF SameName, Misnamed
<1>11. \A p \in points : Known(p)
  BY DEF Known, SearchTypes, DocSet, IndexInv
<1>12. IndexInv'
  <2>1. ASSUME NEW x \in Documents, Published(x)'
        PROVE  /\ <<x, documents'[x].gen>> \in parsedKeys'
               /\ \E p \in points' : KeyOf(p) = <<x, documents'[x].gen>>
    <3>1. CASE x = d
      BY <1>4, <1>6, <1>7, <3>1
    <3>2. CASE x # d
      <4>1. documents'[x] = documents[x] /\ Published(x)
        BY <1>6, <2>1, <3>2 DEF Published
      <4> QED BY <1>4, <4>1 DEF IndexInv
    <3> QED BY <3>1, <3>2
  <2>2. \A p \in points' : Passed(p)'
    <3>1. Passed(new)'
      BY <1>2, <1>6, <1>7 DEF Passed
    <3> QED BY <1>4, <1>9, <1>11, <3>1
  <2>3. \A p, q \in points' : SameName(p, q)
    <3>1. SameName(new, new)
      BY DEF SameName
    <3>2. \A p \in points : SameName(p, new) /\ SameName(new, p)
      BY <1>8, <1>11 DEF SameName
    <3> QED BY <1>4, <3>1, <3>2 DEF IndexInv
  <2> QED BY <2>1, <2>2, <2>3 DEF IndexInv, SameName
<1>13. ASSUME NEW k, Known(k)
       PROVE  /\ Passed(k)'
              /\ (\A p \in points : SameName(k, p)) => \A p \in points' : SameName(k, p)
              /\ Gone(k) => Gone(k)'
              /\ Misnamed(k) => Gone(k)' \/ Misnamed(k)'
  <2>1. Passed(k)' /\ (Gone(k) => Gone(k)')
    BY <1>9, <1>13
  <2>2. (\A p \in points : SameName(k, p)) => \A p \in points' : SameName(k, p)
    BY <1>10, <1>13
  <2>3. Misnamed(k) => Misnamed(k)'
    BY <1>10, <1>13
  <2> QED BY <2>1, <2>2, <2>3
<1>14. documents' \in [Documents -> RowSet] /\ UNCHANGED <<scoring, search>>
  BY <1>4
<1> QED BY <1>5, <1>12, <1>13, <1>14 DEF Aged

\* Every change of the documents.
LEMMA DocumentsAge ==
    ASSUME SearchTypes, IndexInv, DocumentsChange
    PROVE  Aged
<1>1. PICK d \in Changing :
        \/ ClaimDocument(d) \/ PublishDocument(d) \/ DeleteOldParsed(d)
        \/ DeleteOldPoints(d) \/ ReindexDocument(d) \/ RenameDocument(d)
        \/ IsolateDocument(d) \/ DeletePoints(d) \/ DeleteParsed(d)
  BY DEF DocumentsChange
<1>2. d \in Documents
  BY SearchAssumption
<1> QED BY <1>1, <1>2, ClaimAges, PublishAges, ReindexAges, RenameAges, IsolateAges, DeletionsAge

-----------------------------------------------------------------------------
(* The search while the documents change *)

\* The fields of the call.
LEMMA CallFields ==
    ASSUME SearchTypes
    PROVE  /\ search.stage \in {"asked", "direct", "retrieve", "keyword", "validate", "answered"}
           /\ search.asked \in Seq(ScopeConfigs) /\ search.available \in Nat
           /\ search.groups \in Seq(GroupSet) /\ search.at \in Nat
           /\ search.read \subseteq Documents \X Gens /\ search.vectors \subseteq RecordSet
           /\ search.hits \in Seq(HitSet) /\ search.candidates \subseteq SourceSet
           /\ search.faulted \in BOOLEAN /\ search.answer \in AnswerSet
  BY DEF SearchTypes, CallSet

\* The groups, and the documents they hold.
LEMMA GroupsHold ==
    ASSUME SearchTypes, ScopeInv
    PROVE  /\ \A i \in DOMAIN search.groups :
                /\ search.groups[i].docs \subseteq DocSet /\ search.groups[i].config \in ScopeConfigs
                /\ \A s \in search.groups[i].docs : s \in Asked /\ s \in DocSet /\ Known(s)
           /\ \A s \in Asked : s \in DocSet /\ Known(s)
           /\ \A s, t \in Asked : s.doc = t.doc => s = t
           /\ TypedGroups(search.groups)
<1>1. \A i \in DOMAIN search.groups :
         search.groups[i].docs \subseteq DocSet /\ search.groups[i].config \in ScopeConfigs
  <2>1. \A i \in DOMAIN search.groups : search.groups[i] \in GroupSet
    BY CallFields
  <2> QED BY <2>1 DEF GroupSet
<1>2. \A s \in DocSet : s.doc \in Documents /\ s.gen \in Gens
  BY DEF DocSet
<1>3. \A i \in DOMAIN search.groups : \A s \in search.groups[i].docs : s \in Asked /\ s \in DocSet /\ Known(s)
  BY <1>1, <1>2 DEF Asked, ScopeInv, GroupInScope, Known
<1>4. \A s \in Asked : \E i \in DOMAIN search.groups : s \in search.groups[i].docs
  BY DEF Asked
<1>5. ASSUME NEW i \in DOMAIN search.groups, NEW j \in DOMAIN search.groups, i # j,
             NEW s \in search.groups[i].docs, NEW t \in search.groups[j].docs
      PROVE  s.doc # t.doc
  BY <1>5 DEF ScopeInv, GroupInScope, Allowed
<1>6. \A s, t \in Asked : s.doc = t.doc => s = t
  <2> SUFFICES ASSUME NEW s \in Asked, NEW t \in Asked, s.doc = t.doc
               PROVE  s = t
    OBVIOUS
  <2>1. PICK i \in DOMAIN search.groups : s \in search.groups[i].docs
    BY <1>4
  <2>2. PICK j \in DOMAIN search.groups : t \in search.groups[j].docs
    BY <1>4
  <2>3. i = j
    BY <1>5, <2>1, <2>2
  <2> QED BY <2>1, <2>2, <2>3 DEF ScopeInv, GroupInScope
<1>7. TypedGroups(search.groups)
  <2>1. search.groups \in Seq(GroupSet)
    BY CallFields
  <2>2. \A i \in DOMAIN search.groups :
           /\ IsFiniteSet(search.groups[i].docs)
           /\ \A s, t \in search.groups[i].docs : s.doc = t.doc => s = t
    BY DEF ScopeInv, GroupInScope
  <2>3. \A i, j \in DOMAIN search.groups : i # j => search.groups[i].docs \cap search.groups[j].docs = {}
    <3> SUFFICES ASSUME NEW i \in DOMAIN search.groups, NEW j \in DOMAIN search.groups, i # j,
                        NEW s \in search.groups[i].docs \cap search.groups[j].docs
                 PROVE  FALSE
      OBVIOUS
    <3> QED BY <1>5
  <2> QED BY <2>1, <2>2, <2>3 DEF TypedGroups
<1> QED BY <1>1, <1>3, <1>4, <1>6, <1>7

\* The records the first search of a hybrid one found.
LEMMA VectorsKnown ==
    ASSUME SearchTypes, VectorsInv
    PROVE  \A k \in search.vectors : k \in RecordSet /\ Known(k)
<1>1. \A k \in search.vectors : k \in RecordSet
  BY CallFields
<1>2. \A k \in RecordSet : k.doc \in Documents /\ k.gen \in Gens
  BY DEF RecordSet
<1> QED BY <1>1, <1>2 DEF VectorsInv, Known

\* There is nothing in no answer.
LEMMA NothingAnswered ==
    NoAnswer.sources = <<>> /\ DOMAIN NoAnswer.sources = {} /\ NoAnswer.code = "" /\ NoAnswer.status = "none"
      /\ NoAnswer.mode = "none" /\ NoAnswer \in AnswerSet
<1>1. NoAnswer.sources = <<>>
  BY DEF NoAnswer
<1>2. NoAnswer.code = "" /\ NoAnswer.status = "none" /\ NoAnswer.mode = "none"
  BY DEF NoAnswer
<1>3. DOMAIN NoAnswer.sources = {}
  BY <1>1
<1>4. <<>> \in Seq(SourceSet)
  OBVIOUS
<1>5. NoAnswer \in AnswerSet
  BY <1>4 DEF NoAnswer, AnswerSet, Codes
<1> QED BY <1>1, <1>2, <1>3, <1>5

\* The documents change until the call is answered.
LEMMA AgedKeeps ==
    ASSUME SearchInv, Aged, ~Answered
    PROVE  SearchInv'
<1> USE DEF SearchInv
<1>1. search' = search /\ scoring' = scoring /\ search.answer = NoAnswer
  BY DEF Aged, StageInv, Answered
<1>2. SearchTypes'
  BY DEF Aged, SearchTypes
<1>3. IndexInv'
  BY DEF Aged
<1>4. Asked' = Asked
  BY <1>1 DEF Asked
<1>5. \A k : Known(k) => Passed(k)' /\ (Gone(k) => Gone(k)') /\ (Misnamed(k) => Gone(k)' \/ Misnamed(k)')
  BY DEF Aged
<1>6. ScopeInv'
  <2>1. ASSUME NEW i \in DOMAIN search.groups
        PROVE  GroupInScope(search.groups[i])'
    <3>1. GroupInScope(search.groups[i]) /\ \A s \in search.groups[i].docs : Known(s)
      BY GroupsHold DEF ScopeInv
    <3>2. \A s \in search.groups[i].docs : Allowed(s, search.groups[i].config) /\ Passed(s)'
      BY <1>5, <3>1 DEF GroupInScope
    <3> QED BY <1>1, <3>1, <3>2 DEF GroupInScope, Allowed, Passed
  <2> QED BY <1>1, <2>1 DEF ScopeInv
<1>7. CandidatesInv'
  <2>1. search'.candidates = search.candidates
    BY <1>1
  <2> QED BY <1>4, <2>1 DEF CandidatesInv, KeyOf
<1>8. SourcesInScope' /\ ErrorsAreExplained'
  <2>1. DOMAIN search'.answer.sources = {} /\ search'.answer.code = ""
    BY <1>1, NothingAnswered
  <2> QED BY <2>1 DEF SourcesInScope, ErrorsAreExplained
<1>9. ASSUME search.stage \in {"keyword", "validate"}, NEW k, RecordInv(k)
      PROVE  RecordInv(k)'
  <2>1. PICK s \in Group.docs : KeyOf(s) = KeyOf(k) /\ (k.name = s.name \/ Gone(s) \/ Misnamed(s))
    BY <1>9 DEF RecordInv
  <2>2. Group' = Group
    BY <1>1 DEF Group
  <2>3. search.at \in DOMAIN search.groups
    BY <1>9 DEF StageInv
  <2>4. Known(s)
    BY <2>1, <2>3, GroupsHold DEF Group
  <2>5. k.name = s.name \/ Gone(s)' \/ Misnamed(s)'
    BY <1>5, <2>1, <2>4
  <2> QED BY <2>1, <2>2, <2>5 DEF RecordInv
<1>10. VectorsInv /\ search.stage = "keyword" => VectorsInv'
  <2> SUFFICES ASSUME VectorsInv, search.stage = "keyword"
               PROVE  VectorsInv'
    OBVIOUS
  <2>1. ASSUME NEW k \in search.vectors
        PROVE  Passed(k)' /\ RecordInv(k)' /\ \A p \in points' : SameName(k, p)
    <3>1. Known(k) /\ \A p \in points : SameName(k, p)
      BY VectorsKnown DEF VectorsInv
    <3>2. Passed(k)' /\ \A p \in points' : SameName(k, p)
      BY <3>1 DEF Aged
    <3>3. RecordInv(k)'
      BY <1>9 DEF VectorsInv
    <3> QED BY <3>2, <3>3
  <2>2. IsFiniteSet(search.vectors) /\ \A k, l \in search.vectors : SameName(k, l)
    BY DEF VectorsInv
  <2> QED BY <1>1, <2>1, <2>2 DEF VectorsInv, Passed, RecordInv, SameName
<1>11. StageInv'
  <2>1. search.stage = "validate" => \A i \in DOMAIN search.hits : RecordInv(search.hits[i].record)'
    <3> SUFFICES ASSUME search.stage = "validate", NEW i \in DOMAIN search.hits
                 PROVE  RecordInv(search.hits[i].record)'
      OBVIOUS
    <3>1. PICK k : k = search.hits[i].record
      OBVIOUS
    <3>2. RecordInv(k)'
      BY <1>9, <3>1 DEF StageInv
    <3> QED BY <1>1, <3>1, <3>2
  <2> QED BY <1>1, <1>10, <2>1 DEF StageInv, Answered
<1> QED BY <1>2, <1>3, <1>6, <1>7, <1>8, <1>11

-----------------------------------------------------------------------------
(* The end of the call *)

SameIndex == UNCHANGED <<documents, parsedKeys, points, scoring>>

\* What a step of the search leaves as it was.
LEMMA SameIndexKeeps ==
    ASSUME SearchInv, SameIndex
    PROVE  /\ IndexInv'
           /\ \A k : (Passed(k)' <=> Passed(k)) /\ (Gone(k)' <=> Gone(k)) /\ (Misnamed(k)' <=> Misnamed(k))
           /\ search'.groups = search.groups => Asked' = Asked
           /\ search'.groups = search.groups /\ search'.asked = search.asked => ScopeInv'
<1>1. documents' = documents /\ parsedKeys' = parsedKeys /\ points' = points
  BY DEF SameIndex
<1>2. \A k : (Passed(k)' <=> Passed(k)) /\ (Gone(k)' <=> Gone(k)) /\ (Misnamed(k)' <=> Misnamed(k))
  BY <1>1 DEF Passed, Gone, Misnamed, Published
<1>3. IndexInv'
  BY <1>1 DEF SearchInv, IndexInv, Passed, Published
<1>4. search'.groups = search.groups => Asked' = Asked
  BY DEF Asked
<1>5. ASSUME search'.groups = search.groups, search'.asked = search.asked
      PROVE  ScopeInv'
  <2>1. ASSUME NEW i \in DOMAIN search.groups
        PROVE  GroupInScope(search.groups[i])'
    BY <1>1, <1>5 DEF SearchInv, ScopeInv, GroupInScope, Allowed, Passed
  <2> QED BY <1>5, <2>1 DEF SearchInv, ScopeInv
<1> QED BY <1>2, <1>3, <1>4, <1>5

\* The call ends.
Ends(a, f) == search' = [search EXCEPT !.stage = "answered", !.faulted = f, !.answer = a]

\* The call ends with an answer.
LEMMA EndKeeps ==
    ASSUME SearchInv, SameIndex, NEW a \in AnswerSet, a.status # "none", NEW f \in BOOLEAN, Ends(a, f)
    PROVE  /\ SearchTypes' /\ IndexInv' /\ ScopeInv' /\ CandidatesInv' /\ StageInv'
           /\ Asked' = Asked
           /\ search'.answer = a /\ search'.faulted = f
           /\ search'.asked = search.asked /\ search'.available = search.available
           /\ search'.candidates = search.candidates /\ search'.groups = search.groups
<1>1. /\ search'.answer = a /\ search'.faulted = f /\ search'.stage = "answered"
      /\ search'.asked = search.asked /\ search'.available = search.available
      /\ search'.candidates = search.candidates /\ search'.groups = search.groups
  BY DEF Ends, SearchInv, SearchTypes, CallSet
<1>2. SearchTypes'
  <2>1. search' \in CallSet
    BY DEF Ends, SearchInv, SearchTypes, CallSet
  <2> QED BY <2>1 DEF SearchInv, SearchTypes, SameIndex
<1>3. IndexInv' /\ ScopeInv' /\ Asked' = Asked
  BY <1>1, SameIndexKeeps
<1>4. CandidatesInv'
  BY <1>1, <1>3 DEF SearchInv, CandidatesInv, KeyOf
<1>5. StageInv'
  BY <1>1 DEF StageInv, Answered
<1> QED BY <1>1, <1>2, <1>3, <1>4, <1>5

\* The reasons for an error.
Explained(code, faulty) ==
    /\ code \in {"knowledge_retriever_unavailable", "knowledge_content_unavailable"} =>
         faulty \/ ~Undisturbed
    /\ code = "knowledge_content_unavailable" => faulty \/ \E s \in Asked : Gone(s)
    /\ code = "knowledge_scope_unavailable" => InvalidScopes(search.asked)
    /\ code = "knowledge_unavailable" => faulty
    /\ code = "context_too_large" =>
         \/ EmptySize > search.available
         \/ \E c \in search.candidates : EmptySize + c.size > search.available

\* The call is refused, for a reason there is.
LEMMA RefusedKeeps ==
    ASSUME SearchInv, SameIndex, NEW code \in Codes, NEW faulty \in BOOLEAN,
           Refuse(code, faulty), Explained(code, faulty)
    PROVE  SearchInv'
<1> DEFINE a == [NoAnswer EXCEPT !.status = "error", !.code = code]
<1>1. a \in AnswerSet /\ a.status # "none" /\ a.code = code /\ a.sources = NoAnswer.sources
  BY NothingAnswered DEF AnswerSet
<1>2. Ends(a, faulty)
  BY DEF Refuse, Ends
<1> HIDE DEF a
<1>3. /\ SearchTypes' /\ IndexInv' /\ ScopeInv' /\ CandidatesInv' /\ StageInv'
      /\ Asked' = Asked
      /\ search'.answer = a /\ search'.faulted = faulty
      /\ search'.asked = search.asked /\ search'.available = search.available
      /\ search'.candidates = search.candidates
  BY <1>1, <1>2, EndKeeps
<1>4. SourcesInScope'
  <2>1. DOMAIN search'.answer.sources = {}
    BY <1>1, <1>3, NothingAnswered
  <2> QED BY <2>1 DEF SourcesInScope
<1>5. Undisturbed' <=> Undisturbed
  BY <1>3, SameIndexKeeps DEF Undisturbed
<1>6. (\E s \in Asked : Gone(s)) => \E s \in Asked' : Gone(s)'
  BY <1>3, SameIndexKeeps
<1>7. ErrorsAreExplained'
  <2>1. search'.answer.code = code
    BY <1>1, <1>3
  <2>2. InvalidScopes(search.asked) => InvalidScopes(search.asked)'
    BY <1>3 DEF InvalidScopes
  <2> QED BY <1>3, <1>5, <1>6, <2>1, <2>2 DEF Explained, ErrorsAreExplained
<1> QED BY <1>3, <1>4, <1>7 DEF SearchInv

\* The sources are of documents of the scope, and each of them is there once.
OfScope(sources) ==
    /\ \A i \in DOMAIN sources : \E s \in Asked : KeyOf(s) = KeyOf(sources[i])
    /\ \A i, j \in DOMAIN sources : i # j => sources[i] # sources[j]

\* The call is answered with sources of the scope.
LEMMA AnsweredKeeps ==
    ASSUME SearchInv, SameIndex, NEW mode \in {"direct", "rag"}, NEW sources \in Seq(SourceSet),
           Answer(mode, sources), OfScope(sources)
    PROVE  SearchInv'
<1> DEFINE a == [status |-> IF sources = <<>> THEN "no_match" ELSE "hit",
                 mode |-> mode, code |-> "", sources |-> sources]
<1>1. a \in AnswerSet /\ a.status # "none" /\ a.code = "" /\ a.sources = sources
  BY DEF AnswerSet, Codes
<1>2. Ends(a, search.faulted) /\ search.faulted \in BOOLEAN
  BY CallFields DEF Answer, Ends, SearchInv, SearchTypes, CallSet
<1> HIDE DEF a
<1>3. /\ SearchTypes' /\ IndexInv' /\ ScopeInv' /\ CandidatesInv' /\ StageInv'
      /\ Asked' = Asked /\ search'.answer = a /\ search'.asked = search.asked
  BY <1>1, <1>2, EndKeeps
<1>4. ErrorsAreExplained'
  <2>1. search'.answer.code = ""
    BY <1>1, <1>3
  <2> QED BY <2>1 DEF ErrorsAreExplained
<1>5. search'.answer.sources = sources
  BY <1>1, <1>3
<1>6. SourcesInScope'
  <2> SUFFICES ASSUME NEW i \in DOMAIN sources
               PROVE  /\ OwnerOf[CollectionOf[sources[i].doc]] \in {0, Caller}
                      /\ \E g \in DOMAIN search.asked :
                           /\ search.asked[g].collection = CollectionOf[sources[i].doc]
                           /\ search.asked[g].ids = Everything \/ sources[i].doc \in search.asked[g].ids
                      /\ \E s \in Asked : KeyOf(s) = KeyOf(sources[i])
                      /\ \A j \in DOMAIN sources :
                           /\ sources[j].doc = sources[i].doc => sources[j].gen = sources[i].gen
                           /\ j # i => sources[j] # sources[i]
    BY <1>3, <1>5 DEF SourcesInScope, KeyOf
  <2>1. PICK s \in Asked : KeyOf(s) = KeyOf(sources[i])
    BY DEF OfScope
  <2>2. s.doc = sources[i].doc /\ s.gen = sources[i].gen
    BY <2>1 DEF KeyOf
  <2>3. PICK k \in DOMAIN search.groups : s \in search.groups[k].docs
    BY DEF Asked
  <2>4. PICK g \in DOMAIN search.asked : search.groups[k].config = search.asked[g]
    BY DEF SearchInv, ScopeInv, GroupInScope
  <2>5. /\ OwnerOf[search.groups[k].config.collection] \in {0, Caller}
        /\ Allowed(s, search.groups[k].config)
    BY <2>3 DEF SearchInv, ScopeInv, GroupInScope
  <2>6. ASSUME NEW j \in DOMAIN sources, sources[j].doc = sources[i].doc
        PROVE  sources[j].gen = sources[i].gen
    <3>1. PICK t \in Asked : KeyOf(t) = KeyOf(sources[j])
      BY DEF OfScope
    <3>2. t.doc = sources[j].doc /\ t.gen = sources[j].gen
      BY <3>1 DEF KeyOf
    <3>3. t = s
      BY <2>2, <2>6, <3>2, GroupsHold DEF SearchInv
    <3> QED BY <2>2, <3>2, <3>3
  <2>7. /\ search.asked[g].collection = CollectionOf[sources[i].doc]
        /\ search.asked[g].ids = Everything \/ sources[i].doc \in search.asked[g].ids
        /\ OwnerOf[CollectionOf[sources[i].doc]] \in {0, Caller}
    BY <2>2, <2>4, <2>5 DEF Allowed
  <2> QED BY <2>1, <2>6, <2>7 DEF OfScope
<1> QED BY <1>3, <1>4, <1>6 DEF SearchInv

\* The retriever fails.
LEMMA FailureKeeps ==
    ASSUME SearchInv, RetrieverFails
    PROVE  SearchInv'
<1>1. SameIndex /\ Refuse("knowledge_retriever_unavailable", TRUE)
  BY DEF RetrieverFails, SameIndex
<1>2. Explained("knowledge_retriever_unavailable", TRUE) /\ "knowledge_retriever_unavailable" \in Codes
  BY DEF Explained, Codes
<1> QED BY <1>1, <1>2, RefusedKeeps

-----------------------------------------------------------------------------
(* Resolving the scope *)

\* The documents of a collection that are ready.
LEMMA ReadyIs ==
    ASSUME SearchTypes, NEW config
    PROVE  /\ ReadyDocuments(config) \subseteq DocSet /\ IsFiniteSet(ReadyDocuments(config))
           /\ \A s \in ReadyDocuments(config) : Allowed(s, config) /\ Passed(s) /\ ~Gone(s)
           /\ \A s, t \in ReadyDocuments(config) : s.doc = t.doc => s = t
<1> DEFINE T == {x \in Documents : /\ CollectionOf[x] = config.collection
                                   /\ (config.ids = Everything \/ x \in config.ids)
                                   /\ Published(x)}
           f == [d \in T |-> [doc |-> d, gen |-> documents[d].gen, name |-> documents[d].name]]
           R == ReadyDocuments(config)
<1>1. R = {[doc |-> d, gen |-> documents[d].gen, name |-> documents[d].name] : d \in T}
  BY DEF ReadyDocuments
<1>2. \A d \in Documents : documents[d].gen \in Gens /\ documents[d].name \in Names
  BY DEF SearchTypes, RowSet
<1>3. \A d \in T : f[d] \in DocSet /\ f[d].doc = d /\ f[d].gen = documents[d].gen
  BY <1>2 DEF DocSet
<1>4. R = {f[d] : d \in T}
  BY <1>1
<1>5. IsFiniteSet(T)
  BY FS_Subset, SearchAssumption
<1> HIDE DEF f, R
<1>6. IsFiniteSet(R)
  <2>1. f \in Surjection(T, R)
    BY <1>4 DEF Surjection, f
  <2> HIDE DEF T
  <2> QED BY <1>5, <2>1, FS_Surjection
<1>7. R \subseteq DocSet /\ \A s, t \in R : s.doc = t.doc => s = t
  BY <1>3, <1>4
<1>8. \A s \in R : Allowed(s, config) /\ Passed(s) /\ ~Gone(s)
  <2> SUFFICES ASSUME NEW s \in R
               PROVE  Allowed(s, config) /\ Passed(s) /\ ~Gone(s)
    OBVIOUS
  <2>1. PICK d \in T : s = f[d]
    BY <1>4
  <2>2. s.doc = d /\ s.gen = documents[d].gen /\ documents[d].gen \in Nat
    BY <1>2, <1>3, <2>1, GensAreNumbers
  <2> QED BY <2>2 DEF Allowed, Passed, Gone, Published
<1> QED BY <1>6, <1>7, <1>8 DEF R

\* The groups are those with a ready document, in the order they were asked for.
IsResolved(asked, groups) ==
    /\ groups \in Seq(GroupSet)
    /\ \A k \in DOMAIN groups : groups[k].docs # {} /\ groups[k].docs = ReadyDocuments(groups[k].config)
    /\ \A k \in DOMAIN groups : \E i \in DOMAIN asked : groups[k].config = asked[i]
    /\ \A k, l \in DOMAIN groups : k # l =>
         \E i, j \in DOMAIN asked : i # j /\ groups[k].config = asked[i] /\ groups[l].config = asked[j]
    /\ \A i \in DOMAIN asked : ReadyDocuments(asked[i]) # {} =>
         \E k \in DOMAIN groups : groups[k].config = asked[i]

\* What the scopes are resolved to.
LEMMA ResolvedIs ==
    ASSUME SearchTypes, NEW asked \in Seq(ScopeConfigs)
    PROVE  IsResolved(asked, Resolved(asked))
<1> DEFINE S == {i \in DOMAIN asked : ReadyDocuments(asked[i]) # {}}
           kept == Ordered(S, Lower)
           groups == Resolved(asked)
<1>1. S \in SUBSET Nat /\ IsFiniteSet(S) /\ S \subseteq DOMAIN asked
  <2>1. Len(asked) \in Int /\ 1 \in Int /\ DOMAIN asked = 1 .. Len(asked)
    OBVIOUS
  <2>2. IsFiniteSet(DOMAIN asked)
    BY <2>1, FS_Interval
  <2> QED BY <2>1, <2>2, FS_Subset
<1>2. groups = [k \in DOMAIN kept |-> [config |-> asked[kept[k]], docs |-> ReadyDocuments(asked[kept[k]])]]
  BY DEF Resolved
<1>3. \A i \in S : ReadyDocuments(asked[i]) # {} /\ i \in DOMAIN asked
  OBVIOUS
<1>4. \A i \in DOMAIN asked : ReadyDocuments(asked[i]) # {} => i \in S
  OBVIOUS
<1> HIDE DEF S
<1>5. kept \in SetToSeqs(S)
  BY <1>1, IndexesOrdered
<1> HIDE DEF kept, groups
<1>6. /\ Cardinality(S) \in Nat /\ DOMAIN kept = 1 .. Cardinality(S)
      /\ \A k \in DOMAIN kept : kept[k] \in S
      /\ \A k, l \in DOMAIN kept : k # l => kept[k] # kept[l]
  BY <1>1, <1>5, SequencesOf
<1>7. \A i \in S : \E k \in DOMAIN kept : kept[k] = i
  BY <1>1, <1>5, AllAreThere
<1>8. DOMAIN groups = DOMAIN kept
  BY <1>2
<1>9. ASSUME NEW k \in DOMAIN kept
      PROVE  /\ groups[k] \in GroupSet /\ groups[k].config = asked[kept[k]]
             /\ groups[k].docs = ReadyDocuments(asked[kept[k]]) /\ groups[k].docs # {}
  <2>1. groups[k] = [config |-> asked[kept[k]], docs |-> ReadyDocuments(asked[kept[k]])]
    BY <1>2
  <2>2. kept[k] \in DOMAIN asked /\ asked[kept[k]] \in ScopeConfigs
    BY <1>3, <1>6
  <2>3. ReadyDocuments(asked[kept[k]]) \in SUBSET DocSet
    BY ReadyIs
  <2>4. ReadyDocuments(asked[kept[k]]) # {}
    BY <1>3, <1>6
  <2> QED BY <2>1, <2>2, <2>3, <2>4 DEF GroupSet
<1>10. groups \in Seq(GroupSet)
  <2>1. groups \in [1 .. Cardinality(S) -> GroupSet]
    BY <1>2, <1>6, <1>8, <1>9
  <2> QED BY <1>6, <2>1
<1>11. \A k, l \in DOMAIN kept : k # l =>
         \E i, j \in DOMAIN asked : i # j /\ groups[k].config = asked[i] /\ groups[l].config = asked[j]
  BY <1>3, <1>6, <1>9
<1>12. \A k \in DOMAIN kept : \E i \in DOMAIN asked : groups[k].config = asked[i]
  BY <1>3, <1>6, <1>9
<1>13. \A i \in DOMAIN asked : ReadyDocuments(asked[i]) # {} =>
         \E k \in DOMAIN groups : groups[k].config = asked[i]
  BY <1>4, <1>7, <1>8, <1>9
<1>14. \A k \in DOMAIN groups : groups[k].docs # {} /\ groups[k].docs = ReadyDocuments(groups[k].config)
  BY <1>8, <1>9
<1>15. IsResolved(asked, groups)
  BY <1>8, <1>10, <1>11, <1>12, <1>13, <1>14 DEF IsResolved
<1> QED BY <1>15 DEF groups

\* The groups of a valid scope are of different collections the caller may read.
LEMMA ResolvedInScope ==
    ASSUME SearchInv, NEW groups, IsResolved(search.asked, groups), ~InvalidScopes(search.asked)
    PROVE  /\ \A k \in DOMAIN groups :
                /\ \E g \in DOMAIN search.asked : groups[k].config = search.asked[g]
                /\ OwnerOf[groups[k].config.collection] \in {0, Caller}
                /\ IsFiniteSet(groups[k].docs)
                /\ \A s \in groups[k].docs : Allowed(s, groups[k].config) /\ Passed(s) /\ ~Gone(s)
                /\ \A s, t \in groups[k].docs : s.doc = t.doc => s = t
           /\ \A k, l \in DOMAIN groups : k # l =>
                groups[k].config.collection # groups[l].config.collection
           /\ TypedGroups(groups)
<1>1. ASSUME NEW k \in DOMAIN groups
      PROVE  /\ \E g \in DOMAIN search.asked : groups[k].config = search.asked[g]
             /\ OwnerOf[groups[k].config.collection] \in {0, Caller}
             /\ IsFiniteSet(groups[k].docs)
             /\ \A s \in groups[k].docs : Allowed(s, groups[k].config) /\ Passed(s) /\ ~Gone(s)
             /\ \A s, t \in groups[k].docs : s.doc = t.doc => s = t
  <2>1. PICK g \in DOMAIN search.asked : groups[k].config = search.asked[g]
    BY DEF IsResolved
  <2>2. OwnerOf[groups[k].config.collection] \in {0, Caller}
    BY <2>1 DEF InvalidScopes
  <2>3. groups[k].docs = ReadyDocuments(groups[k].config)
    BY DEF IsResolved
  <2> QED BY <2>1, <2>2, <2>3, ReadyIs DEF SearchInv
<1>2. ASSUME NEW k \in DOMAIN groups, NEW l \in DOMAIN groups, k # l
      PROVE  groups[k].config.collection # groups[l].config.collection
  <2>1. PICK i \in DOMAIN search.asked, j \in DOMAIN search.asked :
           i # j /\ groups[k].config = search.asked[i] /\ groups[l].config = search.asked[j]
    BY <1>2 DEF IsResolved
  <2>2. search.asked[j].collection # search.asked[i].collection
    BY <2>1 DEF InvalidScopes
  <2> QED BY <2>1, <2>2
<1>3. TypedGroups(groups)
  <2>1. ASSUME NEW k \in DOMAIN groups, NEW l \in DOMAIN groups, k # l,
               NEW s \in groups[k].docs \cap groups[l].docs
        PROVE  FALSE
    <3>1. Allowed(s, groups[k].config) /\ Allowed(s, groups[l].config)
      BY <1>1
    <3> QED BY <1>2, <2>1, <3>1 DEF Allowed
  <2>2. groups \in Seq(GroupSet)
    BY DEF IsResolved
  <2> QED BY <1>1, <2>1, <2>2 DEF TypedGroups
<1> QED BY <1>1, <1>2, <1>3

\* Before the scope is resolved there are no groups and no candidates.
LEMMA ResolveKeeps ==
    ASSUME SearchInv, ResolveScope
    PROVE  SearchInv'
<1> DEFINE groups == Resolved(search.asked)
<1>1. SameIndex /\ search.stage = "asked"
  BY DEF ResolveScope, SameIndex
<1>2. IsResolved(search.asked, groups)
  BY ResolvedIs, CallFields DEF SearchInv
<1>3. \/ Refuse("knowledge_unavailable", TRUE)
      \/ InvalidScopes(search.asked) /\ Refuse("knowledge_scope_unavailable", FALSE)
      \/ EmptySize > search.available /\ Refuse("context_too_large", FALSE)
      \/ Answer("direct", <<>>)
      \/ /\ ~InvalidScopes(search.asked) /\ groups # <<>>
         /\ search' = [search EXCEPT !.stage = "direct", !.groups = groups, !.at = 1]
  BY DEF ResolveScope
<1> HIDE DEF groups
<1>4. CASE Refuse("knowledge_unavailable", TRUE)
  <2>1. Explained("knowledge_unavailable", TRUE) /\ "knowledge_unavailable" \in Codes
    BY DEF Explained, Codes
  <2> QED BY <1>1, <1>4, <2>1, RefusedKeeps
<1>5. CASE InvalidScopes(search.asked) /\ Refuse("knowledge_scope_unavailable", FALSE)
  <2>1. Explained("knowledge_scope_unavailable", FALSE) /\ "knowledge_scope_unavailable" \in Codes
    BY <1>5 DEF Explained, Codes
  <2> QED BY <1>1, <1>5, <2>1, RefusedKeeps
<1>6. CASE EmptySize > search.available /\ Refuse("context_too_large", FALSE)
  <2>1. Explained("context_too_large", FALSE) /\ "context_too_large" \in Codes
    BY <1>6 DEF Explained, Codes
  <2> QED BY <1>1, <1>6, <2>1, RefusedKeeps
<1>7. CASE Answer("direct", <<>>)
  <2>1. <<>> \in Seq(SourceSet) /\ DOMAIN <<>> = {}
    OBVIOUS
  <2>2. OfScope(<<>>)
    BY <2>1 DEF OfScope
  <2> QED BY <1>1, <1>7, <2>1, <2>2, AnsweredKeeps
<1>8. CASE /\ ~InvalidScopes(search.asked) /\ groups # <<>>
           /\ search' = [search EXCEPT !.stage = "direct", !.groups = groups, !.at = 1]
  <2>1. /\ search'.groups = groups /\ search'.at = 1 /\ search'.stage = "direct"
        /\ search'.asked = search.asked /\ search'.candidates = search.candidates
        /\ search'.answer = search.answer
    BY <1>8 DEF SearchInv, SearchTypes, CallSet
  <2>2. SearchTypes'
    <3>1. groups \in Seq(GroupSet)
      BY <1>2 DEF IsResolved
    <3>2. search' \in CallSet
      BY <1>8, <3>1 DEF SearchInv, SearchTypes, CallSet
    <3> QED BY <1>1, <3>2 DEF SearchInv, SearchTypes, SameIndex
  <2>3. /\ \A k \in DOMAIN groups :
             /\ \E g \in DOMAIN search.asked : groups[k].config = search.asked[g]
             /\ OwnerOf[groups[k].config.collection] \in {0, Caller}
             /\ IsFiniteSet(groups[k].docs)
             /\ \A s \in groups[k].docs : Allowed(s, groups[k].config) /\ Passed(s) /\ ~Gone(s)
             /\ \A s, t \in groups[k].docs : s.doc = t.doc => s = t
        /\ \A k, l \in DOMAIN groups : k # l =>
             groups[k].config.collection # groups[l].config.collection
        /\ TypedGroups(groups)
    BY <1>2, <1>8, ResolvedInScope
  <2>4. IndexInv' /\ \A k : Passed(k)' <=> Passed(k)
    BY <1>1, SameIndexKeeps
  <2>5. ScopeInv'
    <3>1. PICK h : h = groups
      OBVIOUS
    <3>2. search'.groups = h
      BY <2>1, <3>1
    <3>3. ASSUME NEW k \in DOMAIN h
          PROVE  GroupInScope(h[k])'
      BY <2>1, <2>3, <2>4, <3>1 DEF GroupInScope, Allowed, Passed
    <3>4. \A k, l \in DOMAIN h : k # l => h[k].config.collection # h[l].config.collection
      BY <2>3, <3>1
    <3> QED BY <3>2, <3>3, <3>4 DEF ScopeInv
  <2>6. search.groups = <<>> /\ search.candidates = {}
    BY <1>1 DEF SearchInv, StageInv
  <2>7. CandidatesInv'
    BY <2>1, <2>6, FS_EmptySet DEF CandidatesInv
  <2>8. StageInv'
    <3>1. DocsUpTo(groups, Len(groups), AllDocuments(groups))
      BY <1>8, <2>3, AllDocumentsIs
    <3>2. groups \in Seq(GroupSet) /\ 1 \in DOMAIN groups /\ 1 \in 1 .. Len(groups)
      BY <1>2, <1>8 DEF IsResolved
    <3>3. PICK s \in groups[1].docs : TRUE
      BY <1>2, <3>2 DEF IsResolved
    <3>4. PICK a \in DOMAIN AllDocuments(groups) : AllDocuments(groups)[a] = s
      BY <3>1, <3>2 DEF DocsUpTo
    <3>5. AllDocuments(groups) \in Seq(DocSet)
      BY <3>1 DEF DocsUpTo
    <3>6. 1 \in 1 .. Len(AllDocuments(groups))
      BY <3>4, <3>5
    <3>7. search.answer = NoAnswer
      BY <1>1 DEF SearchInv, StageInv, Answered
    <3> QED BY <2>1, <2>6, <3>6, <3>7 DEF StageInv, Answered
  <2>9. SourcesInScope' /\ ErrorsAreExplained'
    <3>1. search'.answer = NoAnswer
      BY <1>1, <2>1 DEF SearchInv, StageInv, Answered
    <3>2. DOMAIN search'.answer.sources = {} /\ search'.answer.code = ""
      BY <3>1, NothingAnswered
    <3> QED BY <3>2 DEF SourcesInScope, ErrorsAreExplained
  <2> QED BY <2>2, <2>4, <2>5, <2>7, <2>8, <2>9 DEF SearchInv
<1> QED BY <1>3, <1>4, <1>5, <1>6, <1>7, <1>8

-----------------------------------------------------------------------------
(* Reading whole texts *)

\* A document of the scope whose text is not there is gone.
LEMMA UnreadableIsGone ==
    ASSUME SearchInv, NEW s \in Asked, KeyOf(s) \notin parsedKeys
    PROVE  Gone(s)
<1>1. s.doc \in Documents
  BY GroupsHold DEF SearchInv, Known
<1> QED BY <1>1 DEF SearchInv, IndexInv, Gone, KeyOf

\* The whole documents, each of them once.
Wholes(all, n) == [i \in 1 .. n |-> WholeSource(all[i])]

\* The whole texts read so far are sources of the scope.
LEMMA WholesAre ==
    ASSUME SearchInv, NEW all, DocsUpTo(search.groups, Len(search.groups), all), NEW n \in 1 .. Len(all)
    PROVE  /\ Wholes(all, n) \in Seq(SourceSet) /\ DOMAIN Wholes(all, n) = 1 .. n
           /\ \A i \in 1 .. n : /\ all[i] \in Asked /\ all[i] \in DocSet
                                /\ Wholes(all, n)[i] = WholeSource(all[i])
                                /\ KeyOf(Wholes(all, n)[i]) = KeyOf(all[i])
           /\ OfScope(Wholes(all, n))
<1>1. all \in Seq(DocSet) /\ n \in Nat /\ \A i \in 1 .. n : i \in DOMAIN all
  BY DEF DocsUpTo
<1>2. ASSUME NEW i \in DOMAIN all
      PROVE  all[i] \in Asked /\ all[i] \in DocSet
  <2>1. PICK k \in 1 .. Len(search.groups) : all[i] \in search.groups[k].docs
    BY DEF DocsUpTo
  <2>2. k \in DOMAIN search.groups
    BY CallFields DEF SearchInv
  <2> QED BY <2>1, <2>2, GroupsHold DEF SearchInv
<1>3. \A s \in DocSet : WholeSource(s) \in SourceSet /\ KeyOf(WholeSource(s)) = KeyOf(s)
                        /\ WholeSource(s).doc = s.doc
  <2> SUFFICES ASSUME NEW s \in DocSet
               PROVE  WholeSource(s) \in SourceSet /\ KeyOf(WholeSource(s)) = KeyOf(s) /\ WholeSource(s).doc = s.doc
    OBVIOUS
  <2>1. s.doc \in Documents /\ s.gen \in Gens /\ TextSize[s.doc] \in Nat
    BY SearchAssumption DEF DocSet
  <2> QED BY <2>1 DEF WholeSource, SourceSet, KeyOf
<1>4. \A i \in 1 .. n : Wholes(all, n)[i] = WholeSource(all[i])
  BY DEF Wholes
<1>5. DOMAIN Wholes(all, n) = 1 .. n
  BY DEF Wholes
<1>6. Wholes(all, n) \in Seq(SourceSet)
  <2>1. Wholes(all, n) \in [1 .. n -> SourceSet]
    BY <1>1, <1>2, <1>3 DEF Wholes
  <2> QED BY <1>1, <2>1
<1>7. \A i \in 1 .. n : all[i] \in Asked /\ all[i] \in DocSet /\ KeyOf(Wholes(all, n)[i]) = KeyOf(all[i])
  BY <1>1, <1>2, <1>3, <1>4
<1>8. ASSUME NEW i \in 1 .. n, NEW j \in 1 .. n, i # j
      PROVE  Wholes(all, n)[i] # Wholes(all, n)[j]
  <2>1. all[i] # all[j]
    BY <1>1, <1>8 DEF DocsUpTo
  <2>2. all[i].doc # all[j].doc
    BY <1>7, <2>1, GroupsHold DEF SearchInv
  <2> QED BY <1>3, <1>4, <1>7, <2>2
<1>9. OfScope(Wholes(all, n))
  BY <1>5, <1>7, <1>8 DEF OfScope
<1> QED BY <1>4, <1>5, <1>6, <1>7, <1>9

\* A step of the search that goes on keeps what is not about its stage.
LEMMA StepKeeps ==
    ASSUME SearchInv, SameIndex, search' \in CallSet, ~Answered,
           search'.asked = search.asked, search'.groups = search.groups,
           search'.answer = search.answer
    PROVE  /\ SearchTypes' /\ IndexInv' /\ ScopeInv' /\ SourcesInScope' /\ ErrorsAreExplained'
           /\ Asked' = Asked /\ search'.answer = NoAnswer
<1>1. SearchTypes'
  BY DEF SearchInv, SearchTypes, SameIndex
<1>2. IndexInv' /\ ScopeInv' /\ Asked' = Asked
  BY SameIndexKeeps
<1>3. search'.answer = NoAnswer
  BY DEF SearchInv, StageInv
<1>4. DOMAIN search'.answer.sources = {} /\ search'.answer.code = ""
  BY <1>3, NothingAnswered
<1>5. SourcesInScope' /\ ErrorsAreExplained'
  BY <1>4 DEF SourcesInScope, ErrorsAreExplained
<1> QED BY <1>1, <1>2, <1>3, <1>5

\* What the direct path has to read.
LEMMA DirectReads ==
    ASSUME SearchInv, search.stage = "direct"
    PROVE  /\ DocsUpTo(search.groups, Len(search.groups), AllDocuments(search.groups))
           /\ search.at \in 1 .. Len(AllDocuments(search.groups))
           /\ 1 \in DOMAIN search.groups
           /\ AllDocuments(search.groups)[search.at] \in Asked
           /\ AllDocuments(search.groups)[search.at] \in DocSet
           /\ KeyOf(AllDocuments(search.groups)[search.at]) \in Documents \X Gens
<1> DEFINE all == AllDocuments(search.groups)
<1>1. search.at \in 1 .. Len(all)
  BY DEF SearchInv, StageInv
<1>2. search.groups # <<>>
  <2>1. SUFFICES ASSUME search.groups = <<>>
                 PROVE  FALSE
    OBVIOUS
  <2>2. all = <<>>
    BY <2>1 DEF AllDocuments, FlattenSeq
  <2> QED BY <1>1, <2>2
<1> HIDE DEF all
<1>3. TypedGroups(search.groups)
  BY GroupsHold DEF SearchInv
<1>4. DocsUpTo(search.groups, Len(search.groups), all)
  BY <1>2, <1>3, AllDocumentsIs DEF all
<1>5. all[search.at] \in Asked /\ all[search.at] \in DocSet
  <2>1. search.at \in 1 .. search.at
    BY <1>1, CallFields DEF SearchInv
  <2> QED BY <1>1, <1>4, <2>1, WholesAre
<1>6. 1 \in DOMAIN search.groups
  BY <1>2, <1>3 DEF TypedGroups
<1>7. KeyOf(all[search.at]) \in Documents \X Gens
  BY <1>5 DEF DocSet, KeyOf
<1> QED BY <1>1, <1>4, <1>5, <1>6, <1>7 DEF all

\* Reading the next text.
LEMMA ReadKeeps ==
    ASSUME SearchInv, ReadDirect
    PROVE  SearchInv'
<1> DEFINE all == AllDocuments(search.groups)
           s == all[search.at]
           read == Wholes(all, search.at)
<1>1. SameIndex /\ search.stage = "direct"
  BY DEF ReadDirect, SameIndex
<1>2. /\ DocsUpTo(search.groups, Len(search.groups), all) /\ search.at \in 1 .. Len(all)
      /\ 1 \in DOMAIN search.groups /\ s \in Asked /\ KeyOf(s) \in Documents \X Gens
  BY <1>1, DirectReads
<1>3. \/ Refuse("knowledge_content_unavailable", TRUE)
      \/ ~Readable(KeyOf(s)) /\ Refuse("knowledge_content_unavailable", search.faulted)
      \/ search' = [search EXCEPT !.stage = "retrieve", !.at = 1, !.read = @ \cup {KeyOf(s)}]
      \/ Answer("direct", read)
      \/ search.at # Len(all) /\ search' = [search EXCEPT !.at = @ + 1, !.read = @ \cup {KeyOf(s)}]
  BY DEF ReadDirect, Wholes
<1> HIDE DEF all, s, read
<1>4. "knowledge_content_unavailable" \in Codes /\ search.faulted \in BOOLEAN
  BY CallFields DEF Codes, SearchInv
<1>5. CASE Refuse("knowledge_content_unavailable", TRUE)
  <2>1. Explained("knowledge_content_unavailable", TRUE)
    BY DEF Explained
  <2> QED BY <1>1, <1>4, <1>5, <2>1, RefusedKeeps
<1>6. CASE ~Readable(KeyOf(s)) /\ Refuse("knowledge_content_unavailable", search.faulted)
  <2>1. Gone(s)
    BY <1>2, <1>6, UnreadableIsGone DEF Readable
  <2>2. Explained("knowledge_content_unavailable", search.faulted)
    BY <1>2, <2>1 DEF Explained, Undisturbed
  <2> QED BY <1>1, <1>4, <1>6, <2>2, RefusedKeeps
<1>7. CASE search' = [search EXCEPT !.stage = "retrieve", !.at = 1, !.read = @ \cup {KeyOf(s)}]
  <2>1. /\ search'.stage = "retrieve" /\ search'.at = 1 /\ search'.asked = search.asked
        /\ search'.groups = search.groups /\ search'.answer = search.answer
        /\ search'.candidates = search.candidates
    BY <1>7 DEF SearchInv, SearchTypes, CallSet
  <2>2. search' \in CallSet
    BY <1>2, <1>7 DEF SearchInv, SearchTypes, CallSet
  <2>3. /\ SearchTypes' /\ IndexInv' /\ ScopeInv' /\ SourcesInScope' /\ ErrorsAreExplained'
        /\ Asked' = Asked /\ search'.answer = NoAnswer
    BY <1>1, <2>1, <2>2, StepKeeps DEF Answered
  <2>4. CandidatesInv'
    BY <2>1, <2>3 DEF SearchInv, CandidatesInv, KeyOf
  <2>5. StageInv'
    BY <1>2, <2>1, <2>3 DEF StageInv, Answered
  <2> QED BY <2>3, <2>4, <2>5 DEF SearchInv
<1>8. CASE Answer("direct", read)
  <2>1. read \in Seq(SourceSet) /\ OfScope(read)
    BY <1>2, WholesAre DEF read
  <2> QED BY <1>1, <1>8, <2>1, AnsweredKeeps
<1>9. CASE search.at # Len(all) /\ search' = [search EXCEPT !.at = @ + 1, !.read = @ \cup {KeyOf(s)}]
  <2>1. /\ search'.stage = "direct" /\ search'.at = search.at + 1 /\ search'.asked = search.asked
        /\ search'.groups = search.groups /\ search'.answer = search.answer
        /\ search'.candidates = search.candidates
    BY <1>1, <1>9 DEF SearchInv, SearchTypes, CallSet
  <2>2. search' \in CallSet
    <3>1. search.at + 1 \in Nat
      BY CallFields DEF SearchInv
    <3> QED BY <1>2, <1>9, <3>1 DEF SearchInv, SearchTypes, CallSet
  <2>3. /\ SearchTypes' /\ IndexInv' /\ ScopeInv' /\ SourcesInScope' /\ ErrorsAreExplained'
        /\ Asked' = Asked /\ search'.answer = NoAnswer
    BY <1>1, <2>1, <2>2, StepKeeps DEF Answered
  <2>4. CandidatesInv'
    BY <2>1, <2>3 DEF SearchInv, CandidatesInv, KeyOf
  <2>5. search'.at \in 1 .. Len(all)
    <3>1. all \in Seq(DocSet)
      BY <1>2 DEF DocsUpTo
    <3> QED BY <1>2, <1>9, <2>1, <3>1
  <2>6. search.candidates = {}
    BY <1>1 DEF SearchInv, StageInv
  <2>7. AllDocuments(search'.groups) = all
    BY <2>1 DEF all
  <2>8. StageInv'
    BY <2>1, <2>3, <2>5, <2>6, <2>7 DEF StageInv, Answered
  <2> QED BY <2>3, <2>4, <2>8 DEF SearchInv
<1> QED BY <1>3, <1>5, <1>6, <1>7, <1>8, <1>9

-----------------------------------------------------------------------------
(* Scores *)

\* The lesser of two numbers, and the greatest of finitely many.
LEMMA LesserIs ==
    ASSUME NEW a \in Nat, NEW b \in Nat
    PROVE  Min({a, b}) \in {a, b} /\ Min({a, b}) <= a /\ Min({a, b}) <= b
<1>1. \E x \in {a, b} : \A y \in {a, b} : x <= y
  OBVIOUS
<1>2. Min({a, b}) \in {a, b} /\ \A y \in {a, b} : Min({a, b}) <= y
  BY <1>1, Zenon DEF Min
<1> QED BY <1>2

\* The greatest number of a finite set.
LEMMA GreatestIs ==
    ASSUME NEW S \in SUBSET Nat, IsFiniteSet(S), S # {}
    PROVE  Max(S) \in S /\ \A y \in S : Max(S) >= y
<1>1. PICK R : R = {p \in S \X S : p[1] > p[2]}
  OBVIOUS
<1>2. Orders(R, S) /\ \A x, y \in S : <<x, y>> \in R => x > y
  BY <1>1 DEF Orders
<1>3. PICK x : IsFirst(x, R, S)
  BY <1>2, FirstIsThere
<1>4. x \in S /\ \A y \in S : x >= y
  <2>1. x \in S /\ \A y \in S : y = x \/ x > y
    BY <1>2, <1>3 DEF IsFirst
  <2> QED BY <2>1
<1> QED BY <1>4, Zenon DEF Max

\* A quotient is a number.
LEMMA QuotientIs ==
    ASSUME NEW a \in Nat, NEW b \in Nat, b > 0
    PROVE  a \div b \in Nat
  OBVIOUS

\* The scores of a record are numbers.
LEMMA ScoresAre ==
    ASSUME SearchTypes, NEW k \in RecordSet
    PROVE  VectorScore(k) \in Nat /\ KeywordScore(k) \in Nat
<1>1. scoring[<<k.doc, k.index>>] \in [vector : Nat, keyword : Nat]
  BY DEF SearchTypes, RecordSet
<1> QED BY <1>1 DEF VectorScore, KeywordScore

\* The best score of a batch is at least 1, which is 4 quarters.
LEMMA BatchScored ==
    ASSUME SearchTypes, NEW batch \in SUBSET RecordSet, IsFiniteSet(batch), NEW k \in RecordSet
    PROVE  Normalized(k, batch) \in Nat
<1> DEFINE f == [x \in batch |-> KeywordScore(x)]
           T == {KeywordScore(x) : x \in batch}
           best == Max(T \cup {4})
<1>1. T \in SUBSET Nat
  BY ScoresAre
<1>2. IsFiniteSet(T)
  <2>1. f \in Surjection(batch, T)
    BY DEF Surjection
  <2> QED BY <2>1, FS_Surjection
<1>3. IsFiniteSet(T \cup {4}) /\ T \cup {4} \in SUBSET Nat /\ 4 \in T \cup {4}
  <2> HIDE DEF T
  <2>1. IsFiniteSet(T \cup {4})
    BY <1>2, FS_AddElement
  <2> QED BY <1>1, <2>1
<1>4. best \in Nat /\ best > 0
  <2> HIDE DEF T
  <2>1. Max(T \cup {4}) \in T \cup {4} /\ Max(T \cup {4}) >= 4
    BY <1>3, GreatestIs
  <2> QED BY <1>3, <2>1
<1>5. KeywordScore(k) * 4 \in Nat
  BY ScoresAre
<1>6. Normalized(k, batch) = (KeywordScore(k) * 4) \div best
  BY DEF Normalized
<1> HIDE DEF best
<1> QED BY <1>4, <1>5, <1>6, QuotientIs

\* A fused score is a number.
LEMMA FusedScored ==
    ASSUME NEW config \in ScopeConfigs, NEW a \in Nat, NEW b \in Nat
    PROVE  Fused(config, a, b) \in Nat
<1> DEFINE v == config.vectorWeight
           w == config.keywordWeight
<1>1. v \in Nat /\ w \in Nat /\ v + w > 0
  BY DEF ScopeConfigs
<1> HIDE DEF v, w
<1>2. v * a + w * b \in Nat /\ v + w \in Nat
  BY <1>1
<1>3. Fused(config, a, b) = (v * a + w * b) \div (v + w)
  BY DEF Fused, v, w
<1> QED BY <1>1, <1>2, <1>3, QuotientIs

-----------------------------------------------------------------------------
(* What a retriever returns *)

Retrieving == search.stage \in {"retrieve", "keyword", "validate"}

\* The group that is searched is one of the scope.
LEMMA GroupIs ==
    ASSUME SearchInv, Retrieving
    PROVE  /\ search.at \in DOMAIN search.groups /\ Group = search.groups[search.at]
           /\ Group.docs \subseteq DocSet /\ Group.config \in ScopeConfigs
           /\ \A s \in Group.docs : s \in Asked /\ s \in DocSet /\ Known(s)
           /\ \A s, t \in Group.docs : s.doc = t.doc => s = t
           /\ ~Answered
<1>1. search.at \in DOMAIN search.groups /\ Group = search.groups[search.at] /\ ~Answered
  BY DEF SearchInv, StageInv, Group, Retrieving, Answered
<1> QED BY <1>1, GroupsHold DEF SearchInv

\* What is known of the records a search works with.
GoodRecords(K) ==
    /\ K \subseteq RecordSet /\ IsFiniteSet(K)
    /\ \A k \in K : Passed(k) /\ RecordInv(k)
    /\ \A k, l \in K : SameName(k, l)
    /\ \A k \in K, p \in points : SameName(k, p)

\* The records a retriever can find are those of the group's documents.
LEMMA RecordsAre ==
    ASSUME SearchInv, Retrieving
    PROVE  GoodRecords(Records)
<1> DEFINE P == {q \in points : InFilter(q)}
           f == [z \in P \X ChunkIndexes |->
                   [doc |-> z[1].doc, gen |-> z[1].gen, name |-> z[1].name, index |-> z[2]]]
           R == Records
<1>1. P \subseteq points /\ IsFiniteSet(P) /\ points \subseteq DocSet
  BY FS_Subset DEF SearchInv, SearchTypes
<1>2. \A k \in R : \E p \in P : \E i \in ChunkIndexes :
         k = [doc |-> p.doc, gen |-> p.gen, name |-> p.name, index |-> i]
  BY DEF Records
<1>3. \A p \in P : \A i \in ChunkIndexes : [doc |-> p.doc, gen |-> p.gen, name |-> p.name, index |-> i] \in R
  BY DEF Records
<1>4. \A p \in P : InFilter(p)
  OBVIOUS
<1> HIDE DEF P, R
<1>5. IsFiniteSet(R)
  <2>1. IsFiniteSet(P \X ChunkIndexes)
    BY <1>1, FS_Product, SearchAssumption
  <2>2. f \in Surjection(P \X ChunkIndexes, R)
    <3>1. \A z \in P \X ChunkIndexes : f[z] \in R
      BY <1>3
    <3>2. ASSUME NEW k \in R
          PROVE  \E z \in P \X ChunkIndexes : f[z] = k
      <4>1. PICK p \in P, i \in ChunkIndexes :
               k = [doc |-> p.doc, gen |-> p.gen, name |-> p.name, index |-> i]
        BY <1>2
      <4>2. <<p, i>> \in P \X ChunkIndexes /\ f[<<p, i>>] = k
        BY <4>1
      <4> QED BY <4>2
    <3> QED BY <3>1, <3>2 DEF Surjection
  <2> HIDE DEF f
  <2> QED BY <2>1, <2>2, FS_Surjection
<1>6. ASSUME NEW k \in R
      PROVE  \E p \in P : /\ k.doc = p.doc /\ k.gen = p.gen /\ k.name = p.name
                          /\ KeyOf(k) = KeyOf(p) /\ k \in RecordSet
  <2>1. PICK p \in P, i \in ChunkIndexes :
           k = [doc |-> p.doc, gen |-> p.gen, name |-> p.name, index |-> i]
    BY <1>2
  <2>2. p \in DocSet
    BY <1>1
  <2>3. k \in RecordSet
    BY <2>1, <2>2 DEF DocSet, RecordSet
  <2> QED BY <2>1, <2>3 DEF KeyOf
<1>7. ASSUME NEW k \in R
      PROVE  Passed(k) /\ RecordInv(k)
  <2>1. PICK p \in P : k.doc = p.doc /\ k.gen = p.gen /\ k.name = p.name /\ KeyOf(k) = KeyOf(p)
    BY <1>6
  <2>2. p \in points /\ Passed(p)
    BY <1>1 DEF SearchInv, IndexInv
  <2>3. PICK s \in Group.docs : KeyOf(s) = KeyOf(p)
    BY <1>4 DEF InFilter
  <2>4. k.name = s.name \/ Misnamed(s)
    BY <2>1, <2>2, <2>3 DEF Misnamed
  <2> QED BY <2>1, <2>2, <2>3, <2>4 DEF Passed, RecordInv
<1>8. \A p, q \in P : SameName(p, q)
  BY <1>1 DEF SearchInv, IndexInv
<1>9. \A k, l \in R : SameName(k, l)
  BY <1>6, <1>8 DEF SameName
<1>10. \A p \in P, q \in points : SameName(p, q)
  BY <1>1 DEF SearchInv, IndexInv
<1>11. \A k \in R, q \in points : SameName(k, q)
  BY <1>6, <1>10 DEF SameName
<1>12. R \subseteq RecordSet
  BY <1>6
<1>13. GoodRecords(R)
  BY <1>5, <1>7, <1>9, <1>11, <1>12 DEF GoodRecords
<1> QED BY <1>13 DEF R

\* So are some of them.
LEMMA SomeRecords ==
    ASSUME NEW K, GoodRecords(K), NEW L \in SUBSET K
    PROVE  GoodRecords(L)
  BY FS_Subset DEF GoodRecords

\* The vectors of the first search, and the records of the second.
LEMMA BothRecords ==
    ASSUME SearchInv, search.stage = "keyword", NEW K \in SUBSET Records
    PROVE  GoodRecords(search.vectors \cup K)
<1> DEFINE V == search.vectors
<1>1. VectorsInv /\ Retrieving
  BY DEF SearchInv, StageInv, Retrieving
<1>2. GoodRecords(V)
  BY <1>1, CallFields DEF VectorsInv, GoodRecords, SearchInv
<1>3. GoodRecords(K)
  BY <1>1, RecordsAre, SomeRecords
<1>4. \A k \in K : \E p \in points : KeyOf(p) = KeyOf(k) /\ p.name = k.name
  <2> SUFFICES ASSUME NEW k \in Records
               PROVE  \E p \in points : KeyOf(p) = KeyOf(k) /\ p.name = k.name
    OBVIOUS
  <2>1. PICK p \in points, i \in ChunkIndexes :
           k = [doc |-> p.doc, gen |-> p.gen, name |-> p.name, index |-> i]
    BY DEF Records
  <2> QED BY <2>1 DEF KeyOf
<1> HIDE DEF V
<1>5. \A k \in K, v \in V : SameName(k, v) /\ SameName(v, k)
  BY <1>2, <1>4 DEF GoodRecords, SameName
<1>6. IsFiniteSet(V \cup K)
  BY <1>2, <1>3, FS_Union DEF GoodRecords
<1>7. GoodRecords(V \cup K)
  BY <1>2, <1>3, <1>5, <1>6 DEF GoodRecords
<1> QED BY <1>7 DEF V

\* Hits of such records can be ranked.
LEMMA HitsAre ==
    ASSUME SearchInv, Retrieving, NEW K, GoodRecords(K), NEW score,
           \A k \in K : score[k] \in Nat,
           NEW S, S = {[record |-> k, score |-> score[k]] : k \in K}
    PROVE  /\ S \in SUBSET HitSet /\ IsFiniteSet(S)
           /\ Ranked(S) \in SetToSeqs(S)
           /\ \A i, j \in DOMAIN Ranked(S) : i < j => BetterHit(Ranked(S)[i], Ranked(S)[j])
<1> DEFINE f == [k \in K |-> [record |-> k, score |-> score[k]]]
<1>1. IsFiniteSet(S)
  <2>1. f \in Surjection(K, S)
    BY DEF Surjection
  <2> QED BY <2>1, FS_Surjection DEF GoodRecords
<1>2. S \in SUBSET HitSet
  BY DEF GoodRecords, HitSet
<1>3. \A h \in S : h.record \in K
  OBVIOUS
<1>4. ASSUME NEW k \in K, NEW l \in K, k.doc = l.doc, k.index = l.index
      PROVE  k = l
  <2>1. PICK s \in Group.docs : KeyOf(s) = KeyOf(k)
    BY DEF GoodRecords, RecordInv
  <2>2. PICK t \in Group.docs : KeyOf(t) = KeyOf(l)
    BY DEF GoodRecords, RecordInv
  <2>3. s = t
    BY <1>4, <2>1, <2>2, GroupIs DEF KeyOf
  <2>4. KeyOf(k) = KeyOf(l) /\ k.gen = l.gen
    BY <2>1, <2>2, <2>3 DEF KeyOf
  <2>5. k.name = l.name
    BY <2>4 DEF GoodRecords, SameName
  <2>6. k \in RecordSet /\ l \in RecordSet
    BY DEF GoodRecords
  <2> QED BY <1>4, <2>4, <2>5, <2>6 DEF RecordSet
<1>5. \A h, k \in S : h.record.doc = k.record.doc /\ h.record.index = k.record.index => h.record = k.record
  BY <1>3, <1>4
<1> QED BY <1>1, <1>2, <1>5, HitsOrdered

-----------------------------------------------------------------------------
(* The searches of a retriever *)

\* The elements of a sequence of hits are among the hits.
LEMMA HitsOf ==
    ASSUME NEW S \in SUBSET HitSet, IsFiniteSet(S), NEW r \in SetToSeqs(S)
    PROVE  /\ r \in Seq(HitSet) /\ Len(r) = Cardinality(S) /\ Cardinality(S) \in Nat
           /\ \A i \in DOMAIN r : r[i] \in S
<1>1. r \in Seq(S) /\ Len(r) = Cardinality(S) /\ Cardinality(S) \in Nat /\ \A i \in DOMAIN r : r[i] \in S
  BY SequencesOf
<1> QED BY <1>1

\* The first elements of a sequence.
LEMMA FirstOnes ==
    ASSUME NEW T, NEW s \in Seq(T), NEW n \in Nat, n <= Len(s)
    PROVE  /\ SubSeq(s, 1, n) \in Seq(T) /\ Len(SubSeq(s, 1, n)) = n
           /\ DOMAIN SubSeq(s, 1, n) = 1 .. n
           /\ \A i \in 1 .. n : i \in DOMAIN s /\ SubSeq(s, 1, n)[i] = s[i]
  OBVIOUS

\* Hits of records of the group are handed over to be validated.
LEMMA FoundKeeps ==
    ASSUME SearchInv, SameIndex, Retrieving, NEW hits \in Seq(HitSet),
           \A i \in DOMAIN hits : RecordInv(hits[i].record), Found(hits)
    PROVE  SearchInv'
<1>1. /\ search'.stage = "validate" /\ search'.hits = hits /\ search'.at = search.at
      /\ search'.asked = search.asked /\ search'.groups = search.groups
      /\ search'.answer = search.answer /\ search'.candidates = search.candidates
  BY DEF Found, SearchInv, SearchTypes, CallSet
<1>2. search' \in CallSet
  BY DEF Found, SearchInv, SearchTypes, CallSet
<1>3. /\ SearchTypes' /\ IndexInv' /\ ScopeInv' /\ SourcesInScope' /\ ErrorsAreExplained'
      /\ Asked' = Asked /\ search'.answer = NoAnswer
  BY <1>1, <1>2, StepKeeps, GroupIs
<1>4. CandidatesInv'
  BY <1>1, <1>3 DEF SearchInv, CandidatesInv, KeyOf
<1>5. Group' = Group
  BY <1>1 DEF Group
<1>6. \A k : RecordInv(k) => RecordInv(k)'
  BY <1>5, SameIndexKeeps DEF RecordInv
<1>7. \A i \in DOMAIN hits : \A k : k = hits[i].record => RecordInv(k)'
  BY <1>6
<1>8. (\A i \in DOMAIN search.hits : RecordInv(search.hits[i].record))'
  BY <1>1, <1>7 DEF RecordInv
<1>9. StageInv'
  BY <1>1, <1>3, <1>8, GroupIs DEF StageInv, Answered
<1> QED BY <1>3, <1>4, <1>9 DEF SearchInv

\* Records of the group, ranked, are such hits.
LEMMA RankedFound ==
    ASSUME SearchInv, SameIndex, Retrieving, NEW K, GoodRecords(K), NEW score,
           \A k \in K : score[k] \in Nat,
           NEW S, S = {[record |-> k, score |-> score[k]] : k \in K},
           NEW n \in Nat, n <= Cardinality(S),
           Found(Ranked(S)) \/ Found(SubSeq(Ranked(S), 1, n))
    PROVE  SearchInv'
<1>1. S \in SUBSET HitSet /\ IsFiniteSet(S) /\ Ranked(S) \in SetToSeqs(S)
  BY HitsAre
<1>2. /\ Ranked(S) \in Seq(HitSet) /\ Len(Ranked(S)) = Cardinality(S)
      /\ \A i \in DOMAIN Ranked(S) : Ranked(S)[i] \in S
  BY <1>1, HitsOf
<1>3. \A h \in S : RecordInv(h.record)
  BY DEF GoodRecords
<1>4. CASE Found(Ranked(S))
  BY <1>2, <1>3, <1>4, FoundKeeps
<1>5. CASE Found(SubSeq(Ranked(S), 1, n))
  <2> DEFINE t == SubSeq(Ranked(S), 1, n)
  <2>1. t \in Seq(HitSet) /\ DOMAIN t = 1 .. n /\ \A i \in 1 .. n : t[i] \in S
    BY <1>2, FirstOnes
  <2> HIDE DEF t
  <2>2. \A i \in DOMAIN t : RecordInv(t[i].record)
    BY <1>3, <2>1
  <2>3. Found(t)
    BY <1>5 DEF t
  <2> QED BY <2>1, <2>2, <2>3, FoundKeeps
<1> QED BY <1>4, <1>5

\* The search by vectors.
LEMMA VectorKeeps ==
    ASSUME SearchInv, VectorSearch
    PROVE  SearchInv'
<1>1. SameIndex /\ Retrieving /\ search.stage = "retrieve"
  BY DEF VectorSearch, SameIndex, Retrieving
<1>2. PICK best \in Best(Records, Group.config.topK, [k \in Records |-> VectorScore(k)]) :
         \/ search' = [search EXCEPT !.stage = "keyword", !.vectors = best]
         \/ Found(Ranked({[record |-> k, score |-> VectorScore(k)] : k \in best}))
  BY DEF VectorSearch
<1>3. best \in SUBSET Records
  BY DEF Best
<1>4. GoodRecords(best)
  BY <1>1, <1>3, RecordsAre, SomeRecords
<1>5. CASE search' = [search EXCEPT !.stage = "keyword", !.vectors = best]
  <2>1. /\ search'.stage = "keyword" /\ search'.vectors = best /\ search'.at = search.at
        /\ search'.asked = search.asked /\ search'.groups = search.groups
        /\ search'.answer = search.answer /\ search'.candidates = search.candidates
    BY <1>5 DEF SearchInv, SearchTypes, CallSet
  <2>2. search' \in CallSet
    <3>1. best \in SUBSET RecordSet
      BY <1>4 DEF GoodRecords
    <3> QED BY <1>5, <3>1 DEF SearchInv, SearchTypes, CallSet
  <2>3. /\ SearchTypes' /\ IndexInv' /\ ScopeInv' /\ SourcesInScope' /\ ErrorsAreExplained'
        /\ Asked' = Asked /\ search'.answer = NoAnswer
    BY <1>1, <2>1, <2>2, StepKeeps, GroupIs
  <2>4. CandidatesInv'
    BY <2>1, <2>3 DEF SearchInv, CandidatesInv, KeyOf
  <2>5. Group' = Group
    BY <2>1 DEF Group
  <2>6. \A k : RecordInv(k) => RecordInv(k)' /\ (Passed(k) => Passed(k)')
    BY <1>1, <2>5, SameIndexKeeps DEF RecordInv
  <2>7. VectorsInv'
    <3>1. points' = points
      BY <1>1 DEF SameIndex
    <3>2. \A k \in best : Passed(k)' /\ RecordInv(k)'
      BY <1>1, <1>4, <2>6, SameIndexKeeps DEF GoodRecords
    <3> QED BY <1>4, <2>1, <3>1, <3>2 DEF VectorsInv, GoodRecords
  <2>8. StageInv'
    BY <1>1, <2>1, <2>3, <2>7, GroupIs DEF StageInv, Answered
  <2> QED BY <2>3, <2>4, <2>8 DEF SearchInv
<1>6. CASE Found(Ranked({[record |-> k, score |-> VectorScore(k)] : k \in best}))
  <2>1. PICK score : score = [k \in best |-> VectorScore(k)]
    OBVIOUS
  <2>2. \A k \in best : score[k] = VectorScore(k) /\ score[k] \in Nat
    BY <1>4, <2>1, ScoresAre DEF GoodRecords, SearchInv
  <2>3. PICK S : S = {[record |-> k, score |-> score[k]] : k \in best}
    OBVIOUS
  <2>4. S = {[record |-> k, score |-> VectorScore(k)] : k \in best}
    BY <2>2, <2>3
  <2>5. IsFiniteSet(S)
    BY <1>1, <1>4, <2>2, <2>3, HitsAre
  <2>6. 0 \in Nat /\ 0 <= Cardinality(S)
    BY <2>5, FS_CardinalityType
  <2>7. Found(Ranked(S))
    BY <1>6, <2>4
  <2> QED BY <1>1, <1>4, <2>2, <2>3, <2>6, <2>7, RankedFound
<1> QED BY <1>2, <1>5, <1>6

\* The search by keywords.
LEMMA KeywordKeeps ==
    ASSUME SearchInv, KeywordSearch
    PROVE  SearchInv'
<1>1. /\ SameIndex /\ Retrieving
      /\ \/ search.stage = "retrieve" /\ Group.config.mode = "keyword"
         \/ search.stage = "keyword"
  BY DEF KeywordSearch, SameIndex, Retrieving
<1>2. PICK best \in Best({k \in Records : KeywordScore(k) > 0}, Group.config.topK,
                         [k \in Records |-> KeywordScore(k)]) :
         \/ /\ Group.config.mode = "hybrid"
            /\ Found(TopOf(Merged(Group.config, search.vectors, best), Group.config.topK))
         \/ Found(Ranked({[record |-> k, score |-> Normalized(k, best)] : k \in best}))
  BY DEF KeywordSearch
<1>3. best \in SUBSET Records
  BY DEF Best
<1>4. GoodRecords(best) /\ Group.config \in ScopeConfigs
  BY <1>1, <1>3, RecordsAre, SomeRecords, GroupIs
<1>5. \A k \in RecordSet : Normalized(k, best) \in Nat /\ VectorScore(k) \in Nat
  BY <1>4, BatchScored, ScoresAre DEF GoodRecords, SearchInv
<1>6. CASE Found(Ranked({[record |-> k, score |-> Normalized(k, best)] : k \in best}))
  <2>1. PICK score : score = [k \in best |-> Normalized(k, best)]
    OBVIOUS
  <2>2. \A k \in best : score[k] = Normalized(k, best) /\ score[k] \in Nat
    BY <1>4, <1>5, <2>1 DEF GoodRecords
  <2>3. PICK S : S = {[record |-> k, score |-> score[k]] : k \in best}
    OBVIOUS
  <2>4. S = {[record |-> k, score |-> Normalized(k, best)] : k \in best}
    BY <2>2, <2>3
  <2>5. IsFiniteSet(S)
    BY <1>1, <1>4, <2>2, <2>3, HitsAre
  <2>6. 0 \in Nat /\ 0 <= Cardinality(S)
    BY <2>5, FS_CardinalityType
  <2>7. Found(Ranked(S))
    BY <1>6, <2>4
  <2> QED BY <1>1, <1>4, <2>2, <2>3, <2>6, <2>7, RankedFound
<1>7. CASE /\ Group.config.mode = "hybrid"
           /\ Found(TopOf(Merged(Group.config, search.vectors, best), Group.config.topK))
  <2>1. search.stage = "keyword"
    BY <1>1, <1>7
  <2> DEFINE K == search.vectors \cup best
             value(k) == Fused(Group.config, IF k \in search.vectors THEN VectorScore(k) ELSE 0,
                               IF k \in best THEN Normalized(k, best) ELSE 0)
  <2>2. GoodRecords(K)
    BY <1>3, <2>1, BothRecords
  <2>3. \A k \in K : value(k) \in Nat
    <3> SUFFICES ASSUME NEW k \in K
                 PROVE  value(k) \in Nat
      OBVIOUS
    <3>1. k \in RecordSet
      BY <2>2 DEF GoodRecords
    <3>2. /\ (IF k \in search.vectors THEN VectorScore(k) ELSE 0) \in Nat
          /\ (IF k \in best THEN Normalized(k, best) ELSE 0) \in Nat
      BY <1>5, <3>1
    <3> QED BY <1>4, <3>2, FusedScored
  <2>4. Merged(Group.config, search.vectors, best) = {[record |-> k, score |-> value(k)] : k \in K}
    BY DEF Merged
  <2> HIDE DEF K, value
  <2>5. PICK score : score = [k \in K |-> value(k)]
    OBVIOUS
  <2>6. \A k \in K : score[k] = value(k) /\ score[k] \in Nat
    BY <2>3, <2>5
  <2>7. PICK S : S = {[record |-> k, score |-> score[k]] : k \in K}
    OBVIOUS
  <2>8. S = Merged(Group.config, search.vectors, best)
    BY <2>4, <2>6, <2>7
  <2>9. IsFiniteSet(S)
    BY <1>1, <2>2, <2>6, <2>7, HitsAre
  <2>10. Cardinality(S) \in Nat /\ Group.config.topK \in Nat
    BY <1>4, <2>9, FS_CardinalityType DEF ScopeConfigs
  <2>11. PICK n : n = Min({Group.config.topK, Cardinality(S)})
    OBVIOUS
  <2>12. n \in Nat /\ n <= Cardinality(S)
    BY <2>10, <2>11, LesserIs
  <2>13. Found(SubSeq(Ranked(S), 1, n))
    BY <1>7, <2>8, <2>11 DEF TopOf
  <2> QED BY <1>1, <2>2, <2>6, <2>7, <2>12, <2>13, RankedFound
<1> QED BY <1>2, <1>6, <1>7

-----------------------------------------------------------------------------
(* Validating hits and choosing sources *)

\* A hit of a record of the group becomes a candidate.
LEMMA CandidateIs ==
    ASSUME SearchInv, Retrieving, NEW h \in HitSet, RecordInv(h.record)
    PROVE  /\ Candidate(h) \in SourceSet /\ Candidate(h).size = ChunkSize[Candidate(h).doc]
           /\ \E s \in Asked : KeyOf(s) = KeyOf(Candidate(h))
           /\ KeyOf(h.record) \in Documents \X Gens
<1>1. h.record \in RecordSet /\ h.score \in Nat
  BY DEF HitSet
<1>2. h.record.doc \in Documents /\ h.record.gen \in Gens /\ h.record.index \in Nat
      /\ ChunkSize[h.record.doc] \in Nat
  BY <1>1, SearchAssumption DEF RecordSet
<1>3. /\ Candidate(h) \in SourceSet /\ Candidate(h).doc = h.record.doc /\ Candidate(h).gen = h.record.gen
      /\ Candidate(h).size = ChunkSize[h.record.doc]
  BY <1>1, <1>2 DEF Candidate, SourceSet
<1>4. PICK s \in Group.docs : KeyOf(s) = KeyOf(h.record)
  BY DEF RecordInv
<1>5. s \in Asked
  BY <1>4, GroupIs
<1> QED BY <1>2, <1>3, <1>4, <1>5 DEF KeyOf

\* Hits are taken one by one: a hit that is refused is of a document that was
\* republished, deleted or renamed, or it is a fault.
LEMMA ValidateKeeps ==
    ASSUME SearchInv, ValidateHit
    PROVE  SearchInv'
<1>1. SameIndex /\ Retrieving /\ search.stage = "validate" /\ search.hits # <<>>
  BY DEF ValidateHit, SameIndex, Retrieving
<1>2. PICK h : h = Head(search.hits)
  OBVIOUS
<1>3. PICK key : key = KeyOf(h.record)
  OBVIOUS
<1>4. PICK known \in BOOLEAN : known <=> \E s \in Group.docs : KeyOf(s) = key /\ s.name = h.record.name
  OBVIOUS
<1>5. PICK kept : kept = IF h.score >= Group.config.threshold THEN {Candidate(h)} ELSE {}
  OBVIOUS
<1>6. \/ ~known /\ Refuse("knowledge_retriever_unavailable", search.faulted)
      \/ search' = [search EXCEPT !.hits = Tail(@), !.read = @ \cup {key}, !.candidates = @ \cup kept]
      \/ Refuse("knowledge_content_unavailable", TRUE)
      \/ /\ known /\ ~Readable(key)
         /\ Refuse("knowledge_content_unavailable", search.faulted)
  BY <1>2, <1>3, <1>4, <1>5 DEF ValidateHit
<1>7. /\ search.hits \in Seq(HitSet) /\ 1 \in DOMAIN search.hits /\ h = search.hits[1] /\ h \in HitSet
      /\ search.faulted \in BOOLEAN
  BY <1>1, <1>2, CallFields DEF SearchInv
<1>8. \A i \in DOMAIN search.hits : RecordInv(search.hits[i].record)
  BY <1>1 DEF SearchInv, StageInv
<1>9. RecordInv(h.record)
  BY <1>7, <1>8
<1>10. /\ Candidate(h) \in SourceSet /\ Candidate(h).size = ChunkSize[Candidate(h).doc]
       /\ \E s \in Asked : KeyOf(s) = KeyOf(Candidate(h))
       /\ key \in Documents \X Gens
  BY <1>1, <1>3, <1>7, <1>9, CandidateIs
<1>11. CASE ~known /\ Refuse("knowledge_retriever_unavailable", search.faulted)
  <2>1. PICK s \in Group.docs : KeyOf(s) = key /\ (h.record.name = s.name \/ Gone(s) \/ Misnamed(s))
    BY <1>3, <1>9 DEF RecordInv
  <2>2. Gone(s) \/ Misnamed(s)
    BY <1>4, <1>11, <2>1
  <2>3. s \in Asked
    BY <1>1, <2>1, GroupIs
  <2>4. Explained("knowledge_retriever_unavailable", search.faulted)
    BY <2>2, <2>3 DEF Explained, Undisturbed
  <2> QED BY <1>1, <1>7, <1>11, <2>4, RefusedKeeps DEF Codes
<1>12. CASE Refuse("knowledge_content_unavailable", TRUE)
  BY <1>1, <1>12, RefusedKeeps DEF Explained, Codes
<1>13. CASE known /\ ~Readable(key) /\ Refuse("knowledge_content_unavailable", search.faulted)
  <2>1. PICK s \in Group.docs : KeyOf(s) = key
    BY <1>4, <1>13
  <2>2. s \in Asked /\ Gone(s)
    BY <1>1, <1>13, <2>1, GroupIs, UnreadableIsGone DEF Readable
  <2>3. Explained("knowledge_content_unavailable", search.faulted)
    BY <2>2 DEF Explained, Undisturbed
  <2> QED BY <1>1, <1>7, <1>13, <2>3, RefusedKeeps DEF Codes
<1>14. CASE search' = [search EXCEPT !.hits = Tail(@), !.read = @ \cup {key}, !.candidates = @ \cup kept]
  <2>1. /\ search'.hits = Tail(search.hits) /\ search'.candidates = search.candidates \cup kept
        /\ search'.stage = "validate" /\ search'.at = search.at /\ search'.asked = search.asked
        /\ search'.groups = search.groups /\ search'.answer = search.answer
    BY <1>1, <1>14 DEF SearchInv, SearchTypes, CallSet
  <2>2. kept = {} \/ kept = {Candidate(h)}
    BY <1>5
  <2>3. search' \in CallSet
    <3>1. /\ Tail(search.hits) \in Seq(HitSet)
          /\ search.candidates \cup kept \in SUBSET SourceSet
          /\ search.read \cup {key} \in SUBSET (Documents \X Gens)
      BY <1>1, <1>7, <1>10, <2>2, CallFields DEF SearchInv
    <3> QED BY <1>14, <3>1 DEF SearchInv, SearchTypes, CallSet
  <2>4. /\ SearchTypes' /\ IndexInv' /\ ScopeInv' /\ SourcesInScope' /\ ErrorsAreExplained'
        /\ Asked' = Asked /\ search'.answer = NoAnswer
    BY <1>1, <2>1, <2>3, StepKeeps, GroupIs
  <2>5. CandidatesInv'
    <3>1. IsFiniteSet(search.candidates \cup kept)
      BY <2>2, FS_AddElement DEF SearchInv, CandidatesInv
    <3>2. \A c \in search.candidates \cup kept :
             c.size = ChunkSize[c.doc] /\ \E s \in Asked : KeyOf(s) = KeyOf(c)
      BY <1>10, <2>2 DEF SearchInv, CandidatesInv
    <3> QED BY <2>1, <2>4, <3>1, <3>2 DEF CandidatesInv, KeyOf
  <2>6. Group' = Group
    BY <2>1 DEF Group
  <2>7. \A k : RecordInv(k) => RecordInv(k)'
    BY <1>1, <2>6, SameIndexKeeps DEF RecordInv
  <2>8. ASSUME NEW i \in DOMAIN Tail(search.hits)
        PROVE  \A k : k = Tail(search.hits)[i].record => RecordInv(k)'
    <3>1. i + 1 \in DOMAIN search.hits /\ Tail(search.hits)[i] = search.hits[i + 1]
      BY <1>1, <1>7
    <3> QED BY <1>8, <2>7, <3>1
  <2>9. (\A i \in DOMAIN search.hits : RecordInv(search.hits[i].record))'
    BY <2>1, <2>8 DEF RecordInv
  <2>10. StageInv'
    BY <1>1, <2>1, <2>4, <2>9, GroupIs DEF StageInv, Answered
  <2> QED BY <2>4, <2>5, <2>10 DEF SearchInv
<1> QED BY <1>6, <1>11, <1>12, <1>13, <1>14

\* The candidates in their order, and the first of them, of which the sources
\* are chosen.
RankedSources == Ordered(search.candidates, BetterSource)
CappedSources == SubSeq(RankedSources, 1, Min({MaxResults, Len(RankedSources)}))

\* Ranking the candidates loses none and repeats none.
LEMMA CandidatesRanked ==
    ASSUME SearchInv
    PROVE  /\ RankedSources \in Seq(SourceSet)
           /\ \A i \in DOMAIN RankedSources : RankedSources[i] \in search.candidates
           /\ \A i, j \in DOMAIN RankedSources : i # j => RankedSources[i] # RankedSources[j]
           /\ \A c \in search.candidates : \E i \in DOMAIN RankedSources : RankedSources[i] = c
           /\ \A i, j \in DOMAIN RankedSources :
                i < j => BetterSource(RankedSources[i], RankedSources[j])
<1>1. search.candidates \in SUBSET SourceSet /\ IsFiniteSet(search.candidates)
  BY CallFields DEF SearchInv, CandidatesInv
<1>2. ASSUME NEW c \in search.candidates, NEW d \in search.candidates, c.doc = d.doc
      PROVE  c.gen = d.gen /\ c.size = d.size
  <2>1. PICK s \in Asked : KeyOf(s) = KeyOf(c)
    BY DEF SearchInv, CandidatesInv
  <2>2. PICK t \in Asked : KeyOf(t) = KeyOf(d)
    BY DEF SearchInv, CandidatesInv
  <2>3. s = t
    BY <1>2, <2>1, <2>2, GroupsHold DEF SearchInv, KeyOf
  <2>4. c.gen = d.gen
    BY <2>1, <2>2, <2>3 DEF KeyOf
  <2> QED BY <1>2, <2>4 DEF SearchInv, CandidatesInv
<1>3. /\ RankedSources \in SetToSeqs(search.candidates)
      /\ \A i, j \in DOMAIN RankedSources : i < j => BetterSource(RankedSources[i], RankedSources[j])
  BY <1>1, <1>2, SourcesOrdered DEF RankedSources
<1>4. /\ RankedSources \in Seq(search.candidates)
      /\ \A i \in DOMAIN RankedSources : RankedSources[i] \in search.candidates
      /\ \A i, j \in DOMAIN RankedSources : i # j => RankedSources[i] # RankedSources[j]
  BY <1>1, <1>3, SequencesOf
<1>5. \A c \in search.candidates : \E i \in DOMAIN RankedSources : RankedSources[i] = c
  BY <1>1, <1>3, AllAreThere
<1> QED BY <1>1, <1>3, <1>4, <1>5

\* The cap takes the first of the ranked candidates.
LEMMA CandidatesCapped ==
    ASSUME SearchInv
    PROVE  /\ CappedSources \in Seq(SourceSet)
           /\ \A i \in DOMAIN CappedSources : CappedSources[i] \in search.candidates
           /\ \A i, j \in DOMAIN CappedSources : i # j => CappedSources[i] # CappedSources[j]
           /\ \A i \in DOMAIN CappedSources :
                i \in DOMAIN RankedSources /\ CappedSources[i] = RankedSources[i]
           /\ RankedSources # <<>> => CappedSources # <<>>
<1>1. /\ RankedSources \in Seq(SourceSet)
      /\ \A i \in DOMAIN RankedSources : RankedSources[i] \in search.candidates
      /\ \A i, j \in DOMAIN RankedSources : i # j => RankedSources[i] # RankedSources[j]
  BY CandidatesRanked
<1>2. PICK n : n = Min({MaxResults, Len(RankedSources)})
  OBVIOUS
<1>3. n \in Nat /\ n <= Len(RankedSources) /\ (RankedSources # <<>> => n # 0)
  <2>1. MaxResults \in Nat /\ MaxResults # 0 /\ Len(RankedSources) \in Nat
    BY <1>1, SearchAssumption
  <2>2. n \in {MaxResults, Len(RankedSources)} /\ n <= Len(RankedSources)
    BY <1>2, <2>1, LesserIs
  <2> QED BY <1>1, <2>1, <2>2
<1>4. CappedSources = SubSeq(RankedSources, 1, n)
  BY <1>2 DEF CappedSources
<1>5. /\ CappedSources \in Seq(SourceSet) /\ Len(CappedSources) = n /\ DOMAIN CappedSources = 1 .. n
      /\ \A i \in 1 .. n : i \in DOMAIN RankedSources /\ CappedSources[i] = RankedSources[i]
  BY <1>1, <1>3, <1>4, FirstOnes
<1>6. RankedSources # <<>> => CappedSources # <<>>
  <2>1. n # 0 => 1 \in DOMAIN CappedSources
    BY <1>3, <1>5
  <2> QED BY <1>3, <2>1
<1> QED BY <1>1, <1>5, <1>6

\* The next collection is searched, or the sources are chosen.
LEMMA NextGroupKeeps ==
    ASSUME SearchInv, NextGroup
    PROVE  SearchInv'
<1>1. SameIndex /\ Retrieving /\ search.stage = "validate" /\ search.faulted \in BOOLEAN
  BY CallFields DEF NextGroup, SameIndex, Retrieving, SearchInv
<1>2. \/ search.at < Len(search.groups)
         /\ search' = [search EXCEPT !.stage = "retrieve", !.at = @ + 1]
      \/ CappedSources # <<>> /\ Fitted(CappedSources) = <<>>
         /\ Refuse("context_too_large", search.faulted)
      \/ Answer("rag", Fitted(CappedSources))
  BY DEF NextGroup, CappedSources, RankedSources
<1>3. /\ CappedSources \in Seq(SourceSet)
      /\ \A i \in DOMAIN CappedSources : CappedSources[i] \in search.candidates
      /\ \A i, j \in DOMAIN CappedSources : i # j => CappedSources[i] # CappedSources[j]
  BY CandidatesCapped
<1>4. Chosen(CappedSources, Len(CappedSources), Fitted(CappedSources))
  BY <1>3, FittedIs
<1>5. CASE /\ search.at < Len(search.groups)
           /\ search' = [search EXCEPT !.stage = "retrieve", !.at = @ + 1]
  <2>1. /\ search'.stage = "retrieve" /\ search'.at = search.at + 1 /\ search'.asked = search.asked
        /\ search'.groups = search.groups /\ search'.answer = search.answer
        /\ search'.candidates = search.candidates
    BY <1>5 DEF SearchInv, SearchTypes, CallSet
  <2>2. search.at + 1 \in Nat /\ search.at + 1 \in DOMAIN search.groups
    BY <1>1, <1>5, GroupIs, CallFields DEF SearchInv
  <2>3. search' \in CallSet
    BY <1>5, <2>2 DEF SearchInv, SearchTypes, CallSet
  <2>4. /\ SearchTypes' /\ IndexInv' /\ ScopeInv' /\ SourcesInScope' /\ ErrorsAreExplained'
        /\ Asked' = Asked /\ search'.answer = NoAnswer
    BY <1>1, <2>1, <2>3, StepKeeps, GroupIs
  <2>5. CandidatesInv'
    BY <2>1, <2>4 DEF SearchInv, CandidatesInv, KeyOf
  <2>6. StageInv'
    BY <2>1, <2>2, <2>4 DEF StageInv, Answered
  <2> QED BY <2>4, <2>5, <2>6 DEF SearchInv
<1>6. CASE /\ CappedSources # <<>> /\ Fitted(CappedSources) = <<>>
           /\ Refuse("context_too_large", search.faulted)
  <2>1. 1 \in DOMAIN CappedSources /\ 1 \in 1 .. Len(CappedSources)
    BY <1>3, <1>6
  <2>2. PICK c : c = CappedSources[1]
    OBVIOUS
  <2>3. c \in search.candidates /\ c \in SourceSet
    BY <1>3, <2>1, <2>2
  <2>4. ~Fits(<<c>>)
    BY <1>4, <1>6, <2>1, <2>2 DEF Chosen
  <2>5. ~(EmptySize + c.size <= search.available)
    BY <2>3, <2>4, FitsAlone
  <2>6. EmptySize + c.size > search.available
    <3>1. EmptySize \in Nat /\ c.size \in Nat /\ search.available \in Nat
      BY <2>3, SearchAssumption, CallFields DEF SourceSet, SearchInv
    <3> QED BY <2>5, <3>1
  <2>7. Explained("context_too_large", search.faulted) /\ "context_too_large" \in Codes
    BY <2>3, <2>6 DEF Explained, Codes
  <2> QED BY <1>1, <1>6, <2>7, RefusedKeeps
<1>7. CASE Answer("rag", Fitted(CappedSources))
  <2>1. PICK t : t = Fitted(CappedSources)
    OBVIOUS
  <2>2. /\ t \in Seq(SourceSet)
        /\ \A i \in DOMAIN t : \E j \in DOMAIN CappedSources : t[i] = CappedSources[j]
        /\ \A i, j \in DOMAIN t : i # j => t[i] # t[j]
    BY <1>3, <1>4, <2>1 DEF Chosen
  <2>3. OfScope(t)
    BY <1>3, <2>2 DEF OfScope, SearchInv, CandidatesInv
  <2> QED BY <1>1, <1>7, <2>1, <2>2, <2>3, AnsweredKeeps
<1> QED BY <1>2, <1>5, <1>6, <1>7

-----------------------------------------------------------------------------
(* The invariant holds *)

\* The search begins with what is published.
LEMMA SearchBegins ==
    ASSUME SearchInit
    PROVE  SearchInv
<1>1. PICK q \in Questions :
        search = [stage |-> "asked", asked |-> q.groups, available |-> q.available,
                  groups |-> <<>>, at |-> 0, read |-> {}, vectors |-> {}, hits |-> <<>>,
                  candidates |-> {}, faulted |-> FALSE, answer |-> NoAnswer]
  BY DEF SearchInit
<1>2. PICK S : S = {x \in Documents : Published(x)}
  OBVIOUS
<1>3. PICK f : f = [d \in S |-> [doc |-> d, gen |-> 1, name |-> 0]]
  OBVIOUS
<1>4. /\ parsedKeys = {<<d, 1>> : d \in S} /\ points = {[doc |-> d, gen |-> 1, name |-> 0] : d \in S}
  BY <1>2 DEF SearchInit
<1>5. 1 \in Gens /\ 0 \in Names /\ 1 \in Nat
  BY SearchAssumption DEF Gens, Names
<1>6. documents \in [Documents -> RowSet] /\ \A d \in Documents : documents[d].gen = 1
  <2>1. ASSUME NEW r \in FirstRows
        PROVE  r \in RowSet /\ r.gen = 1
    <3>1. PICK s \in {"queued", "ready"} :
             r = [active |-> TRUE, status |-> s, gen |-> 1, name |-> 0, claimed |-> 0]
      BY DEF FirstRows
    <3>2. /\ r = [active |-> TRUE, status |-> s, gen |-> 1, name |-> 0, claimed |-> 0]
          /\ s \in {"queued", "processing", "ready"} /\ TRUE \in BOOLEAN
      BY <3>1
    <3> QED BY <1>5, <3>2 DEF RowSet
  <2>2. documents \in [Documents -> FirstRows]
    BY DEF SearchInit
  <2> QED BY <2>1, <2>2
<1>7. SearchTypes
  <2>1. IsFiniteSet(S)
    BY <1>2, SearchAssumption, FS_Subset
  <2>2. f \in Surjection(S, points)
    BY <1>3, <1>4 DEF Surjection
  <2>3. IsFiniteSet(points)
    BY <2>1, <2>2, FS_Surjection
  <2>4. parsedKeys \subseteq Documents \X Gens /\ points \subseteq DocSet
    BY <1>2, <1>4, <1>5 DEF DocSet
  <2>5. q.groups \in Seq(ScopeConfigs) /\ q.available \in Nat
    BY SearchAssumption
  <2>6. <<>> \in Seq(GroupSet) /\ <<>> \in Seq(HitSet)
    OBVIOUS
  <2>7. search \in CallSet
    BY <1>1, <2>5, <2>6, NothingAnswered DEF CallSet
  <2>8. scoring \in [Documents \X ChunkIndexes -> [vector : Nat, keyword : Nat]]
    BY SearchAssumption DEF SearchInit
  <2> QED BY <1>6, <2>3, <2>4, <2>7, <2>8 DEF SearchTypes
<1>8. IndexInv
  <2>1. \A p \in points : p.doc \in S /\ p.gen = 1 /\ p.name = 0
    BY <1>4
  <2>2. ASSUME NEW d \in Documents, Published(d)
        PROVE  /\ <<d, documents[d].gen>> \in parsedKeys
               /\ \E p \in points : KeyOf(p) = <<d, documents[d].gen>>
    <3>1. d \in S /\ documents[d].gen = 1
      BY <1>2, <1>6, <2>2
    <3>2. [doc |-> d, gen |-> 1, name |-> 0] \in points
      BY <1>4, <3>1
    <3> QED BY <1>4, <3>1, <3>2 DEF KeyOf
  <2>3. \A p \in points : Passed(p)
    <3>1. \A d \in S : documents[d].status = "ready" /\ documents[d].gen = 1
      BY <1>2, <1>6 DEF Published
    <3> QED BY <2>1, <3>1 DEF Passed
  <2>4. \A p, q2 \in points : SameName(p, q2)
    BY <2>1 DEF SameName
  <2> QED BY <2>2, <2>3, <2>4 DEF IndexInv
<1>9. search.groups = <<>> /\ DOMAIN search.groups = {} /\ search.candidates = {}
      /\ search.stage = "asked" /\ search.answer = NoAnswer
  BY <1>1
<1>10. ScopeInv
  BY <1>9 DEF ScopeInv
<1>11. CandidatesInv
  BY <1>9, FS_EmptySet DEF CandidatesInv
<1>12. StageInv
  BY <1>9 DEF StageInv, Answered
<1>13. SourcesInScope /\ ErrorsAreExplained
  <2>1. DOMAIN search.answer.sources = {} /\ search.answer.code = ""
    BY <1>9, NothingAnswered
  <2> QED BY <2>1 DEF SourcesInScope, ErrorsAreExplained
<1> QED BY <1>7, <1>8, <1>10, <1>11, <1>12, <1>13 DEF SearchInv

\* A step that changes nothing.
LEMMA NothingChanges ==
    ASSUME SearchInv, UNCHANGED searchVars
    PROVE  SearchInv'
<1>1. /\ documents' = documents /\ parsedKeys' = parsedKeys /\ points' = points
      /\ scoring' = scoring /\ search' = search
  BY DEF searchVars
<1>2. SameIndex
  BY <1>1 DEF SameIndex
<1>3. IndexInv' /\ ScopeInv' /\ Asked' = Asked
      /\ \A k : (Gone(k)' <=> Gone(k)) /\ (Misnamed(k)' <=> Misnamed(k)) /\ (Passed(k)' <=> Passed(k))
  BY <1>1, <1>2, SameIndexKeeps
<1>4. SearchTypes'
  BY <1>1 DEF SearchInv, SearchTypes
<1>5. CandidatesInv'
  BY <1>1, <1>3 DEF SearchInv, CandidatesInv, KeyOf
<1>6. Group' = Group
  BY <1>1 DEF Group
<1>7. \A k : RecordInv(k) => RecordInv(k)'
  BY <1>3, <1>6 DEF RecordInv
<1>8. VectorsInv => VectorsInv'
  BY <1>1, <1>3, <1>7 DEF VectorsInv, SameName
<1>9. StageInv'
  <2>1. \A i : \A k : k = search.hits[i].record /\ RecordInv(k) => RecordInv(k)'
    BY <1>7
  <2>2. search.stage = "validate" => (\A i \in DOMAIN search.hits : RecordInv(search.hits[i].record))'
    BY <1>1, <2>1 DEF SearchInv, StageInv, RecordInv
  <2> QED BY <1>1, <1>8, <2>2 DEF SearchInv, StageInv, Answered
<1>10. SourcesInScope'
  BY <1>1, <1>3 DEF SearchInv, SourcesInScope, KeyOf
<1>11. ErrorsAreExplained'
  <2>1. Undisturbed' <=> Undisturbed
    BY <1>3 DEF Undisturbed
  <2>2. (\E s \in Asked : Gone(s)) => \E s \in Asked' : Gone(s)'
    BY <1>3
  <2>3. InvalidScopes(search.asked) => InvalidScopes(search.asked)'
    BY <1>1 DEF InvalidScopes
  <2> QED BY <1>1, <2>1, <2>2, <2>3 DEF SearchInv, ErrorsAreExplained
<1> QED BY <1>3, <1>4, <1>5, <1>9, <1>10, <1>11 DEF SearchInv

\* Every step keeps the invariant, whether the search goes on or the documents
\* change meanwhile.
LEMMA SearchGoesOn ==
    ASSUME SearchInv, [SearchNext]_searchVars
    PROVE  SearchInv'
<1>1. CASE DocumentsChange
  <2>1. Aged
    BY <1>1, DocumentsAge DEF SearchInv
  <2>2. ~Answered
    BY <1>1 DEF DocumentsChange, Answered
  <2> QED BY <2>1, <2>2, AgedKeeps
<1>2. CASE SearchStep
  BY <1>2, ResolveKeeps, ReadKeeps, FailureKeeps, VectorKeeps, KeywordKeeps, ValidateKeeps,
     NextGroupKeeps DEF SearchStep
<1>3. CASE UNCHANGED searchVars
  BY <1>3, NothingChanges
<1> QED BY <1>1, <1>2, <1>3 DEF SearchNext


-----------------------------------------------------------------------------
(* The best source *)

\* Every chunk of a collection that matches has a candidate that scores as well
\* and is itself a chunk of the collection that matches: this is so for the
\* collections searched before, and for the one being validated with the hits
\* that are still to be validated.
Stands(c, m, group) ==
    /\ m.score \in Nat /\ c.score >= m.score
    /\ \E n \in Relevant(group) : n.doc = c.doc /\ n.score = c.score
Covered(group, sources) == \A m \in Relevant(group) : \E c \in sources : Stands(c, m, group)
Pending == {Candidate(search.hits[i]) : i \in DOMAIN search.hits}
CoverInv ==
    /\ search.stage = "keyword" => Group.config.mode = "hybrid"
    /\ search.stage \in {"retrieve", "keyword", "validate"} /\ Undisturbed =>
         /\ \A j \in DOMAIN search.groups :
              j < search.at => Covered(search.groups[j], search.candidates)
         /\ search.stage = "validate" => Covered(Group, search.candidates \cup Pending)
    /\ BestSourceFirst

\* Quotients keep an order.
LEMMA QuotientsOrdered ==
    ASSUME NEW a \in Nat, NEW b \in Nat, NEW c \in Nat, c > 0, a >= b
    PROVE  a \div c >= b \div c
  OBVIOUS

\* Among the best records of a search there is one as good as any record.
LEMMA BestStands ==
    ASSUME NEW R, IsFiniteSet(R), NEW limit \in Nat \ {0}, NEW score, \A x \in R : score[x] \in Nat,
           NEW T \in Best(R, limit, score), NEW k \in R
    PROVE  \E t \in T : score[t] >= score[k]
<1>1. /\ T \in SUBSET R /\ Cardinality(T) = Min({limit, Cardinality(R)})
      /\ \A t \in T, u \in R \ T : score[t] >= score[u]
  BY DEF Best
<1>2. CASE k \in T
  <2>1. score[k] >= score[k]
    OBVIOUS
  <2> QED BY <1>2, <2>1
<1>3. CASE k \notin T
  <2>1. Cardinality(R) \in Nat /\ Cardinality(R) # 0
    BY FS_CardinalityType, FS_EmptySet
  <2>2. Min({limit, Cardinality(R)}) \in {limit, Cardinality(R)}
    BY <2>1, LesserIs
  <2>3. Cardinality(T) # 0
    BY <1>1, <2>1, <2>2
  <2>4. T # {}
    BY <2>3, FS_EmptySet
  <2> QED BY <1>1, <1>3, <2>4
<1> QED BY <1>2, <1>3

\* The records of a group are those of its documents, all of them if no document
\* was republished, deleted or renamed.
LEMMA RecordsMatch ==
    ASSUME SearchInv, Retrieving
    PROVE  /\ IsFiniteSet(Records) /\ Records \subseteq RecordSet
           /\ \A k \in Records : /\ k.index \in ChunkIndexes
                                 /\ \E s \in Group.docs : s.doc = k.doc /\ s.gen = k.gen
           /\ Undisturbed => \A s \in Group.docs, i \in ChunkIndexes :
                \E k \in Records : k.doc = s.doc /\ k.gen = s.gen /\ k.index = i
<1>1. IsFiniteSet(Records) /\ Records \subseteq RecordSet
  BY RecordsAre DEF GoodRecords
<1>2. ASSUME NEW k \in Records
      PROVE  k.index \in ChunkIndexes /\ \E s \in Group.docs : s.doc = k.doc /\ s.gen = k.gen
  <2>1. k \in RecordSet /\ RecordInv(k)
    BY RecordsAre DEF GoodRecords
  <2> QED BY <2>1 DEF RecordInv, RecordSet, KeyOf
<1>3. ASSUME Undisturbed, NEW s \in Group.docs, NEW i \in ChunkIndexes
      PROVE  \E k \in Records : k.doc = s.doc /\ k.gen = s.gen /\ k.index = i
  <2>1. s \in Asked /\ s.doc \in Documents
    BY GroupIs DEF DocSet
  <2>2. Published(s.doc) /\ documents[s.doc].gen = s.gen
    BY <1>3, <2>1 DEF Undisturbed, Gone
  <2>3. PICK p \in points : KeyOf(p) = <<s.doc, s.gen>>
    BY <2>1, <2>2 DEF SearchInv, IndexInv
  <2>4. PICK k : k = [doc |-> p.doc, gen |-> p.gen, name |-> p.name, index |-> i]
    OBVIOUS
  <2>5. InFilter(p) /\ p.doc = s.doc /\ p.gen = s.gen
    BY <2>3 DEF InFilter, KeyOf
  <2>6. k \in Records
    BY <2>3, <2>4, <2>5 DEF Records
  <2> QED BY <2>4, <2>5, <2>6
<1> QED BY <1>1, <1>2, <1>3

\* How well a chunk of the group being searched matches.
MatchOf(s, i, score) == [doc |-> s.doc, gen |-> s.gen, index |-> i, score |-> score]

\* What matches by its vectors.
LEMMA VectorMatch ==
    ASSUME Group.config.mode = "vector"
    PROVE  /\ \A m \in Matching(Group) : \E s \in Group.docs : \E i \in ChunkIndexes :
                m = MatchOf(s, i, scoring[<<s.doc, i>>].vector)
           /\ \A s \in Group.docs : \A i \in ChunkIndexes :
                MatchOf(s, i, scoring[<<s.doc, i>>].vector) \in Matching(Group)
<1> DEFINE chunk(s, i) == MatchOf(s, i, scoring[<<s.doc, i>>].vector)
<1>1. Matching(Group) = {chunk(s, i) : s \in Group.docs, i \in ChunkIndexes}
  BY DEF Matching, MatchOf
<1> HIDE DEF chunk
<1>2. /\ \A m \in Matching(Group) : \E s \in Group.docs : \E i \in ChunkIndexes : m = chunk(s, i)
      /\ \A s \in Group.docs : \A i \in ChunkIndexes : chunk(s, i) \in Matching(Group)
  BY <1>1
<1> QED BY <1>2 DEF chunk

\* The keyword scores of the group, the best of which is the best of a batch.
KeywordsOf(group) == {scoring[<<s.doc, i>>].keyword : s \in group.docs, i \in ChunkIndexes}

\* The keyword scores are those of the chunks of the group's documents.
LEMMA KeywordsOfAre ==
    /\ \A a \in KeywordsOf(Group) : \E s \in Group.docs : \E i \in ChunkIndexes :
         a = scoring[<<s.doc, i>>].keyword
    /\ \A s \in Group.docs : \A i \in ChunkIndexes : scoring[<<s.doc, i>>].keyword \in KeywordsOf(Group)
<1> DEFINE keyword(s, i) == scoring[<<s.doc, i>>].keyword
<1>1. KeywordsOf(Group) = {keyword(s, i) : s \in Group.docs, i \in ChunkIndexes}
  BY DEF KeywordsOf
<1> HIDE DEF keyword
<1>2. /\ \A a \in KeywordsOf(Group) : \E s \in Group.docs : \E i \in ChunkIndexes : a = keyword(s, i)
      /\ \A s \in Group.docs : \A i \in ChunkIndexes : keyword(s, i) \in KeywordsOf(Group)
  BY <1>1
<1> QED BY <1>2 DEF keyword

\* How well a chunk matches by its keywords.
LEMMA KeywordMatch ==
    ASSUME Group.config.mode = "keyword", NEW top, top = Max(KeywordsOf(Group) \cup {4})
    PROVE  /\ \A m \in Matching(Group) : \E s \in Group.docs : \E i \in ChunkIndexes :
                m = MatchOf(s, i, (scoring[<<s.doc, i>>].keyword * 4) \div top)
           /\ \A s \in Group.docs : \A i \in ChunkIndexes :
                MatchOf(s, i, (scoring[<<s.doc, i>>].keyword * 4) \div top) \in Matching(Group)
<1> DEFINE chunk(s, i) == MatchOf(s, i, (scoring[<<s.doc, i>>].keyword * 4) \div top)
<1>1. Matching(Group) = {chunk(s, i) : s \in Group.docs, i \in ChunkIndexes}
  BY DEF Matching, MatchOf, KeywordsOf
<1> HIDE DEF chunk
<1>2. /\ \A m \in Matching(Group) : \E s \in Group.docs : \E i \in ChunkIndexes : m = chunk(s, i)
      /\ \A s \in Group.docs : \A i \in ChunkIndexes : chunk(s, i) \in Matching(Group)
  BY <1>1
<1> QED BY <1>2 DEF chunk

\* A search by vectors covers its group.
LEMMA VectorsCover ==
    ASSUME SearchInv, Retrieving, Undisturbed, Group.config.mode = "vector",
           NEW best \in Best(Records, Group.config.topK, [k \in Records |-> VectorScore(k)]),
           NEW S, S = {[record |-> k, score |-> VectorScore(k)] : k \in best}
    PROVE  Covered(Group, {Candidate(h) : h \in S})
<1> SUFFICES ASSUME NEW m \in Relevant(Group)
             PROVE  \E c \in {Candidate(h) : h \in S} : Stands(c, m, Group)
  BY DEF Covered
<1>1. /\ IsFiniteSet(Records) /\ Records \subseteq RecordSet
      /\ \A k \in Records : /\ k.index \in ChunkIndexes
                            /\ \E s \in Group.docs : s.doc = k.doc /\ s.gen = k.gen
      /\ \A s \in Group.docs, i \in ChunkIndexes :
           \E k \in Records : k.doc = s.doc /\ k.gen = s.gen /\ k.index = i
  BY RecordsMatch
<1>2. PICK s \in Group.docs, i \in ChunkIndexes :
         m = MatchOf(s, i, scoring[<<s.doc, i>>].vector)
  BY VectorMatch DEF Relevant
<1>3. PICK k \in Records : k.doc = s.doc /\ k.gen = s.gen /\ k.index = i
  BY <1>1
<1>4. m.score = VectorScore(k) /\ m.score >= Group.config.threshold
  BY <1>2, <1>3 DEF VectorScore, Relevant, MatchOf
<1>5. \A x \in Records : VectorScore(x) \in Nat
  BY <1>1, ScoresAre DEF SearchInv
<1>6. PICK t \in best : VectorScore(t) >= VectorScore(k)
  <2> DEFINE score == [x \in Records |-> VectorScore(x)]
  <2>1. \A x \in Records : score[x] \in Nat
    BY <1>5
  <2>2. Group.config.topK \in Nat \ {0}
    BY GroupIs DEF ScopeConfigs
  <2>3. best \in SUBSET Records
    BY DEF Best
  <2>4. \E t \in best : score[t] >= score[k]
    <3> HIDE DEF score
    <3>1. best \in Best(Records, Group.config.topK, score)
      BY DEF score
    <3> QED BY <1>1, <1>3, <2>1, <2>2, <3>1, BestStands
  <2> QED BY <2>3, <2>4
<1>7. t \in Records
  BY DEF Best
<1>8. PICK u \in Group.docs : u.doc = t.doc /\ u.gen = t.gen
  BY <1>1, <1>7
<1>9. PICK n : n = MatchOf(u, t.index, scoring[<<u.doc, t.index>>].vector)
  OBVIOUS
<1>10. n \in Matching(Group)
  BY <1>1, <1>7, <1>9, VectorMatch
<1>11. n.doc = t.doc /\ n.score = VectorScore(t)
  BY <1>8, <1>9 DEF VectorScore, MatchOf
<1>12. n \in Relevant(Group)
  <2>1. Group.config.threshold \in Nat
    BY GroupIs DEF ScopeConfigs
  <2>2. n.score >= Group.config.threshold
    BY <1>4, <1>5, <1>6, <1>7, <1>11, <2>1
  <2> QED BY <1>10, <2>2 DEF Relevant
<1>13. PICK h : h = [record |-> t, score |-> VectorScore(t)]
  OBVIOUS
<1>14. h \in S /\ Candidate(h).doc = t.doc /\ Candidate(h).score = VectorScore(t)
  BY <1>13 DEF Candidate
<1>15. m.score \in Nat /\ Candidate(h).score >= m.score
  BY <1>4, <1>5, <1>6, <1>14
<1>16. Stands(Candidate(h), m, Group)
  BY <1>11, <1>12, <1>14, <1>15 DEF Stands
<1> QED BY <1>14, <1>16

\* The best keyword score of the batch is the best of the group.
LEMMA KeywordsAre ==
    ASSUME SearchInv, Retrieving, Undisturbed, NEW K, K = {k \in Records : KeywordScore(k) > 0},
           NEW best \in Best(K, Group.config.topK, [k \in Records |-> KeywordScore(k)])
    PROVE  /\ \A k \in K : \E t \in best : KeywordScore(t) >= KeywordScore(k)
           /\ best \subseteq Records
           /\ Max({KeywordScore(x) : x \in best} \cup {4}) = Max(KeywordsOf(Group) \cup {4})
           /\ Max(KeywordsOf(Group) \cup {4}) \in Nat /\ Max(KeywordsOf(Group) \cup {4}) > 0
<1>1. /\ IsFiniteSet(Records) /\ Records \subseteq RecordSet
      /\ \A k \in Records : /\ k.index \in ChunkIndexes
                            /\ \E s \in Group.docs : s.doc = k.doc /\ s.gen = k.gen
      /\ \A s \in Group.docs, i \in ChunkIndexes :
           \E k \in Records : k.doc = s.doc /\ k.gen = s.gen /\ k.index = i
  BY RecordsMatch
<1>2. \A x \in Records : KeywordScore(x) \in Nat
  BY <1>1, ScoresAre DEF SearchInv
<1>3. K \in SUBSET Records /\ IsFiniteSet(K)
  BY <1>1, FS_Subset
<1>4. best \in SUBSET K /\ best \in SUBSET Records
  BY <1>3 DEF Best
<1>5. ASSUME NEW k \in K
      PROVE  \E t \in best : KeywordScore(t) >= KeywordScore(k)
  <2> DEFINE score == [x \in Records |-> KeywordScore(x)]
  <2>1. \A x \in K : score[x] \in Nat
    BY <1>2, <1>3
  <2>2. Group.config.topK \in Nat \ {0}
    BY GroupIs DEF ScopeConfigs
  <2>3. \E t \in best : score[t] >= score[k]
    <3> HIDE DEF score
    <3>1. best \in Best(K, Group.config.topK, score)
      BY DEF score
    <3> QED BY <1>3, <2>1, <2>2, <3>1, BestStands
  <2> QED BY <1>3, <1>4, <2>3
<1>6. PICK A : A = KeywordsOf(Group)
  OBVIOUS
<1>7. PICK B : B = {KeywordScore(x) : x \in best}
  OBVIOUS
<1>8. \A a \in A : \E k \in Records : KeywordScore(k) = a
  <2> SUFFICES ASSUME NEW a \in A
               PROVE  \E k \in Records : KeywordScore(k) = a
    OBVIOUS
  <2>a. PICK s \in Group.docs : \E i \in ChunkIndexes : a = scoring[<<s.doc, i>>].keyword
    BY <1>6, KeywordsOfAre
  <2>b. PICK i \in ChunkIndexes : a = scoring[<<s.doc, i>>].keyword
    BY <2>a
  <2>1. PICK k \in Records : k.doc = s.doc /\ k.gen = s.gen /\ k.index = i
    BY <1>1
  <2> QED BY <2>b, <2>1 DEF KeywordScore
<1>9. \A k \in Records : KeywordScore(k) \in A
  <2> SUFFICES ASSUME NEW k \in Records
               PROVE  KeywordScore(k) \in KeywordsOf(Group)
    BY <1>6
  <2>1. PICK s \in Group.docs : s.doc = k.doc /\ s.gen = k.gen
    BY <1>1
  <2>2. KeywordScore(k) = scoring[<<s.doc, k.index>>].keyword
    BY <2>1 DEF KeywordScore
  <2> QED BY <1>1, <2>2, KeywordsOfAre
<1>10. A \in SUBSET Nat /\ IsFiniteSet(A)
  <2>1. A = {KeywordScore(x) : x \in Records}
    BY <1>8, <1>9
  <2> DEFINE f == [x \in Records |-> KeywordScore(x)]
  <2>2. f \in Surjection(Records, A)
    BY <2>1 DEF Surjection
  <2>3. IsFiniteSet(A)
    <3> HIDE DEF f
    <3> QED BY <1>1, <2>2, FS_Surjection
  <2> QED BY <1>2, <2>1, <2>3
<1>11. B \subseteq A
  BY <1>4, <1>7, <1>9
<1>12. \A a \in A : a = 0 \/ \E b \in B : b >= a
  <2> SUFFICES ASSUME NEW a \in A, a # 0
               PROVE  \E b \in B : b >= a
    OBVIOUS
  <2>1. PICK k \in Records : KeywordScore(k) = a
    BY <1>8
  <2>2. k \in K
    BY <1>2, <2>1
  <2>3. PICK t \in best : KeywordScore(t) >= KeywordScore(k)
    BY <1>5, <2>2
  <2> QED BY <1>7, <2>1, <2>3
<1>13. /\ Max(A \cup {4}) \in A \cup {4} /\ \A y \in A \cup {4} : Max(A \cup {4}) >= y
  <2>1. A \cup {4} \in SUBSET Nat /\ IsFiniteSet(A \cup {4}) /\ A \cup {4} # {}
    BY <1>10, FS_AddElement
  <2> QED BY <2>1, GreatestIs
<1>14. /\ Max(B \cup {4}) \in B \cup {4} /\ \A y \in B \cup {4} : Max(B \cup {4}) >= y
  <2>1. IsFiniteSet(B)
    BY <1>10, <1>11, FS_Subset
  <2>2. B \cup {4} \in SUBSET Nat /\ IsFiniteSet(B \cup {4}) /\ B \cup {4} # {}
    BY <1>10, <1>11, <2>1, FS_AddElement
  <2> QED BY <2>2, GreatestIs
<1>15. PICK a, b : a = Max(A \cup {4}) /\ b = Max(B \cup {4})
  OBVIOUS
<1>16. a \in Nat /\ b \in Nat /\ a >= 4 /\ b >= 4 /\ a >= b
  <2>1. PICK U, V : U = A \cup {4} /\ V = B \cup {4}
    OBVIOUS
  <2>2. U \subseteq Nat /\ V \subseteq U /\ 4 \in V
    BY <1>10, <1>11, <2>1
  <2>3. a \in U /\ b \in V /\ (\A y \in U : a >= y) /\ (\A y \in V : b >= y)
    BY <1>13, <1>14, <1>15, <2>1
  <2> QED BY <2>2, <2>3
<1>17. b >= a
  <2>1. CASE a = 4
    BY <1>16, <2>1
  <2>2. CASE a # 4
    <3>1. a \in A /\ a # 0
      BY <1>13, <1>15, <1>16, <2>2
    <3>2. PICK y \in B : y >= a
      BY <1>12, <3>1
    <3>3. b >= y /\ y \in Nat
      BY <1>10, <1>11, <1>14, <1>15
    <3> QED BY <1>16, <3>2, <3>3
  <2> QED BY <2>1, <2>2
<1>18. a = b
  BY <1>16, <1>17
<1> QED BY <1>4, <1>5, <1>6, <1>7, <1>15, <1>16, <1>18

\* A search by keywords covers its group.
LEMMA KeywordsCover ==
    ASSUME SearchInv, Retrieving, Undisturbed, Group.config.mode = "keyword",
           NEW best \in Best({k \in Records : KeywordScore(k) > 0}, Group.config.topK,
                             [k \in Records |-> KeywordScore(k)]),
           NEW S, S = {[record |-> k, score |-> Normalized(k, best)] : k \in best}
    PROVE  Covered(Group, {Candidate(h) : h \in S})
<1> SUFFICES ASSUME NEW m \in Relevant(Group)
             PROVE  \E c \in {Candidate(h) : h \in S} : Stands(c, m, Group)
  BY DEF Covered
<1>1. /\ Records \subseteq RecordSet
      /\ \A k \in Records : /\ k.index \in ChunkIndexes
                            /\ \E s \in Group.docs : s.doc = k.doc /\ s.gen = k.gen
      /\ \A s \in Group.docs, i \in ChunkIndexes :
           \E k \in Records : k.doc = s.doc /\ k.gen = s.gen /\ k.index = i
  BY RecordsMatch
<1>2. PICK top : top = Max(KeywordsOf(Group) \cup {4})
  OBVIOUS
<1>3. PICK K : K = {k \in Records : KeywordScore(k) > 0}
  OBVIOUS
<1>4. /\ \A k \in K : \E t \in best : KeywordScore(t) >= KeywordScore(k)
      /\ best \subseteq Records /\ top \in Nat /\ top > 0
      /\ Max({KeywordScore(x) : x \in best} \cup {4}) = top
  BY <1>2, <1>3, KeywordsAre
<1>5. \A k : Normalized(k, best) = (KeywordScore(k) * 4) \div top
  BY <1>4 DEF Normalized
<1>6. PICK s \in Group.docs, i \in ChunkIndexes :
         m = MatchOf(s, i, (scoring[<<s.doc, i>>].keyword * 4) \div top)
  BY <1>2, KeywordMatch DEF Relevant
<1>7. PICK k \in Records : k.doc = s.doc /\ k.gen = s.gen /\ k.index = i
  BY <1>1
<1>8. \A x \in Records : KeywordScore(x) \in Nat
  BY <1>1, ScoresAre DEF SearchInv
<1>9. /\ m.score = (KeywordScore(k) * 4) \div top /\ m.score > 0
      /\ m.score >= Group.config.threshold
  BY <1>6, <1>7 DEF KeywordScore, Relevant, MatchOf
<1>10. k \in K
  <2>1. KeywordScore(k) # 0
    <3>1. KeywordScore(k) = 0 => (KeywordScore(k) * 4) \div top = 0
      BY <1>4
    <3> QED BY <1>9, <3>1
  <2> QED BY <1>3, <1>8, <2>1
<1>11. PICK t \in best : KeywordScore(t) >= KeywordScore(k)
  BY <1>4, <1>10
<1>12. t \in Records
  BY <1>4
<1>13. PICK x, y : x = KeywordScore(t) * 4 /\ y = KeywordScore(k) * 4
  OBVIOUS
<1>14. x \in Nat /\ y \in Nat /\ x >= y
  BY <1>8, <1>11, <1>12, <1>13
<1>15. x \div top >= y \div top /\ x \div top \in Nat /\ y \div top \in Nat
  BY <1>4, <1>14, QuotientsOrdered, QuotientIs
<1>16. PICK u \in Group.docs : u.doc = t.doc /\ u.gen = t.gen
  BY <1>1, <1>12
<1>17. PICK n : n = MatchOf(u, t.index, (scoring[<<u.doc, t.index>>].keyword * 4) \div top)
  OBVIOUS
<1>18. n \in Matching(Group)
  BY <1>1, <1>2, <1>12, <1>17, KeywordMatch
<1>19. n.doc = t.doc /\ n.score = x \div top
  BY <1>13, <1>16, <1>17 DEF KeywordScore, MatchOf
<1>20. n.score >= m.score /\ n.score \in Nat /\ m.score \in Nat
  BY <1>9, <1>13, <1>15, <1>19
<1>21. n \in Relevant(Group)
  <2>1. Group.config.threshold \in Nat
    BY GroupIs DEF ScopeConfigs
  <2>2. n.score >= Group.config.threshold /\ n.score > 0
    BY <1>9, <1>20, <2>1
  <2> QED BY <1>18, <2>2 DEF Relevant
<1>22. PICK h : h = [record |-> t, score |-> Normalized(t, best)]
  OBVIOUS
<1>23. h \in S /\ Candidate(h).doc = t.doc /\ Candidate(h).score = n.score
  BY <1>5, <1>13, <1>19, <1>22 DEF Candidate
<1>24. Stands(Candidate(h), m, Group)
  BY <1>20, <1>19, <1>21, <1>23 DEF Stands
<1> QED BY <1>23, <1>24

-----------------------------------------------------------------------------
(* A search covers what it has asked the retrievers for *)

\* More candidates cover as much, and a group whose scores are fused is not said
\* to be covered.
LEMMA MoreCover ==
    ASSUME NEW group, NEW C, NEW D, C \subseteq D, Covered(group, C)
    PROVE  Covered(group, D)
  BY DEF Covered

\* Nothing is said of a collection whose scores are fused.
LEMMA HybridCovered ==
    ASSUME NEW group, group.config.mode = "hybrid", NEW C
    PROVE  Covered(group, C)
  BY DEF Covered, Relevant

\* What matches is a matter of the scores, which no step changes.
LEMMA RelevantStays ==
    ASSUME scoring' = scoring
    PROVE  \A g : Relevant(g)' = Relevant(g) /\ \A C : Covered(g, C) => Covered(g, C)'
<1>1. \A g : Matching(g)' = Matching(g)
  BY DEF Matching
<1>2. \A g : Relevant(g)' = Relevant(g)
  BY <1>1 DEF Relevant
<1>3. ASSUME NEW g, NEW C, Covered(g, C)
      PROVE  Covered(g, C)'
  <2> SUFFICES ASSUME NEW m \in Relevant(g)'
               PROVE  \E c \in C : Stands(c, m, g)'
    BY DEF Covered
  <2>1. PICK c \in C : Stands(c, m, g)
    BY <1>2, <1>3 DEF Covered
  <2>2. Stands(c, m, g)'
    BY <1>2, <2>1 DEF Stands
  <2> QED BY <2>2
<1> QED BY <1>2, <1>3

\* What is not disturbed after a step was not disturbed before it.
LEMMA UndisturbedBefore ==
    ASSUME SearchInv, search'.groups = search.groups, SameIndex \/ Aged
    PROVE  Undisturbed' => Undisturbed
<1>1. Asked' = Asked
  BY DEF Asked
<1>2. CASE SameIndex
  BY <1>1, <1>2, SameIndexKeeps DEF Undisturbed
<1>3. CASE Aged
  <2>1. \A s \in Asked : Known(s)
    BY GroupsHold DEF SearchInv
  <2>2. \A s \in Asked : (Gone(s) => Gone(s)') /\ (Misnamed(s) => Gone(s)' \/ Misnamed(s)')
    BY <1>3, <2>1 DEF Aged
  <2> QED BY <1>1, <2>2 DEF Undisturbed
<1> QED BY <1>2, <1>3

\* A call that goes on asking the retrievers.
LEMMA CoverGoesOn ==
    ASSUME SearchInv, scoring' = scoring, NEW groups, NEW at, NEW stage, NEW C, NEW P,
           search'.groups = groups, search'.at = at, search'.stage = stage,
           search'.candidates = C, Pending' = P,
           stage \in {"retrieve", "keyword", "validate"},
           stage = "keyword" => groups[at].config.mode = "hybrid",
           Undisturbed' => \A j \in DOMAIN groups : j < at => Covered(groups[j], C),
           Undisturbed' /\ stage = "validate" => Covered(groups[at], C \cup P)
    PROVE  CoverInv'
<1>1. \A g, X : Covered(g, X) => Covered(g, X)'
  BY RelevantStays
<1>2. BestSourceFirst'
  BY DEF BestSourceFirst, Answered
<1>3. Group' = groups[at]
  BY DEF Group
<1>4. Undisturbed' => \A j \in DOMAIN groups : j < at => Covered(groups[j], C)'
  BY <1>1
<1>5. Undisturbed' /\ stage = "validate" => Covered(groups[at], C \cup P)'
  BY <1>1
<1> QED BY <1>2, <1>3, <1>4, <1>5 DEF CoverInv

\* A call that is refused.
LEMMA RefusedCovers ==
    ASSUME SearchInv, NEW code, NEW faulty, Refuse(code, faulty)
    PROVE  CoverInv'
<1>1. /\ search'.stage = "answered"
      /\ search'.answer = [NoAnswer EXCEPT !.status = "error", !.code = code]
  BY DEF Refuse, SearchInv, SearchTypes, CallSet
<1>2. search'.answer.status = "error" /\ search'.answer.mode = "none"
  BY <1>1 DEF NoAnswer
<1> QED BY <1>1, <1>2 DEF CoverInv, BestSourceFirst

\* What an answer is.
LEMMA AnswerIs ==
    ASSUME SearchInv, NEW mode, NEW sources, Answer(mode, sources)
    PROVE  /\ search'.stage = "answered" /\ search'.groups = search.groups
           /\ search'.candidates = search.candidates /\ search'.available = search.available
           /\ search'.answer.mode = mode /\ search'.answer.sources = sources
           /\ search'.answer.status = "no_match" => sources = <<>>
<1>1. PICK status : status = IF sources = <<>> THEN "no_match" ELSE "hit"
  OBVIOUS
<1>2. PICK answer : answer = [status |-> status, mode |-> mode, code |-> "", sources |-> sources]
  OBVIOUS
<1>3. search' = [search EXCEPT !.stage = "answered", !.answer = answer]
  BY <1>1, <1>2 DEF Answer
<1>4. /\ search'.stage = "answered" /\ search'.groups = search.groups
      /\ search'.candidates = search.candidates /\ search'.available = search.available
      /\ search'.answer = answer
  BY <1>3 DEF SearchInv, SearchTypes, CallSet
<1>5. answer.status = status /\ answer.mode = mode /\ answer.sources = sources
  BY <1>2
<1>6. status = "no_match" => sources = <<>>
  BY <1>1
<1> QED BY <1>4, <1>5, <1>6

\* A direct answer that leaves out no document.
LEMMA DirectCovers ==
    ASSUME SearchInv, SameIndex, NEW sources, Answer("direct", sources),
           sources = <<>> => search.groups = <<>>,
           NEW read, read = {sources[i].doc : i \in DOMAIN sources},
           read = {s.doc : s \in Asked}
    PROVE  CoverInv'
<1>1. /\ search'.stage = "answered" /\ search'.groups = search.groups
      /\ search'.answer.mode = "direct" /\ search'.answer.sources = sources
      /\ search'.answer.status = "no_match" => sources = <<>>
  BY AnswerIs
<1>2. search'.answer.status = "no_match" => AllRelevant' = {}
  <2>1. SUFFICES ASSUME search'.answer.status = "no_match"
                 PROVE  AllRelevant' = {}
    OBVIOUS
  <2>2. search'.groups = <<>>
    BY <1>1, <2>1
  <2>3. DOMAIN search'.groups = {}
    BY <2>2
  <2> QED BY <2>3 DEF AllRelevant
<1>3. Asked' = Asked
  BY <1>1 DEF Asked
<1>4. {s.doc : s \in Asked'} = read
  BY <1>3
<1>5. BestSourceFirst'
  BY <1>1, <1>2, <1>4 DEF BestSourceFirst
<1> QED BY <1>1, <1>5 DEF CoverInv

\* Resolving the scope.
LEMMA ResolveCovers ==
    ASSUME SearchInv, ResolveScope
    PROVE  CoverInv'
<1>1. SameIndex /\ search.stage = "asked"
  BY DEF ResolveScope, SameIndex
<1>2. search.groups = <<>>
  BY <1>1 DEF SearchInv, StageInv
<1>3. \/ \E code, faulty : Refuse(code, faulty)
      \/ Answer("direct", <<>>)
      \/ \E groups : search' = [search EXCEPT !.stage = "direct", !.groups = groups, !.at = 1]
  BY DEF ResolveScope
<1>4. CASE Answer("direct", <<>>)
  <2>1. Asked = {}
    BY <1>2 DEF Asked
  <2>2. PICK t : t = <<>>
    OBVIOUS
  <2>3. {t[i].doc : i \in DOMAIN t} = {s.doc : s \in Asked}
    BY <2>1, <2>2
  <2>4. Answer("direct", t)
    BY <1>4, <2>2
  <2> QED BY <1>1, <1>2, <2>3, <2>4, DirectCovers
<1>5. CASE \E groups : search' = [search EXCEPT !.stage = "direct", !.groups = groups, !.at = 1]
  <2>1. search'.stage = "direct"
    BY <1>5 DEF SearchInv, SearchTypes, CallSet
  <2> QED BY <2>1 DEF CoverInv, BestSourceFirst, Answered
<1> QED BY <1>3, <1>4, <1>5, RefusedCovers

\* Reading whole texts: an answer has read them all.
LEMMA ReadCovers ==
    ASSUME SearchInv, ReadDirect
    PROVE  CoverInv'
<1> DEFINE all == AllDocuments(search.groups)
           s == all[search.at]
           read == Wholes(all, search.at)
<1>1. SameIndex /\ search.stage = "direct" /\ scoring' = scoring
  BY DEF ReadDirect, SameIndex
<1>2. DocsUpTo(search.groups, Len(search.groups), all) /\ search.at \in 1 .. Len(all)
  BY <1>1, DirectReads
<1>3. \/ \E code, faulty : Refuse(code, faulty)
      \/ search' = [search EXCEPT !.stage = "retrieve", !.at = 1, !.read = @ \cup {KeyOf(s)}]
      \/ search.at = Len(all) /\ Answer("direct", read)
      \/ search' = [search EXCEPT !.at = @ + 1, !.read = @ \cup {KeyOf(s)}]
  BY DEF ReadDirect, Wholes
<1> HIDE DEF all, s, read
<1>4. CASE search' = [search EXCEPT !.stage = "retrieve", !.at = 1, !.read = @ \cup {KeyOf(s)}]
  <2>1. search'.stage = "retrieve" /\ search'.at = 1 /\ search'.groups = search.groups
    BY <1>4 DEF SearchInv, SearchTypes, CallSet
  <2>2. PICK groups, C, P : search'.groups = groups /\ search'.candidates = C /\ Pending' = P
    OBVIOUS
  <2>3. \A j \in DOMAIN groups : ~(j < 1)
    BY <2>1, <2>2, CallFields DEF SearchInv
  <2> QED BY <1>1, <2>1, <2>2, <2>3, CoverGoesOn
<1>5. CASE search.at = Len(all) /\ Answer("direct", read)
  <2>1. /\ read \in Seq(SourceSet) /\ DOMAIN read = 1 .. Len(all)
        /\ \A i \in 1 .. Len(all) : all[i] \in Asked /\ KeyOf(read[i]) = KeyOf(all[i])
    BY <1>2, <1>5, WholesAre DEF read
  <2>2. \A i \in 1 .. Len(all) : read[i].doc = all[i].doc
    BY <2>1 DEF KeyOf
  <2>3. ASSUME NEW x \in Asked
        PROVE  \E i \in 1 .. Len(all) : all[i] = x
    <3>1. PICK k \in DOMAIN search.groups : x \in search.groups[k].docs
      BY DEF Asked
    <3>2. k \in 1 .. Len(search.groups)
      BY CallFields DEF SearchInv
    <3>3. PICK a \in DOMAIN all : all[a] = x
      BY <1>2, <3>1, <3>2 DEF DocsUpTo
    <3>4. all \in Seq(DocSet)
      BY <1>2 DEF DocsUpTo
    <3> QED BY <3>3, <3>4
  <2>4. {read[i].doc : i \in DOMAIN read} = {x.doc : x \in Asked}
    <3>1. \A i \in DOMAIN read : \E x \in Asked : read[i].doc = x.doc
      BY <2>1, <2>2
    <3>2. \A x \in Asked : \E i \in DOMAIN read : read[i].doc = x.doc
      BY <2>1, <2>2, <2>3
    <3> QED BY <3>1, <3>2
  <2>5. read # <<>>
    BY <1>2, <2>1
  <2> QED BY <1>1, <1>5, <2>4, <2>5, DirectCovers
<1>6. CASE search' = [search EXCEPT !.at = @ + 1, !.read = @ \cup {KeyOf(s)}]
  <2>1. search'.stage = "direct"
    BY <1>1, <1>6 DEF SearchInv, SearchTypes, CallSet
  <2> QED BY <2>1 DEF CoverInv, BestSourceFirst, Answered
<1> QED BY <1>3, <1>4, <1>5, <1>6, RefusedCovers

\* The hits handed over to be validated cover the group.
LEMMA FoundCovers ==
    ASSUME SearchInv, CoverInv, SameIndex, Retrieving, NEW hits, Found(hits),
           Undisturbed => Covered(Group, {Candidate(hits[i]) : i \in DOMAIN hits})
    PROVE  CoverInv'
<1>1. /\ search'.stage = "validate" /\ search'.hits = hits /\ search'.at = search.at
      /\ search'.groups = search.groups /\ search'.candidates = search.candidates
  BY DEF Found, SearchInv, SearchTypes, CallSet
<1>2. PICK groups, at, C, P : /\ groups = search.groups /\ at = search.at /\ C = search.candidates
                              /\ P = {Candidate(hits[i]) : i \in DOMAIN hits}
  OBVIOUS
<1>3. Pending' = P
  BY <1>1, <1>2 DEF Pending
<1>4. Undisturbed' => Undisturbed
  BY <1>1, UndisturbedBefore
<1>5. Undisturbed' => \A j \in DOMAIN groups : j < at => Covered(groups[j], C)
  BY <1>2, <1>4 DEF CoverInv, Retrieving
<1>6. Undisturbed' => Covered(groups[at], C \cup P)
  <2>1. P \subseteq C \cup P /\ Group = groups[at]
    BY <1>2 DEF Group
  <2> QED BY <1>2, <1>4, <2>1, MoreCover
<1>7. scoring' = scoring
  BY DEF SameIndex
<1> QED BY <1>1, <1>2, <1>3, <1>5, <1>6, <1>7, CoverGoesOn

\* All hits of a search are among the hits that are ranked.
LEMMA RankedCovers ==
    ASSUME SearchInv, CoverInv, SameIndex, Retrieving,
           NEW S, S \in SUBSET HitSet, IsFiniteSet(S), Ranked(S) \in SetToSeqs(S), Found(Ranked(S)),
           Undisturbed => Covered(Group, {Candidate(h) : h \in S})
    PROVE  CoverInv'
<1>1. PICK hits : hits = Ranked(S)
  OBVIOUS
<1>2. \A h \in S : \E i \in DOMAIN hits : hits[i] = h
  BY <1>1, AllAreThere
<1>3. {Candidate(h) : h \in S} \subseteq {Candidate(hits[i]) : i \in DOMAIN hits}
  BY <1>2
<1>4. Undisturbed => Covered(Group, {Candidate(hits[i]) : i \in DOMAIN hits})
  BY <1>3, MoreCover
<1> QED BY <1>1, <1>4, FoundCovers

\* The search by vectors.
LEMMA VectorSearchCovers ==
    ASSUME SearchInv, CoverInv, VectorSearch
    PROVE  CoverInv'
<1>1. SameIndex /\ Retrieving /\ search.stage = "retrieve" /\ scoring' = scoring
  BY DEF VectorSearch, SameIndex, Retrieving
<1>2. PICK best \in Best(Records, Group.config.topK, [k \in Records |-> VectorScore(k)]) :
         \/ /\ Group.config.mode = "hybrid"
            /\ search' = [search EXCEPT !.stage = "keyword", !.vectors = best]
         \/ /\ Group.config.mode = "vector"
            /\ Found(Ranked({[record |-> k, score |-> VectorScore(k)] : k \in best}))
  BY DEF VectorSearch
<1>3. CASE /\ Group.config.mode = "hybrid"
           /\ search' = [search EXCEPT !.stage = "keyword", !.vectors = best]
  <2>1. /\ search'.stage = "keyword" /\ search'.at = search.at /\ search'.groups = search.groups
        /\ search'.candidates = search.candidates
    BY <1>3 DEF SearchInv, SearchTypes, CallSet
  <2>2. PICK groups, at, C, P : /\ groups = search.groups /\ at = search.at
                                /\ C = search.candidates /\ P = Pending'
    OBVIOUS
  <2>3. Undisturbed' => Undisturbed
    BY <1>1, <2>1, UndisturbedBefore
  <2>4. Undisturbed' => \A j \in DOMAIN groups : j < at => Covered(groups[j], C)
    BY <1>1, <2>2, <2>3 DEF CoverInv, Retrieving
  <2>5. groups[at].config.mode = "hybrid"
    BY <1>3, <2>2 DEF Group
  <2> QED BY <1>1, <2>1, <2>2, <2>4, <2>5, CoverGoesOn
<1>4. CASE /\ Group.config.mode = "vector"
           /\ Found(Ranked({[record |-> k, score |-> VectorScore(k)] : k \in best}))
  <2>1. PICK S : S = {[record |-> k, score |-> VectorScore(k)] : k \in best}
    OBVIOUS
  <2>2. PICK score : score = [k \in best |-> VectorScore(k)]
    OBVIOUS
  <2>3. GoodRecords(best)
    <3>1. best \in SUBSET Records
      BY DEF Best
    <3> QED BY <1>1, <3>1, RecordsAre, SomeRecords
  <2>4. \A k \in best : score[k] = VectorScore(k) /\ score[k] \in Nat
    BY <2>2, <2>3, ScoresAre DEF GoodRecords, SearchInv
  <2>5. S = {[record |-> k, score |-> score[k]] : k \in best}
    BY <2>1, <2>4
  <2>6. S \in SUBSET HitSet /\ IsFiniteSet(S) /\ Ranked(S) \in SetToSeqs(S)
    BY <1>1, <2>3, <2>4, <2>5, HitsAre
  <2>7. Undisturbed => Covered(Group, {Candidate(h) : h \in S})
    BY <1>1, <1>4, <2>1, VectorsCover
  <2> QED BY <1>1, <1>4, <2>1, <2>6, <2>7, RankedCovers
<1> QED BY <1>2, <1>3, <1>4

\* The search by keywords.
LEMMA KeywordSearchCovers ==
    ASSUME SearchInv, CoverInv, KeywordSearch
    PROVE  CoverInv'
<1>1. SameIndex /\ Retrieving
  BY DEF KeywordSearch, SameIndex, Retrieving
<1>2. PICK best \in Best({k \in Records : KeywordScore(k) > 0}, Group.config.topK,
                         [k \in Records |-> KeywordScore(k)]) :
         \/ /\ Group.config.mode = "hybrid"
            /\ \E hits : Found(hits)
         \/ /\ Group.config.mode = "keyword"
            /\ Found(Ranked({[record |-> k, score |-> Normalized(k, best)] : k \in best}))
  BY DEF KeywordSearch, CoverInv
<1>3. CASE Group.config.mode = "hybrid" /\ \E hits : Found(hits)
  <2>1. PICK hits : Found(hits)
    BY <1>3
  <2>2. Covered(Group, {Candidate(hits[i]) : i \in DOMAIN hits})
    BY <1>3, HybridCovered
  <2> QED BY <1>1, <2>1, <2>2, FoundCovers
<1>4. CASE /\ Group.config.mode = "keyword"
           /\ Found(Ranked({[record |-> k, score |-> Normalized(k, best)] : k \in best}))
  <2>1. PICK S : S = {[record |-> k, score |-> Normalized(k, best)] : k \in best}
    OBVIOUS
  <2>2. PICK score : score = [k \in best |-> Normalized(k, best)]
    OBVIOUS
  <2>3. GoodRecords(best)
    <3>1. best \in SUBSET Records
      BY DEF Best
    <3> QED BY <1>1, <3>1, RecordsAre, SomeRecords
  <2>4. \A k \in best : score[k] = Normalized(k, best) /\ score[k] \in Nat
    BY <2>2, <2>3, BatchScored DEF GoodRecords, SearchInv
  <2>5. S = {[record |-> k, score |-> score[k]] : k \in best}
    BY <2>1, <2>4
  <2>6. S \in SUBSET HitSet /\ IsFiniteSet(S) /\ Ranked(S) \in SetToSeqs(S)
    BY <1>1, <2>3, <2>4, <2>5, HitsAre
  <2>7. Undisturbed => Covered(Group, {Candidate(h) : h \in S})
    BY <1>1, <1>4, <2>1, KeywordsCover
  <2> QED BY <1>1, <1>4, <2>1, <2>6, <2>7, RankedCovers
<1> QED BY <1>2, <1>3, <1>4

\* Validating a hit that stands for a chunk keeps it.
LEMMA ValidateCovers ==
    ASSUME SearchInv, CoverInv, ValidateHit
    PROVE  CoverInv'
<1>1. SameIndex /\ Retrieving /\ search.stage = "validate" /\ search.hits # <<>> /\ scoring' = scoring
  BY DEF ValidateHit, SameIndex, Retrieving
<1>2. PICK h : h = Head(search.hits)
  OBVIOUS
<1>3. PICK kept : kept = IF h.score >= Group.config.threshold THEN {Candidate(h)} ELSE {}
  OBVIOUS
<1>4. \/ \E code, faulty : Refuse(code, faulty)
      \/ \E read : search' = [search EXCEPT !.hits = Tail(@), !.read = read, !.candidates = @ \cup kept]
  BY <1>2, <1>3 DEF ValidateHit
<1>5. CASE \E read : search' = [search EXCEPT !.hits = Tail(@), !.read = read, !.candidates = @ \cup kept]
  <2>1. /\ search'.hits = Tail(search.hits) /\ search'.candidates = search.candidates \cup kept
        /\ search'.stage = "validate" /\ search'.at = search.at /\ search'.groups = search.groups
    BY <1>1, <1>5 DEF SearchInv, SearchTypes, CallSet
  <2>2. PICK groups, at, C, P : /\ groups = search.groups /\ at = search.at
                                /\ C = search.candidates \cup kept /\ P = Pending'
    OBVIOUS
  <2>3. Undisturbed' => Undisturbed
    BY <1>1, <2>1, UndisturbedBefore
  <2>4. search.candidates \subseteq C
    BY <2>2
  <2>5. Undisturbed' => \A j \in DOMAIN groups : j < at => Covered(groups[j], C)
    BY <1>1, <2>2, <2>3, <2>4, MoreCover DEF CoverInv, Retrieving
  <2>6. search.hits \in Seq(HitSet) /\ h = search.hits[1]
    BY <1>1, <1>2, CallFields DEF SearchInv
  <2>7. \A i \in DOMAIN search.hits : i # 1 =>
           i - 1 \in DOMAIN Tail(search.hits) /\ Tail(search.hits)[i - 1] = search.hits[i]
    BY <1>1, <2>6
  <2>8. \A i \in DOMAIN search.hits : i = 1 \/ Candidate(search.hits[i]) \in P
    <3>1. P = {Candidate(Tail(search.hits)[i]) : i \in DOMAIN Tail(search.hits)}
      BY <2>1, <2>2 DEF Pending
    <3> QED BY <2>7, <3>1
  <2>9. ASSUME Undisturbed'
        PROVE  Covered(groups[at], C \cup P)
    <3>1. groups[at] = Group /\ Covered(Group, search.candidates \cup Pending)
      BY <1>1, <2>2, <2>3, <2>9 DEF CoverInv, Group
    <3> SUFFICES ASSUME NEW m \in Relevant(Group)
                 PROVE  \E c \in C \cup P : Stands(c, m, Group)
      BY <3>1 DEF Covered
    <3>2. PICK c \in search.candidates \cup Pending : Stands(c, m, Group)
      BY <3>1 DEF Covered
    <3>3. CASE c \in C \cup P
      BY <3>2, <3>3
    <3>4. CASE c \notin C \cup P
      <4>1. PICK i \in DOMAIN search.hits : c = Candidate(search.hits[i])
        BY <2>4, <3>4 DEF Pending
      <4>2. c = Candidate(h)
        BY <2>6, <2>8, <3>4, <4>1
      <4>3. h.score >= Group.config.threshold
        BY <3>2, <4>2 DEF Stands, Relevant, Candidate
      <4> QED BY <1>3, <2>2, <3>4, <4>2, <4>3
    <3> QED BY <3>3, <3>4
  <2> QED BY <1>1, <2>1, <2>2, <2>5, <2>9, CoverGoesOn
<1> QED BY <1>4, <1>5, RefusedCovers

\* The first source chosen is as good as any candidate that fits on its own.
LEMMA FirstIsBest ==
    ASSUME SearchInv, Fitted(CappedSources) # <<>>, NEW c \in search.candidates, Fits(<<c>>)
    PROVE  Fitted(CappedSources)[1].score >= c.score
<1> DEFINE r == RankedSources
           p == CappedSources
           t == Fitted(CappedSources)
<1>1. /\ r \in Seq(SourceSet) /\ (\A i \in DOMAIN r : r[i] \in search.candidates)
      /\ (\E a \in DOMAIN r : r[a] = c)
      /\ \A i, j \in DOMAIN r : i < j => BetterSource(r[i], r[j])
  BY CandidatesRanked
<1>2. /\ p \in Seq(SourceSet) /\ (\A i, j \in DOMAIN p : i # j => p[i] # p[j])
      /\ \A i \in DOMAIN p : i \in DOMAIN r /\ p[i] = r[i]
  BY CandidatesCapped
<1>3. Chosen(p, Len(p), t)
  BY <1>2, FittedIs
<1> HIDE DEF r, p
<1>4. PICK a \in DOMAIN r : r[a] = c
  BY <1>1
<1>5. \A i \in DOMAIN r : r[i].score \in Nat
  <2>1. \A i \in DOMAIN r : r[i] \in SourceSet
    BY <1>1
  <2>2. \A x \in SourceSet : x.score \in Nat
    BY DEF SourceSet
  <2> QED BY <2>1, <2>2
<1>6. \A i \in DOMAIN r : i <= a => r[i].score >= c.score
  <2>1. \A i \in DOMAIN r : i < a => r[i].score >= r[a].score
    BY <1>1, <1>5 DEF BetterSource
  <2>2. \A i \in DOMAIN r : i <= a => i = a \/ i < a
    BY <1>1
  <2> QED BY <1>4, <1>5, <2>1, <2>2
<1>7. CASE a \in DOMAIN p
  <2>1. p[a] = c /\ a \in 1 .. Len(p)
    BY <1>2, <1>4, <1>7
  <2>2. PICK j \in 1 .. a : t[1] = p[j]
    BY <1>3, <2>1 DEF Chosen
  <2>3. j \in DOMAIN p /\ j <= a
    BY <1>2, <2>1
  <2> QED BY <1>2, <1>6, <2>2, <2>3
<1>8. CASE a \notin DOMAIN p
  <2>1. 1 \in DOMAIN t
    BY <1>3 DEF Chosen
  <2>2. PICK j \in 1 .. Len(p) : t[1] = p[j]
    BY <1>3, <2>1 DEF Chosen
  <2>3. j \in DOMAIN p /\ j < a
    BY <1>1, <1>2, <1>8
  <2>4. j \in DOMAIN r /\ p[j] = r[j] /\ j <= a
    BY <1>1, <1>2, <2>3
  <2> QED BY <1>6, <2>2, <2>4
<1> QED BY <1>7, <1>8 DEF p

\* The chunk that a candidate stands for has its document.
LEMMA StandsFor ==
    ASSUME SearchInv, NEW c \in search.candidates, NEW m, NEW g, Stands(c, m, g),
           \A n \in Relevant(g) : n.score >= m.score => Alone(n)
    PROVE  Fits(<<c>>) /\ c.score >= m.score
<1>1. PICK n \in Relevant(g) : n.doc = c.doc /\ n.score = c.score /\ c.score >= m.score
  BY DEF Stands
<1>2. Alone(n)
  BY <1>1
<1>3. c.size = ChunkSize[n.doc] /\ c \in SourceSet
  BY <1>1, CallFields DEF SearchInv, CandidatesInv
<1> QED BY <1>1, <1>2, <1>3, FitsAlone DEF Alone

\* The next collection is searched, or the sources are chosen from candidates
\* that cover every collection.
LEMMA NextGroupCovers ==
    ASSUME SearchInv, CoverInv, NextGroup
    PROVE  CoverInv'
<1>1. /\ SameIndex /\ Retrieving /\ search.stage = "validate" /\ search.hits = <<>>
      /\ scoring' = scoring
  BY DEF NextGroup, SameIndex, Retrieving
<1>2. \/ search' = [search EXCEPT !.stage = "retrieve", !.at = @ + 1]
      \/ \E code, faulty : Refuse(code, faulty)
      \/ /\ ~(search.at < Len(search.groups)) /\ ~(CappedSources # <<>> /\ Fitted(CappedSources) = <<>>)
         /\ Answer("rag", Fitted(CappedSources))
  BY DEF NextGroup, CappedSources, RankedSources
<1>3. Pending = {}
  BY <1>1 DEF Pending
<1>4. search.at \in DOMAIN search.groups /\ Group = search.groups[search.at]
      /\ search.groups \in Seq(GroupSet)
  BY <1>1, GroupIs, CallFields DEF SearchInv
<1>5. Undisturbed => \A j \in DOMAIN search.groups : j <= search.at =>
         Covered(search.groups[j], search.candidates)
  <2> SUFFICES ASSUME Undisturbed, NEW j \in DOMAIN search.groups, j <= search.at
               PROVE  Covered(search.groups[j], search.candidates)
    OBVIOUS
  <2>1. CASE j = search.at
    <3>1. search.candidates \cup Pending = search.candidates
      BY <1>3
    <3> QED BY <1>1, <1>4, <2>1, <3>1 DEF CoverInv
  <2>2. CASE j < search.at
    BY <1>1, <2>2 DEF CoverInv
  <2> QED BY <1>4, <2>1, <2>2
<1>6. CASE search' = [search EXCEPT !.stage = "retrieve", !.at = @ + 1]
  <2>1. /\ search'.stage = "retrieve" /\ search'.at = search.at + 1
        /\ search'.groups = search.groups /\ search'.candidates = search.candidates
    BY <1>6 DEF SearchInv, SearchTypes, CallSet
  <2>2. PICK groups, at, C, P : /\ groups = search.groups /\ at = search.at + 1
                                /\ C = search.candidates /\ P = Pending'
    OBVIOUS
  <2>3. Undisturbed' => Undisturbed
    BY <1>1, <2>1, UndisturbedBefore
  <2>4. \A j \in DOMAIN groups : j < at => j <= search.at
    BY <1>4, <2>2
  <2>5. Undisturbed' => \A j \in DOMAIN groups : j < at => Covered(groups[j], C)
    BY <1>5, <2>2, <2>3, <2>4
  <2> QED BY <1>1, <2>1, <2>2, <2>5, CoverGoesOn
<1>7. CASE /\ ~(search.at < Len(search.groups)) /\ ~(CappedSources # <<>> /\ Fitted(CappedSources) = <<>>)
           /\ Answer("rag", Fitted(CappedSources))
  <2>1. PICK t : t = Fitted(CappedSources)
    OBVIOUS
  <2>2. /\ search'.stage = "answered" /\ search'.groups = search.groups
        /\ search'.available = search.available
        /\ search'.answer.mode = "rag" /\ search'.answer.sources = t
        /\ search'.answer.status = "no_match" => t = <<>>
    BY <1>7, <2>1, AnswerIs
  <2>3. Undisturbed' => Undisturbed
    BY <1>1, <2>2, UndisturbedBefore
  <2>4. ASSUME Undisturbed', NEW j \in DOMAIN search.groups, NEW m \in Relevant(search.groups[j])
        PROVE  \E c \in search.candidates : Stands(c, m, search.groups[j])
    <3>1. j <= search.at
      BY <1>4, <1>7
    <3> QED BY <1>5, <2>3, <2>4, <3>1 DEF Covered
  <2>5. t = <<>> => search.candidates = {}
    <3>1. SUFFICES ASSUME t = <<>>, NEW c \in search.candidates
                   PROVE  FALSE
      OBVIOUS
    <3>2. CappedSources = <<>>
      BY <1>7, <2>1, <3>1
    <3>3. RankedSources = <<>>
      BY <3>2, CandidatesCapped
    <3>4. PICK a \in DOMAIN RankedSources : RankedSources[a] = c
      BY CandidatesRanked
    <3> QED BY <3>3, <3>4
  <2>6. ASSUME Undisturbed', NEW j \in DOMAIN search.groups, NEW m \in Relevant(search.groups[j]),
               \A n \in Relevant(search.groups[j]) : n.score >= m.score => Alone(n)
        PROVE  t[1].score >= m.score
    <3>1. PICK c \in search.candidates : Stands(c, m, search.groups[j])
      BY <2>4, <2>6
    <3>2. Fits(<<c>>) /\ c.score >= m.score
      BY <2>6, <3>1, StandsFor
    <3>3. t # <<>>
      BY <2>5
    <3>4. t[1].score >= c.score
      BY <2>1, <3>2, <3>3, FirstIsBest
    <3>5. c \in SourceSet
      BY CallFields DEF SearchInv, CandidatesInv
    <3>6. Chosen(CappedSources, Len(CappedSources), t)
      BY <2>1, CandidatesCapped, FittedIs
    <3>7. t[1] \in SourceSet
      BY <3>3, <3>6 DEF Chosen
    <3>8. \A x \in SourceSet : x.score \in Nat
      BY DEF SourceSet
    <3>9. m.score \in Nat
      BY <3>1 DEF Stands
    <3>10. t[1].score \in Nat /\ c.score \in Nat
      BY <3>5, <3>7, <3>8
    <3> QED BY <3>2, <3>4, <3>9, <3>10
  <2>7. PICK groups : groups = search.groups
    OBVIOUS
  <2>8. \A g : Relevant(g)' = Relevant(g)
    BY <1>1, RelevantStays
  <2>9. ASSUME NEW m
        PROVE  Alone(m)' <=> Alone(m)
    BY <2>2 DEF Alone
  <2>10. search'.answer.status = "no_match" /\ Undisturbed' => AllRelevant' = {}
    <3> SUFFICES ASSUME search'.answer.status = "no_match", Undisturbed',
                        NEW j \in DOMAIN groups, NEW m \in Relevant(groups[j])
                 PROVE  FALSE
      <4>1. AllRelevant' = UNION {Relevant(groups[j])' : j \in DOMAIN groups}
        BY <2>2, <2>7 DEF AllRelevant
      <4> QED BY <2>8, <4>1
    <3> QED BY <2>2, <2>4, <2>5, <2>7
  <2>11. ASSUME Undisturbed', NEW j \in DOMAIN groups, NEW m \in Relevant(groups[j])',
                \A n \in Relevant(groups[j])' : n.score >= m.score => Alone(n)'
         PROVE  t[1].score >= m.score
    BY <2>6, <2>7, <2>8, <2>9, <2>11
  <2>12. BestSourceFirst'
    <3>1. search'.groups = groups
      BY <2>2, <2>7
    <3> QED BY <2>2, <2>10, <2>11, <3>1 DEF BestSourceFirst
  <2> QED BY <2>2, <2>12 DEF CoverInv
<1> QED BY <1>2, <1>6, <1>7, RefusedCovers

-----------------------------------------------------------------------------
(* Every step keeps it *)

\* The call stays as it is.
LEMMA StaysCovered ==
    ASSUME SearchInv, CoverInv, search' = search, scoring' = scoring, Undisturbed' => Undisturbed,
           ~Answered \/ UNCHANGED searchVars
    PROVE  CoverInv'
<1>1. CASE Retrieving
  <2>1. PICK groups, at, stage, C, P :
           /\ groups = search.groups /\ at = search.at /\ stage = search.stage
           /\ C = search.candidates /\ P = Pending
    OBVIOUS
  <2>2. /\ search'.groups = groups /\ search'.at = at /\ search'.stage = stage
        /\ search'.candidates = C /\ Pending' = P
    BY <2>1 DEF Pending
  <2>3. /\ stage \in {"retrieve", "keyword", "validate"}
        /\ stage = "keyword" => groups[at].config.mode = "hybrid"
        /\ Undisturbed' => \A j \in DOMAIN groups : j < at => Covered(groups[j], C)
        /\ Undisturbed' /\ stage = "validate" => Covered(groups[at], C \cup P)
    BY <1>1, <2>1 DEF CoverInv, Retrieving, Group
  <2> QED BY <2>2, <2>3, CoverGoesOn
<1>2. CASE ~Retrieving /\ ~Answered
  <2>1. ~(search.stage \in {"retrieve", "keyword", "validate"}) /\ search.stage # "answered"
    BY <1>2 DEF Retrieving, Answered
  <2> QED BY <2>1 DEF CoverInv, BestSourceFirst, Answered
<1>3. CASE UNCHANGED searchVars
  <2>1. BestSourceFirst'
    <3>1. BestSourceFirst /\ search' = search
      BY <1>3 DEF CoverInv, searchVars
    <3>2. \A g : Relevant(g)' = Relevant(g)
      BY RelevantStays
    <3>3. AllRelevant' = AllRelevant
      BY <3>1, <3>2 DEF AllRelevant
    <3>4. ASSUME NEW m
          PROVE  Alone(m)' <=> Alone(m)
      BY <3>1 DEF Alone
    <3>5. Asked' = Asked
      BY <3>1 DEF Asked
    <3>6. PICK groups, t : groups = search.groups /\ t = search.answer.sources
      OBVIOUS
    <3>7. Answered' /\ Undisturbed' => Answered /\ Undisturbed
      BY <3>1 DEF Answered
    <3>8. ASSUME Answered', Undisturbed', search'.answer.mode = "rag", NEW i \in DOMAIN groups,
                 NEW m \in Relevant(groups[i])',
                 \A n \in Relevant(groups[i])' : n.score >= m.score => Alone(n)'
          PROVE  t[1].score >= m.score
      BY <3>1, <3>2, <3>4, <3>6, <3>7, <3>8 DEF BestSourceFirst
    <3>9. search'.groups = groups /\ search'.answer.sources = t
      BY <3>1, <3>6
    <3>10. Answered' /\ Undisturbed' /\ search'.answer.status = "no_match" => AllRelevant' = {}
      BY <3>1, <3>3, <3>7 DEF BestSourceFirst
    <3>11. PICK read : read = {t[i].doc : i \in DOMAIN t}
      OBVIOUS
    <3>12. Answered' /\ Undisturbed' /\ search'.answer.mode = "direct" => {s.doc : s \in Asked'} = read
      BY <3>1, <3>5, <3>6, <3>7, <3>11 DEF BestSourceFirst
    <3>13. Answered' /\ Undisturbed' /\ search'.answer.mode = "direct" =>
             {t[i].doc : i \in DOMAIN t} = {s.doc : s \in Asked'}
      BY <3>11, <3>12
    <3> QED BY <3>8, <3>9, <3>10, <3>13 DEF BestSourceFirst
  <2>2. CASE Retrieving
    BY <1>1, <2>2
  <2>3. CASE ~Retrieving
    <3>1. search'.stage \notin {"retrieve", "keyword", "validate"}
      BY <1>3, <2>3 DEF searchVars, Retrieving
    <3> QED BY <2>1, <3>1 DEF CoverInv
  <2> QED BY <2>2, <2>3
<1> QED BY <1>1, <1>2, <1>3

\* A change of the documents, of which only what is disturbed afterwards counts.
LEMMA ChangeCovers ==
    ASSUME SearchInv, CoverInv, DocumentsChange
    PROVE  CoverInv'
<1>1. Aged /\ ~Answered
  BY DocumentsAge DEF SearchInv, DocumentsChange, Answered
<1>2. search' = search /\ scoring' = scoring
  BY <1>1 DEF Aged
<1>3. Undisturbed' => Undisturbed
  BY <1>1, <1>2, UndisturbedBefore
<1> QED BY <1>1, <1>2, <1>3, StaysCovered

\* The failure of a retriever.
LEMMA FailureCovers ==
    ASSUME SearchInv, RetrieverFails
    PROVE  CoverInv'
  BY RefusedCovers DEF RetrieverFails

\* The best source is first initially, and every step keeps it so.
LEMMA CoverBegins == ASSUME SearchInit PROVE CoverInv
<1>1. search.stage = "asked"
  BY DEF SearchInit
<1> QED BY <1>1 DEF CoverInv, BestSourceFirst, Answered

\* Every step keeps the best source first.
LEMMA CoverKeeps ==
    ASSUME SearchInv, CoverInv, [SearchNext]_searchVars
    PROVE  CoverInv'
<1>1. CASE UNCHANGED searchVars
  <2>1. SameIndex /\ search' = search /\ scoring' = scoring
    BY <1>1 DEF searchVars, SameIndex
  <2>2. Undisturbed' => Undisturbed
    BY <2>1, UndisturbedBefore
  <2> QED BY <1>1, <2>1, <2>2, StaysCovered DEF searchVars
<1>2. CASE SearchStep
  BY <1>2, ResolveCovers, ReadCovers, FailureCovers, VectorSearchCovers, KeywordSearchCovers,
     ValidateCovers, NextGroupCovers DEF SearchStep
<1> QED BY <1>1, <1>2, ChangeCovers DEF SearchNext

-----------------------------------------------------------------------------
(* The theorems *)

\* The inductive invariant holds in every state, whatever the documents, the
\* scopes, the scores and the changes during the search.
THEOREM SearchInvariance == SearchSpec => []SearchInv
<1>1. SearchInit => SearchInv
  BY SearchBegins
<1>2. SearchInv /\ [SearchNext]_searchVars => SearchInv'
  BY SearchGoesOn
<1> QED BY <1>1, <1>2, PTL DEF SearchSpec

\* The rows, the parsed texts and the call have the values the search relies on,
\* and a call is answered exactly when it has an answer.
THEOREM SearchTypesAlways == SearchSpec => []SearchTypeOK
<1>1. SearchInv => SearchTypeOK
  <2> SUFFICES ASSUME SearchInv
               PROVE  SearchTypeOK
    OBVIOUS
  <2>1. \A d \in Documents : documents[d] \in RowSet
    BY DEF SearchInv, SearchTypes
  <2>2. \A r \in RowSet : /\ r.status \in {"queued", "processing", "ready"} /\ r.gen \in 1 .. MaxIndexGen
                          /\ r.name \in 0 .. MaxRenames /\ r.active \in BOOLEAN
                          /\ r.claimed \in 0 .. MaxRenames
    BY DEF RowSet, Gens, Names
  <2>3. parsedKeys \subseteq Documents \X (1 .. MaxIndexGen)
        /\ search.read \subseteq Documents \X (1 .. MaxIndexGen)
    BY CallFields DEF SearchInv, SearchTypes, Gens
  <2>4. search.answer.status \in {"none", "hit", "no_match", "error"}
    BY CallFields DEF SearchInv, AnswerSet
  <2>5. Answered <=> search.answer # NoAnswer
    BY NothingAnswered DEF SearchInv, StageInv
  <2> QED BY <2>1, <2>2, <2>3, <2>4, <2>5, CallFields DEF SearchTypeOK, SearchInv
<1> QED BY <1>1, SearchInvariance, PTL

\* Sources come only from documents of the frozen scope, in collections the
\* caller may read, at the generation the scope was resolved to, and each of
\* them is there once: knowledge_scope_service.py, knowledge_retrieval_service.py.
THEOREM SourcesInScopeAlways == SearchSpec => []SourcesInScope
<1>1. SearchInv => SourcesInScope
  BY DEF SearchInv
<1> QED BY <1>1, SearchInvariance, PTL

\* A search that fails says why: only a fault, or a document that was
\* republished, deleted or renamed while it went on, makes it fail
\* (knowledge_retrieval_service.py), and a result is too large only if there is
\* a source that does not fit on its own.
THEOREM ErrorsAreExplainedAlways == SearchSpec => []ErrorsAreExplained
<1>1. SearchInv => ErrorsAreExplained
  BY DEF SearchInv
<1> QED BY <1>1, SearchInvariance, PTL

\* As long as no document of the scope is disturbed, "no match" says that nothing
\* in the scope matches, a direct answer holds every document, and the first
\* source is as good as every chunk of every collection that is searched by
\* vectors or by keywords, if what is as good fits: search of
\* knowledge_retrieval_service.py, whatever the retrievers choose among equals.
THEOREM BestSourceFirstAlways == SearchSpec => []BestSourceFirst
<1>1. SearchInit => SearchInv /\ CoverInv
  BY SearchBegins, CoverBegins
<1>2. (SearchInv /\ CoverInv) /\ [SearchNext]_searchVars => (SearchInv /\ CoverInv)'
  BY SearchGoesOn, CoverKeeps
<1>3. CoverInv => BestSourceFirst
  BY DEF CoverInv
<1> QED BY <1>1, <1>2, <1>3, PTL DEF SearchSpec
=============================================================================
