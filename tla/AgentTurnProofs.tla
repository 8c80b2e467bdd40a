-------------------------- MODULE AgentTurnProofs --------------------------
(* What TLAPS proves of AgentTurn, for any history, provider and tools: the  *)
(* turn is assembled within its budget, its events are refused for a cause   *)
(* only, in whatever order the tools answer, and what is stored is as much   *)
(* of what the reducer kept as the limits allow.                             *)
EXTENDS AgentTurn, FiniteSetTheorems, SequenceTheorems, WellFoundedInduction, TLAPS

-----------------------------------------------------------------------------
(* Numbers *)

\* The order of the natural numbers, as a relation.
SmallerNumber == {p \in Nat \X Nat : p[1] < p[2]}

\* A set of natural numbers that is not empty has a least element.
LEMMA LeastIsThere ==
    ASSUME NEW S \in SUBSET Nat, S # {}
    PROVE  \E x \in S : \A y \in S : x <= y
<1>1. IsWellFoundedOn(SmallerNumber, Nat)
  BY NatLessThanWellFounded DEF OpToRel, SmallerNumber
<1>2. PICK x \in S : \A y \in S : <<y, x>> \notin SmallerNumber
  BY <1>1, WFMin, Zenon
<1>3. \A y \in S : ~(y < x)
  BY <1>2 DEF SmallerNumber
<1>4. \A y \in S : x <= y
  BY <1>3
<1> QED BY <1>4

\* Max finds the greatest of a set of numbers up to n.
LEMMA GreatestIsThere ==
    ASSUME NEW n \in Nat, NEW S \in SUBSET (0 .. n), S # {}
    PROVE  Max(S) \in S /\ \A y \in S : Max(S) >= y
<1> DEFINE T == {k \in 0 .. n : n - k \in S}
<1>1. T \in SUBSET Nat
  OBVIOUS
<1>2. T # {}
  <2>1. PICK y \in S : TRUE
    OBVIOUS
  <2>2. n - y \in 0 .. n /\ n - (n - y) = y
    OBVIOUS
  <2>3. n - y \in T
    BY <2>1, <2>2
  <2> QED BY <2>3
<1>3. PICK k \in T : \A y \in T : k <= y
  BY <1>1, <1>2, LeastIsThere
<1>4. ASSUME NEW y \in S
      PROVE  n - k >= y
  <2>1. n - y \in 0 .. n /\ n - (n - y) = y
    OBVIOUS
  <2>2. k <= n - y
    BY <1>3, <2>1
  <2> QED BY <1>3, <2>2
<1>5. \E x \in S : \A y \in S : x >= y
  BY <1>3, <1>4
<1> QED BY <1>5, Zenon DEF Max

\* Induction up to n, over a set.
LEMMA UpTo ==
    ASSUME NEW n \in Nat, NEW S, 0 \in S, \A k \in 1 .. n : k - 1 \in S => k \in S
    PROVE  \A k \in 0 .. n : k \in S
<1> DEFINE T == {k \in 0 .. n : k \notin S}
<1>1. SUFFICES ASSUME T # {} PROVE FALSE
  OBVIOUS
<1>2. T \in SUBSET Nat
  OBVIOUS
<1>3. PICK k \in T : \A y \in T : k <= y
  BY <1>1, <1>2, LeastIsThere
<1>4. k # 0 /\ k \in 1 .. n /\ k - 1 \in 0 .. n /\ ~(k <= k - 1)
  <2>1. k \in 0 .. n /\ k \notin S
    BY <1>3
  <2>2. k # 0
    BY <2>1
  <2> QED BY <2>1, <2>2
<1>5. k - 1 \in S
  BY <1>3, <1>4
<1> QED BY <1>3, <1>4, <1>5

-----------------------------------------------------------------------------
(* Totals *)

\* The partial sums of a sequence.
Sums(s, f) ==
    /\ f \in [0 .. Len(s) -> Int] /\ f[0] = 0
    /\ \A k \in 1 .. Len(s) : f[k] = f[k - 1] + s[k]

\* There are partial sums of every sequence of integers.
LEMMA SumsAreThere ==
    ASSUME NEW s \in Seq(Int)
    PROVE  \E f : Sums(s, f)
<1> DEFINE n == Len(s)
           chain(m, f) == f[0] = 0 /\ \A k \in 1 .. m : f[k] = f[k - 1] + s[k]
           S == {m \in 0 .. n : \E f \in [0 .. m -> Int] : chain(m, f)}
<1>0. n \in Nat /\ \A k \in 1 .. n : s[k] \in Int
  OBVIOUS
<1>1. 0 \in S
  <2>1. [k \in 0 .. 0 |-> 0] \in [0 .. 0 -> Int] /\ chain(0, [k \in 0 .. 0 |-> 0])
    OBVIOUS
  <2>2. 0 \in 0 .. n
    BY <1>0
  <2> HIDE DEF chain
  <2> QED BY <2>1, <2>2
<1>2. ASSUME NEW m \in 1 .. n, m - 1 \in S
      PROVE  m \in S
  <2>1. PICK f \in [0 .. m - 1 -> Int] : chain(m - 1, f)
    BY <1>2
  <2> DEFINE g == [k \in 0 .. m |-> IF k = m THEN f[m - 1] + s[m] ELSE f[k]]
  <2>2. m - 1 \in 0 .. m - 1 /\ f[m - 1] \in Int
    BY <1>0, <2>1
  <2>3. f[m - 1] + s[m] \in Int
    BY <1>0, <2>2
  <2>4. \A k \in 0 .. m : k # m => k \in 0 .. m - 1 /\ f[k] \in Int
    BY <2>1
  <2>5. g \in [0 .. m -> Int]
    BY <2>3, <2>4
  <2>6. \A k \in 0 .. m : k # m => g[k] = f[k]
    OBVIOUS
  <2>7. g[m] = f[m - 1] + s[m]
    BY <1>0
  <2> HIDE DEF g
  <2>8. g[0] = 0
    BY <2>1, <2>6
  <2>9. ASSUME NEW k \in 1 .. m
        PROVE  g[k] = g[k - 1] + s[k]
    <3>1. g[k - 1] = f[k - 1]
      BY <2>6
    <3>2. CASE k = m
      BY <2>7, <3>1, <3>2
    <3>3. CASE k # m
      <4>1. k \in 1 .. m - 1 /\ k \in 0 .. m
        BY <3>3
      <4>2. g[k] = f[k]
        BY <2>6, <3>3, <4>1
      <4> QED BY <2>1, <3>1, <4>1, <4>2
    <3> QED BY <3>2, <3>3
  <2>10. chain(m, g)
    BY <2>8, <2>9
  <2> HIDE DEF chain
  <2> QED BY <1>0, <2>5, <2>10
<1>3. n \in S
  <2> HIDE DEF S, n
  <2>1. \A k \in 0 .. n : k \in S
    BY <1>0, <1>1, <1>2, UpTo
  <2> QED BY <1>0, <2>1
<1> QED BY <1>3 DEF Sums

\* There is only one function of partial sums, and Total is its last value.
LEMMA TotalIs ==
    ASSUME NEW s \in Seq(Int), NEW f, Sums(s, f)
    PROVE  Total(s) = f[Len(s)] /\ Total(s) \in Int
<1> DEFINE n == Len(s)
           is(g) == g = [k \in 0 .. n |-> IF k = 0 THEN 0 ELSE g[k - 1] + s[k]]
           h == CHOOSE g : is(g)
<1>0. n \in Nat /\ f \in [0 .. n -> Int]
  BY DEF Sums
<1>1. is(f)
  <2>1. \A k \in 0 .. n : f[k] = IF k = 0 THEN 0 ELSE f[k - 1] + s[k]
    BY <1>0 DEF Sums
  <2>2. f = [k \in 0 .. n |-> f[k]]
    BY <1>0
  <2> HIDE DEF n
  <2> QED BY <2>1, <2>2
<1>2. h = [k \in 0 .. n |-> IF k = 0 THEN 0 ELSE h[k - 1] + s[k]]
  BY <1>1
<1>3. Total(s) = h[n]
  BY DEF Total
<1> HIDE DEF h, is
<1>4. h[0] = 0 /\ \A k \in 1 .. n : h[k] = h[k - 1] + s[k]
  <2>1. \A k \in 0 .. n : h[k] = IF k = 0 THEN 0 ELSE h[k - 1] + s[k]
    BY <1>2
  <2>2. 0 \in 0 .. n /\ \A k \in 1 .. n : k \in 0 .. n /\ k # 0
    BY <1>0
  <2> QED BY <2>1, <2>2
<1> DEFINE S == {k \in 0 .. n : h[k] = f[k]}
<1>5. 0 \in S
  BY <1>0, <1>4 DEF Sums
<1>6. \A k \in 1 .. n : k - 1 \in S => k \in S
  BY <1>0, <1>4 DEF Sums
<1>7. \A k \in 0 .. n : k \in S
  <2> HIDE DEF S
  <2> QED BY <1>0, <1>5, <1>6, UpTo
<1>8. h[n] = f[n] /\ f[n] \in Int
  BY <1>0, <1>7
<1> QED BY <1>3, <1>8

\* The total of no numbers, and of one number more.
LEMMA TotalAppend ==
    ASSUME NEW s \in Seq(Int), NEW x \in Int
    PROVE  /\ Total(<<>>) = 0
           /\ Total(Append(s, x)) = Total(s) + x
           /\ Total(s) \in Int
<1>1. PICK f : Sums(s, f)
  BY SumsAreThere
<1>2. Total(s) = f[Len(s)] /\ Total(s) \in Int
  BY <1>1, TotalIs
<1> DEFINE t == Append(s, x)
           g == [k \in 0 .. Len(t) |-> IF k = Len(t) THEN f[Len(s)] + x ELSE f[k]]
           z == [k \in 0 .. 0 |-> 0]
<1>3. t \in Seq(Int) /\ Len(t) = Len(s) + 1 /\ t[Len(t)] = x /\ \A k \in 1 .. Len(s) : t[k] = s[k]
  OBVIOUS
<1> HIDE DEF t
<1>4. Sums(t, g)
  <2>1. f \in [0 .. Len(s) -> Int] /\ Len(s) \in Nat
    BY <1>1 DEF Sums
  <2>0. f[Len(s)] + x \in Int /\ f[0] = 0 /\ 0 # Len(t) /\ 0 \in 0 .. Len(t) /\ Len(t) \in 0 .. Len(t)
    BY <1>1, <1>3, <2>1 DEF Sums
  <2>00. \A k \in 0 .. Len(t) : k # Len(t) => f[k] \in Int
    BY <1>3, <2>1
  <2>2. g \in [0 .. Len(t) -> Int] /\ g[0] = 0 /\ g[Len(t)] = f[Len(s)] + x
    BY <2>0, <2>00
  <2>3. \A k \in 0 .. Len(s) : g[k] = f[k]
    BY <1>3, <2>1
  <2> HIDE DEF g
  <2>4. ASSUME NEW k \in 1 .. Len(t) PROVE g[k] = g[k - 1] + t[k]
    <3>1. CASE k = Len(t)
      BY <1>3, <2>1, <2>2, <2>3, <3>1
    <3>2. CASE k # Len(t)
      <4>1. k \in 1 .. Len(s) /\ k - 1 \in 0 .. Len(s) /\ k \in 0 .. Len(s)
        BY <1>3, <2>1, <3>2
      <4> QED BY <1>1, <1>3, <2>3, <4>1 DEF Sums
    <3> QED BY <3>1, <3>2
  <2> QED BY <2>2, <2>4 DEF Sums
<1>5. Total(t) = f[Len(s)] + x
  <2>1. Total(t) = g[Len(t)]
    <3> HIDE DEF g
    <3> QED BY <1>3, <1>4, TotalIs
  <2> QED BY <1>3, <2>1
<1>6. Sums(<<>>, z)
  BY DEF Sums
<1>7. Total(<<>>) = z[0]
  <2> HIDE DEF z
  <2>1. <<>> \in Seq(Int) /\ Len(<<>>) = 0
    OBVIOUS
  <2> QED BY <1>6, <2>1, TotalIs
<1>8. z[0] = 0
  OBVIOUS
<1> QED BY <1>2, <1>5, <1>7, <1>8 DEF t

\* The total of natural numbers is one.
LEMMA TotalOfNat ==
    ASSUME NEW s \in Seq(Nat)
    PROVE  Total(s) \in Nat
<1>1. s \in Seq(Int)
  OBVIOUS
<1>2. PICK f : Sums(s, f)
  BY <1>1, SumsAreThere
<1> DEFINE S == {k \in 0 .. Len(s) : f[k] >= 0}
<1>0. /\ f \in [0 .. Len(s) -> Int] /\ f[0] = 0
      /\ \A k \in 1 .. Len(s) : f[k] = f[k - 1] + s[k] /\ s[k] \in Nat
  BY <1>2 DEF Sums
<1>3. 0 \in S /\ \A k \in 1 .. Len(s) : k - 1 \in S => k \in S
  <2>1. 0 \in S
    BY <1>0
  <2>2. ASSUME NEW k \in 1 .. Len(s), k - 1 \in S PROVE k \in S
    <3>1. k - 1 \in 0 .. Len(s) /\ f[k - 1] \in Int /\ f[k - 1] >= 0
      BY <1>0, <2>2
    <3>2. f[k] = f[k - 1] + s[k] /\ s[k] \in Nat /\ k \in 0 .. Len(s)
      BY <1>0
    <3>3. f[k] >= 0
      BY <3>1, <3>2
    <3> QED BY <3>2, <3>3
  <2> QED BY <2>1, <2>2
<1>4. \A k \in 0 .. Len(s) : k \in S
  <2> HIDE DEF S
  <2>1. Len(s) \in Nat
    OBVIOUS
  <2> QED BY <1>3, <2>1, UpTo
<1>5. f[Len(s)] \in Int /\ f[Len(s)] >= 0
  BY <1>2, <1>4 DEF Sums
<1> QED BY <1>1, <1>2, <1>5, TotalIs

\* The total when one of the numbers is another.
LEMMA TotalExcept ==
    ASSUME NEW s \in Seq(Int), NEW t \in Seq(Int), NEW i \in 1 .. Len(s), Len(t) = Len(s),
           \A k \in 1 .. Len(s) : k # i => t[k] = s[k]
    PROVE  Total(t) = Total(s) - s[i] + t[i]
<1>1. PICK f : Sums(s, f)
  BY SumsAreThere
<1>2. PICK g : Sums(t, g)
  BY SumsAreThere
<1> DEFINE S == {k \in 0 .. Len(s) : (k < i => g[k] = f[k]) /\ (k >= i => g[k] = f[k] - s[i] + t[i])}
<1>0. /\ Len(s) \in Nat /\ i \in Nat /\ s[i] \in Int /\ t[i] \in Int
      /\ \A k \in 0 .. Len(s) : f[k] \in Int /\ g[k] \in Int
      /\ \A k \in 1 .. Len(s) : s[k] \in Int /\ t[k] \in Int
  <2>1. f \in [0 .. Len(s) -> Int] /\ g \in [0 .. Len(s) -> Int]
    BY <1>1, <1>2 DEF Sums
  <2>2. \A k \in 1 .. Len(s) : s[k] \in Int /\ t[k] \in Int
    OBVIOUS
  <2> QED BY <2>1, <2>2
<1>3. 0 \in S
  BY <1>0, <1>1, <1>2 DEF Sums
<1>4. ASSUME NEW k \in 1 .. Len(s), k - 1 \in S PROVE k \in S
  <2>1. g[k] = g[k - 1] + t[k] /\ f[k] = f[k - 1] + s[k]
    BY <1>1, <1>2 DEF Sums
  <2>2. k \in 0 .. Len(s) /\ k - 1 \in 0 .. Len(s)
    BY <1>0
  <2>6. /\ f[k - 1] \in Int /\ g[k - 1] \in Int /\ f[k] \in Int /\ g[k] \in Int
        /\ s[k] \in Int /\ t[k] \in Int
    BY <1>0, <2>2
  <2>3. CASE k < i
    BY <1>0, <1>4, <2>1, <2>2, <2>6, <2>3
  <2>4. CASE k = i
    BY <1>0, <1>4, <2>1, <2>2, <2>6, <2>4
  <2>5. CASE k > i
    <3>1. k - 1 >= i /\ k >= i /\ ~(k < i)
      BY <1>0, <2>5
    <3>2. g[k - 1] = f[k - 1] - s[i] + t[i] /\ t[k] = s[k]
      BY <1>0, <1>4, <2>5, <3>1
    <3>3. g[k] = f[k] - s[i] + t[i]
      <4>1. \A a, b, c, d \in Int : (a - b + c) + d = (a + d) - b + c
        OBVIOUS
      <4>2. g[k] = (f[k - 1] - s[i] + t[i]) + s[k]
        BY <2>1, <3>2
      <4>3. s[i] \in Int /\ t[i] \in Int /\ f[k - 1] \in Int /\ s[k] \in Int
        BY <1>0, <2>6
      <4>4. (f[k - 1] - s[i] + t[i]) + s[k] = (f[k - 1] + s[k]) - s[i] + t[i]
        BY <4>1, <4>3
      <4> QED BY <2>1, <4>2, <4>4
    <3> QED BY <2>2, <3>1, <3>3
  <2> QED BY <1>0, <2>3, <2>4, <2>5
<1>5. \A k \in 0 .. Len(s) : k \in S
  <2> HIDE DEF S
  <2> QED BY <1>0, <1>3, <1>4, UpTo
<1>6. g[Len(s)] = f[Len(s)] - s[i] + t[i]
  <2>1. Len(s) \in 0 .. Len(s) /\ Len(s) >= i
    BY <1>0
  <2> QED BY <1>5, <2>1
<1>7. Total(s) = f[Len(s)] /\ Total(t) = g[Len(t)]
  BY <1>1, <1>2, TotalIs
<1> QED BY <1>6, <1>7

-----------------------------------------------------------------------------
(* The inductive invariant: values *)

CallSet == [id : CallIds, bound : BOOLEAN, arguments : DataSet]
AiSet == [role : {"ai"}, text : TextSet, plain : BOOLEAN, calls : Seq(CallSet)]
AnswerSet == [role : {"tool"}, id : CallIds, size : Nat]
StreamSet == [text : TextSet, deltas : Nat, reasoning : BOOLEAN, calls : Seq(CallSet)]
ResultSet ==
    [size : Nat, length : Nat, sources : Nat, error : BOOLEAN, terminal : BOOLEAN]

SaidSet == [role : {"assistant"}, text : TextSet, plain : BOOLEAN, calls : Seq(CallSet)]
ToldSet == [role : {"tool"}, id : CallIds, length : Nat]
ChainSet == Seq(SaidSet \cup ToldSet)
TextBlocks ==
    [type : {"text"}, id : {NoId}, status : {"streaming", "done"}, length : Nat, data : {NoData}]
ToolBlocks ==
    [type : {"tool"}, id : CallIds, status : {"pending", "done", "error"}, length : {0},
     data : DataSet]
BlockSet == TextBlocks \cup ToolBlocks
ReducerSet ==
    [chain : ChainSet, blocks : Seq(BlockSet), started : SUBSET CallIds,
     resolved : SUBSET CallIds, textBlock : Nat, deltas : TextSet, value : Nat, sources : Nat]

\* The loop raises none of the codes that the reducer's refusals have.
RaiseCodes ==
    {"tool_call_limit_exceeded", "context_too_large", "provider_response_invalid",
     "provider_tool_call_invalid", "provider_call_failed"}
RaiseSet == [type : {"raise"}, code : RaiseCodes]
EndSet == [type : {"end"}]
DeltaSet == [type : {"delta"}, text : {t \in TextSet : t.size > 0}]
AssistantSet == [type : {"assistant"}, text : TextSet, plain : BOOLEAN, calls : Seq(CallSet)]
StartSet == [type : {"start"}, id : CallIds, arguments : DataSet]
AnsweredSet == [type : {"result"}, id : CallIds, result : ResultSet]
EventSet == RaiseSet \cup EndSet \cup DeltaSet \cup AssistantSet \cup StartSet \cup AnsweredSet

Statuses == {"RUNNING", "REFUSED", "COMPLETED", "FAILED", "CANCELLED", "RAISED"}
Codes == RaiseCodes \cup {"workspace_unavailable", "runtime_output_invalid", NoCode}
StoredSet == [value : Nat, chain : ChainSet, blocks : Seq(BlockSet), sources : Nat]
OutcomeSet == [status : Statuses, code : Codes, result : StoredSet]

LoopValues ==
    /\ node \in {"guard", "agent", "tools", "end"} /\ running \in SUBSET CallIds
    /\ graph \in Seq(AiSet \cup AnswerSet) /\ pending \in AiSet \cup {NoMessage}
    /\ stream \in StreamSet /\ Len(stream.calls) <= MaxCalls
    /\ events \in Seq(EventSet)

TurnValues ==
    /\ history \in Histories /\ tools \in BOOLEAN
    /\ stage \in {"asked", "prepared", "loop", "over"}
    /\ selected \in 0 .. Len(history) /\ home \in HomeSizes \cup {0}
    /\ LoopValues /\ reducer \in ReducerSet
    /\ outcome \in OutcomeSet /\ (outcome.status = "RUNNING" <=> stage # "over")

-----------------------------------------------------------------------------
(* The inductive invariant: the reducer, whatever events it accepted *)

\* What is shown is what was said, and only the block being written is open.
Whole(r) ==
    /\ r.value = ShownText(r.blocks)
    /\ r.value = SaidText(r.chain) + r.deltas.length
    /\ \A i \in DOMAIN r.blocks : r.blocks[i].status = "streaming" <=> i = r.textBlock
    /\ r.textBlock = 0 => r.deltas = NoText
    /\ r.textBlock # 0 => /\ r.textBlock = Len(r.blocks) /\ Unresolved(r) = {}
                          /\ r.blocks[r.textBlock].length = r.deltas.length
                          /\ r.deltas.size > 0

\* A final answer is the last block.
AnswerIsLast(r) ==
    r.chain # <<>> =>
      LET last == r.chain[Len(r.chain)]
      IN  last.role = "assistant" /\ last.calls = <<>> =>
            /\ Unresolved(r) = {}
            /\ r.textBlock = 0 /\ ~last.text.blank =>
                 r.blocks # <<>> /\ r.blocks[Len(r.blocks)].length = last.text.length

\* There is one block for each call that was started, and it waits for its answer.
Tidy(r) ==
    /\ r.resolved \subseteq r.started /\ r.started \subseteq Declared(r)
    /\ \A id \in r.started : \E i \in DOMAIN r.blocks : r.blocks[i].id = id
    /\ \A i \in DOMAIN r.blocks : r.blocks[i].type = "tool" =>
          /\ r.blocks[i].id \in r.started
          /\ r.blocks[i].status = "pending" <=> r.blocks[i].id \notin r.resolved
          /\ \A j \in DOMAIN r.blocks : r.blocks[j].id = r.blocks[i].id => j = i

Tools(chain) == DOMAIN chain \ Assistants(chain)

\* The chain is the one validate_messages_chain accepts once nothing is open.
Chained(chain, resolved) ==
    /\ \A i, j \in Assistants(chain) :
          i # j => IdsOf(chain[i].calls) \cap IdsOf(chain[j].calls) = {}
    /\ \A i, j \in Assistants(chain) : i < j => IdsOf(chain[i].calls) \subseteq resolved
    /\ \A i \in Assistants(chain) : \A id \in IdsOf(chain[i].calls) \cap resolved :
          \E k \in Tools(chain) :
             /\ i < k /\ chain[k].id = id
             /\ \A j \in Assistants(chain) : i < j => k < j
    /\ \A k \in Tools(chain) :
          /\ chain[k].id \in resolved
          /\ \E i \in Assistants(chain) : i < k /\ chain[k].id \in IdsOf(chain[i].calls)
          /\ \A l \in Tools(chain) : chain[l].id = chain[k].id => l = k

ReducerInv(r) == Whole(r) /\ AnswerIsLast(r) /\ Tidy(r) /\ Chained(r.chain, r.resolved)

-----------------------------------------------------------------------------
(* The inductive invariant: the loop *)

\* The order of the events the loop is about to yield.
Queued ==
    /\ \A k \in DOMAIN events : events[k].type = "assistant" => k = 1 /\ node # "agent"
    /\ \A k \in DOMAIN events : events[k].type = "raise" => k = Len(events)
    /\ \A k \in DOMAIN events : events[k].type = "end" => k = Len(events) /\ node = "end"
    /\ \A k \in DOMAIN events : events[k].type = "delta" => k = 1 /\ Len(events) = 1 /\ node = "agent"
    /\ \A k \in DOMAIN events : events[k].type = "start" =>
          /\ node \in {"guard", "tools"}
          /\ \A j \in DOMAIN events : events[j].type = "start" /\ events[j].id = events[k].id => j = k
    /\ \A k \in DOMAIN events : events[k].type = "result" =>
          /\ node \in {"guard", "tools"} /\ events[k].id \notin running
          /\ \A j \in DOMAIN events : events[j].type = "start" => j < k
          /\ \A j \in DOMAIN events : events[j].type = "result" => j = k

\* The messages of the graph are those of accepted model calls.
Graphed ==
    /\ \A i \in DOMAIN graph : graph[i].role = "ai" /\ graph[i].calls # <<>> =>
          WellFormed(graph[i].calls) /\ Len(graph[i].calls) <= MaxCalls
    /\ \A i \in DOMAIN graph : graph[i].role = "ai" /\ graph[i].calls = <<>> =>
          node = "end" /\ i = Len(graph)
    /\ node = "end" => graph # <<>> /\ graph[Len(graph)].role = "ai" /\ graph[Len(graph)].calls = <<>>
    /\ node = "tools" => \E i \in DOMAIN graph : graph[i].role = "ai"
    /\ pending # NoMessage =>
          /\ node = "tools" /\ pending.calls # <<>> /\ WellFormed(pending.calls)
          /\ \A k \in DOMAIN events : events[k].type = "raise"
    /\ node # "tools" => running = {}

\* Every message of the model reaches the reducer.
NoneForgotten ==
    \A i \in DOMAIN graph : graph[i].role = "ai" =>
       \/ IdsOf(graph[i].calls) \subseteq Declared(reducer)
       \/ pending # NoMessage /\ IdsOf(graph[i].calls) = IdsOf(pending.calls)
       \/ \E k \in DOMAIN events :
             events[k].type = "assistant" /\ IdsOf(graph[i].calls) = IdsOf(events[k].calls)

\* The ids the model has used, and those of the events.
KnownIds == UNION {IdsOf(graph[i].calls) : i \in {k \in DOMAIN graph : graph[k].role = "ai"}}
StartIds == {events[k].id : k \in {j \in DOMAIN events : events[j].type = "start"}}
ResultIds == {events[k].id : k \in {j \in DOMAIN events : events[j].type = "result"}}
Telling == events # <<>> /\ events[1].type = "assistant"

\* A message that the reducer has not been told of yet: what it was told
\* before is closed, and the text is the one it has seen.
Untold(r, m) ==
    /\ Unresolved(r) = {} /\ r.deltas = m.text
    /\ IdsOf(m.calls) \cap Declared(r) = {}

\* What the reducer was told is what the loop did, except for what the events
\* and the pending message have yet to tell.
InStep ==
    /\ Declared(reducer) \subseteq KnownIds
    /\ pending # NoMessage =>
          /\ Untold(reducer, pending) /\ running = IdsOf(pending.calls) /\ running \subseteq KnownIds
    /\ Telling => /\ Untold(reducer, events[1]) /\ IdsOf(events[1].calls) \subseteq KnownIds
                  /\ StartIds = IdsOf(events[1].calls)
                  /\ running \cup ResultIds = IdsOf(events[1].calls)
    /\ pending = NoMessage /\ ~Telling =>
          /\ Declared(reducer) \ reducer.started = StartIds
          /\ Unresolved(reducer) = running \cup ResultIds
          /\ node # "agent" => reducer.deltas = NoText
    /\ node = "agent" =>
          /\ events # <<>> /\ events[1].type = "delta" =>
                Join(reducer.deltas, events[1].text) = stream.text
          /\ ~(events # <<>> /\ events[1].type = "delta") => reducer.deltas = stream.text
    /\ node = "end" =>
          \/ events = <<AssistantEvent(graph[Len(graph)]), [type |-> "end"]>>
          \/ /\ ~Telling /\ reducer.chain # <<>>
             /\ reducer.chain[Len(reducer.chain)] = AssistantMessage(graph[Len(graph)])

\* The answers of a round keep to their shares.
SizesOf(messages) == [i \in DOMAIN messages |-> MessageSize(messages[i])]
InShares ==
    (\A k \in DOMAIN events : events[k].type # "raise") /\ node \in {"guard", "tools"} =>
       \A i \in DOMAIN graph :
          graph[i].role = "ai" /\ (\A j \in DOMAIN graph : graph[j].role = "ai" => j <= i) =>
          /\ running \subseteq IdsOf(graph[i].calls)
          /\ \/ running = IdsOf(graph[i].calls) /\ i = Len(graph)
             \/ (\A c \in DOMAIN graph[i].calls : graph[i].calls[c].bound) =>
                   /\ Share > 0
                   /\ Total(SizesOf(graph)) <=
                        Total(SizesOf(SubSeq(graph, 1, i)))
                        + (Len(graph[i].calls) - Cardinality(running)) * Share

LoopInv == Queued /\ Graphed /\ NoneForgotten /\ InShares /\ (~ReusedId => InStep)

TurnInv ==
    /\ TurnValues
    /\ stage \in {"asked", "prepared"} =>
          /\ node = "guard" /\ graph = <<>> /\ pending = NoMessage /\ running = {} /\ events = <<>>
          /\ reducer = NewReducer
    /\ stage # "over" => outcome = NoOutcome
    /\ ReducerInv(reducer)
    /\ stage = "loop" => LoopInv
    /\ SelectionIsCurrent /\ ResultIsWhole /\ (RoundOver => ValidMessages(graph))

-----------------------------------------------------------------------------
(* Sizes *)

\* The numbers of an instance.
LEMMA Limits ==
    /\ Budget \in Nat /\ ResultReserve \in Nat /\ Slack \in Nat /\ PromptSize \in Nat
    /\ CallSize \in Nat /\ NoticeSize \in Nat
    /\ OwnLength \in Nat /\ ReasoningLength \in Nat /\ MaxString \in Nat /\ MaxDepth \in Nat
    /\ MaxJson \in Nat /\ MaxSources \in Nat
    /\ MaxRounds \in Nat /\ MaxCalls \in Nat /\ MaxDeltas \in Nat /\ HomeSizes \subseteq Nat
  BY TurnAssumption DEF TurnAssumption

\* A stored turn has a size.
LEMMA TurnHasSize ==
    ASSUME NEW t \in TurnSet
    PROVE  RenderTurn(t) \in Nat
<1>1. t.user \in Nat /\ t.contexts \in Seq(ContextSet)
  BY DEF TurnSet
<1>2. /\ t.assistant.chain \in Seq(Nat) \cup {Broken} /\ t.assistant.value \in Nat
  BY DEF TurnSet
<1>3. [i \in DOMAIN t.contexts |-> ContextSize(t.contexts[i])] \in Seq(Nat)
  <2>1. \A i \in DOMAIN t.contexts : ContextSize(t.contexts[i]) \in Nat
    <3>1. \A i \in DOMAIN t.contexts : t.contexts[i] \in ContextSet
      BY <1>1
    <3>2. \A i \in DOMAIN t.contexts : t.contexts[i].size \in Nat
      BY <3>1 DEF ContextSet
    <3> QED BY <3>2 DEF ContextSize
  <2>2. DOMAIN t.contexts = 1 .. Len(t.contexts) /\ Len(t.contexts) \in Nat
    BY <1>1
  <2> QED BY <2>1, <2>2
<1>4. ProjectAssistant(t.assistant) \in Seq(Nat)
  BY <1>2 DEF ProjectAssistant
<1>5. /\ Total([i \in DOMAIN t.contexts |-> ContextSize(t.contexts[i])]) \in Nat
      /\ Total(ProjectAssistant(t.assistant)) \in Nat
  BY <1>3, <1>4, TotalOfNat
<1> QED BY <1>1, <1>5 DEF RenderTurn, RenderUser

\* Any number of the last turns has a size.
LEMMA InputHasSize ==
    ASSUME history \in Seq(TurnSet), NEW md \in Nat, NEW k \in 0 .. Len(history)
    PROVE  InputSize(k, md) \in Nat
<1>1. \A i \in 1 .. k : history[Len(history) + 1 - i] \in TurnSet
  OBVIOUS
<1>2. \A i \in 1 .. k : RenderTurn(history[Len(history) + 1 - i]) \in Nat
  BY <1>1, TurnHasSize
<1>3. [i \in 1 .. k |-> RenderTurn(history[Len(history) + 1 - i])] \in Seq(Nat)
  <2>1. k \in Nat
    OBVIOUS
  <2> QED BY <1>2, <2>1
<1>4. Total([i \in 1 .. k |-> RenderTurn(history[Len(history) + 1 - i])]) \in Nat
  BY <1>3, TotalOfNat
<1> QED BY <1>4, Limits DEF InputSize

\* The budget left for the input.
LEMMA LimitIsThere == InputLimit \in Int
  BY Limits DEF InputLimit

\* The selected turns fit, and the next older one does not.
LEMMA SelectionFits ==
    ASSUME history \in Seq(TurnSet), NEW md \in Nat
    PROVE  LET k == SelectTurns(md)
           IN  /\ k \in 0 .. Len(history)
               /\ k # 0 => InputSize(k, md) <= InputLimit
               /\ k # 0 /\ k < Len(history) => InputSize(k + 1, md) > InputLimit
<1> DEFINE n == Len(history)
           fit == {k \in 1 .. n : \A j \in 1 .. k : InputSize(j, md) <= InputLimit}
           k == SelectTurns(md)
<1>1. n \in Nat
  OBVIOUS
<1>2. k = IF fit = {} THEN 0 ELSE Max(fit)
  BY DEF SelectTurns
<1>3. CASE fit = {}
  BY <1>1, <1>2, <1>3
<1>4. CASE fit # {}
  <2>1. fit \in SUBSET (0 .. n)
    BY <1>1
  <2>2. k \in fit /\ \A y \in fit : k >= y
    <3> HIDE DEF fit, n
    <3> QED BY <1>1, <1>2, <1>4, <2>1, GreatestIsThere
  <2>3. k \in 1 .. n /\ \A j \in 1 .. k : InputSize(j, md) <= InputLimit
    BY <2>2
  <2>4. InputSize(k, md) <= InputLimit
    <3>1. k \in 1 .. k
      BY <2>3
    <3> QED BY <2>3, <3>1
  <2>5. ASSUME k < n PROVE InputSize(k + 1, md) > InputLimit
    <3>1. k + 1 \in 1 .. n /\ k + 1 \in 0 .. Len(history) /\ ~(k >= k + 1)
      BY <1>1, <2>3, <2>5
    <3>2. k + 1 \notin fit
      <4> HIDE DEF fit
      <4> QED BY <2>2, <3>1
    <3>3. PICK j \in 1 .. k + 1 : ~(InputSize(j, md) <= InputLimit)
      BY <3>1, <3>2
    <3>4. j = k + 1
      BY <2>3, <3>3
    <3>5. InputSize(k + 1, md) \in Nat
      BY <3>1, InputHasSize
    <3> QED BY <3>3, <3>4, <3>5, LimitIsThere
  <2> QED BY <2>3, <2>4, <2>5
<1> QED BY <1>3, <1>4

\* A message has a size.
LEMMA MessageHasSize ==
    ASSUME NEW m \in AiSet \cup AnswerSet
    PROVE  MessageSize(m) \in Int
<1>1. CASE m \in AnswerSet
  BY <1>1 DEF AnswerSet, MessageSize
<1>2. CASE m \in AiSet
  <2>1. m.text.size \in Nat /\ m.calls \in Seq(CallSet) /\ m.role = "ai"
    BY <1>2 DEF AiSet, TextSet
  <2>2. Len(m.calls) \in Nat /\ ModelContent(m) \in Nat
    BY <2>1 DEF ModelContent, NoContent
  <2> QED BY <2>1, <2>2, Limits DEF MessageSize
<1> QED BY <1>1, <1>2

\* The sizes of the messages of a graph.
LEMMA SizesAreThere ==
    ASSUME NEW messages \in Seq(AiSet \cup AnswerSet)
    PROVE  /\ SizesOf(messages) \in Seq(Int) /\ Len(SizesOf(messages)) = Len(messages)
           /\ Total(SizesOf(messages)) \in Int
<1>1. \A i \in DOMAIN messages : MessageSize(messages[i]) \in Int
  BY MessageHasSize
<1>2. DOMAIN messages = 1 .. Len(messages) /\ Len(messages) \in Nat
  OBVIOUS
<1>3. SizesOf(messages) \in Seq(Int) /\ Len(SizesOf(messages)) = Len(messages)
  BY <1>1, <1>2 DEF SizesOf
<1> QED BY <1>3, TotalAppend

\* What the first model call is given is what was selected.
LEMMA FirstInput == CountInput(<<>>) = InputSize(selected, home) + 0
<1>1. [i \in DOMAIN <<>> |-> MessageSize(<<>>[i])] = <<>>
  OBVIOUS
<1>2. Total(<<>>) = 0
  <2>1. <<>> \in Seq(Int) /\ 0 \in Int
    OBVIOUS
  <2> QED BY <2>1, TotalAppend
<1> QED BY <1>1, <1>2 DEF CountInput

-----------------------------------------------------------------------------
(* The reducer: texts and blocks *)

\* A block is a text or the call of a tool.
LEMMA BlockTypes ==
    ASSUME NEW b \in BlockSet
    PROVE  /\ b.length \in Nat
           /\ \/ b.type = "text" /\ b \in TextBlocks
              \/ b.type = "tool" /\ b \in ToolBlocks /\ b.length = 0
<1>1. CASE b \in TextBlocks
  BY <1>1 DEF TextBlocks
<1>2. CASE b \in ToolBlocks
  BY <1>2 DEF ToolBlocks
<1> QED BY <1>1, <1>2 DEF BlockSet

\* What blocks have to show is a number.
LEMMA ShownTypes ==
    ASSUME NEW blocks \in Seq(BlockSet)
    PROVE  /\ [i \in DOMAIN blocks |-> blocks[i].length] \in Seq(Int)
           /\ ShownText(blocks) \in Int
<1>1. \A i \in DOMAIN blocks : blocks[i] \in BlockSet
  OBVIOUS
<1>2. \A i \in DOMAIN blocks : blocks[i].length \in Int
  BY <1>1, BlockTypes
<1>3. DOMAIN blocks = 1 .. Len(blocks) /\ Len(blocks) \in Nat
  OBVIOUS
<1>4. [i \in DOMAIN blocks |-> blocks[i].length] \in Seq(Int)
  BY <1>2, <1>3
<1>5. Total([i \in DOMAIN blocks |-> blocks[i].length]) \in Int
  BY <1>4, TotalAppend
<1> QED BY <1>4, <1>5 DEF ShownText

\* One block more.
LEMMA ShownAppend ==
    ASSUME NEW blocks \in Seq(BlockSet), NEW b \in BlockSet
    PROVE  ShownText(Append(blocks, b)) = ShownText(blocks) + b.length
<1> DEFINE s == [i \in DOMAIN blocks |-> blocks[i].length]
           t == [i \in DOMAIN Append(blocks, b) |-> Append(blocks, b)[i].length]
<1>1. s \in Seq(Int) /\ Len(s) = Len(blocks) /\ Len(blocks) \in Nat
  BY ShownTypes
<1>2. b.length \in Int
  BY BlockTypes
<1>3. t = Append(s, b.length)
  <2>1. /\ DOMAIN t = 1 .. Len(blocks) + 1 /\ DOMAIN Append(s, b.length) = 1 .. Len(blocks) + 1
    BY <1>1, <1>2
  <2>2. ASSUME NEW i \in 1 .. Len(blocks) + 1 PROVE t[i] = Append(s, b.length)[i]
    <3>1. CASE i = Len(blocks) + 1
      BY <1>1, <1>2, <3>1
    <3>2. CASE i \in 1 .. Len(blocks)
      BY <1>1, <1>2, <3>2
    <3> QED BY <1>1, <3>1, <3>2
  <2>3. t = [i \in DOMAIN t |-> t[i]] /\ Append(s, b.length) = [i \in DOMAIN Append(s, b.length) |-> Append(s, b.length)[i]]
    BY <1>1, <1>2
  <2> HIDE DEF s, t
  <2> QED BY <2>1, <2>2, <2>3
<1>4. Total(Append(s, b.length)) = Total(s) + b.length
  <2> HIDE DEF s
  <2> QED BY <1>1, <1>2, TotalAppend
<1> QED BY <1>3, <1>4 DEF ShownText

\* Another size of one block.
LEMMA ShownExcept ==
    ASSUME NEW blocks \in Seq(BlockSet), NEW others \in Seq(BlockSet), Len(others) = Len(blocks),
           NEW i \in 1 .. Len(blocks),
           \A k \in 1 .. Len(blocks) : k # i => others[k] = blocks[k]
    PROVE  ShownText(others) = ShownText(blocks) - blocks[i].length + others[i].length
<1> DEFINE s == [k \in DOMAIN blocks |-> blocks[k].length]
           t == [k \in DOMAIN others |-> others[k].length]
<1>1. s \in Seq(Int) /\ t \in Seq(Int) /\ Len(s) = Len(blocks) /\ Len(t) = Len(blocks)
  <2>1. s \in Seq(Int) /\ t \in Seq(Int)
    BY ShownTypes
  <2>2. DOMAIN blocks = 1 .. Len(blocks) /\ DOMAIN others = 1 .. Len(blocks) /\ Len(blocks) \in Nat
    OBVIOUS
  <2> QED BY <2>1, <2>2
<1>2. /\ \A k \in 1 .. Len(blocks) : k # i => t[k] = s[k]
      /\ s[i] = blocks[i].length /\ t[i] = others[i].length
  OBVIOUS
<1>3. Total(t) = Total(s) - s[i] + t[i]
  <2> HIDE DEF s, t
  <2> QED BY <1>1, <1>2, TotalExcept
<1> QED BY <1>2, <1>3 DEF ShownText

\* The texts of a chain with one message more.
LEMMA SaidAppend ==
    ASSUME NEW chain \in ChainSet, NEW m \in SaidSet \cup ToldSet
    PROVE  /\ SaidText(Append(chain, m)) =
                SaidText(chain) + (IF m.role = "assistant" THEN m.text.length ELSE 0)
           /\ SaidText(chain) \in Int /\ SaidText(<<>>) = 0
<1> DEFINE Said(c) == [i \in DOMAIN c |-> IF i \in Assistants(c) THEN c[i].text.length ELSE 0]
           added == Append(chain, m)
           x == IF m.role = "assistant" THEN m.text.length ELSE 0
<1>1. /\ \A i \in DOMAIN chain : chain[i] \in SaidSet \cup ToldSet
      /\ DOMAIN chain = 1 .. Len(chain) /\ Len(chain) \in Nat
  BY DEF ChainSet
<1>2. Said(chain) \in Seq(Int)
  <2>1. \A i \in DOMAIN chain : i \in Assistants(chain) => chain[i].text.length \in Int
    BY <1>1 DEF Assistants, SaidSet, ToldSet, TextSet
  <2> QED BY <1>1, <2>1
<1>3. x \in Int
  BY DEF SaidSet, ToldSet, TextSet
<1>4. Said(added) = Append(Said(chain), x)
  <2>1. /\ DOMAIN added = 1 .. Len(chain) + 1
        /\ \A i \in 1 .. Len(chain) : added[i] = chain[i]
        /\ added[Len(chain) + 1] = m
    BY DEF ChainSet
  <2> HIDE DEF added
  <2>2. DOMAIN Said(added) = 1 .. Len(chain) + 1 /\ DOMAIN Append(Said(chain), x) = 1 .. Len(chain) + 1
    BY <1>1, <1>2, <2>1
  <2>3. ASSUME NEW i \in 1 .. Len(chain) + 1 PROVE Said(added)[i] = Append(Said(chain), x)[i]
    <3>1. CASE i = Len(chain) + 1
      BY <1>1, <1>2, <2>1, <3>1 DEF Assistants
    <3>2. CASE i \in 1 .. Len(chain)
      BY <1>1, <1>2, <2>1, <3>2 DEF Assistants
    <3> QED BY <1>1, <3>1, <3>2
  <2>4. /\ Said(added) = [i \in DOMAIN Said(added) |-> Said(added)[i]]
        /\ Append(Said(chain), x) = [i \in DOMAIN Append(Said(chain), x) |-> Append(Said(chain), x)[i]]
    BY <1>2, <1>3
  <2> HIDE DEF Said, x
  <2> QED BY <2>2, <2>3, <2>4
<1>5. Total(Append(Said(chain), x)) = Total(Said(chain)) + x /\ Total(Said(chain)) \in Int
  <2> HIDE DEF Said, x
  <2> QED BY <1>2, <1>3, TotalAppend
<1>6. SaidText(chain) = Total(Said(chain)) /\ SaidText(added) = Total(Said(added))
  BY DEF SaidText
<1>7. SaidText(<<>>) = 0
  <2>1. Said(<<>>) = <<>>
    OBVIOUS
  <2>2. Total(<<>>) = 0
    <3>1. <<>> \in Seq(Int) /\ 0 \in Int
      OBVIOUS
    <3> QED BY <3>1, TotalAppend
  <2> QED BY <2>1, <2>2 DEF SaidText
<1> HIDE DEF Said
<1> QED BY <1>4, <1>5, <1>6, <1>7

\* A chain with one message more.
OneMore(chain, m, added) ==
    /\ added \in ChainSet /\ Len(added) = Len(chain) + 1 /\ Len(chain) \in Nat
    /\ DOMAIN added = DOMAIN chain \cup {Len(added)} /\ Len(added) \notin DOMAIN chain
    /\ added[Len(added)] = m
    /\ \A i \in DOMAIN chain : added[i] = chain[i] /\ i \in 1 .. Len(chain) /\ i < Len(added)
    /\ m.role = "assistant" => /\ Assistants(added) = Assistants(chain) \cup {Len(added)}
                               /\ Tools(added) = Tools(chain)
    /\ m.role # "assistant" => /\ Assistants(added) = Assistants(chain)
                               /\ Tools(added) = Tools(chain) \cup {Len(added)}

\* That is what a chain to which a message is appended is.
LEMMA ChainAppend ==
    ASSUME NEW chain \in ChainSet, NEW m \in SaidSet \cup ToldSet
    PROVE  OneMore(chain, m, Append(chain, m))
<1>0. PICK added : added = Append(chain, m)
  OBVIOUS
<1>1. /\ added \in ChainSet /\ Len(added) = Len(chain) + 1 /\ Len(chain) \in Nat
      /\ DOMAIN chain = 1 .. Len(chain)
      /\ DOMAIN added = DOMAIN chain \cup {Len(added)} /\ Len(added) \notin DOMAIN chain
      /\ added[Len(added)] = m
      /\ \A i \in DOMAIN chain : added[i] = chain[i] /\ i \in 1 .. Len(chain) /\ i < Len(added)
  BY <1>0 DEF ChainSet
<1>2. /\ m.role = "assistant" => Assistants(added) = Assistants(chain) \cup {Len(added)}
      /\ m.role # "assistant" => Assistants(added) = Assistants(chain)
  BY <1>1 DEF Assistants
<1>3. /\ m.role = "assistant" => Tools(added) = Tools(chain)
      /\ m.role # "assistant" => Tools(added) = Tools(chain) \cup {Len(added)}
  <2>1. Assistants(chain) \subseteq DOMAIN chain
    BY DEF Assistants
  <2> QED BY <1>1, <1>2, <2>1 DEF Tools
<1>4. OneMore(chain, m, added)
  BY <1>1, <1>2, <1>3 DEF OneMore
<1> QED BY <1>0, <1>4

\* What is declared: the ids of the assistants' calls.
LEMMA DeclaredBy ==
    ASSUME NEW r, NEW id
    PROVE  id \in Declared(r) <=> \E i \in Assistants(r.chain) : id \in IdsOf(r.chain[i].calls)
  BY DEF Declared

\* What a message adds to it.
LEMMA DeclaredAppend ==
    ASSUME NEW r, r.chain \in ChainSet, NEW m \in SaidSet \cup ToldSet,
           NEW s, s.chain = Append(r.chain, m)
    PROVE  Declared(s) = IF m.role = "assistant" THEN Declared(r) \cup IdsOf(m.calls) ELSE Declared(r)
<1>1. Assistants(r.chain) \subseteq DOMAIN r.chain
  BY DEF Assistants
<1>2. OneMore(r.chain, m, s.chain)
  BY ChainAppend
<1>3. \A id : id \in Declared(s) <=>
                 id \in (IF m.role = "assistant" THEN Declared(r) \cup IdsOf(m.calls) ELSE Declared(r))
  <2> TAKE id
  <2>1. id \in Declared(s) <=> \E i \in Assistants(s.chain) : id \in IdsOf(s.chain[i].calls)
    BY DeclaredBy
  <2>2. id \in Declared(r) <=> \E i \in Assistants(r.chain) : id \in IdsOf(r.chain[i].calls)
    BY DeclaredBy
  <2> QED BY <1>1, <1>2, <2>1, <2>2 DEF OneMore
<1> QED BY <1>3, Zenon

-----------------------------------------------------------------------------
(* The reducer: every event it accepts *)

\* The fields of a reducer.
LEMMA ReducerTypes ==
    ASSUME NEW r \in ReducerSet
    PROVE  /\ r.chain \in ChainSet /\ r.blocks \in Seq(BlockSet)
           /\ r.started \in SUBSET CallIds /\ r.resolved \in SUBSET CallIds
           /\ r.textBlock \in Nat /\ r.deltas \in TextSet /\ r.value \in Nat /\ r.sources \in Nat
           /\ DOMAIN r.blocks = 1 .. Len(r.blocks) /\ Len(r.blocks) \in Nat
           /\ \A i \in DOMAIN r.blocks : r.blocks[i] \in BlockSet
<1>1. /\ r.chain \in ChainSet /\ r.blocks \in Seq(BlockSet)
      /\ r.started \in SUBSET CallIds /\ r.resolved \in SUBSET CallIds
      /\ r.textBlock \in Nat /\ r.deltas \in TextSet /\ r.value \in Nat /\ r.sources \in Nat
  BY DEF ReducerSet
<1> QED BY <1>1

\* The block of a call is not a text.
LEMMA CallBlocks ==
    ASSUME NEW b \in BlockSet
    PROVE  /\ b.id \in CallIds <=> b.type = "tool"
           /\ b.type = "tool" => b.status \in {"pending", "done", "error"}
           /\ b.type # "tool" => b.status \in {"streaming", "done"}
<1>1. NoId \notin CallIds
  BY TurnAssumption DEF TurnAssumption
<1>2. CASE b \in TextBlocks
  BY <1>1, <1>2 DEF TextBlocks
<1>3. CASE b \in ToolBlocks
  BY <1>3 DEF ToolBlocks
<1> QED BY <1>2, <1>3 DEF BlockSet

\* Two reducers with the same blocks of calls.
SameTools(r, s) ==
    /\ \A i \in DOMAIN r.blocks : r.blocks[i].type = "tool" =>
          i \in DOMAIN s.blocks /\ s.blocks[i] = r.blocks[i]
    /\ \A i \in DOMAIN s.blocks : s.blocks[i].type = "tool" =>
          i \in DOMAIN r.blocks /\ s.blocks[i] = r.blocks[i]

\* They are in order together.
LEMMA TidyKept ==
    ASSUME NEW r \in ReducerSet, NEW s \in ReducerSet, Tidy(r), SameTools(r, s),
           s.started = r.started, s.resolved = r.resolved, Declared(r) \subseteq Declared(s)
    PROVE  Tidy(s)
<1>1. /\ \A i \in DOMAIN r.blocks : r.blocks[i] \in BlockSet
      /\ \A i \in DOMAIN s.blocks : s.blocks[i] \in BlockSet
  BY ReducerTypes
<1>2. s.resolved \subseteq s.started /\ s.started \subseteq Declared(s)
  BY DEF Tidy
<1>3. ASSUME NEW id \in s.started PROVE \E i \in DOMAIN s.blocks : s.blocks[i].id = id
  <2>1. id \in CallIds
    BY ReducerTypes
  <2>2. PICK i \in DOMAIN r.blocks : r.blocks[i].id = id
    BY DEF Tidy
  <2>3. r.blocks[i].type = "tool"
    BY <1>1, <2>1, <2>2, CallBlocks
  <2> QED BY <2>2, <2>3 DEF SameTools
<1>4. ASSUME NEW i \in DOMAIN s.blocks, s.blocks[i].type = "tool"
      PROVE  /\ s.blocks[i].id \in s.started
             /\ s.blocks[i].status = "pending" <=> s.blocks[i].id \notin s.resolved
             /\ \A j \in DOMAIN s.blocks : s.blocks[j].id = s.blocks[i].id => j = i
  <2>1. i \in DOMAIN r.blocks /\ s.blocks[i] = r.blocks[i] /\ r.blocks[i].type = "tool"
    BY <1>4 DEF SameTools
  <2>2. ASSUME NEW j \in DOMAIN s.blocks, s.blocks[j].id = s.blocks[i].id PROVE j = i
    <3>1. s.blocks[i].id \in CallIds
      BY <1>1, <1>4, CallBlocks
    <3>2. s.blocks[j].type = "tool"
      BY <1>1, <2>2, <3>1, CallBlocks
    <3>3. j \in DOMAIN r.blocks /\ s.blocks[j] = r.blocks[j]
      BY <3>2 DEF SameTools
    <3> QED BY <2>1, <2>2, <3>3 DEF Tidy
  <2> QED BY <2>1, <2>2 DEF Tidy
<1> QED BY <1>2, <1>3, <1>4 DEF Tidy

\* The block of a call that was started.
LEMMA BlockOfCall ==
    ASSUME NEW r \in ReducerSet, Tidy(r), NEW id \in r.started
    PROVE  LET i == ToolBlockOf(r, id)
           IN  i \in DOMAIN r.blocks /\ r.blocks[i].id = id /\ r.blocks[i].type = "tool"
<1>1. \E i \in DOMAIN r.blocks : r.blocks[i].id = id
  BY DEF Tidy
<1>2. ToolBlockOf(r, id) \in DOMAIN r.blocks /\ r.blocks[ToolBlockOf(r, id)].id = id
  BY <1>1, Zenon DEF ToolBlockOf
<1>3. id \in CallIds /\ r.blocks[ToolBlockOf(r, id)] \in BlockSet
  BY <1>2, ReducerTypes
<1> QED BY <1>2, <1>3, CallBlocks

\* More of a text.
LEMMA TextAppended ==
    ASSUME NEW b \in TextBlocks, NEW n \in Nat, NEW status \in {"streaming", "done"}
    PROVE  /\ AppendText(b, n, status) \in TextBlocks
           /\ AppendText(b, n, status).length = b.length + n
           /\ AppendText(b, n, status).status = status
<1>1. b.length \in Nat /\ b.length + n \in Nat
  BY DEF TextBlocks
<1>2. PICK k \in Nat : k = b.length + n
  BY <1>1
<1>3. AppendText(b, n, status) = [b EXCEPT !.length = k, !.status = status]
  BY <1>2, Zenon DEF AppendText
<1>4. /\ [b EXCEPT !.length = k, !.status = status] \in TextBlocks
      /\ [b EXCEPT !.length = k, !.status = status].length = k
      /\ [b EXCEPT !.length = k, !.status = status].status = status
  BY DEF TextBlocks
<1> QED BY <1>2, <1>3, <1>4

\* The output of a call.
LEMMA OutputIs ==
    ASSUME NEW b \in ToolBlocks, NEW n \in Nat, NEW status \in {"done", "error"}
    PROVE  /\ Output(b, n, status) \in ToolBlocks
           /\ Output(b, n, status).length = 0 /\ Output(b, n, status).id = b.id
           /\ Output(b, n, status).type = "tool" /\ Output(b, n, status).status = status
<1>1. b.data.weight \in Nat /\ b.data.depth \in Nat
  BY DEF ToolBlocks, DataSet
<1>2. PICK w \in Nat, k \in Nat : w = b.data.weight + n /\ k = b.data.depth
  BY <1>1
<1>5. PICK d : d = [weight |-> w, depth |-> k]
  OBVIOUS
<1>6. d \in DataSet
  BY <1>5 DEF DataSet
<1>3. Output(b, n, status) = [b EXCEPT !.data = d, !.status = status]
  BY <1>2, <1>5, Zenon DEF Output
<1>4. LET o == [b EXCEPT !.data = d, !.status = status]
      IN  o \in ToolBlocks /\ o.length = 0 /\ o.id = b.id /\ o.type = "tool" /\ o.status = status
  BY <1>6 DEF ToolBlocks
<1> QED BY <1>3, <1>4

\* A text that the provider streamed.
LEMMA DeltaAccepted ==
    ASSUME NEW r \in ReducerSet, ReducerInv(r), NEW e \in DeltaSet, ~DeltaRefused(r, e),
           NEW s, s = AcceptDelta(r, e)
    PROVE  /\ s \in ReducerSet /\ ReducerInv(s)
           /\ s.chain = r.chain /\ s.started = r.started /\ s.resolved = r.resolved
           /\ s.deltas = Join(r.deltas, e.text)
<1>1. /\ e.text \in TextSet /\ e.text.size \in Nat \ {0} /\ e.text.blank \in BOOLEAN
      /\ e.text.length \in Nat
      /\ r.deltas \in TextSet /\ r.deltas.size \in Nat /\ r.deltas.blank \in BOOLEAN
      /\ r.deltas.length \in Nat
  BY ReducerTypes DEF DeltaSet, TextSet
<1>2. /\ r.chain \in ChainSet /\ r.blocks \in Seq(BlockSet) /\ r.textBlock \in Nat /\ r.value \in Nat
      /\ DOMAIN r.blocks = 1 .. Len(r.blocks) /\ Len(r.blocks) \in Nat
      /\ \A i \in DOMAIN r.blocks : r.blocks[i] \in BlockSet
  BY ReducerTypes
<1> DEFINE old == Opened(r)
           at == OpenedAt(r)
           b == Appended(r, e)
<1>3. /\ s.chain = r.chain /\ s.started = r.started /\ s.resolved = r.resolved
      /\ s.deltas = Join(r.deltas, e.text) /\ s.value = r.value + e.text.length
      /\ s.textBlock = at /\ s.blocks = [old EXCEPT ![at] = b]
      /\ DOMAIN s = DOMAIN r
  BY DEF AcceptDelta, ReducerSet
<1>4. TextBlock \in TextBlocks /\ TextBlock.length = 0 /\ TextBlock \in BlockSet
  BY DEF TextBlock, TextBlocks, BlockSet
<1>5. /\ old \in Seq(BlockSet) /\ at \in DOMAIN old /\ at = Len(old)
      /\ old[at] \in TextBlocks /\ old[at].length = r.deltas.length
      /\ ShownText(old) = ShownText(r.blocks)
      /\ \A i \in DOMAIN old : i # at => i \in DOMAIN r.blocks /\ old[i] = r.blocks[i]
      /\ \A i \in DOMAIN r.blocks : i \in DOMAIN old /\ old[i] = r.blocks[i]
      /\ at \in DOMAIN r.blocks => r.blocks[at] \in TextBlocks
  <2>1. CASE r.textBlock = 0
    <3>1. old = Append(r.blocks, TextBlock) /\ at = Len(r.blocks) + 1 /\ Len(old) = Len(r.blocks) + 1
      BY <1>2, <2>1 DEF Opened, OpenedAt
    <3>2. ShownText(old) = ShownText(r.blocks) + 0 /\ ShownText(r.blocks) \in Int
      BY <1>2, <1>4, <3>1, ShownAppend, ShownTypes
    <3>3. r.deltas.length = 0
      BY <2>1 DEF ReducerInv, Whole, NoText
    <3> HIDE DEF old, at
    <3>4. ShownText(old) = ShownText(r.blocks)
      BY <3>2
    <3> QED BY <1>2, <1>4, <3>1, <3>3, <3>4
  <2>2. CASE r.textBlock # 0
    <3>1. old = r.blocks /\ at = r.textBlock
      BY <2>2 DEF Opened, OpenedAt
    <3>2. at = Len(r.blocks) /\ r.blocks[at].length = r.deltas.length
      BY <2>2, <3>1 DEF ReducerInv, Whole
    <3> HIDE DEF old, at
    <3>3. at \in DOMAIN r.blocks /\ r.blocks[at].status = "streaming"
      BY <1>2, <2>2, <3>1, <3>2 DEF ReducerInv, Whole
    <3>4. r.blocks[at] \in TextBlocks
      BY <1>2, <3>3, BlockTypes, CallBlocks
    <3> QED BY <1>2, <3>1, <3>2, <3>3, <3>4
  <2> QED BY <2>1, <2>2
<1> HIDE DEF old, at
<1>6. b \in TextBlocks /\ b \in BlockSet /\ b.length = r.deltas.length + e.text.length /\ b.status = "streaming"
  <2>1. PICK o \in TextBlocks : o = old[at] /\ o.length = r.deltas.length
    BY <1>5
  <2>2. /\ AppendText(o, e.text.length, "streaming") \in TextBlocks
        /\ AppendText(o, e.text.length, "streaming").length = o.length + e.text.length
        /\ AppendText(o, e.text.length, "streaming").status = "streaming"
    BY <1>1, TextAppended
  <2>3. b = AppendText(old[at], e.text.length, "streaming")
    BY Zenon DEF Appended, b, old, at
  <2> HIDE DEF b
  <2> QED BY <2>1, <2>2, <2>3 DEF BlockSet
<1> HIDE DEF b
<1>7. /\ s.blocks \in Seq(BlockSet) /\ Len(s.blocks) = Len(old) /\ DOMAIN s.blocks = DOMAIN old
      /\ s.blocks[at] = b /\ \A i \in DOMAIN old : i # at => s.blocks[i] = old[i]
  BY <1>3, <1>5, <1>6
<1>8. /\ s.deltas \in TextSet /\ s.deltas.size = r.deltas.size + e.text.size /\ s.deltas.size > 0
      /\ s.deltas.length = r.deltas.length + e.text.length
  BY <1>1, <1>3 DEF Join, TextSet
<1>9. s \in ReducerSet
  <2>1. s.textBlock \in Nat /\ s.value \in Nat
    BY <1>1, <1>2, <1>3, <1>5
  <2>2. s = [r EXCEPT !.blocks = s.blocks, !.textBlock = s.textBlock, !.deltas = s.deltas, !.value = s.value]
    BY <1>3 DEF AcceptDelta, ReducerSet
  <2> QED BY <1>7, <1>8, <2>1, <2>2 DEF ReducerSet
<1>10. Declared(s) = Declared(r) /\ Unresolved(s) = Unresolved(r) /\ Unresolved(r) = {}
  <2>1. Declared(s) = Declared(r)
    BY <1>3 DEF Declared
  <2> QED BY <1>3, <2>1 DEF Unresolved, DeltaRefused
<1>11. Whole(s)
  <2>1. ShownText(s.blocks) = ShownText(old) - old[at].length + b.length
    <3>1. at \in 1 .. Len(old) /\ \A k \in 1 .. Len(old) : k # at => s.blocks[k] = old[k]
      BY <1>5, <1>7
    <3> QED BY <1>5, <1>7, <3>1, ShownExcept
  <2>2. s.value = ShownText(s.blocks)
    <3>1. r.value = ShownText(old) /\ r.value \in Int
      <4>1. r.value = ShownText(r.blocks)
        BY DEF ReducerInv, Whole
      <4> QED BY <1>2, <1>5, <4>1
    <3>2. ShownText(s.blocks) = r.value - r.deltas.length + (r.deltas.length + e.text.length)
      BY <1>5, <1>6, <2>1, <3>1
    <3> QED BY <1>1, <1>3, <3>1, <3>2
  <2>3. s.value = SaidText(s.chain) + s.deltas.length
    <3>1. SaidText(r.chain) \in Int
      <4>1. [role |-> "assistant", text |-> NoText, plain |-> TRUE, calls |-> <<>>] \in SaidSet
        BY DEF SaidSet, NoText, TextSet
      <4> QED BY <1>2, <4>1, SaidAppend
    <3> QED BY <1>1, <1>2, <1>3, <1>8, <3>1 DEF ReducerInv, Whole
  <2>4. \A i \in DOMAIN s.blocks : s.blocks[i].status = "streaming" <=> i = s.textBlock
    <3> TAKE i \in DOMAIN s.blocks
    <3>1. CASE i = at
      BY <1>3, <1>6, <1>7, <3>1
    <3>2. CASE i # at
      <4>1. i \in DOMAIN r.blocks /\ s.blocks[i] = r.blocks[i]
        BY <1>5, <1>7, <3>2
      <4>2. i # r.textBlock
        <5>1. CASE r.textBlock = 0
          BY <1>2, <4>1, <5>1
        <5>2. CASE r.textBlock # 0
          BY <3>2, <5>2 DEF at, OpenedAt
        <5> QED BY <5>1, <5>2
      <4> QED BY <1>3, <3>2, <4>1, <4>2 DEF ReducerInv, Whole
    <3> QED BY <3>1, <3>2
  <2>5. /\ s.textBlock = Len(s.blocks) /\ s.textBlock # 0
        /\ s.blocks[s.textBlock].length = s.deltas.length
    BY <1>3, <1>5, <1>6, <1>7, <1>8
  <2> QED BY <1>8, <1>10, <2>2, <2>3, <2>4, <2>5 DEF Whole
<1>12. AnswerIsLast(s)
  <2>1. s.textBlock # 0
    BY <1>3, <1>5
  <2> QED BY <1>10, <2>1 DEF AnswerIsLast
<1>13. Tidy(s)
  <2>1. SameTools(r, s)
    <3>1. ASSUME NEW i \in DOMAIN r.blocks, r.blocks[i].type = "tool"
          PROVE  i \in DOMAIN s.blocks /\ s.blocks[i] = r.blocks[i]
      <4>1. i # at
        BY <1>5, <3>1 DEF TextBlocks
      <4> QED BY <1>5, <1>7, <4>1
    <3>2. ASSUME NEW i \in DOMAIN s.blocks, s.blocks[i].type = "tool"
          PROVE  i \in DOMAIN r.blocks /\ s.blocks[i] = r.blocks[i]
      <4>1. i # at
        BY <1>6, <1>7, <3>2 DEF TextBlocks
      <4> QED BY <1>5, <1>7, <4>1
    <3> QED BY <3>1, <3>2 DEF SameTools
  <2> QED BY <1>3, <1>9, <1>10, <2>1, TidyKept DEF ReducerInv
<1>14. Chained(s.chain, s.resolved)
  BY <1>3 DEF ReducerInv
<1> QED BY <1>3, <1>9, <1>11, <1>12, <1>13, <1>14 DEF ReducerInv

\* The message of the assistant.
LEMMA AssistantAccepted ==
    ASSUME NEW r \in ReducerSet, ReducerInv(r), NEW e \in AssistantSet, ~AssistantRefused(r, e),
           NEW s, s = AcceptAssistant(r, e)
    PROVE  /\ s \in ReducerSet /\ ReducerInv(s)
           /\ s.chain = Append(r.chain, AssistantMessage(e)) /\ s.started = r.started
           /\ s.resolved = r.resolved /\ s.deltas = NoText
           /\ Declared(s) = Declared(r) \cup IdsOf(e.calls)
<1>1. /\ e.text \in TextSet /\ e.text.length \in Nat /\ e.calls \in Seq(CallSet)
      /\ e.plain \in BOOLEAN
  BY DEF AssistantSet, TextSet
<1>2. /\ r.chain \in ChainSet /\ r.blocks \in Seq(BlockSet) /\ r.textBlock \in Nat /\ r.value \in Nat
      /\ DOMAIN r.blocks = 1 .. Len(r.blocks) /\ Len(r.blocks) \in Nat
      /\ \A i \in DOMAIN r.blocks : r.blocks[i] \in BlockSet
  BY ReducerTypes
<1>3. Unresolved(r) = {} /\ r.deltas = e.text /\ IdsOf(e.calls) \cap Declared(r) = {}
  BY DEF AssistantRefused
<1> DEFINE m == AssistantMessage(e)
           b == AppendText(r.blocks[r.textBlock], 0, "done")
<1>4. /\ s.chain = Append(r.chain, m) /\ s.started = r.started /\ s.resolved = r.resolved
      /\ s.deltas = NoText /\ s.value = r.value /\ s.textBlock = 0
      /\ s.blocks = IF r.textBlock = 0 THEN r.blocks ELSE [r.blocks EXCEPT ![r.textBlock] = b]
      /\ s = [r EXCEPT !.blocks = s.blocks, !.textBlock = s.textBlock, !.deltas = s.deltas, !.chain = s.chain]
  <2>1. PICK new : new = IF r.textBlock = 0 THEN r.blocks ELSE [r.blocks EXCEPT ![r.textBlock] = b]
    OBVIOUS
  <2>2. PICK chain : chain = Append(r.chain, m)
    OBVIOUS
  <2>3. s = [r EXCEPT !.blocks = new, !.textBlock = 0, !.deltas = NoText, !.chain = chain]
    <3>1. s = [r EXCEPT !.blocks = IF r.textBlock = 0 THEN r.blocks
                                   ELSE [r.blocks EXCEPT ![r.textBlock] = AppendText(@, 0, "done")],
                        !.textBlock = 0, !.deltas = NoText,
                        !.chain = Append(r.chain, AssistantMessage(e))]
      BY DEF AcceptAssistant
    <3>2. new = IF r.textBlock = 0 THEN r.blocks
                ELSE [r.blocks EXCEPT ![r.textBlock] = AppendText(@, 0, "done")]
      BY <2>1
    <3> QED BY <2>2, <3>1, <3>2, Zenon
  <2> HIDE DEF b, m
  <2>4. /\ s.chain = chain /\ s.started = r.started /\ s.resolved = r.resolved
        /\ s.deltas = NoText /\ s.value = r.value /\ s.textBlock = 0 /\ s.blocks = new
    BY <2>3 DEF ReducerSet
  <2> QED BY <2>1, <2>2, <2>3, <2>4
<1>5. m \in SaidSet /\ m.role = "assistant" /\ m.text = e.text /\ m.calls = e.calls
  BY <1>1 DEF AssistantMessage, SaidSet
<1> HIDE DEF m
<1>6. OneMore(r.chain, m, s.chain)
  BY <1>2, <1>4, <1>5, ChainAppend
<1>7. ASSUME r.textBlock # 0
      PROVE  /\ r.textBlock \in DOMAIN r.blocks /\ r.textBlock = Len(r.blocks)
             /\ r.blocks[r.textBlock] \in TextBlocks /\ r.blocks[r.textBlock].length = r.deltas.length
             /\ b \in TextBlocks /\ b.length = r.deltas.length /\ b.status = "done"
  <2>1. /\ r.textBlock \in DOMAIN r.blocks /\ r.textBlock = Len(r.blocks)
        /\ r.blocks[r.textBlock].length = r.deltas.length
        /\ r.blocks[r.textBlock].status = "streaming"
    BY <1>2, <1>7 DEF ReducerInv, Whole
  <2>2. r.blocks[r.textBlock] \in TextBlocks
    BY <1>2, <2>1, BlockTypes, CallBlocks
  <2>3. b \in TextBlocks /\ b.length = r.deltas.length + 0 /\ b.status = "done"
    BY <2>1, <2>2, TextAppended
  <2>4. b.length = r.deltas.length
    BY <1>1, <1>3, <2>3
  <2> QED BY <2>1, <2>2, <2>3, <2>4
<1> HIDE DEF b
<1>8. /\ s.blocks \in Seq(BlockSet) /\ Len(s.blocks) = Len(r.blocks) /\ DOMAIN s.blocks = DOMAIN r.blocks
      /\ \A i \in DOMAIN r.blocks : i # r.textBlock => s.blocks[i] = r.blocks[i]
      /\ r.textBlock # 0 => s.blocks[r.textBlock] = b
      /\ \A i \in DOMAIN r.blocks : s.blocks[i].length = r.blocks[i].length
  <2>1. CASE r.textBlock = 0
    BY <1>2, <1>4, <2>1
  <2>2. CASE r.textBlock # 0
    <3>1. b \in BlockSet
      BY <1>7, <2>2 DEF BlockSet
    <3>2. s.blocks = [r.blocks EXCEPT ![r.textBlock] = b]
      BY <1>4, <2>2
    <3>3. /\ s.blocks \in Seq(BlockSet) /\ Len(s.blocks) = Len(r.blocks) /\ DOMAIN s.blocks = DOMAIN r.blocks
          /\ \A i \in DOMAIN r.blocks : i # r.textBlock => s.blocks[i] = r.blocks[i]
          /\ s.blocks[r.textBlock] = b
      BY <1>2, <1>7, <2>2, <3>1, <3>2
    <3> QED BY <1>7, <2>2, <3>3
  <2> QED BY <2>1, <2>2
<1>9. s \in ReducerSet
  <2>1. NoText \in TextSet /\ s.chain \in ChainSet
    BY <1>6 DEF NoText, TextSet, OneMore
  <2>2. s.textBlock \in Nat /\ s.blocks \in Seq(BlockSet) /\ s.deltas \in TextSet
    BY <1>4, <1>8, <2>1
  <2>3. s = [r EXCEPT !.blocks = s.blocks, !.textBlock = s.textBlock, !.deltas = s.deltas, !.chain = s.chain]
    BY <1>4
  <2> QED BY <2>1, <2>2, <2>3 DEF ReducerSet
<1>10. Declared(s) = Declared(r) \cup IdsOf(e.calls)
  <2>1. PICK n : n = m
    OBVIOUS
  <2>2. n \in SaidSet \cup ToldSet /\ s.chain = Append(r.chain, n) /\ n.role = "assistant" /\ n.calls = e.calls
    BY <1>4, <1>5, <2>1
  <2> QED BY <1>2, <2>2, DeclaredAppend
<1>11. Whole(s)
  <2>1. ShownText(s.blocks) = ShownText(r.blocks)
    <3>1. DOMAIN s.blocks = DOMAIN r.blocks /\ \A i \in DOMAIN r.blocks : s.blocks[i].length = r.blocks[i].length
      BY <1>8
    <3>2. [i \in DOMAIN s.blocks |-> s.blocks[i].length] = [i \in DOMAIN r.blocks |-> r.blocks[i].length]
      BY <3>1
    <3> QED BY <3>2 DEF ShownText
  <2>2. s.value = ShownText(s.blocks)
    BY <1>4, <2>1 DEF ReducerInv, Whole
  <2>3. s.value = SaidText(s.chain) + s.deltas.length
    <3>1. SaidText(s.chain) = SaidText(r.chain) + e.text.length /\ SaidText(r.chain) \in Int
      BY <1>2, <1>4, <1>5, SaidAppend
    <3>2. r.value = SaidText(r.chain) + r.deltas.length
      BY DEF ReducerInv, Whole
    <3>3. s.deltas.length = 0
      BY <1>4 DEF NoText
    <3> QED BY <1>1, <1>3, <1>4, <3>1, <3>2, <3>3
  <2>4. \A i \in DOMAIN s.blocks : s.blocks[i].status = "streaming" <=> i = s.textBlock
    <3> TAKE i \in DOMAIN s.blocks
    <3>1. i # s.textBlock
      BY <1>2, <1>4, <1>8
    <3>2. s.blocks[i].status # "streaming"
      <4>1. CASE i = r.textBlock
        BY <1>2, <1>7, <1>8, <4>1
      <4>2. CASE i # r.textBlock
        BY <1>8, <4>2 DEF ReducerInv, Whole
      <4> QED BY <4>1, <4>2
    <3> QED BY <3>1, <3>2
  <2> QED BY <1>4, <2>2, <2>3, <2>4 DEF Whole
<1>12. AnswerIsLast(s)
  <2>1. s.chain[Len(s.chain)] = m /\ s.chain # <<>>
    BY <1>6 DEF OneMore
  <2>2. ASSUME e.calls = <<>> PROVE Unresolved(s) = {}
    <3>1. IdsOf(e.calls) = {}
      BY <2>2 DEF IdsOf
    <3> QED BY <1>3, <1>4, <1>10, <3>1 DEF Unresolved
  <2>3. ASSUME ~e.text.blank
        PROVE  s.blocks # <<>> /\ s.blocks[Len(s.blocks)].length = e.text.length
    <3>1. r.textBlock # 0
      BY <1>3, <2>3 DEF ReducerInv, Whole, NoText
    <3>2. Len(s.blocks) = r.textBlock /\ s.blocks[r.textBlock].length = r.deltas.length
      BY <1>7, <1>8, <3>1
    <3> QED BY <1>3, <1>8, <3>1, <3>2
  <2> QED BY <1>5, <2>1, <2>2, <2>3 DEF AnswerIsLast
<1>13. Tidy(s)
  <2>1. SameTools(r, s)
    <3>1. ASSUME NEW i \in DOMAIN r.blocks, r.blocks[i].type = "tool"
          PROVE  i \in DOMAIN s.blocks /\ s.blocks[i] = r.blocks[i]
      <4>1. i # r.textBlock
        BY <1>2, <1>7, <3>1 DEF TextBlocks
      <4> QED BY <1>8, <4>1
    <3>2. ASSUME NEW i \in DOMAIN s.blocks, s.blocks[i].type = "tool"
          PROVE  i \in DOMAIN r.blocks /\ s.blocks[i] = r.blocks[i]
      <4>1. i # r.textBlock
        BY <1>2, <1>7, <1>8, <3>2 DEF TextBlocks
      <4> QED BY <1>8, <4>1
    <3> QED BY <3>1, <3>2 DEF SameTools
  <2> QED BY <1>4, <1>9, <1>10, <2>1, TidyKept DEF ReducerInv
<1>14. Chained(s.chain, s.resolved)
  <2>1. Assistants(r.chain) \subseteq DOMAIN r.chain /\ Tools(r.chain) \subseteq DOMAIN r.chain
    BY DEF Assistants, Tools
  <2>2. PICK n : n = Len(s.chain)
    OBVIOUS
  <2>3. /\ Assistants(s.chain) = Assistants(r.chain) \cup {n} /\ Tools(s.chain) = Tools(r.chain)
        /\ s.chain[n] = m /\ \A i \in DOMAIN r.chain : s.chain[i] = r.chain[i] /\ i \in Nat /\ i < n
        /\ n \notin DOMAIN r.chain /\ n \in Nat
    BY <1>5, <1>6, <2>2 DEF OneMore
  <2>4. \A i \in Assistants(r.chain) : IdsOf(r.chain[i].calls) \subseteq Declared(r)
    BY DeclaredBy
  <2>5. Declared(r) \subseteq r.resolved
    BY <1>3 DEF Unresolved
  <2>6. \A i, j \in Assistants(s.chain) :
           i # j => IdsOf(s.chain[i].calls) \cap IdsOf(s.chain[j].calls) = {}
    BY <1>3, <1>5, <2>1, <2>3, <2>4 DEF ReducerInv, Chained
  <2>7. \A i, j \in Assistants(s.chain) : i < j => IdsOf(s.chain[i].calls) \subseteq s.resolved
    <3> TAKE i, j \in Assistants(s.chain)
    <3>1. CASE i = n
      BY <2>1, <2>3, <3>1
    <3>2. CASE i # n
      BY <1>4, <2>1, <2>3, <2>4, <2>5, <3>2
    <3> QED BY <3>1, <3>2
  <2>8. ASSUME NEW i \in Assistants(s.chain), NEW id \in IdsOf(s.chain[i].calls) \cap s.resolved
        PROVE  \E k \in Tools(s.chain) :
                  /\ i < k /\ s.chain[k].id = id
                  /\ \A j \in Assistants(s.chain) : i < j => k < j
    <3>1. CASE i = n
      <4>1. id \in Declared(r)
        BY <1>4, <2>8 DEF ReducerInv, Tidy
      <4> QED BY <1>3, <1>5, <2>3, <2>8, <3>1, <4>1
    <3>2. CASE i # n
      <4>1. i \in Assistants(r.chain) /\ id \in IdsOf(r.chain[i].calls) \cap r.resolved
        BY <1>4, <2>1, <2>3, <2>8, <3>2
      <4>2. PICK k \in Tools(r.chain) :
                  /\ i < k /\ r.chain[k].id = id
                  /\ \A j \in Assistants(r.chain) : i < j => k < j
        BY <4>1 DEF ReducerInv, Chained
      <4> QED BY <2>1, <2>3, <4>2
    <3> QED BY <3>1, <3>2
  <2>9. ASSUME NEW k \in Tools(s.chain)
        PROVE  /\ s.chain[k].id \in s.resolved
               /\ \E i \in Assistants(s.chain) : i < k /\ s.chain[k].id \in IdsOf(s.chain[i].calls)
               /\ \A l \in Tools(s.chain) : s.chain[l].id = s.chain[k].id => l = k
    <3>1. k \in Tools(r.chain) /\ s.chain[k] = r.chain[k]
      BY <2>1, <2>3
    <3>2. /\ r.chain[k].id \in r.resolved
          /\ \E i \in Assistants(r.chain) : i < k /\ r.chain[k].id \in IdsOf(r.chain[i].calls)
          /\ \A l \in Tools(r.chain) : r.chain[l].id = r.chain[k].id => l = k
      BY <3>1 DEF ReducerInv, Chained
    <3> QED BY <1>4, <2>1, <2>3, <3>1, <3>2
  <2> QED BY <2>6, <2>7, <2>8, <2>9 DEF Chained
<1> QED BY <1>4, <1>9, <1>10, <1>11, <1>12, <1>13, <1>14 DEF ReducerInv, m

\* The start of a call.
LEMMA StartAccepted ==
    ASSUME NEW r \in ReducerSet, ReducerInv(r), NEW e \in StartSet, ~StartRefused(r, e),
           NEW s, s = AcceptStart(r, e)
    PROVE  /\ s \in ReducerSet /\ ReducerInv(s)
           /\ s.chain = r.chain /\ s.started = r.started \cup {e.id} /\ s.resolved = r.resolved
           /\ s.deltas = r.deltas
<1>1. /\ e.id \in CallIds /\ e.id \in Declared(r) /\ e.id \notin r.started /\ e.id \notin r.resolved
      /\ e.arguments \in DataSet
  BY DEF StartSet, StartRefused, ReducerInv, Tidy
<1>2. /\ r.chain \in ChainSet /\ r.blocks \in Seq(BlockSet) /\ r.textBlock \in Nat /\ r.value \in Nat
      /\ r.started \in SUBSET CallIds
      /\ DOMAIN r.blocks = 1 .. Len(r.blocks) /\ Len(r.blocks) \in Nat
      /\ \A i \in DOMAIN r.blocks : r.blocks[i] \in BlockSet
  BY ReducerTypes
<1>3. Unresolved(r) # {} /\ r.textBlock = 0
  <2>1. Unresolved(r) # {}
    BY <1>1 DEF Unresolved
  <2> QED BY <2>1 DEF ReducerInv, Whole
<1> DEFINE b == ToolBlock(e)
<1>4. b \in ToolBlocks /\ b \in BlockSet /\ b.length = 0 /\ b.id = e.id /\ b.status = "pending" /\ b.type = "tool"
  BY <1>1 DEF ToolBlock, ToolBlocks, BlockSet
<1>5. s = [r EXCEPT !.started = r.started \cup {e.id}, !.blocks = Append(r.blocks, b)]
  BY DEF AcceptStart
<1> HIDE DEF b
<1>6. /\ s.chain = r.chain /\ s.started = r.started \cup {e.id} /\ s.resolved = r.resolved
      /\ s.deltas = r.deltas /\ s.value = r.value /\ s.textBlock = r.textBlock
      /\ s.blocks = Append(r.blocks, b)
  BY <1>5 DEF ReducerSet
<1>7. /\ s.blocks \in Seq(BlockSet) /\ Len(s.blocks) = Len(r.blocks) + 1
      /\ DOMAIN s.blocks = 1 .. Len(r.blocks) + 1
      /\ s.blocks[Len(r.blocks) + 1] = b /\ \A i \in DOMAIN r.blocks : s.blocks[i] = r.blocks[i]
  BY <1>2, <1>4, <1>6
<1>8. s \in ReducerSet
  BY <1>1, <1>2, <1>5, <1>6, <1>7 DEF ReducerSet
<1>9. Declared(s) = Declared(r) /\ Unresolved(s) = Unresolved(r)
  <2>1. Declared(s) = Declared(r)
    BY <1>6 DEF Declared
  <2> QED BY <1>6, <2>1 DEF Unresolved
<1>10. Whole(s)
  <2>1. ShownText(s.blocks) = ShownText(r.blocks) + 0 /\ ShownText(r.blocks) \in Int
    BY <1>2, <1>4, <1>6, ShownAppend, ShownTypes
  <2>2. ShownText(s.blocks) = ShownText(r.blocks)
    BY <2>1
  <2>3. s.value = ShownText(s.blocks) /\ s.value = SaidText(s.chain) + s.deltas.length
    BY <1>6, <2>2 DEF ReducerInv, Whole
  <2>4. ASSUME NEW i \in DOMAIN s.blocks PROVE s.blocks[i].status = "streaming" <=> i = s.textBlock
    <3>1. CASE i = Len(r.blocks) + 1
      BY <1>2, <1>3, <1>4, <1>6, <1>7, <3>1
    <3>2. CASE i \in DOMAIN r.blocks
      BY <1>6, <1>7, <3>2 DEF ReducerInv, Whole
    <3> QED BY <1>2, <1>7, <3>1, <3>2
  <2>5. s.textBlock = 0 /\ s.deltas = NoText
    BY <1>3, <1>6 DEF ReducerInv, Whole
  <2> QED BY <2>3, <2>4, <2>5 DEF Whole
<1>11. AnswerIsLast(s)
  BY <1>3, <1>6, <1>9 DEF ReducerInv, AnswerIsLast
<1>12. Tidy(s)
  <2>1. s.resolved \subseteq s.started /\ s.started \subseteq Declared(s)
    BY <1>1, <1>6, <1>9 DEF ReducerInv, Tidy
  <2>2. ASSUME NEW id \in s.started PROVE \E i \in DOMAIN s.blocks : s.blocks[i].id = id
    <3>1. CASE id = e.id
      BY <1>2, <1>4, <1>7, <3>1
    <3>2. CASE id \in r.started
      <4>1. PICK i \in DOMAIN r.blocks : r.blocks[i].id = id
        BY <3>2 DEF ReducerInv, Tidy
      <4> QED BY <1>2, <1>7, <4>1
    <3> QED BY <1>6, <3>1, <3>2
  <2>3. ASSUME NEW i \in DOMAIN r.blocks PROVE r.blocks[i].id # e.id
    <3>1. ASSUME r.blocks[i].id = e.id PROVE FALSE
      <4>1. r.blocks[i].type = "tool"
        BY <1>1, <1>2, <3>1, CallBlocks
      <4> QED BY <1>1, <3>1, <4>1 DEF ReducerInv, Tidy
    <3> QED BY <3>1
  <2>4. ASSUME NEW i \in DOMAIN s.blocks, s.blocks[i].type = "tool"
        PROVE  /\ s.blocks[i].id \in s.started
               /\ s.blocks[i].status = "pending" <=> s.blocks[i].id \notin s.resolved
               /\ \A j \in DOMAIN s.blocks : s.blocks[j].id = s.blocks[i].id => j = i
    <3>1. \A j \in DOMAIN s.blocks : j = Len(r.blocks) + 1 \/ j \in DOMAIN r.blocks
      BY <1>2, <1>7
    <3>2. CASE i = Len(r.blocks) + 1
      BY <1>1, <1>4, <1>6, <1>7, <2>3, <3>1, <3>2
    <3>3. CASE i \in DOMAIN r.blocks
      <4>1. s.blocks[i] = r.blocks[i]
        BY <1>7, <3>3
      <4>2. /\ r.blocks[i].id \in r.started
            /\ r.blocks[i].status = "pending" <=> r.blocks[i].id \notin r.resolved
            /\ \A j \in DOMAIN r.blocks : r.blocks[j].id = r.blocks[i].id => j = i
        BY <2>4, <3>3, <4>1 DEF ReducerInv, Tidy
      <4>3. ASSUME NEW j \in DOMAIN s.blocks, s.blocks[j].id = s.blocks[i].id PROVE j = i
        <5>1. j \in DOMAIN r.blocks
          BY <1>4, <1>7, <2>3, <3>1, <3>3, <4>1, <4>3
        <5> QED BY <1>7, <4>1, <4>2, <4>3, <5>1
      <4> QED BY <1>6, <4>1, <4>2, <4>3
    <3> QED BY <3>1, <3>2, <3>3
  <2> QED BY <2>1, <2>2, <2>4 DEF Tidy
<1>13. Chained(s.chain, s.resolved)
  BY <1>6 DEF ReducerInv
<1> QED BY <1>6, <1>8, <1>10, <1>11, <1>12, <1>13 DEF ReducerInv

\* The answer of a call.
LEMMA ResultAccepted ==
    ASSUME NEW r \in ReducerSet, ReducerInv(r), NEW e \in AnsweredSet, ~ResultRefused(r, e),
           NEW s, s = AcceptResult(r, e)
    PROVE  /\ s \in ReducerSet /\ ReducerInv(s)
           /\ s.chain = Append(r.chain, ToolMessage(e)) /\ s.started = r.started
           /\ s.resolved = r.resolved \cup {e.id} /\ s.deltas = r.deltas
           /\ Declared(s) = Declared(r)
<1>1. e.id \in CallIds /\ e.id \in Declared(r) /\ e.id \in r.started /\ e.id \notin r.resolved
  BY DEF AnsweredSet, ResultRefused
<1>0. e.result.length \in Nat /\ e.result.sources \in Nat /\ e.result.error \in BOOLEAN
  BY DEF AnsweredSet, ResultSet
<1>2. /\ r.chain \in ChainSet /\ r.blocks \in Seq(BlockSet) /\ r.textBlock \in Nat /\ r.value \in Nat
      /\ r.sources \in Nat /\ r.resolved \in SUBSET CallIds
      /\ DOMAIN r.blocks = 1 .. Len(r.blocks) /\ Len(r.blocks) \in Nat
      /\ \A i \in DOMAIN r.blocks : r.blocks[i] \in BlockSet
  BY ReducerTypes
<1>3. Unresolved(r) # {} /\ r.textBlock = 0
  <2>1. Unresolved(r) # {}
    BY <1>1 DEF Unresolved
  <2> QED BY <2>1 DEF ReducerInv, Whole
<1>4. PICK at : at = ToolBlockOf(r, e.id)
  OBVIOUS
<1>5. at \in DOMAIN r.blocks /\ r.blocks[at].id = e.id /\ r.blocks[at].type = "tool"
  BY <1>1, <1>4, BlockOfCall DEF ReducerInv
<1> DEFINE b == ApplyResult(r.blocks[at], e.result)
           m == ToolMessage(e)
<1>6. b \in ToolBlocks /\ b \in BlockSet /\ b.length = 0 /\ b.id = e.id /\ b.type = "tool"
      /\ b.status \in {"done", "error"}
  <2>1. PICK o \in ToolBlocks : o = r.blocks[at]
    BY <1>2, <1>5, BlockTypes
  <2>2. PICK st \in {"done", "error"} : b = Output(o, e.result.length, st)
    <3>1. PICK st : st = IF e.result.error THEN "error" ELSE "done"
      OBVIOUS
    <3>2. b = Output(o, e.result.length, st)
      BY <2>1, <3>1, Zenon DEF ApplyResult
    <3>3. st \in {"done", "error"}
      BY <3>1, Zenon
    <3> QED BY <3>2, <3>3, Zenon
  <2> HIDE DEF b
  <2>3. PICK n \in Nat : n = e.result.length
    BY <1>0
  <2>4. /\ Output(o, n, st) \in ToolBlocks
        /\ Output(o, n, st).length = 0 /\ Output(o, n, st).id = o.id
        /\ Output(o, n, st).type = "tool" /\ Output(o, n, st).status = st
    BY OutputIs
  <2>5. b = Output(o, n, st)
    BY <2>2, <2>3, Zenon
  <2> QED BY <1>5, <2>1, <2>4, <2>5 DEF BlockSet
<1>7. m \in ToldSet /\ m.role = "tool" /\ m.id = e.id
  BY <1>0, <1>1 DEF ToolMessage, ToldSet
<1> DEFINE all == r.sources + e.result.sources
<1>18. PICK src : src = IF all <= MaxSources THEN all ELSE MaxSources
  OBVIOUS
<1>19. src \in Nat
  BY <1>0, <1>2, <1>18, Limits
<1> HIDE DEF all
<1>8. s = [r EXCEPT !.resolved = r.resolved \cup {e.id}, !.blocks = [r.blocks EXCEPT ![at] = b],
                    !.chain = Append(r.chain, m), !.sources = src]
  <2>1. s = [r EXCEPT !.resolved = r.resolved \cup {e.id},
                      !.blocks = [r.blocks EXCEPT ![ToolBlockOf(r, e.id)] =
                                    ApplyResult(r.blocks[ToolBlockOf(r, e.id)], e.result)],
                      !.chain = Append(r.chain, ToolMessage(e)),
                      !.sources = IF r.sources + e.result.sources <= MaxSources
                                    THEN r.sources + e.result.sources ELSE MaxSources]
    BY DEF AcceptResult
  <2>2. s = [r EXCEPT !.resolved = r.resolved \cup {e.id},
                      !.blocks = [r.blocks EXCEPT ![at] = b],
                      !.chain = Append(r.chain, m),
                      !.sources = IF all <= MaxSources THEN all ELSE MaxSources]
    BY <1>4, <2>1, Zenon DEF all
  <2> QED BY <1>18, <2>2, Zenon
<1> HIDE DEF b, m
<1>9. /\ s.chain = Append(r.chain, m) /\ s.started = r.started
      /\ s.resolved = r.resolved \cup {e.id}
      /\ s.deltas = r.deltas /\ s.value = r.value /\ s.textBlock = r.textBlock
      /\ s.blocks = [r.blocks EXCEPT ![at] = b]
  BY <1>8 DEF ReducerSet
<1>10. OneMore(r.chain, m, s.chain)
  BY <1>2, <1>7, <1>9, ChainAppend
<1>11. /\ s.blocks \in Seq(BlockSet) /\ Len(s.blocks) = Len(r.blocks) /\ DOMAIN s.blocks = DOMAIN r.blocks
       /\ s.blocks[at] = b /\ \A i \in DOMAIN r.blocks : i # at => s.blocks[i] = r.blocks[i]
  BY <1>2, <1>5, <1>6, <1>9
<1>12. s \in ReducerSet
  <2>1. s.chain \in ChainSet
    BY <1>10 DEF OneMore
  <2>2. s = [r EXCEPT !.resolved = s.resolved, !.blocks = s.blocks, !.chain = s.chain,
                      !.sources = src]
    BY <1>8, <1>9
  <2>3. s.resolved \in SUBSET CallIds
    BY <1>1, <1>2, <1>9
  <2> QED BY <1>11, <1>19, <2>1, <2>2, <2>3 DEF ReducerSet
<1>13. Declared(s) = Declared(r)
  <2>1. PICK n : n = m
    OBVIOUS
  <2>2. n \in SaidSet \cup ToldSet /\ s.chain = Append(r.chain, n) /\ n.role # "assistant"
    BY <1>7, <1>9, <2>1
  <2> QED BY <1>2, <2>2, DeclaredAppend
<1>14. Whole(s)
  <2>1. ShownText(s.blocks) = ShownText(r.blocks)
    <3>1. r.blocks[at].length = 0
      BY <1>2, <1>5, BlockTypes
    <3>2. DOMAIN s.blocks = DOMAIN r.blocks /\ \A i \in DOMAIN r.blocks : s.blocks[i].length = r.blocks[i].length
      BY <1>6, <1>11, <3>1
    <3>3. [i \in DOMAIN s.blocks |-> s.blocks[i].length] = [i \in DOMAIN r.blocks |-> r.blocks[i].length]
      BY <3>2
    <3> QED BY <3>3 DEF ShownText
  <2>2. s.value = ShownText(s.blocks)
    BY <1>9, <2>1 DEF ReducerInv, Whole
  <2>3. s.value = SaidText(s.chain) + s.deltas.length
    <3>1. SaidText(s.chain) = SaidText(r.chain) + 0 /\ SaidText(r.chain) \in Int
      BY <1>2, <1>7, <1>9, SaidAppend
    <3>2. SaidText(s.chain) = SaidText(r.chain)
      BY <3>1
    <3> QED BY <1>9, <3>2 DEF ReducerInv, Whole
  <2>4. ASSUME NEW i \in DOMAIN s.blocks PROVE s.blocks[i].status = "streaming" <=> i = s.textBlock
    <3>1. CASE i = at
      BY <1>2, <1>3, <1>5, <1>6, <1>9, <1>11, <3>1
    <3>2. CASE i # at
      BY <1>9, <1>11, <3>2 DEF ReducerInv, Whole
    <3> QED BY <3>1, <3>2
  <2>5. s.textBlock = 0 /\ s.deltas = NoText
    BY <1>3, <1>9 DEF ReducerInv, Whole
  <2> QED BY <2>2, <2>3, <2>4, <2>5 DEF Whole
<1>15. AnswerIsLast(s)
  BY <1>7, <1>10 DEF OneMore, AnswerIsLast
<1>16. Tidy(s)
  <2>1. s.resolved \subseteq s.started /\ s.started \subseteq Declared(s)
    BY <1>1, <1>9, <1>13 DEF ReducerInv, Tidy
  <2>2. \A i \in DOMAIN r.blocks : s.blocks[i].id = r.blocks[i].id /\ s.blocks[i].type = r.blocks[i].type
    BY <1>5, <1>6, <1>11
  <2>3. ASSUME NEW id \in s.started PROVE \E i \in DOMAIN s.blocks : s.blocks[i].id = id
    <3>1. PICK i \in DOMAIN r.blocks : r.blocks[i].id = id
      BY <1>9 DEF ReducerInv, Tidy
    <3> QED BY <1>11, <2>2, <3>1
  <2>4. ASSUME NEW i \in DOMAIN s.blocks, s.blocks[i].type = "tool"
        PROVE  /\ s.blocks[i].id \in s.started
               /\ s.blocks[i].status = "pending" <=> s.blocks[i].id \notin s.resolved
               /\ \A j \in DOMAIN s.blocks : s.blocks[j].id = s.blocks[i].id => j = i
    <3>1. /\ r.blocks[i].id \in r.started
          /\ r.blocks[i].status = "pending" <=> r.blocks[i].id \notin r.resolved
          /\ \A j \in DOMAIN r.blocks : r.blocks[j].id = r.blocks[i].id => j = i
      BY <1>11, <2>2, <2>4 DEF ReducerInv, Tidy
    <3>2. s.blocks[i].status = "pending" <=> s.blocks[i].id \notin s.resolved
      <4>1. CASE i = at
        BY <1>5, <1>6, <1>9, <1>11, <4>1
      <4>2. CASE i # at
        <5>1. r.blocks[i].id # e.id
          BY <1>5, <1>11, <3>1, <4>2
        <5> QED BY <1>9, <1>11, <3>1, <4>2, <5>1
      <4> QED BY <4>1, <4>2
    <3> QED BY <1>9, <1>11, <2>2, <3>1, <3>2
  <2> QED BY <2>1, <2>3, <2>4 DEF Tidy
<1>17. Chained(s.chain, s.resolved)
  <2>1. Assistants(r.chain) \subseteq DOMAIN r.chain /\ Tools(r.chain) \subseteq DOMAIN r.chain
    BY DEF Assistants, Tools
  <2>2. PICK n : n = Len(s.chain)
    OBVIOUS
  <2>3. /\ Assistants(s.chain) = Assistants(r.chain) /\ Tools(s.chain) = Tools(r.chain) \cup {n}
        /\ s.chain[n] = m /\ \A i \in DOMAIN r.chain : s.chain[i] = r.chain[i] /\ i \in Nat /\ i < n
        /\ n \notin DOMAIN r.chain /\ n \in Nat
    BY <1>7, <1>10, <2>2 DEF OneMore
  <2>4. PICK d \in Assistants(r.chain) : e.id \in IdsOf(r.chain[d].calls)
    BY <1>1, DeclaredBy
  <2>5. ASSUME NEW j \in Assistants(r.chain) PROVE j <= d
    <3>1. d < j => e.id \in r.resolved
      BY <2>4 DEF ReducerInv, Chained
    <3> QED BY <1>1, <2>1, <2>3, <3>1
  <2>6. /\ \A i, j \in Assistants(s.chain) :
             i # j => IdsOf(s.chain[i].calls) \cap IdsOf(s.chain[j].calls) = {}
        /\ \A i, j \in Assistants(s.chain) : i < j => IdsOf(s.chain[i].calls) \subseteq s.resolved
    <3>1. \A i \in Assistants(r.chain) : s.chain[i] = r.chain[i]
      BY <2>1, <2>3
    <3>2. /\ \A i, j \in Assistants(r.chain) :
               i # j => IdsOf(r.chain[i].calls) \cap IdsOf(r.chain[j].calls) = {}
          /\ \A i, j \in Assistants(r.chain) : i < j => IdsOf(r.chain[i].calls) \subseteq r.resolved
      BY DEF ReducerInv, Chained
    <3>3. r.resolved \subseteq s.resolved
      BY <1>9
    <3>4. \A i, j \in Assistants(r.chain) :
             i # j => IdsOf(s.chain[i].calls) \cap IdsOf(s.chain[j].calls) = {}
      BY <3>1, <3>2
    <3>5. \A i, j \in Assistants(r.chain) : i < j => IdsOf(s.chain[i].calls) \subseteq s.resolved
      BY <3>1, <3>2, <3>3
    <3> QED BY <2>3, <3>4, <3>5
  <2>8. ASSUME NEW i \in Assistants(s.chain), NEW id \in IdsOf(s.chain[i].calls) \cap s.resolved
        PROVE  \E k \in Tools(s.chain) :
                  /\ i < k /\ s.chain[k].id = id
                  /\ \A j \in Assistants(s.chain) : i < j => k < j
    <3>1. CASE id = e.id
      <4>1. i = d
        BY <2>1, <2>3, <2>4, <2>8, <3>1 DEF ReducerInv, Chained
      <4>2. \A j \in Assistants(s.chain) : ~(i < j)
        BY <2>1, <2>3, <2>5, <4>1
      <4> QED BY <1>7, <2>1, <2>3, <3>1, <4>1, <4>2
    <3>2. CASE id # e.id
      <4>1. i \in Assistants(r.chain) /\ id \in IdsOf(r.chain[i].calls) \cap r.resolved
        BY <1>9, <2>1, <2>3, <2>8, <3>2
      <4>2. PICK k \in Tools(r.chain) :
                  /\ i < k /\ r.chain[k].id = id
                  /\ \A j \in Assistants(r.chain) : i < j => k < j
        BY <4>1 DEF ReducerInv, Chained
      <4> QED BY <2>1, <2>3, <4>2
    <3> QED BY <3>1, <3>2
  <2>9. ASSUME NEW k \in Tools(s.chain)
        PROVE  /\ s.chain[k].id \in s.resolved
               /\ \E i \in Assistants(s.chain) : i < k /\ s.chain[k].id \in IdsOf(s.chain[i].calls)
               /\ \A l \in Tools(s.chain) : s.chain[l].id = s.chain[k].id => l = k
    <3>1. \A l \in Tools(r.chain) : r.chain[l].id \in r.resolved /\ r.chain[l].id # e.id
      BY <1>1 DEF ReducerInv, Chained
    <3>2. CASE k = n
      BY <1>7, <1>9, <2>1, <2>3, <2>4, <3>1, <3>2
    <3>3. CASE k # n
      <4>1. k \in Tools(r.chain) /\ s.chain[k] = r.chain[k]
        BY <2>1, <2>3, <3>3
      <4>2. /\ r.chain[k].id \in r.resolved
            /\ \E i \in Assistants(r.chain) : i < k /\ r.chain[k].id \in IdsOf(r.chain[i].calls)
            /\ \A l \in Tools(r.chain) : r.chain[l].id = r.chain[k].id => l = k
        BY <4>1 DEF ReducerInv, Chained
      <4>3. s.chain[k].id \in s.resolved
        BY <1>9, <4>1, <4>2
      <4>4. \E i \in Assistants(s.chain) : i < k /\ s.chain[k].id \in IdsOf(s.chain[i].calls)
        BY <2>1, <2>3, <4>1, <4>2
      <4>5. ASSUME NEW l \in Tools(s.chain), s.chain[l].id = s.chain[k].id PROVE l = k
        <5>1. l # n
          BY <1>7, <2>3, <3>1, <4>1, <4>5
        <5>2. l \in Tools(r.chain) /\ s.chain[l] = r.chain[l]
          BY <2>1, <2>3, <5>1
        <5> QED BY <4>1, <4>2, <4>5, <5>2
      <4> QED BY <4>3, <4>4, <4>5
    <3> QED BY <3>2, <3>3
  <2> QED BY <2>6, <2>8, <2>9 DEF Chained
<1> QED BY <1>9, <1>12, <1>13, <1>14, <1>15, <1>16, <1>17 DEF ReducerInv, m

\* A reducer that was told of nothing.
LEMMA NewReducerInv == NewReducer \in ReducerSet /\ ReducerInv(NewReducer)
<1> DEFINE r == NewReducer
<1>1. /\ r.chain = <<>> /\ r.blocks = <<>> /\ r.started = {} /\ r.resolved = {}
      /\ r.textBlock = 0 /\ r.deltas = NoText /\ r.value = 0 /\ r.sources = 0
  BY DEF NewReducer
<1>2. r \in ReducerSet
  <2>1. NoText \in TextSet
    BY DEF NoText, TextSet
  <2> QED BY <2>1 DEF NewReducer, ReducerSet, ChainSet
<1> HIDE DEF r
<1>3. Assistants(r.chain) = {} /\ Tools(r.chain) = {} /\ Declared(r) = {}
  <2>1. Assistants(r.chain) = {}
    BY <1>1 DEF Assistants
  <2> QED BY <1>1, <2>1 DEF Tools, Declared
<1>4. ShownText(<<>>) = 0 /\ SaidText(<<>>) = 0
  <2>1. [i \in DOMAIN <<>> |-> <<>>[i].length] = <<>>
    OBVIOUS
  <2>2. Total(<<>>) = 0
    <3>1. <<>> \in Seq(Int) /\ 0 \in Int
      OBVIOUS
    <3> QED BY <3>1, TotalAppend
  <2>3. [i \in DOMAIN <<>> |-> IF i \in Assistants(<<>>) THEN <<>>[i].text.length ELSE 0] = <<>>
    OBVIOUS
  <2> QED BY <2>1, <2>2, <2>3 DEF ShownText, SaidText
<1>5. Whole(r)
  BY <1>1, <1>4 DEF Whole, NoText
<1>6. AnswerIsLast(r) /\ Tidy(r)
  BY <1>1, <1>3 DEF AnswerIsLast, Tidy
<1>7. Chained(r.chain, r.resolved)
  BY <1>3 DEF Chained
<1> QED BY <1>2, <1>5, <1>6, <1>7 DEF ReducerInv, r

-----------------------------------------------------------------------------
(* What the turn settles with *)

\* A number of calls with different ids.
LEMMA CallsDiffer ==
    ASSUME NEW calls \in Seq(CallSet)
    PROVE  /\ IsFiniteSet(IdsOf(calls)) /\ IdsOf(calls) \subseteq CallIds
           /\ WellFormed(calls) => /\ Cardinality(IdsOf(calls)) = Len(calls)
                                   /\ \A i, j \in DOMAIN calls : calls[i].id = calls[j].id => i = j
           /\ calls # <<>> => IdsOf(calls) # {}
<1> DEFINE D == 1 .. Len(calls)
           f == [i \in D |-> calls[i].id]
<1>1. /\ DOMAIN calls = D /\ Len(calls) \in Nat /\ \A i \in D : calls[i] \in CallSet
  OBVIOUS
<1>2. \A i \in D : calls[i].id \in CallIds
  BY <1>1 DEF CallSet
<1>3. IsFiniteSet(D) /\ Cardinality(D) = Len(calls)
  <2>1. PICK n \in Nat : n = Len(calls)
    BY <1>1
  <2>2. IsFiniteSet(1 .. n) /\ Cardinality(1 .. n) = IF 1 > n THEN 0 ELSE n - 1 + 1
    BY FS_Interval
  <2> QED BY <2>1, <2>2
<1>4. f \in Surjection(D, IdsOf(calls))
  BY <1>1 DEF Surjection, IdsOf
<1>5. /\ IsFiniteSet(IdsOf(calls))
      /\ Cardinality(IdsOf(calls)) = Cardinality(D) <=> f \in Injection(D, IdsOf(calls))
  BY <1>3, <1>4, FS_Surjection
<1>6. IdsOf(calls) \subseteq CallIds
  BY <1>1, <1>2 DEF IdsOf
<1>7. ASSUME WellFormed(calls)
      PROVE  /\ Cardinality(IdsOf(calls)) = Len(calls)
             /\ \A i, j \in DOMAIN calls : calls[i].id = calls[j].id => i = j
  <2>1. f \in Injection(D, IdsOf(calls))
    BY <1>3, <1>5, <1>7 DEF WellFormed
  <2>2. \A i, j \in D : f[i] = f[j] => i = j
    BY <2>1 DEF Injection, IsInjective
  <2> QED BY <1>1, <1>7, <2>2 DEF WellFormed
<1>8. ASSUME calls # <<>> PROVE IdsOf(calls) # {}
  <2>1. 1 \in DOMAIN calls
    BY <1>1, <1>8
  <2> QED BY <2>1 DEF IdsOf
<1> QED BY <1>5, <1>6, <1>7, <1>8

\* When nothing is open, the chain is valid.
LEMMA ChainIsValid ==
    ASSUME NEW r \in ReducerSet, ReducerInv(r), Unresolved(r) = {}, r.chain # <<>>
    PROVE  ValidChain(r.chain)
<1>1. PICK chain, resolved : chain = r.chain /\ resolved = r.resolved
  OBVIOUS
<1>2. Chained(chain, resolved) /\ chain # <<>>
  BY <1>1 DEF ReducerInv
<1>3. \A i \in Assistants(chain) : IdsOf(chain[i].calls) \subseteq resolved
  <2>1. Declared(r) \subseteq resolved
    BY <1>1 DEF Unresolved
  <2>2. \A i \in Assistants(r.chain) : IdsOf(r.chain[i].calls) \subseteq Declared(r)
    BY DeclaredBy
  <2> QED BY <1>1, <2>1, <2>2
<1>4. \A i, j \in Assistants(chain) : i # j => IdsOf(chain[i].calls) \cap IdsOf(chain[j].calls) = {}
  BY <1>2 DEF Chained
<1>5. \A i \in Assistants(chain) : \A id \in IdsOf(chain[i].calls) :
          \E k \in DOMAIN chain \ Assistants(chain) :
             /\ i < k /\ chain[k].id = id
             /\ \A j \in Assistants(chain) : i < j => k < j
  BY <1>2, <1>3 DEF Chained, Tools
<1>6. \A k \in DOMAIN chain \ Assistants(chain) :
          /\ \E i \in Assistants(chain) : i < k /\ chain[k].id \in IdsOf(chain[i].calls)
          /\ \A l \in DOMAIN chain \ Assistants(chain) : chain[l].id = chain[k].id => l = k
  BY <1>2 DEF Chained, Tools
<1>7. ValidChain(chain)
  BY <1>2, <1>4, <1>5, <1>6, Zenon DEF ValidChain
<1> QED BY <1>1, <1>7

\* In a valid chain every call has exactly one answer.
LEMMA OneAnswer ==
    ASSUME NEW chain \in ChainSet, ValidChain(chain), NEW i \in Assistants(chain),
           NEW id \in IdsOf(chain[i].calls)
    PROVE  Cardinality({k \in DOMAIN chain : chain[k].role = "tool" /\ chain[k].id = id}) = 1
<1>1. PICK k \in DOMAIN chain \ Assistants(chain) : chain[k].id = id
  BY DEF ValidChain
<1>2. \A l \in DOMAIN chain \ Assistants(chain) : chain[l].id = chain[k].id => l = k
  BY <1>1 DEF ValidChain
<1>3. \A l \in DOMAIN chain : chain[l].role = "tool" <=> l \notin Assistants(chain)
  <2>1. \A l \in DOMAIN chain : chain[l] \in SaidSet \cup ToldSet
    BY DEF ChainSet
  <2> QED BY <2>1 DEF Assistants, SaidSet, ToldSet
<1>4. {l \in DOMAIN chain : chain[l].role = "tool" /\ chain[l].id = id} = {k}
  BY <1>1, <1>2, <1>3
<1> QED BY <1>4, FS_Singleton

\* What ResultIsWhole says of a result, of the reducer it was made of.
KeptOf(r, b, i) ==
    \/ i \in DOMAIN r.blocks /\ b = Closed(r.blocks[i])
    \/ i = Len(r.blocks) + 1 /\ b.type = "text" /\ b.length = 0
WithOf(r, n) ==
    [NoResult EXCEPT !.value = Cut(ShownText(r.blocks)), !.blocks = SubSeq(ClosedBlocks(r), 1, n)]
FromReducer(r, p) ==
    \A i \in DOMAIN p.blocks : KeptOf(r, p.blocks[i], i) /\ p.blocks[i].status \in {"done", "error"}
Shortened(r, p) ==
    /\ \/ p.value = Cut(ShownText(r.blocks))
       \/ p.value = 0 /\ p.blocks = <<>> /\ ~FitsJson(WithOf(r, 0))
    /\ Len(p.blocks) >= Len(r.blocks) \/ ~FitsJson(WithOf(r, Len(p.blocks) + 1))
Complete(r, p, messages) ==
    /\ p.blocks = r.blocks /\ p.value = p.blocks[Len(p.blocks)].length
    /\ ShownText(p.blocks) = SaidText(p.chain)
    /\ \A i \in {k \in DOMAIN messages : messages[k].role = "ai" /\ messages[k].calls # <<>>} :
          \A id \in IdsOf(messages[i].calls) :
             Cardinality({k \in DOMAIN p.chain : p.chain[k].role = "tool" /\ p.chain[k].id = id}) = 1
WholeResult(r, o, messages) ==
    /\ Storable(o.result) /\ FromReducer(r, o.result)
    /\ o.status \in {"FAILED", "CANCELLED"} => Shortened(r, o.result)
    /\ o.status = "COMPLETED" => Complete(r, o.result, messages)

\* ResultIsWhole says what WholeResult says of the state's outcome and reducer.
LEMMA ResultIsWholeOf ==
    /\ ResultIsWhole <=> (stage = "over" => WholeResult(reducer, outcome, graph))
    /\ ResultIsWhole' <=> (stage' = "over" => WholeResult(reducer', outcome', graph'))
<1>1. ResultIsWhole <=> (stage = "over" => WholeResult(reducer, outcome, graph))
  BY Zenon DEF ResultIsWhole, WholeResult, FromReducer, Shortened, Complete, Kept, KeptOf,
               WithBlocks, WithOf, CalledIn
<1>2. ResultIsWhole' <=> (stage' = "over" => WholeResult(reducer', outcome', graph'))
  BY Zenon DEF ResultIsWhole, WholeResult, FromReducer, Shortened, Complete, Kept, KeptOf,
               WithBlocks, WithOf, CalledIn
<1> QED BY <1>1, <1>2

\* A closed block is the same text or the same call.
LEMMA ClosedIs ==
    ASSUME NEW b \in BlockSet
    PROVE  /\ Closed(b) \in BlockSet /\ Closed(b).length = b.length /\ Closed(b).type = b.type
           /\ Closed(b).status \in {"done", "error"}
           /\ b.status \in {"done", "error"} => Closed(b) = b
<1>1. CASE b \in TextBlocks
  <2>1. b.type = "text" /\ b.status \in {"streaming", "done"}
    BY <1>1 DEF TextBlocks
  <2>2. Closed(b) = [b EXCEPT !.status = "done"]
    BY <2>1, Zenon DEF Closed
  <2>3. [b EXCEPT !.status = "done"] \in TextBlocks
    BY <1>1 DEF TextBlocks
  <2>4. b.status = "done" => [b EXCEPT !.status = "done"] = b
    BY <1>1 DEF TextBlocks
  <2> QED BY <1>1, <2>1, <2>2, <2>3, <2>4 DEF TextBlocks, BlockSet
<1>2. CASE b \in ToolBlocks
  <2>1. b.type = "tool" /\ b.type # "text" /\ b.status \in {"pending", "done", "error"} /\ b.length = 0
    BY <1>2 DEF ToolBlocks
  <2>2. CASE b.status = "pending"
    <3>1. Closed(b) = Output(b, OwnLength, "error")
      BY <2>1, <2>2, Zenon DEF Closed
    <3>2. PICK o \in ToolBlocks : o = b
      BY <1>2
    <3>3. PICK n \in Nat, st \in {"done", "error"} : n = OwnLength /\ st = "error"
      BY Limits
    <3>4. /\ Output(o, n, st) \in ToolBlocks /\ Output(o, n, st).length = 0
          /\ Output(o, n, st).type = "tool" /\ Output(o, n, st).status = st
      BY OutputIs
    <3>5. Closed(b) = Output(o, n, st)
      BY <3>1, <3>2, <3>3, Zenon
    <3> QED BY <2>1, <2>2, <3>3, <3>4, <3>5 DEF BlockSet
  <2>3. CASE b.status # "pending"
    <3>1. Closed(b) = b
      BY <2>1, <2>3, Zenon DEF Closed
    <3> QED BY <2>1, <2>3, <3>1
  <2> QED BY <2>2, <2>3
<1> QED BY <1>1, <1>2 DEF BlockSet

\* The empty result can be stored.
LEMMA EmptyFits ==
    /\ NoResult \in StoredSet /\ NoResult.blocks = <<>> /\ NoResult.value = 0
    /\ StringsFit(<<>>) /\ Storable(NoResult)
<1>1. /\ NoResult.value = 0 /\ NoResult.chain = <<>> /\ NoResult.blocks = <<>>
      /\ NoResult.sources = 0 /\ NoResult \in StoredSet
  BY DEF NoResult, StoredSet, ChainSet
<1>2. StringsFit(<<>>)
  BY DEF StringsFit, Assistants
<1>3. FitsJson(NoResult)
  <2>1. PICK w : w = <<>>
    OBVIOUS
  <2>2. /\ [i \in DOMAIN w |-> MessageWeight(w[i])] = <<>> /\ [i \in DOMAIN w |-> Weight(w[i])] = <<>>
        /\ DOMAIN w = {}
    BY <2>1
  <2>3. Total(<<>>) = 0
    <3>1. <<>> \in Seq(Int) /\ 0 \in Int
      OBVIOUS
    <3> QED BY <3>1, TotalAppend
  <2>4. /\ Total([i \in DOMAIN w |-> MessageWeight(w[i])]) = 0
        /\ Total([i \in DOMAIN w |-> Weight(w[i])]) = 0
    BY <2>2, <2>3
  <2>5. PICK n : n = NoResult
    OBVIOUS
  <2>6. n.value = 0 /\ n.chain = w /\ n.blocks = w /\ n.sources = 0
    BY <1>1, <2>1, <2>5
  <2>7. FitsJson(n) <=> /\ 0 <= MaxString
                        /\ \A i \in DOMAIN w : w[i].data.depth + 3 <= MaxDepth
                        /\ 0 + 0 + Total([i \in DOMAIN w |-> MessageWeight(w[i])])
                             + Total([i \in DOMAIN w |-> Weight(w[i])]) <= MaxJson
    BY <2>6, Zenon DEF FitsJson
  <2> QED BY <2>2, <2>4, <2>5, <2>7, Limits
<1> QED BY <1>1, <1>2, <1>3 DEF Storable

\* The partial result with the first k blocks.
LEMMA KeepingIs ==
    ASSUME NEW s, s.blocks \in Seq(BlockSet), s.value \in Nat, NEW k \in 0 .. Len(s.blocks)
    PROVE  /\ Keeping(s, k) \in StoredSet /\ Keeping(s, k).chain = <<>>
           /\ Keeping(s, k).value = Cut(s.value) /\ Len(Keeping(s, k).blocks) = k
           /\ DOMAIN Keeping(s, k).blocks = 1 .. k
           /\ \A i \in 1 .. k : Keeping(s, k).blocks[i] = Closed(s.blocks[i])
<1>1. /\ DOMAIN s.blocks = 1 .. Len(s.blocks) /\ Len(s.blocks) \in Nat
      /\ \A i \in DOMAIN s.blocks : s.blocks[i] \in BlockSet
  OBVIOUS
<1>2. PICK closed : closed = ClosedBlocks(s)
  OBVIOUS
<1>3. /\ closed \in Seq(BlockSet) /\ Len(closed) = Len(s.blocks)
      /\ \A i \in 1 .. Len(s.blocks) : closed[i] = Closed(s.blocks[i])
  <2>1. \A i \in DOMAIN s.blocks : Closed(s.blocks[i]) \in BlockSet
    BY <1>1, ClosedIs
  <2> QED BY <1>1, <1>2, <2>1 DEF ClosedBlocks
<1>4. PICK first : first = SubSeq(closed, 1, k)
  OBVIOUS
<1>5. /\ first \in Seq(BlockSet) /\ Len(first) = k /\ DOMAIN first = 1 .. k
      /\ \A i \in 1 .. k : first[i] = closed[i]
  BY <1>1, <1>3, <1>4
<1>6. Cut(s.value) \in Nat
  BY Limits DEF Cut
<1>7. PICK v \in Nat : v = Cut(s.value)
  BY <1>6
<1>8. Keeping(s, k) = [NoResult EXCEPT !.value = v, !.blocks = first]
  BY <1>2, <1>4, <1>7, Zenon DEF Keeping
<1>9. PICK n : n = NoResult
  OBVIOUS
<1>10. PICK p : p = Keeping(s, k)
  OBVIOUS
<1>11. n \in StoredSet /\ n.chain = <<>> /\ p = [n EXCEPT !.value = v, !.blocks = first]
  BY <1>8, <1>9, <1>10, EmptyFits DEF NoResult
<1>12. p \in StoredSet /\ p.chain = <<>> /\ p.value = v /\ p.blocks = first
  <2>1. PICK w : w = n.chain
    OBVIOUS
  <2>2. p.chain = w /\ p.value = v /\ p.blocks = first
    BY <1>11, <2>1 DEF StoredSet
  <2>3. p \in StoredSet
    BY <1>5, <1>11 DEF StoredSet
  <2> QED BY <1>11, <2>1, <2>2, <2>3
<1> QED BY <1>1, <1>3, <1>5, <1>7, <1>10, <1>12

\* The blocks a partial result would begin with, with or without a text that was
\* opened in vain.
LEMMA SameStart ==
    ASSUME NEW r, r.blocks \in Seq(BlockSet), r.value \in Nat, r.value = ShownText(r.blocks),
           NEW s, s.blocks \in Seq(BlockSet), s.value = r.value,
           s.blocks = r.blocks \/ s.blocks = Append(r.blocks, TextBlock),
           NEW n \in 0 .. Len(r.blocks)
    PROVE  Keeping(s, n) = WithOf(r, n)
<1>1. /\ Len(r.blocks) \in Nat /\ n \in 0 .. Len(s.blocks)
      /\ \A i \in 1 .. Len(r.blocks) : s.blocks[i] = r.blocks[i]
  <2>1. CASE s.blocks = r.blocks
    BY <2>1
  <2>2. CASE s.blocks = Append(r.blocks, TextBlock)
    BY <2>2
  <2> QED BY <2>1, <2>2
<1>2. PICK a, b : a = Keeping(s, n) /\ b = Keeping(r, n)
  OBVIOUS
<1>3. /\ a \in StoredSet /\ a.chain = <<>> /\ a.value = Cut(s.value) /\ Len(a.blocks) = n
      /\ \A i \in 1 .. n : a.blocks[i] = Closed(s.blocks[i])
  BY <1>1, <1>2, KeepingIs
<1>4. /\ b \in StoredSet /\ b.chain = <<>> /\ b.value = Cut(r.value) /\ Len(b.blocks) = n
      /\ \A i \in 1 .. n : b.blocks[i] = Closed(r.blocks[i])
  BY <1>2, KeepingIs
<1>5. a.blocks \in Seq(BlockSet) /\ b.blocks \in Seq(BlockSet)
  BY <1>3, <1>4 DEF StoredSet
<1>6. \A i \in 1 .. n : a.blocks[i] = b.blocks[i]
  BY <1>1, <1>3, <1>4
<1>7. a.blocks = b.blocks
  BY <1>3, <1>4, <1>5, <1>6, SeqEqual
<1>8. Keeping(s, n) = [NoResult EXCEPT !.value = Cut(r.value), !.blocks = SubSeq(ClosedBlocks(s), 1, n)]
  BY Zenon DEF Keeping
<1>9. Keeping(r, n) = [NoResult EXCEPT !.value = Cut(r.value), !.blocks = SubSeq(ClosedBlocks(r), 1, n)]
  BY Zenon DEF Keeping
<1>10. SubSeq(ClosedBlocks(s), 1, n) = SubSeq(ClosedBlocks(r), 1, n)
  <2>1. PICK x, y : x = SubSeq(ClosedBlocks(s), 1, n) /\ y = SubSeq(ClosedBlocks(r), 1, n)
    OBVIOUS
  <2>2. PICK v : v = Cut(r.value)
    OBVIOUS
  <2>3. a = [NoResult EXCEPT !.value = v, !.blocks = x] /\ b = [NoResult EXCEPT !.value = v, !.blocks = y]
    BY <1>2, <1>8, <1>9, <2>1, <2>2
  <2>4. a.blocks = x /\ b.blocks = y
    BY <2>3 DEF NoResult
  <2> QED BY <1>7, <2>1, <2>4
<1> QED BY <1>8, <1>9, <1>10, Zenon DEF WithOf

\* A partial result keeps as much as fits of what the reducer had.
LEMMA PartialIsWhole ==
    ASSUME NEW r, r.blocks \in Seq(BlockSet), r.value \in Nat, r.value = ShownText(r.blocks),
           NEW s, s.blocks \in Seq(BlockSet), s.value = r.value,
           s.blocks = r.blocks \/ s.blocks = Append(r.blocks, TextBlock)
    PROVE  LET p == PartialResult(s)
           IN  p \in StoredSet /\ Storable(p) /\ FromReducer(r, p) /\ Shortened(r, p)
<1>1. /\ Len(r.blocks) \in Nat /\ Len(s.blocks) \in Nat /\ Len(r.blocks) <= Len(s.blocks)
      /\ \A i \in 1 .. Len(s.blocks) :
            \/ i \in DOMAIN r.blocks /\ s.blocks[i] = r.blocks[i]
            \/ i = Len(r.blocks) + 1 /\ s.blocks[i] = TextBlock
  <2>1. CASE s.blocks = r.blocks
    BY <2>1
  <2>2. CASE s.blocks = Append(r.blocks, TextBlock)
    BY <2>2
  <2> QED BY <2>1, <2>2
<1>2. PICK fitting \in SUBSET (0 .. Len(s.blocks)) :
         fitting = {k \in 0 .. Len(s.blocks) : FitsJson(Keeping(s, k))}
  OBVIOUS
<1>3. \A n \in 0 .. Len(r.blocks) : n \notin fitting => ~FitsJson(WithOf(r, n))
  BY <1>1, <1>2, SameStart
<1>4. PICK p : p = PartialResult(s)
  OBVIOUS
<1>5. p = IF fitting = {} THEN NoResult ELSE Keeping(s, Max(fitting))
  BY <1>2, <1>4, Zenon DEF PartialResult
<1>6. CASE fitting = {}
  <2>1. p = NoResult
    BY <1>5, <1>6
  <2>2. p \in StoredSet /\ Storable(p) /\ p.blocks = <<>> /\ p.value = 0
    BY <2>1, EmptyFits
  <2>3. FromReducer(r, p)
    BY <2>2 DEF FromReducer
  <2>4. ~FitsJson(WithOf(r, 0))
    BY <1>1, <1>3, <1>6
  <2>5. Len(p.blocks) >= Len(r.blocks) \/ ~FitsJson(WithOf(r, Len(p.blocks) + 1))
    <3>1. Len(p.blocks) = 0
      BY <2>2
    <3>2. ASSUME ~(0 >= Len(r.blocks)) PROVE ~FitsJson(WithOf(r, 1))
      <4>1. 1 \in 0 .. Len(r.blocks)
        BY <1>1, <3>2
      <4> QED BY <1>3, <1>6, <4>1
    <3>3. Len(p.blocks) + 1 = 1
      BY <3>1
    <3> QED BY <3>1, <3>2, <3>3
  <2> QED BY <1>4, <2>2, <2>3, <2>4, <2>5 DEF Shortened
<1>7. CASE fitting # {}
  <2>1. PICK k : k = Max(fitting)
    OBVIOUS
  <2>2. k \in fitting /\ \A y \in fitting : k >= y
    BY <1>1, <1>7, <2>1, GreatestIsThere
  <2>3. p = Keeping(s, k) /\ k \in 0 .. Len(s.blocks) /\ FitsJson(p)
    BY <1>2, <1>5, <1>7, <2>1, <2>2
  <2>4. /\ p \in StoredSet /\ p.chain = <<>> /\ p.value = Cut(s.value)
        /\ Len(p.blocks) = k /\ DOMAIN p.blocks = 1 .. k
        /\ \A i \in 1 .. k : p.blocks[i] = Closed(s.blocks[i])
    BY <2>3, KeepingIs
  <2>5. Storable(p)
    BY <2>3, <2>4, EmptyFits DEF Storable
  <2>6. FromReducer(r, p)
    <3>1. ASSUME NEW i \in 1 .. k
          PROVE  KeptOf(r, p.blocks[i], i) /\ p.blocks[i].status \in {"done", "error"}
      <4>1. i \in 1 .. Len(s.blocks) /\ s.blocks[i] \in BlockSet /\ p.blocks[i] = Closed(s.blocks[i])
        BY <2>3, <2>4
      <4>2. /\ Closed(s.blocks[i]).status \in {"done", "error"}
            /\ Closed(s.blocks[i]).length = s.blocks[i].length
            /\ Closed(s.blocks[i]).type = s.blocks[i].type
        BY <4>1, ClosedIs
      <4>3. CASE i \in DOMAIN r.blocks /\ s.blocks[i] = r.blocks[i]
        BY <4>1, <4>2, <4>3 DEF KeptOf
      <4>4. CASE i = Len(r.blocks) + 1 /\ s.blocks[i] = TextBlock
        <5>1. TextBlock.type = "text" /\ TextBlock.length = 0
          BY DEF TextBlock
        <5> QED BY <4>1, <4>2, <4>4, <5>1 DEF KeptOf
      <4> QED BY <1>1, <4>1, <4>3, <4>4
    <3> QED BY <2>4, <3>1 DEF FromReducer
  <2>7. p.value = Cut(ShownText(r.blocks))
    BY <2>4
  <2>8. Len(p.blocks) >= Len(r.blocks) \/ ~FitsJson(WithOf(r, Len(p.blocks) + 1))
    <3>1. ASSUME ~(k >= Len(r.blocks)) PROVE ~FitsJson(WithOf(r, k + 1))
      <4>1. k + 1 \in 0 .. Len(r.blocks) /\ ~(k >= k + 1)
        BY <1>1, <2>3, <3>1
      <4> QED BY <1>3, <2>2, <4>1
    <3> QED BY <2>4, <3>1
  <2> QED BY <1>4, <2>4, <2>5, <2>6, <2>7, <2>8 DEF Shortened
<1> QED BY <1>6, <1>7

\* What a completed turn stores.
LEMMA FinishedWhole ==
    ASSUME NEW r \in ReducerSet, ReducerInv(r), Finishable(r)
    PROVE  LET p == FinishSuccess(r)
           IN  /\ p \in StoredSet /\ p.chain = r.chain /\ p.blocks = r.blocks
               /\ p.value = p.blocks[Len(p.blocks)].length
               /\ ShownText(p.blocks) = SaidText(p.chain) /\ FromReducer(r, p)
<1>1. /\ r.blocks \in Seq(BlockSet) /\ r.value \in Nat /\ r.sources \in Nat /\ r.textBlock \in Nat /\ r.chain \in ChainSet
      /\ DOMAIN r.blocks = 1 .. Len(r.blocks) /\ Len(r.blocks) \in Nat
      /\ \A i \in DOMAIN r.blocks : r.blocks[i] \in BlockSet
  BY ReducerTypes
<1>2. PICK last : last = r.chain[Len(r.chain)]
  OBVIOUS
<1>3. /\ r.chain # <<>> /\ last.role = "assistant" /\ last.calls = <<>> /\ ~last.text.blank
      /\ r.deltas.size = 0 /\ Unresolved(r) = {}
      /\ \A i \in DOMAIN r.blocks : r.blocks[i].type = "tool" => r.blocks[i].status # "pending"
  BY <1>2 DEF Finishable
<1>4. r.textBlock = 0
  BY <1>3 DEF ReducerInv, Whole
<1>5. r.blocks # <<>> /\ r.blocks[Len(r.blocks)].length = last.text.length
  BY <1>2, <1>3, <1>4 DEF ReducerInv, AnswerIsLast
<1>6. ASSUME NEW i \in DOMAIN r.blocks PROVE r.blocks[i].status \in {"done", "error"}
  <2>1. r.blocks[i].status # "streaming"
    BY <1>1, <1>4 DEF ReducerInv, Whole
  <2> QED BY <1>1, <1>3, <2>1, CallBlocks
<1>7. ShownText(r.blocks) = SaidText(r.chain)
  <2>1. SaidText(r.chain) \in Int
    <3>1. [role |-> "assistant", text |-> NoText, plain |-> TRUE, calls |-> <<>>] \in SaidSet
      BY DEF SaidSet, NoText, TextSet
    <3> QED BY <1>1, <3>1, SaidAppend
  <2>2. r.value = ShownText(r.blocks) /\ r.value = SaidText(r.chain) + r.deltas.length
    BY DEF ReducerInv, Whole
  <2>3. r.deltas.length = 0
    BY <1>4 DEF ReducerInv, Whole, NoText
  <2> QED BY <2>1, <2>2, <2>3
<1>8. last.text.length \in Nat
  <2>1. Len(r.blocks) \in DOMAIN r.blocks
    BY <1>1, <1>5
  <2>2. r.blocks[Len(r.blocks)] \in BlockSet
    BY <1>1, <2>1
  <2>3. r.blocks[Len(r.blocks)].length \in Nat
    BY <2>2, BlockTypes
  <2> QED BY <1>5, <2>3
<1>9. FinishSuccess(r) =
        [value |-> last.text.length, chain |-> r.chain, blocks |-> r.blocks, sources |-> r.sources]
  BY <1>2 DEF FinishSuccess
<1>10. PICK p : p = FinishSuccess(r)
  OBVIOUS
<1>11. /\ p \in StoredSet /\ p.chain = r.chain /\ p.blocks = r.blocks
       /\ p.value = p.blocks[Len(p.blocks)].length /\ ShownText(p.blocks) = SaidText(p.chain)
  BY <1>1, <1>5, <1>7, <1>8, <1>9, <1>10 DEF StoredSet
<1>12. FromReducer(r, p)
  <2>1. ASSUME NEW i \in DOMAIN r.blocks
        PROVE  KeptOf(r, r.blocks[i], i) /\ r.blocks[i].status \in {"done", "error"}
    BY <1>1, <1>6, <2>1, ClosedIs DEF KeptOf
  <2> QED BY <1>11, <2>1 DEF FromReducer
<1> QED BY <1>10, <1>11, <1>12

-----------------------------------------------------------------------------
(* The steps of the turn: what they have in common *)

\* The values of a turn are those that the model checker looks at.
LEMMA TypesFollow ==
    ASSUME TurnValues, ReducerInv(reducer)
    PROVE  TurnTypeOK
<1>1. reducer.started \in SUBSET CallIds /\ reducer.textBlock \in Nat /\ Len(reducer.blocks) \in Nat
  BY ReducerTypes DEF TurnValues
<1>2. reducer.resolved \subseteq reducer.started
  BY DEF ReducerInv, Tidy
<1>3. reducer.textBlock \in 0 .. Len(reducer.blocks)
  BY <1>1 DEF ReducerInv, Whole
<1>4. outcome.status \in {"RUNNING", "REFUSED", "COMPLETED", "FAILED", "CANCELLED", "RAISED"}
  BY DEF TurnValues, OutcomeSet, Statuses
<1> QED BY <1>1, <1>2, <1>3, <1>4 DEF TurnValues, LoopValues, TurnTypeOK

\* The history is one of turns, and sizes are numbers.
LEMMA HistoryTypes ==
    ASSUME TurnValues
    PROVE  history \in Seq(TurnSet) /\ history # <<>> /\ home \in Nat
<1>1. Histories \subseteq Seq(TurnSet) \ {<<>>} /\ HomeSizes \subseteq Nat
  BY TurnAssumption DEF TurnAssumption
<1> QED BY <1>1 DEF TurnValues

\* The code of a turn that did not fail is not one of a failure.
LEMMA NoCodeIsNone == NoCode # "runtime_output_invalid"
  BY DEF NoCode

\* Before the turn is over nothing is stored.
LEMMA NoOutcomeValues ==
    NoOutcome \in OutcomeSet /\ NoOutcome.status = "RUNNING" /\ NoOutcome.code = NoCode
  BY EmptyFits DEF NoOutcome, OutcomeSet, Statuses, Codes

\* The messages of a graph are accepted as the input of a model call.
LEMMA GraphIsValid ==
    ASSUME NEW messages \in Seq(AiSet \cup AnswerSet),
           \A i \in DOMAIN messages : messages[i].role = "ai" =>
              /\ messages[i].calls # <<>> /\ WellFormed(messages[i].calls)
              /\ Len(messages[i].calls) <= MaxCalls
    PROVE  ValidMessages(messages)
<1>1. ASSUME NEW i \in DOMAIN messages
      PROVE  \/ messages[i].role = "tool" /\ ToolMessageValid(messages[i])
             \/ messages[i].role = "ai" /\ CallsValid(messages[i].calls)
  <2>1. messages[i] \in AiSet \cup AnswerSet
    OBVIOUS
  <2>2. CASE messages[i] \in AnswerSet
    BY <2>2 DEF AnswerSet, ToolMessageValid
  <2>3. CASE messages[i] \in AiSet
    <3>1. messages[i].role = "ai"
      BY <2>3 DEF AiSet
    <3> QED BY <3>1 DEF CallsValid, WellFormed, IdsOf
  <2> QED BY <2>1, <2>2, <2>3
<1> QED BY <1>1 DEF ValidMessages

\* A step of the loop, once it is known to keep the loop in order.
LEMMA LoopGoesOn ==
    ASSUME TurnInv, stage = "loop",
           UNCHANGED <<history, tools, stage, selected, home, outcome>>,
           LoopValues', reducer' \in ReducerSet, ReducerInv(reducer'), LoopInv'
    PROVE  TurnInv'
<1>1. TurnValues'
  BY DEF TurnInv, TurnValues
<1>2. outcome' = NoOutcome /\ outcome'.code # "runtime_output_invalid" /\ stage' = "loop"
  BY NoOutcomeValues, NoCodeIsNone DEF TurnInv
<1>3. SelectionIsCurrent'
  <2>1. SelectionIsCurrent
    BY DEF TurnInv
  <2> QED BY <2>1 DEF SelectionIsCurrent, CountInput, InputSize, InputLimit
<1>4. ResultIsWhole'
  BY <1>2 DEF ResultIsWhole
<1>5. (RoundOver => ValidMessages(graph))'
  <2>1. ASSUME RoundOver' PROVE ValidMessages(graph)'
    <3>1. node' # "end" /\ graph' \in Seq(AiSet \cup AnswerSet)
      BY <2>1 DEF RoundOver, LoopValues
    <3>2. \A i \in DOMAIN graph' : graph'[i].role = "ai" =>
             /\ graph'[i].calls # <<>> /\ WellFormed(graph'[i].calls)
             /\ Len(graph'[i].calls) <= MaxCalls
      BY <3>1 DEF LoopInv, Graphed
    <3>3. ValidMessages(graph')
      BY <3>1, <3>2, GraphIsValid
    <3> QED BY <3>3
  <2> QED BY <2>1
<1> QED BY <1>1, <1>2, <1>3, <1>4, <1>5 DEF TurnInv

\* The turn ends early, and something is stored of it.
LEMMA TurnStops ==
    ASSUME TurnInv, stage # "over", stage' = "over", NEW code \in Codes,
           NEW status \in {"REFUSED", "FAILED", "CANCELLED", "RAISED"}, NEW p \in StoredSet,
           outcome' = [status |-> status, code |-> code, result |-> p],
           UNCHANGED <<history, tools, selected, home, node, graph, stream, pending, running, reducer>>,
           events' \in Seq(EventSet),
           Storable(p), FromReducer(reducer, p),
           status \in {"FAILED", "CANCELLED"} => Shortened(reducer, p)
    PROVE  TurnInv'
<1>1. outcome' \in OutcomeSet /\ outcome'.status = status /\ outcome'.code = code /\ outcome'.result = p
  BY DEF OutcomeSet, Statuses
<1>2. TurnValues'
  BY <1>1 DEF TurnInv, TurnValues, LoopValues
<1>3. SelectionIsCurrent'
  BY DEF SelectionIsCurrent
<1>4. ResultIsWhole'
  <2>1. WholeResult(reducer, outcome', graph)
    BY <1>1 DEF WholeResult
  <2> QED BY <2>1, ResultIsWholeOf
<1>5. (RoundOver => ValidMessages(graph))'
  BY DEF RoundOver
<1> QED BY <1>2, <1>3, <1>4, <1>5 DEF TurnInv

\* What ends the turn early keeps the partial result, or raises.
LEMMA SettlesPartly ==
    ASSUME TurnInv, stage # "over", NEW code \in Codes, NEW status \in {"FAILED", "CANCELLED"},
           NEW s, s.blocks \in Seq(BlockSet), s.value = reducer.value,
           s.blocks = reducer.blocks \/ s.blocks = Append(reducer.blocks, TextBlock),
           SettlePartly(status, code, s),
           UNCHANGED <<history, tools, selected, home, node, graph, stream, pending, running, reducer>>,
           events' \in Seq(EventSet)
    PROVE  TurnInv'
<1>1. /\ reducer.blocks \in Seq(BlockSet) /\ reducer.value \in Nat
      /\ reducer.value = ShownText(reducer.blocks)
  <2>1. reducer \in ReducerSet /\ Whole(reducer)
    BY DEF TurnInv, TurnValues, ReducerInv
  <2> QED BY <2>1, ReducerTypes DEF Whole
<1>2. PICK r : r = reducer
  OBVIOUS
<1>3. PICK p : p = PartialResult(s)
  OBVIOUS
<1>4. p \in StoredSet /\ Storable(p) /\ FromReducer(r, p) /\ Shortened(r, p)
  BY <1>1, <1>2, <1>3, PartialIsWhole
<1>5. CASE Closable(s)
  <2>1. stage' = "over" /\ outcome' = [status |-> status, code |-> code, result |-> p]
    BY <1>3, <1>5, Zenon DEF SettlePartly, Settle
  <2> QED BY <1>2, <1>4, <2>1, TurnStops
<1>6. CASE ~Closable(s)
  <2>1. stage' = "over" /\ outcome' = [status |-> "RAISED", code |-> NoCode, result |-> NoResult]
    BY <1>6, Zenon DEF SettlePartly, Settle
  <2>2. FromReducer(reducer, NoResult) /\ NoCode \in Codes
    BY EmptyFits DEF FromReducer, Codes
  <2> QED BY <2>1, <2>2, EmptyFits, TurnStops
<1> QED BY <1>5, <1>6

\* The turn fails, or is cancelled, with what the reducer has.
LEMMA SettlesNow ==
    ASSUME TurnInv, stage # "over", NEW code \in Codes, NEW status \in {"FAILED", "CANCELLED"},
           SettlePartly(status, code, reducer),
           UNCHANGED <<history, tools, selected, home, node, graph, stream, pending, running, reducer>>,
           events' \in Seq(EventSet)
    PROVE  TurnInv'
<1>1. reducer.blocks \in Seq(BlockSet)
  <2>1. reducer \in ReducerSet
    BY DEF TurnInv, TurnValues
  <2> QED BY <2>1, ReducerTypes
<1>2. PICK r : r = reducer
  OBVIOUS
<1> QED BY <1>1, <1>2, SettlesPartly

-----------------------------------------------------------------------------
(* The steps of the turn: the request and the provider *)

\* The queue is empty.
LEMMA NoEvents ==
    ASSUME events = <<>>
    PROVE  StartIds = {} /\ ResultIds = {} /\ ~Telling /\ \A k \in DOMAIN events : FALSE
  BY DEF StartIds, ResultIds, Telling

\* The initial states.
LEMMA TurnStarts == TurnInit => TurnInv
<1> SUFFICES ASSUME TurnInit PROVE TurnInv
  OBVIOUS
<1> USE DEF TurnInit
<1>1. NoText \in TextSet /\ NoStream \in StreamSet /\ NoStream.calls = <<>> /\ MaxCalls \in Nat
  BY Limits DEF NoText, TextSet, NoStream, StreamSet
<1>2. LoopValues
  BY <1>1 DEF LoopValues
<1>3. selected \in 0 .. Len(history)
  <2>1. history \in Seq(TurnSet)
    BY TurnAssumption DEF TurnAssumption
  <2> QED BY <2>1
<1>4. TurnValues
  BY <1>2, <1>3, NewReducerInv, NoOutcomeValues DEF TurnValues
<1>5. SelectionIsCurrent /\ ResultIsWhole
  BY DEF SelectionIsCurrent, ResultIsWhole
<1>6. RoundOver => ValidMessages(graph)
  BY DEF RoundOver
<1> QED BY <1>4, <1>5, <1>6, NewReducerInv DEF TurnInv

\* The turn is refused, or accepted.
LEMMA PrepareKeeps == TurnInv /\ Prepare => TurnInv'
<1> SUFFICES ASSUME TurnInv, Prepare PROVE TurnInv'
  OBVIOUS
<1>1. /\ stage = "asked" /\ reducer = NewReducer
      /\ UNCHANGED <<history, tools, selected, home, node, graph, stream, pending, running, events, reducer>>
  BY DEF Prepare, TurnInv, loopVars
<1>2. CASE SelectTurns(0) = 0
  <2>1. Settle("REFUSED", "context_too_large", NoResult)
    BY <1>1, <1>2 DEF Prepare
  <2>2. events' \in Seq(EventSet)
    BY <1>1 DEF TurnInv, TurnValues, LoopValues
  <2>3. "context_too_large" \in Codes
    BY DEF Codes, RaiseCodes
  <2>4. FromReducer(reducer, NoResult)
    BY EmptyFits DEF FromReducer
  <2> QED BY <1>1, <2>1, <2>2, <2>3, <2>4, EmptyFits, TurnStops DEF Settle
<1>3. CASE SelectTurns(0) # 0
  <2>1. stage' = "prepared" /\ outcome' = outcome
    BY <1>3 DEF Prepare
  <2>2. TurnValues'
    BY <1>1, <2>1 DEF TurnInv, TurnValues, LoopValues
  <2>3. outcome' = NoOutcome
    BY <1>1, <2>1 DEF TurnInv
  <2>4. SelectionIsCurrent' /\ ResultIsWhole' /\ (RoundOver => ValidMessages(graph))'
    BY <2>1 DEF SelectionIsCurrent, ResultIsWhole, RoundOver
  <2> QED BY <1>1, <2>1, <2>2, <2>3, <2>4 DEF TurnInv
<1> QED BY <1>2, <1>3

\* The first input is the selected turns.
LEMMA FirstInputOf ==
    ASSUME NEW k, NEW md, selected' = k, home' = md, history' = history
    PROVE  CountInput(<<>>)' = InputSize(k, md) + 0 /\ InputSize(selected + 1, home)' = InputSize(k + 1, md)
<1>1. [i \in DOMAIN <<>> |-> MessageSize(<<>>[i])] = <<>>
  OBVIOUS
<1>2. Total(<<>>) = 0
  <2>1. <<>> \in Seq(Int) /\ 0 \in Int
    OBVIOUS
  <2> QED BY <2>1, TotalAppend
<1> QED BY <1>1, <1>2 DEF CountInput, InputSize

\* The turn is opened with the AGENTS.md of the moment.
LEMMA OpenKeeps == TurnInv /\ OpenTurn => TurnInv'
<1> SUFFICES ASSUME TurnInv, OpenTurn PROVE TurnInv'
  OBVIOUS
<1>1. /\ stage = "prepared" /\ reducer = NewReducer
      /\ UNCHANGED <<history, tools, node, graph, stream, pending, running, events, reducer>>
      /\ node = "guard" /\ graph = <<>> /\ pending = NoMessage /\ running = {} /\ events = <<>>
  BY DEF OpenTurn, TurnInv, loopVars
<1>2. PICK md \in HomeSizes \cup {HomeUnavailable} :
         IF md = HomeUnavailable
           THEN Fail("workspace_unavailable") /\ UNCHANGED <<selected, home>>
         ELSE IF SelectTurns(md) = 0
           THEN Fail("context_too_large") /\ UNCHANGED <<selected, home>>
         ELSE /\ stage' = "loop" /\ selected' = SelectTurns(md) /\ home' = md
              /\ UNCHANGED outcome
  BY DEF OpenTurn
<1>3. ASSUME NEW code \in {"workspace_unavailable", "context_too_large"}, Fail(code), UNCHANGED <<selected, home>>
      PROVE  TurnInv'
  <2>1. events' \in Seq(EventSet)
    BY <1>1 DEF TurnInv, TurnValues, LoopValues
  <2>2. code \in Codes
    BY DEF Codes, RaiseCodes
  <2> QED BY <1>1, <1>3, <2>1, <2>2, SettlesNow DEF Fail
<1>4. ASSUME md # HomeUnavailable, SelectTurns(md) # 0,
             stage' = "loop", selected' = SelectTurns(md), home' = md, outcome' = outcome
      PROVE  TurnInv'
  <2>1. md \in HomeSizes /\ md \in Nat /\ history \in Seq(TurnSet) /\ history # <<>>
    BY <1>4, Limits, HistoryTypes DEF TurnInv
  <2>2. PICK k : k = SelectTurns(md)
    OBVIOUS
  <2>3. /\ k \in 0 .. Len(history) /\ k # 0
        /\ InputSize(k, md) <= InputLimit
        /\ k < Len(history) => InputSize(k + 1, md) > InputLimit
    BY <1>4, <2>1, <2>2, SelectionFits
  <2>4. TurnValues'
    <3>1. selected' \in 0 .. Len(history') /\ home' \in HomeSizes \cup {0}
      BY <1>1, <1>4, <2>1, <2>2, <2>3
    <3> QED BY <1>1, <1>4, <3>1 DEF TurnInv, TurnValues, LoopValues
  <2>5. outcome' = NoOutcome
    BY <1>1, <1>4 DEF TurnInv
  <2>6. SelectionIsCurrent'
    <3>1. CountInput(<<>>)' = InputSize(k, md) + 0 /\ InputSize(selected + 1, home)' = InputSize(k + 1, md)
      BY <1>1, <1>4, <2>2, FirstInputOf
    <3>2. InputSize(k, md) \in Nat /\ InputLimit' = InputLimit
      BY <1>1, <2>1, <2>3, InputHasSize DEF InputLimit
    <3>3. CountInput(<<>>)' <= InputLimit
      BY <2>3, <3>1, <3>2
    <3>4. selected' = k /\ selected' >= 1 /\ history' = history
      BY <1>1, <1>4, <2>2, <2>3
    <3>5. /\ CountInput(<<>>)' <= Budget - (IF tools THEN ResultReserve ELSE 0) /\ tools' = tools
      BY <1>1, <3>3 DEF InputLimit
    <3> QED BY <2>3, <3>1, <3>2, <3>4, <3>5 DEF SelectionIsCurrent
  <2>7. ResultIsWhole' /\ (RoundOver => ValidMessages(graph))'
    <3>1. ValidMessages(<<>>)
      BY DEF ValidMessages
    <3> QED BY <1>1, <1>4, <3>1 DEF ResultIsWhole
  <2>8. /\ Queued' /\ Graphed' /\ NoneForgotten' /\ InShares'
    BY <1>1 DEF Queued, Graphed, NoneForgotten, InShares
  <2>9. InStep'
    <3>1. Declared(reducer) = {} /\ Unresolved(reducer) = {} /\ reducer.started = {} /\ reducer.deltas = NoText
      BY <1>1 DEF NewReducer, Declared, Assistants, Unresolved
    <3>2. KnownIds' = {} /\ StartIds' = {} /\ ResultIds' = {} /\ ~Telling'
      BY <1>1 DEF KnownIds, StartIds, ResultIds, Telling
    <3> QED BY <1>1, <3>1, <3>2 DEF InStep
  <2> QED BY <1>1, <1>4, <2>4, <2>5, <2>6, <2>7, <2>8, <2>9 DEF TurnInv, LoopInv
<1> QED BY <1>2, <1>3, <1>4

\* The user cancels.
LEMMA StopKeeps == TurnInv /\ StopTurn => TurnInv'
<1> SUFFICES ASSUME TurnInv, StopTurn PROVE TurnInv'
  OBVIOUS
<1>1. /\ stage # "over" /\ SettlePartly("CANCELLED", NoCode, reducer)
      /\ UNCHANGED <<history, tools, selected, home, node, graph, stream, pending, running, events, reducer>>
  BY DEF StopTurn, loopVars
<1>2. events' \in Seq(EventSet) /\ NoCode \in Codes
  BY <1>1 DEF TurnInv, TurnValues, LoopValues, Codes
<1> QED BY <1>1, <1>2, SettlesNow

\* The loop fails.
LEMMA RaiseKeeps ==
    ASSUME TurnInv, stage = "loop", events = <<>>, NEW code \in RaiseCodes,
           Raise(code), UNCHANGED unmoved, UNCHANGED <<node, graph, stream, pending, running>>
    PROVE  TurnInv'
<1>1. /\ LoopValues /\ LoopInv /\ reducer \in ReducerSet /\ ReducerInv(reducer)
  BY DEF TurnInv, TurnValues
<1>2. events' = <<[type |-> "raise", code |-> code]>> /\ [type |-> "raise", code |-> code] \in EventSet
  BY DEF Raise, EventSet, RaiseSet
<1>3. LoopValues'
  BY <1>1, <1>2 DEF LoopValues
<1>4. \A k \in DOMAIN events' : k = 1 /\ events'[k].type = "raise" /\ Len(events') = 1
  BY <1>2
<1>5. StartIds' = {} /\ ResultIds' = {} /\ ~Telling'
  BY <1>2, <1>4 DEF StartIds, ResultIds, Telling
<1>6. StartIds = {} /\ ResultIds = {} /\ ~Telling /\ \A k \in DOMAIN events : FALSE
  BY NoEvents
<1>7. Queued' /\ Graphed'
  BY <1>1, <1>4 DEF LoopInv, Queued, Graphed
<1>8. NoneForgotten'
  BY <1>1, <1>6 DEF LoopInv, NoneForgotten, unmoved
<1>9. InShares'
  <2>1. 1 \in DOMAIN events' /\ events'[1].type = "raise"
    BY <1>2
  <2> QED BY <2>1 DEF InShares
<1>10. ASSUME ~ReusedId' PROVE InStep'
  <2>1. InStep
    BY <1>1, <1>10 DEF LoopInv, ReusedId, CalledIn
  <2>2. reducer' = reducer /\ KnownIds' = KnownIds
    BY DEF unmoved, KnownIds
  <2>3. ~(events' # <<>> /\ events'[1].type = "delta") /\ ~(events # <<>> /\ events[1].type = "delta")
    BY <1>2
  <2>4. node = "end" => /\ reducer.chain # <<>>
                        /\ reducer.chain[Len(reducer.chain)] = AssistantMessage(graph[Len(graph)])
    BY <2>1 DEF InStep
  <2> QED BY <1>5, <1>6, <2>1, <2>2, <2>3, <2>4 DEF InStep
<1> QED BY <1>1, <1>3, <1>7, <1>8, <1>9, <1>10, LoopGoesOn DEF LoopInv, unmoved


\* The hook before a model call.
LEMMA GuardKeeps == TurnInv /\ ContextGuard => TurnInv'
<1> SUFFICES ASSUME TurnInv, ContextGuard PROVE TurnInv'
  OBVIOUS
<1>1. /\ LoopValues /\ LoopInv /\ reducer \in ReducerSet /\ ReducerInv(reducer)
      /\ stage = "loop" /\ events = <<>> /\ node = "guard"
      /\ UNCHANGED unmoved /\ UNCHANGED <<graph, pending, running>>
  BY DEF TurnInv, TurnValues, ContextGuard, Pulled
<1>2. \/ \E code \in RaiseCodes : Raise(code) /\ UNCHANGED <<node, stream>>
      \/ node' = "agent" /\ stream' = NoStream /\ events' = events
  BY DEF ContextGuard, RaiseCodes
<1>3. CASE \E code \in RaiseCodes : Raise(code) /\ UNCHANGED <<node, stream>>
  BY <1>1, <1>3, RaiseKeeps
<1>4. CASE node' = "agent" /\ stream' = NoStream /\ events' = events
  <2>1. LoopValues'
    <3>1. NoStream \in StreamSet /\ Len(NoStream.calls) <= MaxCalls
      BY Limits DEF NoStream, StreamSet, NoText, TextSet
    <3> QED BY <1>1, <1>4, <3>1 DEF LoopValues
  <2>2. StartIds = {} /\ ResultIds = {} /\ ~Telling /\ \A k \in DOMAIN events : FALSE
    BY <1>1, NoEvents
  <2>3. StartIds' = StartIds /\ ResultIds' = ResultIds /\ Telling' = Telling /\ KnownIds' = KnownIds
    BY <1>1, <1>4 DEF StartIds, ResultIds, Telling, KnownIds
  <2>4. pending = NoMessage
    BY <1>1 DEF LoopInv, Graphed
  <2>5. Queued' /\ Graphed' /\ NoneForgotten' /\ InShares'
    <3>1. Queued'
      BY <1>4, <2>2 DEF Queued
    <3>2. Graphed'
      BY <1>1, <1>4, <2>4 DEF LoopInv, Graphed
    <3>3. NoneForgotten'
      BY <1>1, <1>4 DEF LoopInv, NoneForgotten, unmoved
    <3> QED BY <1>4, <3>1, <3>2, <3>3 DEF InShares
  <2>6. ASSUME ~ReusedId' PROVE InStep'
    <3>1. InStep
      BY <1>1, <2>6 DEF LoopInv, ReusedId, CalledIn
    <3>2. reducer.deltas = NoText /\ NoStream.text = NoText
      BY <1>1, <2>2, <2>4, <3>1 DEF InStep, NoStream
    <3> QED BY <1>1, <1>4, <2>2, <2>3, <2>4, <3>1, <3>2 DEF InStep, unmoved
  <2> QED BY <1>1, <1>4, <2>1, <2>5, <2>6, LoopGoesOn DEF LoopInv, unmoved
<1> QED BY <1>2, <1>3, <1>4

\* The provider goes on within its message.
LEMMA StreamKeeps ==
    ASSUME TurnInv, stage = "loop", events = <<>>, node = "agent", stream' \in StreamSet,
           Len(stream'.calls) <= MaxCalls, UNCHANGED unmoved, UNCHANGED <<node, graph, pending, running>>,
           \/ events' = <<>> /\ stream'.text = stream.text
           \/ /\ Len(events') = 1 /\ events' \in Seq(DeltaSet)
              /\ stream'.text = Join(stream.text, events'[1].text)
    PROVE  TurnInv'
<1>1. /\ LoopValues /\ LoopInv /\ reducer \in ReducerSet /\ ReducerInv(reducer)
  BY DEF TurnInv, TurnValues
<1>2. \A k \in DOMAIN events' : k = 1 /\ Len(events') = 1 /\ events'[k] \in DeltaSet /\ events'[k].type = "delta"
  <2>1. CASE events' = <<>>
    BY <2>1
  <2>2. CASE Len(events') = 1 /\ events' \in Seq(DeltaSet)
    <3>1. PICK q : q = events'
      OBVIOUS
    <3>2. q \in Seq(DeltaSet) /\ Len(q) = 1
      BY <2>2, <3>1
    <3>4. \A k \in DOMAIN q : k = 1 /\ q[k] \in DeltaSet
      BY <3>2
    <3>3. \A d \in DeltaSet : d.type = "delta"
      BY DEF DeltaSet
    <3> QED BY <3>1, <3>2, <3>3, <3>4
  <2> QED BY <2>1, <2>2
<1>3. LoopValues'
  <2>1. \A d \in DeltaSet : d \in EventSet
    BY DEF EventSet
  <2>2. events' \in Seq(EventSet)
    <3>1. PICK q : q = events'
      OBVIOUS
    <3>2. q = <<>> \/ q \in Seq(DeltaSet)
      BY <3>1
    <3>3. q \in Seq(EventSet)
      <4>1. <<>> \in Seq(EventSet)
        OBVIOUS
      <4>2. ASSUME q \in Seq(DeltaSet) PROVE q \in Seq(EventSet)
        <5>1. Len(q) \in Nat /\ DOMAIN q = 1 .. Len(q) /\ q = [k \in 1 .. Len(q) |-> q[k]]
          BY <4>2
        <5>2. \A k \in 1 .. Len(q) : q[k] \in EventSet
          BY <2>1, <4>2
        <5> QED BY <5>1, <5>2
      <4> QED BY <3>2, <4>1, <4>2
    <3> QED BY <3>1, <3>3
  <2> QED BY <1>1, <2>2 DEF LoopValues
<1>4. StartIds' = {} /\ ResultIds' = {} /\ KnownIds' = KnownIds
  BY <1>2 DEF StartIds, ResultIds, KnownIds
<1>5. StartIds = {} /\ ResultIds = {} /\ ~Telling /\ \A k \in DOMAIN events : FALSE
  BY NoEvents
<1>6. pending = NoMessage
  BY <1>1 DEF LoopInv, Graphed
<1>7. Queued'
  BY <1>2 DEF Queued
<1>8. Graphed' /\ InShares'
  BY <1>1, <1>6 DEF LoopInv, Graphed, InShares
<1>9. NoneForgotten'
  BY <1>1, <1>5 DEF LoopInv, NoneForgotten, unmoved
<1>10. ASSUME ~ReusedId' PROVE InStep'
  <2>1. InStep
    BY <1>1, <1>10 DEF LoopInv, ReusedId, CalledIn
  <2>2. reducer.deltas = stream.text
    BY <2>1 DEF InStep
  <2>3. ~Telling'
    BY <1>2 DEF Telling
  <2>4. events' # <<>> => /\ 1 \in DOMAIN events' /\ events'[1].type = "delta"
                          /\ stream'.text = Join(reducer.deltas, events'[1].text)
    BY <1>2, <2>2
  <2>5. events' = <<>> => stream'.text = reducer.deltas
    BY <2>2
  <2> QED BY <1>4, <1>5, <1>6, <2>1, <2>3, <2>4, <2>5 DEF InStep, unmoved
<1> QED BY <1>1, <1>3, <1>7, <1>8, <1>9, <1>10, LoopGoesOn DEF LoopInv, unmoved

\* A content delta.
LEMMA TextKeeps == TurnInv /\ ProviderText => TurnInv'
<1> SUFFICES ASSUME TurnInv, ProviderText PROVE TurnInv'
  OBVIOUS
<1>1. /\ LoopValues /\ stage = "loop" /\ events = <<>> /\ node = "agent"
      /\ UNCHANGED unmoved /\ UNCHANGED <<node, graph, pending, running>>
  BY DEF TurnInv, TurnValues, ProviderText, Pulled
<1>2. PICK p \in Pieces :
         IF stream.calls # <<>>
           THEN Raise("provider_response_invalid") /\ UNCHANGED stream
         ELSE /\ stream' = [stream EXCEPT !.text = Join(@, p), !.deltas = @ + 1]
              /\ events' = <<[type |-> "delta", text |-> p]>>
  BY DEF ProviderText
<1>3. CASE stream.calls # <<>>
  <2>1. "provider_response_invalid" \in RaiseCodes
    BY DEF RaiseCodes
  <2> QED BY <1>1, <1>2, <1>3, <2>1, RaiseKeeps
<1>4. CASE stream.calls = <<>>
  <2>1. p \in TextSet /\ p.size > 0
    BY TurnAssumption DEF TurnAssumption
  <2>2. /\ stream.text \in TextSet /\ stream.deltas \in Nat /\ stream.calls \in Seq(CallSet)
        /\ stream.reasoning \in BOOLEAN
    BY <1>1 DEF LoopValues, StreamSet
  <2>3. Join(stream.text, p) \in TextSet
    BY <2>1, <2>2 DEF Join, TextSet
  <2>4. stream' = [stream EXCEPT !.text = Join(stream.text, p), !.deltas = stream.deltas + 1]
    BY <1>2, <1>4
  <2>5. /\ stream' \in StreamSet /\ stream'.calls = stream.calls
        /\ stream'.text = Join(stream.text, p)
    <3>1. stream.deltas + 1 \in Nat /\ stream \in StreamSet
      BY <1>1, <2>2 DEF LoopValues
    <3> HIDE DEF Join
    <3> QED BY <2>2, <2>3, <2>4, <3>1 DEF StreamSet
  <2>6. events' = <<[type |-> "delta", text |-> p]>> /\ [type |-> "delta", text |-> p] \in DeltaSet
    BY <1>2, <1>4, <2>1 DEF DeltaSet
  <2>7. Len(events') = 1 /\ events' \in Seq(DeltaSet) /\ events'[1].text = p
    BY <2>6
  <2>8. Len(stream'.calls) <= MaxCalls
    BY <1>1, <2>5 DEF LoopValues
  <2> QED BY <1>1, <2>5, <2>7, <2>8, StreamKeeps
<1> QED BY <1>3, <1>4

\* Reasoning, and the fragments of a call.
LEMMA FragmentKeeps == TurnInv /\ (ProviderReasoning \/ ProviderCall) => TurnInv'
<1> SUFFICES ASSUME TurnInv, ProviderReasoning \/ ProviderCall PROVE TurnInv'
  OBVIOUS
<1>1. /\ LoopValues /\ stage = "loop" /\ events = <<>> /\ node = "agent"
      /\ UNCHANGED unmoved /\ UNCHANGED <<node, graph, pending, running>>
  BY DEF TurnInv, TurnValues, ProviderReasoning, ProviderCall, Pulled
<1>2. /\ stream.text \in TextSet /\ stream.deltas \in Nat /\ stream.calls \in Seq(CallSet)
      /\ stream.reasoning \in BOOLEAN /\ Len(stream.calls) <= MaxCalls /\ Len(stream.calls) \in Nat
  BY <1>1 DEF LoopValues, StreamSet
<1>3. CASE ProviderReasoning
  <2>1. stream' = [stream EXCEPT !.reasoning = TRUE] /\ events' = events
    BY <1>3 DEF ProviderReasoning
  <2>2. stream' \in StreamSet /\ stream'.calls = stream.calls /\ stream'.text = stream.text
    BY <1>1, <1>2, <2>1 DEF LoopValues, StreamSet
  <2> QED BY <1>1, <1>2, <2>1, <2>2, StreamKeeps
<1>4. CASE ProviderCall
  <2>1. PICK id \in CallIds, bound \in BOOLEAN, arguments \in Arguments :
           IF LimitReached(stream.calls)
             THEN Raise("provider_tool_call_invalid") /\ UNCHANGED stream
           ELSE /\ stream' = [stream EXCEPT !.calls =
                                Append(@, [id |-> id, bound |-> bound, arguments |-> arguments])]
                /\ UNCHANGED events
    BY <1>4 DEF ProviderCall
  <2>2. CASE LimitReached(stream.calls)
    <3>1. "provider_tool_call_invalid" \in RaiseCodes
      BY DEF RaiseCodes
    <3> QED BY <1>1, <2>1, <2>2, <3>1, RaiseKeeps
  <2>3. CASE ~LimitReached(stream.calls)
    <3>1. PICK calls : calls = Append(stream.calls, [id |-> id, bound |-> bound, arguments |-> arguments])
      OBVIOUS
    <3>2. calls \in Seq(CallSet) /\ Len(calls) = Len(stream.calls) + 1
      BY <1>2, <3>1, TurnAssumption DEF CallSet, TurnAssumption
    <3>3. Len(stream.calls) # MaxCalls
      BY <2>3 DEF LimitReached
    <3>4. stream' = [stream EXCEPT !.calls = calls] /\ events' = events
      BY <2>1, <2>3, <3>1
    <3>5. /\ stream' \in StreamSet /\ stream'.text = stream.text /\ stream'.calls = calls
      BY <1>1, <1>2, <3>2, <3>4 DEF LoopValues, StreamSet
    <3>6. Len(stream'.calls) <= MaxCalls
      BY <1>2, <3>2, <3>3, <3>5, Limits
    <3> QED BY <1>1, <3>4, <3>5, <3>6, StreamKeeps
  <2> QED BY <2>2, <2>3
<1> QED BY <1>3, <1>4

\* The provider breaks, or a tool does.
LEMMA BreakKeeps == TurnInv /\ (ProviderBreaks \/ ToolRaises) => TurnInv'
<1> SUFFICES ASSUME TurnInv, ProviderBreaks \/ ToolRaises PROVE TurnInv'
  OBVIOUS
<1>1. /\ stage = "loop" /\ events = <<>> /\ Raise("provider_call_failed")
      /\ UNCHANGED unmoved /\ UNCHANGED <<node, graph, stream, pending, running>>
  BY DEF ProviderBreaks, ToolRaises, Pulled
<1>2. "provider_call_failed" \in RaiseCodes
  BY DEF RaiseCodes
<1> QED BY <1>1, <1>2, RaiseKeeps

\* The provider's message is complete.
LEMMA EndKeeps == TurnInv /\ ProviderEnd => TurnInv'
<1> SUFFICES ASSUME TurnInv, ProviderEnd PROVE TurnInv'
  OBVIOUS
<1> DEFINE msg == [role |-> "ai", text |-> stream.text, plain |-> ~stream.reasoning, calls |-> stream.calls]
<1>0. PICK m : m = msg
  OBVIOUS
<1> HIDE DEF msg
<1>1. /\ LoopValues /\ LoopInv /\ reducer \in ReducerSet /\ ReducerInv(reducer)
      /\ stage = "loop" /\ events = <<>> /\ node = "agent"
      /\ UNCHANGED unmoved /\ UNCHANGED stream
  BY DEF TurnInv, TurnValues, ProviderEnd, Pulled
<1>2. \/ \E code \in RaiseCodes : Raise(code) /\ UNCHANGED <<node, graph, pending, running>>
      \/ /\ m.calls # <<>> /\ WellFormed(m.calls)
         /\ graph' = Append(graph, m) /\ pending' = m
         /\ running' = IdsOf(m.calls) /\ node' = "tools" /\ events' = <<>>
      \/ /\ m.calls = <<>> /\ graph' = Append(graph, m) /\ node' = "end"
         /\ events' = <<AssistantEvent(m), [type |-> "end"]>>
         /\ UNCHANGED <<pending, running>>
  <2>1. m.calls = stream.calls
    BY <1>0 DEF msg
  <2>2. "provider_tool_call_invalid" \in RaiseCodes /\ "provider_response_invalid" \in RaiseCodes
    BY DEF RaiseCodes
  <2> QED BY <1>0, <1>1, <2>1, <2>2 DEF ProviderEnd, msg
<1>3. /\ m \in AiSet /\ m.role = "ai" /\ m.text = stream.text /\ Len(m.calls) <= MaxCalls
      /\ m.calls \in Seq(CallSet) /\ m # NoMessage
  BY <1>0, <1>1 DEF LoopValues, StreamSet, AiSet, NoMessage, msg
<1>4. /\ pending = NoMessage /\ running = {} /\ graph \in Seq(AiSet \cup AnswerSet)
      /\ StartIds = {} /\ ResultIds = {} /\ ~Telling /\ \A k \in DOMAIN events : FALSE
  BY <1>1, NoEvents DEF LoopInv, Graphed, LoopValues
<1>5. CASE \E code \in RaiseCodes : Raise(code) /\ UNCHANGED <<node, graph, pending, running>>
  BY <1>1, <1>5, RaiseKeeps
<1>6. ASSUME graph' = Append(graph, m)
      PROVE  /\ graph' \in Seq(AiSet \cup AnswerSet) /\ graph' # <<>> /\ Len(graph') = Len(graph) + 1
             /\ DOMAIN graph' = DOMAIN graph \cup {Len(graph')} /\ Len(graph') \notin DOMAIN graph
             /\ graph'[Len(graph')] = m /\ \A i \in DOMAIN graph : graph'[i] = graph[i] /\ i < Len(graph')
             /\ KnownIds' = KnownIds \cup IdsOf(m.calls)
  <2>1. /\ graph' \in Seq(AiSet \cup AnswerSet) /\ graph' # <<>> /\ Len(graph') = Len(graph) + 1
        /\ DOMAIN graph' = DOMAIN graph \cup {Len(graph')} /\ Len(graph') \notin DOMAIN graph
        /\ graph'[Len(graph')] = m /\ \A i \in DOMAIN graph : graph'[i] = graph[i] /\ i < Len(graph')
    BY <1>3, <1>4, <1>6
  <2>2. \A id : id \in KnownIds' <=> id \in KnownIds \cup IdsOf(m.calls)
    BY <1>3, <2>1 DEF KnownIds
  <2> QED BY <2>1, <2>2
<1>7. ASSUME ~ReusedId', graph' = Append(graph, m)
      PROVE  /\ InStep /\ IdsOf(m.calls) \cap KnownIds = {} /\ Untold(reducer, m)
  <2>1. ~ReusedId
    BY <1>6, <1>7 DEF ReusedId, CalledIn
  <2>2. InStep
    BY <1>1, <2>1 DEF LoopInv
  <2>3. IdsOf(m.calls) \cap KnownIds = {}
    <3>1. SUFFICES ASSUME NEW id \in IdsOf(m.calls) \cap KnownIds PROVE FALSE
      OBVIOUS
    <3>2. PICK i \in DOMAIN graph : graph[i].role = "ai" /\ id \in IdsOf(graph[i].calls)
      BY <3>1 DEF KnownIds
    <3>3. \A calls : id \in IdsOf(calls) => calls # <<>>
      BY DEF IdsOf
    <3>4. PICK n : n = Len(graph')
      OBVIOUS
    <3>5. /\ i \in DOMAIN graph' /\ n \in DOMAIN graph' /\ i # n /\ graph'[i] = graph[i]
          /\ graph'[n] = m
      BY <1>6, <1>7, <3>4
    <3>6. CalledIn(i)' /\ CalledIn(n)'
      BY <1>3, <3>1, <3>2, <3>3, <3>5 DEF CalledIn
    <3> QED BY <1>7, <3>1, <3>2, <3>5, <3>6 DEF ReusedId
  <2>4. reducer.deltas = m.text /\ Unresolved(reducer) = {} /\ Declared(reducer) \subseteq KnownIds
    BY <1>1, <1>3, <1>4, <2>2 DEF InStep
  <2> QED BY <2>2, <2>3, <2>4 DEF Untold
<1>8. CASE /\ m.calls # <<>> /\ WellFormed(m.calls)
           /\ graph' = Append(graph, m) /\ pending' = m
           /\ running' = IdsOf(m.calls) /\ node' = "tools" /\ events' = <<>>
  <2>1. LoopValues'
    <3>1. IdsOf(m.calls) \subseteq CallIds
      BY <1>3, CallsDiffer
    <3> QED BY <1>1, <1>3, <1>6, <1>8, <3>1 DEF LoopValues
  <2>2. Queued'
    BY <1>8 DEF Queued
  <2>3. Graphed'
    BY <1>1, <1>3, <1>6, <1>8 DEF LoopInv, Graphed
  <2>4. NoneForgotten'
    BY <1>1, <1>3, <1>4, <1>6, <1>8 DEF LoopInv, NoneForgotten, unmoved
  <2>5. InShares'
    BY <1>3, <1>6, <1>8 DEF InShares
  <2>6. ASSUME ~ReusedId' PROVE InStep'
    <3>1. InStep /\ Untold(reducer, m)
      BY <1>7, <1>8, <2>6
    <3>2. ~Telling'
      BY <1>8 DEF Telling
    <3>3. Declared(reducer) \subseteq KnownIds
      BY <3>1 DEF InStep
    <3>4. reducer' = reducer
      BY <1>1 DEF unmoved
    <3> QED BY <1>3, <1>6, <1>8, <3>1, <3>2, <3>3, <3>4 DEF InStep
  <2> QED BY <1>1, <2>1, <2>2, <2>3, <2>4, <2>5, <2>6, LoopGoesOn DEF LoopInv, unmoved
<1>9. CASE /\ m.calls = <<>> /\ graph' = Append(graph, m) /\ node' = "end"
           /\ events' = <<AssistantEvent(m), [type |-> "end"]>>
           /\ UNCHANGED <<pending, running>>
  <2>1. /\ Len(events') = 2 /\ DOMAIN events' = {1, 2} /\ events'[1] = AssistantEvent(m)
        /\ events'[2] = [type |-> "end"] /\ events'[1].type = "assistant" /\ events'[2].type = "end"
        /\ events'[1].text = m.text /\ events'[1].calls = m.calls /\ events' # <<>>
    BY <1>9 DEF AssistantEvent
  <2>2. LoopValues'
    <3>1. AssistantEvent(m) \in EventSet /\ [type |-> "end"] \in EventSet
      <4>1. AssistantEvent(m) \in AssistantSet
        BY <1>3 DEF AssistantEvent, AssistantSet, AiSet
      <4> QED BY <4>1 DEF EventSet, EndSet
    <3>2. events' \in Seq(EventSet)
      BY <1>9, <3>1
    <3> QED BY <1>1, <1>6, <1>9, <3>2 DEF LoopValues
  <2>3. Queued'
    BY <1>9, <2>1 DEF Queued
  <2>4. Graphed'
    <3>1. \A i \in DOMAIN graph : graph[i].role = "ai" => graph[i].calls # <<>>
      BY <1>1 DEF LoopInv, Graphed
    <3>2. \A i \in DOMAIN graph' : graph'[i].role = "ai" /\ graph'[i].calls # <<>> =>
             i \in DOMAIN graph /\ graph'[i] = graph[i]
      BY <1>6, <1>9
    <3>3. \A i \in DOMAIN graph' : graph'[i].role = "ai" /\ graph'[i].calls = <<>> => i = Len(graph')
      BY <1>6, <1>9, <3>1
    <3> QED BY <1>1, <1>3, <1>4, <1>6, <1>9, <3>2, <3>3 DEF LoopInv, Graphed
  <2>5. NoneForgotten'
    BY <1>1, <1>3, <1>4, <1>6, <1>9, <2>1 DEF LoopInv, NoneForgotten, unmoved
  <2>6. InShares'
    BY <1>9 DEF InShares
  <2>7. ASSUME ~ReusedId' PROVE InStep'
    <3>1. InStep /\ Untold(reducer, m)
      BY <1>7, <1>9, <2>7
    <3>2. Telling' /\ IdsOf(events'[1].calls) = {}
      BY <1>9, <2>1 DEF Telling, IdsOf
    <3>3. Declared(reducer) \subseteq KnownIds
      BY <3>1 DEF InStep
    <3>4. reducer' = reducer
      BY <1>1 DEF unmoved
    <3>5. StartIds' = {} /\ ResultIds' = {}
      BY <2>1 DEF StartIds, ResultIds
    <3>6. Untold(reducer, events'[1])
      BY <2>1, <3>1 DEF Untold
    <3>7. pending' = NoMessage /\ running' = {} /\ KnownIds \subseteq KnownIds'
      BY <1>4, <1>6, <1>9
    <3>8. events' = <<AssistantEvent(graph'[Len(graph')]), [type |-> "end"]>>
      BY <1>6, <1>9
    <3> QED BY <1>9, <3>2, <3>3, <3>4, <3>5, <3>6, <3>7, <3>8 DEF InStep
  <2> QED BY <1>1, <2>2, <2>3, <2>4, <2>5, <2>6, <2>7, LoopGoesOn DEF LoopInv, unmoved
<1> QED BY <1>2, <1>5, <1>8, <1>9

-----------------------------------------------------------------------------
(* The steps of the turn: the tools *)

\* The last message of the model.
LastAi(messages, i) ==
    /\ i \in DOMAIN messages /\ messages[i].role = "ai"
    /\ \A j \in DOMAIN messages : messages[j].role = "ai" => j <= i

\* It is the one that Max finds.
LEMMA LastIsMax ==
    ASSUME NEW messages \in Seq(AiSet \cup AnswerSet), \E i \in DOMAIN messages : messages[i].role = "ai"
    PROVE  LastAi(messages, Max({i \in DOMAIN messages : messages[i].role = "ai"}))
<1> DEFINE n == Len(messages)
           S == {i \in DOMAIN messages : messages[i].role = "ai"}
<1>1. n \in Nat /\ DOMAIN messages = 1 .. n /\ S \in SUBSET (0 .. n) /\ S # {}
  OBVIOUS
<1>2. Max(S) \in S /\ \A y \in S : Max(S) >= y
  <2> HIDE DEF S, n
  <2> QED BY <1>1, GreatestIsThere
<1>3. Max(S) \in DOMAIN messages /\ messages[Max(S)].role = "ai"
  BY <1>2
<1>4. \A j \in DOMAIN messages : messages[j].role = "ai" => Max(S) >= j
  BY <1>2
<1>5. \A j \in DOMAIN messages : messages[j].role = "ai" => j <= Max(S)
  <2> HIDE DEF S
  <2> QED BY <1>1, <1>3, <1>4
<1> QED BY <1>3, <1>5 DEF LastAi

\* And the one that the shares are of.
LEMMA LastIsThat ==
    ASSUME NEW messages \in Seq(AiSet \cup AnswerSet), NEW n, LastAi(messages, n)
    PROVE  (CHOOSE i \in DOMAIN messages :
               /\ messages[i].role = "ai"
               /\ \A j \in DOMAIN messages : messages[j].role = "ai" => j <= i) = n
<1>1. \A i \in DOMAIN messages :
         messages[i].role = "ai" /\ (\A j \in DOMAIN messages : messages[j].role = "ai" => j <= i) => i = n
  <2>1. DOMAIN messages \subseteq Nat
    OBVIOUS
  <2> QED BY <2>1 DEF LastAi
<1> QED BY <1>1 DEF LastAi

\* The share of a message's calls.
ShareOf(messages, n) ==
    (Budget - CountInput(SubSeq(messages, 1, n - 1))
            - Len(messages[n].calls) * CountAlone(CallSize)) \div Len(messages[n].calls)
\* The loop's share is that of the last assistant message.
LEMMA ShareIs ==
    ASSUME graph \in Seq(AiSet \cup AnswerSet), NEW n, LastAi(graph, n)
    PROVE  Share = ShareOf(graph, n)
<1>1. (CHOOSE i \in DOMAIN graph :
               /\ graph[i].role = "ai"
               /\ \A j \in DOMAIN graph : graph[j].role = "ai" => j <= i) = n
  BY LastIsThat
<1> QED BY <1>1 DEF Share, ShareOf

\* One message more from a tool.
Longer(messages, m, longer) ==
    /\ longer \in Seq(AiSet \cup AnswerSet) /\ Len(longer) = Len(messages) + 1
    /\ \A i \in DOMAIN messages : longer[i] = messages[i] /\ i \in DOMAIN longer
    /\ \A i \in DOMAIN longer : longer[i].role = "ai" => i \in DOMAIN messages
    /\ \A n : LastAi(longer, n) <=> LastAi(messages, n)
    /\ \A i \in DOMAIN messages :
          /\ SubSeq(longer, 1, i) = SubSeq(messages, 1, i)
          /\ SubSeq(longer, 1, i - 1) = SubSeq(messages, 1, i - 1)
    /\ Total(SizesOf(longer)) = Total(SizesOf(messages)) + m.size
    /\ Total(SizesOf(messages)) \in Int

\* Adding an answer changes no earlier message and adds its size.
LEMMA AnswerAdded ==
    ASSUME NEW messages \in Seq(AiSet \cup AnswerSet), NEW m \in AnswerSet
    PROVE  Longer(messages, m, Append(messages, m))
<1>0. PICK longer : longer = Append(messages, m)
  OBVIOUS
<1>1. /\ longer \in Seq(AiSet \cup AnswerSet) /\ Len(longer) = Len(messages) + 1 /\ Len(messages) \in Nat
      /\ DOMAIN messages = 1 .. Len(messages) /\ DOMAIN longer = 1 .. Len(longer)
      /\ DOMAIN longer = DOMAIN messages \cup {Len(longer)} /\ longer[Len(longer)] = m
      /\ \A i \in DOMAIN messages : longer[i] = messages[i]
  BY <1>0
<1>2. m.role = "tool" /\ m.role # "ai" /\ m.size \in Nat /\ MessageSize(m) = m.size
  BY DEF AnswerSet, MessageSize
<1>3. \A i \in DOMAIN longer : longer[i].role = "ai" => i \in DOMAIN messages
  BY <1>1, <1>2
<1>4. \A n : LastAi(longer, n) <=> LastAi(messages, n)
  BY <1>1, <1>3 DEF LastAi
<1>5. ASSUME NEW i \in DOMAIN messages
      PROVE  /\ SubSeq(longer, 1, i) = SubSeq(messages, 1, i)
             /\ SubSeq(longer, 1, i - 1) = SubSeq(messages, 1, i - 1)
  <2>1. \A k \in 1 .. i : k \in DOMAIN messages
    BY <1>1
  <2>2. i \in Nat /\ i <= Len(messages) /\ i <= Len(longer)
    BY <1>1
  <2>3. /\ SubSeq(longer, 1, i) = [k \in 1 .. i |-> longer[k]]
        /\ SubSeq(messages, 1, i) = [k \in 1 .. i |-> messages[k]]
    BY <1>1, <2>2
  <2>4. /\ SubSeq(longer, 1, i - 1) = [k \in 1 .. i - 1 |-> longer[k]]
        /\ SubSeq(messages, 1, i - 1) = [k \in 1 .. i - 1 |-> messages[k]]
    BY <1>1, <2>2
  <2> QED BY <1>1, <2>1, <2>2, <2>3, <2>4
<1>6. SizesOf(messages) \in Seq(Int)
  BY SizesAreThere
<1>7. SizesOf(longer) = Append(SizesOf(messages), m.size)
  <2>1. Len(SizesOf(messages)) = Len(messages)
    BY <1>1 DEF SizesOf
  <2>2. Append(SizesOf(messages), m.size) =
          [i \in 1 .. Len(messages) + 1 |-> IF i = Len(messages) + 1 THEN m.size ELSE SizesOf(messages)[i]]
    BY <1>6, <2>1
  <2>3. SizesOf(longer) =
          [i \in 1 .. Len(messages) + 1 |-> IF i = Len(messages) + 1 THEN m.size ELSE SizesOf(messages)[i]]
    BY <1>1, <1>2 DEF SizesOf
  <2> QED BY <2>2, <2>3
<1>8. Total(SizesOf(longer)) = Total(SizesOf(messages)) + m.size /\ Total(SizesOf(messages)) \in Int
  <2>1. m.size \in Int
    BY <1>2
  <2> QED BY <1>6, <1>7, <2>1, TotalAppend
<1>9. Longer(messages, m, longer)
  BY <1>1, <1>3, <1>4, <1>5, <1>8 DEF Longer
<1> QED BY <1>0, <1>9

\* What an input counts.
LEMMA InputCounted ==
    ASSUME TurnValues, NEW messages \in Seq(AiSet \cup AnswerSet)
    PROVE  /\ CountInput(messages) = InputSize(selected, home) + Total(SizesOf(messages))
           /\ InputSize(selected, home) \in Int /\ Total(SizesOf(messages)) \in Int
<1>1. InputSize(selected, home) \in Nat
  <2>1. history \in Seq(TurnSet) /\ home \in Nat
    BY HistoryTypes
  <2>2. selected \in 0 .. Len(history)
    BY DEF TurnValues
  <2> QED BY <2>1, <2>2, InputHasSize
<1>2. Total(SizesOf(messages)) \in Int
  BY SizesAreThere
<1>3. CountInput(messages) = InputSize(selected, home) + Total(SizesOf(messages))
  BY DEF CountInput, SizesOf
<1> QED BY <1>1, <1>2, <1>3

\* The shares of a message's calls, together, are within the rest of the budget.
LEMMA SharesFit ==
    ASSUME TurnValues, NEW n, LastAi(graph, n), graph[n] \in AiSet, graph[n].calls # <<>>
    PROVE  /\ Share \in Int
           /\ Len(graph[n].calls) * Share <=
                Budget - CountInput(SubSeq(graph, 1, n - 1)) - Len(graph[n].calls) * CountAlone(CallSize)
<1>1. graph \in Seq(AiSet \cup AnswerSet) /\ n \in DOMAIN graph
  BY DEF TurnValues, LoopValues, LastAi
<1>2. PICK c : c = Len(graph[n].calls)
  OBVIOUS
<1>3. c \in Nat /\ c > 0
  <2>1. graph[n].calls \in Seq(CallSet)
    BY DEF AiSet
  <2> QED BY <1>2, <2>1
<1>4. PICK before : before = SubSeq(graph, 1, n - 1)
  OBVIOUS
<1>5. before \in Seq(AiSet \cup AnswerSet)
  BY <1>1, <1>4
<1>6. CountInput(before) \in Int
  BY <1>5, InputCounted
<1>7. PICK alone : alone = CountAlone(CallSize)
  OBVIOUS
<1>8. alone \in Int /\ c * alone \in Int
  BY <1>3, <1>7, Limits DEF CountAlone
<1>9. PICK rest : rest = Budget - CountInput(before) - c * alone
  OBVIOUS
<1>10. rest \in Int
  BY <1>6, <1>8, <1>9, Limits
<1>11. Share = rest \div c
  BY <1>1, <1>2, <1>4, <1>7, <1>9, ShareIs DEF ShareOf
<1>12. rest \div c \in Int /\ c * (rest \div c) <= rest
  BY <1>3, <1>10
<1> QED BY <1>2, <1>4, <1>7, <1>9, <1>11, <1>12

\* Two sequences, one after the other.
Joined(a, b, c, S) ==
    /\ c \in Seq(S) /\ Len(c) = Len(a) + Len(b)
    /\ \A k \in 1 .. Len(a) : c[k] = a[k]
    /\ Len(b) = 1 => c[Len(a) + 1] = b[1]

\* That is what their concatenation is.
LEMMA JoinedIs ==
    ASSUME NEW S, NEW a \in Seq(S), NEW b \in Seq(S)
    PROVE  Joined(a, b, a \o b, S)
<1>1. PICK c : c = a \o b
  OBVIOUS
<1>2. /\ c \in Seq(S) /\ Len(c) = Len(a) + Len(b) /\ Len(a) \in Nat
      /\ \A k \in 1 .. Len(a) : c[k] = a[k]
  BY <1>1
<1>3. ASSUME Len(b) = 1 PROVE c[Len(a) + 1] = b[1]
  <2>1. \A i \in 1 .. Len(a) + Len(b) : (a \o b)[i] = IF i <= Len(a) THEN a[i] ELSE b[i - Len(a)]
    BY ConcatProperties, Zenon
  <2>2. PICK n \in Nat : n = Len(a)
    BY <1>2
  <2>3. n + 1 \in 1 .. n + 1 /\ ~(n + 1 <= n) /\ n + 1 - n = 1
    BY <2>2
  <2>6. Len(a) + Len(b) = n + 1
    BY <1>3, <2>2
  <2>7. n + 1 \in 1 .. Len(a) + Len(b)
    BY <2>3, <2>6
  <2>8. c[n + 1] = IF n + 1 <= Len(a) THEN a[n + 1] ELSE b[n + 1 - Len(a)]
    <3>1. \A i \in 1 .. Len(a) + Len(b) : c[i] = IF i <= Len(a) THEN a[i] ELSE b[i - Len(a)]
      BY <1>1, <2>1, Zenon
    <3> QED BY <2>7, <3>1
  <2>4. c[n + 1] = IF n + 1 <= n THEN a[n + 1] ELSE b[n + 1 - n]
    BY <2>2, <2>8, Zenon
  <2>5. c[n + 1] = b[n + 1 - n]
    BY <2>3, <2>4, Zenon
  <2> QED BY <2>2, <2>3, <2>5
<1>4. Joined(a, b, c, S)
  BY <1>2, <1>3 DEF Joined
<1> QED BY <1>1, <1>4, Zenon

\* The events of an answer: the pending message and the starts of its calls, if
\* they were not told yet, then the answer, and the failure if there is one.
Yielded(q, start, answer, failed) ==
    /\ start = Flushed /\ Len(start) \in Nat /\ Len(q) = Len(start) + 1 + (IF failed THEN 1 ELSE 0)
    /\ DOMAIN q = 1 .. Len(q) /\ q \in Seq(EventSet)
    /\ q[Len(start) + 1] = answer /\ (failed => q[Len(start) + 2].type = "raise")
    /\ IF pending = NoMessage THEN Len(start) = 0
       ELSE /\ Len(start) = Len(pending.calls) + 1 /\ q[1] = AssistantEvent(pending)
            /\ \A k \in DOMAIN pending.calls :
                  q[k + 1] = StartEvent(pending.calls[k])

\* What an answer makes the loop yield has that form.
LEMMA YieldedIs ==
    ASSUME pending \in AiSet \cup {NoMessage}, NEW answer \in AnsweredSet, NEW failed \in BOOLEAN,
           NEW q, q = Flushed \o <<answer>>
                      \o (IF failed THEN <<[type |-> "raise", code |-> "context_too_large"]>> ELSE <<>>)
    PROVE  \E start : Yielded(q, start, answer, failed)
<1>1. PICK start : start = Flushed
  OBVIOUS
<1>2. PICK end : end = IF failed THEN <<[type |-> "raise", code |-> "context_too_large"]>> ELSE <<>>
  OBVIOUS
<1>3. /\ end \in Seq(EventSet) /\ Len(end) = IF failed THEN 1 ELSE 0
      /\ failed => end[1].type = "raise"
  <2>1. [type |-> "raise", code |-> "context_too_large"] \in EventSet
    BY DEF EventSet, RaiseSet, RaiseCodes
  <2> QED BY <1>2, <2>1
<1>4. answer \in EventSet
  BY DEF EventSet
<1>5. ASSUME pending # NoMessage
      PROVE  /\ start \in Seq(EventSet) /\ Len(start) = Len(pending.calls) + 1 /\ Len(pending.calls) \in Nat
             /\ DOMAIN pending.calls = 1 .. Len(pending.calls)
             /\ start[1] = AssistantEvent(pending)
             /\ \A k \in DOMAIN pending.calls :
                   start[k + 1] = StartEvent(pending.calls[k])
  <2>1. pending.calls \in Seq(CallSet) /\ pending.text \in TextSet /\ pending.plain \in BOOLEAN
    BY <1>5 DEF AiSet
  <2>2. AssistantEvent(pending) \in EventSet
    BY <2>1 DEF AssistantEvent, AssistantSet, EventSet
  <2>3. PICK starts : starts = [i \in DOMAIN pending.calls |-> StartEvent(pending.calls[i])]
    OBVIOUS
  <2>4. PICK calls : calls = pending.calls
    OBVIOUS
  <2>5. \A i \in DOMAIN calls : StartEvent(calls[i]) \in EventSet
    <3>1. \A i \in DOMAIN calls : calls[i].id \in CallIds /\ calls[i].arguments \in DataSet
      <4>1. calls \in Seq(CallSet)
        BY <2>1, <2>4
      <4>2. \A i \in DOMAIN calls : calls[i] \in CallSet
        BY <4>1
      <4> QED BY <4>2 DEF CallSet
    <3> QED BY <3>1 DEF EventSet, StartSet, StartEvent
  <2>6. Len(calls) \in Nat /\ DOMAIN calls = 1 .. Len(calls)
    BY <2>1, <2>4
  <2>7. starts \in Seq(EventSet) /\ Len(starts) = Len(calls) /\ DOMAIN starts = 1 .. Len(calls)
    BY <2>3, <2>4, <2>5, <2>6
  <2>8. start = <<AssistantEvent(pending)>> \o starts
    BY <1>1, <1>5, <2>3 DEF Flushed
  <2>9. PICK a : a = AssistantEvent(pending)
    OBVIOUS
  <2>10. /\ start \in Seq(EventSet) /\ Len(start) = Len(calls) + 1 /\ start[1] = a
         /\ \A k \in 1 .. Len(calls) : start[k + 1] = starts[k]
    BY <2>2, <2>6, <2>7, <2>8, <2>9
  <2> QED BY <2>3, <2>4, <2>6, <2>9, <2>10
<1>6. ASSUME pending = NoMessage PROVE start = <<>>
  BY <1>1, <1>6 DEF Flushed
<1>7. start \in Seq(EventSet)
  <2>1. <<>> \in Seq(EventSet)
    OBVIOUS
  <2> QED BY <1>5, <1>6, <2>1
<1>8. q = start \o <<answer>> \o end
  BY <1>1, <1>2
<1>9. /\ q \in Seq(EventSet) /\ Len(q) = Len(start) + 1 + Len(end) /\ Len(start) \in Nat
      /\ \A k \in 1 .. Len(start) : q[k] = start[k]
      /\ q[Len(start) + 1] = answer
      /\ Len(end) = 1 => q[Len(start) + 2] = end[1]
  <2>1. PICK mid : mid = start \o <<answer>>
    OBVIOUS
  <2>2. /\ mid \in Seq(EventSet) /\ Len(mid) = Len(start) + 1 /\ Len(start) \in Nat
        /\ \A k \in 1 .. Len(start) : mid[k] = start[k]
        /\ mid[Len(start) + 1] = answer
    BY <1>4, <1>7, <2>1
  <2>3. q = mid \o end
    BY <1>8, <2>1
  <2>4. Joined(mid, end, q, EventSet)
    <3>1. end \in Seq(EventSet)
      BY <1>3
    <3>2. Joined(mid, end, mid \o end, EventSet)
      BY <2>2, <3>1, JoinedIs, Zenon
    <3> QED BY <2>3, <3>2, Zenon
  <2>5. \A k \in 1 .. Len(start) : k \in 1 .. Len(mid)
    BY <2>2
  <2>6. Len(start) + 1 \in 1 .. Len(mid) /\ Len(mid) + 1 = Len(start) + 2
    BY <2>2
  <2> QED BY <1>3, <2>2, <2>4, <2>5, <2>6 DEF Joined
<1>10. Len(q) = Len(start) + 1 + (IF failed THEN 1 ELSE 0) /\ DOMAIN q = 1 .. Len(q)
  BY <1>3, <1>9
<1>11. failed => q[Len(start) + 2].type = "raise"
  BY <1>3, <1>9
<1>12. IF pending = NoMessage THEN Len(start) = 0
       ELSE /\ Len(start) = Len(pending.calls) + 1 /\ q[1] = AssistantEvent(pending)
            /\ \A k \in DOMAIN pending.calls :
                  q[k + 1] = StartEvent(pending.calls[k])
  <2>1. CASE pending = NoMessage
    BY <1>6, <2>1
  <2>2. CASE pending # NoMessage
    <3>1. 1 \in 1 .. Len(start) /\ \A k \in DOMAIN pending.calls : k + 1 \in 1 .. Len(start)
      BY <1>5, <1>9, <2>2
    <3>2. Len(start) = Len(pending.calls) + 1 /\ q[1] = AssistantEvent(pending)
      BY <1>5, <1>9, <2>2, <3>1
    <3>3. ASSUME NEW k \in DOMAIN pending.calls
          PROVE  q[k + 1] = StartEvent(pending.calls[k])
      <4>1. q[k + 1] = start[k + 1]
        BY <1>9, <3>1
      <4> QED BY <1>5, <2>2, <4>1
    <3> QED BY <2>2, <3>2, <3>3
  <2> QED BY <2>1, <2>2
<1> QED BY <1>1, <1>9, <1>10, <1>11, <1>12 DEF Yielded

\* Where the events of each type are.
LEMMA YieldedTypes ==
    ASSUME pending \in AiSet \cup {NoMessage}, NEW answer \in AnsweredSet, NEW failed \in BOOLEAN,
           NEW q, NEW start, Yielded(q, start, answer, failed)
    PROVE  /\ \A k \in DOMAIN q : q[k].type = "assistant" => k = 1 /\ pending # NoMessage
           /\ \A k \in DOMAIN q : q[k].type = "raise" => k = Len(q) /\ failed
           /\ \A k \in DOMAIN q : q[k].type \notin {"end", "delta"}
           /\ \A k \in DOMAIN q : q[k].type = "start" =>
                 /\ pending # NoMessage /\ k # 1 /\ k - 1 \in DOMAIN pending.calls /\ k < Len(start) + 1
                 /\ q[k].id = pending.calls[k - 1].id
           /\ \A k \in DOMAIN q : q[k].type = "result" <=> k = Len(start) + 1
           /\ pending # NoMessage => 1 \in DOMAIN q /\ q[1] = AssistantEvent(pending) /\ q[1].type = "assistant"
           /\ pending = NoMessage => q[1] = answer
           /\ Len(start) + 1 \in DOMAIN q /\ q # <<>>
           /\ failed => \E k \in DOMAIN q : q[k].type = "raise"
           /\ Len(q) >= Len(start) + 1 /\ Len(q) \in Nat
<1>1. answer.type = "result"
  BY DEF AnsweredSet
<1>2. PICK n : n = Len(start)
  OBVIOUS
<1>3. /\ n \in Nat /\ Len(q) = n + 1 + (IF failed THEN 1 ELSE 0) /\ DOMAIN q = 1 .. Len(q)
      /\ q[n + 1] = answer /\ (failed => q[n + 2].type = "raise") /\ q \in Seq(EventSet)
  BY <1>2 DEF Yielded
<1>4. n + 1 \in DOMAIN q /\ q # <<>> /\ (failed => n + 2 \in DOMAIN q /\ n + 2 = Len(q))
  BY <1>3
<1>5. CASE pending = NoMessage
  <2>1. n = 0
    BY <1>2, <1>5 DEF Yielded
  <2>2. \A k \in DOMAIN q : k = n + 1 \/ (failed /\ k = n + 2)
    BY <1>3, <2>1
  <2> QED BY <1>1, <1>2, <1>3, <1>4, <1>5, <2>1, <2>2
<1>6. CASE pending # NoMessage
  <2>1. pending.calls \in Seq(CallSet)
    BY <1>6 DEF AiSet
  <2>2. PICK calls : calls = pending.calls
    OBVIOUS
  <2>3. Len(calls) \in Nat /\ DOMAIN calls = 1 .. Len(calls)
    BY <2>1, <2>2
  <2>4. /\ n = Len(calls) + 1 /\ q[1] = AssistantEvent(pending)
        /\ \A k \in DOMAIN calls : q[k + 1] = StartEvent(calls[k])
    BY <1>2, <1>6, <2>2 DEF Yielded
  <2>5. q[1].type = "assistant"
    BY <2>4 DEF AssistantEvent
  <2>6. ASSUME NEW k \in DOMAIN q, k # 1, k < n + 1
        PROVE  k - 1 \in DOMAIN calls /\ q[k].type = "start" /\ q[k].id = calls[k - 1].id
    <3>1. k - 1 \in DOMAIN calls /\ (k - 1) + 1 = k
      BY <1>3, <2>3, <2>4, <2>6
    <3>2. q[(k - 1) + 1] = StartEvent(calls[k - 1])
      BY <2>4, <3>1
    <3>3. q[k] = StartEvent(calls[k - 1])
      BY <3>1, <3>2
    <3> QED BY <3>1, <3>3 DEF StartEvent
  <2>7. \A k \in DOMAIN q : \/ k = 1
                            \/ k # 1 /\ k < n + 1
                            \/ k = n + 1
                            \/ failed /\ k = n + 2
    BY <1>3
  <2>8. n + 1 # 1
    BY <2>3, <2>4
  <2>9. ASSUME NEW k \in DOMAIN q
        PROVE  /\ q[k].type = "assistant" => k = 1
               /\ q[k].type = "raise" => k = Len(q) /\ failed
               /\ q[k].type \notin {"end", "delta"}
               /\ q[k].type = "start" => k # 1 /\ k < n + 1
               /\ q[k].type = "result" <=> k = n + 1
    <3>1. CASE k = 1
      BY <2>5, <2>8, <3>1
    <3>2. CASE k # 1 /\ k < n + 1
      <4>1. k # n + 1
        BY <1>3, <3>2
      <4> QED BY <2>6, <3>2, <4>1
    <3>3. CASE k = n + 1
      BY <1>1, <1>3, <2>8, <3>3
    <3>4. CASE failed /\ k = n + 2
      <4>1. k # 1 /\ k # n + 1 /\ k = Len(q)
        BY <1>3, <1>4, <3>4
      <4> QED BY <1>3, <3>4, <4>1
    <3> QED BY <2>7, <3>1, <3>2, <3>3, <3>4
  <2>10. 1 \in DOMAIN q
    BY <1>3
  <2>11. Len(q) >= n + 1 /\ Len(q) \in Nat /\ (failed => \E k \in DOMAIN q : q[k].type = "raise")
    BY <1>3, <1>4
  <2>12. \A k \in DOMAIN q : q[k].type = "start" =>
            /\ k # 1 /\ k - 1 \in DOMAIN calls /\ k < n + 1 /\ q[k].id = calls[k - 1].id
    BY <2>6, <2>9
  <2> QED BY <1>2, <1>4, <1>6, <2>2, <2>4, <2>5, <2>9, <2>10, <2>11, <2>12
<1> QED BY <1>5, <1>6

\* A tool answers.
LEMMA AnswerKeeps == TurnInv /\ ToolReturns => TurnInv'
<1> SUFFICES ASSUME TurnInv, ToolReturns PROVE TurnInv'
  OBVIOUS
<1>1. /\ LoopValues /\ LoopInv /\ reducer \in ReducerSet /\ ReducerInv(reducer)
      /\ stage = "loop" /\ events = <<>> /\ node = "tools"
      /\ UNCHANGED unmoved /\ UNCHANGED stream /\ pending' = NoMessage
  BY DEF TurnInv, TurnValues, ToolReturns, Pulled
<1>2. PICK n : n = Max({i \in DOMAIN graph : graph[i].role = "ai"})
  OBVIOUS
<1>3. /\ graph \in Seq(AiSet \cup AnswerSet) /\ running \subseteq CallIds
      /\ pending \in AiSet \cup {NoMessage}
  BY <1>1 DEF LoopValues
<1>4. LastAi(graph, n) /\ CurrentCalls = graph[n].calls /\ n \in DOMAIN graph
  <2>1. \E i \in DOMAIN graph : graph[i].role = "ai"
    BY <1>1 DEF LoopInv, Graphed
  <2>2. LastAi(graph, n)
    BY <1>2, <1>3, <2>1, LastIsMax
  <2> QED BY <1>2, <2>2 DEF LastAi, CurrentCalls
<1>5. PICK i \in DOMAIN CurrentCalls :
        LET call == CurrentCalls[i]
        IN  /\ call.id \in running
            /\ \E result \in ToolResults(call) :
                 /\ graph' = Append(graph, [role |-> "tool", id |-> call.id, size |-> result.size])
                 /\ events' = Flushed \o <<[type |-> "result", id |-> call.id, result |-> result]>>
                      \o (IF result.terminal
                            THEN <<[type |-> "raise", code |-> "context_too_large"]>> ELSE <<>>)
            /\ running' = running \ {call.id}
            /\ node' = IF running' = {} THEN "guard" ELSE "tools"
  BY DEF ToolReturns
<1>6. PICK call : call = CurrentCalls[i]
  OBVIOUS
<1>7. PICK result \in ToolResults(call) :
        /\ graph' = Append(graph, [role |-> "tool", id |-> call.id, size |-> result.size])
        /\ events' = Flushed \o <<[type |-> "result", id |-> call.id, result |-> result]>>
             \o (IF result.terminal
                   THEN <<[type |-> "raise", code |-> "context_too_large"]>> ELSE <<>>)
  BY <1>5, <1>6
<1>8. call.id \in running /\ running' = running \ {call.id} /\ node' \in {"guard", "tools"}
      /\ (node' = "guard" <=> running' = {})
  BY <1>5, <1>6
<1>10. graph[n] \in AiSet /\ graph[n].calls # <<>> /\ graph[n].calls \in Seq(CallSet) /\ WellFormed(graph[n].calls)
  <2>1. graph[n].role = "ai" /\ graph[n] \in AiSet \cup AnswerSet
    BY <1>3, <1>4 DEF LastAi
  <2>2. graph[n] \in AiSet
    BY <2>1 DEF AnswerSet
  <2>3. graph[n].calls # <<>> /\ WellFormed(graph[n].calls)
    BY <1>1, <1>4, <2>1 DEF LoopInv, Graphed
  <2> QED BY <2>2, <2>3 DEF AiSet
<1>9. /\ result \in ResultSet
      /\ ~result.terminal /\ call.bound => Share > 0 /\ CountAlone(result.size) <= Share
  <2>1. Terminal \in ResultSet /\ Terminal.terminal /\ Notice \in ResultSet
    BY Limits DEF Terminal, Notice, Own, ResultSet
  <2>2. CASE Share <= 0
    BY <1>7, <2>1, <2>2 DEF ToolResults
  <2>3. CASE ~(Share <= 0) /\ ~call.bound
    BY <1>7, <2>1, <2>3 DEF ToolResults, ToolNotFound
  <2>4. CASE ~(Share <= 0) /\ call.bound
    <3>1. PICK r \in Results :
             result = FitResult([size |-> r.size, length |-> r.length, sources |-> r.sources,
                                 error |-> r.error, terminal |-> FALSE], Share)
      BY <1>7, <2>4 DEF ToolResults
    <3>2. r.size \in Nat /\ r.length \in Nat /\ r.sources \in Nat /\ r.error \in BOOLEAN
      BY TurnAssumption DEF TurnAssumption
    <3>3. PICK own : own = [size |-> r.size, length |-> r.length, sources |-> r.sources,
                            error |-> r.error, terminal |-> FALSE]
      OBVIOUS
    <3>4. own \in ResultSet
      BY <3>2, <3>3 DEF ResultSet
    <3>5. result = IF CountAlone(own.size) <= Share THEN own
                   ELSE IF CountAlone(NoticeSize) <= Share THEN Notice ELSE Terminal
      BY <3>1, <3>3 DEF FitResult
    <3>6. Notice.size = NoticeSize
      BY DEF Notice, Own
    <3>7. Share \in Int
      BY <1>3, <1>4, <1>10, SharesFit DEF TurnInv
    <3>8. Share > 0
      BY <2>4, <3>7
    <3> QED BY <2>1, <3>4, <3>5, <3>6, <3>8
  <2> QED BY <2>2, <2>3, <2>4
<1>11. call \in CallSet /\ call.id \in CallIds /\ call.id \in IdsOf(graph[n].calls) /\ i \in DOMAIN graph[n].calls
      /\ call = graph[n].calls[i]
  <2>1. call \in CallSet
    BY <1>4, <1>6, <1>10
  <2> QED BY <1>4, <1>6, <2>1 DEF CallSet, IdsOf
<1>12. PICK m : m = [role |-> "tool", id |-> call.id, size |-> result.size]
  OBVIOUS
<1>13. m \in AnswerSet /\ m.size = result.size /\ graph' = Append(graph, m) /\ result.size \in Nat
  BY <1>7, <1>9, <1>11, <1>12 DEF AnswerSet, ResultSet
<1>14. PICK longer : longer = graph'
  OBVIOUS
<1>15. Longer(graph, m, longer)
  <2>1. Longer(graph, m, Append(graph, m))
    BY <1>3, <1>13, AnswerAdded, Zenon
  <2> QED BY <1>13, <1>14, <2>1, Zenon
<1>16. PICK answer : answer = [type |-> "result", id |-> call.id, result |-> result]
  OBVIOUS
<1>17. answer \in AnsweredSet /\ answer.id = call.id
  BY <1>9, <1>11, <1>16 DEF AnsweredSet
<1>18. PICK q : q = events'
  OBVIOUS
<1>19. result.terminal \in BOOLEAN
  BY <1>9 DEF ResultSet
<1>20. PICK start : Yielded(q, start, answer, result.terminal)
  <2>1. PICK failed : failed = result.terminal
    OBVIOUS
  <2>2. q = Flushed \o <<answer>>
               \o (IF failed THEN <<[type |-> "raise", code |-> "context_too_large"]>> ELSE <<>>)
    BY <1>7, <1>16, <1>18, <2>1
  <2> QED BY <1>3, <1>17, <1>19, <2>1, <2>2, YieldedIs
<1> DEFINE at == Len(start) + 1
<1>21. /\ \A k \in DOMAIN q : q[k].type = "assistant" => k = 1 /\ pending # NoMessage
       /\ \A k \in DOMAIN q : q[k].type = "raise" => k = Len(q) /\ result.terminal
       /\ \A k \in DOMAIN q : q[k].type \notin {"end", "delta"}
       /\ \A k \in DOMAIN q : q[k].type = "start" =>
             /\ pending # NoMessage /\ k # 1 /\ k - 1 \in DOMAIN pending.calls /\ k < at
             /\ q[k].id = pending.calls[k - 1].id
       /\ \A k \in DOMAIN q : q[k].type = "result" <=> k = at
       /\ pending # NoMessage => 1 \in DOMAIN q /\ q[1] = AssistantEvent(pending) /\ q[1].type = "assistant"
       /\ pending = NoMessage => q[1] = answer
       /\ at \in DOMAIN q /\ q # <<>> /\ q[at] = answer
       /\ result.terminal => \E k \in DOMAIN q : q[k].type = "raise"
       /\ Len(q) >= Len(start) + 1 /\ Len(q) \in Nat
  <2>1. q[at] = answer
    BY <1>20 DEF Yielded
  <2> QED BY <1>3, <1>17, <1>19, <1>20, <2>1, YieldedTypes
<1>22. /\ q \in Seq(EventSet) /\ DOMAIN q \subseteq Nat
       /\ pending # NoMessage => \A k \in DOMAIN pending.calls :
             k + 1 \in DOMAIN q /\ q[k + 1] = StartEvent(pending.calls[k])
  <2>1. /\ q \in Seq(EventSet) /\ DOMAIN q = 1 .. Len(q) /\ Len(q) \in Nat
    BY <1>20 DEF Yielded
  <2>2. ASSUME pending # NoMessage, NEW k \in DOMAIN pending.calls
        PROVE  k + 1 \in DOMAIN q /\ q[k + 1] = StartEvent(pending.calls[k])
    <3>1. /\ Len(start) = Len(pending.calls) + 1 /\ Len(start) \in Nat
          /\ q[k + 1] = StartEvent(pending.calls[k])
      BY <1>20, <2>2 DEF Yielded
    <3>2. pending.calls \in Seq(CallSet)
      BY <1>3, <2>2 DEF AiSet
    <3>3. k \in 1 .. Len(pending.calls) /\ Len(pending.calls) \in Nat
      BY <2>2, <3>2
    <3>4. PICK c : c = Len(pending.calls)
      OBVIOUS
    <3>5. Len(q) >= c + 2 /\ Len(q) \in Nat /\ c \in Nat
      BY <1>21, <3>1, <3>3, <3>4
    <3>6. k \in 1 .. c
      BY <3>3, <3>4
    <3>7. k + 1 \in 1 .. Len(q)
      BY <3>5, <3>6
    <3> QED BY <2>1, <3>1, <3>7
  <2> QED BY <2>1, <2>2
<1> HIDE DEF at
<1>23. LoopValues'
  BY <1>1, <1>3, <1>8, <1>14, <1>15, <1>18, <1>22 DEF LoopValues, Longer
<1>24. Queued'
  <2>1. ASSUME NEW k \in DOMAIN q, q[k].type = "start"
        PROVE  \A j \in DOMAIN q : q[j].type = "start" /\ q[j].id = q[k].id => j = k
    <3>1. pending # NoMessage /\ pending.calls \in Seq(CallSet) /\ WellFormed(pending.calls)
      BY <1>1, <1>3, <1>21, <2>1 DEF LoopInv, Graphed, AiSet
    <3>2. \A a, b \in DOMAIN pending.calls : pending.calls[a].id = pending.calls[b].id => a = b
      BY <3>1, CallsDiffer
    <3>3. ASSUME NEW j \in DOMAIN q, q[j].type = "start", q[j].id = q[k].id PROVE j = k
      <4>1. /\ k - 1 \in DOMAIN pending.calls /\ q[k].id = pending.calls[k - 1].id
            /\ j - 1 \in DOMAIN pending.calls /\ q[j].id = pending.calls[j - 1].id
        BY <1>21, <2>1, <3>3
      <4>2. j - 1 = k - 1
        BY <3>2, <3>3, <4>1
      <4>3. j \in Nat /\ k \in Nat
        BY <1>22
      <4> QED BY <4>2, <4>3
    <3> QED BY <3>3
  <2>2. ASSUME NEW k \in DOMAIN q, q[k].type = "result"
        PROVE  /\ q[k].id \notin running'
               /\ \A j \in DOMAIN q : q[j].type = "start" => j < k
               /\ \A j \in DOMAIN q : q[j].type = "result" => j = k
    <3>1. k = at /\ q[k].id = call.id
      BY <1>17, <1>21, <2>2
    <3> QED BY <1>8, <1>21, <3>1
  <2> QED BY <1>8, <1>18, <1>21, <2>1, <2>2 DEF Queued
<1>25. Graphed'
  <2>1. \A k \in DOMAIN graph : graph[k].role = "ai" => graph[k].calls # <<>>
    BY <1>1 DEF LoopInv, Graphed
  <2>2. \A k \in DOMAIN longer : longer[k].role = "ai" =>
          /\ longer[k].calls # <<>> /\ WellFormed(longer[k].calls) /\ Len(longer[k].calls) <= MaxCalls
    BY <1>1, <1>15, <2>1 DEF LoopInv, Graphed, Longer
  <2>3. n \in DOMAIN longer /\ longer[n].role = "ai"
    BY <1>4, <1>15 DEF LastAi, Longer
  <2> QED BY <1>1, <1>8, <1>14, <2>2, <2>3 DEF Graphed
<1>26. NoneForgotten'
  <2>1. ASSUME NEW k \in DOMAIN graph, graph[k].role = "ai"
        PROVE  \/ IdsOf(graph[k].calls) \subseteq Declared(reducer)
               \/ \E j \in DOMAIN q : q[j].type = "assistant" /\ IdsOf(graph[k].calls) = IdsOf(q[j].calls)
    <3>1. \/ IdsOf(graph[k].calls) \subseteq Declared(reducer)
          \/ pending # NoMessage /\ IdsOf(graph[k].calls) = IdsOf(pending.calls)
      BY <1>1, <2>1 DEF LoopInv, NoneForgotten
    <3>2. pending # NoMessage => 1 \in DOMAIN q /\ q[1].type = "assistant" /\ q[1].calls = pending.calls
      BY <1>21 DEF AssistantEvent
    <3> QED BY <3>1, <3>2
  <2>2. reducer' = reducer
    BY <1>1 DEF unmoved
  <2> QED BY <1>14, <1>15, <1>18, <2>1, <2>2 DEF NoneForgotten, Longer
<1>27. Share' = Share
  <2>1. LastAi(graph', n) /\ graph' \in Seq(AiSet \cup AnswerSet)
    BY <1>4, <1>14, <1>15 DEF Longer
  <2>2. (CHOOSE k \in DOMAIN graph' :
               /\ graph'[k].role = "ai"
               /\ \A j \in DOMAIN graph' : graph'[j].role = "ai" => j <= k) = n
    BY <2>1, LastIsThat
  <2>3. Share' = ShareOf(graph, n)'
    BY <2>2 DEF Share, ShareOf
  <2>4. SubSeq(graph', 1, n - 1) = SubSeq(graph, 1, n - 1) /\ graph'[n] = graph[n]
    BY <1>4, <1>14, <1>15 DEF Longer
  <2>5. CountInput(SubSeq(graph, 1, n - 1))' = CountInput(SubSeq(graph, 1, n - 1))
    BY <1>1, <2>4 DEF CountInput, InputSize, unmoved
  <2>6. Share = ShareOf(graph, n)
    BY <1>3, <1>4, ShareIs
  <2> QED BY <2>3, <2>4, <2>5, <2>6 DEF ShareOf
<1>28. InShares'
  <2>1. SUFFICES ASSUME ~result.terminal PROVE InShares'
    <3>1. result.terminal => \E k \in DOMAIN q : q[k].type = "raise"
      BY <1>21
    <3> QED BY <1>18, <3>1 DEF InShares
  <2>2. running \subseteq IdsOf(graph[n].calls)
    BY <1>1, <1>4, NoEvents DEF LoopInv, InShares, LastAi
  <2> DEFINE bound == \A c \in DOMAIN graph[n].calls : graph[n].calls[c].bound
             out == Len(graph[n].calls) - Cardinality(running)
             sent == Total(SizesOf(SubSeq(graph, 1, n)))
  <2>3. /\ Cardinality(IdsOf(graph[n].calls)) = Len(graph[n].calls) /\ Len(graph[n].calls) \in Nat
        /\ IsFiniteSet(IdsOf(graph[n].calls)) /\ IdsOf(graph[n].calls) \subseteq CallIds
    BY <1>10, CallsDiffer
  <2>4. Cardinality(running') = Cardinality(running) - 1 /\ Cardinality(running) \in Nat
    <3>1. IsFiniteSet(running)
      BY <2>2, <2>3, FS_Subset
    <3> QED BY <1>8, <3>1, FS_RemoveElement, FS_CardinalityType
  <2>5. sent \in Int
    <3>1. SubSeq(graph, 1, n) \in Seq(AiSet \cup AnswerSet)
      BY <1>3, <1>4
    <3> QED BY <3>1, SizesAreThere
  <2>6. Share \in Int
    BY <1>4, <1>10, SharesFit DEF TurnInv
  <2>7. ASSUME bound
        PROVE  Share > 0 /\ Total(SizesOf(graph)) <= sent + out * Share
    <3>1. \/ running = IdsOf(graph[n].calls) /\ n = Len(graph)
          \/ Share > 0 /\ Total(SizesOf(graph)) <= sent + out * Share
      BY <1>1, <1>4, <2>7, NoEvents DEF LoopInv, InShares, LastAi
    <3>2. CASE running = IdsOf(graph[n].calls) /\ n = Len(graph)
      <4>1. SubSeq(graph, 1, n) = graph
        BY <1>3, <3>2
      <4>2. out = 0
        BY <2>3, <3>2
      <4>3. Total(SizesOf(graph)) <= sent + out * Share
        <5>1. Total(SizesOf(graph)) = sent
          BY <4>1
        <5>2. out * Share = 0
          <6> HIDE DEF out
          <6> QED BY <2>6, <4>2
        <5> HIDE DEF sent, out
        <5> QED BY <2>5, <5>1, <5>2
      <4>4. Share > 0
        BY <1>9, <1>11, <2>1, <2>7
      <4> QED BY <4>3, <4>4
    <3> QED BY <3>1, <3>2
  <2>8. ASSUME bound
        PROVE  Total(SizesOf(longer)) <= sent + (Len(graph[n].calls) - Cardinality(running')) * Share
    <3>1. Total(SizesOf(longer)) = Total(SizesOf(graph)) + result.size /\ Total(SizesOf(graph)) \in Int
      BY <1>13, <1>15 DEF Longer
    <3>2. result.size <= Share
      <4>1. result.size + Slack <= Share
        BY <1>9, <1>11, <2>1, <2>8 DEF CountAlone
      <4> QED BY <1>13, <2>6, <4>1, Limits
    <3>3. Len(graph[n].calls) - Cardinality(running') = out + 1 /\ out \in Int
      <4>1. \A a, b, c \in Int : c = b - 1 => a - c = (a - b) + 1 /\ a - b \in Int
        OBVIOUS
      <4>2. Cardinality(running') \in Int /\ Cardinality(running) \in Int /\ Len(graph[n].calls) \in Int
        BY <2>3, <2>4
      <4> QED BY <2>4, <4>1, <4>2
    <3>4. \A a, b \in Int : (a + 1) * b = a * b + b /\ a * b \in Int
      OBVIOUS
    <3>5. (out + 1) * Share = out * Share + Share /\ out * Share \in Int
      BY <2>6, <3>3, <3>4
    <3>6. Total(SizesOf(graph)) <= sent + out * Share
      BY <2>7, <2>8
    <3> HIDE DEF out, sent
    <3>7. Total(SizesOf(graph)) + result.size <= sent + (out * Share + Share)
      BY <1>13, <2>5, <2>6, <3>1, <3>2, <3>5, <3>6
    <3> QED BY <3>1, <3>3, <3>5, <3>7
  <2>9. ASSUME NEW k \in DOMAIN longer, longer[k].role = "ai",
               \A j \in DOMAIN longer : longer[j].role = "ai" => j <= k
        PROVE  k = n /\ longer[k] = graph[n] /\ SubSeq(longer, 1, k) = SubSeq(graph, 1, n)
    <3>1. LastAi(longer, k) /\ LastAi(graph, k)
      BY <1>15, <2>9 DEF LastAi, Longer
    <3>2. k = n
      <4>1. k <= n /\ n <= k /\ DOMAIN graph \subseteq Nat
        BY <1>3, <1>4, <3>1 DEF LastAi
      <4> QED BY <1>4, <3>1, <4>1 DEF LastAi
    <3> QED BY <1>4, <1>15, <3>2 DEF Longer
  <2> HIDE DEF sent, out, bound
  <2>10. ASSUME NEW k \in DOMAIN longer, longer[k].role = "ai",
                \A j \in DOMAIN longer : longer[j].role = "ai" => j <= k
         PROVE  /\ running' \subseteq IdsOf(longer[k].calls)
                /\ (\A c \in DOMAIN longer[k].calls : longer[k].calls[c].bound) =>
                      /\ Share > 0
                      /\ Total(SizesOf(longer)) <=
                           Total(SizesOf(SubSeq(longer, 1, k)))
                           + (Len(longer[k].calls) - Cardinality(running')) * Share
    <3>1. k = n /\ longer[k] = graph[n] /\ SubSeq(longer, 1, k) = SubSeq(graph, 1, n)
      BY <2>9, <2>10
    <3> QED BY <1>8, <2>2, <2>7, <2>8, <3>1 DEF sent, bound
  <2> QED BY <1>14, <1>27, <2>10 DEF InShares
<1>29. ASSUME ~ReusedId' PROVE InStep'
  <2>1. InStep
    <3>1. ~ReusedId
      BY <1>14, <1>15, <1>29 DEF ReusedId, CalledIn, Longer
    <3> QED BY <1>1, <3>1 DEF LoopInv
  <2>2. KnownIds' = KnownIds
    <3>1. \A id : id \in KnownIds' <=> id \in KnownIds
      BY <1>14, <1>15 DEF KnownIds, Longer
    <3> QED BY <3>1
  <2>3. ResultIds' = {call.id}
    <3>1. \A k \in DOMAIN q : q[k].type = "result" <=> k = at
      BY <1>21
    <3>2. at \in DOMAIN q /\ q[at].id = call.id
      BY <1>17, <1>21
    <3> QED BY <1>18, <3>1, <3>2 DEF ResultIds
  <2>4. running = running' \cup ResultIds'
    BY <1>8, <2>3
  <2>5. StartIds = {} /\ ResultIds = {} /\ ~Telling
    BY <1>1, NoEvents
  <2>6. reducer' = reducer
    BY <1>1 DEF unmoved
  <2>7. CASE pending = NoMessage
    <3>1. ~Telling' /\ StartIds' = {}
      <4>1. q[1].type # "assistant"
        BY <1>16, <1>21, <2>7
      <4>2. \A k \in DOMAIN q : q[k].type # "start"
        BY <1>21, <2>7
      <4> QED BY <1>18, <4>1, <4>2 DEF Telling, StartIds
    <3> QED BY <1>1, <1>8, <2>1, <2>2, <2>4, <2>5, <2>6, <2>7, <3>1 DEF InStep
  <2>8. CASE pending # NoMessage
    <3>1. Telling' /\ q[1] = AssistantEvent(pending) /\ q[1].calls = pending.calls /\ q[1].text = pending.text
      BY <1>18, <1>21, <2>8 DEF Telling, AssistantEvent
    <3>2. Untold(reducer, pending) /\ running = IdsOf(pending.calls) /\ running \subseteq KnownIds
          /\ Declared(reducer) \subseteq KnownIds
      BY <2>1, <2>8 DEF InStep
    <3>3. Untold(reducer, q[1])
      BY <3>1, <3>2 DEF Untold
    <3>4. StartIds' = IdsOf(pending.calls)
      <4>1. \A k \in DOMAIN pending.calls :
               /\ k + 1 \in DOMAIN q /\ q[k + 1].type = "start" /\ q[k + 1].id = pending.calls[k].id
        <5>1. ASSUME NEW k \in DOMAIN pending.calls
              PROVE  /\ k + 1 \in DOMAIN q /\ q[k + 1].type = "start" /\ q[k + 1].id = pending.calls[k].id
          <6>1. k + 1 \in DOMAIN q /\ q[k + 1] = StartEvent(pending.calls[k])
            BY <1>22, <2>8
          <6> QED BY <6>1 DEF StartEvent
        <5> QED BY <5>1
      <4>2. \A k \in DOMAIN q : q[k].type = "start" =>
               k - 1 \in DOMAIN pending.calls /\ q[k].id = pending.calls[k - 1].id
        BY <1>21
      <4>3. ASSUME NEW id \in IdsOf(pending.calls)
            PROVE  id \in {q[k].id : k \in {j \in DOMAIN q : q[j].type = "start"}}
        <5>1. PICK k \in DOMAIN pending.calls : id = pending.calls[k].id
          BY DEF IdsOf
        <5> QED BY <4>1, <5>1
      <4>4. \A id \in {q[k].id : k \in {j \in DOMAIN q : q[j].type = "start"}} : id \in IdsOf(pending.calls)
        BY <4>2 DEF IdsOf
      <4>5. {q[k].id : k \in {j \in DOMAIN q : q[j].type = "start"}} = IdsOf(pending.calls)
        BY <4>3, <4>4
      <4> QED BY <1>18, <4>5 DEF StartIds
    <3> QED BY <1>1, <1>8, <1>18, <2>2, <2>4, <2>6, <3>1, <3>2, <3>3, <3>4 DEF InStep
  <2> QED BY <2>7, <2>8
<1> QED BY <1>1, <1>23, <1>24, <1>25, <1>26, <1>28, <1>29, LoopGoesOn DEF LoopInv, unmoved

-----------------------------------------------------------------------------
(* The steps of the turn: the reducer *)

\* The type of an event says what it carries.
LEMMA EventTypes ==
    ASSUME NEW e \in EventSet
    PROVE  /\ e.type \in {"raise", "end", "delta", "assistant", "start", "result"}
           /\ e.type = "raise" => e \in RaiseSet
           /\ e.type = "delta" => e \in DeltaSet
           /\ e.type = "assistant" => e \in AssistantSet
           /\ e.type = "start" => e \in StartSet
           /\ e.type = "result" => e \in AnsweredSet
<1>1. /\ \A x \in RaiseSet : x.type = "raise"
      /\ \A x \in EndSet : x.type = "end"
      /\ \A x \in DeltaSet : x.type = "delta"
      /\ \A x \in AssistantSet : x.type = "assistant"
      /\ \A x \in StartSet : x.type = "start"
      /\ \A x \in AnsweredSet : x.type = "result"
  BY DEF RaiseSet, EndSet, DeltaSet, AssistantSet, StartSet, AnsweredSet
<1>2. \/ e \in RaiseSet \/ e \in EndSet \/ e \in DeltaSet \/ e \in AssistantSet
      \/ e \in StartSet \/ e \in AnsweredSet
  BY DEF EventSet
<1> QED BY <1>1, <1>2

\* What an accepted event leaves.
LEMMA Accepting ==
    ASSUME NEW r \in ReducerSet, ReducerInv(r), NEW e \in EventSet,
           e.type \in {"delta", "assistant", "start", "result"}, ~OutOfOrder(r, e),
           NEW s, s = Accepted(r, e)
    PROVE  /\ s \in ReducerSet /\ ReducerInv(s)
           /\ e.type = "delta" =>
                 /\ s.chain = r.chain /\ s.started = r.started /\ s.resolved = r.resolved
                 /\ s.deltas = Join(r.deltas, e.text)
           /\ e.type = "assistant" =>
                 /\ s.chain = Append(r.chain, AssistantMessage(e)) /\ s.started = r.started
                 /\ s.resolved = r.resolved /\ s.deltas = NoText
                 /\ Declared(s) = Declared(r) \cup IdsOf(e.calls)
           /\ e.type = "start" =>
                 /\ s.chain = r.chain /\ s.started = r.started \cup {e.id} /\ s.resolved = r.resolved
                 /\ s.deltas = r.deltas
           /\ e.type = "result" =>
                 /\ s.started = r.started /\ s.resolved = r.resolved \cup {e.id} /\ s.deltas = r.deltas
                 /\ Declared(s) = Declared(r)
<1>1. CASE e.type = "delta"
  <2>1. ~DeltaRefused(r, e) /\ s = AcceptDelta(r, e)
    BY <1>1, Zenon DEF OutOfOrder, Accepted
  <2> QED BY <1>1, <2>1, EventTypes, DeltaAccepted
<1>2. CASE e.type = "assistant"
  <2>1. ~AssistantRefused(r, e) /\ s = AcceptAssistant(r, e)
    BY <1>2, Zenon DEF OutOfOrder, Accepted
  <2> QED BY <1>2, <2>1, EventTypes, AssistantAccepted
<1>3. CASE e.type = "start"
  <2>1. ~StartRefused(r, e) /\ s = AcceptStart(r, e)
    BY <1>3, Zenon DEF OutOfOrder, Accepted
  <2> QED BY <1>3, <2>1, EventTypes, StartAccepted
<1>4. CASE e.type = "result"
  <2>1. ~ResultRefused(r, e) /\ s = AcceptResult(r, e)
    BY <1>4, Zenon DEF OutOfOrder, Accepted
  <2> QED BY <1>4, <2>1, EventTypes, ResultAccepted
<1> QED BY <1>1, <1>2, <1>3, <1>4

\* A text is open or there is none, and an answer that is not resolved is awaited.
LEMMA NothingClosed ==
    ASSUME NEW r \in ReducerSet, ReducerInv(r)
    PROVE  /\ OpenText(r)
           /\ \A id \in r.started \ r.resolved : r.blocks[ToolBlockOf(r, id)].status = "pending"
           /\ r.resolved \subseteq r.started /\ r.started \subseteq Declared(r)
           /\ Unresolved(r) = {} =>
                \A i \in DOMAIN r.blocks : r.blocks[i].type = "tool" => r.blocks[i].status # "pending"
<1>1. OpenText(r)
  <2>1. r.textBlock # 0 => r.textBlock \in DOMAIN r.blocks
    <3>1. /\ r.blocks \in Seq(BlockSet) /\ r.textBlock \in Nat
          /\ DOMAIN r.blocks = 1 .. Len(r.blocks) /\ Len(r.blocks) \in Nat
      BY ReducerTypes
    <3>2. r.textBlock # 0 => r.textBlock = Len(r.blocks)
      BY DEF ReducerInv, Whole
    <3> QED BY <3>1, <3>2
  <2> QED BY <2>1 DEF ReducerInv, Whole, OpenText
<1>2. Tidy(r)
  BY DEF ReducerInv
<1>3. ASSUME NEW id \in r.started \ r.resolved PROVE r.blocks[ToolBlockOf(r, id)].status = "pending"
  <2>1. PICK i : i = ToolBlockOf(r, id)
    OBVIOUS
  <2>2. i \in DOMAIN r.blocks /\ r.blocks[i].id = id /\ r.blocks[i].type = "tool"
    BY <1>2, <2>1, BlockOfCall
  <2> QED BY <1>2, <2>1, <2>2 DEF Tidy
<1> QED BY <1>1, <1>2, <1>3 DEF Tidy, Unresolved

\* A turn in step with its reducer is finished unless its answer is blank.
LEMMA EndIsFinished ==
    ASSUME TurnInv, stage = "loop", InStep, events # <<>>, events[1].type = "end"
    PROVE  Finishable(reducer) \/ (graph[Len(graph)].role = "ai" /\ graph[Len(graph)].text.blank)
<1>1. /\ LoopInv /\ reducer \in ReducerSet /\ ReducerInv(reducer) /\ events \in Seq(EventSet)
  BY DEF TurnInv, TurnValues, LoopValues
<1>2. 1 \in DOMAIN events /\ \A k \in DOMAIN events : k = 1 /\ Len(events) = 1 /\ node = "end"
  <2>1. PICK q : q = events
    OBVIOUS
  <2>2. q \in Seq(EventSet) /\ q # <<>>
    BY <1>1, <2>1
  <2>3. 1 \in DOMAIN q /\ DOMAIN q = 1 .. Len(q) /\ Len(q) \in Nat
    BY <2>2
  <2>4. 1 = Len(q) /\ node = "end"
    BY <1>1, <2>1, <2>3 DEF LoopInv, Queued
  <2>5. 1 \in DOMAIN q /\ \A k \in DOMAIN q : k = 1
    <3>1. DOMAIN q = 1 .. 1
      BY <2>3, <2>4
    <3> QED BY <2>3, <3>1
  <2> QED BY <2>1, <2>4, <2>5
<1>3. running = {} /\ pending = NoMessage /\ graph[Len(graph)].role = "ai" /\ graph[Len(graph)].calls = <<>>
  BY <1>1, <1>2 DEF LoopInv, Graphed
<1>4. ~Telling /\ ResultIds = {}
  BY <1>2 DEF Telling, ResultIds
<1>5. /\ Unresolved(reducer) = {} /\ reducer.deltas = NoText
  BY <1>2, <1>3, <1>4 DEF InStep
<1>6. /\ reducer.chain # <<>>
      /\ reducer.chain[Len(reducer.chain)] = AssistantMessage(graph[Len(graph)])
  BY <1>2, <1>4 DEF InStep, Telling, AssistantEvent
<1>7. PICK last : last = reducer.chain[Len(reducer.chain)]
  OBVIOUS
<1>8. last.role = "assistant" /\ last.calls = <<>> /\ last.text = graph[Len(graph)].text
  BY <1>3, <1>6, <1>7 DEF AssistantMessage
<1>9. ValidChain(reducer.chain) /\ reducer.deltas.size = 0
  BY <1>1, <1>5, <1>6, ChainIsValid DEF NoText
<1>10. \A i \in DOMAIN reducer.blocks : reducer.blocks[i].type = "tool" => reducer.blocks[i].status # "pending"
  BY <1>1, <1>5, NothingClosed
<1> QED BY <1>3, <1>5, <1>6, <1>7, <1>8, <1>9, <1>10 DEF Finishable

\* Nor is any other event of a turn in step refused.
LEMMA NoneRefused ==
    ASSUME TurnInv, stage = "loop", InStep, events # <<>>,
           events[1].type \in {"delta", "assistant", "start", "result"}
    PROVE  ~OutOfOrder(reducer, events[1])
<1>1. /\ LoopInv /\ reducer \in ReducerSet /\ ReducerInv(reducer) /\ events \in Seq(EventSet)
  BY DEF TurnInv, TurnValues, LoopValues
<1>2. 1 \in DOMAIN events /\ DOMAIN events \subseteq Nat
  BY <1>1
<1>3. PICK e : e = events[1]
  OBVIOUS
<1>4. pending = NoMessage
  <2>1. e.type # "raise"
    BY <1>3
  <2> QED BY <1>1, <1>2, <1>3, <2>1 DEF LoopInv, Graphed
<1>5. /\ OpenText(reducer)
      /\ \A id \in reducer.started \ reducer.resolved :
            reducer.blocks[ToolBlockOf(reducer, id)].status = "pending"
  BY <1>1, NothingClosed
<1>6. e.type # "assistant" =>
        /\ Declared(reducer) \ reducer.started = StartIds
        /\ Unresolved(reducer) = running \cup ResultIds
  BY <1>3, <1>4 DEF InStep, Telling
<1>7. ASSUME e.type = "delta" PROVE ~DeltaRefused(reducer, e)
  <2>1. \A k \in DOMAIN events : k = 1 /\ node = "agent"
    <3>1. PICK q : q = events
      OBVIOUS
    <3>2. q \in Seq(EventSet) /\ DOMAIN q = 1 .. Len(q)
      BY <1>1, <3>1
    <3>3. Len(q) = 1 /\ node = "agent"
      BY <1>1, <1>2, <1>3, <1>7, <3>1 DEF LoopInv, Queued
    <3> QED BY <3>1, <3>2, <3>3
  <2>2. node = "agent" /\ ResultIds = {}
    BY <1>2, <1>3, <1>7, <2>1 DEF ResultIds
  <2>3. running = {}
    BY <1>1, <2>2 DEF LoopInv, Graphed
  <2> QED BY <1>5, <1>6, <1>7, <2>2, <2>3 DEF DeltaRefused
<1>8. ASSUME e.type = "assistant" PROVE ~AssistantRefused(reducer, e)
  <2>1. Untold(reducer, e)
    BY <1>3, <1>8 DEF InStep, Telling
  <2> QED BY <1>5, <2>1 DEF Untold, AssistantRefused
<1>9. ASSUME e.type = "start" PROVE ~StartRefused(reducer, e)
  <2>1. e.id \in StartIds
    BY <1>2, <1>3, <1>9 DEF StartIds
  <2> QED BY <1>6, <1>9, <2>1 DEF StartRefused
<1>10. ASSUME e.type = "result" PROVE ~ResultRefused(reducer, e)
  <2>1. e.id \in ResultIds
    BY <1>2, <1>3, <1>10 DEF ResultIds
  <2>2. StartIds = {}
    <3>1. \A j \in DOMAIN events : events[j].type = "start" => j < 1
      BY <1>1, <1>2, <1>3, <1>10 DEF LoopInv, Queued
    <3>2. \A j \in DOMAIN events : ~(j < 1)
      BY <1>1
    <3> QED BY <3>1, <3>2 DEF StartIds
  <2>3. e.id \in Declared(reducer) /\ e.id \notin reducer.resolved /\ e.id \in reducer.started
    BY <1>6, <1>10, <2>1, <2>2 DEF Unresolved
  <2> QED BY <1>5, <2>3 DEF ResultRefused
<1> QED BY <1>3, <1>7, <1>8, <1>9, <1>10, Zenon DEF OutOfOrder

\* The events that are left.
Rest(q, t) ==
    /\ t \in Seq(EventSet) /\ Len(t) = Len(q) - 1
    /\ DOMAIN t \subseteq Nat /\ DOMAIN q \subseteq Nat /\ 1 \in DOMAIN q
    /\ \A k \in DOMAIN t : k + 1 \in DOMAIN q /\ k + 1 # 1 /\ t[k] = q[k + 1]
    /\ \A k \in DOMAIN q : k # 1 => k - 1 \in DOMAIN t /\ q[k] = t[k - 1]

\* Taking the first event leaves the others, one place earlier.
LEMMA RestIs ==
    ASSUME NEW q \in Seq(EventSet), q # <<>>
    PROVE  Rest(q, Tail(q)) /\ Head(q) = q[1]
<1>1. PICK t : t = Tail(q)
  OBVIOUS
<1>2. /\ t \in Seq(EventSet) /\ Len(t) = Len(q) - 1 /\ Len(q) \in Nat /\ Len(t) \in Nat
      /\ DOMAIN t = 1 .. Len(t) /\ DOMAIN q = 1 .. Len(q)
      /\ \A k \in DOMAIN t : t[k] = q[k + 1]
  BY <1>1
<1>3. ASSUME NEW k \in DOMAIN q, k # 1 PROVE k - 1 \in DOMAIN t /\ q[k] = t[k - 1]
  <2>1. k - 1 \in DOMAIN t /\ (k - 1) + 1 = k
    BY <1>2, <1>3
  <2>2. t[k - 1] = q[(k - 1) + 1]
    BY <1>2, <2>1
  <2> QED BY <2>1, <2>2
<1>4. Rest(q, t)
  BY <1>2, <1>3 DEF Rest
<1> QED BY <1>1, <1>4

\* The turn is completed.
LEMMA FinishKeeps ==
    ASSUME TurnInv, stage = "loop", events # <<>>, events[1].type = "end", Finishable(reducer),
           ~Oversized(reducer, events[1]), events' \in Seq(EventSet), Settle("COMPLETED", NoCode, FinishSuccess(reducer)),
           UNCHANGED <<history, tools, selected, home, node, graph, stream, pending, running, reducer>>
    PROVE  TurnInv'
<1>1. /\ LoopInv /\ reducer \in ReducerSet /\ ReducerInv(reducer) /\ events \in Seq(EventSet)
  BY DEF TurnInv, TurnValues, LoopValues
<1>2. 1 \in DOMAIN events /\ DOMAIN events = 1 .. Len(events) /\ Len(events) \in Nat
  BY <1>1
<1>3. Len(events) = 1 /\ node = "end"
  BY <1>1, <1>2 DEF LoopInv, Queued
<1>4. PICK p : p = FinishSuccess(reducer)
  OBVIOUS
<1>5. /\ p \in StoredSet /\ p.chain = reducer.chain /\ p.blocks = reducer.blocks
      /\ p.value = p.blocks[Len(p.blocks)].length
      /\ ShownText(p.blocks) = SaidText(p.chain) /\ FromReducer(reducer, p)
  BY <1>1, <1>4, FinishedWhole
<1>6. /\ outcome' = [status |-> "COMPLETED", code |-> NoCode, result |-> p] /\ stage' = "over"
      /\ outcome'.status = "COMPLETED" /\ outcome'.code = NoCode /\ outcome'.result = p
  BY <1>4 DEF Settle
<1>7. outcome' \in OutcomeSet
  BY <1>5, <1>6 DEF OutcomeSet, Statuses, Codes
<1>8. TurnValues'
  BY <1>6, <1>7 DEF TurnInv, TurnValues, LoopValues
<1>9. ASSUME NEW i \in DOMAIN graph, CalledIn(i), NEW id \in IdsOf(graph[i].calls)
      PROVE  Cardinality({k \in DOMAIN p.chain : p.chain[k].role = "tool" /\ p.chain[k].id = id}) = 1
  <2>1. pending = NoMessage
    BY <1>1, <1>3 DEF LoopInv, Graphed
  <2>2. \A k \in DOMAIN events : k = 1
    BY <1>2, <1>3
  <2>3. \A k \in DOMAIN events : events[k].type # "assistant"
    BY <2>2
  <2>4. id \in Declared(reducer)
    BY <1>1, <1>9, <2>1, <2>3 DEF LoopInv, NoneForgotten, CalledIn
  <2>5. PICK j \in Assistants(reducer.chain) : id \in IdsOf(reducer.chain[j].calls)
    BY <2>4, DeclaredBy
  <2>6. reducer.chain \in ChainSet /\ ValidChain(reducer.chain)
    BY <1>1, ReducerTypes DEF Finishable
  <2>7. Cardinality({k \in DOMAIN reducer.chain :
                       reducer.chain[k].role = "tool" /\ reducer.chain[k].id = id}) = 1
    BY <2>5, <2>6, OneAnswer
  <2> QED BY <1>5, <2>7
<1>10. ResultIsWhole'
  <2>1. Storable(p)
    BY <1>4, Zenon DEF Oversized
  <2>2. \A i \in {k \in DOMAIN graph : graph[k].role = "ai" /\ graph[k].calls # <<>>} :
           \A id \in IdsOf(graph[i].calls) :
              Cardinality({k \in DOMAIN p.chain : p.chain[k].role = "tool" /\ p.chain[k].id = id}) = 1
    BY <1>9 DEF CalledIn
  <2>3. Complete(reducer, p, graph)
    BY <1>5, <2>2, Zenon DEF Complete
  <2>4. outcome'.status \notin {"FAILED", "CANCELLED"}
    BY <1>6
  <2>5. WholeResult(reducer, outcome', graph)
    BY <1>5, <1>6, <2>1, <2>3, <2>4 DEF WholeResult
  <2> QED BY <2>5, ResultIsWholeOf
<1>11. SelectionIsCurrent' /\ (RoundOver => ValidMessages(graph))'
  BY <1>6 DEF SelectionIsCurrent, RoundOver
<1> QED BY <1>1, <1>6, <1>8, <1>10, <1>11 DEF TurnInv

\* An event is accepted.
LEMMA AcceptKeeps ==
    ASSUME TurnInv, stage = "loop", events # <<>>, NEW e, e = events[1],
           e.type \in {"delta", "assistant", "start", "result"}, ~OutOfOrder(reducer, e),
           Rest(events, events'), reducer' = Accepted(reducer, e),
           UNCHANGED <<history, tools, stage, selected, home, node, graph, stream, pending, running, outcome>>
    PROVE  TurnInv'
<1>1. /\ LoopValues /\ LoopInv /\ reducer \in ReducerSet /\ ReducerInv(reducer) /\ events \in Seq(EventSet)
  BY DEF TurnInv, TurnValues, LoopValues
<1>2. 1 \in DOMAIN events /\ e \in EventSet
  <2>1. 1 \in DOMAIN events
    BY DEF Rest
  <2> QED BY <1>1, <2>1
<1>3. PICK s : s = reducer'
  OBVIOUS
<1>4. /\ s \in ReducerSet /\ ReducerInv(s)
      /\ e.type = "delta" =>
            /\ s.chain = reducer.chain /\ s.started = reducer.started /\ s.resolved = reducer.resolved
            /\ s.deltas = Join(reducer.deltas, e.text)
      /\ e.type = "assistant" =>
            /\ s.chain = Append(reducer.chain, AssistantMessage(e)) /\ s.started = reducer.started
            /\ s.resolved = reducer.resolved /\ s.deltas = NoText
            /\ Declared(s) = Declared(reducer) \cup IdsOf(e.calls)
      /\ e.type = "start" =>
            /\ s.chain = reducer.chain /\ s.started = reducer.started \cup {e.id}
            /\ s.resolved = reducer.resolved /\ s.deltas = reducer.deltas
      /\ e.type = "result" =>
            /\ s.started = reducer.started /\ s.resolved = reducer.resolved \cup {e.id}
            /\ s.deltas = reducer.deltas /\ Declared(s) = Declared(reducer)
  BY <1>1, <1>2, <1>3, Accepting
<1>5. e.type # "assistant" => Declared(s) = Declared(reducer)
  BY <1>4 DEF Declared
<1>6. PICK t : t = events'
  OBVIOUS
<1>7. /\ t \in Seq(EventSet) /\ Len(t) = Len(events) - 1 /\ DOMAIN t \subseteq Nat /\ DOMAIN events \subseteq Nat
      /\ \A k \in DOMAIN t : k + 1 \in DOMAIN events /\ k + 1 # 1 /\ t[k] = events[k + 1]
      /\ \A k \in DOMAIN events : k # 1 => k - 1 \in DOMAIN t /\ events[k] = t[k - 1]
  BY <1>6 DEF Rest
<1>8. Queued /\ Graphed /\ NoneForgotten /\ InShares
  BY <1>1 DEF LoopInv
<1>9. pending = NoMessage
  BY <1>2, <1>8 DEF Graphed
<1>10. LoopValues'
  BY <1>1, <1>6, <1>7 DEF LoopValues
<1>11. \A k \in DOMAIN t : t[k].type \notin {"assistant", "delta"}
  BY <1>7, <1>8 DEF Queued
<1>12. Queued'
  <2>1. ASSUME NEW k \in DOMAIN t, t[k].type \in {"raise", "end"}
        PROVE  k = Len(t) /\ (t[k].type = "end" => node = "end")
    <3>1. k + 1 = Len(events) /\ (t[k].type = "end" => node = "end")
      BY <1>7, <1>8, <2>1 DEF Queued
    <3>2. k \in Nat /\ Len(events) \in Nat
      BY <1>1, <1>7
    <3> QED BY <1>7, <3>1, <3>2
  <2>2. ASSUME NEW k \in DOMAIN t, t[k].type = "start"
        PROVE  /\ node \in {"guard", "tools"}
               /\ \A j \in DOMAIN t : t[j].type = "start" /\ t[j].id = t[k].id => j = k
    <3>1. /\ node \in {"guard", "tools"}
          /\ \A j \in DOMAIN events : events[j].type = "start" /\ events[j].id = events[k + 1].id => j = k + 1
      BY <1>7, <1>8, <2>2 DEF Queued
    <3>2. ASSUME NEW j \in DOMAIN t, t[j].type = "start", t[j].id = t[k].id PROVE j = k
      <4>1. j + 1 = k + 1
        BY <1>7, <3>1, <3>2
      <4>2. j \in Nat /\ k \in Nat
        BY <1>7
      <4> QED BY <4>1, <4>2
    <3> QED BY <3>1, <3>2
  <2>3. ASSUME NEW k \in DOMAIN t, t[k].type = "result"
        PROVE  /\ node \in {"guard", "tools"} /\ t[k].id \notin running
               /\ \A j \in DOMAIN t : t[j].type = "start" => j < k
               /\ \A j \in DOMAIN t : t[j].type = "result" => j = k
    <3>1. /\ node \in {"guard", "tools"} /\ events[k + 1].id \notin running
          /\ \A j \in DOMAIN events : events[j].type = "start" => j < k + 1
          /\ \A j \in DOMAIN events : events[j].type = "result" => j = k + 1
      BY <1>7, <1>8, <2>3 DEF Queued
    <3>2. ASSUME NEW j \in DOMAIN t
          PROVE  (t[j].type = "start" => j < k) /\ (t[j].type = "result" => j = k)
      <4>1. (t[j].type = "start" => j + 1 < k + 1) /\ (t[j].type = "result" => j + 1 = k + 1)
        BY <1>7, <3>1
      <4>2. j \in Nat /\ k \in Nat
        BY <1>7
      <4> QED BY <4>1, <4>2
    <3> QED BY <1>7, <3>1, <3>2
  <2> QED BY <1>6, <1>11, <2>1, <2>2, <2>3 DEF Queued
<1>13. Graphed'
  BY <1>8, <1>9 DEF Graphed
<1>14. NoneForgotten'
  <2>1. ASSUME NEW i \in DOMAIN graph, graph[i].role = "ai"
        PROVE  IdsOf(graph[i].calls) \subseteq Declared(s)
    <3>1. \/ IdsOf(graph[i].calls) \subseteq Declared(reducer)
          \/ \E k \in DOMAIN events :
                events[k].type = "assistant" /\ IdsOf(graph[i].calls) = IdsOf(events[k].calls)
      BY <1>8, <1>9, <2>1 DEF NoneForgotten
    <3>2. \A k \in DOMAIN events : events[k].type = "assistant" => events[k] = e
      BY <1>8 DEF Queued
    <3> QED BY <1>4, <1>5, <3>1, <3>2
  <2> QED BY <1>3, <2>1 DEF NoneForgotten
<1>15. InShares'
  <2>1. (\A k \in DOMAIN t : t[k].type # "raise") => \A k \in DOMAIN events : events[k].type # "raise"
    BY <1>7
  <2>2. Share' = Share
    BY DEF Share, CountInput, InputSize
  <2> QED BY <1>6, <1>8, <2>1, <2>2 DEF InShares
<1> DEFINE starts(q) == {q[k].id : k \in {j \in DOMAIN q : q[j].type = "start"}}
           results(q) == {q[k].id : k \in {j \in DOMAIN q : q[j].type = "result"}}
<1>16. ASSUME ~ReusedId' PROVE InStep'
  <2>1. InStep
    BY <1>1, <1>16 DEF LoopInv, ReusedId, CalledIn
  <2>2. ~Telling' /\ (Telling <=> e.type = "assistant")
    <3>1. t = <<>> \/ 1 \in DOMAIN t
      BY <1>7
    <3> QED BY <1>6, <1>11, <3>1 DEF Telling
  <2>3. KnownIds' = KnownIds
    BY DEF KnownIds
  <2>4. /\ StartIds' = starts(t) /\ ResultIds' = results(t)
        /\ StartIds = starts(events) /\ ResultIds = results(events)
    BY <1>6 DEF StartIds, ResultIds
  <2>5. /\ \A id \in starts(t) : id \in starts(events)
        /\ \A id \in results(t) : id \in results(events)
        /\ \A id \in starts(events) : id \in starts(t) \/ (e.type = "start" /\ id = e.id)
        /\ \A id \in results(events) : id \in results(t) \/ (e.type = "result" /\ id = e.id)
    <3>1. /\ \A k \in DOMAIN t : \E j \in DOMAIN events : events[j] = t[k]
          /\ \A j \in DOMAIN events : events[j] = e \/ \E k \in DOMAIN t : events[j] = t[k]
      BY <1>7
    <3>2. ASSUME NEW id \in starts(t) PROVE id \in starts(events)
      BY <3>1
    <3>3. ASSUME NEW id \in results(t) PROVE id \in results(events)
      BY <3>1
    <3>4. ASSUME NEW id \in starts(events) PROVE id \in starts(t) \/ (e.type = "start" /\ id = e.id)
      BY <3>1
    <3>5. ASSUME NEW id \in results(events) PROVE id \in results(t) \/ (e.type = "result" /\ id = e.id)
      BY <3>1
    <3> HIDE DEF starts, results
    <3> QED BY <3>2, <3>3, <3>4, <3>5
  <2>6. e.type = "start" => e.id \notin starts(t)
    <3>1. SUFFICES ASSUME e.type = "start", NEW k \in DOMAIN t, t[k].type = "start", t[k].id = e.id PROVE FALSE
      OBVIOUS
    <3>2. k + 1 \in DOMAIN events /\ k + 1 # 1 /\ events[k + 1].type = "start" /\ events[k + 1].id = e.id
      BY <1>7, <3>1
    <3> QED BY <1>2, <1>8, <3>1, <3>2 DEF Queued
  <2>7. e.type = "result" => results(events) = {e.id} /\ results(t) = {} /\ starts(events) = {} /\ e.id \notin running
    <3>1. ASSUME e.type = "result"
          PROVE  /\ \A j \in DOMAIN events : events[j].type = "start" => j < 1
                 /\ \A j \in DOMAIN events : events[j].type = "result" => j = 1
                 /\ e.id \notin running
      BY <1>2, <1>8, <3>1 DEF Queued
    <3>2. \A j \in DOMAIN events : ~(j < 1)
      BY <1>1
    <3>3. e.type = "result" => \A j \in DOMAIN t : t[j].type # "result"
      BY <1>7, <3>1
    <3> QED BY <1>2, <3>1, <3>2, <3>3
  <2> HIDE DEF starts, results
  <2>8. /\ Declared(s) \subseteq KnownIds
        /\ Declared(s) \ s.started = starts(t)
        /\ Unresolved(s) = running \cup results(t)
        /\ node # "agent" => s.deltas = NoText
        /\ node = "agent" => s.deltas = stream.text
        /\ node = "end" =>
              /\ s.chain # <<>>
              /\ s.chain[Len(s.chain)] = AssistantMessage(graph[Len(graph)])
    <3>1. ASSUME e.type # "assistant"
          PROVE  /\ Declared(reducer) \subseteq KnownIds
                 /\ Declared(reducer) \ reducer.started = starts(events)
                 /\ Unresolved(reducer) = running \cup results(events)
                 /\ node # "agent" => reducer.deltas = NoText
                 /\ node = "end" =>
                       /\ reducer.chain # <<>>
                       /\ reducer.chain[Len(reducer.chain)] = AssistantMessage(graph[Len(graph)])
      <4>1. ~Telling
        BY <2>2, <3>1
      <4>2. events # <<AssistantEvent(graph[Len(graph)]), [type |-> "end"]>>
        BY <3>1 DEF AssistantEvent
      <4> QED BY <1>9, <2>1, <2>4, <4>1, <4>2 DEF InStep
    <3>2. CASE e.type = "delta"
      <4>1. node = "agent" /\ Join(reducer.deltas, e.text) = stream.text
        BY <1>2, <1>8, <2>1, <3>2 DEF Queued, InStep
      <4>2. starts(events) = starts(t) /\ results(events) = results(t)
        BY <2>5, <3>2
      <4> QED BY <1>4, <1>5, <3>1, <3>2, <4>1, <4>2 DEF Unresolved
    <3>3. CASE e.type = "assistant"
      <4>1. /\ Untold(reducer, e) /\ IdsOf(e.calls) \subseteq KnownIds /\ Declared(reducer) \subseteq KnownIds
            /\ starts(events) = IdsOf(e.calls) /\ running \cup results(events) = IdsOf(e.calls)
        BY <2>1, <2>2, <2>4, <3>3 DEF InStep
      <4>2. starts(events) = starts(t) /\ results(events) = results(t)
        BY <2>5, <3>3
      <4>3. /\ Declared(reducer) \subseteq reducer.resolved /\ reducer.resolved \subseteq reducer.started
            /\ reducer.started \subseteq Declared(reducer) /\ IdsOf(e.calls) \cap Declared(reducer) = {}
        BY <1>1, <4>1, NothingClosed DEF Untold, Unresolved
      <4>4. node # "agent"
        BY <1>2, <1>8, <3>3 DEF Queued
      <4>5. /\ Declared(s) = Declared(reducer) \cup IdsOf(e.calls) /\ s.started = reducer.started
            /\ s.resolved = reducer.resolved /\ s.deltas = NoText
        BY <1>4, <3>3
      <4>6. Declared(s) \ s.started = IdsOf(e.calls) /\ Unresolved(s) = IdsOf(e.calls)
        BY <4>3, <4>5 DEF Unresolved
      <4>7. ASSUME node = "end"
            PROVE  s.chain # <<>> /\ s.chain[Len(s.chain)] = AssistantMessage(graph[Len(graph)])
        <5>1. e = AssistantEvent(graph[Len(graph)])
          BY <2>1, <2>2, <3>3, <4>7 DEF InStep
        <5>2. AssistantMessage(e) = AssistantMessage(graph[Len(graph)])
          BY <5>1 DEF AssistantEvent, AssistantMessage
        <5>3. PICK m : m = AssistantMessage(e)
          OBVIOUS
        <5>4. PICK chain : chain = reducer.chain
          OBVIOUS
        <5>5. chain \in ChainSet
          BY <1>1, <5>4, ReducerTypes
        <5>6. s.chain = Append(chain, m)
          BY <1>4, <3>3, <5>3, <5>4
        <5>7. Append(chain, m) # <<>> /\ Append(chain, m)[Len(Append(chain, m))] = m
          BY <5>5 DEF ChainSet
        <5> QED BY <5>2, <5>3, <5>6, <5>7
      <4> QED BY <4>1, <4>2, <4>4, <4>5, <4>6, <4>7
    <3>4. CASE e.type = "start"
      <4>1. starts(t) = starts(events) \ {e.id} /\ results(events) = results(t)
        BY <2>5, <2>6, <3>4
      <4>2. node # "agent"
        BY <1>2, <1>8, <3>4 DEF Queued
      <4> QED BY <1>4, <1>5, <3>1, <3>4, <4>1, <4>2 DEF Unresolved
    <3>5. CASE e.type = "result"
      <4>1. /\ results(events) = {e.id} /\ results(t) = {} /\ starts(events) = {} /\ e.id \notin running
            /\ starts(t) = {}
        BY <2>5, <2>7, <3>5
      <4>2. node \in {"guard", "tools"}
        BY <1>2, <1>8, <3>5 DEF Queued
      <4>3. Unresolved(s) = Unresolved(reducer) \ {e.id}
        BY <1>4, <3>5 DEF Unresolved
      <4> QED BY <1>4, <3>1, <3>5, <4>1, <4>2, <4>3
    <3> QED BY <3>2, <3>3, <3>4, <3>5
  <2>9. ~(t # <<>> /\ t[1].type = "delta")
    <3>1. t = <<>> \/ 1 \in DOMAIN t
      BY <1>7
    <3> QED BY <1>11, <3>1
  <2> QED BY <1>3, <1>6, <1>9, <2>2, <2>3, <2>4, <2>8, <2>9 DEF InStep
<1> QED BY <1>1, <1>3, <1>4, <1>10, <1>12, <1>13, <1>14, <1>15, <1>16, LoopGoesOn DEF LoopInv

\* What an event leaves that is refused.
LEMMA LeftoverIs ==
    ASSUME NEW r \in ReducerSet, NEW e, NEW s, s = Leftover(r, e)
    PROVE  /\ s.blocks \in Seq(BlockSet) /\ s.value = r.value
           /\ s.blocks = r.blocks \/ s.blocks = Append(r.blocks, TextBlock)
<1>1. r.blocks \in Seq(BlockSet) /\ TextBlock \in BlockSet
  BY ReducerTypes DEF TextBlock, TextBlocks, BlockSet
<1>2. PICK blocks : blocks = Opened(r)
  OBVIOUS
<1>3. blocks \in Seq(BlockSet) /\ (blocks = r.blocks \/ blocks = Append(r.blocks, TextBlock))
  BY <1>1, <1>2 DEF Opened
<1>4. s = r \/ s = [r EXCEPT !.blocks = blocks]
  BY <1>2, Zenon DEF Leftover
<1>5. CASE s = r
  BY <1>1, <1>5
<1>6. CASE s = [r EXCEPT !.blocks = blocks]
  <2>1. s.blocks = blocks /\ s.value = r.value
    BY <1>6 DEF ReducerSet
  <2> QED BY <1>3, <2>1
<1> QED BY <1>4, <1>5, <1>6

\* The next event is taken.
LEMMA TakeKeeps == TurnInv /\ TakeEvent => TurnInv'
<1> SUFFICES ASSUME TurnInv, TakeEvent PROVE TurnInv'
  OBVIOUS
<1>1. /\ stage = "loop" /\ events # <<>> /\ events' = Tail(events)
      /\ UNCHANGED <<history, tools, selected, home, node, graph, stream, pending, running>>
  BY DEF TakeEvent
<1>2. /\ LoopValues /\ LoopInv /\ reducer \in ReducerSet /\ ReducerInv(reducer) /\ events \in Seq(EventSet)
  BY <1>1 DEF TurnInv, TurnValues, LoopValues
<1>3. Rest(events, events') /\ Head(events) = events[1]
  BY <1>1, <1>2, RestIs
<1>4. PICK e : e = events[1]
  OBVIOUS
<1>5. IF e.type = "raise"
        THEN Fail(e.code) /\ UNCHANGED reducer
      ELSE IF e.type = "end"
        THEN /\ IF Finishable(reducer) /\ ~Oversized(reducer, e)
                  THEN Settle("COMPLETED", NoCode, FinishSuccess(reducer))
                  ELSE Fail("runtime_output_invalid")
             /\ UNCHANGED reducer
      ELSE IF OutOfOrder(reducer, e) \/ Oversized(reducer, e)
        THEN /\ SettlePartly("FAILED", "runtime_output_invalid", Leftover(reducer, e))
             /\ UNCHANGED reducer
      ELSE reducer' = Accepted(reducer, e) /\ UNCHANGED <<stage, outcome>>
  BY <1>3, <1>4, Zenon DEF TakeEvent
<1>6. e \in EventSet /\ events' \in Seq(EventSet)
  BY <1>2, <1>3, <1>4 DEF Rest
<1>7. e.type \in {"raise", "end", "delta", "assistant", "start", "result"} /\ (e.type = "raise" => e \in RaiseSet)
  BY <1>6, EventTypes
<1>8. "runtime_output_invalid" \in Codes /\ stage # "over"
  BY <1>1 DEF Codes
<1>9. CASE e.type = "raise"
  <2>1. e.code \in Codes
    BY <1>7, <1>9 DEF RaiseSet, Codes
  <2>2. Fail(e.code) /\ UNCHANGED reducer
    BY <1>5, <1>9
  <2> QED BY <1>1, <1>6, <1>8, <2>1, <2>2, SettlesNow DEF Fail
<1>10. CASE e.type = "end"
  <2>1. CASE Finishable(reducer) /\ ~Oversized(reducer, e)
    <3>1. Settle("COMPLETED", NoCode, FinishSuccess(reducer)) /\ UNCHANGED reducer
      BY <1>5, <1>10, <2>1
    <3> QED BY <1>1, <1>4, <1>6, <1>10, <2>1, <3>1, FinishKeeps
  <2>2. CASE ~(Finishable(reducer) /\ ~Oversized(reducer, e))
    <3>1. Fail("runtime_output_invalid") /\ UNCHANGED reducer
      BY <1>5, <1>10, <2>2
    <3> QED BY <1>1, <1>6, <1>8, <3>1, SettlesNow DEF Fail
  <2> QED BY <2>1, <2>2
<1>11. CASE e.type \in {"delta", "assistant", "start", "result"}
  <2>1. CASE OutOfOrder(reducer, e) \/ Oversized(reducer, e)
    <3>1. PICK s : s = Leftover(reducer, e)
      OBVIOUS
    <3>2. SettlePartly("FAILED", "runtime_output_invalid", s) /\ UNCHANGED reducer
      BY <1>5, <1>11, <2>1, <3>1
    <3>3. /\ s.blocks \in Seq(BlockSet) /\ s.value = reducer.value
          /\ s.blocks = reducer.blocks \/ s.blocks = Append(reducer.blocks, TextBlock)
      BY <1>2, <3>1, LeftoverIs
    <3> QED BY <1>1, <1>6, <1>8, <3>2, <3>3, SettlesPartly
  <2>2. CASE ~(OutOfOrder(reducer, e) \/ Oversized(reducer, e))
    <3>1. reducer' = Accepted(reducer, e) /\ UNCHANGED <<stage, outcome>>
      BY <1>5, <1>11, <2>2
    <3> QED BY <1>1, <1>3, <1>4, <1>11, <2>2, <3>1, AcceptKeeps
  <2> QED BY <2>1, <2>2
<1> QED BY <1>7, <1>9, <1>10, <1>11

\* Nothing happens to the turn.
LEMMA StutterKeeps == TurnInv /\ UNCHANGED turnVars => TurnInv'
<1> SUFFICES ASSUME TurnInv, UNCHANGED turnVars PROVE TurnInv'
  OBVIOUS
<1>1. UNCHANGED <<history, tools, stage, selected, home, node, graph, stream, pending, running, events,
                  reducer, outcome>>
  BY DEF turnVars
<1>2. TurnValues' /\ ReducerInv(reducer')
  BY <1>1 DEF TurnInv, TurnValues, LoopValues
<1>3. ASSUME LoopInv PROVE LoopInv'
  <2>1. Queued' /\ Graphed' /\ NoneForgotten'
    BY <1>1, <1>3 DEF LoopInv, Queued, Graphed, NoneForgotten
  <2>2. Share' = Share
    BY <1>1 DEF Share, CountInput, InputSize
  <2>3. InShares'
    BY <1>1, <1>3, <2>2 DEF LoopInv, InShares
  <2>4. /\ KnownIds' = KnownIds /\ StartIds' = StartIds /\ ResultIds' = ResultIds
        /\ (Telling' <=> Telling) /\ (ReusedId' <=> ReusedId)
    BY <1>1 DEF KnownIds, StartIds, ResultIds, Telling, ReusedId, CalledIn
  <2>5. InStep => InStep'
    BY <1>1, <2>4 DEF InStep
  <2> QED BY <1>3, <2>1, <2>3, <2>4, <2>5 DEF LoopInv
<1>4. SelectionIsCurrent'
  BY <1>1 DEF TurnInv, SelectionIsCurrent, CountInput, InputSize, InputLimit
<1>5. ResultIsWhole'
  <2>1. stage = "over" => WholeResult(reducer, outcome, graph)
    BY ResultIsWholeOf DEF TurnInv
  <2>2. stage' = "over" => WholeResult(reducer', outcome', graph')
    BY <1>1, <2>1
  <2> QED BY <2>2, ResultIsWholeOf
<1>6. (RoundOver => ValidMessages(graph))'
  BY <1>1 DEF TurnInv, RoundOver, ValidMessages
<1> QED BY <1>1, <1>2, <1>3, <1>4, <1>5, <1>6 DEF TurnInv

-----------------------------------------------------------------------------
(* The theorems *)

\* The invariant that all of them follow from.
THEOREM TurnInvariance == TurnSpec => []TurnInv
<1>1. TurnInit => TurnInv
  BY TurnStarts
<1>2. TurnInv /\ [TurnNext]_turnVars => TurnInv'
  <2> SUFFICES ASSUME TurnInv, [TurnNext]_turnVars PROVE TurnInv'
    OBVIOUS
  <2>1. CASE StopTurn \/ Prepare \/ OpenTurn
    BY <2>1, StopKeeps, PrepareKeeps, OpenKeeps
  <2>2. CASE ContextGuard \/ Provider
    BY <2>2, GuardKeeps, TextKeeps, FragmentKeeps, EndKeeps, BreakKeeps DEF Provider
  <2>3. CASE ToolReturns \/ ToolRaises
    BY <2>3, AnswerKeeps, BreakKeeps
  <2>4. CASE TakeEvent
    BY <2>4, TakeKeeps
  <2>5. CASE UNCHANGED turnVars
    BY <2>5, StutterKeeps
  <2> QED BY <2>1, <2>2, <2>3, <2>4, <2>5 DEF TurnNext
<1> QED BY <1>1, <1>2, PTL DEF TurnSpec

\* The state of a turn is always of its type.
THEOREM TurnTypesAlways == TurnSpec => []TurnTypeOK
<1>1. TurnInv => TurnTypeOK
  BY TypesFollow DEF TurnInv
<1> QED BY <1>1, TurnInvariance, PTL

\* The model is always called with the turns that were selected for the
\* AGENTS.md it is given (ContextAssembler.select_turns, stream_turn).
THEOREM SelectionIsCurrentAlways == TurnSpec => []SelectionIsCurrent
<1>1. TurnInv => SelectionIsCurrent
  BY DEF TurnInv
<1> QED BY <1>1, TurnInvariance, PTL

\* Whatever a turn settles with fits the limits of JSON and leaves nothing open;
\* a turn that ended early keeps what was shown, cut only as far as it must be,
\* and a completed one everything, with one answer for every call
\* (RuntimeEventReducer.finish_success and partial_result).
THEOREM ResultIsWholeAlways == TurnSpec => []ResultIsWhole
<1>1. TurnInv => ResultIsWhole
  BY DEF TurnInv
<1> QED BY <1>1, TurnInvariance, PTL

\* What ends the turn early has its code, unless it raises.
LEMMA CodeIs ==
    ASSUME NEW status, NEW code, NEW s, SettlePartly(status, code, s)
    PROVE  outcome'.code \in {code, NoCode}
<1>1. CASE Closable(s)
  <2>1. PICK p : p = PartialResult(s)
    OBVIOUS
  <2>2. outcome' = [status |-> status, code |-> code, result |-> p]
    BY <1>1, <2>1, Zenon DEF SettlePartly, Settle
  <2> QED BY <2>2
<1>2. CASE ~Closable(s)
  <2>1. outcome' = [status |-> "RAISED", code |-> NoCode, result |-> NoResult]
    BY <1>2, Zenon DEF SettlePartly, Settle
  <2> QED BY <2>1
<1> QED BY <1>1, <1>2

\* A step after which the turn failed with runtime_output_invalid took an event.
LEMMA RefusedByTaking ==
    ASSUME TurnInv, [TurnNext]_turnVars, stage = "loop", outcome'.code = "runtime_output_invalid"
    PROVE  TakeEvent
<1>1. outcome = NoOutcome /\ outcome.code # "runtime_output_invalid"
  BY NoOutcomeValues, NoCodeIsNone DEF TurnInv
<1>2. outcome' # outcome
  BY <1>1
<1>3. ~StopTurn
  <2>1. StopTurn => SettlePartly("CANCELLED", NoCode, reducer)
    BY DEF StopTurn
  <2>2. StopTurn => outcome'.code \in {NoCode, NoCode}
    BY <2>1, CodeIs
  <2> QED BY <2>2, NoCodeIsNone
<1>4. ~Prepare /\ ~OpenTurn
  BY DEF Prepare, OpenTurn
<1>5. ~ContextGuard /\ ~Provider /\ ~ToolReturns /\ ~ToolRaises
  BY <1>2 DEF ContextGuard, Provider, ProviderText, ProviderReasoning, ProviderCall, ProviderEnd,
              ProviderBreaks, ToolReturns, ToolRaises, unmoved
<1>6. ~(UNCHANGED turnVars)
  BY <1>2 DEF turnVars
<1> QED BY <1>3, <1>4, <1>5, <1>6 DEF TurnNext

\* It was the provider's doing, or the event was too large.
LEMMA RefusedForCause ==
    ASSUME TurnInv, TakeEvent, outcome'.code = "runtime_output_invalid"
    PROVE  ReusedId \/ Oversized(reducer, Head(events)) \/ AnsweredBlank
<1>1. stage = "loop" /\ events # <<>>
  BY DEF TakeEvent
<1>2. LoopInv /\ events \in Seq(EventSet)
  BY <1>1 DEF TurnInv, TurnValues, LoopValues
<1>3. Head(events) = events[1] /\ events[1] \in EventSet
  BY <1>1, <1>2
<1>4. PICK e : e = Head(events)
  OBVIOUS
<1>5. e.type \in {"raise", "end", "delta", "assistant", "start", "result"} /\ (e.type = "raise" => e \in RaiseSet)
  BY <1>3, <1>4, EventTypes
<1>6. outcome' # outcome
  BY <1>1, NoOutcomeValues, NoCodeIsNone DEF TurnInv
<1>7. SUFFICES ASSUME ~ReusedId, ~Oversized(reducer, e) PROVE AnsweredBlank
  BY <1>4
<1>8. InStep
  BY <1>2, <1>7 DEF LoopInv
<1>9. IF e.type = "raise"
        THEN Fail(e.code) /\ UNCHANGED reducer
      ELSE IF e.type = "end"
        THEN /\ IF Finishable(reducer) /\ ~Oversized(reducer, e)
                  THEN Settle("COMPLETED", NoCode, FinishSuccess(reducer))
                  ELSE Fail("runtime_output_invalid")
             /\ UNCHANGED reducer
      ELSE IF OutOfOrder(reducer, e) \/ Oversized(reducer, e)
        THEN /\ SettlePartly("FAILED", "runtime_output_invalid", Leftover(reducer, e))
             /\ UNCHANGED reducer
      ELSE reducer' = Accepted(reducer, e) /\ UNCHANGED <<stage, outcome>>
  BY <1>4, Zenon DEF TakeEvent
<1>10. CASE e.type = "raise"
  <2>1. outcome'.code \in {e.code, NoCode}
    BY <1>9, <1>10, CodeIs DEF Fail
  <2>2. e.code # "runtime_output_invalid"
    BY <1>5, <1>10 DEF RaiseSet, RaiseCodes
  <2> QED BY <2>1, <2>2, NoCodeIsNone
<1>11. CASE e.type = "end"
  <2>1. ~Finishable(reducer)
    <3>1. SUFFICES ASSUME Finishable(reducer) PROVE FALSE
      OBVIOUS
    <3>2. PICK p : p = FinishSuccess(reducer)
      OBVIOUS
    <3>3. outcome' = [status |-> "COMPLETED", code |-> NoCode, result |-> p]
      BY <1>7, <1>9, <1>11, <3>1, <3>2 DEF Settle
    <3> QED BY <3>3, NoCodeIsNone
  <2> QED BY <1>1, <1>3, <1>4, <1>8, <1>11, <2>1, EndIsFinished DEF AnsweredBlank
<1>12. CASE e.type \in {"delta", "assistant", "start", "result"}
  <2>1. ~OutOfOrder(reducer, e)
    BY <1>1, <1>3, <1>4, <1>8, <1>12, NoneRefused
  <2> QED BY <1>6, <1>7, <1>9, <1>12, <2>1
<1> QED BY <1>5, <1>10, <1>11, <1>12

\* In whatever order parallel tools answer, the reducer finds what the loop
\* yields in its order, and what a model call was accepted to answer is accepted
\* by the next: only a reused id, a blank answer or an event beyond the limits
\* makes a turn fail with runtime_output_invalid (RuntimeEventReducer.accept,
\* finish_success, _safe_execution_error_code).
THEOREM RefusedOnlyForCauseAlways == TurnSpec => RefusedOnlyForCause
<1>1. TurnInv /\ [TurnNext]_turnVars =>
        [/\ RoundOver => ValidMessages(graph)
         /\ stage = "loop" /\ outcome'.code = "runtime_output_invalid" =>
               ReusedId \/ Oversized(reducer, Head(events)) \/ AnsweredBlank]_turnVars
  <2> SUFFICES ASSUME TurnInv, [TurnNext]_turnVars
               PROVE  /\ RoundOver => ValidMessages(graph)
                      /\ stage = "loop" /\ outcome'.code = "runtime_output_invalid" =>
                            ReusedId \/ Oversized(reducer, Head(events)) \/ AnsweredBlank
    OBVIOUS
  <2>1. RoundOver => ValidMessages(graph)
    BY DEF TurnInv
  <2>2. ASSUME stage = "loop", outcome'.code = "runtime_output_invalid"
        PROVE  ReusedId \/ Oversized(reducer, Head(events)) \/ AnsweredBlank
    BY <2>2, RefusedByTaking, RefusedForCause
  <2> QED BY <2>1, <2>2
<1> QED BY <1>1, TurnInvariance, PTL DEF TurnSpec, RefusedOnlyForCause

\* The sizes of a message's answers, after those of what came before it.
LEMMA SizesUpTo ==
    ASSUME NEW messages \in Seq(AiSet \cup AnswerSet), NEW n \in DOMAIN messages
    PROVE  /\ Total(SizesOf(SubSeq(messages, 1, n))) =
                Total(SizesOf(SubSeq(messages, 1, n - 1))) + MessageSize(messages[n])
           /\ SubSeq(messages, 1, n - 1) \in Seq(AiSet \cup AnswerSet)
<1>1. PICK before : before = SubSeq(messages, 1, n - 1)
  OBVIOUS
<1>2. PICK m : m = messages[n]
  OBVIOUS
<1>3. PICK upto : upto = SubSeq(messages, 1, n)
  OBVIOUS
<1>4. /\ before \in Seq(AiSet \cup AnswerSet) /\ Len(before) = n - 1 /\ m \in AiSet \cup AnswerSet
      /\ n \in Nat /\ n >= 1 /\ \A i \in 1 .. n - 1 : before[i] = messages[i]
      /\ upto \in Seq(AiSet \cup AnswerSet) /\ Len(upto) = n
      /\ \A i \in 1 .. n : upto[i] = messages[i]
  <2>1. n \in Nat /\ n >= 1 /\ n <= Len(messages) /\ Len(messages) \in Nat /\ m \in AiSet \cup AnswerSet
    BY <1>2
  <2>2. before \in Seq(AiSet \cup AnswerSet) /\ upto \in Seq(AiSet \cup AnswerSet)
    BY <1>1, <1>3, <2>1
  <2>3. before = [i \in 1 .. n - 1 |-> messages[i]] /\ upto = [i \in 1 .. n |-> messages[i]]
    BY <1>1, <1>3, <2>1
  <2>4. Len(before) = n - 1 /\ Len(upto) = n
    BY <2>1, <2>3
  <2> QED BY <2>1, <2>2, <2>3, <2>4
<1>5. PICK sizes : sizes = SizesOf(before)
  OBVIOUS
<1>6. sizes \in Seq(Int) /\ Len(sizes) = n - 1 /\ MessageSize(m) \in Int
  BY <1>4, <1>5, SizesAreThere, MessageHasSize
<1>7. SizesOf(upto) = Append(sizes, MessageSize(m))
  <2>1. Append(sizes, MessageSize(m)) =
          [i \in 1 .. (n - 1) + 1 |-> IF i = (n - 1) + 1 THEN MessageSize(m) ELSE sizes[i]]
    <3>1. PICK k \in Nat : k = Len(sizes)
      BY <1>6
    <3>2. PICK x \in Int : x = MessageSize(m)
      BY <1>6
    <3>3. PICK longer : longer = Append(sizes, x)
      OBVIOUS
    <3>4. longer = [i \in 1 .. k + 1 |-> IF i = k + 1 THEN x ELSE sizes[i]]
      <4>1. /\ Append(sizes, x) \in Seq(Int) /\ Len(Append(sizes, x)) = Len(sizes) + 1
            /\ \A i \in 1 .. Len(sizes) : Append(sizes, x)[i] = sizes[i]
            /\ Append(sizes, x)[Len(sizes) + 1] = x
        BY <1>6, <3>2, AppendProperties
      <4>2. longer \in Seq(Int) /\ Len(longer) = k + 1
        BY <3>1, <3>3, <4>1
      <4>3. longer = [i \in 1 .. k + 1 |-> longer[i]]
        BY <3>1, <4>2
      <4>4. \A i \in 1 .. k + 1 : longer[i] = IF i = k + 1 THEN x ELSE sizes[i]
        BY <3>1, <3>3, <4>1
      <4> QED BY <4>3, <4>4
    <3> QED BY <1>6, <3>1, <3>2, <3>3, <3>4
  <2>2. (n - 1) + 1 = n /\ DOMAIN upto = 1 .. n
    BY <1>4
  <2>3. \A i \in 1 .. n : i # n => sizes[i] = MessageSize(messages[i])
    <3>1. \A i \in 1 .. n : i # n => i \in 1 .. n - 1 /\ i \in DOMAIN before
      BY <1>4
    <3> QED BY <1>4, <1>5, <3>1 DEF SizesOf
  <2>4. SizesOf(upto) = [i \in 1 .. n |-> MessageSize(messages[i])]
    BY <1>4, <2>2 DEF SizesOf
  <2>5. [i \in 1 .. n |-> MessageSize(messages[i])] = [i \in 1 .. n |-> IF i = n THEN MessageSize(m) ELSE sizes[i]]
    BY <1>2, <2>3
  <2> QED BY <2>1, <2>2, <2>4, <2>5
<1>8. Total(SizesOf(upto)) = Total(sizes) + MessageSize(m)
  BY <1>6, <1>7, TotalAppend
<1> QED BY <1>1, <1>2, <1>3, <1>4, <1>5, <1>8

\* Answers that each fit their share fit together.
LEMMA SharesAddUp ==
    ASSUME TurnInv
    PROVE  ResultsFitWithoutPreamble
<1> DEFINE ais == {i \in DOMAIN graph : CalledIn(i)}
<1>1. SUFFICES ASSUME RoundOver, LastRoundIsPlain PROVE CountInput(graph) <= Budget
  BY DEF ResultsFitWithoutPreamble
<1>2. /\ TurnValues /\ LoopValues /\ LoopInv /\ node = "guard" /\ events = <<>> /\ running = {}
      /\ graph \in Seq(AiSet \cup AnswerSet)
  BY <1>1 DEF TurnInv, RoundOver, TurnValues, LoopValues, LoopInv, Graphed
<1>3. ais = {i \in DOMAIN graph : graph[i].role = "ai"}
  BY <1>2 DEF CalledIn, LoopInv, Graphed
<1>4. PICK n : n = Max(ais)
  OBVIOUS
<1>5. /\ ais # {} /\ (\A c \in DOMAIN graph[n].calls : graph[n].calls[c].bound)
      /\ ModelContent(graph[n]) = 0
  BY <1>1, <1>4 DEF LastRoundIsPlain, NoContent
<1>6. LastAi(graph, n)
  <2>1. \E i \in DOMAIN graph : graph[i].role = "ai"
    BY <1>3, <1>5
  <2> HIDE DEF ais
  <2> QED BY <1>2, <1>3, <1>4, <2>1, LastIsMax
<1>7. n \in DOMAIN graph /\ graph[n].role = "ai"
  BY <1>6 DEF LastAi
<1>8. graph[n] \in AiSet /\ graph[n].calls \in Seq(CallSet)
  <2>1. graph[n] \in AiSet \cup AnswerSet
    BY <1>2, <1>7
  <2>2. graph[n] \in AiSet
    BY <1>7, <2>1 DEF AnswerSet
  <2> QED BY <2>2 DEF AiSet
<1>9. graph[n].calls # <<>>
  BY <1>2, <1>7 DEF LoopInv, Graphed
<1>10. running # IdsOf(graph[n].calls)
  BY <1>2, <1>8, <1>9, CallsDiffer
<1>11. Total(SizesOf(graph)) <=
         Total(SizesOf(SubSeq(graph, 1, n))) + (Len(graph[n].calls) - Cardinality(running)) * Share
  BY <1>2, <1>5, <1>6, <1>10, NoEvents DEF LoopInv, InShares, LastAi
<1>12. PICK c : c = Len(graph[n].calls)
  OBVIOUS
<1>13. c \in Nat /\ Cardinality(running) = 0 /\ c - 0 = c
  BY <1>2, <1>8, <1>12, FS_EmptySet
<1>14. PICK before : before = SubSeq(graph, 1, n - 1)
  OBVIOUS
<1>15. /\ before \in Seq(AiSet \cup AnswerSet)
       /\ Total(SizesOf(SubSeq(graph, 1, n))) = Total(SizesOf(before)) + MessageSize(graph[n])
  BY <1>2, <1>7, <1>14, SizesUpTo
<1>16. MessageSize(graph[n]) = 0 + c * CallSize
  BY <1>5, <1>7, <1>12 DEF MessageSize
<1>17. /\ Share \in Int
       /\ c * Share <= Budget - CountInput(before) - c * CountAlone(CallSize)
  BY <1>2, <1>6, <1>8, <1>9, <1>12, <1>14, SharesFit
<1>18. PICK own \in Int : own = InputSize(selected, home)
  BY <1>2, InputCounted
<1>19. PICK early \in Int : early = Total(SizesOf(before))
  BY <1>2, <1>15, InputCounted
<1>20. PICK all \in Int : all = Total(SizesOf(graph))
  BY <1>2, InputCounted
<1>21. CountInput(before) = own + early /\ CountInput(graph) = own + all
  BY <1>2, <1>15, <1>18, <1>19, <1>20, InputCounted
<1>22. PICK share \in Int : share = Share
  BY <1>17
<1>23. all <= early + (0 + c * CallSize) + c * share
  BY <1>11, <1>12, <1>13, <1>15, <1>16, <1>19, <1>20, <1>22
<1>24. c * share <= Budget - (own + early) - c * (CallSize + Slack)
  BY <1>17, <1>21, <1>22 DEF CountAlone
<1>25. /\ c * (CallSize + Slack) = c * CallSize + c * Slack
       /\ c * Slack >= 0 /\ c * CallSize \in Int /\ c * Slack \in Int /\ c * share \in Int
  <2>1. \A x, y, z \in Nat : x * (y + z) = x * y + x * z /\ x * z >= 0 /\ x * y \in Int /\ x * z \in Int
    OBVIOUS
  <2> QED BY <1>13, <1>22, <2>1, Limits
<1>26. own + all <= Budget
  <2>1. PICK a \in Int : a = c * CallSize
    BY <1>25
  <2>2. PICK b \in Int : b = c * Slack
    BY <1>25
  <2>3. PICK d \in Int : d = c * share
    BY <1>25
  <2>4. all <= early + (0 + a) + d /\ d <= Budget - (own + early) - (a + b) /\ b >= 0
    BY <1>23, <1>24, <1>25, <2>1, <2>2, <2>3
  <2> QED BY <1>18, <1>19, <1>20, <2>4, Limits
<1> QED BY <1>21, <1>26

\* After a round without preamble and with bound tools only, the next model
\* call is never refused for its size (execute_with_budget divides what is left).
THEOREM ResultsFitAlways == TurnSpec => []ResultsFitWithoutPreamble
<1>1. TurnInv => ResultsFitWithoutPreamble
  BY SharesAddUp
<1> QED BY <1>1, TurnInvariance, PTL
=============================================================================
