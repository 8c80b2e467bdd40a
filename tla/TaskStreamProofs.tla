--------------------------- MODULE TaskStreamProofs ---------------------------
(***************************************************************************)
(* What TLAPS proves of TaskStream, for any number of turns, executions    *)
(* and units of text: with crashes, entries that expire, emissions that    *)
(* fail and connections that are lost.                                     *)
(*                                                                         *)
(* Executions of a Task are settled one after the other.  An event or an   *)
(* entry that says a generation started, a row or an event that says it    *)
(* ended, and a message of the page are all true of the server for good:   *)
(* no step undoes what they say (Grows), so they may be lost, held,        *)
(* replayed or sent twice.  What can be wrong is their order, and so the   *)
(* invariant keeps it: on the connection and in the queue of the page      *)
(* generations follow each other, and the one answer under way is not      *)
(* behind what the page shows.                                             *)
(***************************************************************************)
EXTENDS TaskStream, WellFoundedInduction, TLAPS

-----------------------------------------------------------------------------
(* The inductive invariant *)

\* What the variables range over.
StatusSet == {"none"} \cup Active \cup Terminal
BlockSet == [id : Runs \X Nat, kind : {"text", "tool"}, text : Seq(Nat), open : BOOLEAN]
Blocks == Seq(BlockSet)
RowSet == [status : StatusSet, blocks : Blocks]

StartEvents == [kind : {"start"}, turn : Turns, gen : Runs]
CreatedEvents == [kind : {"created"}, turn : Turns, gen : Runs, block : BlockSet]
UpdatedEvents == [kind : {"updated"}, turn : Turns, gen : Runs, block : BlockSet]
ChunkEvents == [kind : {"chunk"}, turn : Turns, gen : Runs, id : Runs \X Nat, at : Nat,
                offset : {k \in Nat : k < MaxUnits}]
EndedEvents == [kind : {"ended"}, turn : Turns, gen : Runs, status : Terminal, blocks : Blocks]
TaskEvents == [kind : {"task"}, status : StatusSet]
BlockEvents == CreatedEvents \cup UpdatedEvents \cup ChunkEvents
RunEvents == StartEvents \cup BlockEvents \cup EndedEvents
PageEvents == RunEvents \cup TaskEvents

StreamSet == {l \in [turn : Turns \cup {0}, gen : Runs \cup {0}, cached : Seq(Nat), blocks : Blocks] :
                Len(l.cached) <= MaxUnits}
RowMaps == UNION {[ns -> RowSet] : ns \in SUBSET Turns}
Acks == [kind : {"ack"}, rows : RowMaps, live : StreamSet]
Answers == Acks \cup [kind : {"refused"}]
Messages == PageEvents \cup Answers

Stages == {"idle", "brief", "tell", "open", "begin", "store", "emit", "loop",
           "finalize", "cleanup", "over"}
RunSet == [pc : Stages, turn : Turns \cup {0}, blocks : Blocks, units : 0 .. MaxUnits,
           pending : Seq(BlockEvents), event : RunEvents \cup {NoEvent}, brief : StatusSet,
           then : {"open", "loop", "cleanup", "over"}]
AskSet == [pc : {"none", "asked", "entered", "read", "snapped"}, after : Nat,
           rows : RowMaps, live : StreamSet]
HookSet == [up : BOOLEAN, joining : BOOLEAN, ready : BOOLEAN, hydrated : BOOLEAN,
            replace : BOOLEAN, queue : Seq(PageEvents)]
ShownSet == [status : StatusSet, gen : Runs \cup {0}, offset : 0 .. MaxUnits,
             blocks : Blocks, known : BOOLEAN]
ViewSet == [msgs : [Turns -> ShownSet], resync : BOOLEAN]

\* What each stage of an execution implies.
OpenedRun(x) == x.pc \notin {"idle", "open"} /\ x.then # "open"
RunHolds(r, x) ==
    /\ x.pc = "idle" => x = NoRun
    /\ x.pc # "idle" => x.turn \in Turns
    /\ x.then # "over" => x.pc \in {"brief", "tell"}
    /\ ~OpenedRun(x) => x.units = 0
    /\ x.event = NoEvent <=> x.pc \notin {"store", "emit"}
    /\ x.event # NoEvent => x.event.gen = r /\ x.event.turn = x.turn
    /\ x.pc = "store" => x.event.kind \in {"start", "ended"}
    /\ x.pending # <<>> => x.pc \in {"loop", "emit"} /\ x.event.kind \notin {"start", "ended"}
    /\ \A i \in DOMAIN x.pending : x.pending[i].gen = r /\ x.pending[i].turn = x.turn
RunInOrder(r) == RunHolds(r, run[r])

\* The entry of the store is that of the generation under way, and has the text
\* of the events that were emitted.
Opened(g) == OpenedRun(run[g])
Generating(r) == Unsettled(r) /\ Opened(r)
ChunkIsNext(x) == \E i \in DOMAIN x.pending : x.pending[i].kind = "chunk"
EntryFollows(r, x, l) ==
    /\ l.gen = r
    /\ \A i \in DOMAIN x.pending : x.pending[i].kind = "chunk" => i = Len(x.pending)
    /\ x.units = IF ChunkIsNext(x) THEN Len(l.cached) + 1 ELSE Len(l.cached)
StreamInOrder(r) == Generating(r) => EntryFollows(r, run[r], stream)

\* Executions follow one another: the one that is not settled is the last.
OneByOne ==
    /\ \A r, q \in Runs : q > r /\ run[r].pc = "idle" => run[q].pc = "idle"
    /\ \A r \in Runs : Unsettled(r) =>
         /\ status \in Active /\ durable[run[r].turn].status \in Active
         /\ \A q \in Runs : q > r => run[q].pc = "idle"
         /\ \A q \in Runs : Unsettled(q) => q = r

\* g is an execution of turn n that opened its generation: only later ones can
\* own the entry of the store.
Announced(g, n) ==
    /\ g \in Runs /\ Opened(g) /\ run[g].turn = n
    /\ stream.gen # 0 => g <= stream.gen
Settled(g) == run[g].pc # "idle" /\ ~Unsettled(g)
Stored(n, row) ==
    row.status \in {"COMPLETED", "CANCELLED"} =>
        durable[n] = [status |-> row.status, blocks |-> row.blocks]

\* What stays true of an event, an entry and rows wherever they are.
EventHolds(e) ==
    /\ e.kind = "start" => Announced(e.gen, e.turn)
    /\ e.kind = "ended" => Settled(e.gen) /\ Stored(e.turn, e)
EntryHolds(l) == IF l.gen = 0 THEN l = NoStream ELSE Announced(l.gen, l.turn)
RowsHold(rows) == \A n \in DOMAIN rows : Stored(n, rows[n])
ViewHolds(v) == \A n \in Turns :
    /\ v.msgs[n].gen # 0 => v.msgs[n].status = "RUNNING" /\ Announced(v.msgs[n].gen, n)
    /\ Stored(n, v.msgs[n])

\* The entry that a waiting page is answered with is not behind the page.
NotBehind(v, l) == \A n \in Turns : v.msgs[n].gen # 0 =>
    /\ l.gen # 0 => v.msgs[n].gen <= l.gen
    /\ Unsettled(v.msgs[n].gen) => l.gen = v.msgs[n].gen
MessageHolds(v, m) ==
    IF m.kind = "ack" THEN RowsHold(m.rows) /\ EntryHolds(m.live) /\ NotBehind(v, m.live)
    ELSE EventHolds(m)

\* Generations reach the page in their order.
Later(x, y) == y.kind = "start" =>
    /\ x.kind = "start" => x.gen <= y.gen
    /\ x.kind = "ack" => x.live.gen <= y.gen
ShownBefore(v, y) == y.kind = "start" => \A n \in Turns : v.msgs[n].gen <= y.gen
InOrder(w, queue, v) ==
    /\ \A i, j \in DOMAIN w : i < j => Later(w[i], w[j])
    /\ \A i \in DOMAIN queue, j \in DOMAIN w : Later(queue[i], w[j])
    /\ \A i \in DOMAIN w : ShownBefore(v, w[i])
    /\ \A i \in DOMAIN queue : ShownBefore(v, queue[i])

\* What is under way to the page, held by it and shown, and what it asked for.
PageHolds(w, queue, v, a) ==
    /\ w \in Seq(Messages) /\ queue \in Seq(PageEvents) /\ v \in ViewSet /\ a \in AskSet
    /\ RowsHold(a.rows) /\ EntryHolds(a.live)
    /\ a.pc = "snapped" => NotBehind(v, a.live)
    /\ \A i \in DOMAIN w : MessageHolds(v, w[i])
    /\ \A i \in DOMAIN queue : EventHolds(queue[i])
    /\ ViewHolds(v)
    /\ InOrder(w, queue, v)

\* A page waits for one answer at a time, and shows no events meanwhile.
IsAnswer(m) == m.kind \in {"ack", "refused"}
OneAnswer(w, a, h) ==
    /\ h.ready => ~h.joining
    /\ h.joining => h.up
    /\ ~h.joining => h.queue = <<>>
    /\ a.pc # "none" => h.joining /\ \A i \in DOMAIN w : ~IsAnswer(w[i])
    /\ \A i \in DOMAIN w : IsAnswer(w[i]) =>
         h.joining /\ \A j \in DOMAIN w : IsAnswer(w[j]) => j = i

ServerTypes ==
    /\ durable \in [Turns -> RowSet] /\ status \in StatusSet
    /\ run \in [Runs -> RunSet] /\ stream \in StreamSet
RunEventsHold == \A r \in Runs : run[r].event # NoEvent => EventHolds(run[r].event)

ServerInv ==
    /\ ServerTypes
    /\ \A r \in Runs : RunInOrder(r) /\ StreamInOrder(r)
    /\ OneByOne
    /\ RunEventsHold
    /\ EntryHolds(stream)
PageInv ==
    /\ room \in BOOLEAN /\ shown \in BOOLEAN /\ hook \in HookSet
    /\ PageHolds(wire, hook.queue, view, ask)
    /\ OneAnswer(wire, ask, hook)
StreamInv == ServerInv /\ PageInv

-----------------------------------------------------------------------------
(* Numbers and sequences *)

SmallerNumber == {p \in Nat \X Nat : p[1] < p[2]}

\* A set of natural numbers that is not empty has a least element.
LEMMA LeastIsThere ==
    ASSUME NEW S \in SUBSET Nat, S # {}
    PROVE  \E x \in S : \A y \in S : x <= y
<1>1. IsWellFoundedOn(SmallerNumber, Nat)
  BY NatLessThanWellFounded DEF OpToRel, SmallerNumber
<1>2. PICK x \in S : \A y \in S : <<y, x>> \notin SmallerNumber
  BY <1>1, WFMin, Zenon
<1>3. \A y \in S : ~(y < x)
  BY <1>2 DEF SmallerNumber
<1>4. \A y \in S : x <= y
  BY <1>3
<1> QED BY <1>4

\* What Append and Tail do to a sequence.
LEMMA AppendIs ==
    ASSUME NEW S, NEW s \in Seq(S), NEW e \in S
    PROVE  /\ Append(s, e) \in Seq(S)
           /\ Len(s) \in Nat /\ Len(Append(s, e)) = Len(s) + 1
           /\ DOMAIN s = 1 .. Len(s)
           /\ DOMAIN Append(s, e) = 1 .. Len(s) + 1
           /\ \A i \in DOMAIN s : Append(s, e)[i] = s[i]
           /\ Append(s, e)[Len(s) + 1] = e
           /\ Append(s, e) # <<>>
  OBVIOUS

\* What is left of a sequence, and its first element.
LEMMA TailIs ==
    ASSUME NEW S, NEW s \in Seq(S), s # <<>>
    PROVE  /\ Tail(s) \in Seq(S) /\ Head(s) \in S /\ Head(s) = s[1] /\ 1 \in DOMAIN s
           /\ Len(s) \in Nat \ {0} /\ DOMAIN s = 1 .. Len(s)
           /\ DOMAIN Tail(s) = 1 .. Len(s) - 1
           /\ \A i \in DOMAIN Tail(s) : /\ i + 1 \in DOMAIN s /\ i + 1 # 1
                                        /\ Tail(s)[i] = s[i + 1]
  OBVIOUS

\* The empty sequence.
LEMMA EmptyIs ==
    /\ \A S : <<>> \in Seq(S)
    /\ DOMAIN <<>> = {} /\ Len(<<>>) = 0
  OBVIOUS

-----------------------------------------------------------------------------
(* What no step undoes *)

\* Executions are announced and settled for good, outcomes are final, and the
\* entry of the store is never one of an earlier execution.
Grows ==
    /\ \A r \in Runs : run[r].pc # "idle" =>
         /\ run'[r].pc # "idle" /\ run'[r].turn = run[r].turn
         /\ ~Unsettled(r) => ~Unsettled(r)'
         /\ Opened(r) => Opened(r)'
    /\ \A n \in Turns :
         durable[n].status \in {"COMPLETED", "CANCELLED"} => durable'[n] = durable[n]
    /\ \A g \in Runs : /\ run[g].pc # "idle"
                       /\ stream.gen # 0 => g <= stream.gen
                       => (stream'.gen # 0 => g <= stream'.gen)

\* An announced generation stays announced, a settled one settled, and what was
\* stored of an outcome stays stored.
LEMMA StillAnnounced ==
    ASSUME Grows, NEW g, NEW n, Announced(g, n)
    PROVE  Announced(g, n)'
<1>1. run[g].pc # "idle"
  BY DEF Announced, Opened, OpenedRun
<1> QED BY <1>1, Zenon DEF Grows, Announced

\* A settled execution does not come back.
LEMMA StillSettled ==
    ASSUME Grows, NEW g \in Runs, Settled(g)
    PROVE  Settled(g)'
  BY DEF Grows, Settled

\* A row that ends COMPLETED or CANCELLED is not written again.
LEMMA StillStored ==
    ASSUME Grows, NEW n \in Turns, NEW row, Stored(n, row)
    PROVE  Stored(n, row)'
<1>1. CASE row.status \in {"COMPLETED", "CANCELLED"}
  <2>1. durable[n] = [status |-> row.status, blocks |-> row.blocks]
    BY <1>1 DEF Stored
  <2>2. durable'[n] = durable[n]
    BY <1>1, <2>1 DEF Grows
  <2> QED BY <2>1, <2>2 DEF Stored
<1>2. CASE row.status \notin {"COMPLETED", "CANCELLED"}
  BY <1>2 DEF Stored
<1> QED BY <1>1, <1>2

\* Events of executions name executions and turns.
LEMMA EventTyped ==
    ASSUME NEW e \in PageEvents
    PROVE  /\ e.kind \in {"start", "created", "updated", "chunk", "ended", "task"}
           /\ e.kind # "task" => e \in RunEvents
           /\ e \in RunEvents => e.gen \in Runs /\ e.turn \in Turns
           /\ e.kind = "start" => e \in StartEvents
           /\ e.kind = "created" => e \in CreatedEvents
           /\ e.kind = "updated" => e \in UpdatedEvents
           /\ e.kind = "chunk" => e \in ChunkEvents
           /\ e.kind = "ended" => e \in EndedEvents
           /\ e.kind = "task" => e \in TaskEvents
  BY DEF PageEvents, RunEvents, BlockEvents, StartEvents, CreatedEvents, UpdatedEvents, ChunkEvents,
         EndedEvents, TaskEvents

\* So events, entries, rows and views that held before a step hold after it.
LEMMA EventStillHolds ==
    ASSUME Grows, NEW e \in PageEvents, EventHolds(e)
    PROVE  EventHolds(e)'
<1>1. e.kind = "start" => Announced(e.gen, e.turn)'
  BY StillAnnounced DEF EventHolds
<1>2. e.kind = "ended" => Settled(e.gen)' /\ Stored(e.turn, e)'
  BY EventTyped, StillSettled, StillStored DEF EventHolds, EndedEvents
<1> QED BY <1>1, <1>2 DEF EventHolds

\* The copy of an entry that a snapshot took.
LEMMA EntryStillHolds ==
    ASSUME Grows, NEW l, EntryHolds(l)
    PROVE  EntryHolds(l)'
  BY StillAnnounced DEF EntryHolds

\* The rows that a join read: some turns, each with its row.
LEMMA RowsTyped ==
    ASSUME NEW rows \in RowMaps
    PROVE  DOMAIN rows \subseteq Turns /\ \A n \in DOMAIN rows : rows[n] \in RowSet
  BY DEF RowMaps

\* The rows that a join read are not outdated by what is final.
LEMMA RowsStillHold ==
    ASSUME Grows, NEW rows \in RowMaps, RowsHold(rows)
    PROVE  RowsHold(rows)'
  BY RowsTyped, StillStored DEF RowsHold

\* What the page shows.
LEMMA ViewStillHolds ==
    ASSUME Grows, NEW v, ViewHolds(v)
    PROVE  ViewHolds(v)'
  BY StillAnnounced, StillStored DEF ViewHolds

\* An answer that was not behind the page stays so: nothing unsettled appears.
LEMMA StillNotBehind ==
    ASSUME Grows, NEW v, ViewHolds(v), NEW l, NotBehind(v, l)
    PROVE  NotBehind(v, l)'
<1>1. \A n \in Turns : v.msgs[n].gen # 0 =>
         /\ v.msgs[n].gen \in Runs /\ run[v.msgs[n].gen].pc # "idle"
         /\ Unsettled(v.msgs[n].gen)' => Unsettled(v.msgs[n].gen)
  BY DEF ViewHolds, Announced, Opened, OpenedRun, Grows
<1> QED BY <1>1 DEF NotBehind

\* Messages are events or answers.
LEMMA MessageTyped ==
    ASSUME NEW m \in Messages
    PROVE  /\ m.kind = "ack" => m \in Acks /\ m.rows \in RowMaps /\ m.live \in StreamSet
           /\ m.kind \notin {"ack", "refused"} => m \in PageEvents
           /\ m.kind \in {"ack", "refused", "start", "created", "updated", "chunk", "ended", "task"}
  BY EventTyped DEF Messages, Answers, Acks

\* What the page has and is sent depends on the server as far as it grows only.
LEMMA PageStillHolds ==
    ASSUME Grows, NEW w, NEW queue, NEW v, NEW a, PageHolds(w, queue, v, a)
    PROVE  PageHolds(w, queue, v, a)'
<1>1. /\ w \in Seq(Messages) /\ queue \in Seq(PageEvents) /\ v \in ViewSet /\ a \in AskSet
      /\ RowsHold(a.rows) /\ EntryHolds(a.live) /\ a.rows \in RowMaps
      /\ a.pc = "snapped" => NotBehind(v, a.live)
      /\ ViewHolds(v) /\ InOrder(w, queue, v)
  BY DEF PageHolds, AskSet
<1>2. ASSUME NEW i \in DOMAIN w
      PROVE  MessageHolds(v, w[i])'
  <2>1. w[i] \in Messages /\ MessageHolds(v, w[i])
    BY <1>1, <1>2 DEF PageHolds
  <2>2. CASE w[i].kind = "ack"
    BY <1>1, <2>1, <2>2, MessageTyped, RowsStillHold, EntryStillHolds, StillNotBehind DEF MessageHolds
  <2>3. CASE w[i].kind = "refused"
    BY <2>3 DEF MessageHolds, EventHolds
  <2>4. CASE w[i].kind \notin {"ack", "refused"}
    BY <2>1, <2>4, MessageTyped, EventStillHolds DEF MessageHolds
  <2> QED BY <2>2, <2>3, <2>4
<1>3. ASSUME NEW i \in DOMAIN queue
      PROVE  EventHolds(queue[i])'
  BY <1>1, <1>3, EventStillHolds DEF PageHolds
<1>4. RowsHold(a.rows)' /\ EntryHolds(a.live)' /\ ViewHolds(v)'
  BY <1>1, RowsStillHold, EntryStillHolds, ViewStillHolds
<1>5. a.pc = "snapped" => NotBehind(v, a.live)'
  BY <1>1, StillNotBehind
<1> QED BY <1>1, <1>2, <1>3, <1>4, <1>5 DEF PageHolds

-----------------------------------------------------------------------------
(* The reducer *)

\* What the reducer of the page does of an event to the messages, apart from
\* their text.
Applied(v, m, w) ==
    /\ w \in ViewSet
    /\ \A n \in Turns :
         \/ w.msgs[n] = v.msgs[n]
         \/ /\ m.kind = "start" /\ n = m.turn
            /\ w.msgs[n].status = "RUNNING" /\ w.msgs[n].gen = m.gen
         \/ /\ m.kind = "ended" /\ n = m.turn /\ v.msgs[n].gen = m.gen
            /\ w.msgs[n].status = m.status /\ w.msgs[n].blocks = m.blocks /\ w.msgs[n].gen = 0
         \/ /\ m.kind \in {"created", "updated", "chunk"} /\ v.msgs[n].gen # 0
            /\ w.msgs[n].status = v.msgs[n].status /\ w.msgs[n].gen = v.msgs[n].gen

\* One message is replaced.
LEMMA MessageReplaced ==
    ASSUME NEW v \in ViewSet, NEW n \in Turns, NEW x \in ShownSet
    PROVE  /\ [v EXCEPT !.msgs[n] = x] \in ViewSet
           /\ \A k \in Turns : [v EXCEPT !.msgs[n] = x].msgs[k] = IF k = n THEN x ELSE v.msgs[k]
  BY DEF ViewSet

\* Asking for a new snapshot leaves the messages alone.
LEMMA ResyncIsNoMessage ==
    ASSUME NEW v \in ViewSet
    PROVE  [v EXCEPT !.resync = TRUE] \in ViewSet /\ [v EXCEPT !.resync = TRUE].msgs = v.msgs
  BY DEF ViewSet

\* Values that types contain.
LEMMA ZeroIsThere ==
    0 \in 0 .. MaxUnits /\ 0 \in Runs \cup {0} /\ 0 \in Turns \cup {0} /\ <<>> \in Blocks
  BY BoundsAssumption DEF Blocks

\* The states of a row, those that are active and those that are terminal.
LEMMA StatusesAre == Active \subseteq StatusSet /\ Terminal \subseteq StatusSet /\ "none" \in StatusSet
                     /\ "RUNNING" \in Active /\ "PENDING" \in Active
                     /\ \A s \in Terminal : s # "RUNNING" /\ s # "PENDING" /\ s # "none"
                     /\ Terminal = {"COMPLETED", "FAILED", "CANCELLED"}
                     /\ Active \cap Terminal = {}
  BY DEF StatusSet, Active, Terminal

\* Each handler of the reducer does what Applied allows. chat:start makes the message
\* a streaming one of its generation.
LEMMA StartedIs ==
    ASSUME NEW v \in ViewSet, NEW m \in StartEvents
    PROVE  Applied(v, m, Started(v, m))
<1> DEFINE x == [Absent EXCEPT !.status = "RUNNING", !.gen = m.gen, !.known = v.msgs[m.turn].known]
<1>1. m.turn \in Turns /\ m.gen \in Runs /\ m.kind = "start" /\ v.msgs[m.turn] \in ShownSet
  BY DEF StartEvents, ViewSet
<1>2. x \in ShownSet /\ x.status = "RUNNING" /\ x.gen = m.gen
  <2>1. Absent \in ShownSet
    BY ZeroIsThere, StatusesAre DEF ShownSet, Absent
  <2>2. v.msgs[m.turn].known \in BOOLEAN
    BY <1>1 DEF ShownSet
  <2> QED BY <1>1, <2>1, <2>2, StatusesAre DEF ShownSet
<1> HIDE DEF x
<1>3. Started(v, m) = v \/ Started(v, m) = [v EXCEPT !.msgs[m.turn] = x]
  BY DEF Started, x
<1>4. CASE Started(v, m) = v
  BY <1>4 DEF Applied
<1>5. CASE Started(v, m) = [v EXCEPT !.msgs[m.turn] = x]
  BY <1>1, <1>2, <1>5, MessageReplaced DEF Applied
<1> QED BY <1>3, <1>4, <1>5

\* chat:block_created adds a block to a message that streams.
LEMMA BlockCreatedIs ==
    ASSUME NEW v \in ViewSet, NEW m \in CreatedEvents
    PROVE  Applied(v, m, BlockCreated(v, m))
<1> DEFINE x == [v.msgs[m.turn] EXCEPT !.blocks = Append(@, m.block)]
<1>1. m.turn \in Turns /\ m.gen \in Runs /\ m.kind = "created" /\ v.msgs[m.turn] \in ShownSet
      /\ m.block \in BlockSet
  BY DEF CreatedEvents, ViewSet
<1>2. Append(v.msgs[m.turn].blocks, m.block) \in Blocks
  BY <1>1, AppendIs DEF ShownSet, Blocks
<1>3. x \in ShownSet /\ x.status = v.msgs[m.turn].status /\ x.gen = v.msgs[m.turn].gen
  BY <1>1, <1>2 DEF ShownSet
<1>4. BlockCreated(v, m) = v \/ (BlockCreated(v, m) = [v EXCEPT !.msgs[m.turn] = x] /\ Matches(v, m))
  BY <1>1 DEF BlockCreated, ViewSet
<1> HIDE DEF x
<1>5. CASE BlockCreated(v, m) = v
  BY <1>5 DEF Applied
<1>6. CASE BlockCreated(v, m) = [v EXCEPT !.msgs[m.turn] = x] /\ Matches(v, m)
  <2>1. v.msgs[m.turn].gen # 0
    BY <1>1, <1>6 DEF Matches, Runs
  <2> QED BY <1>1, <1>3, <1>6, <2>1, MessageReplaced DEF Applied
<1> QED BY <1>4, <1>5, <1>6

\* chat:block_updated replaces a block that is there, or asks for a snapshot.
LEMMA BlockUpdatedIs ==
    ASSUME NEW v \in ViewSet, NEW m \in UpdatedEvents
    PROVE  Applied(v, m, BlockUpdated(v, m))
<1> DEFINE old == v.msgs[m.turn]
           at == Place(old.blocks, m.block.id)
           i == CHOOSE k \in at : TRUE
           x == [old EXCEPT !.blocks = [@ EXCEPT ![i] = m.block]]
<1>1. m.turn \in Turns /\ m.gen \in Runs /\ m.kind = "updated" /\ old \in ShownSet
      /\ m.block \in BlockSet
  BY DEF UpdatedEvents, ViewSet
<1>2. CASE ~Matches(v, m)
  BY <1>2 DEF BlockUpdated, Applied
<1>3. CASE Matches(v, m) /\ at = {}
  BY <1>3, ResyncIsNoMessage DEF BlockUpdated, Applied
<1>4. CASE Matches(v, m) /\ at # {}
  <2>1. i \in DOMAIN old.blocks
    BY <1>4 DEF Place
  <2>2. [old.blocks EXCEPT ![i] = m.block] \in Blocks
    BY <1>1, <2>1 DEF ShownSet, Blocks
  <2>3. x \in ShownSet /\ x.status = old.status /\ x.gen = old.gen
    BY <1>1, <2>2 DEF ShownSet
  <2>4. BlockUpdated(v, m) = [v EXCEPT !.msgs[m.turn] = x]
    BY <1>1, <1>4 DEF BlockUpdated, ViewSet
  <2>5. old.gen # 0
    BY <1>1, <1>4 DEF Matches, Runs
  <2> HIDE DEF x
  <2> QED BY <1>1, <2>3, <2>4, <2>5, MessageReplaced DEF Applied
<1> QED BY <1>2, <1>3, <1>4

\* chat:chunk adds to the text of a message that streams, or asks for a snapshot.
LEMMA MergedIs ==
    ASSUME NEW v \in ViewSet, NEW m \in ChunkEvents
    PROVE  Applied(v, m, Merged(v, m))
<1> DEFINE old == v.msgs[m.turn]
           at == Place(old.blocks, m.id)
           i == CHOOSE k \in at : TRUE
           length == IF at = {} THEN 0 ELSE Len(old.blocks[i].text)
           new == [Block(m.id, "text") EXCEPT !.text = <<m.offset>>]
           blocks == IF at = {} THEN Append(old.blocks, new)
                     ELSE [old.blocks EXCEPT ![i].text = Append(@, m.offset)]
           x == [old EXCEPT !.blocks = blocks, !.offset = @ + 1]
<1>1. m.turn \in Turns /\ m.gen \in Runs /\ m.kind = "chunk" /\ old \in ShownSet
      /\ m.id \in Runs \X Nat /\ m.offset \in Nat /\ m.offset < MaxUnits
  BY DEF ChunkEvents, ViewSet
<1>2. blocks \in Blocks
  <2>1. CASE at = {}
    <3>1. new \in BlockSet
      <4>1. Block(m.id, "text") \in BlockSet
        BY <1>1 DEF Block, BlockSet
      <4>2. <<m.offset>> \in Seq(Nat)
        BY <1>1
      <4> QED BY <4>1, <4>2 DEF BlockSet
    <3> HIDE DEF new
    <3> QED BY <1>1, <2>1, <3>1, AppendIs DEF ShownSet, Blocks
  <2>2. CASE at # {}
    <3>1. i \in DOMAIN old.blocks /\ old.blocks \in Seq(BlockSet)
      BY <1>1, <2>2 DEF Place, ShownSet, Blocks
    <3>2. old.blocks[i] \in BlockSet
      <4> HIDE DEF i, old
      <4> QED BY <3>1
    <3>3. Append(old.blocks[i].text, m.offset) \in Seq(Nat)
      BY <1>1, <3>2, AppendIs DEF BlockSet
    <3>4. [old.blocks[i] EXCEPT !.text = Append(@, m.offset)] \in BlockSet
      BY <3>2, <3>3 DEF BlockSet
    <3>5. blocks = [old.blocks EXCEPT ![i] = [old.blocks[i] EXCEPT !.text = Append(@, m.offset)]]
      BY <2>2, <3>1
    <3>6. \A b \in BlockSet : [old.blocks EXCEPT ![i] = b] \in Seq(BlockSet)
      <4> HIDE DEF i, old
      <4> QED BY <3>1
    <3> QED BY <3>4, <3>5, <3>6 DEF Blocks
  <2> QED BY <2>1, <2>2
<1>3. CASE Merged(v, m) = v
  BY <1>3 DEF Applied
<1>4. CASE Merged(v, m) = [v EXCEPT !.resync = TRUE]
  BY <1>4, ResyncIsNoMessage DEF Applied
<1>5. CASE /\ Matches(v, m) /\ m.offset = old.offset
           /\ Merged(v, m) = [v EXCEPT !.msgs[m.turn] = x]
  <2> HIDE DEF blocks
  <2>1. old.offset + 1 \in 0 .. MaxUnits
    BY <1>1, <1>5, BoundsAssumption
  <2>2. x \in ShownSet /\ x.status = old.status /\ x.gen = old.gen
    BY <1>1, <1>2, <2>1 DEF ShownSet
  <2>3. Merged(v, m) = [v EXCEPT !.msgs[m.turn] = x]
    BY <1>5
  <2>4. old.gen # 0
    BY <1>1, <1>5 DEF Matches, Runs
  <2> HIDE DEF x
  <2> QED BY <1>1, <2>2, <2>3, <2>4, MessageReplaced DEF Applied
<1>6. \/ Merged(v, m) = v \/ Merged(v, m) = [v EXCEPT !.resync = TRUE]
      \/ /\ Matches(v, m) /\ m.offset = old.offset
         /\ Merged(v, m) = [v EXCEPT !.msgs[m.turn] = x]
  <2>1. old.offset \in Nat
    BY <1>1, BoundsAssumption DEF ShownSet
  <2>2. CASE ~Matches(v, m) \/ (at # {} /\ Behind(m, length, old.offset))
    BY <2>2 DEF Merged
  <2>3. CASE ~(~Matches(v, m) \/ (at # {} /\ Behind(m, length, old.offset)))
    <3>1. CASE at = {} /\ (m.at # 0 \/ m.offset # old.offset)
      BY <2>3, <3>1 DEF Merged
    <3>2. CASE at # {} /\ Ahead(m, length, old.offset)
      BY <2>3, <3>2 DEF Merged
    <3>3. CASE ~(at = {} /\ (m.at # 0 \/ m.offset # old.offset)) /\ ~(at # {} /\ Ahead(m, length, old.offset))
      <4>1. Matches(v, m)
        BY <2>3
      <4>2. m.offset = old.offset
        BY <1>1, <2>1, <2>3, <3>3 DEF Behind, Ahead
      <4>3. Merged(v, m) = [v EXCEPT !.msgs[m.turn] = x]
        BY <2>3, <3>3 DEF Merged
      <4> QED BY <4>1, <4>2, <4>3
    <3> QED BY <3>1, <3>2, <3>3
  <2> QED BY <2>2, <2>3
<1> QED BY <1>3, <1>4, <1>5, <1>6

\* chat:done, chat:error and chat:cancelled settle the message of their generation.
LEMMA EndedIs ==
    ASSUME NEW v \in ViewSet, NEW m \in EndedEvents
    PROVE  Applied(v, m, Ended(v, m))
<1> DEFINE x == [v.msgs[m.turn] EXCEPT !.status = m.status, !.blocks = m.blocks, !.gen = 0, !.offset = 0]
<1>1. m.turn \in Turns /\ m.kind = "ended" /\ v.msgs[m.turn] \in ShownSet
      /\ m.status \in Terminal /\ m.blocks \in Blocks
  BY DEF EndedEvents, ViewSet
<1>2. x \in ShownSet /\ x.status = m.status /\ x.blocks = m.blocks /\ x.gen = 0
  <2>1. v.msgs[m.turn].known \in BOOLEAN
    BY <1>1 DEF ShownSet
  <2> QED BY <1>1, <2>1, ZeroIsThere, StatusesAre DEF ShownSet
<1>3. Ended(v, m) = v \/ (Ended(v, m) = [v EXCEPT !.msgs[m.turn] = x] /\ Matches(v, m))
  BY <1>1 DEF Ended, ViewSet
<1> HIDE DEF x
<1>4. CASE Ended(v, m) = v
  BY <1>4 DEF Applied
<1>5. CASE Ended(v, m) = [v EXCEPT !.msgs[m.turn] = x] /\ Matches(v, m)
  BY <1>1, <1>2, <1>5, MessageReplaced DEF Applied, Matches
<1> QED BY <1>3, <1>4, <1>5

\* Whatever the event is, the reducer does what Applied allows.
LEMMA ReducedIs ==
    ASSUME NEW v \in ViewSet, NEW m \in PageEvents
    PROVE  Applied(v, m, Reduced(v, m))
<1>1. CASE m.kind = "start"
  BY <1>1, EventTyped, StartedIs DEF Reduced
<1>2. CASE m.kind = "created"
  BY <1>2, EventTyped, BlockCreatedIs DEF Reduced
<1>3. CASE m.kind = "updated"
  BY <1>3, EventTyped, BlockUpdatedIs DEF Reduced
<1>4. CASE m.kind = "chunk"
  BY <1>4, EventTyped, MergedIs DEF Reduced
<1>5. CASE m.kind = "ended"
  BY <1>5, EventTyped, EndedIs DEF Reduced
<1>6. CASE m.kind = "task"
  <2>1. Reduced(v, m) = TaskTerminal(v, m)
    BY <1>6 DEF Reduced
  <2>2. TaskTerminal(v, m) = v \/ TaskTerminal(v, m) = [v EXCEPT !.resync = TRUE]
    BY DEF TaskTerminal
  <2> QED BY <2>1, <2>2, ResyncIsNoMessage DEF Applied
<1> QED BY <1>1, <1>2, <1>3, <1>4, <1>5, <1>6, EventTyped

-----------------------------------------------------------------------------
(* An event that is shown *)

\* What an event makes of a view is true if the event and the view are.
LEMMA AppliedHolds ==
    ASSUME NEW v \in ViewSet, NEW m \in PageEvents, NEW x, Applied(v, m, x),
           ViewHolds(v), EventHolds(m)
    PROVE  ViewHolds(x)
<1>1. SUFFICES ASSUME NEW n \in Turns
               PROVE  /\ x.msgs[n].gen # 0 => x.msgs[n].status = "RUNNING" /\ Announced(x.msgs[n].gen, n)
                      /\ Stored(n, x.msgs[n])
  BY DEF ViewHolds
<1>2. CASE x.msgs[n] = v.msgs[n]
  BY <1>2 DEF ViewHolds
<1>3. CASE m.kind = "start" /\ n = m.turn /\ x.msgs[n].status = "RUNNING" /\ x.msgs[n].gen = m.gen
  BY <1>3 DEF EventHolds, Stored
<1>4. CASE /\ m.kind = "ended" /\ n = m.turn /\ x.msgs[n].status = m.status
           /\ x.msgs[n].blocks = m.blocks /\ x.msgs[n].gen = 0
  BY <1>4 DEF EventHolds, Stored
<1>5. CASE v.msgs[n].gen # 0 /\ x.msgs[n].status = v.msgs[n].status /\ x.msgs[n].gen = v.msgs[n].gen
  BY <1>5 DEF ViewHolds, Stored
<1> QED BY <1>2, <1>3, <1>4, <1>5 DEF Applied

\* No generation that starts later is passed by.
LEMMA AppliedBefore ==
    ASSUME NEW v \in ViewSet, NEW m \in PageEvents, NEW x, Applied(v, m, x),
           NEW y \in Messages, Later(m, y), ShownBefore(v, y)
    PROVE  ShownBefore(x, y)
<1>1. SUFFICES ASSUME y.kind = "start", NEW n \in Turns
               PROVE  x.msgs[n].gen <= y.gen
  BY DEF ShownBefore
<1>2. y.gen \in Runs
  BY <1>1, MessageTyped, EventTyped DEF StartEvents
<1>3. v.msgs[n].gen <= y.gen
  BY <1>1 DEF ShownBefore
<1>4. m.kind = "start" => m.gen <= y.gen
  BY <1>1 DEF Later
<1> QED BY <1>2, <1>3, <1>4 DEF Applied, Runs

\* What GenerationHeld says of a message.
Held(old, new) == old # 0 /\ new # old => ~Unsettled(old) /\ (new # 0 => new > old)
AllHeld(b, v) == \A n \in Turns : Held(b.msgs[n].gen, v.msgs[n].gen)

\* A later generation is announced only when the earlier ones are settled.
LEMMA EarlierSettled ==
    ASSUME OneByOne, NEW g \in Runs, NEW k \in Runs, run[k].pc # "idle", k > g
    PROVE  ~Unsettled(g)
  BY DEF OneByOne

\* No event replaces a generation that is not settled, nor by an earlier one.
LEMMA AppliedHeld ==
    ASSUME OneByOne, NEW b \in ViewSet, ViewHolds(b), NEW v \in ViewSet, AllHeld(b, v),
           NEW m \in PageEvents, EventHolds(m), ShownBefore(b, m), NEW x, Applied(v, m, x)
    PROVE  AllHeld(b, x)
<1>1. SUFFICES ASSUME NEW n \in Turns
               PROVE  Held(b.msgs[n].gen, x.msgs[n].gen)
  BY DEF AllHeld
<1>2. b.msgs[n].gen \in Runs \cup {0} /\ v.msgs[n].gen \in Runs \cup {0} /\ x.msgs[n].gen \in Runs \cup {0}
  BY DEF ViewSet, ShownSet, Applied
<1>3. Held(b.msgs[n].gen, v.msgs[n].gen)
  BY DEF AllHeld
<1>4. CASE x.msgs[n].gen = v.msgs[n].gen
  BY <1>3, <1>4
<1>5. CASE m.kind = "start" /\ x.msgs[n].gen = m.gen
  <2>1. m.gen \in Runs /\ run[m.gen].pc # "idle" /\ b.msgs[n].gen <= m.gen
    BY <1>5 DEF EventHolds, Announced, Opened, OpenedRun, ShownBefore
  <2>2. ASSUME b.msgs[n].gen # 0, m.gen # b.msgs[n].gen
        PROVE  m.gen > b.msgs[n].gen /\ ~Unsettled(b.msgs[n].gen)
    <3>1. m.gen > b.msgs[n].gen
      BY <1>2, <2>1, <2>2 DEF Runs
    <3> QED BY <1>2, <2>1, <2>2, <3>1, EarlierSettled
  <2> QED BY <1>5, <2>2 DEF Held
<1>6. CASE m.kind = "ended" /\ v.msgs[n].gen = m.gen /\ x.msgs[n].gen = 0
  <2>1. ~Unsettled(m.gen)
    BY <1>6 DEF EventHolds, Settled
  <2> QED BY <1>3, <1>6, <2>1 DEF Held
<1> QED BY <1>4, <1>5, <1>6 DEF Applied

\* The first message of the connection is taken from it.
LEMMA TailHolds ==
    ASSUME NEW w, NEW queue, NEW v, NEW a, PageHolds(w, queue, v, a), w # <<>>
    PROVE  /\ PageHolds(Tail(w), queue, v, a)
           /\ Head(w) \in Messages /\ MessageHolds(v, Head(w)) /\ ShownBefore(v, Head(w))
           /\ \A i \in DOMAIN Tail(w) : Later(Head(w), Tail(w)[i])
           /\ \A i \in DOMAIN queue : Later(queue[i], Head(w))
<1>1. /\ w \in Seq(Messages) /\ \A i \in DOMAIN w : MessageHolds(v, w[i])
      /\ InOrder(w, queue, v)
  BY DEF PageHolds
<1>2. /\ Tail(w) \in Seq(Messages) /\ Head(w) \in Messages /\ Head(w) = w[1] /\ 1 \in DOMAIN w
      /\ DOMAIN w = 1 .. Len(w) /\ DOMAIN Tail(w) = 1 .. Len(w) - 1 /\ Len(w) \in Nat
      /\ \A i \in DOMAIN Tail(w) : i + 1 \in DOMAIN w /\ Tail(w)[i] = w[i + 1]
  BY <1>1, TailIs
<1>3. \A i, j \in DOMAIN Tail(w) : i < j => i + 1 < j + 1
  BY <1>2
<1>4. \A i \in DOMAIN Tail(w) : 1 < i + 1
  BY <1>2
<1>5. InOrder(Tail(w), queue, v)
  BY <1>1, <1>2, <1>3 DEF InOrder
<1>6. \A i \in DOMAIN Tail(w) : MessageHolds(v, Tail(w)[i]) /\ Later(Head(w), Tail(w)[i])
  BY <1>1, <1>2, <1>4 DEF InOrder
<1>7. ShownBefore(v, Head(w)) /\ MessageHolds(v, Head(w)) /\ \A i \in DOMAIN queue : Later(queue[i], Head(w))
  BY <1>1, <1>2 DEF InOrder
<1> QED BY <1>2, <1>5, <1>6, <1>7 DEF PageHolds

\* If the first message was the answer, none is left.
LEMMA TailAnswers ==
    ASSUME NEW w \in Seq(Messages), w # <<>>, NEW a, NEW h, OneAnswer(w, a, h)
    PROVE  /\ OneAnswer(Tail(w), a, h)
           /\ IsAnswer(Head(w)) => /\ h.joining /\ a.pc = "none"
                                   /\ \A i \in DOMAIN Tail(w) : ~IsAnswer(Tail(w)[i])
<1>1. /\ Head(w) = w[1] /\ 1 \in DOMAIN w
      /\ DOMAIN w = 1 .. Len(w) /\ DOMAIN Tail(w) = 1 .. Len(w) - 1 /\ Len(w) \in Nat
      /\ \A i \in DOMAIN Tail(w) : i + 1 \in DOMAIN w /\ i + 1 # 1 /\ Tail(w)[i] = w[i + 1]
  BY TailIs
<1>2. \A i, j \in DOMAIN Tail(w) : i + 1 = j + 1 => i = j
  BY <1>1
<1> QED BY <1>1, <1>2 DEF OneAnswer

\* An event that a ready page shows.
LEMMA ShowHolds ==
    ASSUME NEW w, NEW queue, NEW v, NEW a, PageHolds(w, queue, v, a), w # <<>>, Head(w) \in PageEvents,
           NEW h, OneAnswer(w, a, h), h.queue = queue, h.ready
    PROVE  PageHolds(Tail(w), queue, Reduced(v, Head(w)), a)
<1> DEFINE m == Head(w)
           x == Reduced(v, m)
<1>1. /\ PageHolds(Tail(w), queue, v, a) /\ EventHolds(m)
      /\ \A i \in DOMAIN Tail(w) : Later(m, Tail(w)[i])
  BY TailHolds, EventTyped DEF MessageHolds
<1>2. v \in ViewSet /\ ViewHolds(v) /\ Tail(w) \in Seq(Messages) /\ w \in Seq(Messages)
  BY <1>1 DEF PageHolds
<1>3. queue = <<>> /\ a.pc = "none" /\ \A i \in DOMAIN Tail(w) : ~IsAnswer(Tail(w)[i])
  BY <1>2, TailAnswers DEF OneAnswer
<1>4. Applied(v, m, x)
  BY <1>2, ReducedIs
<1> HIDE DEF x, m
<1>5. x \in ViewSet /\ ViewHolds(x)
  BY <1>1, <1>2, <1>4, AppliedHolds DEF Applied, m
<1>6. \A i \in DOMAIN Tail(w) : MessageHolds(x, Tail(w)[i])
  BY <1>1, <1>3 DEF PageHolds, MessageHolds, IsAnswer
<1>7. \A i \in DOMAIN Tail(w) : ShownBefore(x, Tail(w)[i])
  <2>1. \A i \in DOMAIN Tail(w) : Tail(w)[i] \in Messages /\ ShownBefore(v, Tail(w)[i])
    BY <1>1, <1>2 DEF PageHolds, InOrder
  <2> QED BY <1>1, <1>2, <1>4, <2>1, AppliedBefore DEF m
<1>8. InOrder(Tail(w), queue, x)
  BY <1>1, <1>3, <1>7, EmptyIs DEF PageHolds, InOrder
<1> QED BY <1>1, <1>3, <1>5, <1>6, <1>8, EmptyIs DEF PageHolds, x, m

-----------------------------------------------------------------------------
(* The events that are replayed after a join *)

\* The views in between, from the first to the last event.
Replay(v, queue, n, f) ==
    f = [k \in 0 .. n |-> IF k = 0 THEN v ELSE Reduced(f[k - 1], queue[k])]

\* There is such a sequence of views, for any number of events: otherwise take the
\* least number for which there is none.
LEMMA ReplayExists ==
    ASSUME NEW v, NEW queue, NEW n \in Nat
    PROVE  \E f : Replay(v, queue, n, f)
<1> DEFINE S == {k \in Nat : ~\E f : Replay(v, queue, k, f)}
<1>1. SUFFICES ASSUME n \in S PROVE FALSE
  OBVIOUS
<1>2. PICK k \in S : \A y \in S : k <= y
  BY <1>1, LeastIsThere
<1>3. CASE k = 0
  <2>1. Replay(v, queue, 0, [i \in 0 .. 0 |-> v])
    BY DEF Replay
  <2> QED BY <1>2, <1>3, <2>1
<1>4. CASE k # 0
  <2>1. k - 1 \in Nat /\ k \in Nat /\ ~(k <= k - 1)
    BY <1>2, <1>4
  <2>2. PICK f : Replay(v, queue, k - 1, f)
    BY <1>2, <2>1
  <2> DEFINE g == [i \in 0 .. k |-> IF i = k THEN Reduced(f[k - 1], queue[k]) ELSE f[i]]
  <2>3. ASSUME NEW i \in 0 .. k
        PROVE  g[i] = IF i = 0 THEN v ELSE Reduced(g[i - 1], queue[i])
    <3>1. CASE i = k
      <4>1. g[i - 1] = f[k - 1] /\ g[i] = Reduced(f[k - 1], queue[k])
        BY <2>1, <3>1
      <4> QED BY <1>4, <3>1, <4>1
    <3>2. CASE i # k
      <4>1. i \in 0 .. k - 1 /\ g[i] = f[i]
        BY <2>1, <2>3, <3>2
      <4>2. f[i] = IF i = 0 THEN v ELSE Reduced(f[i - 1], queue[i])
        BY <2>2, <4>1 DEF Replay
      <4>3. i # 0 => g[i - 1] = f[i - 1]
        BY <2>1, <2>3, <3>2
      <4> QED BY <4>1, <4>2, <4>3
    <3> QED BY <3>1, <3>2
  <2>4. g = [i \in 0 .. k |-> IF i = 0 THEN v ELSE Reduced(g[i - 1], queue[i])]
    <3>1. g = [i \in 0 .. k |-> g[i]]
      OBVIOUS
    <3> HIDE DEF g
    <3> QED BY <2>3, <3>1
  <2> HIDE DEF g
  <2>5. Replay(v, queue, k, g)
    BY <2>4 DEF Replay
  <2> QED BY <1>2, <2>5
<1> QED BY <1>3, <1>4

\* Replayed is the last of these views.
LEMMA ReplayedIs ==
    ASSUME NEW v, NEW queue, Len(queue) \in Nat
    PROVE  \E f : /\ f[0] = v
                  /\ \A k \in 1 .. Len(queue) : f[k] = Reduced(f[k - 1], queue[k])
                  /\ Replayed(v, queue) = f[Len(queue)]
<1> DEFINE f == CHOOSE g : Replay(v, queue, Len(queue), g)
<1>1. Replay(v, queue, Len(queue), f)
  BY ReplayExists
<1>2. Replayed(v, queue) = f[Len(queue)]
  BY DEF Replayed, Replay
<1> HIDE DEF f
<1>3. f[0] = v /\ \A k \in 1 .. Len(queue) : f[k] = Reduced(f[k - 1], queue[k])
  BY <1>1 DEF Replay
<1> QED BY <1>2, <1>3


\* What the replay keeps: the view is typed and true, leaves no generation for
\* an earlier one, and is not ahead of what follows on the connection.
Reached(b, w, x) ==
    /\ x \in ViewSet /\ ViewHolds(x) /\ AllHeld(b, x)
    /\ \A j \in DOMAIN w : ShownBefore(x, w[j])

\* One event more.
LEMMA ReachedNext ==
    ASSUME OneByOne, NEW b \in ViewSet, ViewHolds(b), NEW w \in Seq(Messages),
           NEW m \in PageEvents, EventHolds(m), ShownBefore(b, m),
           \A j \in DOMAIN w : Later(m, w[j]),
           NEW x, Reached(b, w, x)
    PROVE  Reached(b, w, Reduced(x, m))
<1> DEFINE y == Reduced(x, m)
<1>1. x \in ViewSet /\ ViewHolds(x) /\ AllHeld(b, x) /\ \A j \in DOMAIN w : ShownBefore(x, w[j])
  BY DEF Reached
<1>2. Applied(x, m, y)
  BY <1>1, ReducedIs
<1> HIDE DEF y
<1>3. y \in ViewSet /\ ViewHolds(y)
  BY <1>1, <1>2, AppliedHolds DEF Applied
<1>4. AllHeld(b, y)
  BY <1>1, <1>2, AppliedHeld
<1>5. \A j \in DOMAIN w : w[j] \in Messages
  OBVIOUS
<1>6. \A j \in DOMAIN w : ShownBefore(y, w[j])
  BY <1>1, <1>2, <1>5, AppliedBefore
<1> QED BY <1>3, <1>4, <1>6 DEF Reached, y

\* All of them: otherwise take the first view in between that is not reached.
LEMMA ReplayedReached ==
    ASSUME OneByOne, NEW b \in ViewSet, ViewHolds(b), NEW w \in Seq(Messages),
           NEW queue \in Seq(PageEvents),
           \A i \in DOMAIN queue : EventHolds(queue[i]) /\ ShownBefore(b, queue[i]),
           \A i \in DOMAIN queue, j \in DOMAIN w : Later(queue[i], w[j]),
           NEW v, Reached(b, w, v)
    PROVE  Reached(b, w, Replayed(v, queue))
<1>1. Len(queue) \in Nat /\ DOMAIN queue = 1 .. Len(queue) /\ \A i \in DOMAIN queue : queue[i] \in PageEvents
  OBVIOUS
<1>2. PICK f : /\ f[0] = v
               /\ \A k \in 1 .. Len(queue) : f[k] = Reduced(f[k - 1], queue[k])
               /\ Replayed(v, queue) = f[Len(queue)]
  BY <1>1, ReplayedIs
<1> DEFINE S == {k \in Nat : k <= Len(queue) /\ ~Reached(b, w, f[k])}
<1>3. SUFFICES ASSUME Len(queue) \in S PROVE FALSE
  BY <1>1, <1>2
<1>4. PICK k \in S : \A y \in S : k <= y
  BY <1>3, LeastIsThere
<1>5. k # 0
  BY <1>2, <1>4
<1>6. k \in Nat /\ k <= Len(queue) /\ ~Reached(b, w, f[k])
  BY <1>4
<1>7. k - 1 \in Nat /\ k - 1 <= Len(queue) /\ ~(k <= k - 1) /\ k \in 1 .. Len(queue)
  BY <1>1, <1>5, <1>6
<1>8. Reached(b, w, f[k - 1])
  BY <1>4, <1>7
<1>9. f[k] = Reduced(f[k - 1], queue[k]) /\ k \in DOMAIN queue
  BY <1>1, <1>2, <1>7
<1>10. Reached(b, w, Reduced(f[k - 1], queue[k]))
  BY <1>1, <1>8, <1>9, ReachedNext
<1> QED BY <1>6, <1>9, <1>10

-----------------------------------------------------------------------------
(* The answer that hydrates a page *)

\* The sums of the lengths of the texts, from none to n of the blocks.
Lengths(blocks, n, f) ==
    f = [k \in 0 .. n |-> IF k = 0 THEN 0 ELSE f[k - 1] + Len(blocks[k].text)]

\* There are such sums, for any number of blocks: otherwise take the least number for
\* which there are none.
LEMMA LengthsExist ==
    ASSUME NEW blocks, NEW n \in Nat
    PROVE  \E f : Lengths(blocks, n, f)
<1> DEFINE S == {k \in Nat : ~\E f : Lengths(blocks, k, f)}
<1>1. SUFFICES ASSUME n \in S PROVE FALSE
  OBVIOUS
<1>2. PICK k \in S : \A y \in S : k <= y
  BY <1>1, LeastIsThere
<1>3. CASE k = 0
  <2>1. Lengths(blocks, 0, [i \in 0 .. 0 |-> 0])
    BY DEF Lengths
  <2> QED BY <1>2, <1>3, <2>1
<1>4. CASE k # 0
  <2>1. k - 1 \in Nat /\ k \in Nat /\ ~(k <= k - 1)
    BY <1>2, <1>4
  <2>2. PICK f : Lengths(blocks, k - 1, f)
    BY <1>2, <2>1
  <2> DEFINE g == [i \in 0 .. k |-> IF i = k THEN f[k - 1] + Len(blocks[k].text) ELSE f[i]]
  <2>3. ASSUME NEW i \in 0 .. k
        PROVE  g[i] = IF i = 0 THEN 0 ELSE g[i - 1] + Len(blocks[i].text)
    <3>1. CASE i = k
      <4>1. g[i - 1] = f[k - 1] /\ g[i] = f[k - 1] + Len(blocks[k].text)
        BY <2>1, <3>1
      <4> QED BY <1>4, <3>1, <4>1
    <3>2. CASE i # k
      <4>1. i \in 0 .. k - 1 /\ g[i] = f[i]
        BY <2>1, <2>3, <3>2
      <4>2. f[i] = IF i = 0 THEN 0 ELSE f[i - 1] + Len(blocks[i].text)
        BY <2>2, <4>1 DEF Lengths
      <4>3. i # 0 => g[i - 1] = f[i - 1]
        BY <2>1, <2>3, <3>2
      <4> QED BY <4>1, <4>2, <4>3
    <3> QED BY <3>1, <3>2
  <2>4. g = [i \in 0 .. k |-> IF i = 0 THEN 0 ELSE g[i - 1] + Len(blocks[i].text)]
    <3>1. g = [i \in 0 .. k |-> g[i]]
      OBVIOUS
    <3> HIDE DEF g
    <3> QED BY <2>3, <3>1
  <2> HIDE DEF g
  <2>5. Lengths(blocks, k, g)
    BY <2>4 DEF Lengths
  <2> QED BY <1>2, <2>5
<1> QED BY <1>3, <1>4

\* Text before a block, by its recursion.
LEMMA TextBeforeIs ==
    ASSUME NEW blocks \in Blocks
    PROVE  \E f : /\ f[0] = 0
                  /\ \A k \in 1 .. Len(blocks) : f[k] = f[k - 1] + Len(blocks[k].text)
                  /\ \A i : TextBefore(blocks, i) = f[i - 1]
<1> DEFINE f == CHOOSE g : Lengths(blocks, Len(blocks), g)
<1>0. Len(blocks) \in Nat
  BY DEF Blocks
<1>1. Lengths(blocks, Len(blocks), f)
  BY <1>0, LengthsExist
<1>2. \A i : TextBefore(blocks, i) = f[i - 1]
  BY DEF TextBefore, Lengths
<1> HIDE DEF f
<1>3. f[0] = 0 /\ \A k \in 1 .. Len(blocks) : f[k] = f[k - 1] + Len(blocks[k].text)
  BY <1>0, <1>1 DEF Lengths
<1> QED BY <1>2, <1>3

\* The text before a block has a length.
LEMMA TextBeforeTyped ==
    ASSUME NEW blocks \in Blocks, NEW i \in DOMAIN blocks
    PROVE  TextBefore(blocks, i) \in Nat
<1>1. PICK f : /\ f[0] = 0
               /\ \A k \in 1 .. Len(blocks) : f[k] = f[k - 1] + Len(blocks[k].text)
               /\ \A j : TextBefore(blocks, j) = f[j - 1]
  BY TextBeforeIs
<1>2. Len(blocks) \in Nat /\ i \in 1 .. Len(blocks)
      /\ \A k \in 1 .. Len(blocks) : blocks[k] \in BlockSet
  BY DEF Blocks
<1>3. \A k \in 1 .. Len(blocks) : Len(blocks[k].text) \in Nat
  BY <1>2 DEF BlockSet
<1> DEFINE S == {k \in Nat : k <= Len(blocks) /\ f[k] \notin Nat}
<1>4. SUFFICES ASSUME i - 1 \in S PROVE FALSE
  BY <1>1, <1>2
<1>5. PICK k \in S : \A y \in S : k <= y
  BY <1>4, LeastIsThere
<1>6. k # 0 /\ k \in Nat /\ k <= Len(blocks) /\ f[k] \notin Nat
  BY <1>1, <1>5
<1>7. k - 1 \in Nat /\ k - 1 <= Len(blocks) /\ ~(k <= k - 1) /\ k \in 1 .. Len(blocks)
  BY <1>2, <1>6
<1>8. f[k - 1] \in Nat
  BY <1>5, <1>7
<1>9. f[k] = f[k - 1] + Len(blocks[k].text) /\ Len(blocks[k].text) \in Nat
  BY <1>1, <1>3, <1>7
<1>10. \A x, y \in Nat : x + y \in Nat
  OBVIOUS
<1> QED BY <1>6, <1>8, <1>9, <1>10, Zenon

\* The rest of a text is a text.
LEMMA RestIs ==
    ASSUME NEW s \in Seq(Nat), NEW k \in Nat
    PROVE  SubSeq(s, k + 1, Len(s)) \in Seq(Nat)
  OBVIOUS

\* The blocks of a snapshot, with the text that was not checkpointed, are blocks.
LEMMA ReconciledTyped ==
    ASSUME NEW l \in StreamSet
    PROVE  Reconciled(l) \in Blocks /\ l.blocks \in Blocks /\ Len(l.cached) \in 0 .. MaxUnits
<1>1. l.blocks \in Blocks /\ l.cached \in Seq(Nat) /\ Len(l.cached) \in 0 .. MaxUnits
  BY BoundsAssumption DEF StreamSet
<1>2. ASSUME NEW i \in DOMAIN l.blocks
      PROVE  Reconciled(l)[i] \in BlockSet
  <2>1. l.blocks[i] \in BlockSet
    BY <1>1, <1>2 DEF Blocks
  <2>2. SubSeq(l.cached, TextBefore(l.blocks, i) + 1, Len(l.cached)) \in Seq(Nat)
    BY <1>1, <1>2, TextBeforeTyped, RestIs
  <2>3. [l.blocks[i] EXCEPT !.text = SubSeq(l.cached, TextBefore(l.blocks, i) + 1, Len(l.cached))] \in BlockSet
    BY <2>1, <2>2 DEF BlockSet
  <2> QED BY <1>2, <2>1, <2>3 DEF Reconciled
<1>3. DOMAIN Reconciled(l) = DOMAIN l.blocks
  BY DEF Reconciled
<1>4. Reconciled(l) = [i \in DOMAIN l.blocks |-> Reconciled(l)[i]]
  BY <1>3 DEF Reconciled
<1>5. Reconciled(l) \in Blocks
  <2>1. DOMAIN l.blocks = 1 .. Len(l.blocks) /\ Len(l.blocks) \in Nat
    BY <1>1 DEF Blocks
  <2> QED BY <1>2, <1>4, <2>1 DEF Blocks
<1> QED BY <1>1, <1>5

\* What the hydration makes of the messages.
LEMMA HydratedIs ==
    ASSUME NEW v \in ViewSet, NEW ack \in Acks, EntryHolds(ack.live),
           \A r \in Runs : RunInOrder(r), NEW replace
    PROVE  /\ Hydrated(v, ack, replace) \in ViewSet
           /\ \A n \in Turns : LET x == Hydrated(v, ack, replace).msgs[n] IN
                \/ x.gen = ack.live.gen /\ x.gen # 0 /\ n = ack.live.turn /\ x.status = "RUNNING"
                \/ /\ ack.live = NoStream \/ n # ack.live.turn
                   /\ \/ x = v.msgs[n]
                      \/ x.gen = 0 /\ x.status = "none"
                      \/ /\ x.gen = 0 /\ n \in DOMAIN ack.rows
                         /\ x.status = ack.rows[n].status /\ x.blocks = ack.rows[n].blocks
<1> DEFINE live == ack.live
           rows == [n \in Turns |->
                      IF n \in DOMAIN ack.rows THEN FromRow(ack.rows[n])
                      ELSE IF replace THEN Absent ELSE v.msgs[n]]
           blocks == IF Reconcilable(live) THEN Reconciled(live) ELSE live.blocks
           merged == [rows EXCEPT ![live.turn] =
                        [@ EXCEPT !.status = "RUNNING", !.gen = live.gen,
                                  !.offset = Len(live.cached), !.blocks = blocks]]
           h == Hydrated(v, ack, replace)
<1>1. live \in StreamSet /\ ack.rows \in RowMaps /\ v.msgs \in [Turns -> ShownSet]
  BY DEF Acks, ViewSet
<1>2. Absent \in ShownSet /\ Absent.gen = 0 /\ Absent.status = "none"
  BY ZeroIsThere, StatusesAre DEF ShownSet, Absent
<1>3. ASSUME NEW n \in DOMAIN ack.rows
      PROVE  /\ FromRow(ack.rows[n]) \in ShownSet /\ FromRow(ack.rows[n]).gen = 0
             /\ FromRow(ack.rows[n]).status = ack.rows[n].status
             /\ FromRow(ack.rows[n]).blocks = ack.rows[n].blocks
  <2>1. ack.rows[n].status \in StatusSet /\ ack.rows[n].blocks \in Blocks
    BY <1>1, <1>3, RowsTyped DEF RowSet
  <2> QED BY <1>2, <2>1 DEF FromRow, ShownSet, Absent
<1>4. \A n \in Turns :
        /\ rows[n] \in ShownSet
        /\ \/ rows[n] = v.msgs[n]
           \/ rows[n].gen = 0 /\ rows[n].status = "none"
           \/ /\ rows[n].gen = 0 /\ n \in DOMAIN ack.rows
              /\ rows[n].status = ack.rows[n].status /\ rows[n].blocks = ack.rows[n].blocks
  BY <1>1, <1>2, <1>3
<1>5. blocks \in Blocks /\ Len(live.cached) \in 0 .. MaxUnits /\ live.gen \in Runs \cup {0}
  BY <1>1, ReconciledTyped DEF StreamSet
<1>6. rows \in [Turns -> ShownSet]
  BY <1>4
<1>7. h = [v EXCEPT !.msgs = IF live = NoStream THEN rows ELSE merged,
                    !.resync = live # NoStream /\ ~Reconcilable(live)]
  BY DEF Hydrated
<1> HIDE DEF rows, blocks, h, live
<1>8. CASE live = NoStream
  <2>1. h = [v EXCEPT !.msgs = rows, !.resync = FALSE]
    BY <1>7, <1>8
  <2>2. h \in ViewSet /\ h.msgs = rows
    BY <1>6, <2>1 DEF ViewSet
  <2> QED BY <1>4, <1>8, <2>2 DEF live, h
<1>9. CASE live # NoStream
  <2>1. live.gen # 0 /\ Announced(live.gen, live.turn)
    BY <1>9 DEF EntryHolds, live
  <2>2. live.turn \in Turns
    BY <2>1 DEF Announced, Opened, OpenedRun, RunInOrder, RunHolds
  <2> DEFINE old == rows[live.turn]
             x == [old EXCEPT !.status = "RUNNING", !.gen = live.gen,
                              !.offset = Len(live.cached), !.blocks = blocks]
  <2>3. old \in ShownSet
    BY <1>4, <2>2
  <2>4. x \in ShownSet /\ x.gen = live.gen /\ x.status = "RUNNING"
    <3> HIDE DEF old
    <3> QED BY <1>5, <2>3, StatusesAre DEF ShownSet
  <2>5. merged = [rows EXCEPT ![live.turn] = x]
    BY <1>6, <2>2
  <2> HIDE DEF x, old
  <2>6. /\ merged \in [Turns -> ShownSet]
        /\ \A n \in Turns : merged[n] = IF n = live.turn THEN x ELSE rows[n]
    BY <1>6, <2>2, <2>4, <2>5
  <2> HIDE DEF merged
  <2>7. h = [v EXCEPT !.msgs = merged, !.resync = ~Reconcilable(live)]
    BY <1>7, <1>9
  <2>8. h \in ViewSet /\ h.msgs = merged
    <3>1. (~Reconcilable(live)) \in BOOLEAN
      OBVIOUS
    <3> DEFINE c == ~Reconcilable(live)
    <3> HIDE DEF c
    <3>2. c \in BOOLEAN /\ h = [v EXCEPT !.msgs = merged, !.resync = c]
      BY <2>7, <3>1 DEF c
    <3> QED BY <2>6, <3>2 DEF ViewSet
  <2> QED BY <1>4, <2>1, <2>4, <2>6, <2>8 DEF live, h
<1> QED BY <1>8, <1>9

\* A page that was not ahead of the entry is hydrated without leaving a
\* generation that is not settled.
LEMMA HydratedReached ==
    ASSUME OneByOne, \A r \in Runs : RunInOrder(r),
           NEW v \in ViewSet, ViewHolds(v), NEW w \in Seq(Messages),
           NEW ack \in Acks, RowsHold(ack.rows), EntryHolds(ack.live), NotBehind(v, ack.live),
           \A j \in DOMAIN w : ShownBefore(v, w[j]) /\ Later(ack, w[j]), NEW replace
    PROVE  Reached(v, w, Hydrated(v, ack, replace))
<1> DEFINE h == Hydrated(v, ack, replace)
           l == ack.live
<1>1. /\ h \in ViewSet
      /\ \A n \in Turns :
           \/ h.msgs[n].gen = l.gen /\ h.msgs[n].gen # 0 /\ n = l.turn /\ h.msgs[n].status = "RUNNING"
           \/ /\ l = NoStream \/ n # l.turn
              /\ \/ h.msgs[n] = v.msgs[n]
                 \/ h.msgs[n].gen = 0 /\ h.msgs[n].status = "none"
                 \/ /\ h.msgs[n].gen = 0 /\ n \in DOMAIN ack.rows
                    /\ h.msgs[n].status = ack.rows[n].status /\ h.msgs[n].blocks = ack.rows[n].blocks
  BY HydratedIs
<1>2. l.gen # 0 => Announced(l.gen, l.turn)
  BY DEF EntryHolds
<1>3. l.gen = 0 => l = NoStream
  BY DEF EntryHolds
<1>4. l \in StreamSet /\ l.gen \in Runs \cup {0}
  BY DEF Acks, StreamSet
<1> HIDE DEF h, l
<1>5. ViewHolds(h)
  <2>1. SUFFICES ASSUME NEW n \in Turns
                 PROVE  /\ h.msgs[n].gen # 0 => h.msgs[n].status = "RUNNING" /\ Announced(h.msgs[n].gen, n)
                        /\ Stored(n, h.msgs[n])
    BY DEF ViewHolds
  <2>2. CASE h.msgs[n].gen = l.gen /\ h.msgs[n].gen # 0 /\ n = l.turn /\ h.msgs[n].status = "RUNNING"
    BY <1>2, <2>2 DEF Stored
  <2>3. CASE h.msgs[n] = v.msgs[n]
    BY <2>3 DEF ViewHolds
  <2>4. CASE h.msgs[n].gen = 0 /\ h.msgs[n].status = "none"
    BY <2>4 DEF Stored
  <2>5. CASE /\ h.msgs[n].gen = 0 /\ n \in DOMAIN ack.rows
             /\ h.msgs[n].status = ack.rows[n].status /\ h.msgs[n].blocks = ack.rows[n].blocks
    BY <2>5 DEF Stored, RowsHold
  <2> QED BY <1>1, <2>2, <2>3, <2>4, <2>5
<1>6. AllHeld(v, h)
  <2>1. SUFFICES ASSUME NEW n \in Turns, v.msgs[n].gen # 0, h.msgs[n].gen # v.msgs[n].gen
                 PROVE  /\ ~Unsettled(v.msgs[n].gen)
                        /\ h.msgs[n].gen # 0 => h.msgs[n].gen > v.msgs[n].gen
    BY DEF AllHeld, Held
  <2>2. /\ l.gen # 0 => v.msgs[n].gen <= l.gen
        /\ Unsettled(v.msgs[n].gen) => l.gen = v.msgs[n].gen
    BY <2>1 DEF NotBehind, l
  <2>3. v.msgs[n].gen \in Runs /\ run[v.msgs[n].gen].turn = n
    BY <2>1 DEF ViewHolds, Announced
  <2>4. CASE h.msgs[n].gen = l.gen /\ h.msgs[n].gen # 0
    <3>1. v.msgs[n].gen <= l.gen /\ l.gen # v.msgs[n].gen /\ l.gen \in Runs
      BY <1>4, <2>1, <2>2, <2>4
    <3>2. l.gen > v.msgs[n].gen
      BY <2>3, <3>1 DEF Runs
    <3> QED BY <2>2, <2>4, <3>1, <3>2
  <2>5. CASE h.msgs[n].gen = 0 /\ (l = NoStream \/ n # l.turn)
    <3>1. l.gen # v.msgs[n].gen
      <4>1. CASE l = NoStream
        BY <2>1, <4>1 DEF NoStream
      <4>2. CASE n # l.turn
        BY <1>2, <2>1, <2>3, <4>2 DEF Announced
      <4> QED BY <2>5, <4>1, <4>2
    <3> QED BY <2>2, <2>5, <3>1
  <2> QED BY <1>1, <2>1, <2>4, <2>5
<1>7. \A j \in DOMAIN w : ShownBefore(h, w[j])
  <2>1. SUFFICES ASSUME NEW j \in DOMAIN w, w[j].kind = "start", NEW n \in Turns
                 PROVE  h.msgs[n].gen <= w[j].gen
    BY DEF ShownBefore
  <2>2. w[j] \in Messages
    OBVIOUS
  <2>3. w[j].gen \in Runs
    BY <2>1, <2>2, MessageTyped, EventTyped DEF StartEvents
  <2>4. v.msgs[n].gen <= w[j].gen
    BY <2>1 DEF ShownBefore
  <2>5. l.gen <= w[j].gen
    BY <2>1 DEF Later, Acks, l
  <2>6. 0 <= w[j].gen
    BY <2>3 DEF Runs
  <2> QED BY <1>1, <2>4, <2>5, <2>6
<1> QED BY <1>1, <1>5, <1>6, <1>7 DEF Reached, h

\* The answer is shown, the held events after it, and nothing is held any more.
LEMMA HydrateHolds ==
    ASSUME OneByOne, \A r \in Runs : RunInOrder(r),
           NEW w, NEW queue, NEW v, NEW a, PageHolds(w, queue, v, a), w # <<>>, Head(w).kind = "ack",
           NEW h, OneAnswer(w, a, h), NEW replace
    PROVE  /\ PageHolds(Tail(w), <<>>, Replayed(Hydrated(v, Head(w), replace), queue), a)
           /\ AllHeld(v, Replayed(Hydrated(v, Head(w), replace), queue))
<1> DEFINE m == Head(w)
           x == Hydrated(v, m, replace)
           y == Replayed(x, queue)
           rest == Tail(w)
<1>1. /\ PageHolds(rest, queue, v, a) /\ m \in Messages /\ MessageHolds(v, m)
      /\ \A i \in DOMAIN rest : Later(m, rest[i])
  BY TailHolds
<1>2. m \in Acks /\ RowsHold(m.rows) /\ EntryHolds(m.live) /\ NotBehind(v, m.live)
  BY <1>1, MessageTyped DEF MessageHolds
<1>3. w \in Seq(Messages)
  BY DEF PageHolds
<1>4. a.pc = "none" /\ \A i \in DOMAIN rest : ~IsAnswer(rest[i])
  BY <1>3, TailAnswers DEF IsAnswer
<1> HIDE DEF m, x, y, rest
<1>5. /\ v \in ViewSet /\ ViewHolds(v) /\ rest \in Seq(Messages) /\ queue \in Seq(PageEvents)
      /\ \A i \in DOMAIN queue : EventHolds(queue[i]) /\ ShownBefore(v, queue[i])
      /\ \A i \in DOMAIN queue, j \in DOMAIN rest : Later(queue[i], rest[j])
      /\ \A j \in DOMAIN rest : ShownBefore(v, rest[j])
  BY <1>1 DEF PageHolds, InOrder
<1>6. Reached(v, rest, x)
  BY <1>1, <1>2, <1>5, HydratedReached DEF x
<1>7. Reached(v, rest, y)
  BY <1>5, <1>6, ReplayedReached DEF y
<1>8. y \in ViewSet /\ ViewHolds(y) /\ AllHeld(v, y) /\ \A j \in DOMAIN rest : ShownBefore(y, rest[j])
  BY <1>7 DEF Reached
<1>9. InOrder(rest, <<>>, y)
  BY <1>1, <1>8, EmptyIs DEF PageHolds, InOrder
<1>10. \A i \in DOMAIN rest : MessageHolds(y, rest[i])
  BY <1>1, <1>4 DEF PageHolds, MessageHolds, IsAnswer
<1>11. PageHolds(rest, <<>>, y, a)
  BY <1>1, <1>4, <1>8, <1>9, <1>10, EmptyIs DEF PageHolds
<1> QED BY <1>8, <1>11 DEF m, x, y, rest

-----------------------------------------------------------------------------
(* What is sent to the page *)

\* A message is sent: it holds, and is not overtaken by what is sent or held already.
LEMMA AppendHolds ==
    ASSUME NEW w, NEW queue, NEW v, NEW a, PageHolds(w, queue, v, a),
           NEW m \in Messages, MessageHolds(v, m),
           \A i \in DOMAIN w : Later(w[i], m), \A i \in DOMAIN queue : Later(queue[i], m),
           ShownBefore(v, m)
    PROVE  PageHolds(Append(w, m), queue, v, a)
<1> DEFINE x == Append(w, m)
<1>1. w \in Seq(Messages) /\ InOrder(w, queue, v) /\ \A i \in DOMAIN w : MessageHolds(v, w[i])
  BY DEF PageHolds
<1>2. /\ x \in Seq(Messages) /\ Len(w) \in Nat /\ DOMAIN w = 1 .. Len(w)
      /\ DOMAIN x = 1 .. Len(w) + 1 /\ \A i \in DOMAIN w : x[i] = w[i]
      /\ x[Len(w) + 1] = m
  BY <1>1, AppendIs
<1> HIDE DEF x
<1>3. \A i \in DOMAIN x : i \in DOMAIN w \/ x[i] = m
  BY <1>2
<1>4. \A i \in DOMAIN x : MessageHolds(v, x[i])
  BY <1>1, <1>2, <1>3
<1>5. ASSUME NEW i \in DOMAIN x, NEW j \in DOMAIN x, i < j
      PROVE  Later(x[i], x[j])
  <2>1. i \in DOMAIN w
    BY <1>2, <1>5
  <2>2. CASE j \in DOMAIN w
    BY <1>1, <1>2, <1>5, <2>1, <2>2 DEF InOrder
  <2>3. CASE x[j] = m
    BY <1>2, <2>1, <2>3
  <2> QED BY <1>3, <2>2, <2>3
<1>6. InOrder(x, queue, v)
  BY <1>1, <1>2, <1>3, <1>5 DEF InOrder
<1> QED BY <1>2, <1>4, <1>6 DEF PageHolds, x

\* An event of the execution under way: none of a later one was announced.
LEMMA EventAppended ==
    ASSUME NEW w, NEW queue, NEW v, NEW a, PageHolds(w, queue, v, a),
           NEW m \in PageEvents, EventHolds(m),
           m.kind = "start" => \A g \in Runs : \A n : Announced(g, n) => g <= m.gen
    PROVE  PageHolds(Append(w, m), queue, v, a)
<1>1. m.kind = "start" => \A g \in Runs : \A n : Announced(g, n) => g <= m.gen
  OBVIOUS
<1>2. m \in Messages /\ MessageHolds(v, m)
  BY EventTyped DEF MessageHolds, Messages
<1>3. m.kind = "start" => m.gen \in Nat /\ 0 <= m.gen
  BY EventTyped DEF StartEvents, Runs
<1>4. ASSUME NEW i \in DOMAIN w, m.kind = "start"
      PROVE  Later(w[i], m)
  <2>1. w[i] \in Messages /\ MessageHolds(v, w[i])
    BY <1>4 DEF PageHolds
  <2>2. w[i].kind = "start" => w[i].gen <= m.gen
    BY <1>1, <1>4, <2>1 DEF MessageHolds, EventHolds, Announced
  <2>3. w[i].kind = "ack" => w[i].live.gen <= m.gen
    BY <1>1, <1>3, <1>4, <2>1 DEF MessageHolds, EntryHolds, Announced
  <2> QED BY <2>2, <2>3 DEF Later
<1>5. ASSUME NEW i \in DOMAIN queue, m.kind = "start"
      PROVE  Later(queue[i], m)
  <2>1. queue[i] \in PageEvents /\ EventHolds(queue[i])
    BY <1>5 DEF PageHolds
  <2>2. queue[i].kind = "start" => queue[i].gen <= m.gen
    BY <1>1, <1>5, <2>1 DEF EventHolds, Announced
  <2>3. queue[i].kind # "ack"
    BY <2>1, EventTyped
  <2> QED BY <2>2, <2>3 DEF Later
<1>6. ASSUME NEW n \in Turns, m.kind = "start"
      PROVE  v.msgs[n].gen <= m.gen
  BY <1>1, <1>3, <1>6 DEF PageHolds, ViewHolds, Announced
<1>7. ShownBefore(v, m)
  BY <1>6 DEF ShownBefore
<1>8. m.kind # "start" => (\A i \in DOMAIN w : Later(w[i], m)) /\ \A i \in DOMAIN queue : Later(queue[i], m)
  BY DEF Later
<1> QED BY <1>2, <1>4, <1>5, <1>7, <1>8, AppendHolds

\* An answer waits for nothing that was sent before it.
LEMMA AnswerAppended ==
    ASSUME NEW w, NEW queue, NEW v, NEW a, PageHolds(w, queue, v, a),
           NEW m \in Answers, MessageHolds(v, m)
    PROVE  PageHolds(Append(w, m), queue, v, a)
<1>1. m \in Messages /\ m.kind # "start"
  BY DEF Messages, Answers, Acks
<1> QED BY <1>1, AppendHolds DEF Later, ShownBefore

\* The handler of task:join goes on.
LEMMA AskReplaced ==
    ASSUME NEW w, NEW queue, NEW v, NEW a, PageHolds(w, queue, v, a),
           NEW b \in AskSet, RowsHold(b.rows), EntryHolds(b.live), b.pc = "snapped" => NotBehind(v, b.live)
    PROVE  PageHolds(w, queue, v, b)
  BY Zenon DEF PageHolds

\* The page drops what it held.
LEMMA QueueDropped ==
    ASSUME NEW w, NEW queue, NEW v, NEW a, PageHolds(w, queue, v, a)
    PROVE  PageHolds(w, <<>>, v, a)
  BY EmptyIs, Zenon DEF PageHolds, InOrder

\* The connection breaks: what was under way and held is lost.
LEMMA AllDropped ==
    ASSUME NEW w, NEW queue, NEW v, NEW a, PageHolds(w, queue, v, a)
    PROVE  PageHolds(<<>>, <<>>, v, a)
  BY EmptyIs, Zenon DEF PageHolds, InOrder

\* A page that is joining holds an event instead of showing it.
LEMMA EventQueued ==
    ASSUME NEW w, NEW queue, NEW v, NEW a, PageHolds(w, queue, v, a), w # <<>>, Head(w) \in PageEvents
    PROVE  PageHolds(Tail(w), Append(queue, Head(w)), v, a)
<1> DEFINE m == Head(w)
           x == Append(queue, m)
<1>1. /\ PageHolds(Tail(w), queue, v, a) /\ MessageHolds(v, m) /\ ShownBefore(v, m)
      /\ \A i \in DOMAIN Tail(w) : Later(m, Tail(w)[i])
  BY TailHolds
<1>2. EventHolds(m)
  BY <1>1, EventTyped DEF MessageHolds
<1>3. queue \in Seq(PageEvents) /\ \A i \in DOMAIN queue : EventHolds(queue[i])
  BY <1>1 DEF PageHolds
<1>4. /\ x \in Seq(PageEvents) /\ \A i \in DOMAIN queue : x[i] = queue[i]
      /\ \A i \in DOMAIN x : i \in DOMAIN queue \/ x[i] = m
  <2>1. /\ x \in Seq(PageEvents) /\ Len(queue) \in Nat /\ DOMAIN queue = 1 .. Len(queue)
        /\ DOMAIN x = 1 .. Len(queue) + 1 /\ \A i \in DOMAIN queue : x[i] = queue[i]
        /\ x[Len(queue) + 1] = m
    BY <1>3, AppendIs
  <2> HIDE DEF x
  <2> QED BY <2>1
<1> HIDE DEF x, m
<1>5. InOrder(Tail(w), x, v)
  BY <1>1, <1>4, Zenon DEF PageHolds, InOrder
<1>6. \A i \in DOMAIN x : EventHolds(x[i])
  BY <1>2, <1>3, <1>4, Zenon
<1>7. PageHolds(Tail(w), x, v, a)
  BY <1>1, <1>4, <1>5, <1>6, Zenon DEF PageHolds
<1> QED BY <1>7 DEF x, m

\* No join is being answered.
LEMMA NoAskTyped ==
    /\ NoAsk \in AskSet /\ NoStream \in StreamSet /\ <<>> \in RowMaps
    /\ RowsHold(NoAsk.rows) /\ EntryHolds(NoAsk.live) /\ NoAsk.pc = "none"
<1>1. NoStream \in StreamSet
  BY EmptyIs, ZeroIsThere, BoundsAssumption DEF NoStream, StreamSet
<1>2. <<>> \in RowMaps
  <2>1. <<>> = [n \in {} |-> 0]
    OBVIOUS
  <2>2. [n \in {} |-> 0] \in [{} -> RowSet]
    OBVIOUS
  <2>3. {} \in SUBSET Turns
    OBVIOUS
  <2> QED BY <2>1, <2>2, <2>3 DEF RowMaps
<1>3. NoAsk \in AskSet
  BY <1>1, <1>2 DEF NoAsk, AskSet
<1> QED BY <1>1, <1>2, <1>3, EmptyIs DEF NoAsk, RowsHold, EntryHolds, NoStream

-----------------------------------------------------------------------------
(* One answer at a time *)

\* An event is sent, or the answer of the join under way.
LEMMA AnswersOfAppend ==
    ASSUME NEW w \in Seq(Messages), NEW m \in Messages, NEW a, NEW h, OneAnswer(w, a, h)
    PROVE  /\ ~IsAnswer(m) => OneAnswer(Append(w, m), a, h)
           /\ a.pc # "none" => OneAnswer(Append(w, m), NoAsk, h)
<1> DEFINE x == Append(w, m)
<1>1. /\ Len(w) \in Nat /\ DOMAIN w = 1 .. Len(w)
      /\ DOMAIN x = 1 .. Len(w) + 1 /\ \A i \in DOMAIN w : x[i] = w[i]
      /\ x[Len(w) + 1] = m
  BY AppendIs
<1> HIDE DEF x
<1>2. \A i \in DOMAIN x : i \in DOMAIN w \/ (i = Len(w) + 1 /\ x[i] = m)
  BY <1>1
<1>3. ~IsAnswer(m) => OneAnswer(x, a, h)
  <2>1. SUFFICES ASSUME ~IsAnswer(m) PROVE OneAnswer(x, a, h)
    OBVIOUS
  <2>2. \A i \in DOMAIN x : IsAnswer(x[i]) => i \in DOMAIN w /\ IsAnswer(w[i])
    BY <1>1, <1>2, <2>1
  <2> QED BY <2>2, Zenon DEF OneAnswer
<1>4. a.pc # "none" => OneAnswer(x, NoAsk, h)
  <2>1. SUFFICES ASSUME a.pc # "none" PROVE OneAnswer(x, NoAsk, h)
    OBVIOUS
  <2>2. h.joining /\ \A i \in DOMAIN w : ~IsAnswer(w[i])
    BY <2>1 DEF OneAnswer
  <2>3. \A i \in DOMAIN x : IsAnswer(x[i]) => i = Len(w) + 1
    BY <1>1, <1>2, <2>2
  <2>4. NoAsk.pc = "none"
    BY DEF NoAsk
  <2> QED BY <2>2, <2>3, <2>4, Zenon DEF OneAnswer
<1> QED BY <1>3, <1>4 DEF x

\* The join under way goes on.
LEMMA AnswerWaits ==
    ASSUME NEW w, NEW a, NEW b, NEW h, OneAnswer(w, a, h), a.pc # "none"
    PROVE  OneAnswer(w, b, h)
  BY Zenon DEF OneAnswer

\* A connection that is new or broken.
LEMMA NothingWaits ==
    ASSUME NEW h \in HookSet, h.ready => ~h.joining, h.joining => h.up, ~h.joining => h.queue = <<>>
    PROVE  OneAnswer(<<>>, NoAsk, h)
  BY EmptyIs DEF OneAnswer, NoAsk

-----------------------------------------------------------------------------
(* The steps of the page *)

\* A set of numbers up to n that is not empty has a greatest element.
LEMMA GreatestIsThere ==
    ASSUME NEW n \in Nat, NEW S \in SUBSET (1 .. n), S # {}
    PROVE  Max(S) \in S
<1> DEFINE T == {k \in Nat : n - k \in S}
<1>1. PICK z \in S : TRUE
  OBVIOUS
<1>2. n - z \in Nat /\ n - (n - z) = z
  BY <1>1
<1>3. T # {} /\ T \in SUBSET Nat
  BY <1>1, <1>2
<1>4. PICK k \in T : \A y \in T : k <= y
  BY <1>3, LeastIsThere
<1>5. \A x \in S : x \in Nat /\ n - x \in T
  <2>1. \A x \in 1 .. n : n - x \in Nat /\ n - (n - x) = x
    OBVIOUS
  <2> QED BY <2>1
<1>6. \A x \in S : n - k >= x
  <2>1. \A x \in S : k <= n - x /\ x \in Nat
    BY <1>4, <1>5
  <2>2. k \in Nat
    BY <1>4
  <2> QED BY <2>1, <2>2
<1>7. n - k \in S
  BY <1>4
<1> QED BY <1>6, <1>7 DEF Max

\* The cursor that a join sends is a number.
LEMMA CursorTyped == \A v : Cursor(v) \in Nat
<1>1. SUFFICES ASSUME NEW v PROVE Cursor(v) \in Nat
  OBVIOUS
<1> DEFINE known == {n \in Turns : v.msgs[n].known}
           stable == {n \in known : \A k \in known \cap Mutable(v) : n < k}
<1>2. stable \in SUBSET (1 .. MaxTurns) /\ MaxTurns \in Nat
  BY BoundsAssumption DEF Turns
<1>3. Cursor(v) = IF stable = {} THEN 0 ELSE Max(stable)
  BY DEF Cursor
<1> HIDE DEF stable
<1>4. CASE stable = {}
  BY <1>3, <1>4
<1>5. CASE stable # {}
  <2>1. Max(stable) \in stable
    BY <1>2, <1>5, GreatestIsThere, Zenon
  <2>2. \A x \in 1 .. MaxTurns : x \in Nat
    BY <1>2
  <2> QED BY <1>2, <1>3, <1>5, <2>1, <2>2, Zenon
<1> QED BY <1>4, <1>5

\* joinAndHydrate drops what was held and waits for its answer.
LEMMA RequestHolds ==
    ASSUME NEW h \in HookSet, NEW after \in Nat, NEW replace \in BOOLEAN, Request(h, after, replace),
           h.up, NEW w, NEW a, NEW b, OneAnswer(w, a, b), ~b.joining,
           NEW queue, NEW v, PageHolds(w, queue, v, a)
    PROVE  hook' \in HookSet /\ OneAnswer(w, ask', hook') /\ PageHolds(w, hook'.queue, v, ask')
<1>1. /\ hook' \in HookSet /\ hook'.joining /\ ~hook'.ready /\ hook'.queue = <<>> /\ hook'.up
  BY EmptyIs DEF Request, HookSet
<1>2. /\ ask' \in AskSet /\ ask'.pc = "asked" /\ ask'.rows = NoAsk.rows /\ ask'.live = NoAsk.live
  BY NoAskTyped DEF Request, AskSet
<1>3. \A i \in DOMAIN w : ~IsAnswer(w[i])
  BY DEF OneAnswer
<1>4. OneAnswer(w, ask', hook')
  BY <1>1, <1>2, <1>3 DEF OneAnswer
<1>5. PageHolds(w, <<>>, v, a)
  BY QueueDropped
<1>6. PageHolds(w, <<>>, v, ask')
  <2>1. PICK c : c = ask'
    OBVIOUS
  <2>2. PageHolds(w, <<>>, v, c)
    BY <1>2, <1>5, <2>1, NoAskTyped, AskReplaced
  <2> QED BY <2>1, <2>2
<1> QED BY <1>1, <1>4, <1>6

\* The next connection, page and answer, when the server has moved or not.
LEMMA PageFollows ==
    ASSUME Grows, NEW w, NEW queue, NEW v, NEW a, PageHolds(w, queue, v, a),
           w = wire', queue = hook'.queue, v = view', a = ask'
    PROVE  PageHolds(wire, hook.queue, view, ask)'
<1>1. PageHolds(w, queue, v, a)'
  BY PageStillHolds
<1> QED BY <1>1

\* A server that stays grows.
LEMMA ServerStays ==
    ASSUME ServerInv, UNCHANGED server
    PROVE  Grows /\ ServerInv'
<1>1. durable' = durable /\ status' = status /\ run' = run /\ stream' = stream
  BY DEF server
<1>2. \A r \in Runs : Unsettled(r)' = Unsettled(r) /\ Opened(r)' = Opened(r)
  BY <1>1 DEF Unsettled, Opened
<1>3. Grows
  BY <1>1, <1>2 DEF Grows
<1>4. ServerTypes' /\ OneByOne' /\ RunEventsHold' /\ EntryHolds(stream)'
  BY <1>1, <1>2 DEF ServerInv, ServerTypes, OneByOne, RunEventsHold, EntryHolds, EventHolds, Announced,
                    Settled, Stored, Opened, Unsettled
<1>5. ASSUME NEW r \in Runs
      PROVE  RunInOrder(r)' /\ StreamInOrder(r)'
  BY <1>1, <1>2 DEF ServerInv, RunInOrder, StreamInOrder, Generating
<1> QED BY <1>3, <1>4, <1>5 DEF ServerInv

\* A step of the page or of its handler: the server stays.
LEMMA PageKeeps ==
    ASSUME ServerInv, UNCHANGED server, room' \in BOOLEAN, shown' \in BOOLEAN, hook' \in HookSet,
           PageHolds(wire', hook'.queue, view', ask'), OneAnswer(wire', ask', hook')
    PROVE  ServerInv' /\ PageInv'
<1>1. Grows /\ ServerInv'
  BY ServerStays
<1>2. PageHolds(wire, hook.queue, view, ask)'
  BY <1>1, PageFollows
<1>3. OneAnswer(wire, ask, hook)'
  OBVIOUS
<1> QED BY <1>1, <1>2, <1>3 DEF PageInv

\* What the invariant says, part by part.
LEMMA PageIs ==
    ASSUME StreamInv
    PROVE  /\ ServerInv /\ room \in BOOLEAN /\ shown \in BOOLEAN /\ hook \in HookSet
           /\ PageHolds(wire, hook.queue, view, ask) /\ OneAnswer(wire, ask, hook)
           /\ wire \in Seq(Messages) /\ ask \in AskSet /\ view \in ViewSet /\ ViewHolds(view)
           /\ OneByOne /\ \A r \in Runs : RunInOrder(r)
  BY DEF StreamInv, PageInv, PageHolds, ServerInv

\* Each action of the page and of its handler keeps the invariant. The socket connects
\* and the page joins.
LEMMA ConnectKeeps ==
    ASSUME StreamInv, Connect
    PROVE  ServerInv' /\ PageInv'
<1>1. /\ ~hook.up /\ Request([hook EXCEPT !.up = TRUE], Cursor(view), ~hook.hydrated)
      /\ room' = room /\ shown' = shown /\ wire' = wire /\ view' = view /\ UNCHANGED server
  BY DEF Connect
<1> DEFINE h == [hook EXCEPT !.up = TRUE]
<1>2. h \in HookSet /\ h.up /\ (~hook.hydrated) \in BOOLEAN /\ Cursor(view) \in Nat
  BY PageIs, CursorTyped DEF HookSet
<1>3. ~hook.joining
  BY <1>1, PageIs DEF OneAnswer
<1> HIDE DEF h
<1>4. hook' \in HookSet /\ OneAnswer(wire, ask', hook') /\ PageHolds(wire, hook'.queue, view, ask')
  <2>1. Request(h, Cursor(view), ~hook.hydrated)
    BY <1>1 DEF h
  <2> QED BY <1>2, <1>3, <2>1, PageIs, RequestHolds
<1> QED BY <1>1, <1>4, PageIs, PageKeeps

\* The socket is lost.
LEMMA DisconnectKeeps ==
    ASSUME StreamInv, Disconnect
    PROVE  ServerInv' /\ PageInv'
<1>1. /\ hook' = Cut(hook) /\ room' = FALSE /\ ask' = NoAsk /\ wire' = <<>>
      /\ UNCHANGED server /\ view' = view /\ shown' = shown
  BY DEF Disconnect
<1>2. hook' \in HookSet /\ ~hook'.joining /\ hook'.queue = <<>>
  BY <1>1, PageIs, EmptyIs DEF HookSet, Cut
<1>3. PageHolds(<<>>, <<>>, view, NoAsk)
  BY PageIs, AllDropped, NoAskTyped, AskReplaced
<1>4. OneAnswer(<<>>, NoAsk, hook')
  BY <1>2, NothingWaits
<1> QED BY <1>1, <1>2, <1>3, <1>4, PageIs, PageKeeps

\* What is shown is not ahead of the entry of the store.
LEMMA StreamIsNotBehind ==
    ASSUME ServerInv, NEW v, ViewHolds(v)
    PROVE  NotBehind(v, stream)
<1>1. SUFFICES ASSUME NEW n \in Turns, v.msgs[n].gen # 0
               PROVE  /\ stream.gen # 0 => v.msgs[n].gen <= stream.gen
                      /\ Unsettled(v.msgs[n].gen) => stream.gen = v.msgs[n].gen
  BY DEF NotBehind
<1>2. Announced(v.msgs[n].gen, n)
  BY <1>1 DEF ViewHolds
<1>3. StreamInOrder(v.msgs[n].gen)
  BY <1>2 DEF ServerInv, Announced
<1> QED BY <1>2, <1>3 DEF Announced, StreamInOrder, Generating, EntryFollows

\* The handler enters the room of the Task.
LEMMA JoinRoomKeeps ==
    ASSUME StreamInv, JoinRoom
    PROVE  ServerInv' /\ PageInv'
<1>1. /\ ask.pc = "asked" /\ room' = TRUE /\ ask' = [ask EXCEPT !.pc = "entered"]
      /\ UNCHANGED server /\ wire' = wire /\ hook' = hook /\ view' = view /\ shown' = shown
  BY DEF JoinRoom, page
<1>2. ask' \in AskSet /\ ask'.rows = ask.rows /\ ask'.live = ask.live /\ ask'.pc = "entered"
  BY <1>1, PageIs DEF AskSet
<1>3. RowsHold(ask.rows) /\ EntryHolds(ask.live)
  BY PageIs DEF PageHolds
<1>4. PageHolds(wire, hook.queue, view, ask')
  BY <1>2, <1>3, PageIs, AskReplaced
<1>5. OneAnswer(wire, ask', hook)
  BY <1>1, PageIs, AnswerWaits
<1> QED BY <1>1, <1>4, <1>5, PageIs, PageKeeps

\* It reads the rows, which hold what is stored.
LEMMA JoinReadKeeps ==
    ASSUME StreamInv, JoinRead
    PROVE  ServerInv' /\ PageInv'
<1> DEFINE rows == RowsAfter(ask.after)
<1>1. /\ ask.pc = "entered" /\ room' = room /\ ask' = [ask EXCEPT !.rows = rows, !.pc = "read"]
      /\ UNCHANGED server /\ wire' = wire /\ hook' = hook /\ view' = view /\ shown' = shown
  BY DEF JoinRead, page
<1>2. rows \in RowMaps /\ RowsHold(rows)
  <2>1. durable \in [Turns -> RowSet]
    BY PageIs DEF ServerInv, ServerTypes
  <2> DEFINE ns == {k \in Turns : k > ask.after /\ Exists(k)}
  <2>2. rows = [n \in ns |-> durable[n]] /\ ns \in SUBSET Turns
    BY DEF RowsAfter
  <2> HIDE DEF ns, rows
  <2>3. rows \in [ns -> RowSet]
    BY <2>1, <2>2
  <2>4. rows \in RowMaps
    BY <2>2, <2>3 DEF RowMaps
  <2>5. ASSUME NEW n \in DOMAIN rows
        PROVE  Stored(n, rows[n])
    <3>1. n \in Turns /\ rows[n] = durable[n]
      BY <2>2, <2>5
    <3>2. durable[n] = [status |-> durable[n].status, blocks |-> durable[n].blocks]
      BY <2>1, <3>1 DEF RowSet
    <3> QED BY <3>1, <3>2 DEF Stored
  <2> QED BY <2>4, <2>5 DEF RowsHold
<1> HIDE DEF rows
<1>3. ask' \in AskSet /\ ask'.rows = rows /\ ask'.live = ask.live /\ ask'.pc = "read"
  BY <1>1, <1>2, PageIs DEF AskSet
<1>4. EntryHolds(ask.live)
  BY PageIs DEF PageHolds
<1>5. PageHolds(wire, hook.queue, view, ask')
  BY <1>2, <1>3, <1>4, PageIs, AskReplaced
<1>6. OneAnswer(wire, ask', hook)
  BY <1>1, PageIs, AnswerWaits
<1> QED BY <1>1, <1>5, <1>6, PageIs, PageKeeps

\* It takes the snapshot of the store, which is not behind what the page shows.
LEMMA JoinSnapshotKeeps ==
    ASSUME StreamInv, JoinSnapshot
    PROVE  ServerInv' /\ PageInv'
<1>1. /\ ask.pc = "read" /\ room' = room /\ ask' = [ask EXCEPT !.live = stream, !.pc = "snapped"]
      /\ UNCHANGED server /\ wire' = wire /\ hook' = hook /\ view' = view /\ shown' = shown
  BY DEF JoinSnapshot, page
<1>2. stream \in StreamSet /\ EntryHolds(stream) /\ NotBehind(view, stream)
  BY PageIs, StreamIsNotBehind DEF ServerInv, ServerTypes
<1>3. ask' \in AskSet /\ ask'.rows = ask.rows /\ ask'.live = stream
  BY <1>1, <1>2, PageIs DEF AskSet
<1>4. RowsHold(ask.rows)
  BY PageIs DEF PageHolds
<1>5. PageHolds(wire, hook.queue, view, ask')
  BY <1>2, <1>3, <1>4, PageIs, AskReplaced
<1>6. OneAnswer(wire, ask', hook)
  BY <1>1, PageIs, AnswerWaits
<1> QED BY <1>1, <1>5, <1>6, PageIs, PageKeeps

\* It answers with both.
LEMMA JoinAckKeeps ==
    ASSUME StreamInv, JoinAck
    PROVE  ServerInv' /\ PageInv'
<1> DEFINE m == [kind |-> "ack", rows |-> ask.rows, live |-> ask.live]
<1>1. /\ ask.pc = "snapped" /\ room' = room /\ ask' = NoAsk /\ wire' = Append(wire, m)
      /\ UNCHANGED server /\ hook' = hook /\ view' = view /\ shown' = shown
  BY DEF JoinAck, page
<1>2. m \in Answers /\ m \in Messages
  BY PageIs DEF Answers, Acks, AskSet, Messages
<1>3. MessageHolds(view, m)
  BY <1>1, PageIs DEF PageHolds, MessageHolds
<1> HIDE DEF m
<1>4. PageHolds(Append(wire, m), hook.queue, view, NoAsk)
  BY <1>2, <1>3, PageIs, AnswerAppended, NoAskTyped, AskReplaced
<1>5. OneAnswer(Append(wire, m), NoAsk, hook)
  BY <1>1, <1>2, PageIs, AnswersOfAppend
<1> QED BY <1>1, <1>4, <1>5, PageIs, PageKeeps

\* It refuses.
LEMMA JoinFailsKeeps ==
    ASSUME StreamInv, JoinFails
    PROVE  ServerInv' /\ PageInv'
<1> DEFINE m == [kind |-> "refused"]
<1>1. /\ ask.pc # "none" /\ room' = FALSE /\ ask' = NoAsk /\ wire' = Append(wire, m)
      /\ UNCHANGED server /\ hook' = hook /\ view' = view /\ shown' = shown
  BY DEF JoinFails, page
<1>2. m \in Answers /\ m \in Messages
  BY DEF Answers, Messages
<1>3. MessageHolds(view, m)
  BY DEF MessageHolds, EventHolds
<1> HIDE DEF m
<1>4. PageHolds(Append(wire, m), hook.queue, view, NoAsk)
  BY <1>2, <1>3, PageIs, AnswerAppended, NoAskTyped, AskReplaced
<1>5. OneAnswer(Append(wire, m), NoAsk, hook)
  BY <1>1, <1>2, PageIs, AnswersOfAppend
<1> QED BY <1>1, <1>4, <1>5, PageIs, PageKeeps

\* The kinds of what is at the head of the connection.
LEMMA ReceivedIs ==
    ASSUME StreamInv, NEW kinds, Received(kinds)
    PROVE  /\ wire # <<>> /\ Head(wire).kind \in kinds /\ wire' = Tail(wire) /\ Head(wire) \in Messages
           /\ kinds = Events => Head(wire) \in PageEvents
<1>1. wire # <<>> /\ Head(wire).kind \in kinds /\ wire' = Tail(wire)
  BY DEF Received
<1>2. Head(wire) \in Messages
  BY <1>1, PageIs, TailIs
<1>3. kinds = Events => Head(wire).kind \notin {"ack", "refused"}
  BY <1>1 DEF Events
<1> QED BY <1>1, <1>2, <1>3, MessageTyped

\* A ready page shows an event: a generation is replaced by a later one only when settled.
LEMMA ShowKeeps ==
    ASSUME StreamInv, Show
    PROVE  /\ ServerInv' /\ PageInv'
           /\ AllHeld(view, view')
<1> DEFINE m == Head(wire)
<1>1. /\ wire # <<>> /\ m \in PageEvents /\ wire' = Tail(wire) /\ hook.ready
      /\ view' = Reduced(view, m)
      /\ UNCHANGED server /\ room' = room /\ ask' = ask /\ hook' = hook /\ shown' = shown
  BY ReceivedIs DEF Show
<1>2. PageHolds(Tail(wire), hook.queue, Reduced(view, m), ask)
  BY <1>1, PageIs, ShowHolds
<1>3. OneAnswer(Tail(wire), ask, hook)
  BY <1>1, PageIs, TailAnswers
<1>4. AllHeld(view, Reduced(view, m))
  <2>1. EventHolds(m) /\ ShownBefore(view, m)
    BY <1>1, PageIs, TailHolds, EventTyped DEF MessageHolds
  <2>2. AllHeld(view, view)
    BY DEF AllHeld, Held
  <2>3. Applied(view, m, Reduced(view, m))
    BY <1>1, PageIs, ReducedIs
  <2> QED BY <1>1, <2>1, <2>2, <2>3, PageIs, AppliedHeld
<1> QED BY <1>1, <1>2, <1>3, <1>4, PageIs, PageKeeps

\* A joining page holds an event.
LEMMA HoldKeeps ==
    ASSUME StreamInv, Hold
    PROVE  ServerInv' /\ PageInv'
<1> DEFINE m == Head(wire)
<1>1. /\ wire # <<>> /\ m \in PageEvents /\ wire' = Tail(wire) /\ ~hook.ready
      /\ hook' = IF hook.joining THEN [hook EXCEPT !.queue = Append(@, m)] ELSE hook
      /\ UNCHANGED server /\ room' = room /\ ask' = ask /\ view' = view /\ shown' = shown
  BY ReceivedIs DEF Hold
<1>2. PageHolds(Tail(wire), hook.queue, view, ask)
  BY <1>1, PageIs, TailHolds
<1>3. OneAnswer(Tail(wire), ask, hook)
  BY <1>1, PageIs, TailAnswers
<1>4. CASE ~hook.joining
  BY <1>1, <1>2, <1>3, <1>4, PageIs, PageKeeps
<1>5. CASE hook.joining
  <2>1. PageHolds(Tail(wire), Append(hook.queue, m), view, ask)
    BY <1>1, PageIs, EventQueued
  <2>2. Append(hook.queue, m) \in Seq(PageEvents)
    BY <2>1 DEF PageHolds
  <2> HIDE DEF m
  <2>3. /\ hook' \in HookSet /\ hook'.queue = Append(hook.queue, m) /\ hook'.joining = hook.joining
        /\ hook'.ready = hook.ready /\ hook'.up = hook.up
    BY <1>1, <1>5, <2>2, PageIs DEF HookSet
  <2>4. OneAnswer(Tail(wire), ask, hook')
    BY <1>3, <1>5, <2>3, Zenon DEF OneAnswer
  <2> QED BY <1>1, <2>1, <2>3, <2>4, PageIs, PageKeeps
<1> QED BY <1>4, <1>5

\* The answer comes: the page shows it and replays what it held.
LEMMA HydrateKeeps ==
    ASSUME StreamInv, Hydrate
    PROVE  /\ ServerInv' /\ PageInv'
           /\ AllHeld(view, view')
<1> DEFINE m == Head(wire)
           x == Replayed(Hydrated(view, m, hook.replace), hook.queue)
<1>1. /\ wire # <<>> /\ m \in Messages /\ m.kind = "ack" /\ wire' = Tail(wire) /\ hook.joining
      /\ view' = x
      /\ hook' = [hook EXCEPT !.joining = FALSE, !.ready = TRUE, !.hydrated = TRUE, !.replace = FALSE,
                              !.queue = <<>>]
      /\ UNCHANGED server /\ room' = room /\ ask' = ask /\ shown' = shown
  BY ReceivedIs DEF Hydrate
<1>2. PageHolds(Tail(wire), <<>>, x, ask) /\ AllHeld(view, x)
  BY <1>1, PageIs, HydrateHolds
<1>3. ask.pc = "none" /\ \A i \in DOMAIN Tail(wire) : ~IsAnswer(Tail(wire)[i])
  BY <1>1, PageIs, TailAnswers DEF IsAnswer
<1> HIDE DEF m, x
<1>4. hook' \in HookSet /\ ~hook'.joining /\ hook'.queue = <<>>
  BY <1>1, PageIs, EmptyIs DEF HookSet
<1>5. OneAnswer(Tail(wire), ask, hook')
  BY <1>3, <1>4, Zenon DEF OneAnswer
<1> QED BY <1>1, <1>2, <1>4, <1>5, PageIs, PageKeeps

\* The refusal comes.
LEMMA RefusedKeeps ==
    ASSUME StreamInv, Refused
    PROVE  ServerInv' /\ PageInv'
<1> DEFINE m == Head(wire)
<1>1. /\ wire # <<>> /\ m \in Messages /\ m.kind = "refused" /\ wire' = Tail(wire) /\ hook.joining
      /\ hook' = [hook EXCEPT !.joining = FALSE, !.queue = <<>>]
      /\ UNCHANGED server /\ room' = room /\ ask' = ask /\ view' = view /\ shown' = shown
  BY ReceivedIs DEF Refused
<1>2. PageHolds(Tail(wire), <<>>, view, ask)
  BY <1>1, PageIs, TailHolds, QueueDropped
<1>3. ask.pc = "none" /\ \A i \in DOMAIN Tail(wire) : ~IsAnswer(Tail(wire)[i])
  BY <1>1, PageIs, TailAnswers DEF IsAnswer
<1>4. hook' \in HookSet /\ ~hook'.joining /\ hook'.queue = <<>>
  BY <1>1, PageIs, EmptyIs DEF HookSet
<1>5. OneAnswer(Tail(wire), ask, hook')
  BY <1>3, <1>4, Zenon DEF OneAnswer
<1> QED BY <1>1, <1>2, <1>4, <1>5, PageIs, PageKeeps

\* The page is rendered.
LEMMA CommitKeeps ==
    ASSUME StreamInv, Commit
    PROVE  ServerInv' /\ PageInv'
<1>1. /\ shown' = view.resync
      /\ IF view.resync /\ ~hook.joining
         THEN IF hook.up THEN Request(hook, 0, TRUE)
              ELSE hook' = [hook EXCEPT !.ready = FALSE] /\ UNCHANGED ask
         ELSE UNCHANGED <<hook, ask>>
      /\ UNCHANGED server /\ room' = room /\ wire' = wire /\ view' = view
  BY DEF Commit
<1>2. shown' \in BOOLEAN
  BY <1>1, PageIs DEF ViewSet
<1>3. CASE view.resync /\ ~hook.joining /\ hook.up
  <2>1. Request(hook, 0, TRUE)
    BY <1>1, <1>3
  <2>2. hook' \in HookSet /\ OneAnswer(wire, ask', hook') /\ PageHolds(wire, hook'.queue, view, ask')
    BY <1>3, <2>1, PageIs, RequestHolds
  <2> QED BY <1>1, <1>2, <2>2, PageIs, PageKeeps
<1>4. CASE ask' = ask /\ hook' = [hook EXCEPT !.ready = FALSE] /\ ~hook.joining
  <2>1. hook' \in HookSet /\ hook'.queue = hook.queue /\ hook'.joining = hook.joining /\ ~hook'.ready
        /\ hook'.up = hook.up
    BY <1>4, PageIs DEF HookSet
  <2>2. OneAnswer(wire, ask, hook')
    BY <2>1, PageIs, Zenon DEF OneAnswer
  <2> QED BY <1>1, <1>2, <1>4, <2>1, <2>2, PageIs, PageKeeps
<1>5. CASE ask' = ask /\ hook' = hook
  BY <1>1, <1>2, <1>5, PageIs, PageKeeps
<1> QED BY <1>1, <1>3, <1>4, <1>5

-----------------------------------------------------------------------------
(* The steps of an execution *)

\* Unsettled, of the value of an execution.
Undone(x) ==
    \/ x.pc \in {"open", "begin", "loop"}
    \/ x.pc \in {"store", "emit"} /\ x.event.kind # "ended"
    \/ x.then \in {"open", "loop"}

\* Both are the same, before and after a step.
LEMMA UndoneIs == \A r : /\ Unsettled(r) <=> Undone(run[r])
                         /\ Unsettled(r)' <=> Undone(run'[r])
  BY DEF Unsettled, Undone

\* One execution moves.
Moves(r) == run' \in [Runs -> RunSet] /\ \A q \in Runs : q # r => run'[q] = run[q]

\* What a step of one execution does not disturb when it moves on: left to show
\* is what its event, the entry it opened and its rows must satisfy.
LEMMA RunMoves ==
    ASSUME ServerInv, NEW r \in Runs, Moves(r),
           run[r].pc # "idle", run'[r].pc # "idle", run'[r].turn = run[r].turn, RunHolds(r, run'[r]),
           OpenedRun(run[r]) => OpenedRun(run'[r]),
           Undone(run'[r]) => /\ Undone(run[r])
                              /\ status' \in Active /\ durable'[run[r].turn].status \in Active,
           durable' \in [Turns -> RowSet], status' \in StatusSet, stream' \in StreamSet,
           Undone(run[r]) \/ (durable' = durable /\ status' = status),
           \A n \in Turns : durable[n].status \in {"COMPLETED", "CANCELLED"} => durable'[n] = durable[n],
           stream' = stream \/ Undone(run[r]) \/ stream.gen = r,
           \A g \in Runs : run[g].pc # "idle" /\ (stream.gen # 0 => g <= stream.gen)
                             => (stream'.gen # 0 => g <= stream'.gen)
    PROVE  /\ Grows
           /\ (/\ run'[r].event # NoEvent => EventHolds(run[r].event)'
               /\ Undone(run'[r]) /\ OpenedRun(run'[r]) => EntryFollows(r, run'[r], stream')
               /\ EntryHolds(stream)') => ServerInv'
<1>1. /\ ServerTypes /\ OneByOne /\ RunEventsHold /\ EntryHolds(stream)
      /\ \A q \in Runs : RunInOrder(q) /\ StreamInOrder(q)
  BY DEF ServerInv
<1>2. run' \in [Runs -> RunSet] /\ \A q \in Runs : q # r => run'[q] = run[q]
  BY DEF Moves
<1>3. Grows
  <2>1. ASSUME NEW q \in Runs, run[q].pc # "idle"
        PROVE  /\ run'[q].pc # "idle" /\ run'[q].turn = run[q].turn
               /\ ~Unsettled(q) => ~Unsettled(q)'
               /\ Opened(q) => Opened(q)'
    <3>1. CASE q = r
      BY <2>1, <3>1, UndoneIs DEF Opened
    <3>2. CASE q # r
      <4>1. run'[q] = run[q]
        BY <1>2, <3>2
      <4> QED BY <2>1, <4>1, UndoneIs DEF Opened
    <3> QED BY <3>1, <3>2
  <2> QED BY <2>1, Zenon DEF Grows
<1>4. OneByOne'
  <2>1. ASSUME NEW p \in Runs, NEW q \in Runs, q > p, run'[p].pc = "idle"
        PROVE  run'[q].pc = "idle"
    <3>1. p # r /\ run[p].pc = "idle"
      BY <1>2, <2>1
    <3>2. run[q].pc = "idle"
      BY <1>1, <2>1, <3>1 DEF OneByOne
    <3> QED BY <1>2, <3>2
  <2>2. ASSUME NEW p \in Runs, Unsettled(p)'
        PROVE  Unsettled(p)
    BY <1>2, <2>2, UndoneIs
  <2>3. ASSUME NEW p \in Runs, Unsettled(p)'
        PROVE  status' \in Active /\ durable'[run'[p].turn].status \in Active
    <3>1. CASE p = r
      BY <2>3, <3>1, UndoneIs
    <3>2. CASE p # r
      <4>1. Unsettled(p) /\ run'[p] = run[p]
        BY <1>2, <2>2, <2>3, <3>2
      <4>2. ~Unsettled(r)
        BY <1>1, <3>2, <4>1, Zenon DEF OneByOne
      <4>3. durable' = durable /\ status' = status
        BY <4>2, UndoneIs
      <4> QED BY <1>1, <4>1, <4>3 DEF OneByOne
    <3> QED BY <3>1, <3>2
  <2>4. ASSUME NEW p \in Runs, Unsettled(p)', NEW q \in Runs
        PROVE  /\ q > p => run'[q].pc = "idle"
               /\ Unsettled(q)' => q = p
    <3>1. Unsettled(p)
      BY <2>2, <2>4
    <3>2. q > p => run[q].pc = "idle"
      BY <1>1, <3>1 DEF OneByOne
    <3>3. q > p => q # r
      BY <3>2
    <3>4. Unsettled(q)' => q = p
      BY <1>1, <2>2, <3>1, Zenon DEF OneByOne
    <3> QED BY <1>2, <3>2, <3>3, <3>4
  <2> QED BY <2>1, <2>3, <2>4 DEF OneByOne
<1>5. ASSUME NEW q \in Runs
      PROVE  RunInOrder(q)'
  BY <1>1, <1>2, <1>5 DEF RunInOrder
<1>6. ASSUME NEW q \in Runs, q # r
      PROVE  StreamInOrder(q)'
  <2>1. run'[q] = run[q]
    BY <1>2, <1>6
  <2>2. SUFFICES ASSUME Unsettled(q), Opened(q)
                 PROVE  EntryFollows(q, run[q], stream')
    BY <2>1, UndoneIs, Zenon DEF StreamInOrder, Generating, Opened
  <2>3. EntryFollows(q, run[q], stream)
    BY <1>1, <2>2 DEF StreamInOrder, Generating
  <2>4. ~Undone(run[r])
    BY <1>1, <1>6, <2>2, UndoneIs, Zenon DEF OneByOne
  <2>5. stream.gen = q
    BY <2>3 DEF EntryFollows
  <2> QED BY <1>6, <2>3, <2>4, <2>5
<1>7. ASSUME NEW q \in Runs, q # r, run'[q].event # NoEvent
      PROVE  EventHolds(run[q].event)'
  <2>1. run'[q] = run[q] /\ run[q] \in RunSet
    BY <1>1, <1>2, <1>7 DEF ServerTypes
  <2>2. run[q].event \in PageEvents /\ EventHolds(run[q].event)
    BY <1>1, <1>7, <2>1 DEF RunEventsHold, RunSet, PageEvents
  <2>3. PICK e : e = run[q].event
    OBVIOUS
  <2>4. EventHolds(e)'
    BY <1>3, <2>2, <2>3, EventStillHolds
  <2>5. e = run'[q].event
    BY <2>1, <2>3
  <2> QED BY <2>4, <2>5
<1>8. ASSUME run'[r].event # NoEvent => EventHolds(run[r].event)',
             Undone(run'[r]) /\ OpenedRun(run'[r]) => EntryFollows(r, run'[r], stream'),
             EntryHolds(stream)'
      PROVE  ServerInv'
  <2>1. ServerTypes'
    BY <1>2 DEF ServerTypes
  <2>2. StreamInOrder(r)'
    BY <1>8, UndoneIs, Zenon DEF StreamInOrder, Generating, Opened
  <2>3. \A q \in Runs : StreamInOrder(q)'
    BY <1>6, <2>2, Zenon
  <2>4. RunEventsHold'
    BY <1>7, <1>8, Zenon DEF RunEventsHold
  <2> QED BY <1>4, <1>5, <1>8, <2>1, <2>3, <2>4, Zenon DEF ServerInv
<1> QED BY <1>3, <1>8

\* What the execution becomes when it goes to another stage.
LEMMA RunIs ==
    ASSUME ServerInv, NEW r \in Runs
    PROVE  /\ run \in [Runs -> RunSet] /\ run[r] \in RunSet /\ RunHolds(r, run[r])
           /\ run[r].pc \in Stages /\ run[r].turn \in Turns \cup {0} /\ run[r].blocks \in Blocks
           /\ run[r].units \in 0 .. MaxUnits /\ run[r].pending \in Seq(BlockEvents)
           /\ run[r].event \in RunEvents \cup {NoEvent} /\ run[r].brief \in StatusSet
           /\ run[r].then \in {"open", "loop", "cleanup", "over"}
           /\ run[r].pc # "idle" => run[r].turn \in Turns
<1>1. run \in [Runs -> RunSet] /\ RunHolds(r, run[r])
  BY DEF ServerInv, ServerTypes, RunInOrder
<1>2. run[r] \in RunSet
  BY <1>1
<1> QED BY <1>1, <1>2 DEF RunSet, RunHolds

\* Only the entry of the execution in run is replaced.
LEMMA RunReplaced ==
    ASSUME ServerInv, NEW r \in Runs, NEW x \in RunSet, run' = [run EXCEPT ![r] = x]
    PROVE  Moves(r) /\ run'[r] = x
  BY RunIs DEF Moves

\* The execution goes to another stage.
LEMMA GotoIs ==
    ASSUME ServerInv, NEW r \in Runs, NEW pc \in Stages, Goto(r, pc)
    PROVE  /\ Moves(r)
           /\ run'[r].pc = pc /\ run'[r].turn = run[r].turn /\ run'[r].blocks = run[r].blocks
           /\ run'[r].units = run[r].units /\ run'[r].pending = run[r].pending
           /\ run'[r].event = run[r].event /\ run'[r].then = run[r].then
<1>1. run' = [run EXCEPT ![r].pc = pc] /\ run \in [Runs -> RunSet] /\ run[r] \in RunSet
  BY RunIs DEF Goto
<1> DEFINE x == [run[r] EXCEPT !.pc = pc]
<1>2. x \in RunSet /\ x.pc = pc /\ x.turn = run[r].turn /\ x.blocks = run[r].blocks
      /\ x.units = run[r].units /\ x.pending = run[r].pending /\ x.event = run[r].event
      /\ x.then = run[r].then
  BY <1>1 DEF RunSet
<1>3. run' = [run EXCEPT ![r] = x]
  BY <1>1
<1> HIDE DEF x
<1>4. Moves(r) /\ run'[r] = x
  BY <1>2, <1>3, RunReplaced
<1> QED BY <1>2, <1>4

\* It goes to notify the owner, and then on to a stage.
LEMMA BriefIs ==
    ASSUME ServerInv, NEW r \in Runs, NEW then \in {"open", "loop", "cleanup", "over"}, Brief(r, then)
    PROVE  /\ Moves(r)
           /\ run'[r].pc = "brief" /\ run'[r].turn = run[r].turn /\ run'[r].blocks = run[r].blocks
           /\ run'[r].units = run[r].units /\ run'[r].pending = <<>>
           /\ run'[r].event = NoEvent /\ run'[r].then = then
<1>1. run' = [run EXCEPT ![r].pc = "brief", ![r].then = then, ![r].event = NoEvent, ![r].pending = <<>>]
      /\ run \in [Runs -> RunSet] /\ run[r] \in RunSet
  BY RunIs DEF Brief
<1> DEFINE x == [run[r] EXCEPT !.pc = "brief", !.then = then, !.event = NoEvent, !.pending = <<>>]
<1>2. x \in RunSet /\ x.pc = "brief" /\ x.turn = run[r].turn /\ x.blocks = run[r].blocks
      /\ x.units = run[r].units /\ x.pending = <<>> /\ x.event = NoEvent /\ x.then = then
  BY <1>1, EmptyIs DEF RunSet, Stages
<1>3. run' = [run EXCEPT ![r] = x]
  BY <1>1
<1> HIDE DEF x
<1>4. Moves(r) /\ run'[r] = x
  BY <1>2, <1>3, RunReplaced
<1> QED BY <1>2, <1>4

\* The owner was notified: it goes on.
LEMMA ToldIs ==
    ASSUME ServerInv, NEW r \in Runs, Told(r)
    PROVE  /\ Moves(r)
           /\ run'[r].pc = run[r].then /\ run'[r].turn = run[r].turn /\ run'[r].blocks = run[r].blocks
           /\ run'[r].units = run[r].units /\ run'[r].pending = run[r].pending
           /\ run'[r].event = run[r].event /\ run'[r].then = "over"
<1>1. run' = [run EXCEPT ![r].pc = run[r].then, ![r].then = "over", ![r].brief = "none"]
      /\ run \in [Runs -> RunSet] /\ run[r] \in RunSet
  BY RunIs DEF Told
<1> DEFINE x == [run[r] EXCEPT !.pc = run[r].then, !.then = "over", !.brief = "none"]
<1>2. x \in RunSet /\ x.pc = run[r].then /\ x.turn = run[r].turn /\ x.blocks = run[r].blocks
      /\ x.units = run[r].units /\ x.pending = run[r].pending /\ x.event = run[r].event
      /\ x.then = "over"
  BY <1>1, StatusesAre DEF RunSet, Stages
<1>3. run' = [run EXCEPT ![r] = x]
  BY <1>1
<1> HIDE DEF x
<1>4. Moves(r) /\ run'[r] = x
  BY <1>2, <1>3, RunReplaced
<1> QED BY <1>2, <1>4

\* Its event was dealt with.
LEMMA FinishIs ==
    ASSUME ServerInv, NEW r \in Runs, NEW pc \in Stages, run' = [run EXCEPT ![r].pc = pc, ![r].event = NoEvent]
    PROVE  /\ Moves(r)
           /\ run'[r].pc = pc /\ run'[r].turn = run[r].turn /\ run'[r].blocks = run[r].blocks
           /\ run'[r].units = run[r].units /\ run'[r].pending = run[r].pending
           /\ run'[r].event = NoEvent /\ run'[r].then = run[r].then
<1>1. run \in [Runs -> RunSet] /\ run[r] \in RunSet
  BY RunIs
<1> DEFINE x == [run[r] EXCEPT !.pc = pc, !.event = NoEvent]
<1>2. x \in RunSet /\ x.pc = pc /\ x.turn = run[r].turn /\ x.blocks = run[r].blocks
      /\ x.units = run[r].units /\ x.pending = run[r].pending /\ x.event = NoEvent
      /\ x.then = run[r].then
  BY <1>1 DEF RunSet
<1>3. run' = [run EXCEPT ![r] = x]
  BY <1>1
<1> HIDE DEF x
<1>4. Moves(r) /\ run'[r] = x
  BY <1>2, <1>3, RunReplaced
<1> QED BY <1>2, <1>4

\* A step of the server that sends nothing.
LEMMA PageSame ==
    ASSUME PageInv, Grows, UNCHANGED <<room, ask, wire, page>>
    PROVE  PageInv'
<1>1. room' = room /\ ask' = ask /\ wire' = wire /\ hook' = hook /\ view' = view /\ shown' = shown
  BY DEF page
<1>2. PageHolds(wire, hook.queue, view, ask) /\ OneAnswer(wire, ask, hook)
  BY DEF PageInv
<1>3. PageHolds(wire, hook.queue, view, ask)'
  BY <1>1, <1>2, PageFollows
<1>4. OneAnswer(wire, ask, hook)'
  BY <1>1, <1>2
<1> QED BY <1>1, <1>3, <1>4 DEF PageInv

\* An event is emitted to the page, to one of its rooms or to both.
LEMMA PageSent ==
    ASSUME PageInv, Grows, NEW m \in PageEvents, EventHolds(m),
           m.kind = "start" => \A g \in Runs : \A n : Announced(g, n) => g <= m.gen,
           wire' \in {wire, Append(wire, m), Append(Append(wire, m), m)}, UNCHANGED <<room, ask, page>>
    PROVE  PageInv'
<1>1. room' = room /\ ask' = ask /\ hook' = hook /\ view' = view /\ shown' = shown
  BY DEF page
<1>2. PageHolds(wire, hook.queue, view, ask) /\ OneAnswer(wire, ask, hook)
  BY DEF PageInv
<1>3. m \in Messages /\ ~IsAnswer(m)
  BY EventTyped DEF Messages, IsAnswer
<1>4. PageHolds(Append(wire, m), hook.queue, view, ask)
  BY <1>2, EventAppended
<1>5. PageHolds(Append(Append(wire, m), m), hook.queue, view, ask)
  BY <1>4, EventAppended
<1>6. wire \in Seq(Messages) /\ Append(wire, m) \in Seq(Messages)
  BY <1>2, <1>4 DEF PageHolds
<1>7. OneAnswer(Append(wire, m), ask, hook)
  BY <1>2, <1>3, <1>6, AnswersOfAppend
<1>8. OneAnswer(Append(Append(wire, m), m), ask, hook)
  BY <1>3, <1>6, <1>7, AnswersOfAppend
<1>9. PageHolds(wire', hook'.queue, view', ask') /\ OneAnswer(wire', ask', hook')
  BY <1>1, <1>2, <1>4, <1>5, <1>7, <1>8
<1>10. PageHolds(wire, hook.queue, view, ask)'
  BY <1>9, PageFollows
<1>11. OneAnswer(wire, ask, hook)'
  BY <1>9
<1> QED BY <1>1, <1>10, <1>11 DEF PageInv

\* A step of an execution that touches neither rows nor entry and makes no event.
LEMMA MovesAlone ==
    ASSUME ServerInv, NEW r \in Runs, Moves(r), UNCHANGED <<durable, status, stream>>,
           run[r].pc # "idle", run'[r].pc # "idle", run'[r].turn = run[r].turn, RunHolds(r, run'[r]),
           OpenedRun(run[r]) => OpenedRun(run'[r]), Undone(run'[r]) => Undone(run[r]),
           run'[r].event \in {run[r].event, NoEvent},
           Undone(run'[r]) /\ OpenedRun(run'[r]) => EntryFollows(r, run'[r], stream)
    PROVE  Grows /\ ServerInv'
<1>1. /\ ServerTypes /\ OneByOne /\ RunEventsHold /\ EntryHolds(stream)
  BY DEF ServerInv
<1>2. durable' = durable /\ status' = status /\ stream' = stream
  OBVIOUS
<1>3. Undone(run'[r]) => status' \in Active /\ durable'[run[r].turn].status \in Active
  BY <1>1, <1>2, UndoneIs DEF OneByOne
<1>4. /\ Grows
      /\ (/\ run'[r].event # NoEvent => EventHolds(run[r].event)'
          /\ Undone(run'[r]) /\ OpenedRun(run'[r]) => EntryFollows(r, run'[r], stream')
          /\ EntryHolds(stream)') => ServerInv'
  <2>1. durable' \in [Turns -> RowSet] /\ status' \in StatusSet /\ stream' \in StreamSet
    BY <1>1, <1>2 DEF ServerTypes
  <2> QED BY <1>2, <1>3, <2>1, RunMoves
<1>5. EntryHolds(stream)'
  <2>1. PICK l : l = stream
    OBVIOUS
  <2>2. EntryHolds(l)'
    BY <1>1, <1>4, <2>1, EntryStillHolds
  <2> QED BY <1>2, <2>1, <2>2
<1>6. run'[r].event # NoEvent => EventHolds(run[r].event)'
  <2>1. SUFFICES ASSUME run'[r].event # NoEvent PROVE EventHolds(run[r].event)'
    OBVIOUS
  <2>2. PICK e : e = run[r].event
    OBVIOUS
  <2>3. e \in PageEvents /\ EventHolds(e) /\ e = run'[r].event
    BY <1>1, <2>1, <2>2, RunIs DEF RunEventsHold, PageEvents
  <2>4. EventHolds(e)'
    BY <1>4, <2>3, EventStillHolds
  <2> QED BY <2>3, <2>4
<1> QED BY <1>2, <1>4, <1>5, <1>6

\* The execution under way and its entry.
LEMMA EntryIs ==
    ASSUME ServerInv, NEW r \in Runs, Undone(run[r])
    PROVE  /\ status \in Active /\ durable[run[r].turn].status \in Active
           /\ \A q \in Runs : q > r => run[q].pc = "idle"
           /\ OpenedRun(run[r]) => EntryFollows(r, run[r], stream)
  BY UndoneIs DEF ServerInv, OneByOne, StreamInOrder, Generating, Opened

\* Each action of an execution keeps the invariant. The status for the owner is read.
LEMMA ReadBriefKeeps ==
    ASSUME StreamInv, NEW r \in Runs, ReadBrief(r)
    PROVE  ServerInv' /\ PageInv'
<1>1. ServerInv /\ PageInv
  BY DEF StreamInv
<1> DEFINE x == [run[r] EXCEPT !.brief = status, !.pc = "tell"]
<1>2. run[r].pc = "brief" /\ UNCHANGED <<durable, status, stream>> /\ UNCHANGED <<room, ask, wire, page>>
  BY DEF ReadBrief
<1>3. x \in RunSet /\ x.pc = "tell" /\ x.turn = run[r].turn /\ x.blocks = run[r].blocks
      /\ x.units = run[r].units /\ x.pending = run[r].pending /\ x.event = run[r].event
      /\ x.then = run[r].then
  BY <1>1, RunIs DEF RunSet, Stages, ServerInv, ServerTypes
<1>4. run' = [run EXCEPT ![r] = x]
  BY <1>1, RunIs DEF ReadBrief
<1> HIDE DEF x
<1>5. Moves(r) /\ run'[r] = x
  BY <1>1, <1>3, <1>4, RunReplaced
<1>6. RunHolds(r, x)
  BY <1>1, <1>2, <1>3, RunIs DEF RunHolds, OpenedRun
<1>7. Undone(x) => Undone(run[r])
  BY <1>2, <1>3 DEF Undone
<1>8. (OpenedRun(run[r]) => OpenedRun(x)) /\ (OpenedRun(x) => OpenedRun(run[r]))
  BY <1>2, <1>3 DEF OpenedRun
<1>9. Undone(x) /\ OpenedRun(x) => EntryFollows(r, x, stream)
  BY <1>1, <1>3, <1>7, <1>8, EntryIs DEF EntryFollows, ChunkIsNext
<1>10. Grows /\ ServerInv'
  BY <1>1, <1>2, <1>3, <1>5, <1>6, <1>7, <1>8, <1>9, MovesAlone
<1> QED BY <1>1, <1>2, <1>10, PageSame

\* The notification was emitted or failed: the execution goes on.
LEMMA ToldKeeps ==
    ASSUME ServerInv, NEW r \in Runs, run[r].pc = "tell", Told(r), UNCHANGED <<durable, status, stream>>
    PROVE  Grows /\ ServerInv'
<1>1. /\ Moves(r)
      /\ run'[r].pc = run[r].then /\ run'[r].turn = run[r].turn /\ run'[r].blocks = run[r].blocks
      /\ run'[r].units = run[r].units /\ run'[r].pending = run[r].pending
      /\ run'[r].event = run[r].event /\ run'[r].then = "over"
  BY ToldIs
<1>2. RunHolds(r, run[r]) /\ run[r].then \in {"open", "loop", "cleanup", "over"}
  BY RunIs
<1>3. run[r].pending = <<>> /\ run[r].event = NoEvent
  BY <1>2 DEF RunHolds
<1>4. RunHolds(r, run'[r])
  BY <1>1, <1>2, <1>3 DEF RunHolds, OpenedRun
<1>5. /\ Undone(run'[r]) => Undone(run[r])
      /\ OpenedRun(run'[r]) <=> OpenedRun(run[r])
  BY <1>1, <1>2 DEF Undone, OpenedRun
<1>6. Undone(run'[r]) /\ OpenedRun(run'[r]) => EntryFollows(r, run'[r], stream)
  BY <1>1, <1>5, EntryIs DEF EntryFollows, ChunkIsNext
<1>7. run'[r].pc # "idle"
  BY <1>1, <1>2
<1> QED BY <1>1, <1>4, <1>5, <1>6, <1>7, MovesAlone

\* task:status is emitted.
LEMMA TellKeeps ==
    ASSUME StreamInv, NEW r \in Runs, Tell(r)
    PROVE  ServerInv' /\ PageInv'
<1> DEFINE m == [kind |-> "task", status |-> run[r].brief]
<1>1. ServerInv /\ PageInv
  BY DEF StreamInv
<1>2. /\ run[r].pc = "tell" /\ Told(r) /\ UNCHANGED <<durable, status, stream>>
      /\ wire' = ToUser(m) /\ UNCHANGED <<room, ask, page>>
  BY DEF Tell
<1>3. Grows /\ ServerInv'
  BY <1>1, <1>2, ToldKeeps
<1>4. m \in PageEvents /\ m.kind = "task"
  BY <1>1, RunIs DEF PageEvents, TaskEvents
<1>5. EventHolds(m)
  BY <1>4 DEF EventHolds
<1> HIDE DEF m
<1>6. wire' \in {wire, Append(wire, m), Append(Append(wire, m), m)}
  BY <1>2 DEF ToUser, ToRoom
<1> QED BY <1>1, <1>2, <1>3, <1>4, <1>5, <1>6, PageSent

\* Its emission fails, which is logged only.
LEMMA TellFailsKeeps ==
    ASSUME StreamInv, NEW r \in Runs, TellFails(r)
    PROVE  ServerInv' /\ PageInv'
<1>1. ServerInv /\ PageInv
  BY DEF StreamInv
<1>2. /\ run[r].pc = "tell" /\ Told(r) /\ UNCHANGED <<durable, status, stream>>
      /\ UNCHANGED <<room, ask, wire, page>>
  BY DEF TellFails
<1>3. Grows /\ ServerInv'
  BY <1>1, <1>2, ToldKeeps
<1> QED BY <1>1, <1>2, <1>3, PageSame

\* The event is accepted by the store.
LEMMA ValidateKeeps ==
    ASSUME StreamInv, NEW r \in Runs, Validate(r)
    PROVE  ServerInv' /\ PageInv'
<1>1. ServerInv /\ PageInv
  BY DEF StreamInv
<1>2. /\ run[r].pc = "store" /\ Goto(r, "emit") /\ UNCHANGED <<durable, status, stream>>
      /\ UNCHANGED <<room, ask, wire, page>>
  BY DEF Validate
<1>3. /\ Moves(r)
      /\ run'[r].pc = "emit" /\ run'[r].turn = run[r].turn /\ run'[r].blocks = run[r].blocks
      /\ run'[r].units = run[r].units /\ run'[r].pending = run[r].pending
      /\ run'[r].event = run[r].event /\ run'[r].then = run[r].then
  BY <1>1, <1>2, GotoIs DEF Stages
<1>4. RunHolds(r, run'[r])
  BY <1>1, <1>2, <1>3, RunIs DEF RunHolds, OpenedRun
<1>5. /\ Undone(run'[r]) => Undone(run[r])
      /\ OpenedRun(run'[r]) <=> OpenedRun(run[r])
  BY <1>2, <1>3 DEF Undone, OpenedRun
<1>6. Undone(run'[r]) /\ OpenedRun(run'[r]) => EntryFollows(r, run'[r], stream)
  BY <1>1, <1>3, <1>5, EntryIs DEF EntryFollows, ChunkIsNext
<1>7. Grows /\ ServerInv'
  BY <1>1, <1>2, <1>3, <1>4, <1>5, <1>6, MovesAlone
<1> QED BY <1>1, <1>2, <1>7, PageSame

\* An execution that was settled goes on to its last notification.
LEMMA BriefKeeps ==
    ASSUME ServerInv, NEW r \in Runs, NEW then \in {"cleanup", "over"}, Brief(r, then),
           run[r].pc \in {"store", "emit"}, UNCHANGED <<durable, status, stream>>
    PROVE  Grows /\ ServerInv'
<1>1. /\ Moves(r)
      /\ run'[r].pc = "brief" /\ run'[r].turn = run[r].turn /\ run'[r].blocks = run[r].blocks
      /\ run'[r].units = run[r].units /\ run'[r].pending = <<>>
      /\ run'[r].event = NoEvent /\ run'[r].then = then
  BY BriefIs
<1>2. RunHolds(r, run[r])
  BY RunIs
<1>3. OpenedRun(run'[r]) /\ ~Undone(run'[r])
  BY <1>1 DEF OpenedRun, Undone
<1>4. RunHolds(r, run'[r])
  BY <1>1, <1>2, <1>3, EmptyIs DEF RunHolds
<1> QED BY <1>1, <1>3, <1>4, MovesAlone

\* The store refuses the event: the entry has another owner.
LEMMA SupersededKeeps ==
    ASSUME StreamInv, NEW r \in Runs, Superseded(r)
    PROVE  ServerInv' /\ PageInv'
<1>1. ServerInv /\ PageInv
  BY DEF StreamInv
<1>2. /\ run[r].pc = "store" /\ Brief(r, "over") /\ UNCHANGED <<durable, status, stream>>
      /\ UNCHANGED <<room, ask, wire, page>>
  BY DEF Superseded
<1>3. Grows /\ ServerInv'
  BY <1>1, <1>2, BriefKeeps
<1> QED BY <1>1, <1>2, <1>3, PageSame

\* A terminal event was emitted, or could not be.
LEMMA FinishKeeps ==
    ASSUME ServerInv, NEW r \in Runs, Finish(r), run[r].pc = "emit", run[r].event.kind = "ended",
           UNCHANGED <<durable, status, stream>>
    PROVE  Grows /\ ServerInv'
<1>1. /\ Moves(r)
      /\ run'[r].pc = "finalize" /\ run'[r].turn = run[r].turn /\ run'[r].blocks = run[r].blocks
      /\ run'[r].units = run[r].units /\ run'[r].pending = run[r].pending
      /\ run'[r].event = NoEvent /\ run'[r].then = run[r].then
  BY FinishIs DEF Finish, Stages
<1>2. RunHolds(r, run[r])
  BY RunIs
<1>3. OpenedRun(run'[r]) /\ ~Undone(run'[r]) /\ run[r].pending = <<>>
  BY <1>1, <1>2 DEF OpenedRun, Undone, RunHolds
<1>4. RunHolds(r, run'[r])
  BY <1>1, <1>2, <1>3, EmptyIs DEF RunHolds
<1> QED BY <1>1, <1>3, <1>4, MovesAlone

\* The event is emitted to the room.
LEMMA EmitKeeps ==
    ASSUME StreamInv, NEW r \in Runs, Emit(r)
    PROVE  ServerInv' /\ PageInv'
<1> DEFINE m == run[r].event
<1>1. ServerInv /\ PageInv
  BY DEF StreamInv
<1>2. /\ run[r].pc = "emit" /\ UNCHANGED <<durable, status, stream>>
      /\ wire' = ToRoom(m) /\ After(r) /\ UNCHANGED <<room, ask, page>>
  BY DEF Emit
<1>3. RunHolds(r, run[r]) /\ m \in RunEvents \cup {NoEvent}
  BY <1>1, RunIs
<1>4. m # NoEvent /\ m.gen = r
  BY <1>2, <1>3 DEF RunHolds
<1>5. m \in PageEvents /\ EventHolds(m)
  BY <1>1, <1>3, <1>4 DEF PageEvents, ServerInv, RunEventsHold
<1>6. Grows /\ ServerInv'
  <2>1. CASE m.kind = "start"
    <3>1. /\ Moves(r)
          /\ run'[r].pc = "brief" /\ run'[r].turn = run[r].turn /\ run'[r].blocks = run[r].blocks
          /\ run'[r].units = run[r].units /\ run'[r].pending = <<>>
          /\ run'[r].event = NoEvent /\ run'[r].then = "loop"
      BY <1>1, <1>2, <2>1, BriefIs DEF After
    <3>2. run[r].pending = <<>>
      BY <1>3, <2>1 DEF RunHolds
    <3>3. OpenedRun(run'[r]) /\ Undone(run[r]) /\ OpenedRun(run[r])
      BY <1>2, <1>3, <2>1, <3>1 DEF OpenedRun, Undone, RunHolds
    <3>4. RunHolds(r, run'[r])
      BY <1>2, <1>3, <3>1, <3>3, EmptyIs DEF RunHolds
    <3>5. EntryFollows(r, run'[r], stream)
      BY <1>1, <3>1, <3>2, <3>3, EntryIs DEF EntryFollows, ChunkIsNext
    <3> QED BY <1>1, <1>2, <3>1, <3>3, <3>4, <3>5, MovesAlone
  <2>2. CASE m.kind = "ended"
    <3>1. Finish(r)
      BY <1>2, <2>2 DEF After
    <3> QED BY <1>1, <1>2, <2>2, <3>1, FinishKeeps
  <2>3. CASE m.kind \notin {"start", "ended"}
    <3>1. /\ Moves(r)
          /\ run'[r].pc = "loop" /\ run'[r].turn = run[r].turn /\ run'[r].blocks = run[r].blocks
          /\ run'[r].units = run[r].units /\ run'[r].pending = run[r].pending
          /\ run'[r].event = NoEvent /\ run'[r].then = run[r].then
      BY <1>1, <1>2, <2>3, FinishIs DEF After, Stages
    <3>2. OpenedRun(run'[r]) /\ Undone(run[r]) /\ OpenedRun(run[r])
      BY <1>2, <1>3, <2>3, <3>1 DEF OpenedRun, Undone, RunHolds
    <3>3. NoEvent.kind \notin {"start", "ended"}
      BY DEF NoEvent
    <3>4. RunHolds(r, run'[r])
      BY <1>2, <1>3, <3>1, <3>2, <3>3 DEF RunHolds
    <3>5. EntryFollows(r, run'[r], stream)
      BY <1>1, <3>1, <3>2, EntryIs DEF EntryFollows, ChunkIsNext
    <3> QED BY <1>1, <1>2, <3>1, <3>2, <3>4, <3>5, MovesAlone
  <2> QED BY <2>1, <2>2, <2>3
<1>7. m.kind = "start" => \A g \in Runs : \A n : Announced(g, n) => g <= m.gen
  <2>1. SUFFICES ASSUME m.kind = "start", NEW g \in Runs, run[g].pc # "idle" PROVE g <= r
    BY <1>4 DEF Announced, Opened, OpenedRun
  <2>2. ~(g > r)
    BY <1>1, <1>2, <2>1, EntryIs DEF Undone
  <2> QED BY <2>2 DEF Runs
<1> HIDE DEF m
<1>8. wire' \in {wire, Append(wire, m), Append(Append(wire, m), m)}
  BY <1>2 DEF ToRoom
<1> QED BY <1>1, <1>2, <1>5, <1>6, <1>7, <1>8, PageSent

\* The entry of an execution that is settled is removed.
LEMMA RemovedKeeps ==
    ASSUME ServerInv, NEW r \in Runs, Moves(r), UNCHANGED <<durable, status>>,
           stream' = IF stream.gen = r THEN NoStream ELSE stream,
           run[r].pc # "idle", run'[r].pc # "idle", run'[r].turn = run[r].turn, RunHolds(r, run'[r]),
           OpenedRun(run'[r]), ~Undone(run'[r]), run'[r].event = NoEvent
    PROVE  Grows /\ ServerInv'
<1>1. /\ ServerTypes /\ EntryHolds(stream)
  BY DEF ServerInv
<1>2. NoStream.gen = 0
  BY DEF NoStream
<1>3. /\ Grows
      /\ (/\ run'[r].event # NoEvent => EventHolds(run[r].event)'
          /\ Undone(run'[r]) /\ OpenedRun(run'[r]) => EntryFollows(r, run'[r], stream')
          /\ EntryHolds(stream)') => ServerInv'
  <2>1. durable' \in [Turns -> RowSet] /\ status' \in StatusSet /\ stream' \in StreamSet
    BY <1>1, NoAskTyped DEF ServerTypes
  <2>2. \A g \in Runs : run[g].pc # "idle" /\ (stream.gen # 0 => g <= stream.gen)
                          => (stream'.gen # 0 => g <= stream'.gen)
    BY <1>2
  <2>3. stream' = stream \/ stream.gen = r
    OBVIOUS
  <2> QED BY <2>1, <2>2, <2>3, RunMoves
<1>4. EntryHolds(stream)'
  <2>1. PICK l : l = stream'
    OBVIOUS
  <2>2. EntryHolds(l)'
    <3>1. CASE l = NoStream
      BY <1>2, <3>1 DEF EntryHolds
    <3>2. CASE l = stream
      <4>1. EntryHolds(l)
        BY <1>1, <3>2
      <4> QED BY <1>3, <4>1, EntryStillHolds
    <3> QED BY <2>1, <3>1, <3>2
  <2> QED BY <2>1, <2>2
<1> QED BY <1>3, <1>4

\* The entry of the execution is finalized.
LEMMA FinalizeKeeps ==
    ASSUME StreamInv, NEW r \in Runs, Finalize(r)
    PROVE  ServerInv' /\ PageInv'
<1>1. ServerInv /\ PageInv
  BY DEF StreamInv
<1>2. /\ run[r].pc = "finalize" /\ Brief(r, "over") /\ UNCHANGED <<durable, status>>
      /\ stream' = IF stream.gen = r THEN NoStream ELSE stream
      /\ UNCHANGED <<room, ask, wire, page>>
  BY DEF Finalize
<1>3. /\ Moves(r)
      /\ run'[r].pc = "brief" /\ run'[r].turn = run[r].turn /\ run'[r].blocks = run[r].blocks
      /\ run'[r].units = run[r].units /\ run'[r].pending = <<>>
      /\ run'[r].event = NoEvent /\ run'[r].then = "over"
  BY <1>1, <1>2, BriefIs
<1>4. OpenedRun(run'[r]) /\ ~Undone(run'[r])
  BY <1>3 DEF OpenedRun, Undone
<1>5. RunHolds(r, run'[r])
  BY <1>1, <1>2, <1>3, <1>4, RunIs, EmptyIs DEF RunHolds
<1>6. Grows /\ ServerInv'
  BY <1>1, <1>2, <1>3, <1>4, <1>5, RemovedKeeps
<1> QED BY <1>1, <1>2, <1>6, PageSame

\* The entry is removed when the task ends.
LEMMA CleanupKeeps ==
    ASSUME StreamInv, NEW r \in Runs, Cleanup(r)
    PROVE  ServerInv' /\ PageInv'
<1>1. ServerInv /\ PageInv
  BY DEF StreamInv
<1>2. /\ run[r].pc = "cleanup" /\ Goto(r, "over") /\ UNCHANGED <<durable, status>>
      /\ stream' = IF stream.gen = r THEN NoStream ELSE stream
      /\ UNCHANGED <<room, ask, wire, page>>
  BY DEF Cleanup
<1>3. /\ Moves(r)
      /\ run'[r].pc = "over" /\ run'[r].turn = run[r].turn /\ run'[r].blocks = run[r].blocks
      /\ run'[r].units = run[r].units /\ run'[r].pending = run[r].pending
      /\ run'[r].event = run[r].event /\ run'[r].then = run[r].then
  BY <1>1, <1>2, GotoIs DEF Stages
<1>4. RunHolds(r, run[r])
  BY <1>1, RunIs
<1>5. run[r].pending = <<>> /\ run[r].event = NoEvent /\ run[r].then = "over"
  BY <1>2, <1>4 DEF RunHolds
<1>6. OpenedRun(run'[r]) /\ ~Undone(run'[r])
  BY <1>3, <1>5 DEF OpenedRun, Undone
<1>7. RunHolds(r, run'[r])
  BY <1>2, <1>3, <1>4, <1>5, <1>6 DEF RunHolds
<1>8. Grows /\ ServerInv'
  BY <1>1, <1>2, <1>3, <1>5, <1>6, <1>7, RemovedKeeps
<1> QED BY <1>1, <1>2, <1>8, PageSame

\* The entry expires: a later generation can only be announced with an entry of its own.
LEMMA ExpireKeeps ==
    ASSUME StreamInv, Expire
    PROVE  ServerInv' /\ PageInv'
<1>1. ServerInv /\ PageInv
  BY DEF StreamInv
<1>2. /\ stream # NoStream /\ run[stream.gen].pc = "over" /\ stream' = NoStream
      /\ durable' = durable /\ status' = status /\ run' = run /\ UNCHANGED <<room, ask, wire, page>>
  BY DEF Expire
<1> DEFINE r == stream.gen
<1>3. r \in Runs
  BY <1>1, <1>2 DEF ServerInv, EntryHolds, Announced
<1>4. RunHolds(r, run[r]) /\ run \in [Runs -> RunSet]
  BY <1>1, <1>3, RunIs
<1>5. run[r].event = NoEvent /\ run[r].then = "over"
  BY <1>2, <1>4 DEF RunHolds
<1>6. OpenedRun(run[r]) /\ ~Undone(run[r])
  BY <1>2, <1>5 DEF OpenedRun, Undone
<1>7. Moves(r)
  BY <1>2, <1>4 DEF Moves
<1>8. stream' = IF stream.gen = r THEN NoStream ELSE stream
  BY <1>2
<1> HIDE DEF r
<1>9. run[r].pc # "idle"
  BY <1>6 DEF OpenedRun
<1>10. Grows /\ ServerInv'
  BY <1>1, <1>2, <1>3, <1>4, <1>5, <1>6, <1>7, <1>8, <1>9, RemovedKeeps
<1> QED BY <1>1, <1>2, <1>10, PageSame

\* A new generation takes the entry.
LEMMA OpenKeeps ==
    ASSUME StreamInv, NEW r \in Runs, Open(r)
    PROVE  ServerInv' /\ PageInv'
<1> DEFINE l == [NoStream EXCEPT !.turn = run[r].turn, !.gen = r]
<1>1. ServerInv /\ PageInv
  BY DEF StreamInv
<1>2. /\ run[r].pc = "open" /\ Goto(r, "begin") /\ durable' = durable /\ status' = status
      /\ stream' = l /\ UNCHANGED <<room, ask, wire, page>>
  BY DEF Open
<1>3. /\ Moves(r)
      /\ run'[r].pc = "begin" /\ run'[r].turn = run[r].turn /\ run'[r].blocks = run[r].blocks
      /\ run'[r].units = run[r].units /\ run'[r].pending = run[r].pending
      /\ run'[r].event = run[r].event /\ run'[r].then = run[r].then
  BY <1>1, <1>2, GotoIs DEF Stages
<1>4. RunHolds(r, run[r]) /\ run[r].turn \in Turns
  BY <1>1, <1>2, RunIs
<1>5. run[r].pending = <<>> /\ run[r].event = NoEvent /\ run[r].then = "over" /\ run[r].units = 0
  BY <1>2, <1>4 DEF RunHolds, OpenedRun
<1>6. l \in StreamSet /\ l.gen = r /\ l.turn = run[r].turn /\ l.cached = <<>>
  BY <1>4, NoAskTyped DEF StreamSet, NoStream
<1>7. OpenedRun(run'[r]) /\ Undone(run[r]) /\ ~OpenedRun(run[r])
  BY <1>2, <1>3, <1>5 DEF OpenedRun, Undone
<1>8. RunHolds(r, run'[r])
  BY <1>2, <1>3, <1>4, <1>5, <1>7 DEF RunHolds
<1>9. \A g \in Runs : run[g].pc # "idle" => g <= r
  <2>1. \A g \in Runs : run[g].pc # "idle" => ~(g > r)
    BY <1>1, <1>7, EntryIs
  <2> QED BY <2>1 DEF Runs
<1> HIDE DEF l
<1>10. /\ Grows
       /\ (/\ run'[r].event # NoEvent => EventHolds(run[r].event)'
           /\ Undone(run'[r]) /\ OpenedRun(run'[r]) => EntryFollows(r, run'[r], stream')
           /\ EntryHolds(stream)') => ServerInv'
  <2>1. durable' \in [Turns -> RowSet] /\ status' \in StatusSet /\ stream' \in StreamSet
    BY <1>1, <1>2, <1>6 DEF ServerInv, ServerTypes
  <2>2. \A g \in Runs : run[g].pc # "idle" /\ (stream.gen # 0 => g <= stream.gen)
                          => (stream'.gen # 0 => g <= stream'.gen)
    BY <1>2, <1>6, <1>9
  <2>3. Undone(run'[r]) => /\ Undone(run[r])
                           /\ status' \in Active /\ durable'[run[r].turn].status \in Active
    BY <1>1, <1>2, <1>7, EntryIs
  <2>4. run[r].pc # "idle" /\ run'[r].pc # "idle"
    BY <1>2, <1>3
  <2> QED BY <1>1, <1>2, <1>3, <1>7, <1>8, <2>1, <2>2, <2>3, <2>4, RunMoves
<1>11. EntryFollows(r, run'[r], stream')
  BY <1>2, <1>3, <1>5, <1>6, EmptyIs DEF EntryFollows, ChunkIsNext
<1>12. EntryHolds(stream)'
  <2>1. Announced(r, run[r].turn)'
    BY <1>2, <1>3, <1>6, <1>7 DEF Announced, Opened, Runs
  <2>2. PICK k : k = l
    OBVIOUS
  <2>3. Announced(k.gen, k.turn)'
    <3>1. PICK n : n = run[r].turn
      OBVIOUS
    <3>2. Announced(r, n)'
      BY <1>3, <2>1, <3>1
    <3> QED BY <1>6, <2>2, <3>1, <3>2
  <2>4. EntryHolds(k)'
    BY <1>6, <2>2, <2>3 DEF EntryHolds, Runs
  <2> QED BY <1>2, <2>2, <2>4
<1>13. ServerInv'
  BY <1>3, <1>5, <1>10, <1>11, <1>12
<1> QED BY <1>1, <1>2, <1>10, <1>13, PageSame

\* An execution under way writes the row of its Assistant and the Task.
LEMMA WritesKeeps ==
    ASSUME ServerInv, NEW r \in Runs, Moves(r), Undone(run[r]),
           NEW row \in RowSet, durable' = [durable EXCEPT ![run[r].turn] = row],
           status' \in StatusSet, stream' = stream,
           run[r].pc # "idle", run'[r].pc # "idle", run'[r].turn = run[r].turn, RunHolds(r, run'[r]),
           OpenedRun(run'[r]),
           Undone(run'[r]) => /\ status' \in Active /\ row.status \in Active
                              /\ EntryFollows(r, run'[r], stream)
    PROVE  /\ Grows
           /\ (run'[r].event # NoEvent => EventHolds(run[r].event)') => ServerInv'
<1>1. ServerTypes /\ EntryHolds(stream)
  BY DEF ServerInv
<1>2. run[r].turn \in Turns /\ durable \in [Turns -> RowSet]
  BY <1>1, RunIs DEF ServerTypes
<1>3. /\ durable' \in [Turns -> RowSet] /\ durable'[run[r].turn] = row
      /\ \A n \in Turns : n # run[r].turn => durable'[n] = durable[n]
  BY <1>2
<1>4. durable[run[r].turn].status \in Active
  BY EntryIs
<1>5. \A n \in Turns : durable[n].status \in {"COMPLETED", "CANCELLED"} => durable'[n] = durable[n]
  BY <1>3, <1>4 DEF Active
<1>6. /\ Grows
      /\ (/\ run'[r].event # NoEvent => EventHolds(run[r].event)'
          /\ Undone(run'[r]) /\ OpenedRun(run'[r]) => EntryFollows(r, run'[r], stream')
          /\ EntryHolds(stream)') => ServerInv'
  <2>1. stream' \in StreamSet /\ stream' = stream
    BY <1>1 DEF ServerTypes
  <2> QED BY <1>3, <1>5, <2>1, RunMoves
<1>7. EntryHolds(stream)'
  <2>1. PICK l : l = stream
    OBVIOUS
  <2>2. EntryHolds(l)'
    BY <1>1, <1>6, <2>1, EntryStillHolds
  <2> QED BY <2>1, <2>2
<1> QED BY <1>6, <1>7

\* The row and the Task become RUNNING.
LEMMA BeginKeeps ==
    ASSUME StreamInv, NEW r \in Runs, Begin(r)
    PROVE  ServerInv' /\ PageInv'
<1> DEFINE row == [durable[run[r].turn] EXCEPT !.status = "RUNNING"]
           x == [run[r] EXCEPT !.event = StartOf(r), !.pc = "store"]
<1>1. ServerInv /\ PageInv
  BY DEF StreamInv
<1>2. /\ run[r].pc = "begin" /\ status' = "RUNNING" /\ stream' = stream
      /\ durable' = [durable EXCEPT ![run[r].turn].status = "RUNNING"]
      /\ run' = [run EXCEPT ![r].event = StartOf(r), ![r].pc = "store"]
      /\ UNCHANGED <<room, ask, wire, page>>
  BY DEF Begin
<1>3. /\ RunHolds(r, run[r]) /\ run[r].turn \in Turns /\ run \in [Runs -> RunSet] /\ run[r] \in RunSet
      /\ durable \in [Turns -> RowSet]
  BY <1>1, <1>2, RunIs DEF ServerInv, ServerTypes
<1>4. run[r].pending = <<>> /\ run[r].event = NoEvent /\ run[r].then = "over"
  BY <1>2, <1>3 DEF RunHolds
<1>5. row \in RowSet /\ row.status = "RUNNING" /\ durable' = [durable EXCEPT ![run[r].turn] = row]
  <2>1. durable[run[r].turn] \in RowSet
    BY <1>3
  <2>2. row \in RowSet /\ row.status = "RUNNING"
    BY <2>1, StatusesAre DEF RowSet
  <2> QED BY <1>2, <1>3, <2>2
<1>6. StartOf(r) \in RunEvents /\ StartOf(r).kind = "start" /\ StartOf(r).gen = r /\ StartOf(r).turn = run[r].turn
  BY <1>3 DEF StartOf, RunEvents, StartEvents
<1>7. x \in RunSet /\ x.pc = "store" /\ x.turn = run[r].turn /\ x.units = run[r].units
      /\ x.pending = run[r].pending /\ x.event = StartOf(r) /\ x.then = run[r].then
  <2> DEFINE e == StartOf(r)
  <2> HIDE DEF e
  <2>1. e \in RunEvents /\ x = [run[r] EXCEPT !.event = e, !.pc = "store"]
    BY <1>6 DEF e
  <2>2. x \in RunSet /\ x.pc = "store" /\ x.turn = run[r].turn /\ x.units = run[r].units
        /\ x.pending = run[r].pending /\ x.event = e /\ x.then = run[r].then
    BY <1>3, <2>1 DEF RunSet, Stages
  <2> QED BY <2>2 DEF e
<1>8. run' = [run EXCEPT ![r] = x]
  BY <1>2, <1>3
<1> HIDE DEF x, row
<1>9. Moves(r) /\ run'[r] = x
  BY <1>1, <1>7, <1>8, RunReplaced
<1>10. StartOf(r) # NoEvent
  BY <1>6 DEF NoEvent
<1>11. OpenedRun(x) /\ Undone(run[r]) /\ OpenedRun(run[r])
  BY <1>2, <1>4, <1>7 DEF OpenedRun, Undone
<1>12. RunHolds(r, x)
  BY <1>3, <1>4, <1>6, <1>7, <1>10, <1>11, EmptyIs DEF RunHolds
<1>13. EntryFollows(r, run[r], stream)
  BY <1>1, <1>11, EntryIs
<1>14. EntryFollows(r, x, stream)
  BY <1>7, <1>13 DEF EntryFollows, ChunkIsNext
<1>15. /\ Grows
       /\ (run'[r].event # NoEvent => EventHolds(run[r].event)') => ServerInv'
  <2>1. status' \in Active /\ row.status \in Active /\ status' \in StatusSet
    BY <1>2, <1>5, StatusesAre
  <2>2. run[r].pc # "idle" /\ run'[r].pc # "idle" /\ run'[r].turn = run[r].turn
    BY <1>2, <1>7, <1>9
  <2> QED BY <1>1, <1>2, <1>5, <1>9, <1>11, <1>12, <1>14, <2>1, <2>2, WritesKeeps
<1>16. EventHolds(run[r].event)'
  <2>1. PICK e : e = StartOf(r)
    OBVIOUS
  <2>2. Announced(e.gen, e.turn)'
    <3>1. run'[r].turn = run[r].turn /\ OpenedRun(run'[r]) /\ stream'.gen = r
      BY <1>2, <1>7, <1>9, <1>11, <1>13 DEF EntryFollows
    <3>2. r <= r
      BY DEF Runs
    <3>3. Opened(r)'
      BY <3>1 DEF Opened
    <3>4. e.gen = r /\ e.turn = run'[r].turn
      BY <1>6, <2>1, <3>1
    <3> QED BY <3>1, <3>2, <3>3, <3>4 DEF Announced
  <2>3. EventHolds(e)'
    BY <1>6, <2>1, <2>2 DEF EventHolds
  <2> QED BY <1>7, <1>9, <2>1, <2>3
<1> QED BY <1>1, <1>2, <1>15, <1>16, PageSame

\* Closing the open blocks makes blocks.
LEMMA CloseAllTyped ==
    ASSUME NEW blocks \in Blocks
    PROVE  CloseAll(blocks) \in Blocks
<1>1. Len(blocks) \in Nat /\ DOMAIN blocks = 1 .. Len(blocks) /\ \A i \in DOMAIN blocks : blocks[i] \in BlockSet
  BY DEF Blocks
<1>2. \A i \in DOMAIN blocks : [blocks[i] EXCEPT !.open = FALSE] \in BlockSet
  BY <1>1 DEF BlockSet
<1>3. CloseAll(blocks) \in [1 .. Len(blocks) -> BlockSet]
  BY <1>1, <1>2 DEF CloseAll
<1> HIDE DEF CloseAll
<1> QED BY <1>1, <1>3 DEF Blocks

\* The blocks of an execution, closed or not.
LEMMA BlocksOfRun ==
    ASSUME ServerInv, NEW r \in Runs
    PROVE  run[r].blocks \in Blocks /\ CloseAll(run[r].blocks) \in Blocks
<1>1. run[r].blocks \in Blocks
  BY RunIs
<1> QED BY <1>1, CloseAllTyped

\* The outcome is stored, and announced by the event that follows.
LEMMA ConcludeKeeps ==
    ASSUME StreamInv, NEW r \in Runs, NEW outcome \in Terminal, NEW blocks \in Blocks,
           run[r].pc \in {"begin", "loop"}, Conclude(r, outcome, blocks)
    PROVE  ServerInv' /\ PageInv'
<1> DEFINE row == [status |-> outcome, blocks |-> blocks]
           e == EndOf(r, outcome, blocks)
           x == [run[r] EXCEPT !.event = e, !.pc = "store", !.pending = <<>>]
<1>1. ServerInv /\ PageInv
  BY DEF StreamInv
<1>2. /\ status' = outcome /\ stream' = stream
      /\ durable' = [durable EXCEPT ![run[r].turn] = row]
      /\ run' = [run EXCEPT ![r] = x]
      /\ UNCHANGED <<room, ask, wire, page>>
  BY DEF Conclude, Settle
<1>3. /\ RunHolds(r, run[r]) /\ run[r].turn \in Turns /\ run[r] \in RunSet
      /\ durable \in [Turns -> RowSet]
  BY <1>1, RunIs DEF ServerInv, ServerTypes
<1>4. run[r].then = "over"
  BY <1>3 DEF RunHolds
<1>5. row \in RowSet /\ outcome \in StatusSet
  BY StatusesAre DEF RowSet
<1>6. /\ e \in RunEvents /\ e.kind = "ended" /\ e.gen = r /\ e.turn = run[r].turn
      /\ e.status = outcome /\ e.blocks = blocks
  BY <1>3 DEF EndOf, RunEvents, EndedEvents
<1> HIDE DEF e, row
<1>7. x \in RunSet /\ x.pc = "store" /\ x.turn = run[r].turn /\ x.units = run[r].units
      /\ x.pending = <<>> /\ x.event = e /\ x.then = run[r].then
  BY <1>3, <1>6, EmptyIs DEF RunSet, Stages
<1> HIDE DEF x
<1>8. Moves(r) /\ run'[r] = x
  BY <1>1, <1>2, <1>7, RunReplaced
<1>9. e # NoEvent
  BY <1>6 DEF NoEvent
<1>10. OpenedRun(x) /\ Undone(run[r]) /\ ~Undone(x)
  BY <1>4, <1>6, <1>7 DEF OpenedRun, Undone
<1>11. RunHolds(r, x)
  BY <1>3, <1>4, <1>6, <1>7, <1>9, <1>10, EmptyIs DEF RunHolds
<1>12. /\ Grows
       /\ (run'[r].event # NoEvent => EventHolds(run[r].event)') => ServerInv'
  <2>1. run[r].pc # "idle" /\ run'[r].pc # "idle" /\ run'[r].turn = run[r].turn
    BY <1>7, <1>8
  <2> QED BY <1>1, <1>2, <1>5, <1>8, <1>10, <1>11, <2>1, WritesKeeps
<1>13. EventHolds(run[r].event)'
  <2>1. PICK m : m = e
    OBVIOUS
  <2>2. Settled(m.gen)'
    <3>1. m.gen = r
      BY <1>6, <2>1
    <3>2. ~Unsettled(r)' /\ run'[r].pc # "idle"
      BY <1>7, <1>8, <1>10, UndoneIs
    <3> QED BY <3>1, <3>2 DEF Settled
  <2>3. Stored(m.turn, m)'
    <3>1. durable'[m.turn] = [status |-> m.status, blocks |-> m.blocks]
      BY <1>2, <1>3, <1>6, <2>1 DEF row
    <3> QED BY <3>1 DEF Stored
  <2>4. EventHolds(m)'
    BY <1>6, <2>1, <2>2, <2>3 DEF EventHolds
  <2> QED BY <1>7, <1>8, <2>1, <2>4
<1> QED BY <1>1, <1>2, <1>12, <1>13, PageSame

\* The three outcomes: the runtime ends,
LEMMA CompleteKeeps ==
    ASSUME StreamInv, NEW r \in Runs, Complete(r)
    PROVE  ServerInv' /\ PageInv'
<1>1. run[r].pc \in {"begin", "loop"} /\ Conclude(r, "COMPLETED", run[r].blocks)
  BY DEF Complete, Accepting
<1>2. "COMPLETED" \in Terminal
  BY DEF Terminal
<1>3. run[r].blocks \in Blocks
  BY BlocksOfRun DEF StreamInv
<1> QED BY <1>1, <1>2, <1>3, ConcludeKeeps

\* it is cancelled,
LEMMA CancelKeeps ==
    ASSUME StreamInv, NEW r \in Runs, Cancel(r)
    PROVE  ServerInv' /\ PageInv'
<1>1. run[r].pc \in {"begin", "loop"} /\ Conclude(r, "CANCELLED", CloseAll(run[r].blocks))
  BY DEF Cancel
<1>2. "CANCELLED" \in Terminal
  BY DEF Terminal
<1>3. CloseAll(run[r].blocks) \in Blocks
  BY BlocksOfRun DEF StreamInv
<1> QED BY <1>1, <1>2, <1>3, ConcludeKeeps

\* or it fails.
LEMMA FailKeeps ==
    ASSUME StreamInv, NEW r \in Runs, Fail(r)
    PROVE  ServerInv' /\ PageInv'
<1>1. run[r].pc \in {"begin", "loop"} /\ Conclude(r, "FAILED", CloseAll(run[r].blocks))
  BY DEF Fail, Accepting
<1>2. "FAILED" \in Terminal
  BY DEF Terminal
<1>3. CloseAll(run[r].blocks) \in Blocks
  BY BlocksOfRun DEF StreamInv
<1> QED BY <1>1, <1>2, <1>3, ConcludeKeeps

\* A failed call: an outcome goes its way without its event, anything else is
\* settled as failed.
LEMMA EmitFailsKeeps ==
    ASSUME StreamInv, NEW r \in Runs, EmitFails(r)
    PROVE  ServerInv' /\ PageInv'
<1>1. ServerInv /\ PageInv
  BY DEF StreamInv
<1>2. /\ run[r].pc \in {"open", "store", "emit"} /\ stream' = stream
      /\ UNCHANGED <<room, ask, wire, page>>
  BY DEF EmitFails
<1>3. RunHolds(r, run[r])
  BY <1>1, RunIs
<1>4. Grows /\ ServerInv'
  <2>1. CASE run[r].event.kind = "ended"
    <3>1. run[r].event # NoEvent
      BY <2>1 DEF NoEvent
    <3>2. run[r].pc \in {"store", "emit"}
      BY <1>3, <3>1 DEF RunHolds
    <3>3. durable' = durable /\ status' = status
      BY <2>1 DEF EmitFails
    <3>4. CASE run[r].pc = "store"
      BY <1>1, <1>2, <2>1, <3>3, <3>4, BriefKeeps DEF EmitFails
    <3>5. CASE run[r].pc = "emit"
      BY <1>1, <1>2, <2>1, <3>3, <3>5, FinishKeeps DEF EmitFails
    <3> QED BY <3>2, <3>4, <3>5
  <2>2. CASE run[r].event.kind # "ended"
    <3>1. PICK outcome \in {"FAILED", "CANCELLED"} : Settle(r, outcome, CloseAll(run[r].blocks))
      BY <2>2 DEF EmitFails
    <3> DEFINE row == [status |-> outcome, blocks |-> CloseAll(run[r].blocks)]
    <3>2. /\ Moves(r)
          /\ run'[r].pc = "brief" /\ run'[r].turn = run[r].turn /\ run'[r].blocks = run[r].blocks
          /\ run'[r].units = run[r].units /\ run'[r].pending = <<>>
          /\ run'[r].event = NoEvent /\ run'[r].then = "cleanup"
      BY <1>1, <2>2, BriefIs DEF EmitFails
    <3>3. OpenedRun(run'[r]) /\ ~Undone(run'[r]) /\ Undone(run[r])
      BY <1>2, <2>2, <3>2 DEF OpenedRun, Undone
    <3>4. RunHolds(r, run'[r])
      BY <1>2, <1>3, <3>2, <3>3, EmptyIs DEF RunHolds
    <3>5. CloseAll(run[r].blocks) \in Blocks /\ outcome \in StatusSet
      <4>1. CloseAll(run[r].blocks) \in Blocks
        BY <1>1, BlocksOfRun
      <4>2. outcome \in StatusSet
        BY DEF StatusSet, Terminal
      <4> QED BY <4>1, <4>2
    <3>6. row \in RowSet
      BY <3>5 DEF RowSet
    <3>7. status' = outcome /\ durable' = [durable EXCEPT ![run[r].turn] = row]
      BY <3>1 DEF Settle
    <3> HIDE DEF row
    <3>8. run[r].pc # "idle" /\ run'[r].pc # "idle"
      BY <1>2, <3>2
    <3> QED BY <1>1, <1>2, <3>2, <3>3, <3>4, <3>5, <3>6, <3>7, <3>8, WritesKeeps
  <2> QED BY <2>1, <2>2
<1> QED BY <1>1, <1>2, <1>4, PageSame

\* The reducer of an execution takes an event of the runtime.
LEMMA AcceptKeeps ==
    ASSUME StreamInv, NEW r \in Runs, Accepting(r),
           NEW blocks \in Blocks, NEW units \in 0 .. MaxUnits, NEW pending \in Seq(BlockEvents),
           Accept(r, blocks, units, pending),
           \A i \in DOMAIN pending : pending[i].gen = r /\ pending[i].turn = run[r].turn,
           \A i \in DOMAIN pending : pending[i].kind = "chunk" => i = Len(pending),
           units = IF \E i \in DOMAIN pending : pending[i].kind = "chunk" THEN run[r].units + 1
                   ELSE run[r].units
    PROVE  ServerInv' /\ PageInv'
<1> DEFINE x == [run[r] EXCEPT !.blocks = blocks, !.units = units, !.pending = pending]
<1>1. ServerInv /\ PageInv
  BY DEF StreamInv
<1>2. /\ run[r].pc = "loop" /\ run[r].pending = <<>> /\ UNCHANGED <<durable, status, stream>>
      /\ run' = [run EXCEPT ![r] = x]
      /\ UNCHANGED <<room, ask, wire, page>>
  BY DEF Accept, Accepting
<1>3. RunHolds(r, run[r]) /\ run[r] \in RunSet
  BY <1>1, RunIs
<1>4. run[r].then = "over" /\ run[r].event = NoEvent
  BY <1>2, <1>3 DEF RunHolds
<1>5. x \in RunSet /\ x.pc = "loop" /\ x.turn = run[r].turn /\ x.units = units
      /\ x.pending = pending /\ x.event = NoEvent /\ x.then = "over"
  BY <1>2, <1>3, <1>4 DEF RunSet
<1> HIDE DEF x
<1>6. Moves(r) /\ run'[r] = x
  BY <1>1, <1>2, <1>5, RunReplaced
<1>7. OpenedRun(x) /\ Undone(run[r]) /\ OpenedRun(run[r])
  BY <1>2, <1>4, <1>5 DEF OpenedRun, Undone
<1>8. RunHolds(r, x)
  <2>1. NoEvent.kind \notin {"start", "ended"}
    BY DEF NoEvent
  <2> QED BY <1>2, <1>3, <1>5, <1>7, <2>1 DEF RunHolds
<1>9. EntryFollows(r, run[r], stream)
  BY <1>1, <1>7, EntryIs
<1>10. run[r].units = Len(stream.cached)
  BY <1>2, <1>9, EmptyIs DEF EntryFollows, ChunkIsNext
<1>11. EntryFollows(r, x, stream)
  BY <1>5, <1>9, <1>10 DEF EntryFollows, ChunkIsNext
<1>12. Grows /\ ServerInv'
  <2>1. run[r].pc # "idle" /\ run'[r].pc # "idle"
    BY <1>2, <1>5, <1>6
  <2> QED BY <1>1, <1>2, <1>4, <1>5, <1>6, <1>7, <1>8, <1>11, <2>1, MovesAlone
<1> QED BY <1>1, <1>2, <1>12, PageSame

\* The open block of an execution.
LEMMA TipTyped ==
    ASSUME ServerInv, NEW r \in Runs, run[r].blocks # <<>>
    PROVE  Tip(r) \in BlockSet /\ Len(run[r].blocks) \in DOMAIN run[r].blocks
<1>1. run[r].blocks \in Seq(BlockSet)
  BY RunIs DEF Blocks
<1> QED BY <1>1 DEF Tip, Last

\* A unit of text makes the last block longer.
LEMMA GrownTyped ==
    ASSUME NEW blocks \in Blocks, blocks # <<>>, NEW unit \in Nat
    PROVE  Grown(blocks, unit) \in Blocks
<1> DEFINE k == Len(blocks)
<1>1. k \in DOMAIN blocks /\ blocks \in Seq(BlockSet)
  BY DEF Blocks
<1> HIDE DEF k
<1>2. blocks[k] \in BlockSet
  BY <1>1
<1>3. Append(blocks[k].text, unit) \in Seq(Nat)
  BY <1>2, AppendIs DEF BlockSet
<1>4. [blocks[k] EXCEPT !.text = Append(@, unit)] \in BlockSet
  BY <1>2, <1>3 DEF BlockSet
<1>5. Grown(blocks, unit) = [blocks EXCEPT ![k] = [blocks[k] EXCEPT !.text = Append(@, unit)]]
  BY <1>1 DEF Grown, k
<1>6. \A b \in BlockSet : [blocks EXCEPT ![k] = b] \in Seq(BlockSet)
  BY <1>1
<1> QED BY <1>4, <1>5, <1>6 DEF Blocks

\* A block that opens is a block.
LEMMA NewBlockTyped ==
    ASSUME ServerInv, NEW r \in Runs, NEW kind \in {"text", "tool"}
    PROVE  /\ NewBlock(r, kind) \in BlockSet
           /\ Append(run[r].blocks, NewBlock(r, kind)) \in Blocks
           /\ Append(run[r].blocks, NewBlock(r, kind)) # <<>>
<1>1. run[r].blocks \in Seq(BlockSet) /\ Len(run[r].blocks) + 1 \in Nat
  <2>1. run[r].blocks \in Seq(BlockSet)
    BY RunIs DEF Blocks
  <2> QED BY <2>1
<1>2. NewBlock(r, kind) \in BlockSet
  BY <1>1, EmptyIs DEF NewBlock, Block, BlockSet
<1> HIDE DEF NewBlock
<1> QED BY <1>1, <1>2, AppendIs DEF Blocks

\* The events of blocks.
LEMMA BlockEventsAre ==
    ASSUME ServerInv, NEW r \in Runs, run[r].pc # "idle"
    PROVE  /\ \A block \in BlockSet :
                /\ Created(r, block) \in BlockEvents /\ Created(r, block).kind = "created"
                /\ Created(r, block).gen = r /\ Created(r, block).turn = run[r].turn
                /\ Updated(r, block) \in BlockEvents /\ Updated(r, block).kind = "updated"
                /\ Updated(r, block).gen = r /\ Updated(r, block).turn = run[r].turn
           /\ \A id \in Runs \X Nat, at \in Nat : run[r].units < MaxUnits =>
                /\ Chunk(r, id, at) \in BlockEvents /\ Chunk(r, id, at).kind = "chunk"
                /\ Chunk(r, id, at).gen = r /\ Chunk(r, id, at).turn = run[r].turn
<1>1. run[r].turn \in Turns /\ run[r].units \in Nat
  BY RunIs, BoundsAssumption
<1> QED BY <1>1 DEF Created, Updated, Chunk, BlockEvents, CreatedEvents, UpdatedEvents, ChunkEvents

\* Sequences of one and two events.
LEMMA OneIs ==
    ASSUME NEW S, NEW a \in S
    PROVE  /\ <<a>> \in Seq(S) /\ DOMAIN <<a>> = {1} /\ Len(<<a>>) = 1 /\ <<a>>[1] = a
  OBVIOUS
\* Two events.
LEMMA TwoIs ==
    ASSUME NEW S, NEW a \in S, NEW b \in S
    PROVE  /\ <<a, b>> \in Seq(S) /\ DOMAIN <<a, b>> = {1, 2} /\ Len(<<a, b>>) = 2
           /\ <<a, b>>[1] = a /\ <<a, b>>[2] = b
  OBVIOUS

\* There is room for another unit.
LEMMA UnitsGrow ==
    ASSUME ServerInv, NEW r \in Runs, run[r].units < MaxUnits
    PROVE  run[r].units \in Nat /\ run[r].units + 1 \in 0 .. MaxUnits
  BY RunIs, BoundsAssumption

\* The first delta of a text opens its block: the chunk is the last of two events.
LEMMA FirstDeltaKeeps ==
    ASSUME StreamInv, NEW r \in Runs, FirstDelta(r)
    PROVE  ServerInv' /\ PageInv'
<1> DEFINE block == NewBlock(r, "text")
           a == Created(r, block)
           b == Chunk(r, block.id, 0)
           blocks == Grown(Append(run[r].blocks, block), run[r].units)
<1>1. /\ Accepting(r) /\ run[r].units < MaxUnits
      /\ Accept(r, blocks, run[r].units + 1, <<a, b>>)
  BY DEF FirstDelta, Opening
<1>2. ServerInv /\ run[r].pc # "idle"
  BY <1>1 DEF StreamInv, Accepting
<1>3. run[r].units \in Nat /\ run[r].units + 1 \in 0 .. MaxUnits
  BY <1>1, <1>2, UnitsGrow
<1>4. block \in BlockSet /\ Append(run[r].blocks, block) \in Blocks /\ Append(run[r].blocks, block) # <<>>
  BY <1>2, NewBlockTyped
<1>5. blocks \in Blocks
  BY <1>3, <1>4, GrownTyped
<1> HIDE DEF block, blocks
<1>6. block.id \in Runs \X Nat /\ 0 \in Nat
  BY <1>4 DEF BlockSet
<1>7. /\ a \in BlockEvents /\ a.kind = "created" /\ a.gen = r /\ a.turn = run[r].turn
      /\ b \in BlockEvents /\ b.kind = "chunk" /\ b.gen = r /\ b.turn = run[r].turn
  BY <1>1, <1>2, <1>4, <1>6, BlockEventsAre
<1> HIDE DEF a, b
<1>8. /\ <<a, b>> \in Seq(BlockEvents) /\ DOMAIN <<a, b>> = {1, 2} /\ Len(<<a, b>>) = 2
      /\ <<a, b>>[1] = a /\ <<a, b>>[2] = b
  BY <1>7, TwoIs
<1> DEFINE pending == <<a, b>>
<1> HIDE DEF pending
<1>9. /\ \A i \in DOMAIN pending : pending[i].gen = r /\ pending[i].turn = run[r].turn
      /\ \A i \in DOMAIN pending : pending[i].kind = "chunk" => i = Len(pending)
      /\ \E i \in DOMAIN pending : pending[i].kind = "chunk"
      /\ pending \in Seq(BlockEvents)
  BY <1>7, <1>8 DEF pending
<1>10. Accept(r, blocks, run[r].units + 1, pending)
  BY <1>1 DEF pending
<1> QED BY <1>1, <1>3, <1>5, <1>9, <1>10, AcceptKeeps

\* Another delta is a chunk alone.
LEMMA NextDeltaKeeps ==
    ASSUME StreamInv, NEW r \in Runs, NextDelta(r)
    PROVE  ServerInv' /\ PageInv'
<1> DEFINE b == Chunk(r, Tip(r).id, Len(Tip(r).text))
           blocks == Grown(run[r].blocks, run[r].units)
<1>1. /\ Accepting(r) /\ ~Idle(r) /\ run[r].units < MaxUnits
      /\ Accept(r, blocks, run[r].units + 1, <<b>>)
  BY DEF NextDelta
<1>2. ServerInv /\ run[r].pc # "idle" /\ run[r].blocks # <<>>
  BY <1>1 DEF StreamInv, Accepting, Idle
<1>3. run[r].units \in Nat /\ run[r].units + 1 \in 0 .. MaxUnits
  BY <1>1, <1>2, UnitsGrow
<1>4. Tip(r) \in BlockSet
  BY <1>2, TipTyped
<1>5. blocks \in Blocks
  BY <1>2, <1>3, BlocksOfRun, GrownTyped
<1> HIDE DEF blocks
<1>6. Tip(r).id \in Runs \X Nat /\ Len(Tip(r).text) \in Nat
  BY <1>4 DEF BlockSet
<1>7. b \in BlockEvents /\ b.kind = "chunk" /\ b.gen = r /\ b.turn = run[r].turn
  BY <1>1, <1>2, <1>6, BlockEventsAre
<1> HIDE DEF b
<1>8. <<b>> \in Seq(BlockEvents) /\ DOMAIN <<b>> = {1} /\ Len(<<b>>) = 1 /\ <<b>>[1] = b
  BY <1>7, OneIs
<1> DEFINE pending == <<b>>
<1> HIDE DEF pending
<1>9. /\ \A i \in DOMAIN pending : pending[i].gen = r /\ pending[i].turn = run[r].turn
      /\ \A i \in DOMAIN pending : pending[i].kind = "chunk" => i = Len(pending)
      /\ \E i \in DOMAIN pending : pending[i].kind = "chunk"
      /\ pending \in Seq(BlockEvents)
  BY <1>7, <1>8 DEF pending
<1>10. Accept(r, blocks, run[r].units + 1, pending)
  BY <1>1 DEF pending
<1> QED BY <1>1, <1>3, <1>5, <1>9, <1>10, AcceptKeeps

\* A block that opens or closes adds no text.
LEMMA BlockAccepted ==
    ASSUME StreamInv, NEW r \in Runs, Accepting(r), NEW blocks \in Blocks,
           NEW a \in BlockEvents, a.kind # "chunk", a.gen = r, a.turn = run[r].turn,
           Accept(r, blocks, run[r].units, <<a>>)
    PROVE  ServerInv' /\ PageInv'
<1>1. <<a>> \in Seq(BlockEvents) /\ DOMAIN <<a>> = {1} /\ Len(<<a>>) = 1 /\ <<a>>[1] = a
  BY OneIs
<1> DEFINE pending == <<a>>
<1> HIDE DEF pending
<1>2. /\ \A i \in DOMAIN pending : pending[i].gen = r /\ pending[i].turn = run[r].turn
      /\ \A i \in DOMAIN pending : pending[i].kind # "chunk"
      /\ pending \in Seq(BlockEvents)
  BY <1>1 DEF pending
<1>3. Accept(r, blocks, run[r].units, pending)
  BY DEF pending
<1>4. run[r].units \in 0 .. MaxUnits
  BY RunIs DEF StreamInv
<1> QED BY <1>2, <1>3, <1>4, AcceptKeeps

\* A call of a tool opens a block,
LEMMA StartToolKeeps ==
    ASSUME StreamInv, NEW r \in Runs, StartTool(r)
    PROVE  ServerInv' /\ PageInv'
<1> DEFINE block == NewBlock(r, "tool")
           blocks == Append(run[r].blocks, block)
           a == Created(r, block)
<1>1. Accepting(r) /\ Accept(r, blocks, run[r].units, <<a>>)
  BY DEF StartTool, Opening
<1>2. ServerInv /\ run[r].pc # "idle"
  BY <1>1 DEF StreamInv, Accepting
<1>3. block \in BlockSet /\ blocks \in Blocks
  BY <1>2, NewBlockTyped
<1> HIDE DEF block, blocks
<1>4. a \in BlockEvents /\ a.kind = "created" /\ a.gen = r /\ a.turn = run[r].turn
  BY <1>2, <1>3, BlockEventsAre
<1> HIDE DEF a
<1> QED BY <1>1, <1>3, <1>4, BlockAccepted

\* and the end of a text or of a call closes one.
LEMMA EndBlockKeeps ==
    ASSUME StreamInv, NEW r \in Runs, EndBlock(r)
    PROVE  ServerInv' /\ PageInv'
<1> DEFINE block == [Tip(r) EXCEPT !.open = FALSE]
           blocks == Front(run[r].blocks) \o <<block>>
           a == Updated(r, block)
<1>1. Accepting(r) /\ ~Idle(r) /\ Accept(r, blocks, run[r].units, <<a>>)
  BY DEF EndBlock
<1>2. ServerInv /\ run[r].pc # "idle" /\ run[r].blocks # <<>>
  BY <1>1 DEF StreamInv, Accepting, Idle
<1>3. block \in BlockSet
  <2>1. Tip(r) \in BlockSet
    BY <1>2, TipTyped
  <2> QED BY <2>1 DEF BlockSet
<1> HIDE DEF block
<1>4. blocks \in Blocks
  <2>1. run[r].blocks \in Seq(BlockSet)
    BY <1>2, BlocksOfRun DEF Blocks
  <2>2. Front(run[r].blocks) \in Seq(BlockSet)
    BY <1>2, <2>1 DEF Front
  <2>3. <<block>> \in Seq(BlockSet)
    BY <1>3, OneIs
  <2> QED BY <2>2, <2>3 DEF Blocks
<1>5. a \in BlockEvents /\ a.kind = "updated" /\ a.gen = r /\ a.turn = run[r].turn
  BY <1>2, <1>3, BlockEventsAre
<1> HIDE DEF a, blocks
<1> QED BY <1>1, <1>4, <1>5, BlockAccepted

\* An element of a sequence is replaced.
LEMMA ReplacedIs ==
    ASSUME NEW S, NEW s \in Seq(S), NEW e \in S, NEW i
    PROVE  [s EXCEPT ![i] = e] \in Seq(S)
<1>1. Len(s) \in Nat /\ s \in [1 .. Len(s) -> S]
  OBVIOUS
<1>2. [s EXCEPT ![i] = e] \in [1 .. Len(s) -> S]
  BY <1>1
<1>3. \A n \in Nat : \A t \in [1 .. n -> S] : t \in Seq(S)
  OBVIOUS
<1> QED BY <1>1, <1>2, <1>3

\* One element less.
LEMMA TailLength ==
    ASSUME NEW S, NEW s \in Seq(S), s # <<>>
    PROVE  Len(Tail(s)) = Len(s) - 1
  OBVIOUS

\* What the store keeps of an event: its entry stays that of the execution.
LEMMA KeptIs ==
    ASSUME ServerInv, NEW e \in BlockEvents,
           e.kind = "chunk" => Len(stream.cached) + 1 <= MaxUnits
    PROVE  /\ Kept(e) \in StreamSet /\ Kept(e).gen = stream.gen /\ Kept(e).turn = stream.turn
           /\ Len(Kept(e).cached) = IF e.kind = "chunk" THEN Len(stream.cached) + 1 ELSE Len(stream.cached)
<1>1. stream \in StreamSet /\ stream.cached \in Seq(Nat) /\ stream.blocks \in Blocks
      /\ stream \in [turn : Turns \cup {0}, gen : Runs \cup {0}, cached : Seq(Nat), blocks : Blocks]
      /\ Len(stream.cached) <= MaxUnits
  BY DEF ServerInv, ServerTypes, StreamSet
<1>2. CASE e.kind = "chunk"
  <2>1. e.offset \in Nat
    BY <1>2 DEF BlockEvents, CreatedEvents, UpdatedEvents, ChunkEvents
  <2>2. Append(stream.cached, e.offset) \in Seq(Nat) /\ Len(Append(stream.cached, e.offset)) = Len(stream.cached) + 1
    BY <1>1, <2>1, AppendIs
  <2>3. Kept(e) = [stream EXCEPT !.cached = Append(@, e.offset)]
    BY <1>2 DEF Kept
  <2> QED BY <1>1, <1>2, <2>2, <2>3 DEF StreamSet
<1>3. CASE e.kind # "chunk"
  <2>1. e.block \in BlockSet
    BY <1>3 DEF BlockEvents, CreatedEvents, UpdatedEvents, ChunkEvents
  <2>2. PICK blocks \in Blocks : Kept(e) = [stream EXCEPT !.blocks = blocks]
    <3>1. CASE e.kind = "created"
      <4>1. Append(stream.blocks, e.block) \in Blocks
        BY <1>1, <2>1, AppendIs DEF Blocks
      <4>2. Kept(e) = [stream EXCEPT !.blocks = Append(stream.blocks, e.block)]
        BY <1>1, <1>3, <3>1 DEF Kept
      <4> QED BY <4>1, <4>2
    <3>2. CASE e.kind # "created"
      <4> DEFINE blocks == [stream.blocks EXCEPT ![Len(stream.blocks)] = e.block]
      <4>1. blocks \in Blocks
        <5>1. stream.blocks \in Seq(BlockSet)
          BY <1>1 DEF Blocks
        <5>2. blocks \in Seq(BlockSet)
          BY <2>1, <5>1, ReplacedIs
        <5> QED BY <5>2 DEF Blocks
      <4>2. Kept(e) = [stream EXCEPT !.blocks = blocks]
        BY <1>1, <1>3, <3>2 DEF Kept
      <4> QED BY <4>1, <4>2
    <3> QED BY <3>1, <3>2
  <2> QED BY <1>1, <1>3, <2>2 DEF StreamSet
<1> QED BY <1>2, <1>3

\* The store takes the first event that is pending: a chunk adds to its text exactly
\* what the execution counts.
LEMMA YieldKeeps ==
    ASSUME StreamInv, NEW r \in Runs, Yield(r)
    PROVE  ServerInv' /\ PageInv'
<1> DEFINE old == run[r].pending
           e == Head(old)
           x == [run[r] EXCEPT !.event = e, !.pc = "emit", !.pending = Tail(old)]
<1>1. ServerInv /\ PageInv
  BY DEF StreamInv
<1>2. /\ run[r].pc = "loop" /\ old # <<>> /\ stream.gen = r
      /\ stream' = Kept(e) /\ durable' = durable /\ status' = status
      /\ UNCHANGED <<room, ask, wire, page>>
  BY DEF Yield
<1>3. /\ RunHolds(r, run[r]) /\ run[r] \in RunSet /\ run \in [Runs -> RunSet] /\ old \in Seq(BlockEvents)
      /\ run[r].units \in 0 .. MaxUnits
  BY <1>1, RunIs
<1>4. run[r].then = "over"
  BY <1>2, <1>3 DEF RunHolds
<1>5. /\ Tail(old) \in Seq(BlockEvents) /\ e \in BlockEvents /\ e = old[1] /\ 1 \in DOMAIN old
      /\ Len(old) \in Nat \ {0} /\ DOMAIN old = 1 .. Len(old)
      /\ DOMAIN Tail(old) = 1 .. Len(old) - 1
      /\ \A i \in DOMAIN Tail(old) : /\ i + 1 \in DOMAIN old /\ i + 1 # 1
                                     /\ Tail(old)[i] = old[i + 1]
  BY <1>2, <1>3, TailIs
<1>6. e.gen = r /\ e.turn = run[r].turn
  BY <1>3, <1>5 DEF RunHolds
<1>7. e.kind \in {"created", "updated", "chunk"} /\ e \in RunEvents
  BY <1>5 DEF BlockEvents, CreatedEvents, UpdatedEvents, ChunkEvents, RunEvents
<1>8. run' = [run EXCEPT ![r] = x]
  BY <1>3 DEF Yield
<1> HIDE DEF old, e
<1>9. /\ x \in RunSet /\ x.pc = "emit" /\ x.turn = run[r].turn /\ x.units = run[r].units
      /\ x.pending = Tail(old) /\ x.event = e /\ x.then = "over"
  BY <1>3, <1>4, <1>5, <1>7 DEF RunSet, Stages
<1> HIDE DEF x
<1>10. Moves(r) /\ run'[r] = x
  BY <1>1, <1>8, <1>9, RunReplaced
<1>11. OpenedRun(x) /\ Undone(run[r]) /\ OpenedRun(run[r])
  BY <1>2, <1>4, <1>9 DEF OpenedRun, Undone
<1>12. EntryFollows(r, run[r], stream)
  BY <1>1, <1>11, EntryIs
<1>13. e # NoEvent
  BY <1>7 DEF NoEvent
<1>14. RunHolds(r, x)
  <2>1. \A i \in DOMAIN Tail(old) : Tail(old)[i].gen = r /\ Tail(old)[i].turn = run[r].turn
    BY <1>3, <1>5 DEF RunHolds, old
  <2> QED BY <1>2, <1>3, <1>6, <1>7, <1>9, <1>11, <1>13, <2>1 DEF RunHolds
<1>15. /\ \A i \in DOMAIN old : old[i].kind = "chunk" => i = Len(old)
       /\ run[r].units = IF \E i \in DOMAIN old : old[i].kind = "chunk"
                         THEN Len(stream.cached) + 1 ELSE Len(stream.cached)
  BY <1>12 DEF EntryFollows, ChunkIsNext, old
<1>16. e.kind = "chunk" => Len(old) = 1 /\ run[r].units = Len(stream.cached) + 1
  BY <1>5, <1>15
<1>17. e.kind = "chunk" => Len(stream.cached) + 1 <= MaxUnits
  BY <1>3, <1>16, BoundsAssumption
<1>18. /\ Kept(e) \in StreamSet /\ Kept(e).gen = stream.gen /\ Kept(e).turn = stream.turn
       /\ Len(Kept(e).cached) = IF e.kind = "chunk" THEN Len(stream.cached) + 1 ELSE Len(stream.cached)
  BY <1>1, <1>5, <1>17, KeptIs
<1>19. EntryFollows(r, x, stream')
  <2>1. ASSUME NEW i \in DOMAIN Tail(old), Tail(old)[i].kind = "chunk"
        PROVE  i = Len(Tail(old))
    <3>1. i + 1 = Len(old) /\ i \in Nat
      BY <1>5, <1>15, <2>1
    <3>2. Len(Tail(old)) = Len(old) - 1
      BY <1>2, <1>3, TailLength DEF old
    <3> QED BY <1>5, <3>1, <3>2
  <2>2. CASE e.kind = "chunk"
    <3>1. DOMAIN Tail(old) = {}
      <4>1. DOMAIN Tail(old) = 1 .. Len(old) - 1 /\ Len(old) = 1
        BY <1>5, <1>16, <2>2, Zenon
      <4>2. \A k : k = 1 => 1 .. k - 1 = {}
        OBVIOUS
      <4> QED BY <4>1, <4>2, Zenon
    <3>2. DOMAIN x.pending = {}
      BY <1>9, <3>1
    <3>3. stream'.gen = r /\ x.units = Len(stream'.cached)
      BY <1>2, <1>9, <1>16, <1>18, <2>2
    <3> QED BY <3>2, <3>3 DEF EntryFollows, ChunkIsNext
  <2>3. CASE e.kind # "chunk"
    <3>1. (\E i \in DOMAIN Tail(old) : Tail(old)[i].kind = "chunk") <=> \E i \in DOMAIN old : old[i].kind = "chunk"
      <4>1. ASSUME NEW i \in DOMAIN old, old[i].kind = "chunk"
            PROVE  \E j \in DOMAIN Tail(old) : Tail(old)[j].kind = "chunk"
        <5>1. i # 1
          BY <1>5, <2>3, <4>1
        <5>2. i - 1 \in DOMAIN Tail(old) /\ (i - 1) + 1 = i
          BY <1>5, <4>1, <5>1
        <5>3. Tail(old)[i - 1] = old[i]
          BY <1>5, <5>2
        <5> QED BY <4>1, <5>2, <5>3
      <4>2. ASSUME NEW i \in DOMAIN Tail(old), Tail(old)[i].kind = "chunk"
            PROVE  \E j \in DOMAIN old : old[j].kind = "chunk"
        BY <1>5, <4>2
      <4> QED BY <4>1, <4>2
    <3>2. x.units = IF \E i \in DOMAIN Tail(old) : Tail(old)[i].kind = "chunk"
                    THEN Len(stream'.cached) + 1 ELSE Len(stream'.cached)
      BY <1>2, <1>9, <1>15, <1>18, <2>3, <3>1
    <3>3. stream'.gen = r
      BY <1>2, <1>18
    <3> QED BY <1>9, <2>1, <3>2, <3>3 DEF EntryFollows, ChunkIsNext
  <2> QED BY <2>2, <2>3
<1>20. /\ Grows
       /\ (/\ run'[r].event # NoEvent => EventHolds(run[r].event)'
           /\ Undone(run'[r]) /\ OpenedRun(run'[r]) => EntryFollows(r, run'[r], stream')
           /\ EntryHolds(stream)') => ServerInv'
  <2>1. durable' \in [Turns -> RowSet] /\ status' \in StatusSet /\ stream' \in StreamSet
    BY <1>1, <1>2, <1>18 DEF ServerInv, ServerTypes
  <2>2. stream'.gen = stream.gen
    BY <1>2, <1>18
  <2>3. status' \in Active /\ durable'[run[r].turn].status \in Active
    BY <1>1, <1>2, <1>11, EntryIs
  <2>4. run[r].pc # "idle" /\ run'[r].pc # "idle" /\ run'[r].turn = run[r].turn
    BY <1>2, <1>9, <1>10
  <2> QED BY <1>1, <1>2, <1>10, <1>11, <1>14, <2>1, <2>2, <2>3, <2>4, RunMoves
<1>21. EventHolds(run[r].event)'
  <2>1. PICK m : m = e
    OBVIOUS
  <2>2. EventHolds(m)'
    BY <1>7, <2>1 DEF EventHolds
  <2> QED BY <1>9, <1>10, <2>1, <2>2
<1>22. EntryHolds(stream)'
  <2>1. PICK k : k = stream'
    OBVIOUS
  <2>2. r # 0
    BY DEF Runs
  <2>3. Announced(r, stream.turn)
    BY <1>1, <1>2, <2>2 DEF ServerInv, EntryHolds
  <2>4. PICK n : n = stream.turn
    OBVIOUS
  <2>5. Announced(r, n)'
    BY <1>20, <2>3, <2>4, StillAnnounced
  <2>6. k.gen = r /\ k.turn = n
    BY <1>2, <1>18, <2>1, <2>4
  <2>7. Announced(k.gen, k.turn)'
    BY <2>5, <2>6
  <2>8. EntryHolds(k)'
    BY <2>2, <2>6, <2>7 DEF EntryHolds
  <2> QED BY <2>1, <2>8
<1>23. ServerInv'
  BY <1>10, <1>19, <1>20, <1>21, <1>22
<1> QED BY <1>1, <1>2, <1>20, <1>23, PageSame

\* A request: the next execution is prepared.
LEMMA PrepareKeeps ==
    ASSUME StreamInv, NEW r \in Runs, NEW n \in Turns, NextRun(r), status \notin Active,
           durable[n].status \in {"none", "FAILED"}, Prepare(r, n)
    PROVE  ServerInv' /\ PageInv'
<1> DEFINE row == [Blank EXCEPT !.status = "PENDING"]
           x == [NoRun EXCEPT !.pc = "brief", !.then = "open", !.turn = n]
<1>1. ServerInv /\ PageInv
  BY DEF StreamInv
<1>2. /\ status' = "PENDING" /\ stream' = stream
      /\ durable' = [durable EXCEPT ![n] = row]
      /\ run' = [run EXCEPT ![r] = x]
      /\ UNCHANGED <<room, ask, wire, page>>
  BY DEF Prepare
<1>3. /\ ServerTypes /\ OneByOne /\ RunEventsHold /\ EntryHolds(stream)
      /\ \A q \in Runs : RunInOrder(q) /\ StreamInOrder(q)
  BY <1>1 DEF ServerInv
<1>4. row \in RowSet /\ row.status = "PENDING"
  BY ZeroIsThere, StatusesAre DEF Blank, RowSet
<1>5. /\ x \in RunSet /\ x.pc = "brief" /\ x.then = "open" /\ x.turn = n /\ x.units = 0
      /\ x.pending = <<>> /\ x.event = NoEvent
  BY EmptyIs, ZeroIsThere, StatusesAre DEF NoRun, RunSet, Stages
<1> HIDE DEF row, x
<1>6. Moves(r) /\ run'[r] = x
  BY <1>1, <1>2, <1>5, RunReplaced
<1>7. run[r].pc = "idle" /\ \A q \in Runs : q < r => run[q].pc # "idle"
  BY DEF NextRun
<1>8. \A q \in Runs : q > r => run[q].pc = "idle"
  BY <1>3, <1>7 DEF OneByOne
<1>9. \A q \in Runs : ~Unsettled(q)
  BY <1>3 DEF OneByOne
<1>10. \A q \in Runs : q # r => run'[q] = run[q]
  BY <1>6 DEF Moves
<1>11. /\ durable' \in [Turns -> RowSet] /\ durable'[n] = row
       /\ \A k \in Turns : k # n => durable'[k] = durable[k]
  BY <1>2, <1>3, <1>4 DEF ServerTypes
<1>12. Grows
  <2>1. ASSUME NEW q \in Runs, run[q].pc # "idle"
        PROVE  /\ run'[q].pc # "idle" /\ run'[q].turn = run[q].turn
               /\ ~Unsettled(q) => ~Unsettled(q)'
               /\ Opened(q) => Opened(q)'
    <3>1. run'[q] = run[q]
      BY <1>7, <1>10, <2>1
    <3> QED BY <2>1, <3>1, UndoneIs DEF Opened
  <2>2. \A k \in Turns : durable[k].status \in {"COMPLETED", "CANCELLED"} => durable'[k] = durable[k]
    BY <1>11
  <2> QED BY <1>2, <2>1, <2>2, Zenon DEF Grows
<1>13. RunHolds(r, x)
  BY <1>5, EmptyIs DEF RunHolds, OpenedRun
<1>14. OneByOne'
  <2>1. ASSUME NEW p \in Runs, NEW q \in Runs, q > p, run'[p].pc = "idle"
        PROVE  run'[q].pc = "idle"
    <3>1. p # r /\ run[p].pc = "idle"
      BY <1>5, <1>6, <1>10, <2>1
    <3>2. run[q].pc = "idle"
      BY <1>3, <2>1, <3>1 DEF OneByOne
    <3>3. q # r
      BY <1>7, <2>1, <3>1 DEF Runs
    <3> QED BY <1>10, <3>2, <3>3
  <2>2. ASSUME NEW p \in Runs, Unsettled(p)'
        PROVE  p = r
    <3>1. CASE p # r
      BY <1>9, <1>10, <2>2, <3>1, UndoneIs
    <3> QED BY <3>1
  <2>3. status' \in Active /\ durable'[run'[r].turn].status \in Active
    BY <1>2, <1>4, <1>5, <1>6, <1>11, StatusesAre
  <2>4. \A q \in Runs : q > r => run'[q].pc = "idle"
    <3>1. \A q \in Runs : q > r => q # r
      BY DEF Runs
    <3> QED BY <1>8, <1>10, <3>1
  <2> QED BY <2>1, <2>2, <2>3, <2>4 DEF OneByOne
<1>15. ASSUME NEW q \in Runs
       PROVE  RunInOrder(q)' /\ StreamInOrder(q)' /\ (run'[q].event # NoEvent => EventHolds(run[q].event)')
  <2>1. CASE q = r
    <3>1. ~Opened(q)'
      BY <1>5, <1>6, <2>1 DEF Opened, OpenedRun
    <3> QED BY <1>5, <1>6, <1>13, <2>1, <3>1 DEF RunInOrder, StreamInOrder, Generating
  <2>2. CASE q # r
    <3>1. run'[q] = run[q]
      BY <1>10, <2>2
    <3>2. ~Unsettled(q)'
      BY <1>9, <3>1, UndoneIs
    <3>3. RunInOrder(q)' /\ StreamInOrder(q)'
      BY <1>3, <3>1, <3>2 DEF RunInOrder, StreamInOrder, Generating
    <3>4. ASSUME run'[q].event # NoEvent
          PROVE  EventHolds(run[q].event)'
      <4>1. PICK e : e = run[q].event
        OBVIOUS
      <4>2. e \in PageEvents /\ EventHolds(e)
        BY <1>1, <1>3, <3>1, <3>4, <4>1, RunIs DEF RunEventsHold, PageEvents
      <4>3. EventHolds(e)'
        BY <1>12, <4>2, EventStillHolds
      <4> QED BY <3>1, <4>1, <4>3
    <3> QED BY <3>3, <3>4
  <2> QED BY <2>1, <2>2
<1>16. EntryHolds(stream)'
  <2>1. PICK l : l = stream
    OBVIOUS
  <2>2. EntryHolds(l)'
    BY <1>3, <1>12, <2>1, EntryStillHolds
  <2> QED BY <1>2, <2>1, <2>2
<1>17. ServerTypes'
  BY <1>2, <1>3, <1>6, <1>11, StatusesAre DEF ServerTypes, Moves
<1>18. ServerInv'
  BY <1>14, <1>15, <1>16, <1>17, Zenon DEF ServerInv, RunEventsHold
<1> QED BY <1>1, <1>2, <1>12, <1>18, PageSame

\* chat:send prepares a new turn,
LEMMA SendKeeps ==
    ASSUME StreamInv, Send
    PROVE  ServerInv' /\ PageInv'
<1>1. PICK r \in Runs, n \in Turns : NextRun(r) /\ NextTurn(n) /\ status \notin Active /\ Prepare(r, n)
  BY DEF Send
<1>2. durable[n].status \in {"none", "FAILED"}
  BY <1>1 DEF NextTurn, Exists
<1> QED BY <1>1, <1>2, PrepareKeeps

\* and retry an old one.
LEMMA RetryKeeps ==
    ASSUME StreamInv, Retry
    PROVE  ServerInv' /\ PageInv'
<1>1. PICK r \in Runs, n \in Turns :
        NextRun(r) /\ durable[n].status = "FAILED" /\ status \notin Active /\ Prepare(r, n)
  BY DEF Retry
<1> QED BY <1>1, PrepareKeeps

\* The process dies: every execution is over, and what was under way is lost.
LEMMA CrashKeeps ==
    ASSUME StreamInv, Crash
    PROVE  ServerInv' /\ PageInv'
<1>1. ServerInv /\ PageInv
  BY DEF StreamInv
<1>2. /\ durable' = [n \in Turns |-> IF durable[n].status \in Active
                                     THEN [Blank EXCEPT !.status = "FAILED"] ELSE durable[n]]
      /\ status' = IF status \in Active THEN "FAILED" ELSE status
      /\ run' = [r \in Runs |-> IF run[r].pc = "idle" THEN NoRun
                                ELSE [NoRun EXCEPT !.pc = "over", !.turn = run[r].turn,
                                                   !.blocks = run[r].blocks]]
      /\ stream' = (IF StoreSurvives THEN stream ELSE NoStream)
      /\ hook' = Cut(hook) /\ room' = FALSE /\ ask' = NoAsk /\ wire' = <<>>
      /\ view' = view /\ shown' = shown
  BY DEF Crash
<1>3. /\ ServerTypes /\ OneByOne /\ RunEventsHold /\ EntryHolds(stream)
  BY <1>1 DEF ServerInv
<1>4. NoRun \in RunSet /\ NoRun.pc = "idle" /\ NoRun.then = "over" /\ NoRun.event = NoEvent
      /\ NoRun.pending = <<>> /\ NoRun.units = 0
  BY EmptyIs, ZeroIsThere, StatusesAre DEF NoRun, RunSet, Stages
<1>5. ASSUME NEW r \in Runs
      PROVE  /\ run'[r] \in RunSet /\ run'[r].then = "over" /\ run'[r].event = NoEvent
             /\ run'[r].pending = <<>> /\ run'[r].units = 0
             /\ run[r].pc = "idle" => run'[r] = NoRun
             /\ run[r].pc # "idle" => run'[r].pc = "over" /\ run'[r].turn = run[r].turn
             /\ run'[r].pc \in {"idle", "over"}
  <2>1. CASE run[r].pc = "idle"
    BY <1>2, <1>4, <2>1
  <2>2. CASE run[r].pc # "idle"
    <3> DEFINE x == [NoRun EXCEPT !.pc = "over", !.turn = run[r].turn, !.blocks = run[r].blocks]
    <3>1. run[r].turn \in Turns \cup {0} /\ run[r].blocks \in Blocks
      BY <1>1, RunIs
    <3>2. /\ x \in RunSet /\ x.pc = "over" /\ x.then = "over" /\ x.event = NoEvent
          /\ x.pending = <<>> /\ x.units = 0 /\ x.turn = run[r].turn
      BY <1>4, <3>1 DEF RunSet, Stages
    <3>3. run'[r] = x
      BY <1>2, <2>2
    <3> HIDE DEF x
    <3> QED BY <2>2, <3>2, <3>3
  <2> QED BY <2>1, <2>2
<1>6. run' \in [Runs -> RunSet]
  <2>1. run' = [r \in Runs |-> run'[r]]
    BY <1>2
  <2> QED BY <1>5, <2>1
<1>7. \A r \in Runs : ~Unsettled(r)'
  BY <1>5, UndoneIs DEF Undone
<1>8. durable' \in [Turns -> RowSet]
  <2>1. [Blank EXCEPT !.status = "FAILED"] \in RowSet
    BY ZeroIsThere DEF Blank, RowSet, StatusSet, Terminal
  <2> QED BY <1>2, <1>3, <2>1 DEF ServerTypes
<1>9. \A n \in Turns : durable[n].status \in {"COMPLETED", "CANCELLED"} => durable'[n] = durable[n]
  BY <1>2 DEF Active
<1>10. stream' = stream \/ (stream' = NoStream /\ stream'.gen = 0)
  BY <1>2 DEF NoStream
<1>11. Grows
  <2>1. ASSUME NEW r \in Runs, run[r].pc # "idle"
        PROVE  /\ run'[r].pc # "idle" /\ run'[r].turn = run[r].turn
               /\ ~Unsettled(r) => ~Unsettled(r)'
               /\ Opened(r) => Opened(r)'
    BY <1>5, <1>7, <2>1 DEF Opened, OpenedRun
  <2>2. \A g \in Runs : run[g].pc # "idle" /\ (stream.gen # 0 => g <= stream.gen)
                          => (stream'.gen # 0 => g <= stream'.gen)
    BY <1>10
  <2> QED BY <1>9, <2>1, <2>2, Zenon DEF Grows
<1>12. ServerTypes'
  <2>1. status' \in StatusSet
    BY <1>2, <1>3 DEF ServerTypes, StatusSet, Terminal
  <2>2. stream' \in StreamSet
    BY <1>2, <1>3, NoAskTyped DEF ServerTypes
  <2> QED BY <1>6, <1>8, <2>1, <2>2 DEF ServerTypes
<1>13. OneByOne'
  <2>1. ASSUME NEW p \in Runs, NEW q \in Runs, q > p, run'[p].pc = "idle"
        PROVE  run'[q].pc = "idle"
    <3>1. run[p].pc = "idle"
      BY <1>5, <2>1
    <3>2. run[q].pc = "idle"
      BY <1>3, <2>1, <3>1 DEF OneByOne
    <3> QED BY <1>4, <1>5, <3>2
  <2> QED BY <1>7, <2>1 DEF OneByOne
<1>14. ASSUME NEW r \in Runs
       PROVE  RunInOrder(r)' /\ StreamInOrder(r)'
  <2>1. StreamInOrder(r)'
    BY <1>7 DEF StreamInOrder, Generating
  <2>2. RunHolds(r, run'[r])
    <3>1. CASE run[r].pc = "idle"
      BY <1>4, <1>5, <3>1, EmptyIs DEF RunHolds
    <3>2. CASE run[r].pc # "idle"
      BY <1>1, <1>5, <3>2, RunIs, EmptyIs DEF RunHolds
    <3> QED BY <3>1, <3>2
  <2> QED BY <2>1, <2>2 DEF RunInOrder
<1>15. RunEventsHold'
  BY <1>5 DEF RunEventsHold
<1>16. EntryHolds(stream)'
  <2>1. PICK l : l = stream'
    OBVIOUS
  <2>2. EntryHolds(l)'
    <3>1. CASE l = NoStream
      BY <3>1 DEF EntryHolds, NoStream
    <3>2. CASE l = stream
      <4>1. EntryHolds(l)
        BY <1>3, <3>2
      <4> QED BY <1>11, <4>1, EntryStillHolds
    <3> QED BY <1>10, <2>1, <3>1, <3>2
  <2> QED BY <2>1, <2>2
<1>17. ServerInv'
  BY <1>12, <1>13, <1>14, <1>15, <1>16, Zenon DEF ServerInv
<1>18. hook' \in HookSet /\ ~hook'.joining /\ hook'.queue = <<>>
  BY <1>2, PageIs, EmptyIs DEF HookSet, Cut
<1>19. PageHolds(<<>>, <<>>, view, NoAsk)
  BY PageIs, AllDropped, NoAskTyped, AskReplaced
<1>20. PageHolds(wire, hook.queue, view, ask)'
  <2>1. PageHolds(wire', hook'.queue, view', ask')
    BY <1>2, <1>18, <1>19
  <2> QED BY <1>11, <2>1, PageFollows
<1>21. OneAnswer(wire, ask, hook)'
  <2>1. OneAnswer(<<>>, NoAsk, hook')
    BY <1>18, NothingWaits
  <2> QED BY <1>2, <2>1
<1>22. room' \in BOOLEAN /\ shown' \in BOOLEAN
  BY <1>2, PageIs
<1>23. PageInv'
  BY <1>18, <1>20, <1>21, <1>22 DEF PageInv
<1> QED BY <1>17, <1>23

-----------------------------------------------------------------------------
(* The theorems *)

\* The invariant holds at the start.
LEMMA StreamInvStarts == Init => StreamInv
<1>1. SUFFICES ASSUME Init PROVE StreamInv
  OBVIOUS
<1>2. /\ durable = [n \in Turns |-> Blank] /\ status = "none" /\ run = [r \in Runs |-> NoRun]
      /\ stream = NoStream /\ room = FALSE /\ ask = NoAsk /\ wire = <<>>
      /\ hook = [up |-> FALSE, joining |-> FALSE, ready |-> FALSE, hydrated |-> FALSE,
                 replace |-> FALSE, queue |-> <<>>]
      /\ view = [msgs |-> [n \in Turns |-> Absent], resync |-> FALSE] /\ shown = FALSE
  BY <1>1 DEF Init
<1>3. NoRun \in RunSet /\ NoRun.pc = "idle" /\ NoRun.then = "over" /\ NoRun.event = NoEvent
      /\ NoRun.pending = <<>> /\ NoRun.units = 0
  BY EmptyIs, ZeroIsThere, StatusesAre DEF NoRun, RunSet, Stages
<1>4. Blank \in RowSet
  BY ZeroIsThere, StatusesAre DEF Blank, RowSet
<1>5. ServerTypes
  BY <1>2, <1>3, <1>4, NoAskTyped, StatusesAre DEF ServerTypes
<1>6. \A r \in Runs : run[r] = NoRun /\ ~Unsettled(r)
  BY <1>2, <1>3, UndoneIs DEF Undone
<1>7. \A r \in Runs : RunInOrder(r) /\ StreamInOrder(r)
  BY <1>3, <1>6, EmptyIs DEF RunInOrder, RunHolds, StreamInOrder, Generating
<1>8. OneByOne /\ RunEventsHold
  BY <1>3, <1>6 DEF OneByOne, RunEventsHold
<1>9. EntryHolds(stream)
  BY <1>2 DEF EntryHolds, NoStream
<1>10. hook \in HookSet /\ ~hook.joining /\ ~hook.ready /\ hook.queue = <<>>
  BY <1>2, EmptyIs DEF HookSet
<1>11. Absent \in ShownSet /\ Absent.gen = 0 /\ Absent.status = "none"
  BY ZeroIsThere, StatusesAre DEF ShownSet, Absent
<1>12. view \in ViewSet /\ \A n \in Turns : view.msgs[n] = Absent
  BY <1>2, <1>11 DEF ViewSet
<1>13. ViewHolds(view)
  BY <1>11, <1>12 DEF ViewHolds, Stored
<1>14. PageHolds(<<>>, <<>>, view, NoAsk)
  BY <1>12, <1>13, NoAskTyped, EmptyIs DEF PageHolds, InOrder
<1>15. OneAnswer(<<>>, NoAsk, hook)
  BY <1>10, NothingWaits
<1>16. PageInv
  BY <1>2, <1>10, <1>14, <1>15 DEF PageInv
<1> QED BY <1>5, <1>7, <1>8, <1>9, <1>16 DEF StreamInv, ServerInv

\* Every step of an execution keeps it.
LEMMA RunStepKeeps ==
    ASSUME StreamInv, NEW r \in Runs, RunStep(r)
    PROVE  ServerInv' /\ PageInv'
<1>1. CASE ReadBrief(r)
  BY <1>1, ReadBriefKeeps
<1>2. CASE Tell(r)
  BY <1>2, TellKeeps
<1>3. CASE Open(r)
  BY <1>3, OpenKeeps
<1>4. CASE Begin(r)
  BY <1>4, BeginKeeps
<1>5. CASE FirstDelta(r)
  BY <1>5, FirstDeltaKeeps
<1>6. CASE NextDelta(r)
  BY <1>6, NextDeltaKeeps
<1>7. CASE StartTool(r)
  BY <1>7, StartToolKeeps
<1>8. CASE EndBlock(r)
  BY <1>8, EndBlockKeeps
<1>9. CASE Yield(r)
  BY <1>9, YieldKeeps
<1>10. CASE Complete(r)
  BY <1>10, CompleteKeeps
<1>11. CASE Cancel(r)
  BY <1>11, CancelKeeps
<1>12. CASE Fail(r)
  BY <1>12, FailKeeps
<1>13. CASE Validate(r)
  BY <1>13, ValidateKeeps
<1>14. CASE Superseded(r)
  BY <1>14, SupersededKeeps
<1>15. CASE Emit(r)
  BY <1>15, EmitKeeps
<1>16. CASE Finalize(r)
  BY <1>16, FinalizeKeeps
<1>17. CASE Cleanup(r)
  BY <1>17, CleanupKeeps
<1> QED
  BY <1>1, <1>2, <1>3, <1>4, <1>5, <1>6, <1>7, <1>8, <1>9, <1>10, <1>11, <1>12, <1>13, <1>14, <1>15,
     <1>16, <1>17 DEF RunStep

\* Every step keeps it: one lemma for each action.
LEMMA NextKeeps ==
    ASSUME StreamInv, Next
    PROVE  ServerInv' /\ PageInv'
<1>1. CASE Send \/ Retry \/ Expire \/ Connect
  BY <1>1, SendKeeps, RetryKeeps, ExpireKeeps, ConnectKeeps
<1>2. CASE JoinStep
  BY <1>2, JoinRoomKeeps, JoinReadKeeps, JoinSnapshotKeeps, JoinAckKeeps DEF JoinStep
<1>3. CASE PageStep
  BY <1>3, ShowKeeps, HoldKeeps, HydrateKeeps, RefusedKeeps, CommitKeeps DEF PageStep
<1>4. CASE Fault
  BY <1>4, DisconnectKeeps, JoinFailsKeeps, CrashKeeps, TellFailsKeeps, EmitFailsKeeps DEF Fault
<1>5. CASE \E r \in Runs : RunStep(r)
  BY <1>5, RunStepKeeps
<1> QED BY <1>1, <1>2, <1>3, <1>4, <1>5 DEF Next

\* So does a step that changes nothing.
LEMMA StutterKeeps ==
    ASSUME StreamInv, UNCHANGED vars
    PROVE  ServerInv' /\ PageInv'
<1>1. /\ UNCHANGED server /\ room' = room /\ shown' = shown /\ hook' = hook /\ wire' = wire
      /\ view' = view /\ ask' = ask
  BY DEF vars, page
<1> QED BY <1>1, PageIs, PageKeeps

\* Every behaviour of an execution, its stream and a page that joins, leaves and follows
\* it satisfies the invariant: executions settle one by one, the store's entry is that
\* of the one under way, and events reach the page in the order of generations.
THEOREM StreamInvariance == Spec => []StreamInv
<1>1. StreamInv /\ [Next]_vars => StreamInv'
  BY NextKeeps, StutterKeeps DEF StreamInv
<1> QED BY <1>1, StreamInvStarts, PTL DEF Spec

\* The invariant is about values of the types.
LEMMA StreamTypesHold == StreamInv => TypeOK
<1>1. SUFFICES ASSUME StreamInv PROVE TypeOK
  OBVIOUS
<1>2. /\ ServerTypes /\ room \in BOOLEAN /\ shown \in BOOLEAN /\ hook \in HookSet
      /\ ask \in AskSet /\ view \in ViewSet
  BY <1>1, PageIs DEF ServerInv
<1>3. durable \in [Turns -> [status : {"none"} \cup Active \cup Terminal,
                             blocks : Seq([id : Runs \X Nat, kind : {"text", "tool"},
                                           text : Seq(Nat), open : BOOLEAN])]]
      /\ status \in {"none"} \cup Active \cup Terminal
  BY <1>2 DEF ServerTypes, RowSet, StatusSet, Blocks, BlockSet
<1>4. ASSUME NEW r \in Runs
      PROVE  /\ run[r].pc \in {"idle", "brief", "tell", "open", "begin", "store", "emit",
                               "loop", "finalize", "cleanup", "over"}
             /\ run[r].turn \in Turns \cup {0}
             /\ run[r].units \in 0 .. MaxUnits
  BY <1>1, RunIs DEF StreamInv, Stages
<1>5. stream.turn \in Turns \cup {0} /\ stream.gen \in Runs \cup {0}
  BY <1>2 DEF ServerTypes, StreamSet
<1>6. /\ ask.pc \in {"none", "asked", "entered", "read", "snapped"}
      /\ hook.up \in BOOLEAN /\ hook.ready \in BOOLEAN /\ hook.joining \in BOOLEAN
      /\ view.resync \in BOOLEAN
  BY <1>2 DEF AskSet, HookSet, ViewSet
<1>7. ASSUME NEW n \in Turns
      PROVE  /\ view.msgs[n].status \in {"none"} \cup Active \cup Terminal
             /\ view.msgs[n].gen \in Runs \cup {0} /\ view.msgs[n].offset \in 0 .. MaxUnits
  <2>1. view.msgs[n] \in ShownSet
    BY <1>2 DEF ViewSet
  <2> QED BY <2>1 DEF ShownSet, StatusSet
<1> QED BY <1>2, <1>3, <1>4, <1>5, <1>6, <1>7 DEF TypeOK

\* Rows, executions, the entry of the store, the join under way and what the page shows
\* keep their types.
THEOREM StreamTypesAlways == Spec => []TypeOK
  BY StreamInvariance, StreamTypesHold, PTL

\* What the page shows as COMPLETED or CANCELLED is what the row of the Assistant holds,
\* status and blocks, whatever was lost, held, replayed or hydrated on the way.
THEOREM OutcomeIsStoredAlways == Spec => []OutcomeIsStored
<1>1. StreamInv => OutcomeIsStored
  BY PageIs DEF ViewHolds, Stored, OutcomeIsStored
<1> QED BY <1>1, StreamInvariance, PTL

\* Only what is shown and what hydrates changes the messages.
LEMMA ViewMoves ==
    ASSUME StreamInv, [Next]_vars
    PROVE  AllHeld(view, view')
<1>1. CASE view' = view
  BY <1>1 DEF AllHeld, Held
<1>2. CASE Show
  BY <1>2, ShowKeeps
<1>3. CASE Hydrate
  BY <1>3, HydrateKeeps
<1>4. view' = view \/ Show \/ Hydrate
  <2>1. CASE UNCHANGED vars
    BY <2>1 DEF vars, page
  <2>2. CASE Send \/ Retry \/ Expire \/ Connect
    BY <2>2 DEF Send, Retry, Prepare, Expire, Connect, page
  <2>3. CASE JoinStep
    BY <2>3 DEF JoinStep, JoinRoom, JoinRead, JoinSnapshot, JoinAck, page
  <2>4. CASE PageStep
    BY <2>4 DEF PageStep, Hold, Refused, Commit, page
  <2>5. CASE Fault
    BY <2>5 DEF Fault, Disconnect, JoinFails, Crash, TellFails, EmitFails, page
  <2>6. CASE \E r \in Runs : RunStep(r)
    <3>1. PICK r \in Runs : RunStep(r)
      BY <2>6
    <3>2. UNCHANGED page
      BY <3>1, Zenon DEF RunStep, ReadBrief, Tell, Open, Begin, FirstDelta, NextDelta, StartTool, EndBlock,
                  Accept, Yield, Complete, Cancel, Fail, Conclude, Validate, Superseded, Emit,
                  Finalize, Cleanup
    <3> QED BY <3>2 DEF page
  <2> QED BY <2>1, <2>2, <2>3, <2>4, <2>5, <2>6 DEF Next
<1> QED BY <1>1, <1>2, <1>3, <1>4

\* The page leaves the generation it shows only when that is settled, and for none or a
\* later one: no late event of an earlier execution and no stale snapshot brings it back.
THEOREM GenerationHeldAlways == Spec => GenerationHeld
<1>1. StreamInv /\ [Next]_vars =>
        [\A n \in Turns :
            LET old == view.msgs[n].gen
                new == view'.msgs[n].gen
            IN  old # 0 /\ new # old => ~Unsettled(old) /\ (new # 0 => new > old)]_vars
  BY ViewMoves DEF AllHeld, Held
<1> QED BY <1>1, StreamInvariance, PTL DEF Spec, GenerationHeld
=============================================================================
