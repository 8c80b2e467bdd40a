-------------------------- MODULE TaskStreamTextProofs --------------------------
(***************************************************************************)
(* What TLAPS proves of the text of TaskStream, for any number of turns,   *)
(* executions and units of text: what a page shows of an execution under   *)
(* way is a beginning of what that execution produced.                     *)
(*                                                                         *)
(* Three things are kept.  On the server (ServerText) the entry of the     *)
(* store mirrors the blocks of the execution, and its cached units are     *)
(* those produced, in order, whatever was not accepted yet.  What is on    *)
(* its way (Tells) says of a block what was stored of it before.  And its  *)
(* order is right (Listens): an event finds the blocks before its own on   *)
(* the page, or on their way before it, which is why a join that is        *)
(* answered after the room was entered cannot lose one; and out of the     *)
(* room whatever an execution sent is followed by a refusal that drops it. *)
(***************************************************************************)
EXTENDS TaskStreamProofs

-----------------------------------------------------------------------------
(* The inductive invariant of the text *)

\* The blocks of a run are numbered, closed except for the last, and hold the
\* units in the order in which they were produced.
Numbered(r, blocks) ==
    /\ \A i \in DOMAIN blocks : blocks[i].id = <<r, i>>
    /\ \A i \in DOMAIN blocks : i # Len(blocks) => ~blocks[i].open
    /\ \A i \in DOMAIN blocks : \A k \in DOMAIN blocks[i].text :
          blocks[i].text[k] = TextBefore(blocks, i) + k - 1

\* A run that is past the emission of its start: only then it has blocks.
BlockEvent(e) == e.kind \in {"created", "updated", "chunk"}
Telling(x) == x.pc = "loop" \/ x.then = "loop" \/ (x.pc = "emit" /\ BlockEvent(x.event))
RunText(r) ==
    /\ Numbered(r, run[r].blocks)
    /\ Unsettled(r) /\ ~Telling(run[r]) => run[r].blocks = <<>>
    /\ Generating(r) => run[r].units = TextBefore(run[r].blocks, Len(run[r].blocks) + 1)

\* The entry has the blocks of its run, the open one without its text, and
\* waits for what is pending.
Creates(x) == x.pending # <<>> /\ x.pending[1].kind = "created"
Updates(x) == x.pending # <<>> /\ x.pending[1].kind = "updated"
PendingText(x, k) ==
    LET e == x.pending[k]
        tip == x.blocks[Len(x.blocks)]
    IN  /\ x.blocks # <<>>
        /\ e.kind = "created" => k = 1 /\ tip.open /\ e.block = [tip EXCEPT !.text = <<>>]
        /\ e.kind = "updated" => k = 1 /\ Len(x.pending) = 1 /\ ~tip.open /\ e.block = tip
        /\ e.kind = "chunk" => /\ e.id = tip.id /\ e.offset = x.units - 1
                               /\ e.at + 1 = Len(tip.text)
EntryBlock(x, l, i) ==
    IF l.blocks[i].open
    THEN /\ i = Len(x.blocks) /\ l.blocks[i].text = <<>> /\ l.blocks[i].id = x.blocks[i].id
         /\ x.blocks[i].open \/ Updates(x)
    ELSE l.blocks[i] = x.blocks[i]
EntryMirrors(x, l) ==
    /\ Len(l.blocks) = IF Creates(x) THEN Len(x.blocks) - 1 ELSE Len(x.blocks)
    /\ \A i \in DOMAIN l.blocks : EntryBlock(x, l, i)
    /\ \A k \in DOMAIN l.cached : l.cached[k] = k - 1
    /\ \A k \in DOMAIN x.pending : PendingText(x, k)
StreamText(r) == Generating(r) => EntryMirrors(run[r], stream)

\* What an event says of a block of its run is so, and was stored before it was
\* emitted.
IdOf(e) == IF e.kind = "chunk" THEN e.id ELSE e.block.id
At(e) == IdOf(e)[2]
BlockSaid(e, x) ==
    /\ e.turn = x.turn
    /\ IdOf(e) = <<e.gen, At(e)>> /\ At(e) \in DOMAIN x.blocks
    /\ e.kind = "created" => e.block.text = <<>> /\ e.block.open
    /\ e.kind = "updated" => e.block = x.blocks[At(e)] /\ ~e.block.open
    /\ e.kind = "chunk" => /\ e.at + 1 \in DOMAIN x.blocks[At(e)].text
                           /\ x.blocks[At(e)].text[e.at + 1] = e.offset
Said(e) == BlockEvent(e) =>
    /\ BlockSaid(e, run[e.gen])
    /\ stream.gen = e.gen => At(e) <= Len(stream.blocks)
RunEventText(r) ==
    /\ Said(run[r].event)
    /\ run[r].event.kind = "created" => At(run[r].event) = Len(stream.blocks)

\* What a page makes of an entry.
EntryShown(l) == IF Reconcilable(l) THEN Reconciled(l) ELSE l.blocks
EntryText(l) == l.gen # 0 => Begins(EntryShown(l), run[l.gen].blocks)

TurnsInOrder ==
    /\ \A n, k \in Turns : n < k /\ Exists(k) => Exists(n)
    /\ \A r \in Runs : run[r].pc # "idle" => Exists(run[r].turn)
ServerText ==
    /\ \A r \in Runs : RunText(r) /\ StreamText(r) /\ RunEventText(r)
    /\ EntryText(stream)
    /\ TurnsInOrder

-----------------------------------------------------------------------------
(* What is on its way to the page *)

\* The events the page holds and then the messages on the wire.
Transit(queue, w) ==
    [i \in 1 .. Len(queue) + Len(w) |-> IF i <= Len(queue) THEN queue[i] ELSE w[i - Len(queue)]]

\* The blocks it lacks of each generation.  It lacks none of one that it does
\* not show, because it does not apply its events.
LacksOf(v) == [g \in Runs |-> {i \in Nat : \E n \in Turns :
                                  v.msgs[n].gen = g /\ Len(v.msgs[n].blocks) < i}]
LacksEntry(l) == [g \in Runs |-> {i \in Nat : l.gen = g /\ Len(l.blocks) < i}]
Nothing == [g \in Runs |-> {}]

\* What is among the elements of t between the f-th, which is done, and the k-th.
StartIn(t, f, k, g) == \E c \in DOMAIN t : f < c /\ c < k /\ t[c].kind = "start" /\ t[c].gen = g
CreatedIn(t, f, k, g, i) ==
    \E c \in DOMAIN t : f < c /\ c < k /\ t[c].kind = "created" /\ t[c].gen = g /\ At(t[c]) = i

\* When the page comes to the k-th, it has the first j blocks of g.
Precede(t, f, lacks, k, g, j) == \A i \in 1 .. j :
    CreatedIn(t, f, k, g, i) \/ (i \notin lacks[g] /\ ~StartIn(t, f, k, g))

\* How many blocks of each generation under way were emitted.
Promised == [r \in Runs |-> IF ~Telling(run[r]) THEN 0
                            ELSE IF run[r].event.kind = "created" THEN Len(stream.blocks) - 1
                            ELSE Len(stream.blocks)]

\* Every event finds the blocks before its own, those still to come included.
Sequenced(t, f, n, lacks, p) ==
    /\ \A k \in 1 .. n : f < k /\ BlockEvent(t[k]) => Precede(t, f, lacks, k, t[k].gen, At(t[k]) - 1)
    /\ \A r \in Runs : Precede(t, f, lacks, n + 1, r, p[r])
StartsFirst(t, n) == \A k, c \in 1 .. n :
    t[k].kind = "start" /\ BlockEvent(t[c]) /\ t[c].gen = t[k].gen => k < c

\* Out of the room, what executions sent is followed by a refusal.
FromRuns(m) == BlockEvent(m) \/ m.kind = "start"
Doomed(t, n) == \A k \in 1 .. n : FromRuns(t[k]) => \E i \in 1 .. n : k < i /\ t[i].kind = "refused"

Listens(w, queue, v, a, h, in, p) ==
    LET t == Transit(queue, w)
        n == Len(queue) + Len(w)
        Fits(lacks) == Sequenced(t, 0, n, lacks, p)
    IN  /\ StartsFirst(t, n)
        /\ ~in => Doomed(t, n)
        /\ ~h.up => ~in /\ w = <<>>
        /\ in => \/ h.ready /\ h.up
                 \/ a.pc # "none"
                 \/ \E i \in DOMAIN w : w[i].kind = "ack"
        /\ h.ready /\ h.up => in /\ Fits(LacksOf(v))
        /\ a.pc \in {"asked", "entered", "read"} => Fits(Nothing)
        /\ a.pc \in {"entered", "read", "snapped"} => in
        /\ a.pc = "snapped" => Fits(LacksEntry(a.live))
        /\ \A i \in DOMAIN w : w[i].kind = "ack" => in /\ Fits(LacksEntry(w[i].live))

\* Rows reach as far as what the page shows of unsettled generations, and
\* what it knows has no gap.
KnownDown(v) == \A n, k \in Turns : n < k /\ v.msgs[k].known => v.msgs[n].known
Asks(v, after, replace) ==
    /\ \A n \in Turns : v.msgs[n].gen # 0 => after < n
    /\ replace => after = 0
    /\ after # 0 => after \in Turns /\ v.msgs[after].known
RowsReach(v, rows, replace) ==
    /\ \A n \in Turns : v.msgs[n].gen # 0 => n \in DOMAIN rows
    /\ \A n, k \in Turns : n < k /\ k \in DOMAIN rows =>
          n \in DOMAIN rows \/ (~replace /\ v.msgs[n].known)
Reaches(w, v, a, h) ==
    /\ KnownDown(v)
    /\ ~h.hydrated => \A n \in Turns : ~v.msgs[n].known
    /\ a.pc \in {"asked", "entered"} => Asks(v, a.after, h.replace)
    /\ a.pc \in {"read", "snapped"} => RowsReach(v, a.rows, h.replace)
    /\ \A i \in DOMAIN w : w[i].kind = "ack" => RowsReach(v, w[i].rows, h.replace)

Shows(v) == \A n \in Turns : v.msgs[n].gen # 0 => Begins(v.msgs[n].blocks, run[v.msgs[n].gen].blocks)
Tells(w, queue, v, a) ==
    /\ \A i \in DOMAIN w : Said(w[i]) /\ (w[i].kind = "ack" => EntryText(w[i].live))
    /\ \A i \in DOMAIN queue : Said(queue[i])
    /\ EntryText(a.live)
    /\ Shows(v)
PageText ==
    /\ Listens(wire, hook.queue, view, ask, hook, room, Promised)
    /\ Reaches(wire, view, ask, hook)
    /\ Tells(wire, hook.queue, view, ask)

TextInv == ServerText /\ PageText

-----------------------------------------------------------------------------
(* Sequences of messages *)

\* A sequence of n messages.
Traffic(t, n) == n \in Nat /\ DOMAIN t = 1 .. n /\ \A k \in 1 .. n : t[k] \in Messages

\* Events about blocks name a generation and a number.
LEMMA BlockEventTyped ==
    ASSUME NEW e \in Messages, BlockEvent(e)
    PROVE  e \in BlockEvents /\ e.gen \in Runs /\ e.turn \in Turns /\ At(e) \in Nat
           /\ e.kind # "start"
<1>1. e \in PageEvents
  BY MessageTyped DEF BlockEvent
<1>2. e \in BlockEvents /\ e.gen \in Runs /\ e.turn \in Turns
  BY <1>1, EventTyped DEF BlockEvent, BlockEvents, RunEvents
<1>3. \A x \in Runs \X Nat : x[2] \in Nat
  OBVIOUS
<1>4. IdOf(e) \in Runs \X Nat
  BY <1>1, EventTyped DEF BlockEvent, IdOf, CreatedEvents, UpdatedEvents, ChunkEvents, BlockSet
<1> QED BY <1>2, <1>3, <1>4 DEF At, BlockEvent

\* What the page lacks once it has taken an event.
Consumed(e, lacks, rest) == \A g \in Runs : \A i \in Nat : i \in rest[g] =>
    \/ e.kind = "start" /\ e.gen = g
    \/ i \in lacks[g] /\ ~(e.kind = "created" /\ e.gen = g /\ At(e) = i)

\* The first of the events that remain is done.
LEMMA PrecedeNext ==
    ASSUME NEW t, NEW n, Traffic(t, n), StartsFirst(t, n), NEW f \in Nat, f + 1 \in 1 .. n,
           NEW lacks, NEW rest, Consumed(t[f + 1], lacks, rest),
           NEW k \in 1 .. n + 1, f + 1 < k, NEW g \in Runs, NEW j \in Int, Precede(t, f, lacks, k, g, j)
    PROVE  Precede(t, f + 1, rest, k, g, j)
<1>1. SUFFICES ASSUME NEW i \in 1 .. j
               PROVE  CreatedIn(t, f + 1, k, g, i) \/ (i \notin rest[g] /\ ~StartIn(t, f + 1, k, g))
  BY DEF Precede
<1>0. n \in Nat /\ DOMAIN t = 1 .. n /\ i \in Nat
  BY DEF Traffic
<1>2. CASE CreatedIn(t, f, k, g, i)
  <2>1. PICK c \in DOMAIN t : f < c /\ c < k /\ t[c].kind = "created" /\ t[c].gen = g /\ At(t[c]) = i
    BY <1>2 DEF CreatedIn
  <2>2. CASE c = f + 1
    <3>1. ~StartIn(t, f + 1, k, g)
      <4>1. SUFFICES ASSUME NEW d \in DOMAIN t, f + 1 < d, t[d].kind = "start", t[d].gen = g
                     PROVE  FALSE
        BY DEF StartIn
      <4>2. d < c
        BY <1>0, <2>1, <4>1 DEF StartsFirst, BlockEvent
      <4> QED BY <1>0, <2>2, <4>1, <4>2
    <3>2. i \notin rest[g]
      BY <1>0, <2>1, <2>2 DEF Consumed
    <3> QED BY <3>1, <3>2
  <2>3. CASE c # f + 1
    <3>1. f + 1 < c
      BY <1>0, <2>1, <2>3
    <3> QED BY <2>1, <3>1 DEF CreatedIn
  <2> QED BY <2>2, <2>3
<1>3. CASE ~CreatedIn(t, f, k, g, i)
  <2>1. i \notin lacks[g] /\ ~StartIn(t, f, k, g)
    BY <1>3 DEF Precede
  <2>2. ~StartIn(t, f + 1, k, g)
    <3>1. \A c \in DOMAIN t : f + 1 < c => f < c
      BY <1>0
    <3> QED BY <2>1, <3>1 DEF StartIn
  <2>3. ~(t[f + 1].kind = "start" /\ t[f + 1].gen = g)
    <3>1. f + 1 \in DOMAIN t /\ f < f + 1
      BY <1>0
    <3> QED BY <2>1, <3>1 DEF StartIn
  <2> QED BY <1>0, <2>1, <2>2, <2>3 DEF Consumed
<1> QED BY <1>2, <1>3

\* How many blocks were promised of each run.
Counts(p) == p \in [Runs -> Int]

\* The next element is taken: what follows it still finds its blocks.
LEMMA SequencedNext ==
    ASSUME NEW t, NEW n, Traffic(t, n), StartsFirst(t, n), NEW f \in Nat, f + 1 \in 1 .. n,
           NEW lacks, NEW rest, Consumed(t[f + 1], lacks, rest), NEW p, Counts(p),
           Sequenced(t, f, n, lacks, p)
    PROVE  Sequenced(t, f + 1, n, rest, p)
<1>0. n \in Nat
  BY DEF Traffic
<1>1. ASSUME NEW k \in 1 .. n, f + 1 < k, BlockEvent(t[k])
      PROVE  Precede(t, f + 1, rest, k, t[k].gen, At(t[k]) - 1)
  <2>1. t[k] \in Messages /\ k \in 1 .. n + 1 /\ f < k
    BY <1>0, <1>1 DEF Traffic
  <2>2. t[k].gen \in Runs /\ At(t[k]) \in Nat
    BY <1>1, <2>1, BlockEventTyped
  <2>3. At(t[k]) - 1 \in Int
    BY <2>2
  <2>4. Precede(t, f, lacks, k, t[k].gen, At(t[k]) - 1)
    BY <1>1, <2>1 DEF Sequenced
  <2> QED BY <1>1, <2>1, <2>2, <2>3, <2>4, PrecedeNext
<1>2. ASSUME NEW r \in Runs
      PROVE  Precede(t, f + 1, rest, n + 1, r, p[r])
  <2>1. n + 1 \in 1 .. n + 1 /\ f + 1 < n + 1
    BY <1>0
  <2>2. p[r] \in Int
    BY DEF Counts
  <2>3. Precede(t, f, lacks, n + 1, r, p[r])
    BY DEF Sequenced
  <2> QED BY <2>1, <2>2, <2>3, PrecedeNext
<1> QED BY <1>1, <1>2 DEF Sequenced

\* With less that is lacking and less that was promised, as much remains true.
LEMMA SequencedLess ==
    ASSUME NEW t, NEW f, NEW n, Traffic(t, n), NEW lacks, NEW rest, \A g \in Runs : rest[g] \subseteq lacks[g],
           NEW p, Counts(p), NEW q, Counts(q), \A r \in Runs : q[r] <= p[r],
           Sequenced(t, f, n, lacks, p)
    PROVE  Sequenced(t, f, n, rest, q)
<1>1. ASSUME NEW k \in 1 .. n, f < k, BlockEvent(t[k])
      PROVE  Precede(t, f, rest, k, t[k].gen, At(t[k]) - 1)
  <2>1. t[k].gen \in Runs
    BY <1>1, BlockEventTyped DEF Traffic
  <2>2. Precede(t, f, lacks, k, t[k].gen, At(t[k]) - 1)
    BY <1>1 DEF Sequenced
  <2> QED BY <2>1, <2>2 DEF Precede
<1>2. ASSUME NEW r \in Runs
      PROVE  Precede(t, f, rest, n + 1, r, q[r])
  <2>1. Precede(t, f, lacks, n + 1, r, p[r])
    BY DEF Sequenced
  <2>2. \A i \in 1 .. q[r] : i \in 1 .. p[r]
    BY DEF Counts
  <2> QED BY <2>1, <2>2 DEF Precede
<1> QED BY <1>1, <1>2 DEF Sequenced

\* Several events at the head are done: what remains is a sequence of its own.
LEMMA SequencedRest ==
    ASSUME NEW t, NEW n, Traffic(t, n), NEW f \in Nat, f <= n, NEW lacks, NEW p, Counts(p),
           Sequenced(t, f, n, lacks, p),
           NEW s, Traffic(s, n - f), \A i \in 1 .. n - f : s[i] = t[i + f]
    PROVE  Sequenced(s, 0, n - f, lacks, p)
<1>0. n \in Nat /\ DOMAIN t = 1 .. n /\ DOMAIN s = 1 .. n - f
  BY DEF Traffic
<1>1. ASSUME NEW k \in 1 .. n - f + 1, NEW g, NEW j, Precede(t, f, lacks, k + f, g, j)
      PROVE  Precede(s, 0, lacks, k, g, j)
  <2>1. ASSUME NEW i, CreatedIn(t, f, k + f, g, i)
        PROVE  CreatedIn(s, 0, k, g, i)
    <3>1. PICK c \in DOMAIN t : f < c /\ c < k + f /\ t[c].kind = "created" /\ t[c].gen = g /\ At(t[c]) = i
      BY <2>1 DEF CreatedIn
    <3>2. c - f \in DOMAIN s /\ 0 < c - f /\ c - f < k /\ (c - f) + f = c
      BY <1>0, <3>1
    <3>3. s[c - f] = t[c]
      BY <1>0, <3>2
    <3> QED BY <3>1, <3>2, <3>3 DEF CreatedIn
  <2>2. ASSUME StartIn(s, 0, k, g)
        PROVE  StartIn(t, f, k + f, g)
    <3>1. PICK c \in DOMAIN s : c < k /\ s[c].kind = "start" /\ s[c].gen = g
      BY <2>2 DEF StartIn
    <3>2. c + f \in DOMAIN t /\ f < c + f /\ c + f < k + f /\ s[c] = t[c + f]
      BY <1>0, <3>1
    <3> QED BY <3>1, <3>2 DEF StartIn
  <2> QED BY <1>1, <2>1, <2>2 DEF Precede
<1>2. ASSUME NEW k \in 1 .. n - f, BlockEvent(s[k])
      PROVE  Precede(s, 0, lacks, k, s[k].gen, At(s[k]) - 1)
  <2>1. k + f \in 1 .. n /\ f < k + f /\ s[k] = t[k + f] /\ k \in 1 .. n - f + 1
    BY <1>0
  <2>2. Precede(t, f, lacks, k + f, s[k].gen, At(s[k]) - 1)
    BY <1>2, <2>1 DEF Sequenced
  <2> QED BY <1>1, <2>1, <2>2
<1>3. ASSUME NEW r \in Runs
      PROVE  Precede(s, 0, lacks, n - f + 1, r, p[r])
  <2>1. n - f + 1 \in 1 .. n - f + 1 /\ (n - f + 1) + f = n + 1
    BY <1>0
  <2>2. Precede(t, f, lacks, (n - f + 1) + f, r, p[r])
    BY <2>1 DEF Sequenced
  <2> QED BY <1>1, <2>1, <2>2
<1> QED BY <1>2, <1>3 DEF Sequenced

\* One message more: if it is about a block, the blocks before it were promised.
Extends(s, t, n, m) == DOMAIN s = 1 .. n + 1 /\ (\A k \in 1 .. n : s[k] = t[k]) /\ s[n + 1] = m
Promises(m, p, q) == \A r \in Runs :
    q[r] <= p[r] \/ (m.kind = "created" /\ m.gen = r /\ At(m) = q[r] /\ q[r] <= p[r] + 1)

\* An element is added at the end: it finds what it needs, and the rest does as before.
LEMMA SequencedMore ==
    ASSUME NEW t, NEW n, Traffic(t, n), NEW lacks, NEW p, Counts(p), Sequenced(t, 0, n, lacks, p),
           NEW m \in Messages, NEW s, Extends(s, t, n, m), NEW q, Counts(q),
           m.kind = "start" => q[m.gen] <= 0,
           BlockEvent(m) => At(m) - 1 <= p[m.gen],
           Promises(m, p, q)
    PROVE  Sequenced(s, 0, n + 1, lacks, q)
<1>0. n \in Nat /\ DOMAIN t = 1 .. n /\ DOMAIN s = 1 .. n + 1
  BY DEF Traffic, Extends
<1>1. ASSUME NEW k \in 1 .. n + 1, NEW g, NEW j, Precede(t, 0, lacks, k, g, j)
      PROVE  Precede(s, 0, lacks, k, g, j)
  <2>1. \A c : c < k => (c \in DOMAIN t <=> c \in DOMAIN s) /\ (c \in DOMAIN t => s[c] = t[c])
    BY <1>0 DEF Extends
  <2> QED BY <1>1, <2>1 DEF Precede, CreatedIn, StartIn
<1>2. \A i : \A g : CreatedIn(t, 0, n + 1, g, i) => CreatedIn(s, 0, n + 2, g, i)
  <2>1. \A c \in DOMAIN t : c \in DOMAIN s /\ s[c] = t[c] /\ c < n + 2
    BY <1>0 DEF Extends
  <2> QED BY <2>1 DEF CreatedIn
<1>3. ASSUME NEW k \in 1 .. n + 1, BlockEvent(s[k])
      PROVE  Precede(s, 0, lacks, k, s[k].gen, At(s[k]) - 1)
  <2>1. CASE k = n + 1
    <3>1. s[k] = m /\ m.gen \in Runs /\ At(m) \in Nat
      BY <1>3, <2>1, BlockEventTyped DEF Extends
    <3>2. Precede(t, 0, lacks, n + 1, m.gen, p[m.gen])
      BY <3>1 DEF Sequenced
    <3>3. Precede(t, 0, lacks, n + 1, m.gen, At(m) - 1)
      <4>1. At(m) - 1 <= p[m.gen] /\ p[m.gen] \in Int
        BY <1>3, <3>1 DEF Counts
      <4>2. \A i \in 1 .. At(m) - 1 : i \in 1 .. p[m.gen]
        BY <3>1, <4>1
      <4> QED BY <3>2, <4>2 DEF Precede
    <3> QED BY <1>1, <2>1, <3>1, <3>3
  <2>2. CASE k # n + 1
    <3>1. k \in 1 .. n /\ s[k] = t[k] /\ 0 < k
      BY <1>0, <2>2 DEF Extends
    <3> QED BY <1>1, <1>3, <3>1 DEF Sequenced
  <2> QED BY <2>1, <2>2
<1>4. ASSUME NEW r \in Runs
      PROVE  Precede(s, 0, lacks, n + 2, r, q[r])
  <2>1. SUFFICES ASSUME NEW i \in 1 .. q[r]
                 PROVE  CreatedIn(s, 0, n + 2, r, i) \/ (i \notin lacks[r] /\ ~StartIn(s, 0, n + 2, r))
    BY DEF Precede
  <2>2. q[r] \in Int /\ p[r] \in Int /\ i \in Int
    BY DEF Counts
  <2>3. CASE i <= p[r]
    <3>1. CreatedIn(t, 0, n + 1, r, i) \/ (i \notin lacks[r] /\ ~StartIn(t, 0, n + 1, r))
      <4>1. i \in 1 .. p[r] /\ Precede(t, 0, lacks, n + 1, r, p[r])
        BY <2>2, <2>3 DEF Sequenced
      <4> QED BY <4>1 DEF Precede
    <3>2. ASSUME ~StartIn(t, 0, n + 1, r)
          PROVE  ~StartIn(s, 0, n + 2, r)
      <4>1. SUFFICES ASSUME NEW c \in DOMAIN s, s[c].kind = "start", s[c].gen = r
                     PROVE  FALSE
        BY DEF StartIn
      <4>2. CASE c = n + 1
        <5>1. m.kind = "start" /\ m.gen = r
          BY <4>1, <4>2 DEF Extends
        <5> QED BY <2>1, <2>2, <5>1
      <4>3. CASE c # n + 1
        <5>1. c \in DOMAIN t /\ s[c] = t[c] /\ 0 < c /\ c < n + 1
          BY <1>0, <4>3 DEF Extends
        <5> QED BY <3>2, <4>1, <5>1 DEF StartIn
      <4> QED BY <4>2, <4>3
    <3> QED BY <1>2, <3>1, <3>2
  <2>4. CASE ~(i <= p[r])
    <3>1. m.kind = "created" /\ m.gen = r /\ At(m) = q[r] /\ i = q[r]
      BY <2>2, <2>4 DEF Promises
    <3>2. n + 1 \in DOMAIN s /\ 0 < n + 1 /\ n + 1 < n + 2 /\ s[n + 1] = m
      BY <1>0 DEF Extends
    <3> QED BY <3>1, <3>2 DEF CreatedIn
  <2> QED BY <2>3, <2>4
<1>5. n + 1 + 1 = n + 2
  BY <1>0
<1> QED BY <1>3, <1>4, <1>5 DEF Sequenced

\* A page without a snapshot lacks nothing, as long as no start is on its way.
LEMMA NothingLacks ==
    ASSUME NEW t, NEW n, Traffic(t, n), \A k \in 1 .. n : t[k].kind # "start", NEW p
    PROVE  Sequenced(t, 0, n, Nothing, p)
<1>1. ASSUME NEW k, NEW g \in Runs, NEW j
      PROVE  Precede(t, 0, Nothing, k, g, j)
  BY DEF Precede, StartIn, Nothing, Traffic
<1>2. ASSUME NEW k \in 1 .. n, BlockEvent(t[k])
      PROVE  Precede(t, 0, Nothing, k, t[k].gen, At(t[k]) - 1)
  BY <1>1, <1>2, BlockEventTyped DEF Traffic
<1> QED BY <1>1, <1>2 DEF Sequenced

\* A snapshot has the blocks of every event that was emitted before it.
LEMMA SnapshotHas ==
    ASSUME NEW t, NEW n, Traffic(t, n), NEW p, Counts(p), Sequenced(t, 0, n, Nothing, p),
           NEW l \in StreamSet,
           \A k \in 1 .. n : BlockEvent(t[k]) /\ t[k].gen = l.gen => At(t[k]) <= Len(l.blocks),
           \A r \in Runs : r = l.gen => p[r] <= Len(l.blocks)
    PROVE  Sequenced(t, 0, n, LacksEntry(l), p)
<1>0. Len(l.blocks) \in Nat
  BY DEF StreamSet, Blocks
<1>1. ASSUME NEW k, NEW g \in Runs, NEW j \in Int, g = l.gen => j <= Len(l.blocks),
             Precede(t, 0, Nothing, k, g, j)
      PROVE  Precede(t, 0, LacksEntry(l), k, g, j)
  <2>1. \A i \in 1 .. j : i \notin LacksEntry(l)[g]
    BY <1>0, <1>1 DEF LacksEntry
  <2> QED BY <1>1, <2>1 DEF Precede
<1>2. ASSUME NEW k \in 1 .. n, BlockEvent(t[k])
      PROVE  Precede(t, 0, LacksEntry(l), k, t[k].gen, At(t[k]) - 1)
  <2>1. t[k].gen \in Runs /\ At(t[k]) \in Nat
    BY <1>2, BlockEventTyped DEF Traffic
  <2>2. At(t[k]) - 1 \in Int /\ (t[k].gen = l.gen => At(t[k]) - 1 <= Len(l.blocks))
    BY <1>0, <1>2, <2>1
  <2>3. 0 < k
    OBVIOUS
  <2>4. Precede(t, 0, Nothing, k, t[k].gen, At(t[k]) - 1)
    BY <1>2, <2>3 DEF Sequenced
  <2> QED BY <1>1, <2>1, <2>2, <2>4
<1>3. ASSUME NEW r \in Runs
      PROVE  Precede(t, 0, LacksEntry(l), n + 1, r, p[r])
  BY <1>1 DEF Sequenced, Counts
<1> QED BY <1>2, <1>3 DEF Sequenced

\* The queue and the wire are one sequence.
LEMMA TransitIs ==
    ASSUME NEW queue \in Seq(PageEvents), NEW w \in Seq(Messages)
    PROVE  LET t == Transit(queue, w)
               n == Len(queue) + Len(w)
           IN  /\ Traffic(t, n)
               /\ DOMAIN queue = 1 .. Len(queue) /\ DOMAIN w = 1 .. Len(w)
               /\ Len(queue) \in Nat /\ Len(w) \in Nat
               /\ \A i \in DOMAIN queue : i \in 1 .. n /\ t[i] = queue[i]
               /\ \A i \in DOMAIN w : Len(queue) + i \in 1 .. n /\ t[Len(queue) + i] = w[i]
               /\ \A k \in 1 .. n : \/ k \in DOMAIN queue /\ t[k] = queue[k]
                                    \/ k - Len(queue) \in DOMAIN w /\ t[k] = w[k - Len(queue)]
<1> DEFINE t == Transit(queue, w)
           n == Len(queue) + Len(w)
<1>1. /\ DOMAIN queue = 1 .. Len(queue) /\ DOMAIN w = 1 .. Len(w)
      /\ Len(queue) \in Nat /\ Len(w) \in Nat /\ n \in Nat
      /\ \A i \in DOMAIN queue : queue[i] \in PageEvents
      /\ \A i \in DOMAIN w : w[i] \in Messages
  OBVIOUS
<1>2. DOMAIN t = 1 .. n /\ \A k \in 1 .. n : t[k] = IF k <= Len(queue) THEN queue[k] ELSE w[k - Len(queue)]
  BY DEF Transit
<1> HIDE DEF t
<1>3. \A i \in DOMAIN queue : i \in 1 .. n /\ t[i] = queue[i]
  BY <1>1, <1>2
<1>4. \A i \in DOMAIN w : Len(queue) + i \in 1 .. n /\ t[Len(queue) + i] = w[i]
  <2>1. ASSUME NEW i \in DOMAIN w
        PROVE  Len(queue) + i \in 1 .. n /\ ~(Len(queue) + i <= Len(queue)) /\ Len(queue) + i - Len(queue) = i
    BY <1>1
  <2> QED BY <1>2, <2>1
<1>5. \A k \in 1 .. n : \/ k \in DOMAIN queue /\ t[k] = queue[k]
                        \/ k - Len(queue) \in DOMAIN w /\ t[k] = w[k - Len(queue)]
  BY <1>1, <1>2
<1>6. \A k \in 1 .. n : t[k] \in Messages
  BY <1>1, <1>5 DEF Messages
<1> QED BY <1>1, <1>2, <1>3, <1>4, <1>5, <1>6 DEF Traffic, t

\* A message is sent.
LEMMA TransitSent ==
    ASSUME NEW queue \in Seq(PageEvents), NEW w \in Seq(Messages), NEW m \in Messages
    PROVE  /\ Extends(Transit(queue, Append(w, m)), Transit(queue, w), Len(queue) + Len(w), m)
           /\ Len(queue) + Len(Append(w, m)) = Len(queue) + Len(w) + 1
           /\ Append(w, m) \in Seq(Messages)
<1> DEFINE x == Append(w, m)
<1>1. /\ x \in Seq(Messages) /\ Len(w) \in Nat /\ Len(x) = Len(w) + 1 /\ DOMAIN w = 1 .. Len(w)
      /\ \A i \in DOMAIN w : x[i] = w[i]
      /\ x[Len(w) + 1] = m
  BY AppendIs
<1> HIDE DEF x
<1>2. Len(queue) \in Nat /\ Len(queue) + Len(x) = Len(queue) + Len(w) + 1
  BY <1>1
<1>3. ASSUME NEW k \in 1 .. Len(queue) + Len(w)
      PROVE  Transit(queue, x)[k] = Transit(queue, w)[k]
  <2>1. k \in 1 .. Len(queue) + Len(x)
    BY <1>1, <1>2
  <2>2. CASE k <= Len(queue)
    BY <2>1, <2>2 DEF Transit
  <2>3. CASE ~(k <= Len(queue))
    <3>1. k - Len(queue) \in DOMAIN w
      BY <1>1, <1>2, <2>3
    <3> QED BY <1>1, <2>1, <2>3, <3>1 DEF Transit
  <2> QED BY <2>2, <2>3
<1>4. Transit(queue, x)[Len(queue) + Len(w) + 1] = m
  <2>1. /\ Len(queue) + Len(w) + 1 \in 1 .. Len(queue) + Len(x)
        /\ ~(Len(queue) + Len(w) + 1 <= Len(queue))
        /\ Len(queue) + Len(w) + 1 - Len(queue) = Len(w) + 1
    BY <1>1, <1>2
  <2> QED BY <1>1, <2>1 DEF Transit
<1>5. DOMAIN Transit(queue, x) = 1 .. Len(queue) + Len(w) + 1
  BY <1>2 DEF Transit
<1> QED BY <1>1, <1>2, <1>3, <1>4, <1>5 DEF Extends, x

\* A message is held: the sequence stays.
LEMMA TransitHeld ==
    ASSUME NEW queue \in Seq(PageEvents), NEW w \in Seq(Messages), w # <<>>, Head(w) \in PageEvents
    PROVE  /\ Transit(Append(queue, Head(w)), Tail(w)) = Transit(queue, w)
           /\ Len(Append(queue, Head(w))) + Len(Tail(w)) = Len(queue) + Len(w)
<1> DEFINE q == Append(queue, Head(w))
           s == Tail(w)
<1>1. /\ q \in Seq(PageEvents) /\ Len(queue) \in Nat /\ Len(q) = Len(queue) + 1
      /\ DOMAIN queue = 1 .. Len(queue)
      /\ \A i \in DOMAIN queue : q[i] = queue[i]
      /\ q[Len(queue) + 1] = Head(w)
  BY AppendIs
<1>2. /\ s \in Seq(Messages) /\ Head(w) = w[1] /\ Len(w) \in Nat \ {0} /\ DOMAIN s = 1 .. Len(w) - 1
      /\ \A i \in DOMAIN s : s[i] = w[i + 1]
  BY TailIs
<1>3. Len(s) = Len(w) - 1
  OBVIOUS
<1> HIDE DEF q, s
<1>4. Len(q) + Len(s) = Len(queue) + Len(w)
  BY <1>1, <1>2, <1>3
<1>5. ASSUME NEW k \in 1 .. Len(queue) + Len(w)
      PROVE  (IF k <= Len(q) THEN q[k] ELSE s[k - Len(q)])
               = IF k <= Len(queue) THEN queue[k] ELSE w[k - Len(queue)]
  <2>1. CASE k <= Len(queue)
    BY <1>1, <2>1
  <2>2. CASE k = Len(queue) + 1
    BY <1>1, <1>2, <2>2
  <2>3. CASE ~(k <= Len(queue) + 1)
    <3>1. k - Len(q) \in DOMAIN s /\ (k - Len(q)) + 1 = k - Len(queue)
      BY <1>1, <1>2, <2>3
    <3>2. s[k - Len(q)] = w[k - Len(queue)]
      BY <1>2, <3>1
    <3> QED BY <1>1, <2>3, <3>2
  <2> QED BY <1>1, <2>1, <2>2, <2>3
<1>6. Transit(q, s) = Transit(queue, w)
  BY <1>4, <1>5 DEF Transit
<1> QED BY <1>4, <1>6 DEF q, s

\* What is left of a sequence whose first messages, all those held, are done.
LEMMA TransitRest ==
    ASSUME NEW queue \in Seq(PageEvents), NEW w \in Seq(Messages), w # <<>>
    PROVE  LET f == Len(queue) + 1
               n == Len(queue) + Len(w)
               s == Transit(<<>>, Tail(w))
           IN  /\ f \in 1 .. n /\ f \in Nat /\ n - f = Len(<<>>) + Len(Tail(w)) /\ Traffic(s, n - f)
               /\ \A i \in 1 .. n - f : i + f \in 1 .. n /\ s[i] = Transit(queue, w)[i + f]
               /\ Transit(queue, w)[f] = Head(w)
<1> DEFINE s == Tail(w)
           f == Len(queue) + 1
           n == Len(queue) + Len(w)
<1>1. /\ s \in Seq(Messages) /\ Head(w) = w[1] /\ 1 \in DOMAIN w /\ Len(w) \in Nat \ {0} /\ DOMAIN s = 1 .. Len(w) - 1
      /\ \A i \in DOMAIN s : i + 1 \in DOMAIN w /\ s[i] = w[i + 1]
  BY TailIs
<1>2. Len(s) = Len(w) - 1 /\ Len(queue) \in Nat
  OBVIOUS
<1> HIDE DEF s
<1>3. <<>> \in Seq(PageEvents) /\ Len(<<>>) = 0
  BY EmptyIs
<1>4. Traffic(Transit(<<>>, s), Len(s)) /\ \A i \in DOMAIN s : Transit(<<>>, s)[i] = s[i]
  <2>1. /\ Traffic(Transit(<<>>, s), Len(<<>>) + Len(s))
        /\ \A i \in DOMAIN s : Transit(<<>>, s)[Len(<<>>) + i] = s[i]
    BY <1>1, <1>3, TransitIs
  <2>2. Len(<<>>) + Len(s) = Len(s) /\ \A i \in DOMAIN s : Len(<<>>) + i = i
    BY <1>1, <1>2, <1>3
  <2> QED BY <2>1, <2>2
<1>5. /\ f \in 1 .. n /\ f \in Nat /\ n - f = Len(s) /\ DOMAIN s = 1 .. n - f
      /\ \A i \in 1 .. n - f : i + f \in 1 .. n /\ i + f = Len(queue) + (i + 1)
  BY <1>1, <1>2
<1>6. \A i \in DOMAIN w : Transit(queue, w)[Len(queue) + i] = w[i]
  BY TransitIs
<1>7. \A i \in 1 .. n - f : Transit(<<>>, s)[i] = Transit(queue, w)[i + f]
  BY <1>1, <1>4, <1>5, <1>6
<1>8. Len(s) = Len(<<>>) + Len(s)
  BY <1>2, <1>3
<1> QED BY <1>1, <1>4, <1>5, <1>6, <1>7, <1>8 DEF s

\* Starts come first, and what the room was left with is followed by a refusal,
\* when a message is sent.
LEMMA StartsMore ==
    ASSUME NEW t, NEW n, Traffic(t, n), StartsFirst(t, n), NEW m, NEW s, Extends(s, t, n, m),
           m.kind = "start" => \A k \in 1 .. n : ~(BlockEvent(t[k]) /\ t[k].gen = m.gen)
    PROVE  StartsFirst(s, n + 1)
<1>1. SUFFICES ASSUME NEW k \in 1 .. n + 1, NEW c \in 1 .. n + 1,
                      s[k].kind = "start", BlockEvent(s[c]), s[c].gen = s[k].gen
               PROVE  k < c
  BY DEF StartsFirst
<1>2. n \in Nat /\ k # c
  BY <1>1 DEF Traffic, BlockEvent
<1>3. CASE c = n + 1
  BY <1>2, <1>3
<1>4. CASE c # n + 1 /\ k = n + 1
  <2>1. c \in 1 .. n /\ s[c] = t[c] /\ s[k] = m
    BY <1>2, <1>4 DEF Extends
  <2> QED BY <1>1, <2>1
<1>5. CASE c # n + 1 /\ k # n + 1
  <2>1. c \in 1 .. n /\ s[c] = t[c] /\ k \in 1 .. n /\ s[k] = t[k]
    BY <1>2, <1>5 DEF Extends
  <2> QED BY <1>1, <2>1 DEF StartsFirst
<1> QED BY <1>3, <1>4, <1>5

\* An element is added that no execution sent: it refuses the page, or all was refused.
LEMMA DoomedMore ==
    ASSUME NEW t, NEW n, Traffic(t, n), NEW m, NEW s, Extends(s, t, n, m),
           ~FromRuns(m), Doomed(t, n) \/ m.kind = "refused"
    PROVE  Doomed(s, n + 1)
<1>1. SUFFICES ASSUME NEW k \in 1 .. n + 1, FromRuns(s[k])
               PROVE  \E i \in 1 .. n + 1 : k < i /\ s[i].kind = "refused"
  BY DEF Doomed
<1>2. k \in 1 .. n /\ FromRuns(t[k]) /\ n \in Nat
  BY <1>1 DEF Extends, Traffic
<1>3. CASE m.kind = "refused"
  <2>1. n + 1 \in 1 .. n + 1 /\ k < n + 1 /\ s[n + 1] = m
    BY <1>2 DEF Extends
  <2> QED BY <1>3, <2>1
<1>4. CASE Doomed(t, n)
  <2>1. PICK i \in 1 .. n : k < i /\ t[i].kind = "refused"
    BY <1>2, <1>4 DEF Doomed
  <2>2. i \in 1 .. n + 1 /\ s[i] = t[i]
    BY <1>2 DEF Extends
  <2> QED BY <2>1, <2>2
<1> QED BY <1>3, <1>4

\* The same of what is left when the first messages are done.
LEMMA StartsRest ==
    ASSUME NEW t, NEW n \in Nat, StartsFirst(t, n), NEW f \in Nat, f <= n, NEW s,
           \A i \in 1 .. n - f : i + f \in 1 .. n /\ s[i] = t[i + f]
    PROVE  StartsFirst(s, n - f)
<1>1. SUFFICES ASSUME NEW k \in 1 .. n - f, NEW c \in 1 .. n - f,
                      s[k].kind = "start", BlockEvent(s[c]), s[c].gen = s[k].gen
               PROVE  k < c
  BY DEF StartsFirst
<1>2. k + f < c + f
  BY <1>1 DEF StartsFirst
<1> QED BY <1>2

\* What follows the elements that were taken.
LEMMA DoomedRest ==
    ASSUME NEW t, NEW n \in Nat, Doomed(t, n), NEW f \in Nat, f <= n, NEW s,
           \A i \in 1 .. n - f : i + f \in 1 .. n /\ s[i] = t[i + f]
    PROVE  Doomed(s, n - f)
<1>1. SUFFICES ASSUME NEW k \in 1 .. n - f, FromRuns(s[k])
               PROVE  \E i \in 1 .. n - f : k < i /\ s[i].kind = "refused"
  BY DEF Doomed
<1>2. PICK i \in 1 .. n : k + f < i /\ t[i].kind = "refused"
  BY <1>1 DEF Doomed
<1>3. i - f \in 1 .. n - f /\ k < i - f /\ (i - f) + f = i
  BY <1>2
<1> QED BY <1>2, <1>3

-----------------------------------------------------------------------------
(* What the page listens to *)

\* The parts of Listens that depend on what was promised.
Fits(w, queue, lacks, p) == Sequenced(Transit(queue, w), 0, Len(queue) + Len(w), lacks, p)
Expects(w, v, a, h, lacks) ==
    \/ h.ready /\ h.up /\ lacks = LacksOf(v)
    \/ a.pc \in {"asked", "entered", "read"} /\ lacks = Nothing
    \/ a.pc = "snapped" /\ lacks = LacksEntry(a.live)
    \/ \E i \in DOMAIN w : w[i].kind = "ack" /\ lacks = LacksEntry(w[i].live)
InRoom(w, a, h) ==
    \/ h.ready /\ h.up
    \/ a.pc \in {"entered", "read", "snapped"}
    \/ \E i \in DOMAIN w : w[i].kind = "ack"
Around(w, queue, a, h, in) ==
    /\ StartsFirst(Transit(queue, w), Len(queue) + Len(w))
    /\ ~in => Doomed(Transit(queue, w), Len(queue) + Len(w))
    /\ ~h.up => ~in /\ w = <<>>
    /\ InRoom(w, a, h) => in
    /\ in => InRoom(w, a, h) \/ a.pc # "none"

\* Listens, in these terms.
LEMMA ListensIs ==
    ASSUME NEW w, NEW queue, NEW v, NEW a, NEW h, NEW in, NEW p
    PROVE  Listens(w, queue, v, a, h, in, p) <=>
             /\ Around(w, queue, a, h, in)
             /\ \A lacks : Expects(w, v, a, h, lacks) => Fits(w, queue, lacks, p)
<1>1. ASSUME Listens(w, queue, v, a, h, in, p)
      PROVE  /\ Around(w, queue, a, h, in)
             /\ \A lacks : Expects(w, v, a, h, lacks) => Fits(w, queue, lacks, p)
  BY <1>1, Zenon DEF Listens, Around, InRoom, Expects, Fits
<1>2. ASSUME Around(w, queue, a, h, in),
             \A lacks : Expects(w, v, a, h, lacks) => Fits(w, queue, lacks, p)
      PROVE  Listens(w, queue, v, a, h, in, p)
  <2>1. h.ready /\ h.up => in /\ Fits(w, queue, LacksOf(v), p)
    BY <1>2, Zenon DEF InRoom, Expects, Around
  <2>2. a.pc \in {"asked", "entered", "read"} => Fits(w, queue, Nothing, p)
    BY <1>2, Zenon DEF Expects
  <2>3. a.pc \in {"entered", "read", "snapped"} => in
    BY <1>2, Zenon DEF InRoom, Around
  <2>4. a.pc = "snapped" => Fits(w, queue, LacksEntry(a.live), p)
    BY <1>2, Zenon DEF Expects
  <2>5. \A i \in DOMAIN w : w[i].kind = "ack" => in /\ Fits(w, queue, LacksEntry(w[i].live), p)
    BY <1>2, Zenon DEF Expects, InRoom, Around
  <2>6. in => \/ h.ready /\ h.up
              \/ a.pc # "none"
              \/ \E i \in DOMAIN w : w[i].kind = "ack"
    BY <1>2, Zenon DEF InRoom, Around
  <2> QED BY <1>2, <2>1, <2>2, <2>3, <2>4, <2>5, <2>6, Zenon DEF Listens, Around, Fits
<1> QED BY <1>1, <1>2

\* Nothing more was promised.
LEMMA ListensLess ==
    ASSUME NEW queue \in Seq(PageEvents), NEW w \in Seq(Messages), NEW v, NEW a, NEW h, NEW in,
           NEW p, Counts(p), NEW q, Counts(q), \A r \in Runs : q[r] <= p[r],
           Listens(w, queue, v, a, h, in, p)
    PROVE  Listens(w, queue, v, a, h, in, q)
<1>1. /\ Around(w, queue, a, h, in)
      /\ \A lacks : Expects(w, v, a, h, lacks) => Fits(w, queue, lacks, p)
  BY ListensIs, Zenon
<1>2. Traffic(Transit(queue, w), Len(queue) + Len(w))
  BY TransitIs
<1>3. ASSUME NEW lacks, Fits(w, queue, lacks, p)
      PROVE  Fits(w, queue, lacks, q)
  <2>1. \A g \in Runs : lacks[g] \subseteq lacks[g]
    OBVIOUS
  <2> QED BY <1>2, <1>3, <2>1, SequencedLess DEF Fits
<1> QED BY <1>1, <1>3, ListensIs, Zenon

\* An event reaches the connection of a page: it was promised.
LEMMA ListensSent ==
    ASSUME NEW queue \in Seq(PageEvents), NEW w \in Seq(Messages), NEW v, NEW a, NEW h, NEW in,
           NEW p, Counts(p), NEW q, Counts(q), Listens(w, queue, v, a, h, in, p),
           NEW m \in PageEvents, h.up, in \/ ~FromRuns(m),
           m.kind = "start" => /\ \A k \in 1 .. Len(queue) + Len(w) :
                                    ~(BlockEvent(Transit(queue, w)[k]) /\ Transit(queue, w)[k].gen = m.gen)
                               /\ q[m.gen] <= 0,
           BlockEvent(m) => At(m) - 1 <= p[m.gen],
           Promises(m, p, q)
    PROVE  Listens(Append(w, m), queue, v, a, h, in, q)
<1> DEFINE t == Transit(queue, w)
           n == Len(queue) + Len(w)
           x == Append(w, m)
           s == Transit(queue, x)
<1>1. /\ Around(w, queue, a, h, in)
      /\ \A lacks : Expects(w, v, a, h, lacks) => Fits(w, queue, lacks, p)
  BY ListensIs, Zenon
<1>2. m \in Messages /\ m.kind # "ack" /\ m.kind # "refused"
  BY EventTyped DEF Messages
<1>3. Traffic(t, n) /\ Extends(s, t, n, m) /\ Len(queue) + Len(x) = n + 1
  BY <1>2, TransitIs, TransitSent
<1>4. \A i \in DOMAIN x : x[i].kind = "ack" => i \in DOMAIN w /\ w[i] = x[i]
  BY <1>2, AppendIs
<1> HIDE DEF t, n, x, s
<1>5. StartsFirst(s, n + 1)
  <2>1. StartsFirst(t, n)
    BY <1>1, Zenon DEF Around, t, n
  <2>2. m.kind = "start" => \A k \in 1 .. n : ~(BlockEvent(t[k]) /\ t[k].gen = m.gen)
    BY Zenon DEF t, n
  <2> QED BY <1>3, <2>1, <2>2, StartsMore
<1>6. ~in => Doomed(s, n + 1)
  <2>1. ~in => Doomed(t, n)
    BY <1>1, Zenon DEF Around, t, n
  <2> QED BY <1>3, <2>1, DoomedMore
<1>8. InRoom(x, a, h) <=> InRoom(w, a, h)
  <2>1. \A i \in DOMAIN w : i \in DOMAIN x /\ x[i] = w[i]
    BY <1>2, AppendIs DEF x
  <2> QED BY <1>4, <2>1, Zenon DEF InRoom
<1>7. Around(x, queue, a, h, in)
  <2>1. h.up
    OBVIOUS
  <2> QED BY <1>1, <1>3, <1>5, <1>6, <1>8, <2>1, Zenon DEF Around, s
<1>9. ASSUME NEW lacks, Expects(x, v, a, h, lacks)
      PROVE  Fits(x, queue, lacks, q)
  <2>1. Expects(w, v, a, h, lacks)
    BY <1>4, <1>9, Zenon DEF Expects
  <2>2. Sequenced(t, 0, n, lacks, p)
    BY <1>1, <2>1 DEF Fits, t, n
  <2>3. Sequenced(s, 0, n + 1, lacks, q)
    BY <1>2, <1>3, <2>2, SequencedMore
  <2> QED BY <1>3, <2>3 DEF Fits, s
<1> QED BY <1>1, <1>7, <1>8, <1>9, ListensIs, Zenon DEF x

\* Out of the room and with no refusal to come, no event of an execution is on
\* its way.
LEMMA NothingFromRuns ==
    ASSUME NEW queue \in Seq(PageEvents), NEW w \in Seq(Messages),
           Doomed(Transit(queue, w), Len(queue) + Len(w)), \A i \in DOMAIN w : w[i].kind # "refused"
    PROVE  \A k \in 1 .. Len(queue) + Len(w) : ~FromRuns(Transit(queue, w)[k])
<1>1. \A k \in 1 .. Len(queue) + Len(w) : Transit(queue, w)[k].kind # "refused"
  <2>1. \A i \in DOMAIN queue : queue[i] \in PageEvents /\ queue[i].kind # "refused"
    BY EventTyped
  <2> QED BY <2>1, TransitIs
<1> QED BY <1>1 DEF Doomed

\* An event misses a page that is not in the room.
LEMMA ListensMissed ==
    ASSUME NEW queue \in Seq(PageEvents), NEW w \in Seq(Messages), NEW v, NEW a, NEW h, NEW in, ~in,
           NEW p, NEW q, Listens(w, queue, v, a, h, in, p), OneAnswer(w, a, h)
    PROVE  Listens(w, queue, v, a, h, in, q)
<1>1. Around(w, queue, a, h, in) /\ ~InRoom(w, a, h)
  BY ListensIs, Zenon DEF Around
<1>2. ASSUME NEW lacks, Expects(w, v, a, h, lacks)
      PROVE  Fits(w, queue, lacks, q)
  <2>1. a.pc # "none" /\ lacks = Nothing
    BY <1>1, <1>2 DEF Expects, InRoom
  <2>2. \A i \in DOMAIN w : w[i].kind # "refused"
    BY <2>1 DEF OneAnswer, IsAnswer
  <2>3. \A k \in 1 .. Len(queue) + Len(w) : Transit(queue, w)[k].kind # "start"
    BY <1>1, <2>2, NothingFromRuns DEF Around, FromRuns
  <2>4. Traffic(Transit(queue, w), Len(queue) + Len(w))
    BY TransitIs
  <2> QED BY <2>1, <2>3, <2>4, NothingLacks DEF Fits
<1> QED BY <1>1, <1>2, ListensIs, Zenon

\* Nothing is on its way: a connection that is new or broken.
LEMMA ListensNew ==
    ASSUME NEW v, NEW a, a.pc \in {"none", "asked"}, NEW h, ~(h.ready /\ h.up), NEW p,
           NEW in, ~in
    PROVE  Listens(<<>>, <<>>, v, a, h, in, p)
<1>1. Len(<<>>) + Len(<<>>) = 0 /\ 1 .. 0 = {} /\ DOMAIN <<>> = {}
  BY EmptyIs
<1>2. Traffic(Transit(<<>>, <<>>), 0)
  BY <1>1 DEF Traffic, Transit
<1>4. ~InRoom(<<>>, a, h)
  BY <1>1 DEF InRoom
<1>3. Around(<<>>, <<>>, a, h, in)
  <2>1. StartsFirst(Transit(<<>>, <<>>), 0) /\ Doomed(Transit(<<>>, <<>>), 0)
    BY <1>1 DEF StartsFirst, Doomed
  <2> QED BY <1>1, <1>4, <2>1 DEF Around
<1>5. ASSUME NEW lacks, Expects(<<>>, v, a, h, lacks)
      PROVE  Fits(<<>>, <<>>, lacks, p)
  <2>1. lacks = Nothing
    BY <1>1, <1>5 DEF Expects
  <2>2. Sequenced(Transit(<<>>, <<>>), 0, 0, Nothing, p)
    BY <1>1, <1>2, NothingLacks
  <2> QED BY <1>1, <2>1, <2>2 DEF Fits
<1> QED BY <1>3, <1>4, <1>5, ListensIs, Zenon

\* The page asks for what is stored. Nothing is lacking until it is answered.
LEMMA ListensAsked ==
    ASSUME NEW w \in Seq(Messages), NEW v, NEW a, NEW h, NEW in \in BOOLEAN, NEW p, Counts(p),
           Listens(w, <<>>, v, a, h, in, p), \A i \in DOMAIN w : ~IsAnswer(w[i]),
           NEW b, b.pc = "asked", NEW k, k.up = h.up, ~k.ready, a.pc = "none"
    PROVE  Listens(w, <<>>, v, b, k, in, p)
<1>1. /\ Around(w, <<>>, a, h, in)
      /\ \A lacks : Expects(w, v, a, h, lacks) => Fits(w, <<>>, lacks, p)
  BY ListensIs, Zenon
<1>3. ~InRoom(w, b, k)
  BY DEF InRoom, IsAnswer
<1>2. Around(w, <<>>, b, k, in)
  <2>1. b.pc # "none" /\ k.up = h.up
    OBVIOUS
  <2> QED BY <1>1, <1>3, <2>1, Zenon DEF Around
<1>4. <<>> \in Seq(PageEvents)
  BY EmptyIs
<1>5. Traffic(Transit(<<>>, w), Len(<<>>) + Len(w))
  BY <1>4, TransitIs
<1>6. Fits(w, <<>>, Nothing, p)
  <2>1. CASE in
    <3>0. InRoom(w, a, h) /\ a.pc = "none"
      BY <1>1, <2>1, Zenon DEF Around
    <3>1. PICK lacks : Expects(w, v, a, h, lacks)
      BY <3>0 DEF InRoom, Expects, IsAnswer
    <3>2. Fits(w, <<>>, lacks, p)
      BY <1>1, <3>1, Zenon
    <3>3. \A g \in Runs : Nothing[g] \subseteq lacks[g]
      BY DEF Nothing
    <3>4. \A r \in Runs : p[r] <= p[r]
      BY DEF Counts
    <3> QED BY <1>5, <3>2, <3>3, <3>4, SequencedLess DEF Fits
  <2>2. CASE ~in
    <3>1. \A i \in DOMAIN w : w[i].kind # "refused"
      BY DEF IsAnswer
    <3>2. Doomed(Transit(<<>>, w), Len(<<>>) + Len(w))
      BY <1>1, <2>2, Zenon DEF Around
    <3>3. \A i \in 1 .. Len(<<>>) + Len(w) : ~FromRuns(Transit(<<>>, w)[i])
      BY <1>4, <3>1, <3>2, NothingFromRuns
    <3> QED BY <1>5, <3>3, NothingLacks DEF Fits, FromRuns
  <2> QED BY <2>1, <2>2
<1>7. ASSUME NEW lacks, Expects(w, v, b, k, lacks)
      PROVE  Fits(w, <<>>, lacks, p)
  <2>1. lacks = Nothing
    BY <1>7 DEF Expects, IsAnswer
  <2> QED BY <1>6, <2>1
<1> QED BY <1>2, <1>3, <1>7, ListensIs, Zenon

\* The connection is in the room of the Task.
IsIn(in) == in

\* The handler enters the room, and reads the rows.
LEMMA ListensEntered ==
    ASSUME NEW queue, NEW w, NEW v, NEW a, NEW h, NEW in, NEW p,
           Listens(w, queue, v, a, h, in, p), OneAnswer(w, a, h), a.pc \in {"asked", "entered"},
           NEW b, b.pc \in {"entered", "read"}, NEW now, IsIn(now)
    PROVE  Listens(w, queue, v, b, h, now, p)
<1>1. /\ Around(w, queue, a, h, in)
      /\ \A lacks : Expects(w, v, a, h, lacks) => Fits(w, queue, lacks, p)
  BY ListensIs, Zenon
<1>2. h.up /\ ~h.ready /\ \A i \in DOMAIN w : w[i].kind # "ack"
  BY DEF OneAnswer, IsAnswer
<1>3. b.pc # "none" /\ InRoom(w, b, h)
  BY DEF InRoom
<1>4. Around(w, queue, b, h, now)
  <2>1. now
    BY DEF IsIn
  <2> QED BY <1>1, <1>2, <1>3, <2>1, Zenon DEF Around
<1>5. ASSUME NEW lacks, Expects(w, v, b, h, lacks)
      PROVE  Expects(w, v, a, h, lacks)
  BY <1>2, <1>5 DEF Expects
<1> QED BY <1>1, <1>4, <1>5, ListensIs, Zenon

\* It takes the snapshot.
LEMMA ListensSnapped ==
    ASSUME NEW queue \in Seq(PageEvents), NEW w \in Seq(Messages), NEW v, NEW a, NEW h, NEW in, NEW p, Counts(p),
           Listens(w, queue, v, a, h, in, p), OneAnswer(w, a, h), a.pc = "read",
           NEW l \in StreamSet, NEW b, b.pc = "snapped", b.live = l,
           \A k \in 1 .. Len(queue) + Len(w) :
               BlockEvent(Transit(queue, w)[k]) /\ Transit(queue, w)[k].gen = l.gen
                  => At(Transit(queue, w)[k]) <= Len(l.blocks),
           \A r \in Runs : r = l.gen => p[r] <= Len(l.blocks)
    PROVE  Listens(w, queue, v, b, h, in, p)
<1>1. /\ Around(w, queue, a, h, in)
      /\ \A lacks : Expects(w, v, a, h, lacks) => Fits(w, queue, lacks, p)
  BY ListensIs, Zenon
<1>2. h.up /\ ~h.ready /\ \A i \in DOMAIN w : w[i].kind # "ack"
  BY DEF OneAnswer, IsAnswer
<1>3. InRoom(w, b, h) /\ InRoom(w, a, h)
  BY DEF InRoom
<1>4. Around(w, queue, b, h, in)
  BY <1>1, <1>2, <1>3, Zenon DEF Around
<1>5. Fits(w, queue, Nothing, p)
  <2>1. Expects(w, v, a, h, Nothing)
    BY DEF Expects
  <2> QED BY <1>1, <2>1, Zenon
<1>6. Fits(w, queue, LacksEntry(l), p)
  <2>1. Traffic(Transit(queue, w), Len(queue) + Len(w))
    BY TransitIs
  <2>2. Sequenced(Transit(queue, w), 0, Len(queue) + Len(w), Nothing, p)
    BY <1>5, Zenon DEF Fits
  <2> DEFINE t == Transit(queue, w)
             n == Len(queue) + Len(w)
  <2>3. \A k \in 1 .. n : BlockEvent(t[k]) /\ t[k].gen = l.gen => At(t[k]) <= Len(l.blocks)
    OBVIOUS
  <2>4. Traffic(t, n) /\ Sequenced(t, 0, n, Nothing, p)
    BY <2>1, <2>2
  <2> HIDE DEF t, n
  <2>5. Sequenced(t, 0, n, LacksEntry(l), p)
    BY <2>3, <2>4, SnapshotHas
  <2> QED BY <2>5, Zenon DEF Fits, t, n
<1>7. ASSUME NEW lacks, Expects(w, v, b, h, lacks)
      PROVE  lacks = LacksEntry(l)
  BY <1>2, <1>7 DEF Expects
<1> QED BY <1>4, <1>6, <1>7, ListensIs, Zenon

\* It answers, or refuses and leaves the room.
LEMMA ListensAnswered ==
    ASSUME NEW queue \in Seq(PageEvents), NEW w \in Seq(Messages), NEW v, NEW a, NEW h, NEW in, NEW p, Counts(p),
           Listens(w, queue, v, a, h, in, p), OneAnswer(w, a, h), a.pc = "snapped",
           NEW m \in Messages, m.kind = "ack", m.live = a.live
    PROVE  Listens(Append(w, m), queue, v, NoAsk, h, in, p)
<1> DEFINE t == Transit(queue, w)
           n == Len(queue) + Len(w)
           x == Append(w, m)
           s == Transit(queue, x)
<1>1. /\ Around(w, queue, a, h, in)
      /\ \A lacks : Expects(w, v, a, h, lacks) => Fits(w, queue, lacks, p)
  BY ListensIs, Zenon
<1>2. h.up /\ ~h.ready /\ (\A i \in DOMAIN w : w[i].kind # "ack") /\ NoAsk.pc = "none"
  BY DEF OneAnswer, IsAnswer, NoAsk
<1>3. Traffic(t, n) /\ Extends(s, t, n, m) /\ Len(queue) + Len(x) = n + 1
  BY TransitIs, TransitSent
<1>4. \A i \in DOMAIN x : x[i].kind = "ack" => x[i] = m
  BY <1>2, AppendIs
<1>5. \E i \in DOMAIN x : x[i] = m
  BY AppendIs
<1>6. in
  BY <1>1, Zenon DEF Around, InRoom
<1> HIDE DEF t, n, x, s
<1>7. StartsFirst(s, n + 1)
  <2>1. StartsFirst(t, n)
    BY <1>1, Zenon DEF Around, t, n
  <2> QED BY <1>3, <2>1, StartsMore
<1>8. InRoom(x, NoAsk, h)
  BY <1>5 DEF InRoom
<1>9. Around(x, queue, NoAsk, h, in)
  BY <1>2, <1>3, <1>6, <1>7, <1>8, Zenon DEF Around, s
<1>10. ASSUME NEW lacks, Expects(x, v, NoAsk, h, lacks)
       PROVE  Fits(x, queue, lacks, p)
  <2>1. lacks = LacksEntry(a.live)
    BY <1>2, <1>4, <1>10 DEF Expects
  <2>2. Expects(w, v, a, h, lacks)
    BY <2>1 DEF Expects
  <2>3. Sequenced(t, 0, n, lacks, p)
    BY <1>1, <2>2, Zenon DEF Fits, t, n
  <2>4. Promises(m, p, p) /\ ~BlockEvent(m)
    BY DEF Promises, Counts, BlockEvent
  <2>5. Sequenced(s, 0, n + 1, lacks, p)
    BY <1>3, <2>3, <2>4, SequencedMore
  <2> QED BY <1>3, <2>5, Zenon DEF Fits, s
<1> QED BY <1>9, <1>10, ListensIs, Zenon DEF x

\* The join is refused, and the page is out of the room.
LEMMA ListensTurnedDown ==
    ASSUME NEW queue \in Seq(PageEvents), NEW w \in Seq(Messages), NEW v, NEW a, NEW h, NEW in, NEW p,
           Listens(w, queue, v, a, h, in, p), OneAnswer(w, a, h), a.pc # "none",
           NEW m \in Messages, m.kind = "refused", NEW out, ~out
    PROVE  Listens(Append(w, m), queue, v, NoAsk, h, out, p)
<1> DEFINE t == Transit(queue, w)
           n == Len(queue) + Len(w)
           x == Append(w, m)
           s == Transit(queue, x)
<1>1. Around(w, queue, a, h, in)
  BY ListensIs, Zenon
<1>2. h.up /\ ~h.ready /\ (\A i \in DOMAIN w : w[i].kind # "ack") /\ NoAsk.pc = "none"
  BY DEF OneAnswer, IsAnswer, NoAsk
<1>3. Traffic(t, n) /\ Extends(s, t, n, m) /\ Len(queue) + Len(x) = n + 1
  BY TransitIs, TransitSent
<1>4. \A i \in DOMAIN x : x[i].kind # "ack"
  BY <1>2, AppendIs
<1> HIDE DEF t, n, x, s
<1>5. StartsFirst(s, n + 1)
  <2>1. StartsFirst(t, n)
    BY <1>1, Zenon DEF Around, t, n
  <2> QED BY <1>3, <2>1, StartsMore
<1>6. Doomed(s, n + 1)
  BY <1>3, DoomedMore DEF FromRuns, BlockEvent
<1>7. ~InRoom(x, NoAsk, h) /\ \A lacks : ~Expects(x, v, NoAsk, h, lacks)
  BY <1>2, <1>4 DEF InRoom, Expects
<1>8. Around(x, queue, NoAsk, h, out)
  BY <1>2, <1>3, <1>5, <1>6, <1>7, Zenon DEF Around, s
<1> QED BY <1>7, <1>8, ListensIs, Zenon DEF x

\* What is around the page when the head of the connection is gone and what was
\* held too.
LEMMA AroundRest ==
    ASSUME NEW queue \in Seq(PageEvents), NEW w \in Seq(Messages), w # <<>>, NEW a, NEW h, NEW in,
           Around(w, queue, a, h, in), NEW k, k.up = h.up,
           InRoom(Tail(w), a, k) => in, in => InRoom(Tail(w), a, k) \/ a.pc # "none"
    PROVE  Around(Tail(w), <<>>, a, k, in)
<1> DEFINE t == Transit(queue, w)
           n == Len(queue) + Len(w)
           f == Len(queue) + 1
           s == Transit(<<>>, Tail(w))
<1>1. /\ f \in 1 .. n /\ f \in Nat /\ n - f = Len(<<>>) + Len(Tail(w))
      /\ \A i \in 1 .. n - f : i + f \in 1 .. n /\ s[i] = t[i + f]
  BY TransitRest
<1>2. StartsFirst(t, n) /\ (~in => Doomed(t, n)) /\ h.up
  BY Zenon DEF Around
<1>3. n \in Nat /\ f <= n
  <2>1. Len(queue) \in Nat /\ Len(w) \in Nat
    BY TransitIs
  <2> QED BY <1>1, <2>1
<1> HIDE DEF t, n, f, s
<1>4. StartsFirst(s, n - f)
  BY <1>1, <1>2, <1>3, StartsRest
<1>5. ~in => Doomed(s, n - f)
  BY <1>1, <1>2, <1>3, DoomedRest
<1>6. k.up
  BY <1>2
<1> QED BY <1>1, <1>4, <1>5, <1>6, Zenon DEF Around, s

\* The page shows an event: it takes it from what it lacks.
LEMMA ListensShown ==
    ASSUME NEW w \in Seq(Messages), w # <<>>, NEW v, NEW a, NEW h, h.ready, NEW in, NEW p, Counts(p),
           Listens(w, <<>>, v, a, h, in, p), OneAnswer(w, a, h),
           NEW x, Consumed(Head(w), LacksOf(v), LacksOf(x))
    PROVE  Listens(Tail(w), <<>>, x, a, h, in, p)
<1> DEFINE t == Transit(<<>>, w)
           n == Len(<<>>) + Len(w)
           f == Len(<<>>) + 1
           s == Transit(<<>>, Tail(w))
<1>1. /\ Around(w, <<>>, a, h, in)
      /\ \A lacks : Expects(w, v, a, h, lacks) => Fits(w, <<>>, lacks, p)
  BY ListensIs, Zenon
<1>2. h.up /\ a.pc = "none" /\ \A i \in DOMAIN w : w[i].kind # "ack"
  <2>1. h.up
    BY <1>1, Zenon DEF Around
  <2> QED BY <2>1 DEF OneAnswer, IsAnswer
<1>3. \A i \in DOMAIN Tail(w) : Tail(w)[i].kind # "ack"
  BY <1>2, TailIs
<1>4. InRoom(w, a, h) /\ InRoom(Tail(w), a, h)
  BY <1>2 DEF InRoom
<1>5. <<>> \in Seq(PageEvents) /\ Len(<<>>) = 0
  BY EmptyIs
<1>6. Around(Tail(w), <<>>, a, h, in)
  <2>1. in
    BY <1>1, <1>4, Zenon DEF Around
  <2> QED BY <1>1, <1>4, <1>5, <2>1, AroundRest
<1>7. /\ f \in 1 .. n /\ f \in Nat /\ n - f = Len(<<>>) + Len(Tail(w)) /\ Traffic(s, n - f)
      /\ \A i \in 1 .. n - f : i + f \in 1 .. n /\ s[i] = t[i + f]
      /\ t[f] = Head(w)
  BY <1>5, TransitRest
<1>8. Traffic(t, n) /\ StartsFirst(t, n) /\ Sequenced(t, 0, n, LacksOf(v), p)
  <2>1. Traffic(t, n)
    BY <1>5, TransitIs
  <2>2. StartsFirst(t, n)
    BY <1>1, Zenon DEF Around
  <2>3. Expects(w, v, a, h, LacksOf(v))
    BY <1>2 DEF Expects
  <2>4. Sequenced(t, 0, n, LacksOf(v), p)
    BY <1>1, <2>3, Zenon DEF Fits
  <2> QED BY <2>1, <2>2, <2>4
<1>9. f = 0 + 1 /\ 0 \in Nat
  BY <1>5
<1> HIDE DEF t, n, f, s
<1>10. Sequenced(t, f, n, LacksOf(x), p)
  <2>1. Sequenced(t, 0 + 1, n, LacksOf(x), p)
    BY <1>7, <1>8, <1>9, SequencedNext
  <2> QED BY <1>9, <2>1
<1>11. Sequenced(s, 0, n - f, LacksOf(x), p)
  <2>1. f <= n
    BY <1>7, <1>8 DEF Traffic
  <2> QED BY <1>7, <1>8, <1>10, <2>1, SequencedRest
<1>12. ASSUME NEW lacks, Expects(Tail(w), x, a, h, lacks)
       PROVE  Fits(Tail(w), <<>>, lacks, p)
  <2>1. lacks = LacksOf(x)
    BY <1>2, <1>3, <1>12 DEF Expects
  <2> QED BY <1>7, <1>11, <2>1, Zenon DEF Fits, s
<1> QED BY <1>6, <1>12, ListensIs, Zenon

\* The page holds an event, or drops it because its join was refused.
LEMMA ListensHeld ==
    ASSUME NEW queue \in Seq(PageEvents), NEW w \in Seq(Messages), w # <<>>, Head(w) \in PageEvents,
           NEW v, NEW a, NEW h, ~h.ready, NEW in, NEW p,
           Listens(w, queue, v, a, h, in, p), NEW k, ~k.ready, k.up = h.up
    PROVE  Listens(Tail(w), Append(queue, Head(w)), v, a, k, in, p)
<1> DEFINE q == Append(queue, Head(w))
           x == Tail(w)
<1>1. /\ Around(w, queue, a, h, in)
      /\ \A lacks : Expects(w, v, a, h, lacks) => Fits(w, queue, lacks, p)
  BY ListensIs, Zenon
<1>2. Transit(q, x) = Transit(queue, w) /\ Len(q) + Len(x) = Len(queue) + Len(w)
  BY TransitHeld
<1>3. /\ \A i \in DOMAIN x : i + 1 \in DOMAIN w /\ x[i] = w[i + 1]
      /\ \A i \in DOMAIN w : i # 1 => i - 1 \in DOMAIN x /\ x[i - 1] = w[i]
      /\ w[1].kind # "ack"
  <2>1. /\ Head(w) = w[1] /\ Len(w) \in Nat \ {0} /\ DOMAIN w = 1 .. Len(w) /\ DOMAIN x = 1 .. Len(w) - 1
        /\ \A i \in DOMAIN x : i + 1 \in DOMAIN w /\ x[i] = w[i + 1]
    BY TailIs
  <2>2. \A i \in DOMAIN w : i # 1 => i - 1 \in DOMAIN x /\ (i - 1) + 1 = i
    BY <2>1
  <2>3. w[1].kind # "ack"
    BY <2>1, EventTyped
  <2> QED BY <2>1, <2>2, <2>3
<1> HIDE DEF q, x
<1>4. (\E i \in DOMAIN x : x[i].kind = "ack") <=> (\E i \in DOMAIN w : w[i].kind = "ack")
  BY <1>3
<1>5. InRoom(x, a, k) <=> InRoom(w, a, h)
  BY <1>4 DEF InRoom
<1>6. Around(x, q, a, k, in)
  <2>1. h.up
    BY <1>1, Zenon DEF Around
  <2>2. k.up
    BY <2>1
  <2> QED BY <1>1, <1>2, <1>5, <2>2, Zenon DEF Around
<1>7. ASSUME NEW lacks, Expects(x, v, a, k, lacks)
      PROVE  Fits(x, q, lacks, p)
  <2>1. Expects(w, v, a, h, lacks)
    BY <1>3, <1>7 DEF Expects
  <2> QED BY <1>1, <1>2, <2>1, Zenon DEF Fits
<1> QED BY <1>6, <1>7, ListensIs, Zenon DEF q, x

\* A refusal is taken and drops what was held.
LEMMA ListensDropped ==
    ASSUME NEW queue \in Seq(PageEvents), NEW w \in Seq(Messages), w # <<>>,
           NEW v, NEW a, a.pc = "none", NEW h, ~h.ready, NEW in, NEW p,
           \A i \in DOMAIN w : w[i].kind # "ack",
           Listens(w, queue, v, a, h, in, p), NEW k, ~k.ready, k.up = h.up
    PROVE  Listens(Tail(w), <<>>, v, a, k, in, p)
<1>1. Around(w, queue, a, h, in)
  BY ListensIs, Zenon
<1>2. \A i \in DOMAIN Tail(w) : Tail(w)[i].kind # "ack"
  BY TailIs
<1>3. ~InRoom(w, a, h) /\ ~InRoom(Tail(w), a, k) /\ \A lacks : ~Expects(Tail(w), v, a, k, lacks)
  BY <1>2 DEF InRoom, Expects
<1>4. ~in
  BY <1>1, <1>3, Zenon DEF Around
<1>5. Around(Tail(w), <<>>, a, k, in)
  BY <1>1, <1>3, <1>4, AroundRest
<1> QED BY <1>3, <1>5, ListensIs, Zenon

\* The answer hydrates the page.
LEMMA ListensHydrated ==
    ASSUME NEW queue \in Seq(PageEvents), NEW w \in Seq(Messages), w # <<>>, Head(w).kind = "ack",
           NEW v, NEW a, a.pc = "none", NEW h, NEW in, NEW p, Counts(p),
           \A i \in DOMAIN Tail(w) : Tail(w)[i].kind # "ack",
           Listens(w, queue, v, a, h, in, p), NEW k, k.ready, k.up = h.up, NEW x,
           Sequenced(Transit(queue, w), Len(queue), Len(queue) + Len(w), LacksOf(x), p)
    PROVE  Listens(Tail(w), <<>>, x, a, k, in, p)
<1> DEFINE t == Transit(queue, w)
           n == Len(queue) + Len(w)
           f == Len(queue) + 1
           s == Transit(<<>>, Tail(w))
<1>1. Around(w, queue, a, h, in)
  BY ListensIs, Zenon
<1>2. in /\ k.up
  <2>1. h.up
    BY <1>1, Zenon DEF Around
  <2>2. InRoom(w, a, h)
    BY TailIs DEF InRoom
  <2> QED BY <1>1, <2>1, <2>2, Zenon DEF Around
<1>3. InRoom(Tail(w), a, k)
  BY <1>2 DEF InRoom
<1>4. Around(Tail(w), <<>>, a, k, in)
  BY <1>1, <1>2, <1>3, AroundRest
<1>5. /\ f \in 1 .. n /\ f \in Nat /\ n - f = Len(<<>>) + Len(Tail(w)) /\ Traffic(s, n - f)
      /\ \A i \in 1 .. n - f : i + f \in 1 .. n /\ s[i] = t[i + f]
      /\ t[f] = Head(w)
  BY TransitRest
<1>6. Traffic(t, n) /\ StartsFirst(t, n) /\ Len(queue) \in Nat
  <2>1. Traffic(t, n) /\ Len(queue) \in Nat
    BY TransitIs
  <2>2. StartsFirst(t, n)
    BY <1>1, Zenon DEF Around
  <2> QED BY <2>1, <2>2
<1>7. Consumed(Head(w), LacksOf(x), LacksOf(x))
  BY DEF Consumed
<1>8. Sequenced(t, f, n, LacksOf(x), p)
  <2> HIDE DEF t, n
  <2>1. Sequenced(t, Len(queue), n, LacksOf(x), p)
    BY Zenon DEF t, n
  <2>2. Consumed(t[Len(queue) + 1], LacksOf(x), LacksOf(x))
    BY <1>5, <1>7
  <2> QED BY <1>5, <1>6, <2>1, <2>2, SequencedNext
<1> HIDE DEF t, n, f, s
<1>9. Sequenced(s, 0, n - f, LacksOf(x), p)
  <2>1. f <= n
    BY <1>5, <1>6 DEF Traffic
  <2> QED BY <1>5, <1>6, <1>8, <2>1, SequencedRest
<1>10. ASSUME NEW lacks, Expects(Tail(w), x, a, k, lacks)
       PROVE  Fits(Tail(w), <<>>, lacks, p)
  <2>1. lacks = LacksOf(x)
    BY <1>10 DEF Expects
  <2> QED BY <1>5, <1>9, <2>1, Zenon DEF Fits, s
<1> QED BY <1>4, <1>10, ListensIs, Zenon

\* What is around the page does not change.
LEMMA ListensSame ==
    ASSUME NEW queue, NEW w, NEW v, NEW a, NEW h, NEW in, NEW p, Listens(w, queue, v, a, h, in, p),
           NEW k, k.up = h.up, k.ready /\ k.up <=> h.ready /\ h.up
    PROVE  Listens(w, queue, v, a, k, in, p)
<1>1. /\ Around(w, queue, a, h, in)
      /\ \A lacks : Expects(w, v, a, h, lacks) => Fits(w, queue, lacks, p)
  BY ListensIs, Zenon
<1>2. InRoom(w, a, k) <=> InRoom(w, a, h)
  BY DEF InRoom
<1>3. Around(w, queue, a, k, in)
  <2>1. k.up <=> h.up
    OBVIOUS
  <2> QED BY <1>1, <1>2, <2>1, Zenon DEF Around
<1>4. \A lacks : Expects(w, v, a, k, lacks) <=> Expects(w, v, a, h, lacks)
  BY DEF Expects
<1> QED BY <1>1, <1>3, <1>4, ListensIs, Zenon

-----------------------------------------------------------------------------
(* The beginning of a text *)

\* A prefix, element by element.
LEMMA PrefixIs ==
    ASSUME NEW s \in Seq(Nat), NEW t \in Seq(Nat)
    PROVE  IsPrefix(s, t) <=> Len(s) <= Len(t) /\ \A k \in 1 .. Len(s) : s[k] = t[k]
<1>1. SubSeq(s, 1, Len(s)) = s
  OBVIOUS
<1>2. ASSUME Len(s) <= Len(t)
      PROVE  (SubSeq(s, 1, Len(s)) = SubSeq(t, 1, Len(s))) <=> \A k \in 1 .. Len(s) : s[k] = t[k]
  <2>1. /\ SubSeq(t, 1, Len(s)) \in Seq(Nat) /\ Len(SubSeq(t, 1, Len(s))) = Len(s)
        /\ \A k \in 1 .. Len(s) : SubSeq(t, 1, Len(s))[k] = t[k]
    BY <1>2
  <2> DEFINE u == SubSeq(t, 1, Len(s))
  <2> HIDE DEF u
  <2>2. u \in Seq(Nat) /\ Len(u) = Len(s) /\ \A k \in 1 .. Len(s) : u[k] = t[k]
    BY <2>1 DEF u
  <2>3. s = u <=> \A k \in 1 .. Len(s) : s[k] = u[k]
    <3>1. s = [k \in 1 .. Len(s) |-> s[k]] /\ u = [k \in 1 .. Len(s) |-> u[k]]
      BY <2>2
    <3> QED BY <3>1, Zenon
  <2>4. s = u <=> \A k \in 1 .. Len(s) : s[k] = t[k]
    BY <2>2, <2>3
  <2> QED BY <1>1, <2>4 DEF u
<1> QED BY <1>2 DEF IsPrefix

\* Blocks have texts.
LEMMA BlocksAre ==
    ASSUME NEW blocks \in Blocks
    PROVE  /\ Len(blocks) \in Nat /\ DOMAIN blocks = 1 .. Len(blocks)
           /\ \A i \in DOMAIN blocks : /\ blocks[i] \in BlockSet /\ blocks[i].text \in Seq(Nat)
                                       /\ blocks[i].open \in BOOLEAN
<1>1. Len(blocks) \in Nat /\ DOMAIN blocks = 1 .. Len(blocks) /\ \A i \in DOMAIN blocks : blocks[i] \in BlockSet
  BY DEF Blocks
<1>2. \A b \in BlockSet : b.text \in Seq(Nat) /\ b.open \in BOOLEAN
  BY DEF BlockSet
<1> QED BY <1>1, <1>2

\* One block begins another: the same, or open and with less of its text.
BlockBegins(x, y) ==
    /\ x.id = y.id
    /\ Len(x.text) <= Len(y.text) /\ \A k \in 1 .. Len(x.text) : x.text[k] = y.text[k]
    /\ ~x.open => x = y

\* What Begins says, block by block and unit by unit.
LEMMA BeginsIs ==
    ASSUME NEW a \in Blocks, NEW b \in Blocks
    PROVE  Begins(a, b) <=> Len(a) <= Len(b) /\ \A i \in 1 .. Len(a) : BlockBegins(a[i], b[i])
<1>1. ASSUME Len(a) <= Len(b), NEW i \in 1 .. Len(a)
      PROVE  /\ i \in DOMAIN b
             /\ IsPrefix(a[i].text, b[i].text) <=>
                  Len(a[i].text) <= Len(b[i].text) /\ \A k \in 1 .. Len(a[i].text) : a[i].text[k] = b[i].text[k]
  <2>1. i \in DOMAIN a /\ i \in DOMAIN b
    BY <1>1, BlocksAre
  <2> QED BY <2>1, BlocksAre, PrefixIs
<1>2. DOMAIN a = 1 .. Len(a)
  BY BlocksAre
<1>3. ASSUME Begins(a, b)
      PROVE  Len(a) <= Len(b) /\ \A i \in 1 .. Len(a) : BlockBegins(a[i], b[i])
  BY <1>1, <1>2, <1>3 DEF Begins, BlockBegins
<1>4. ASSUME Len(a) <= Len(b), \A i \in 1 .. Len(a) : BlockBegins(a[i], b[i])
      PROVE  Begins(a, b)
  BY <1>1, <1>2, <1>4 DEF Begins, BlockBegins
<1> QED BY <1>3, <1>4

\* Begins is an order.
LEMMA BlockBeginsTwice ==
    ASSUME NEW x \in BlockSet, NEW y \in BlockSet, NEW z \in BlockSet, BlockBegins(x, y), BlockBegins(y, z)
    PROVE  BlockBegins(x, z)
<1>1. Len(x.text) \in Nat /\ Len(y.text) \in Nat /\ Len(z.text) \in Nat
  BY DEF BlockSet
<1>2. \A k \in 1 .. Len(x.text) : k \in 1 .. Len(y.text)
  BY <1>1 DEF BlockBegins
<1> QED BY <1>1, <1>2 DEF BlockBegins

\* A beginning of a beginning is a beginning.
LEMMA BeginsTwice ==
    ASSUME NEW a \in Blocks, NEW b \in Blocks, NEW c \in Blocks, Begins(a, b), Begins(b, c)
    PROVE  Begins(a, c)
<1>1. Len(a) <= Len(b) /\ \A i \in 1 .. Len(a) : BlockBegins(a[i], b[i])
  BY BeginsIs
<1>2. Len(b) <= Len(c) /\ \A i \in 1 .. Len(b) : BlockBegins(b[i], c[i])
  BY BeginsIs
<1>3. Len(a) \in Nat /\ Len(b) \in Nat /\ Len(c) \in Nat
  BY BlocksAre
<1>4. ASSUME NEW i \in 1 .. Len(a)
      PROVE  BlockBegins(a[i], c[i])
  <2>1. i \in DOMAIN a /\ i \in DOMAIN b /\ i \in DOMAIN c /\ i \in 1 .. Len(b)
    BY <1>1, <1>2, <1>3, BlocksAre
  <2> QED BY <1>1, <1>2, <2>1, BlocksAre, BlockBeginsTwice
<1> QED BY <1>1, <1>2, <1>3, <1>4, BeginsIs

\* Blocks begin with themselves and with none.
LEMMA BeginsSame ==
    ASSUME NEW a \in Blocks
    PROVE  Begins(a, a) /\ Begins(<<>>, a)
<1>1. Begins(a, a)
  <2>1. \A i \in 1 .. Len(a) : Len(a[i].text) \in Nat
    BY BlocksAre
  <2> QED BY <2>1, BlocksAre, BeginsIs DEF BlockBegins
<1>2. Begins(<<>>, a)
  <2>1. <<>> \in Blocks /\ Len(<<>>) = 0 /\ 1 .. 0 = {}
    BY EmptyIs DEF Blocks
  <2>2. Len(a) \in Nat
    BY BlocksAre
  <2> QED BY <2>1, <2>2, BeginsIs
<1> QED BY <1>1, <1>2

-----------------------------------------------------------------------------
(* What the text of the server only grows by *)

\* No block of a run is taken back, and the entry of a generation keeps its
\* blocks while it is there.
TextGrows ==
    /\ \A r \in Runs : Begins(run[r].blocks, run'[r].blocks)
    /\ \A r \in Runs : run[r].blocks # <<>> => run'[r].turn = run[r].turn
    /\ \A g \in Runs : stream'.gen = g =>
         run[g].blocks = <<>> \/ (stream.gen = g /\ Len(stream.blocks) <= Len(stream'.blocks))

\* What is typed of an execution.
LEMMA RunTyped ==
    ASSUME ServerTypes, NEW r \in Runs
    PROVE  /\ run[r] \in RunSet /\ run[r].blocks \in Blocks /\ run[r].units \in Nat
           /\ run[r].pending \in Seq(BlockEvents) /\ run[r].event \in RunEvents \cup {NoEvent}
           /\ stream \in StreamSet /\ stream.blocks \in Blocks /\ stream.cached \in Seq(Nat)
           /\ stream.gen \in Runs \cup {0}
<1>1. run[r] \in RunSet /\ stream \in StreamSet
  BY DEF ServerTypes
<1>2. run[r].units \in 0 .. MaxUnits /\ MaxUnits \in Nat
  BY <1>1, BoundsAssumption DEF RunSet
<1> QED BY <1>1, <1>2 DEF RunSet, StreamSet

\* The types of an execution and of the entry after a step.
LEMMA RunTypedNext ==
    ASSUME ServerTypes', NEW r \in Runs
    PROVE  /\ run'[r] \in RunSet /\ run'[r].blocks \in Blocks /\ run'[r].units \in Nat
           /\ run'[r].pending \in Seq(BlockEvents) /\ run'[r].event \in RunEvents \cup {NoEvent}
           /\ stream' \in StreamSet /\ stream'.blocks \in Blocks /\ stream'.cached \in Seq(Nat)
           /\ stream'.gen \in Runs \cup {0}
<1>1. run'[r] \in RunSet /\ stream' \in StreamSet
  BY DEF ServerTypes
<1>2. run'[r].units \in 0 .. MaxUnits /\ MaxUnits \in Nat
  BY <1>1, BoundsAssumption DEF RunSet
<1> QED BY <1>1, <1>2 DEF RunSet, StreamSet

\* What a block becomes.
LEMMA BeginsHas ==
    ASSUME NEW a \in Blocks, NEW b \in Blocks, Begins(a, b), NEW i \in DOMAIN a
    PROVE  /\ i \in DOMAIN b /\ b[i].id = a[i].id /\ (~a[i].open => b[i] = a[i])
           /\ Len(a) <= Len(b)
           /\ \A k \in DOMAIN a[i].text : k \in DOMAIN b[i].text /\ b[i].text[k] = a[i].text[k]
<1>1. Len(a) <= Len(b) /\ i \in 1 .. Len(a) /\ BlockBegins(a[i], b[i])
  BY BeginsIs, BlocksAre
<1>2. i \in DOMAIN b
  BY <1>1, BlocksAre
<1>3. /\ a[i].text \in Seq(Nat) /\ b[i].text \in Seq(Nat)
  BY <1>2, BlocksAre
<1>4. DOMAIN a[i].text = 1 .. Len(a[i].text) /\ DOMAIN b[i].text = 1 .. Len(b[i].text)
      /\ Len(a[i].text) \in Nat /\ Len(b[i].text) \in Nat
  BY <1>3
<1> QED BY <1>1, <1>2, <1>4 DEF BlockBegins

\* What an event said, an entry had and the page shows stays so.
LEMMA SaidStill ==
    ASSUME ServerTypes, ServerTypes', TextGrows, NEW e \in Messages, Said(e)
    PROVE  Said(e)'
<1>1. SUFFICES ASSUME BlockEvent(e)
               PROVE  /\ BlockSaid(e, run'[e.gen])
                      /\ stream'.gen = e.gen => At(e) <= Len(stream'.blocks)
  BY DEF Said
<1>2. BlockSaid(e, run[e.gen]) /\ (stream.gen = e.gen => At(e) <= Len(stream.blocks))
  BY <1>1 DEF Said
<1>3. e.gen \in Runs /\ At(e) \in Nat
  BY <1>1, BlockEventTyped
<1> DEFINE a == run[e.gen].blocks
           b == run'[e.gen].blocks
<1>4. a \in Blocks /\ b \in Blocks /\ Begins(a, b)
  BY <1>3, RunTyped, RunTypedNext DEF TextGrows
<1>5. At(e) \in DOMAIN a /\ a # <<>>
  BY <1>2, EmptyIs DEF BlockSaid
<1>6. run'[e.gen].turn = run[e.gen].turn
  BY <1>3, <1>5 DEF TextGrows
<1>7. stream'.gen = e.gen => At(e) <= Len(stream'.blocks)
  <2>1. SUFFICES ASSUME stream'.gen = e.gen PROVE At(e) <= Len(stream'.blocks)
    OBVIOUS
  <2>2. stream.gen = e.gen /\ Len(stream.blocks) <= Len(stream'.blocks)
    BY <1>3, <1>5, <2>1 DEF TextGrows
  <2>3. Len(stream.blocks) \in Nat /\ Len(stream'.blocks) \in Nat
    BY <1>3, RunTyped, RunTypedNext, BlocksAre
  <2> QED BY <1>2, <1>3, <2>2, <2>3
<1> HIDE DEF a, b
<1>8. /\ At(e) \in DOMAIN b /\ (~a[At(e)].open => b[At(e)] = a[At(e)])
      /\ \A k \in DOMAIN a[At(e)].text : k \in DOMAIN b[At(e)].text /\ b[At(e)].text[k] = a[At(e)].text[k]
  BY <1>4, <1>5, BeginsHas
<1>9. BlockSaid(e, run'[e.gen])
  <2>1. /\ e.turn = run[e.gen].turn /\ IdOf(e) = <<e.gen, At(e)>>
        /\ e.kind = "created" => e.block.text = <<>> /\ e.block.open
        /\ e.kind = "updated" => e.block = a[At(e)] /\ ~e.block.open
        /\ e.kind = "chunk" => /\ e.at + 1 \in DOMAIN a[At(e)].text
                               /\ a[At(e)].text[e.at + 1] = e.offset
    BY <1>2, Zenon DEF BlockSaid, a
  <2>2. /\ e.kind = "updated" => e.block = b[At(e)]
        /\ e.kind = "chunk" => /\ e.at + 1 \in DOMAIN b[At(e)].text
                               /\ b[At(e)].text[e.at + 1] = e.offset
    BY <1>8, <2>1
  <2> QED BY <1>6, <1>8, <2>1, <2>2, Zenon DEF BlockSaid, b
<1> QED BY <1>7, <1>9

\* An entry that was read stays a beginning of what its execution produces.
LEMMA EntryTextStill ==
    ASSUME ServerTypes, ServerTypes', TextGrows, NEW l \in StreamSet, EntryText(l)
    PROVE  EntryText(l)'
<1>1. SUFFICES ASSUME l.gen # 0 PROVE Begins(EntryShown(l), run'[l.gen].blocks)
  BY DEF EntryText
<1>2. l.gen \in Runs
  BY <1>1 DEF StreamSet
<1>3. EntryShown(l) \in Blocks
  BY ReconciledTyped DEF EntryShown
<1>4. Begins(EntryShown(l), run[l.gen].blocks) /\ Begins(run[l.gen].blocks, run'[l.gen].blocks)
  BY <1>1, <1>2 DEF EntryText, TextGrows
<1> QED BY <1>2, <1>3, <1>4, RunTyped, RunTypedNext, BeginsTwice

\* So does what the page shows,
LEMMA ShowsStill ==
    ASSUME ServerTypes, ServerTypes', TextGrows, NEW v \in ViewSet, Shows(v)
    PROVE  Shows(v)'
<1>1. SUFFICES ASSUME NEW n \in Turns, v.msgs[n].gen # 0
               PROVE  Begins(v.msgs[n].blocks, run'[v.msgs[n].gen].blocks)
  BY DEF Shows
<1>2. v.msgs[n].gen \in Runs /\ v.msgs[n].blocks \in Blocks
  BY <1>1 DEF ViewSet, ShownSet
<1>3. Begins(v.msgs[n].blocks, run[v.msgs[n].gen].blocks)
  BY <1>1 DEF Shows
<1>4. Begins(run[v.msgs[n].gen].blocks, run'[v.msgs[n].gen].blocks)
  BY <1>2 DEF TextGrows
<1> QED BY <1>2, <1>3, <1>4, RunTyped, RunTypedNext, BeginsTwice

\* and so does everything that is on its way to it.
LEMMA TellsStill ==
    ASSUME ServerTypes, ServerTypes', TextGrows,
           NEW w \in Seq(Messages), NEW queue \in Seq(PageEvents), NEW v \in ViewSet, NEW a \in AskSet,
           Tells(w, queue, v, a)
    PROVE  Tells(w, queue, v, a)'
<1>1. \A i \in DOMAIN w : w[i] \in Messages /\ (w[i].kind = "ack" => w[i].live \in StreamSet)
  <2>1. \A i \in DOMAIN w : w[i] \in Messages
    OBVIOUS
  <2> QED BY <2>1, MessageTyped
<1>2. \A i \in DOMAIN queue : queue[i] \in Messages
  BY DEF Messages
<1>3. a.live \in StreamSet
  BY DEF AskSet
<1>4. \A i \in DOMAIN w : Said(w[i])' /\ (w[i].kind = "ack" => EntryText(w[i].live)')
  BY <1>1, SaidStill, EntryTextStill DEF Tells
<1>5. \A i \in DOMAIN queue : Said(queue[i])'
  BY <1>2, SaidStill DEF Tells
<1>6. EntryText(a.live)' /\ Shows(v)'
  BY <1>3, EntryTextStill, ShowsStill DEF Tells
<1> QED BY <1>4, <1>5, <1>6 DEF Tells

-----------------------------------------------------------------------------
(* The text before a block *)

\* The sum of the texts before a block, step by step.
LEMMA TextBeforeHas ==
    ASSUME NEW blocks \in Blocks
    PROVE  /\ TextBefore(blocks, 1) = 0
           /\ \A i \in 1 .. Len(blocks) + 1 : TextBefore(blocks, i) \in Nat
           /\ \A i \in 1 .. Len(blocks) :
                TextBefore(blocks, i + 1) = TextBefore(blocks, i) + Len(blocks[i].text)
<1>1. PICK f : /\ f[0] = 0
               /\ \A k \in 1 .. Len(blocks) : f[k] = f[k - 1] + Len(blocks[k].text)
               /\ \A j : TextBefore(blocks, j) = f[j - 1]
  BY TextBeforeIs
<1>2. Len(blocks) \in Nat /\ DOMAIN blocks = 1 .. Len(blocks)
      /\ \A i \in 1 .. Len(blocks) : Len(blocks[i].text) \in Nat
  BY BlocksAre
<1>3. TextBefore(blocks, 1) = 0
  <2>1. TextBefore(blocks, 1) = f[1 - 1] /\ 1 - 1 = 0
    BY <1>1
  <2> QED BY <1>1, <2>1
<1>4. ASSUME NEW i \in 1 .. Len(blocks)
      PROVE  TextBefore(blocks, i + 1) = TextBefore(blocks, i) + Len(blocks[i].text)
  <2>1. TextBefore(blocks, i + 1) = f[(i + 1) - 1] /\ TextBefore(blocks, i) = f[i - 1] /\ (i + 1) - 1 = i
    BY <1>1, <1>2
  <2>2. f[i] = f[i - 1] + Len(blocks[i].text)
    BY <1>1
  <2> QED BY <2>1, <2>2, Zenon
<1>5. ASSUME NEW i \in 1 .. Len(blocks) + 1
      PROVE  TextBefore(blocks, i) \in Nat
  <2>1. CASE i \in 1 .. Len(blocks)
    BY <1>2, <2>1, TextBeforeTyped
  <2>2. CASE i \notin 1 .. Len(blocks)
    <3>1. i = Len(blocks) + 1
      BY <1>2, <2>2
    <3>2. CASE Len(blocks) = 0
      BY <1>3, <3>1, <3>2
    <3>3. CASE Len(blocks) # 0
      <4>1. Len(blocks) \in 1 .. Len(blocks) /\ Len(blocks) \in DOMAIN blocks
        BY <1>2, <3>3
      <4>2. TextBefore(blocks, Len(blocks)) \in Nat
        BY <4>1, TextBeforeTyped
      <4>3. TextBefore(blocks, Len(blocks) + 1) = TextBefore(blocks, Len(blocks)) + Len(blocks[Len(blocks)].text)
        BY <1>4, <4>1
      <4>4. Len(blocks[Len(blocks)].text) \in Nat
        BY <1>2, <4>1
      <4>5. \A x, y \in Nat : x + y \in Nat
        OBVIOUS
      <4> QED BY <3>1, <4>2, <4>3, <4>4, <4>5, Zenon
    <3> QED BY <3>2, <3>3
  <2> QED BY <2>1, <2>2
<1> QED BY <1>3, <1>4, <1>5

\* It depends on the lengths of these texts only: otherwise take the first block
\* before which the sums differ.
LEMMA TextBeforeSame ==
    ASSUME NEW a \in Blocks, NEW b \in Blocks, NEW n \in Nat, n <= Len(a), n <= Len(b),
           \A i \in 1 .. n : Len(a[i].text) = Len(b[i].text)
    PROVE  \A i \in 1 .. n + 1 : TextBefore(a, i) = TextBefore(b, i)
<1> DEFINE S == {k \in Nat : k \in 1 .. n + 1 /\ TextBefore(a, k) # TextBefore(b, k)}
<1>1. SUFFICES ASSUME S # {} PROVE FALSE
  OBVIOUS
<1>2. PICK k \in S : \A y \in S : k <= y
  BY <1>1, LeastIsThere
<1>3. k \in 1 .. n + 1 /\ TextBefore(a, k) # TextBefore(b, k)
  BY <1>2
<1>4. k # 1
  BY <1>3, TextBeforeHas
<1>5. /\ k - 1 \in Nat /\ k - 1 \in 1 .. n + 1 /\ ~(k <= k - 1) /\ k - 1 \in 1 .. n /\ (k - 1) + 1 = k
      /\ k - 1 \in 1 .. Len(a) /\ k - 1 \in 1 .. Len(b)
  <2>1. Len(a) \in Nat /\ Len(b) \in Nat
    BY BlocksAre
  <2> QED BY <1>3, <1>4, <2>1
<1>6. TextBefore(a, k - 1) = TextBefore(b, k - 1)
  <2>1. k - 1 \notin S
    BY <1>2, <1>5
  <2> QED BY <1>5, <2>1
<1>7. /\ TextBefore(a, (k - 1) + 1) = TextBefore(a, k - 1) + Len(a[k - 1].text)
      /\ TextBefore(b, (k - 1) + 1) = TextBefore(b, k - 1) + Len(b[k - 1].text)
  BY <1>5, TextBeforeHas
<1> QED BY <1>3, <1>5, <1>6, <1>7

\* A part of a sequence, element by element.
LEMMA PartIs ==
    ASSUME NEW s \in Seq(Nat), NEW m \in Nat
    PROVE  LET u == SubSeq(s, m + 1, Len(s)) IN
           /\ u \in Seq(Nat) /\ Len(u) = (IF m <= Len(s) THEN Len(s) - m ELSE 0)
           /\ \A k \in 1 .. Len(u) : m + k \in DOMAIN s /\ u[k] = s[m + k]
<1>1. SubSeq(s, m + 1, Len(s)) \in Seq(Nat)
  BY RestIs
<1>2. CASE m <= Len(s)
  <2>1. Len(SubSeq(s, m + 1, Len(s))) = Len(s) - m
    BY <1>2
  <2>2. \A k \in 1 .. Len(s) - m : m + k \in DOMAIN s /\ SubSeq(s, m + 1, Len(s))[k] = s[m + k]
    BY <1>2
  <2> QED BY <1>1, <1>2, <2>1, <2>2
<1>3. CASE ~(m <= Len(s))
  <2>1. Len(SubSeq(s, m + 1, Len(s))) = 0
    BY <1>3
  <2> QED BY <1>1, <1>3, <2>1
<1> QED BY <1>2, <1>3

-----------------------------------------------------------------------------
(* The blocks of an execution grow *)

\* What Numbered says of one block.
Placed(r, blocks, i) ==
    /\ blocks[i].id = <<r, i>>
    /\ i # Len(blocks) => ~blocks[i].open
    /\ \A k \in DOMAIN blocks[i].text : blocks[i].text[k] = TextBefore(blocks, i) + k - 1

\* The last block changes: it keeps what it had, and its text goes on.
LEMMA TipChanges ==
    ASSUME NEW r, NEW blocks \in Blocks, NEW new \in Blocks, NEW n \in Nat,
           Numbered(r, blocks), Len(blocks) = n, Len(new) = n, n # 0,
           \A i \in 1 .. n : i # n => new[i] = blocks[i],
           BlockBegins(blocks[n], new[n]),
           \A k \in DOMAIN new[n].text :
               k \in DOMAIN blocks[n].text \/ new[n].text[k] = TextBefore(blocks, n) + k - 1
    PROVE  /\ Numbered(r, new) /\ Begins(blocks, new)
           /\ TextBefore(blocks, n + 1) = TextBefore(blocks, n) + Len(blocks[n].text)
           /\ TextBefore(new, n + 1) = TextBefore(blocks, n) + Len(new[n].text)
<1>1. n \in 1 .. n /\ DOMAIN blocks = 1 .. n /\ DOMAIN new = 1 .. n
  BY BlocksAre
<1>2. \A i \in 1 .. n : BlockBegins(blocks[i], new[i])
  <2>1. \A i \in 1 .. n : Len(blocks[i].text) \in Nat
    BY <1>1, BlocksAre
  <2> QED BY <2>1 DEF BlockBegins
<1>3. Begins(blocks, new)
  BY <1>2, BeginsIs
<1>4. \A i \in 1 .. n : TextBefore(new, i) = TextBefore(blocks, i)
  <2>1. n - 1 \in Nat /\ n - 1 <= Len(new) /\ n - 1 <= Len(blocks) /\ (n - 1) + 1 = n
        /\ \A i \in 1 .. n - 1 : Len(new[i].text) = Len(blocks[i].text)
    BY <1>1
  <2>2. \A i \in 1 .. (n - 1) + 1 : TextBefore(new, i) = TextBefore(blocks, i)
    BY <2>1, TextBeforeSame
  <2> QED BY <2>1, <2>2
<1>5. /\ TextBefore(new, n + 1) = TextBefore(new, n) + Len(new[n].text)
      /\ TextBefore(blocks, n + 1) = TextBefore(blocks, n) + Len(blocks[n].text)
  BY <1>1, TextBeforeHas
<1>6. ASSUME NEW i \in 1 .. n
      PROVE  Placed(r, new, i)
  <2>1. Placed(r, blocks, i)
    BY <1>1 DEF Numbered, Placed
  <2>2. new[i].id = <<r, i>> /\ (i # Len(new) => ~new[i].open)
    BY <1>2, <2>1 DEF Placed, BlockBegins
  <2>3. ASSUME NEW k \in DOMAIN new[i].text
        PROVE  new[i].text[k] = TextBefore(new, i) + k - 1
    <3>1. TextBefore(new, i) = TextBefore(blocks, i)
      BY <1>4
    <3>2. CASE k \in DOMAIN blocks[i].text
      <4>1. new[i].text[k] = blocks[i].text[k]
        <5>1. blocks[i].text \in Seq(Nat)
          BY <1>1, BlocksAre
        <5>2. k \in 1 .. Len(blocks[i].text)
          BY <3>2, <5>1
        <5> QED BY <1>2, <5>2 DEF BlockBegins
      <4> QED BY <2>1, <3>1, <3>2, <4>1 DEF Placed
    <3>3. CASE k \notin DOMAIN blocks[i].text
      <4>1. i = n
        BY <2>3, <3>3
      <4> QED BY <2>3, <3>1, <3>3, <4>1
    <3> QED BY <3>2, <3>3
  <2> QED BY <2>2, <2>3 DEF Placed
<1>7. Numbered(r, new)
  BY <1>1, <1>6 DEF Numbered, Placed
<1>8. TextBefore(new, n + 1) = TextBefore(blocks, n) + Len(new[n].text)
  BY <1>1, <1>4, <1>5, Zenon
<1> QED BY <1>3, <1>5, <1>7, <1>8

\* A block opens, without text, when the others are closed.
LEMMA BlockAdded ==
    ASSUME NEW r, NEW blocks \in Blocks, NEW b \in BlockSet, NEW n \in Nat,
           Numbered(r, blocks), Len(blocks) = n, n # 0 => ~blocks[n].open,
           b.id = <<r, n + 1>>, b.text = <<>>
    PROVE  /\ Append(blocks, b) \in Blocks /\ Len(Append(blocks, b)) = n + 1
           /\ Append(blocks, b)[n + 1] = b
           /\ \A i \in 1 .. n : Append(blocks, b)[i] = blocks[i]
           /\ Numbered(r, Append(blocks, b)) /\ Begins(blocks, Append(blocks, b))
           /\ TextBefore(Append(blocks, b), n + 1) = TextBefore(blocks, n + 1)
           /\ TextBefore(Append(blocks, b), n + 2) = TextBefore(blocks, n + 1)
<1> DEFINE new == Append(blocks, b)
<1>1. /\ new \in Blocks /\ Len(new) = n + 1 /\ DOMAIN new = 1 .. n + 1 /\ DOMAIN blocks = 1 .. n
      /\ (\A i \in 1 .. n : new[i] = blocks[i]) /\ new[n + 1] = b
  BY AppendIs DEF Blocks
<1> HIDE DEF new
<1>2. Begins(blocks, new)
  <2>1. \A i \in 1 .. n : Len(blocks[i].text) \in Nat
    BY <1>1, BlocksAre
  <2>2. \A i \in 1 .. n : BlockBegins(blocks[i], new[i])
    BY <1>1, <2>1 DEF BlockBegins
  <2> QED BY <1>1, <2>2, BeginsIs
<1>3. \A i \in 1 .. n + 1 : TextBefore(new, i) = TextBefore(blocks, i)
  BY <1>1, TextBeforeSame
<1>4. TextBefore(new, n + 2) = TextBefore(blocks, n + 1)
  <2>1. n + 1 \in 1 .. Len(new) /\ (n + 1) + 1 = n + 2 /\ n + 1 \in 1 .. n + 1 /\ n + 1 \in 1 .. Len(blocks) + 1
    BY <1>1
  <2>2. TextBefore(new, (n + 1) + 1) = TextBefore(new, n + 1) + Len(new[n + 1].text)
    BY <1>1, <2>1, TextBeforeHas
  <2>3. Len(new[n + 1].text) = 0
    BY <1>1, EmptyIs
  <2>4. TextBefore(blocks, n + 1) \in Nat
    BY <2>1, TextBeforeHas
  <2>5. \A x \in Nat : x + 0 = x
    OBVIOUS
  <2>6. TextBefore(new, n + 1) = TextBefore(blocks, n + 1)
    BY <1>3, <2>1
  <2> QED BY <2>1, <2>2, <2>3, <2>4, <2>5, <2>6, Zenon
<1>5. ASSUME NEW i \in 1 .. n + 1
      PROVE  Placed(r, new, i)
  <2>1. CASE i \in 1 .. n
    <3>1. Placed(r, blocks, i)
      BY <1>1, <2>1 DEF Numbered, Placed
    <3>2. ~blocks[i].open
      BY <2>1, <3>1 DEF Placed
    <3> QED BY <1>1, <1>3, <2>1, <3>1, <3>2 DEF Placed
  <2>2. CASE i \notin 1 .. n
    <3>1. i = n + 1
      BY <2>2
    <3>2. DOMAIN new[i].text = {}
      BY <1>1, <3>1, EmptyIs
    <3> QED BY <1>1, <3>1, <3>2 DEF Placed
  <2> QED BY <2>1, <2>2
<1>6. Numbered(r, new)
  BY <1>1, <1>5 DEF Numbered, Placed
<1>7. n + 1 \in 1 .. n + 1
  OBVIOUS
<1> QED BY <1>1, <1>2, <1>3, <1>4, <1>6, <1>7 DEF new

\* A block with one unit of text more.
Longer(b, unit) == [b EXCEPT !.text = Append(b.text, unit)]

\* A unit of text comes to the last block.
LEMMA BlockGrows ==
    ASSUME NEW r, NEW blocks \in Blocks, NEW n \in Nat, NEW unit \in Nat, Numbered(r, blocks), Len(blocks) = n, n # 0,
           blocks[n].open, unit = TextBefore(blocks, n + 1)
    PROVE  /\ Grown(blocks, unit) \in Blocks /\ Len(Grown(blocks, unit)) = n
           /\ Grown(blocks, unit)[n] = Longer(blocks[n], unit)
           /\ Grown(blocks, unit)[n].open /\ Grown(blocks, unit)[n].id = blocks[n].id
           /\ Len(Grown(blocks, unit)[n].text) = Len(blocks[n].text) + 1
           /\ \A i \in 1 .. n : i # n => Grown(blocks, unit)[i] = blocks[i]
           /\ Numbered(r, Grown(blocks, unit)) /\ Begins(blocks, Grown(blocks, unit))
           /\ TextBefore(Grown(blocks, unit), n + 1) = unit + 1
<1> DEFINE new == Grown(blocks, unit)
           b == Longer(blocks[n], unit)
<1>1. /\ DOMAIN blocks = 1 .. n /\ n \in 1 .. n /\ blocks # <<>>
      /\ blocks[n] \in BlockSet /\ blocks[n].text \in Seq(Nat)
  BY BlocksAre, EmptyIs
<1>2. new \in Blocks
  BY <1>1, GrownTyped
<1>3. Len(new) = n /\ new[n] = b /\ \A i \in 1 .. n : i # n => new[i] = blocks[i]
  <2>1. new = [blocks EXCEPT ![n] = b]
    BY <1>1 DEF Grown, Longer
  <2>2. blocks \in Seq(BlockSet)
    BY DEF Blocks
  <2> HIDE DEF new, b
  <2> QED BY <1>1, <2>1, <2>2
<1>4. /\ b.id = blocks[n].id /\ b.open = blocks[n].open /\ b.text = Append(blocks[n].text, unit)
  BY <1>1 DEF BlockSet, Longer
<1>5. /\ Len(b.text) = Len(blocks[n].text) + 1 /\ DOMAIN b.text = 1 .. Len(blocks[n].text) + 1
      /\ Len(blocks[n].text) \in Nat /\ DOMAIN blocks[n].text = 1 .. Len(blocks[n].text)
      /\ (\A k \in DOMAIN blocks[n].text : b.text[k] = blocks[n].text[k])
      /\ b.text[Len(blocks[n].text) + 1] = unit
  <2>1. PICK old \in Seq(Nat) : old = blocks[n].text
    BY <1>1
  <2>2. PICK text : text = Append(old, unit)
    OBVIOUS
  <2>3. /\ Len(text) = Len(old) + 1 /\ DOMAIN text = 1 .. Len(old) + 1
        /\ Len(old) \in Nat /\ DOMAIN old = 1 .. Len(old)
        /\ (\A k \in DOMAIN old : text[k] = old[k]) /\ text[Len(old) + 1] = unit
    BY <2>2, AppendIs
  <2>4. b.text = text
    BY <1>4, <2>1, <2>2
  <2> QED BY <2>1, <2>3, <2>4
<1> HIDE DEF new, b
<1>6. BlockBegins(blocks[n], new[n])
  BY <1>1, <1>3, <1>4, <1>5 DEF BlockBegins
<1>7. unit = TextBefore(blocks, n) + Len(blocks[n].text) /\ TextBefore(blocks, n) \in Nat
  BY <1>1, TextBeforeHas
<1>8. ASSUME NEW k \in DOMAIN new[n].text
      PROVE  k \in DOMAIN blocks[n].text \/ new[n].text[k] = TextBefore(blocks, n) + k - 1
  <2>1. CASE k \in DOMAIN blocks[n].text
    BY <2>1
  <2>2. CASE k \notin DOMAIN blocks[n].text
    <3>1. k = Len(blocks[n].text) + 1
      BY <1>3, <1>5, <1>8, <2>2
    <3> QED BY <1>3, <1>5, <1>7, <3>1
  <2> QED BY <2>1, <2>2
<1>9. /\ Numbered(r, new) /\ Begins(blocks, new)
      /\ TextBefore(new, n + 1) = TextBefore(blocks, n) + Len(new[n].text)
  BY <1>2, <1>3, <1>6, <1>8, TipChanges
<1>10. TextBefore(new, n + 1) = unit + 1
  <2>1. Len(new[n].text) = Len(blocks[n].text) + 1
    BY <1>3, <1>5
  <2> QED BY <1>5, <1>7, <1>9, <2>1
<1> QED BY <1>2, <1>3, <1>4, <1>5, <1>9, <1>10 DEF new, b

\* Two sequences, one after the other.
LEMMA JoinedIs ==
    ASSUME NEW S, NEW s \in Seq(S), NEW t \in Seq(S)
    PROVE  /\ s \o t \in Seq(S) /\ Len(s \o t) = Len(s) + Len(t)
           /\ \A i \in 1 .. Len(s) : (s \o t)[i] = s[i]
           /\ \A i \in 1 .. Len(t) : (s \o t)[Len(s) + i] = t[i]
  OBVIOUS

\* The last block closes.
LEMMA BlockCloses ==
    ASSUME NEW r, NEW blocks \in Blocks, NEW n \in Nat, Numbered(r, blocks), Len(blocks) = n, n # 0,
           blocks[n].open, NEW b \in BlockSet, ~b.open, b.id = blocks[n].id, b.text = blocks[n].text
    PROVE  LET new == Front(blocks) \o <<b>> IN
           /\ new \in Blocks /\ Len(new) = n /\ new[n] = b
           /\ \A i \in 1 .. n : i # n => new[i] = blocks[i]
           /\ Numbered(r, new) /\ Begins(blocks, new)
           /\ TextBefore(new, n + 1) = TextBefore(blocks, n + 1)
<1> DEFINE new == Front(blocks) \o <<b>>
<1>1. /\ DOMAIN blocks = 1 .. n /\ n \in 1 .. n /\ blocks \in Seq(BlockSet)
      /\ blocks[n] \in BlockSet /\ blocks[n].text \in Seq(Nat)
  BY BlocksAre, EmptyIs DEF Blocks
<1>3. /\ Front(blocks) \in Seq(BlockSet) /\ Len(Front(blocks)) = n - 1
      /\ \A i \in 1 .. n - 1 : Front(blocks)[i] = blocks[i]
  BY <1>1 DEF Front
<1>4. <<b>> \in Seq(BlockSet) /\ Len(<<b>>) = 1 /\ <<b>>[1] = b
  BY OneIs
<1>5. new \in Seq(BlockSet) /\ Len(new) = n /\ new[n] = b /\ \A i \in 1 .. n : i # n => new[i] = blocks[i]
  <2> DEFINE s == Front(blocks)
             t == <<b>>
  <2> HIDE DEF s, t
  <2>1. /\ s \in Seq(BlockSet) /\ Len(s) = n - 1 /\ t \in Seq(BlockSet) /\ Len(t) = 1 /\ t[1] = b
        /\ \A i \in 1 .. n - 1 : s[i] = blocks[i]
    BY <1>3, <1>4 DEF s, t
  <2>2. /\ s \o t \in Seq(BlockSet) /\ Len(s \o t) = Len(s) + Len(t)
        /\ \A i \in 1 .. Len(s) : (s \o t)[i] = s[i]
        /\ \A i \in 1 .. Len(t) : (s \o t)[Len(s) + i] = t[i]
    BY <2>1, JoinedIs
  <2> DEFINE u == s \o t
  <2> HIDE DEF u
  <2>3. /\ u \in Seq(BlockSet) /\ Len(u) = Len(s) + Len(t)
        /\ \A i \in 1 .. Len(s) : u[i] = s[i]
        /\ \A i \in 1 .. Len(t) : u[Len(s) + i] = t[i]
    BY <2>2 DEF u
  <2>4. (n - 1) + 1 = n /\ 1 \in 1 .. 1 /\ \A i \in 1 .. n : i # n => i \in 1 .. n - 1
    OBVIOUS
  <2>5. u[n] = b /\ Len(u) = n
    BY <2>1, <2>3, <2>4
  <2>6. \A i \in 1 .. n : i # n => u[i] = blocks[i]
    BY <2>1, <2>3, <2>4
  <2> QED BY <2>3, <2>5, <2>6 DEF s, t, u
<1> HIDE DEF new
<1>6. new \in Blocks
  BY <1>5 DEF Blocks
<1>7. BlockBegins(blocks[n], new[n])
  BY <1>1, <1>5 DEF BlockBegins
<1>8. \A k \in DOMAIN new[n].text :
           k \in DOMAIN blocks[n].text \/ new[n].text[k] = TextBefore(blocks, n) + k - 1
  BY <1>5
<1>9. /\ Numbered(r, new) /\ Begins(blocks, new)
      /\ TextBefore(new, n + 1) = TextBefore(blocks, n) + Len(new[n].text)
      /\ TextBefore(blocks, n + 1) = TextBefore(blocks, n) + Len(blocks[n].text)
  BY <1>5, <1>6, <1>7, <1>8, TipChanges
<1>10. TextBefore(new, n + 1) = TextBefore(blocks, n + 1)
  BY <1>5, <1>9
<1> QED BY <1>5, <1>6, <1>9, <1>10 DEF new

-----------------------------------------------------------------------------
(* What a page makes of an entry *)

\* A block of the entry begins the block of its run.
LEMMA EntryBlockBegins ==
    ASSUME NEW x, x.blocks \in Blocks, NEW l \in StreamSet, NEW i \in DOMAIN l.blocks, i \in DOMAIN x.blocks,
           EntryBlock(x, l, i)
    PROVE  BlockBegins(l.blocks[i], x.blocks[i])
<1>1. l.blocks[i] \in BlockSet /\ x.blocks[i] \in BlockSet
  BY DEF StreamSet, Blocks
<1>2. \A b \in BlockSet : Len(b.text) \in Nat
  BY DEF BlockSet
<1>3. CASE l.blocks[i].open
  <2>1. l.blocks[i].text = <<>> /\ l.blocks[i].id = x.blocks[i].id
    BY <1>3 DEF EntryBlock
  <2>2. Len(l.blocks[i].text) = 0
    BY <2>1, EmptyIs
  <2> QED BY <1>1, <1>2, <1>3, <2>1, <2>2 DEF BlockBegins
<1>4. CASE ~l.blocks[i].open
  <2>1. l.blocks[i] = x.blocks[i]
    BY <1>4 DEF EntryBlock
  <2> QED BY <1>1, <1>2, <2>1 DEF BlockBegins
<1> QED BY <1>3, <1>4

\* The rest of the text that the store has is text of the open block.
LEMMA RestBegins ==
    ASSUME NEW cached \in Seq(Nat), \A k \in DOMAIN cached : cached[k] = k - 1,
           NEW text \in Seq(Nat), NEW before \in Nat, \A k \in DOMAIN text : text[k] = before + k - 1,
           Len(cached) <= before + Len(text)
    PROVE  LET u == SubSeq(cached, before + 1, Len(cached)) IN
           u \in Seq(Nat) /\ Len(u) <= Len(text) /\ \A k \in 1 .. Len(u) : u[k] = text[k]
<1> DEFINE u == SubSeq(cached, before + 1, Len(cached))
<1>1. /\ u \in Seq(Nat) /\ Len(u) = (IF before <= Len(cached) THEN Len(cached) - before ELSE 0)
      /\ \A k \in 1 .. Len(u) : before + k \in DOMAIN cached /\ u[k] = cached[before + k]
  BY PartIs
<1> HIDE DEF u
<1>2. Len(cached) \in Nat /\ Len(text) \in Nat /\ Len(u) \in Nat /\ DOMAIN text = 1 .. Len(text)
  BY <1>1
<1>3. Len(u) <= Len(text)
  BY <1>1, <1>2
<1>4. ASSUME NEW k \in 1 .. Len(u)
      PROVE  u[k] = text[k]
  <2>1. u[k] = (before + k) - 1
    BY <1>1
  <2>2. k \in DOMAIN text
    BY <1>2, <1>3
  <2> QED BY <2>1, <2>2
<1> QED BY <1>1, <1>3, <1>4 DEF u

\* A page that is hydrated from the entry has a beginning of what was produced.
LEMMA MirrorIsText ==
    ASSUME NEW r, NEW x, x.blocks \in Blocks, Numbered(r, x.blocks),
           x.units = TextBefore(x.blocks, Len(x.blocks) + 1),
           NEW l \in StreamSet, EntryFollows(r, x, l), EntryMirrors(x, l)
    PROVE  Begins(EntryShown(l), x.blocks)
<1> DEFINE b == l.blocks
           a == x.blocks
           n == Len(x.blocks)
<1>1. /\ b \in Blocks /\ l.cached \in Seq(Nat) /\ Len(b) \in Nat /\ DOMAIN b = 1 .. Len(b)
      /\ n \in Nat /\ DOMAIN a = 1 .. n
  BY BlocksAre DEF StreamSet
<1>2. Len(b) <= n
  BY <1>1 DEF EntryMirrors
<1>3. \A i \in 1 .. Len(b) : i \in DOMAIN a /\ BlockBegins(b[i], a[i])
  <2>1. ASSUME NEW i \in 1 .. Len(b)
        PROVE  i \in DOMAIN a /\ BlockBegins(b[i], a[i])
    <3>1. i \in DOMAIN b /\ i \in DOMAIN a
      BY <1>1, <1>2
    <3>2. EntryBlock(x, l, i)
      BY <3>1 DEF EntryMirrors
    <3> QED BY <3>1, <3>2, EntryBlockBegins
  <2> QED BY <2>1
<1>4. Begins(b, a)
  BY <1>1, <1>2, <1>3, BeginsIs
<1>5. CASE ~Reconcilable(l)
  BY <1>4, <1>5 DEF EntryShown
<1>6. CASE Reconcilable(l)
  <2> DEFINE c == Reconciled(l)
  <2>1. c \in Blocks /\ EntryShown(l) = c
    BY <1>6, ReconciledTyped DEF EntryShown
  <2>2. DOMAIN c = DOMAIN b
    BY DEF Reconciled
  <2>3. Len(c) = Len(b)
    <3>1. DOMAIN c = 1 .. Len(c) /\ Len(c) \in Nat
      BY <2>1, BlocksAre
    <3> HIDE DEF b, c
    <3> QED BY <1>1, <2>2, <3>1
  <2>4. ASSUME NEW i \in 1 .. Len(b)
        PROVE  BlockBegins(c[i], a[i])
    <3>0. i \in DOMAIN b
      BY <1>1
    <3>1. CASE i \notin OpenText(b)
      <4>1. c[i] = b[i]
        BY <3>0, <3>1 DEF Reconciled
      <4> QED BY <1>3, <4>1
    <3>2. CASE i \in OpenText(b)
      <4>1. b[i].open /\ i = Len(b)
        BY <1>6, <3>2 DEF Reconcilable, OpenText
      <4>2. i = n /\ b[i].id = a[i].id
        <5>1. EntryBlock(x, l, i)
          BY <3>0 DEF EntryMirrors
        <5> QED BY <4>1, <5>1 DEF EntryBlock
      <4>3. \A j \in 1 .. n - 1 : b[j] = a[j]
        <5>1. ASSUME NEW j \in 1 .. n - 1
              PROVE  b[j] = a[j]
          <6>1. j \in DOMAIN b /\ j # n
            BY <1>1, <4>1, <4>2
          <6>2. EntryBlock(x, l, j)
            BY <6>1 DEF EntryMirrors
          <6> QED BY <6>1, <6>2 DEF EntryBlock
        <5> QED BY <5>1
      <4>4. TextBefore(b, n) = TextBefore(a, n)
        <5>1. n - 1 \in Nat /\ n - 1 <= Len(a) /\ n - 1 <= Len(b) /\ n \in 1 .. (n - 1) + 1
          BY <1>1, <4>1, <4>2
        <5>2. \A j \in 1 .. n - 1 : Len(b[j].text) = Len(a[j].text)
          BY <4>3
        <5> QED BY <1>1, <5>1, <5>2, TextBeforeSame
      <4> DEFINE before == TextBefore(a, n)
                 u == SubSeq(l.cached, before + 1, Len(l.cached))
      <4>5. c[i] = [b[i] EXCEPT !.text = u]
        BY <3>0, <3>2, <4>2, <4>4 DEF Reconciled
      <4>6. /\ before \in Nat /\ TextBefore(a, n + 1) = before + Len(a[n].text)
            /\ a[n] \in BlockSet /\ a[n].text \in Seq(Nat)
            /\ \A k \in DOMAIN a[n].text : a[n].text[k] = before + k - 1
        <5>1. n \in DOMAIN a /\ n \in 1 .. Len(a) /\ n \in 1 .. Len(a) + 1
          BY <1>1, <4>1, <4>2
        <5> QED BY <5>1, TextBeforeHas, BlocksAre DEF Numbered
      <4>7. Len(l.cached) <= before + Len(a[n].text)
        <5>1. Len(l.cached) \in Nat
          BY <1>1
        <5>2. x.units = Len(l.cached) \/ x.units = Len(l.cached) + 1
          BY DEF EntryFollows
        <5>3. x.units = before + Len(a[n].text)
          BY <4>6
        <5> HIDE DEF before, a, n
        <5>4. Len(l.cached) <= x.units
          BY <5>1, <5>2
        <5> QED BY <5>3, <5>4
      <4>8. \A k \in DOMAIN l.cached : l.cached[k] = k - 1
        BY DEF EntryMirrors
      <4>9. u \in Seq(Nat) /\ Len(u) <= Len(a[n].text) /\ \A k \in 1 .. Len(u) : u[k] = a[n].text[k]
        <5> HIDE DEF before, a, n
        <5> QED BY <1>1, <4>6, <4>7, <4>8, RestBegins
      <4>10. b[i] \in BlockSet
        BY <1>1 DEF Blocks
      <4> HIDE DEF u, before
      <4>11. c[i].id = b[i].id /\ c[i].open = b[i].open /\ c[i].text = u
        BY <4>5, <4>10 DEF BlockSet
      <4> HIDE DEF a, b, c, n
      <4> QED BY <4>1, <4>2, <4>9, <4>11 DEF BlockBegins
    <3> QED BY <3>1, <3>2
  <2> HIDE DEF a, b, c, n
  <2>5. Begins(c, a)
    <3>1. a \in Blocks
      BY DEF a
    <3>2. Len(c) <= Len(a)
      BY <1>2, <2>3 DEF n, a
    <3> QED BY <2>1, <2>3, <2>4, <3>1, <3>2, BeginsIs
  <2> QED BY <2>1, <2>5 DEF a
<1> QED BY <1>5, <1>6

-----------------------------------------------------------------------------
(* The text of the server, of the values of an execution and of the entry *)

\* RunText, StreamText and Promised, of any values.
GeneratingRun(x) == Undone(x) /\ OpenedRun(x)
RunTextOf(r, x) ==
    /\ Numbered(r, x.blocks)
    /\ Undone(x) /\ ~Telling(x) => x.blocks = <<>>
    /\ GeneratingRun(x) => x.units = TextBefore(x.blocks, Len(x.blocks) + 1)
StreamTextOf(x, l) == GeneratingRun(x) => EntryMirrors(x, l)
PromisedOf(x, l) == IF ~Telling(x) THEN 0
                    ELSE IF x.event.kind = "created" THEN Len(l.blocks) - 1
                    ELSE Len(l.blocks)

\* Said, RunEventText and EntryText, of any values.
SaidOf(e, f, l) == BlockEvent(e) =>
    /\ BlockSaid(e, f[e.gen])
    /\ l.gen = e.gen => At(e) <= Len(l.blocks)
RunEventTextOf(x, f, l) ==
    /\ SaidOf(x.event, f, l)
    /\ x.event.kind = "created" => At(x.event) = Len(l.blocks)
EntryTextOf(l, f) == l.gen # 0 => Begins(EntryShown(l), f[l.gen].blocks)

\* They are the same, before and after a step.
LEMMA EventTextIs ==
    /\ \A e : (Said(e) <=> SaidOf(e, run, stream)) /\ (Said(e)' <=> SaidOf(e, run', stream'))
    /\ \A r : /\ RunEventText(r) <=> RunEventTextOf(run[r], run, stream)
              /\ RunEventText(r)' <=> RunEventTextOf(run'[r], run', stream')
    /\ \A l : (EntryText(l) <=> EntryTextOf(l, run)) /\ (EntryText(l)' <=> EntryTextOf(l, run'))
    /\ (EntryText(stream))' <=> EntryTextOf(stream', run')
<1>1. \A e : (Said(e) <=> SaidOf(e, run, stream)) /\ (Said(e)' <=> SaidOf(e, run', stream'))
  BY Zenon DEF Said, SaidOf
<1>2. \A r : /\ RunEventText(r) <=> RunEventTextOf(run[r], run, stream)
             /\ RunEventText(r)' <=> RunEventTextOf(run'[r], run', stream')
  BY Zenon DEF RunEventText, RunEventTextOf, Said, SaidOf
<1>3. \A l : (EntryText(l) <=> EntryTextOf(l, run)) /\ (EntryText(l)' <=> EntryTextOf(l, run'))
  BY Zenon DEF EntryText, EntryTextOf
<1>4. (EntryText(stream))' <=> EntryTextOf(stream', run')
  BY Zenon DEF EntryText, EntryTextOf
<1> QED BY <1>1, <1>2, <1>3, <1>4

\* So are RunText, StreamText and Promised.
LEMMA TextOfIs ==
    /\ \A r : /\ RunText(r) <=> RunTextOf(r, run[r])
              /\ RunText(r)' <=> RunTextOf(r, run'[r])
              /\ Generating(r) <=> GeneratingRun(run[r])
              /\ Generating(r)' <=> GeneratingRun(run'[r])
              /\ StreamText(r) <=> StreamTextOf(run[r], stream)
              /\ StreamText(r)' <=> StreamTextOf(run'[r], stream')
    /\ \A r \in Runs : /\ Promised[r] = PromisedOf(run[r], stream)
                       /\ Promised'[r] = PromisedOf(run'[r], stream')
<1>1. \A r : /\ Generating(r) <=> GeneratingRun(run[r])
             /\ Generating(r)' <=> GeneratingRun(run'[r])
             /\ Unsettled(r) <=> Undone(run[r])
             /\ Unsettled(r)' <=> Undone(run'[r])
  BY UndoneIs DEF Generating, GeneratingRun, Opened
<1>2. \A r : /\ RunText(r) <=> RunTextOf(r, run[r])
             /\ RunText(r)' <=> RunTextOf(r, run'[r])
  BY <1>1, Zenon DEF RunText, RunTextOf
<1>3. \A r : /\ StreamText(r) <=> StreamTextOf(run[r], stream)
             /\ StreamText(r)' <=> StreamTextOf(run'[r], stream')
  BY <1>1, Zenon DEF StreamText, StreamTextOf
<1>4. \A r \in Runs : /\ Promised[r] = PromisedOf(run[r], stream)
                      /\ Promised'[r] = PromisedOf(run'[r], stream')
  BY DEF Promised, PromisedOf
<1> QED BY <1>1, <1>2, <1>3, <1>4

\* What is promised is a number.
LEMMA PromisedIs ==
    /\ ServerTypes => Counts(Promised)
    /\ ServerTypes' => Counts(Promised')
<1>1. ASSUME NEW r \in Runs, ServerTypes
      PROVE  PromisedOf(run[r], stream) \in Int
  <2>1. Len(stream.blocks) \in Nat
    BY <1>1, RunTyped, BlocksAre
  <2> QED BY <2>1 DEF PromisedOf
<1>2. ASSUME NEW r \in Runs, ServerTypes'
      PROVE  PromisedOf(run'[r], stream') \in Int
  <2>1. Len(stream'.blocks) \in Nat
    BY <1>2, RunTypedNext, BlocksAre
  <2> QED BY <2>1 DEF PromisedOf
<1>3. Promised = [r \in Runs |-> PromisedOf(run[r], stream)]
  BY Zenon DEF Promised, PromisedOf
<1>4. Promised' = [r \in Runs |-> PromisedOf(run'[r], stream')]
  BY Zenon DEF Promised, PromisedOf
<1> QED BY <1>1, <1>2, <1>3, <1>4 DEF Counts

\* An execution that emits events of blocks, or is about to, is generating.
LEMMA TellingIs ==
    ASSUME NEW r, NEW x, RunHolds(r, x)
    PROVE  /\ Telling(x) => GeneratingRun(x)
           /\ BlockEvent(x.event) => Telling(x) /\ x.pc = "emit"
<1>1. NoEvent.kind = "none"
  BY DEF NoEvent
<1>2. ASSUME BlockEvent(x.event)
      PROVE  x.pc = "emit"
  BY <1>1, <1>2 DEF RunHolds, BlockEvent
<1>3. ASSUME Telling(x)
      PROVE  GeneratingRun(x)
  BY <1>3 DEF RunHolds, Telling, GeneratingRun, Undone, OpenedRun, BlockEvent
<1> QED BY <1>2, <1>3 DEF Telling

\* The parts of the invariant.
LEMMA TextIs ==
    ASSUME StreamInv, TextInv
    PROVE  /\ ServerInv /\ ServerTypes /\ PageInv
           /\ \A r \in Runs : RunHolds(r, run[r])
           /\ \A r \in Runs : RunTextOf(r, run[r]) /\ StreamTextOf(run[r], stream) /\ RunEventText(r)
           /\ \A r \in Runs : GeneratingRun(run[r]) => EntryFollows(r, run[r], stream)
           /\ \A r, q \in Runs : Undone(run[r]) /\ Undone(run[q]) => q = r
           /\ EntryText(stream) /\ TurnsInOrder /\ PageText
<1>1. ServerInv /\ PageInv /\ ServerTypes /\ OneByOne
      /\ \A r \in Runs : RunInOrder(r) /\ StreamInOrder(r)
  BY DEF StreamInv, ServerInv
<1>2. \A r \in Runs : RunText(r) /\ StreamText(r) /\ RunEventText(r)
  BY DEF TextInv, ServerText
<1>3. EntryText(stream) /\ TurnsInOrder /\ PageText
  BY DEF TextInv, ServerText
<1>4. \A r \in Runs : RunHolds(r, run[r])
  BY <1>1 DEF RunInOrder
<1>5. \A r \in Runs : GeneratingRun(run[r]) => EntryFollows(r, run[r], stream)
  BY <1>1, TextOfIs DEF StreamInOrder
<1>6. \A r, q \in Runs : Undone(run[r]) /\ Undone(run[q]) => q = r
  BY <1>1, UndoneIs DEF OneByOne
<1> QED BY <1>1, <1>2, <1>3, <1>4, <1>5, <1>6, TextOfIs

\* What the next server satisfies.
LEMMA ServerNextIs ==
    ASSUME ServerInv'
    PROVE  /\ ServerTypes'
           /\ \A r \in Runs : RunHolds(r, run'[r])
           /\ \A r \in Runs : GeneratingRun(run'[r]) => EntryFollows(r, run'[r], stream')
<1>1. ServerTypes' /\ \A r \in Runs : RunInOrder(r)' /\ StreamInOrder(r)'
  BY DEF ServerInv
<1>2. \A r \in Runs : RunHolds(r, run'[r])
  BY <1>1 DEF RunInOrder
<1>3. \A r \in Runs : GeneratingRun(run'[r]) => EntryFollows(r, run'[r], stream')
  BY <1>1, TextOfIs DEF StreamInOrder
<1> QED BY <1>1, <1>2, <1>3

\* What of the entry of an execution is left to show when the execution moves on.
EntryMoves(r) ==
    \/ stream' = stream
    \/ stream'.gen = 0 /\ (Undone(run[r]) \/ stream.gen = r)
    \/ /\ GeneratingRun(run'[r]) /\ Undone(run[r]) /\ stream'.gen = r
       /\ run[r].blocks = <<>> \/ (stream.gen = r /\ Len(stream.blocks) <= Len(stream'.blocks))

\* The text when one execution moves on.
LEMMA TextMoves ==
    ASSUME StreamInv, TextInv, ServerInv', NEW r \in Runs, Moves(r),
           run[r].pc # "idle", run'[r].pc # "idle", run'[r].turn = run[r].turn,
           Begins(run[r].blocks, run'[r].blocks), EntryMoves(r),
           RunTextOf(r, run'[r]), StreamTextOf(run'[r], stream'), RunEventTextOf(run'[r], run', stream'),
           \A n \in Turns : durable'[n].status = "none" <=> durable[n].status = "none"
    PROVE  /\ TextGrows /\ ServerText'
           /\ \A q \in Runs : q # r => Promised'[q] = Promised[q]
<1>1. /\ ServerTypes
      /\ \A q \in Runs : RunHolds(q, run[q])
      /\ \A q \in Runs : RunTextOf(q, run[q]) /\ StreamTextOf(run[q], stream) /\ RunEventText(q)
      /\ \A q \in Runs : GeneratingRun(run[q]) => EntryFollows(q, run[q], stream)
      /\ \A q, k \in Runs : Undone(run[q]) /\ Undone(run[k]) => k = q
      /\ EntryText(stream) /\ TurnsInOrder
  BY TextIs
<1>2. ServerTypes' /\ \A q \in Runs : GeneratingRun(run'[q]) => EntryFollows(q, run'[q], stream')
  BY ServerNextIs
<1>3. \A q \in Runs : q # r => run'[q] = run[q]
  BY DEF Moves
<1>4. ASSUME NEW q \in Runs, q # r, GeneratingRun(run[q])
      PROVE  stream' = stream
  <2>1. stream.gen = q /\ Undone(run[q])
    BY <1>1, <1>4 DEF EntryFollows, GeneratingRun
  <2> QED BY <1>1, <1>4, <2>1 DEF EntryMoves
<1>5. TextGrows
  <2>1. ASSUME NEW q \in Runs
        PROVE  Begins(run[q].blocks, run'[q].blocks)
    BY <1>1, <1>3, RunTyped, BeginsSame
  <2>2. ASSUME NEW g \in Runs, stream'.gen = g
        PROVE  run[g].blocks = <<>> \/ (stream.gen = g /\ Len(stream.blocks) <= Len(stream'.blocks))
    <3>1. Len(stream.blocks) \in Nat
      BY <1>1, RunTyped, BlocksAre
    <3>2. g # 0
      BY DEF Runs
    <3> QED BY <2>2, <3>1, <3>2 DEF EntryMoves
  <2> QED BY <1>3, <2>1, <2>2 DEF TextGrows
<1>6. ASSUME NEW q \in Runs
      PROVE  (RunText(q) /\ StreamText(q))'
  <2>1. RunTextOf(q, run'[q])
    BY <1>1, <1>3
  <2>2. StreamTextOf(run'[q], stream')
    BY <1>1, <1>3, <1>4, Zenon DEF StreamTextOf
  <2> QED BY <2>1, <2>2, TextOfIs
<1>7. ASSUME NEW q \in Runs
      PROVE  RunEventText(q)'
  <2>1. CASE q # r
    <3>1. run'[q] = run[q]
      BY <1>3, <2>1
    <3> DEFINE f == run'
               l == stream'
    <3> HIDE DEF f, l
    <3>2. PICK e : e = run[q].event
      OBVIOUS
    <3>3. SaidOf(e, f, l)
      <4>1. CASE e = NoEvent
        BY <4>1 DEF SaidOf, BlockEvent, NoEvent
      <4>2. CASE e # NoEvent
        <5>1. e \in Messages
          BY <1>1, <3>2, <4>2, RunTyped DEF Messages, PageEvents
        <5>2. Said(e)
          BY <1>1, <3>2, Zenon DEF RunEventText
        <5>3. Said(e)'
          BY <1>1, <1>2, <1>5, <5>1, <5>2, SaidStill
        <5> QED BY <5>3, EventTextIs DEF f, l
      <4> QED BY <4>1, <4>2
    <3>4. e.kind = "created" => At(e) = Len(l.blocks)
      <4>1. SUFFICES ASSUME e.kind = "created" PROVE At(e) = Len(l.blocks)
        OBVIOUS
      <4>2. GeneratingRun(run[q])
        BY <1>1, <3>2, <4>1, TellingIs DEF BlockEvent
      <4>3. l = stream
        BY <1>4, <2>1, <4>2 DEF l
      <4> QED BY <1>1, <3>2, <4>1, <4>3 DEF RunEventText
    <3>5. RunEventTextOf(run'[q], f, l)
      BY <3>1, <3>2, <3>3, <3>4, Zenon DEF RunEventTextOf
    <3> QED BY <3>5, EventTextIs DEF f, l
  <2>2. CASE q = r
    BY <2>2, EventTextIs
  <2> QED BY <2>1, <2>2
<1>8. EntryText(stream)'
  <2>1. CASE stream' = stream
    <3>1. PICK l : l = stream
      OBVIOUS
    <3>2. l \in StreamSet /\ EntryText(l)
      BY <1>1, <3>1 DEF ServerTypes
    <3>3. EntryText(l)'
      BY <1>1, <1>2, <1>5, <3>2, EntryTextStill
    <3>4. EntryTextOf(stream', run')
      BY <2>1, <3>1, <3>3, EventTextIs
    <3> QED BY <3>4, EventTextIs
  <2>2. CASE stream'.gen = 0
    <3>1. EntryTextOf(stream', run')
      BY <2>2 DEF EntryTextOf
    <3> QED BY <3>1, EventTextIs
  <2>3. CASE GeneratingRun(run'[r]) /\ stream'.gen = r
    <3>1. /\ EntryMirrors(run'[r], stream') /\ EntryFollows(r, run'[r], stream')
          /\ Numbered(r, run'[r].blocks)
          /\ run'[r].units = TextBefore(run'[r].blocks, Len(run'[r].blocks) + 1)
          /\ run'[r].blocks \in Blocks /\ stream' \in StreamSet
      BY <1>2, <2>3, RunTypedNext DEF StreamTextOf, RunTextOf
    <3>2. Begins(EntryShown(stream'), run'[r].blocks)
      BY <3>1, MirrorIsText
    <3>3. EntryTextOf(stream', run')
      BY <2>3, <3>2 DEF EntryTextOf
    <3> QED BY <3>3, EventTextIs
  <2> QED BY <2>1, <2>2, <2>3 DEF EntryMoves
<1>9. TurnsInOrder'
  <2>1. ASSUME NEW q \in Runs, run'[q].pc # "idle"
        PROVE  durable'[run'[q].turn].status # "none"
    <3>1. run[q].pc # "idle" /\ run'[q].turn = run[q].turn
      BY <1>3, <2>1
    <3>2. run[q].turn \in Turns /\ durable[run[q].turn].status # "none"
      BY <1>1, <3>1 DEF RunHolds, TurnsInOrder, Exists
    <3> QED BY <3>1, <3>2
  <2>2. \A n, k \in Turns : n < k /\ durable'[k].status # "none" => durable'[n].status # "none"
    BY <1>1 DEF TurnsInOrder, Exists
  <2> QED BY <2>1, <2>2, Zenon DEF TurnsInOrder, Exists
<1>10. ASSUME NEW q \in Runs, q # r
       PROVE  Promised'[q] = Promised[q]
  <2>1. PromisedOf(run'[q], stream') = PromisedOf(run[q], stream)
    <3>1. CASE Telling(run[q])
      <4>1. stream' = stream /\ run'[q] = run[q]
        BY <1>1, <1>3, <1>4, <1>10, <3>1, TellingIs
      <4> QED BY <4>1
    <3>2. CASE ~Telling(run[q])
      BY <1>3, <1>10, <3>2 DEF PromisedOf
    <3> QED BY <3>1, <3>2
  <2> QED BY <2>1, TextOfIs
<1> QED BY <1>5, <1>6, <1>7, <1>8, <1>9, <1>10 DEF ServerText

\* What the page is told when the server sends nothing and promises no more.
LEMMA PageTextStays ==
    ASSUME StreamInv, PageText, ServerTypes', TextGrows, UNCHANGED <<room, ask, wire, page>>,
           \A r \in Runs : Promised'[r] <= Promised[r]
    PROVE  PageText'
<1>1. /\ ServerTypes /\ wire \in Seq(Messages) /\ hook.queue \in Seq(PageEvents) /\ view \in ViewSet /\ ask \in AskSet
  BY PageIs DEF ServerInv, HookSet
<1>2. /\ wire' = wire /\ hook' = hook /\ view' = view /\ ask' = ask /\ room' = room
  BY DEF page
<1>3. Counts(Promised) /\ Counts(Promised')
  BY <1>1, PromisedIs
<1>4. Listens(wire, hook.queue, view, ask, hook, room, Promised')
  BY <1>1, <1>3, ListensLess DEF PageText
<1>5. Tells(wire, hook.queue, view, ask)'
  <2>1. \A w \in Seq(Messages), queue \in Seq(PageEvents), v \in ViewSet, a \in AskSet :
           Tells(w, queue, v, a) => (/\ \A i \in DOMAIN w : Said(w[i])' /\ (w[i].kind = "ack" => EntryText(w[i].live)')
                                     /\ \A i \in DOMAIN queue : Said(queue[i])'
                                     /\ EntryText(a.live)' /\ Shows(v)')
    BY <1>1, TellsStill DEF Tells
  <2>2. /\ \A i \in DOMAIN wire : Said(wire[i])' /\ (wire[i].kind = "ack" => EntryText(wire[i].live)')
        /\ \A i \in DOMAIN hook.queue : Said(hook.queue[i])'
        /\ EntryText(ask.live)' /\ Shows(view)'
    BY <1>1, <1>2, <2>1 DEF PageText
  <2> QED BY <1>2, <2>2 DEF Tells
<1> QED BY <1>2, <1>4, <1>5 DEF PageText

-----------------------------------------------------------------------------
(* Steps of an execution that leave its blocks alone *)

\* The entry mirrors whatever has these blocks and these events to come.
LEMMA MirrorsSame ==
    ASSUME NEW x, NEW y, NEW l, y.blocks = x.blocks, y.units = x.units, y.pending = x.pending,
           EntryMirrors(x, l)
    PROVE  EntryMirrors(y, l)
<1>1. (Creates(y) <=> Creates(x)) /\ (Updates(y) <=> Updates(x))
  BY DEF Creates, Updates
<1>2. \A i : EntryBlock(x, l, i) => EntryBlock(y, l, i)
  BY <1>1, Zenon DEF EntryBlock
<1>3. \A k : PendingText(x, k) => PendingText(y, k)
  BY Zenon DEF PendingText
<1>4. /\ Len(l.blocks) = IF Creates(y) THEN Len(y.blocks) - 1 ELSE Len(y.blocks)
      /\ \A i \in DOMAIN l.blocks : EntryBlock(y, l, i)
      /\ \A k \in DOMAIN l.cached : l.cached[k] = k - 1
      /\ \A k \in DOMAIN y.pending : PendingText(y, k)
  BY <1>1, <1>2, <1>3 DEF EntryMirrors
<1> QED BY <1>4 DEF EntryMirrors

\* How many blocks were emitted.
LEMMA PromisedSome ==
    ASSUME StreamInv, TextInv, NEW r \in Runs
    PROVE  Promised[r] \in Nat /\ Promised[r] <= Len(stream.blocks)
<1>1. ServerTypes /\ RunEventText(r)
  BY TextIs
<1>2. Len(stream.blocks) \in Nat /\ run[r].blocks \in Blocks
  BY <1>1, RunTyped, BlocksAre
<1>3. run[r].event.kind = "created" => Len(stream.blocks) # 0
  <2>1. SUFFICES ASSUME run[r].event.kind = "created" PROVE Len(stream.blocks) # 0
    OBVIOUS
  <2>2. run[r].event # NoEvent
    BY <2>1 DEF NoEvent
  <2>3. run[r].event \in Messages /\ BlockEvent(run[r].event)
    BY <1>1, <2>1, <2>2, RunTyped DEF Messages, PageEvents, BlockEvent
  <2>4. run[r].event.gen \in Runs
    BY <2>3, BlockEventTyped
  <2>5. At(run[r].event) \in DOMAIN run[run[r].event.gen].blocks
    BY <1>1, <2>3 DEF RunEventText, Said, BlockSaid
  <2>6. At(run[r].event) # 0
    <3>1. run[run[r].event.gen].blocks \in Blocks
      BY <1>1, <2>4, RunTyped
    <3> QED BY <2>5, <3>1, BlocksAre
  <2> QED BY <1>1, <2>1, <2>6 DEF RunEventText
<1>4. PromisedOf(run[r], stream) \in Nat /\ PromisedOf(run[r], stream) <= Len(stream.blocks)
  BY <1>2, <1>3 DEF PromisedOf
<1> QED BY <1>4, TextOfIs

\* What such a step leaves of the execution and of the entry.
Leaves(r) ==
    /\ Moves(r) /\ run[r].pc # "idle" /\ run'[r].pc # "idle" /\ run'[r].turn = run[r].turn
    /\ run'[r].blocks = run[r].blocks /\ run'[r].units = run[r].units
    /\ Undone(run'[r]) => Undone(run[r]) /\ (Telling(run[r]) => Telling(run'[r]))
    /\ GeneratingRun(run'[r]) => GeneratingRun(run[r]) /\ run'[r].pending = run[r].pending
    /\ BlockEvent(run'[r].event) => run'[r].event = run[r].event
    /\ \/ stream' = stream
       \/ stream' = NoStream /\ stream.gen = r /\ ~Undone(run'[r])
    /\ \A n \in Turns : durable'[n].status = "none" <=> durable[n].status = "none"

\* The text of the server stays.
LEMMA TextLeft ==
    ASSUME StreamInv, TextInv, ServerInv', NEW r \in Runs, Leaves(r)
    PROVE  /\ TextGrows /\ ServerText'
           /\ \A q \in Runs : q # r => Promised'[q] = Promised[q]
<1>1. /\ ServerTypes /\ RunHolds(r, run[r])
      /\ RunTextOf(r, run[r]) /\ StreamTextOf(run[r], stream) /\ RunEventText(r)
  BY TextIs
<1>2. ServerTypes' /\ RunHolds(r, run'[r])
  BY ServerNextIs
<1>3. Begins(run[r].blocks, run'[r].blocks)
  BY <1>1, RunTyped, BeginsSame DEF Leaves
<1>4. NoStream.gen = 0
  BY DEF NoStream
<1>5. EntryMoves(r)
  BY <1>4 DEF Leaves, EntryMoves
<1>6. RunTextOf(r, run'[r])
  <2>1. GeneratingRun(run'[r]) => run'[r].units = TextBefore(run'[r].blocks, Len(run'[r].blocks) + 1)
    BY <1>1, Zenon DEF RunTextOf, Leaves
  <2>2. Numbered(r, run'[r].blocks)
    BY <1>1, Zenon DEF RunTextOf, Leaves
  <2>3. Undone(run'[r]) /\ ~Telling(run'[r]) => run'[r].blocks = <<>>
    BY <1>1, Zenon DEF RunTextOf, Leaves
  <2> QED BY <2>1, <2>2, <2>3 DEF RunTextOf
<1>7. StreamTextOf(run'[r], stream')
  <2>1. SUFFICES ASSUME GeneratingRun(run'[r]) PROVE EntryMirrors(run'[r], stream')
    BY DEF StreamTextOf
  <2>2. stream' = stream /\ GeneratingRun(run[r]) /\ run'[r].pending = run[r].pending
        /\ run'[r].blocks = run[r].blocks /\ run'[r].units = run[r].units
    BY <2>1, Zenon DEF Leaves, GeneratingRun
  <2>3. EntryMirrors(run[r], stream)
    BY <1>1, <2>2 DEF StreamTextOf
  <2>4. EntryMirrors(run'[r], stream)
    BY <2>2, <2>3, MirrorsSame
  <2> QED BY <2>2, <2>4
<1>8. RunEventTextOf(run'[r], run', stream')
  <2>1. CASE ~BlockEvent(run'[r].event)
    BY <2>1, Zenon DEF RunEventTextOf, SaidOf, BlockEvent
  <2>2. CASE BlockEvent(run'[r].event)
    <3>1. run'[r].event = run[r].event
      BY <2>2 DEF Leaves
    <3>2. Undone(run'[r])
      BY <1>2, <2>2, TellingIs DEF GeneratingRun
    <3>3. stream' = stream
      BY <3>2 DEF Leaves
    <3>4. run[r].event # NoEvent
      BY <2>2, <3>1 DEF NoEvent, BlockEvent
    <3>5. run[r].event.gen = r
      BY <1>1, <3>4 DEF RunHolds
    <3>6. /\ BlockSaid(run[r].event, run[r])
          /\ stream.gen = run[r].event.gen => At(run[r].event) <= Len(stream.blocks)
      BY <1>1, <2>2, <3>1, <3>5 DEF RunEventText, Said
    <3>7. BlockSaid(run[r].event, run'[r])
      <4>1. run'[r].turn = run[r].turn /\ run'[r].blocks = run[r].blocks
        BY DEF Leaves
      <4> QED BY <3>6, <4>1, Zenon DEF BlockSaid
    <3>8. run[r].event.kind = "created" => At(run[r].event) = Len(stream.blocks)
      BY <1>1 DEF RunEventText
    <3> QED BY <3>1, <3>3, <3>5, <3>6, <3>7, <3>8, Zenon DEF RunEventTextOf, SaidOf
  <2> QED BY <2>1, <2>2
<1>9. /\ Moves(r) /\ run[r].pc # "idle" /\ run'[r].pc # "idle" /\ run'[r].turn = run[r].turn
      /\ \A n \in Turns : durable'[n].status = "none" <=> durable[n].status = "none"
  BY DEF Leaves
<1> QED BY <1>3, <1>5, <1>6, <1>7, <1>8, <1>9, TextMoves

\* Nor does it promise a block, unless its event was emitted.
LEMMA LeftPromises ==
    ASSUME StreamInv, TextInv, ServerInv', NEW r \in Runs, Leaves(r),
           Telling(run'[r]) => Telling(run[r]) /\ run'[r].event = run[r].event
    PROVE  \A q \in Runs : Promised'[q] <= Promised[q]
<1>1. \A q \in Runs : q # r => Promised'[q] = Promised[q]
  BY TextLeft
<1>2. RunHolds(r, run'[r])
  BY ServerNextIs
<1>3. Promised'[r] <= Promised[r]
  <2>1. Promised[r] \in Nat /\ Promised'[r] = PromisedOf(run'[r], stream')
        /\ Promised[r] = PromisedOf(run[r], stream)
    BY PromisedSome, TextOfIs
  <2>2. CASE Telling(run'[r])
    <3>1. Undone(run'[r])
      BY <1>2, <2>2, TellingIs DEF GeneratingRun
    <3>2. stream' = stream /\ Telling(run[r]) /\ run'[r].event = run[r].event
      BY <2>2, <3>1 DEF Leaves
    <3>3. PromisedOf(run'[r], stream') = PromisedOf(run[r], stream)
      BY <2>2, <3>2, Zenon DEF PromisedOf
    <3> QED BY <2>1, <3>3
  <2>3. CASE ~Telling(run'[r])
    BY <2>1, <2>3 DEF PromisedOf
  <2> QED BY <2>2, <2>3
<1>4. \A q \in Runs : Promised[q] \in Nat
  BY PromisedSome
<1> QED BY <1>1, <1>3, <1>4

\* So does the page, when nothing is sent to it and no block is promised.
LEMMA LeftKeeps ==
    ASSUME StreamInv, TextInv, ServerInv', NEW r \in Runs, Leaves(r), UNCHANGED <<room, ask, wire, page>>,
           Telling(run'[r]) => Telling(run[r]) /\ run'[r].event = run[r].event
    PROVE  TextInv'
<1>1. TextGrows /\ ServerText'
  BY TextLeft
<1>2. \A q \in Runs : Promised'[q] <= Promised[q]
  BY LeftPromises
<1>3. ServerTypes' /\ PageText
  BY ServerNextIs, TextIs
<1>4. PageText'
  BY <1>1, <1>2, <1>3, PageTextStays
<1> QED BY <1>1, <1>4 DEF TextInv

\* A row that is written is one that was there.
LEMMA RowWritten ==
    ASSUME StreamInv, TextInv, NEW r \in Runs, run[r].pc # "idle",
           NEW row \in RowSet, row.status # "none", durable' = [durable EXCEPT ![run[r].turn] = row]
    PROVE  \A n \in Turns : durable'[n].status = "none" <=> durable[n].status = "none"
<1>1. durable \in [Turns -> RowSet] /\ run[r].turn \in Turns
  BY TextIs, RunIs DEF ServerTypes
<1>2. durable[run[r].turn].status # "none"
  BY TextIs DEF TurnsInOrder, Exists
<1> QED BY <1>1, <1>2

\* No event of a block.
LEMMA NoBlockEvent ==
    /\ ~BlockEvent(NoEvent)
    /\ \A e : e.kind \in {"start", "ended"} => ~BlockEvent(e)
  BY DEF BlockEvent, NoEvent

\* The actions that leave the blocks alone, one by one. The status is read,
LEMMA ReadBriefText ==
    ASSUME StreamInv, TextInv, ServerInv', NEW r \in Runs, ReadBrief(r)
    PROVE  TextInv'
<1> DEFINE x == [run[r] EXCEPT !.brief = status, !.pc = "tell"]
<1>1. ServerInv
  BY DEF StreamInv
<1>2. run[r].pc = "brief" /\ durable' = durable /\ stream' = stream /\ UNCHANGED <<room, ask, wire, page>>
  BY DEF ReadBrief
<1>3. x \in RunSet /\ x.pc = "tell" /\ x.turn = run[r].turn /\ x.blocks = run[r].blocks
      /\ x.units = run[r].units /\ x.pending = run[r].pending /\ x.event = run[r].event
      /\ x.then = run[r].then
  BY <1>1, RunIs DEF RunSet, Stages, ServerInv, ServerTypes
<1>4. run' = [run EXCEPT ![r] = x]
  BY <1>1, RunIs DEF ReadBrief
<1> HIDE DEF x
<1>5. Moves(r) /\ run'[r] = x
  BY <1>1, <1>3, <1>4, RunReplaced
<1>6. (Undone(x) <=> Undone(run[r])) /\ (Telling(x) <=> Telling(run[r])) /\ (OpenedRun(x) <=> OpenedRun(run[r]))
  BY <1>2, <1>3 DEF Undone, Telling, OpenedRun
<1>7. Leaves(r)
  BY <1>2, <1>3, <1>5, <1>6 DEF Leaves, GeneratingRun
<1> QED BY <1>2, <1>3, <1>5, <1>6, <1>7, LeftKeeps

\* the owner was notified or not: the execution goes on,
LEMMA ToldLeaves ==
    ASSUME StreamInv, TextInv, NEW r \in Runs, run[r].pc = "tell", Told(r), UNCHANGED <<durable, stream>>
    PROVE  /\ Leaves(r)
           /\ Telling(run'[r]) => Telling(run[r]) /\ run'[r].event = run[r].event
<1>1. ServerInv /\ RunHolds(r, run[r])
  BY TextIs
<1>2. /\ Moves(r)
      /\ run'[r].pc = run[r].then /\ run'[r].turn = run[r].turn /\ run'[r].blocks = run[r].blocks
      /\ run'[r].units = run[r].units /\ run'[r].pending = run[r].pending
      /\ run'[r].event = run[r].event /\ run'[r].then = "over"
  BY <1>1, ToldIs
<1>3. run[r].then \in {"open", "loop", "cleanup", "over"} /\ run[r].event = NoEvent
  BY <1>1, RunIs DEF RunHolds
<1>4. /\ Undone(run'[r]) => Undone(run[r])
      /\ Telling(run'[r]) <=> Telling(run[r])
      /\ GeneratingRun(run'[r]) => GeneratingRun(run[r])
  BY <1>2, <1>3 DEF Undone, Telling, OpenedRun, GeneratingRun
<1> QED BY <1>2, <1>3, <1>4, NoBlockEvent DEF Leaves

\* its emission fails, and the execution goes on,
LEMMA TellFailsText ==
    ASSUME StreamInv, TextInv, ServerInv', NEW r \in Runs, TellFails(r)
    PROVE  TextInv'
<1>1. run[r].pc = "tell" /\ Told(r) /\ UNCHANGED <<durable, stream>> /\ UNCHANGED <<room, ask, wire, page>>
  BY DEF TellFails
<1> QED BY <1>1, ToldLeaves, LeftKeeps

\* the start is stored,
LEMMA BeginText ==
    ASSUME StreamInv, TextInv, ServerInv', NEW r \in Runs, Begin(r)
    PROVE  TextInv'
<1> DEFINE row == [durable[run[r].turn] EXCEPT !.status = "RUNNING"]
           e == StartOf(r)
           x == [run[r] EXCEPT !.event = e, !.pc = "store"]
<1>1. ServerInv /\ ServerTypes /\ RunHolds(r, run[r])
  BY TextIs
<1>2. /\ run[r].pc = "begin" /\ stream' = stream
      /\ durable' = [durable EXCEPT ![run[r].turn].status = "RUNNING"]
      /\ run' = [run EXCEPT ![r].event = e, ![r].pc = "store"]
      /\ UNCHANGED <<room, ask, wire, page>>
  BY DEF Begin
<1>3. /\ run[r].turn \in Turns /\ run \in [Runs -> RunSet] /\ run[r] \in RunSet /\ run[r].then = "over"
      /\ durable \in [Turns -> RowSet] /\ durable[run[r].turn] \in RowSet
  BY <1>1, <1>2, RunIs DEF ServerTypes, RunHolds
<1>4. row \in RowSet /\ row.status = "RUNNING" /\ durable' = [durable EXCEPT ![run[r].turn] = row]
  <2>1. row \in RowSet /\ row.status = "RUNNING"
    BY <1>3, StatusesAre DEF RowSet
  <2> QED BY <1>2, <1>3, <2>1
<1>5. e \in RunEvents /\ e.kind = "start"
  BY <1>3 DEF StartOf, RunEvents, StartEvents
<1> HIDE DEF e, row
<1>6. x \in RunSet /\ x.pc = "store" /\ x.turn = run[r].turn /\ x.units = run[r].units
      /\ x.pending = run[r].pending /\ x.event = e /\ x.then = "over" /\ x.blocks = run[r].blocks
  BY <1>3, <1>5 DEF RunSet, Stages
<1>7. run' = [run EXCEPT ![r] = x]
  BY <1>2, <1>3
<1> HIDE DEF x
<1>8. Moves(r) /\ run'[r] = x
  BY <1>1, <1>6, <1>7, RunReplaced
<1>9. /\ Undone(run[r]) /\ OpenedRun(run[r]) /\ ~Telling(run[r]) /\ ~Telling(x) /\ ~BlockEvent(x.event)
  BY <1>2, <1>3, <1>5, <1>6, NoBlockEvent DEF Undone, OpenedRun, Telling
<1>10. \A n \in Turns : durable'[n].status = "none" <=> durable[n].status = "none"
  BY <1>2, <1>4, RowWritten
<1>11. Leaves(r)
  BY <1>2, <1>6, <1>8, <1>9, <1>10 DEF Leaves, GeneratingRun
<1> QED BY <1>2, <1>8, <1>9, <1>11, LeftKeeps

\* it is accepted by the store,
LEMMA ValidateText ==
    ASSUME StreamInv, TextInv, ServerInv', NEW r \in Runs, Validate(r)
    PROVE  TextInv'
<1>1. ServerInv /\ RunHolds(r, run[r])
  BY TextIs
<1>2. /\ run[r].pc = "store" /\ Goto(r, "emit") /\ durable' = durable /\ stream' = stream
      /\ UNCHANGED <<room, ask, wire, page>>
  BY DEF Validate
<1>3. /\ Moves(r)
      /\ run'[r].pc = "emit" /\ run'[r].turn = run[r].turn /\ run'[r].blocks = run[r].blocks
      /\ run'[r].units = run[r].units /\ run'[r].pending = run[r].pending
      /\ run'[r].event = run[r].event /\ run'[r].then = run[r].then
  BY <1>1, <1>2, GotoIs DEF Stages
<1>4. run[r].event.kind \in {"start", "ended"} /\ run[r].then = "over" /\ ~BlockEvent(run[r].event)
  BY <1>1, <1>2, NoBlockEvent DEF RunHolds
<1>5. /\ Undone(run'[r]) <=> Undone(run[r])
      /\ OpenedRun(run'[r]) <=> OpenedRun(run[r])
      /\ ~Telling(run'[r]) /\ ~Telling(run[r])
  BY <1>2, <1>3, <1>4 DEF Undone, OpenedRun, Telling
<1>6. Leaves(r)
  BY <1>2, <1>3, <1>4, <1>5 DEF Leaves, GeneratingRun
<1> QED BY <1>2, <1>5, <1>6, LeftKeeps

\* the execution is settled, and goes on to its end,
LEMMA SettledLeaves ==
    ASSUME StreamInv, TextInv, NEW r \in Runs, Moves(r), run[r].pc # "idle",
           run'[r].pc \in {"brief", "finalize", "over", "store"}, run'[r].then \in {"over", "cleanup"},
           run'[r].event.kind = "ended" \/ (run'[r].event = NoEvent /\ run'[r].pc # "store"),
           run'[r].turn = run[r].turn, run'[r].blocks = run[r].blocks, run'[r].units = run[r].units,
           stream' = stream \/ (stream' = NoStream /\ stream.gen = r),
           \A n \in Turns : durable'[n].status = "none" <=> durable[n].status = "none"
    PROVE  Leaves(r) /\ ~Telling(run'[r])
<1>1. ~BlockEvent(run'[r].event)
  BY NoBlockEvent
<1>2. ~Telling(run'[r]) /\ ~Undone(run'[r])
  BY <1>1 DEF Telling, Undone
<1>3. ~GeneratingRun(run'[r]) /\ run'[r].pc # "idle"
  BY <1>2 DEF GeneratingRun
<1> QED BY <1>1, <1>2, <1>3 DEF Leaves

\* because the entry has another owner,
LEMMA SupersededText ==
    ASSUME StreamInv, TextInv, ServerInv', NEW r \in Runs, Superseded(r)
    PROVE  TextInv'
<1>1. ServerInv
  BY TextIs
<1>2. /\ run[r].pc = "store" /\ Brief(r, "over") /\ durable' = durable /\ stream' = stream
      /\ UNCHANGED <<room, ask, wire, page>>
  BY DEF Superseded
<1>3. /\ Moves(r)
      /\ run'[r].pc = "brief" /\ run'[r].turn = run[r].turn /\ run'[r].blocks = run[r].blocks
      /\ run'[r].units = run[r].units /\ run'[r].pending = <<>>
      /\ run'[r].event = NoEvent /\ run'[r].then = "over"
  BY <1>1, <1>2, BriefIs
<1>4. Leaves(r) /\ ~Telling(run'[r])
  BY <1>2, <1>3, SettledLeaves
<1> QED BY <1>2, <1>4, LeftKeeps

\* because its outcome was emitted,
LEMMA FinalizeText ==
    ASSUME StreamInv, TextInv, ServerInv', NEW r \in Runs, Finalize(r)
    PROVE  TextInv'
<1>1. ServerInv
  BY TextIs
<1>2. /\ run[r].pc = "finalize" /\ Brief(r, "over") /\ durable' = durable
      /\ stream' = stream \/ (stream' = NoStream /\ stream.gen = r)
      /\ UNCHANGED <<room, ask, wire, page>>
  BY DEF Finalize
<1>3. /\ Moves(r)
      /\ run'[r].pc = "brief" /\ run'[r].turn = run[r].turn /\ run'[r].blocks = run[r].blocks
      /\ run'[r].units = run[r].units /\ run'[r].pending = <<>>
      /\ run'[r].event = NoEvent /\ run'[r].then = "over"
  BY <1>1, <1>2, BriefIs
<1>4. Leaves(r) /\ ~Telling(run'[r])
  BY <1>2, <1>3, SettledLeaves
<1> QED BY <1>2, <1>4, LeftKeeps

\* because it was closed,
LEMMA CleanupText ==
    ASSUME StreamInv, TextInv, ServerInv', NEW r \in Runs, Cleanup(r)
    PROVE  TextInv'
<1>1. ServerInv /\ RunHolds(r, run[r])
  BY TextIs
<1>2. /\ run[r].pc = "cleanup" /\ Goto(r, "over") /\ durable' = durable
      /\ stream' = stream \/ (stream' = NoStream /\ stream.gen = r)
      /\ UNCHANGED <<room, ask, wire, page>>
  BY DEF Cleanup
<1>3. /\ Moves(r)
      /\ run'[r].pc = "over" /\ run'[r].turn = run[r].turn /\ run'[r].blocks = run[r].blocks
      /\ run'[r].units = run[r].units /\ run'[r].pending = run[r].pending
      /\ run'[r].event = run[r].event /\ run'[r].then = run[r].then
  BY <1>1, <1>2, GotoIs DEF Stages
<1>4. run[r].event = NoEvent /\ run[r].then = "over"
  BY <1>1, <1>2 DEF RunHolds
<1>5. Leaves(r) /\ ~Telling(run'[r])
  BY <1>2, <1>3, <1>4, SettledLeaves
<1> QED BY <1>2, <1>5, LeftKeeps

\* its entry expires,
LEMMA ExpireText ==
    ASSUME StreamInv, TextInv, ServerInv', Expire
    PROVE  TextInv'
<1>1. /\ stream # NoStream /\ run[stream.gen].pc = "over" /\ stream' = NoStream
      /\ durable' = durable /\ run' = run /\ UNCHANGED <<room, ask, wire, page>>
  BY DEF Expire
<1>2. PICK r : r = stream.gen
  OBVIOUS
<1>3. r \in Runs /\ ServerInv
  BY <1>1, <1>2, TextIs DEF ServerInv, EntryHolds, Announced
<1>4. RunHolds(r, run[r]) /\ run \in [Runs -> RunSet] /\ run[r].pc = "over"
  BY <1>1, <1>2, <1>3, RunIs
<1>5. run[r].event = NoEvent /\ run[r].then = "over"
  BY <1>4 DEF RunHolds
<1>6. Moves(r)
  BY <1>1, <1>4 DEF Moves
<1>7. /\ run'[r].pc = "over" /\ run'[r].turn = run[r].turn /\ run'[r].blocks = run[r].blocks
      /\ run'[r].units = run[r].units /\ run'[r].event = NoEvent /\ run'[r].then = "over" /\ run[r].pc # "idle"
  BY <1>1, <1>4, <1>5
<1>8. stream' = stream \/ (stream' = NoStream /\ stream.gen = r)
  BY <1>1, <1>2
<1>9. Leaves(r) /\ ~Telling(run'[r])
  BY <1>1, <1>3, <1>6, <1>7, <1>8, SettledLeaves
<1> QED BY <1>1, <1>3, <1>9, LeftKeeps

\* or its outcome is stored,
LEMMA ConcludeText ==
    ASSUME StreamInv, TextInv, ServerInv', NEW r \in Runs, NEW outcome \in Terminal, NEW blocks \in Blocks,
           run[r].pc \in {"begin", "loop"}, Conclude(r, outcome, blocks)
    PROVE  TextInv'
<1> DEFINE row == [status |-> outcome, blocks |-> blocks]
           e == EndOf(r, outcome, blocks)
           x == [run[r] EXCEPT !.event = e, !.pc = "store", !.pending = <<>>]
<1>1. ServerInv /\ ServerTypes /\ RunHolds(r, run[r])
  BY TextIs
<1>2. /\ stream' = stream
      /\ durable' = [durable EXCEPT ![run[r].turn] = row]
      /\ run' = [run EXCEPT ![r] = x]
      /\ UNCHANGED <<room, ask, wire, page>>
  BY DEF Conclude, Settle
<1>3. /\ run[r].turn \in Turns /\ run[r] \in RunSet /\ run[r].then = "over" /\ run[r].pc # "idle"
  BY <1>1, RunIs DEF RunHolds
<1>4. row \in RowSet /\ row.status # "none"
  <2>1. outcome \in StatusSet /\ outcome # "none"
    BY StatusesAre
  <2> QED BY <2>1 DEF RowSet
<1>5. e \in RunEvents /\ e.kind = "ended"
  BY <1>3 DEF EndOf, RunEvents, EndedEvents
<1> HIDE DEF e, row
<1>6. x \in RunSet /\ x.pc = "store" /\ x.turn = run[r].turn /\ x.units = run[r].units
      /\ x.event = e /\ x.then = "over" /\ x.blocks = run[r].blocks
  BY <1>3, <1>5, EmptyIs DEF RunSet, Stages
<1> HIDE DEF x
<1>7. Moves(r) /\ run'[r] = x
  BY <1>1, <1>2, <1>6, RunReplaced
<1>8. \A n \in Turns : durable'[n].status = "none" <=> durable[n].status = "none"
  BY <1>2, <1>3, <1>4, RowWritten
<1>9. Leaves(r) /\ ~Telling(run'[r])
  BY <1>2, <1>3, <1>5, <1>6, <1>7, <1>8, SettledLeaves
<1> QED BY <1>2, <1>9, LeftKeeps

\* whether it is complete,
LEMMA CompleteText ==
    ASSUME StreamInv, TextInv, ServerInv', NEW r \in Runs, Complete(r)
    PROVE  TextInv'
<1>1. run[r].blocks \in Blocks /\ "COMPLETED" \in Terminal
  BY TextIs, BlocksOfRun DEF Terminal
<1>2. Conclude(r, "COMPLETED", run[r].blocks) /\ run[r].pc = "loop"
  BY DEF Complete, Accepting
<1>3. PICK blocks \in Blocks : blocks = run[r].blocks
  BY <1>1
<1> QED BY <1>1, <1>2, <1>3, ConcludeText

\* cancelled
LEMMA CancelText ==
    ASSUME StreamInv, TextInv, ServerInv', NEW r \in Runs, Cancel(r)
    PROVE  TextInv'
<1>1. CloseAll(run[r].blocks) \in Blocks /\ "CANCELLED" \in Terminal
  BY TextIs, BlocksOfRun DEF Terminal
<1>2. Conclude(r, "CANCELLED", CloseAll(run[r].blocks)) /\ run[r].pc \in {"begin", "loop"}
  BY DEF Cancel
<1>3. PICK blocks \in Blocks : blocks = CloseAll(run[r].blocks)
  BY <1>1
<1> QED BY <1>1, <1>2, <1>3, ConcludeText

\* or failed,
LEMMA FailText ==
    ASSUME StreamInv, TextInv, ServerInv', NEW r \in Runs, Fail(r)
    PROVE  TextInv'
<1>1. CloseAll(run[r].blocks) \in Blocks /\ "FAILED" \in Terminal
  BY TextIs, BlocksOfRun DEF Terminal
<1>2. Conclude(r, "FAILED", CloseAll(run[r].blocks)) /\ run[r].pc \in {"begin", "loop"}
  BY DEF Fail, Accepting
<1>3. PICK blocks \in Blocks : blocks = CloseAll(run[r].blocks)
  BY <1>1
<1> QED BY <1>1, <1>2, <1>3, ConcludeText

\* and so when a call of the store or an emission fails.
LEMMA EmitFailsText ==
    ASSUME StreamInv, TextInv, ServerInv', NEW r \in Runs, EmitFails(r)
    PROVE  TextInv'
<1>1. ServerInv /\ RunHolds(r, run[r])
  BY TextIs
<1>2. /\ run[r].pc \in {"open", "store", "emit"} /\ stream' = stream
      /\ UNCHANGED <<room, ask, wire, page>>
  BY DEF EmitFails
<1>3. run[r].then = "over" /\ run[r].pc # "idle"
  BY <1>1, <1>2 DEF RunHolds
<1>4. CASE run[r].event.kind = "ended"
  <2>1. durable' = durable /\ (Brief(r, "cleanup") \/ Finish(r))
    BY <1>4 DEF EmitFails
  <2>2. /\ Moves(r)
        /\ run'[r].pc \in {"brief", "finalize"} /\ run'[r].turn = run[r].turn /\ run'[r].blocks = run[r].blocks
        /\ run'[r].units = run[r].units
        /\ run'[r].event = NoEvent /\ run'[r].then \in {"over", "cleanup"}
    <3>1. CASE Brief(r, "cleanup")
      BY <1>1, <3>1, BriefIs
    <3>2. CASE Finish(r)
      <4>1. run' = [run EXCEPT ![r].pc = "finalize", ![r].event = NoEvent] /\ "finalize" \in Stages
        BY <3>2 DEF Finish, Stages
      <4> QED BY <1>1, <1>3, <4>1, FinishIs
    <3> QED BY <2>1, <3>1, <3>2
  <2>3. Leaves(r) /\ ~Telling(run'[r])
    BY <1>2, <1>3, <2>1, <2>2, SettledLeaves
  <2> QED BY <1>2, <2>3, LeftKeeps
<1>5. CASE run[r].event.kind # "ended"
  <2>1. PICK outcome \in {"FAILED", "CANCELLED"} : Settle(r, outcome, CloseAll(run[r].blocks))
    BY <1>5 DEF EmitFails
  <2> DEFINE row == [status |-> outcome, blocks |-> CloseAll(run[r].blocks)]
  <2>2. /\ Moves(r)
        /\ run'[r].pc = "brief" /\ run'[r].turn = run[r].turn /\ run'[r].blocks = run[r].blocks
        /\ run'[r].units = run[r].units
        /\ run'[r].event = NoEvent /\ run'[r].then = "cleanup"
    BY <1>1, <1>5, BriefIs DEF EmitFails
  <2>3. row \in RowSet /\ row.status # "none"
    <3>1. CloseAll(run[r].blocks) \in Blocks /\ outcome \in StatusSet /\ outcome # "none"
      BY <1>1, BlocksOfRun DEF StatusSet, Terminal
    <3> QED BY <3>1 DEF RowSet
  <2>4. durable' = [durable EXCEPT ![run[r].turn] = row]
    BY <2>1 DEF Settle
  <2> HIDE DEF row
  <2>5. \A n \in Turns : durable'[n].status = "none" <=> durable[n].status = "none"
    BY <1>3, <2>3, <2>4, RowWritten
  <2>6. Leaves(r) /\ ~Telling(run'[r])
    BY <1>2, <1>3, <2>2, <2>5, SettledLeaves
  <2> QED BY <1>2, <2>6, LeftKeeps
<1> QED BY <1>4, <1>5

-----------------------------------------------------------------------------
(* Events are sent to the page *)

\* What the page is told is so in the next state too, whatever is sent to it and
\* shown by it.
LEMMA TextFollows ==
    ASSUME ServerTypes, ServerTypes', TextGrows,
           NEW w \in Seq(Messages), NEW queue \in Seq(PageEvents), NEW v \in ViewSet, NEW a \in AskSet,
           w = wire', queue = hook'.queue, v = view', a = ask',
           Tells(w, queue, v, a), Reaches(w, v, a, hook'), Listens(w, queue, v, a, hook', room', Promised')
    PROVE  PageText'
<1>1. Tells(w, queue, v, a)'
  BY TellsStill
<1>2. Tells(wire, hook.queue, view, ask)'
  BY <1>1
<1> QED BY <1>2 DEF PageText

\* A message is sent that says what is so.
LEMMA TellsMore ==
    ASSUME NEW w \in Seq(Messages), NEW queue, NEW v, NEW a, Tells(w, queue, v, a),
           NEW m \in Messages, Said(m), m.kind = "ack" => EntryText(m.live)
    PROVE  Tells(Append(w, m), queue, v, a)
<1> DEFINE x == Append(w, m)
<1>1. \A i \in DOMAIN x : (i \in DOMAIN w /\ x[i] = w[i]) \/ x[i] = m
  BY AppendIs
<1> HIDE DEF x
<1>2. \A i \in DOMAIN x : Said(x[i]) /\ (x[i].kind = "ack" => EntryText(x[i].live))
  BY <1>1 DEF Tells
<1>3. Tells(x, queue, v, a)
  BY <1>2 DEF Tells
<1> QED BY <1>3 DEF x

\* A message that is no answer has no rows.
LEMMA ReachesMore ==
    ASSUME NEW w \in Seq(Messages), NEW v, NEW a, NEW h, Reaches(w, v, a, h),
           NEW m \in Messages, m.kind = "ack" => RowsReach(v, m.rows, h.replace)
    PROVE  Reaches(Append(w, m), v, a, h)
<1> DEFINE x == Append(w, m)
<1>1. \A i \in DOMAIN x : (i \in DOMAIN w /\ x[i] = w[i]) \/ x[i] = m
  BY AppendIs
<1> HIDE DEF x
<1>2. \A i \in DOMAIN x : x[i].kind = "ack" => RowsReach(v, x[i].rows, h.replace)
  BY <1>1 DEF Reaches
<1>3. Reaches(x, v, a, h)
  BY <1>2 DEF Reaches
<1> QED BY <1>3 DEF x

\* An event is sent to a page that is up.
LEMMA EventSent ==
    ASSUME NEW w, NEW queue \in Seq(PageEvents), NEW v, NEW a, NEW h, NEW in, NEW p, Counts(p),
           w \in Seq(Messages), Tells(w, queue, v, a), Reaches(w, v, a, h), Listens(w, queue, v, a, h, in, p),
           NEW m \in PageEvents, Said(m), h.up, ~FromRuns(m)
    PROVE  /\ Append(w, m) \in Seq(Messages)
           /\ Tells(Append(w, m), queue, v, a) /\ Reaches(Append(w, m), v, a, h)
           /\ Listens(Append(w, m), queue, v, a, h, in, p)
<1>1. m \in Messages /\ m.kind # "ack"
  BY EventTyped DEF Messages
<1>2. Append(w, m) \in Seq(Messages)
  BY <1>1, AppendIs
<1>3. m.kind # "start" /\ ~BlockEvent(m)
  BY DEF FromRuns
<1>4. Promises(m, p, p)
  BY DEF Promises, Counts
<1>5. Listens(Append(w, m), queue, v, a, h, in, p)
  BY <1>3, <1>4, ListensSent
<1> QED BY <1>1, <1>2, <1>5, TellsMore, ReachesMore

\* The owner of the Task is notified.
LEMMA TellText ==
    ASSUME StreamInv, TextInv, ServerInv', NEW r \in Runs, Tell(r)
    PROVE  TextInv'
<1> DEFINE m == [kind |-> "task", status |-> run[r].brief]
<1>1. /\ run[r].pc = "tell" /\ Told(r) /\ UNCHANGED <<durable, stream>>
      /\ wire' = ToUser(m) /\ room' = room /\ ask' = ask /\ hook' = hook /\ view' = view
  BY DEF Tell, page
<1>2. /\ Leaves(r)
      /\ Telling(run'[r]) => Telling(run[r]) /\ run'[r].event = run[r].event
  BY <1>1, ToldLeaves
<1>3. TextGrows /\ ServerText' /\ \A q \in Runs : Promised'[q] <= Promised[q]
  BY <1>2, TextLeft, LeftPromises
<1>4. /\ ServerInv /\ ServerTypes /\ ServerTypes' /\ PageText
      /\ wire \in Seq(Messages) /\ hook.queue \in Seq(PageEvents) /\ view \in ViewSet /\ ask \in AskSet
  BY TextIs, ServerNextIs, PageIs DEF HookSet
<1>5. m \in PageEvents /\ m.kind = "task"
  BY <1>4, RunIs DEF PageEvents, TaskEvents
<1> HIDE DEF m
<1>6. Said(m) /\ ~FromRuns(m)
  BY <1>5 DEF Said, FromRuns, BlockEvent
<1>7. Counts(Promised) /\ Counts(Promised')
  BY <1>4, PromisedIs
<1>8. /\ Tells(wire, hook.queue, view, ask) /\ Reaches(wire, view, ask, hook)
      /\ Listens(wire, hook.queue, view, ask, hook, room, Promised')
  BY <1>3, <1>4, <1>7, ListensLess DEF PageText
<1>9. CASE ~hook.up
  <2>1. wire' = wire
    BY <1>1, <1>9 DEF ToUser
  <2>2. PageText'
    BY <1>1, <1>3, <1>4, <1>8, <2>1, TextFollows
  <2> QED BY <1>3, <2>2 DEF TextInv
<1>10. CASE hook.up
  <2> DEFINE w == Append(wire, m)
             x == Append(w, m)
  <2>1. /\ w \in Seq(Messages) /\ Tells(w, hook.queue, view, ask) /\ Reaches(w, view, ask, hook)
        /\ Listens(w, hook.queue, view, ask, hook, room, Promised')
    BY <1>4, <1>5, <1>6, <1>7, <1>8, <1>10, EventSent
  <2> HIDE DEF w
  <2>2. /\ x \in Seq(Messages) /\ Tells(x, hook.queue, view, ask) /\ Reaches(x, view, ask, hook)
        /\ Listens(x, hook.queue, view, ask, hook, room, Promised')
    BY <1>4, <1>5, <1>6, <1>7, <1>10, <2>1, EventSent
  <2>3. wire' = w \/ wire' = x
    BY <1>1, <1>10 DEF ToUser, ToRoom, w
  <2> HIDE DEF x
  <2>4. PageText'
    BY <1>1, <1>3, <1>4, <2>1, <2>2, <2>3, TextFollows
  <2> QED BY <1>3, <2>4 DEF TextInv
<1> QED BY <1>9, <1>10

\* An execution that emits leaves the text alone.
LEMMA EmitLeaves ==
    ASSUME StreamInv, TextInv, NEW r \in Runs, run[r].pc = "emit", After(r), UNCHANGED <<durable, stream>>
    PROVE  /\ Leaves(r) /\ run'[r].event = NoEvent
           /\ run[r].event.kind = "ended" => ~Telling(run'[r])
           /\ run'[r].blocks = run[r].blocks /\ run'[r].event = NoEvent
<1>1. ServerInv /\ RunHolds(r, run[r]) /\ run[r].event \in RunEvents \cup {NoEvent}
  BY TextIs, RunIs
<1>2. run[r].then = "over" /\ run[r].event # NoEvent
  BY <1>1 DEF RunHolds
<1>3. \A n \in Turns : durable'[n].status = "none" <=> durable[n].status = "none"
  OBVIOUS
<1>4. ~BlockEvent(NoEvent)
  BY NoBlockEvent
<1>5. CASE run[r].event.kind = "start"
  <2>1. /\ Moves(r)
        /\ run'[r].pc = "brief" /\ run'[r].turn = run[r].turn /\ run'[r].blocks = run[r].blocks
        /\ run'[r].units = run[r].units /\ run'[r].pending = <<>>
        /\ run'[r].event = NoEvent /\ run'[r].then = "loop"
    BY <1>1, <1>5, BriefIs DEF After
  <2>2. run[r].pending = <<>>
    BY <1>1, <1>5 DEF RunHolds
  <2>3. Undone(run[r]) /\ GeneratingRun(run[r]) /\ Telling(run'[r])
    BY <1>1, <1>2, <1>5, <2>1 DEF Undone, GeneratingRun, OpenedRun, Telling
  <2> QED BY <1>3, <1>4, <1>5, <2>1, <2>2, <2>3 DEF Leaves
<1>6. CASE run[r].event.kind = "ended"
  <2>1. run' = [run EXCEPT ![r].pc = "finalize", ![r].event = NoEvent] /\ "finalize" \in Stages
    BY <1>6 DEF After, Finish, Stages
  <2>2. /\ Moves(r)
        /\ run'[r].pc = "finalize" /\ run'[r].turn = run[r].turn /\ run'[r].blocks = run[r].blocks
        /\ run'[r].units = run[r].units /\ run'[r].event = NoEvent /\ run'[r].then = run[r].then
    BY <1>1, <2>1, FinishIs
  <2>3. Leaves(r) /\ ~Telling(run'[r])
    BY <1>2, <1>3, <2>2, SettledLeaves
  <2> QED BY <2>2, <2>3
<1>7. CASE run[r].event.kind \notin {"start", "ended"}
  <2>1. /\ Moves(r)
        /\ run'[r].pc = "loop" /\ run'[r].turn = run[r].turn /\ run'[r].blocks = run[r].blocks
        /\ run'[r].units = run[r].units /\ run'[r].pending = run[r].pending
        /\ run'[r].event = NoEvent /\ run'[r].then = run[r].then
    BY <1>1, <1>7, FinishIs DEF After, Stages
  <2>2. Undone(run[r]) /\ GeneratingRun(run[r]) /\ Telling(run'[r])
    BY <1>2, <1>7, <2>1 DEF Undone, GeneratingRun, OpenedRun, Telling
  <2> QED BY <1>3, <1>4, <1>7, <2>1, <2>2 DEF Leaves
<1> QED BY <1>5, <1>6, <1>7

\* What the event of an execution was promised to be.
LEMMA EmitPromised ==
    ASSUME StreamInv, TextInv, NEW r \in Runs, run[r].pc = "emit", After(r), UNCHANGED <<durable, stream>>, ServerInv'
    PROVE  /\ run[r].event \in PageEvents /\ Said(run[r].event) /\ run[r].event.gen = r
           /\ run[r].event.kind = "start" => run[r].blocks = <<>> /\ Promised'[r] <= 0
           /\ BlockEvent(run[r].event) => At(run[r].event) - 1 <= Promised[r]
           /\ Promises(run[r].event, Promised, Promised')
<1>1. /\ ServerInv /\ RunHolds(r, run[r]) /\ run[r].event \in RunEvents \cup {NoEvent}
      /\ RunTextOf(r, run[r]) /\ StreamTextOf(run[r], stream) /\ RunEventText(r)
  BY TextIs, RunIs
<1>2. run[r].then = "over" /\ run[r].event # NoEvent /\ run[r].event.gen = r
  BY <1>1 DEF RunHolds
<1>3. run[r].event \in PageEvents /\ Said(run[r].event)
  BY <1>1, <1>2 DEF PageEvents, RunEventText
<1>4. /\ Leaves(r) /\ run'[r].event = NoEvent
      /\ run[r].event.kind = "ended" => ~Telling(run'[r])
  BY EmitLeaves
<1>5. /\ \A q \in Runs : q # r => Promised'[q] = Promised[q]
      /\ \A q \in Runs : Promised[q] \in Nat
  BY <1>4, TextLeft, PromisedSome
<1>6. /\ Promised[r] = PromisedOf(run[r], stream) /\ Promised'[r] = PromisedOf(run'[r], stream')
  BY TextOfIs
<1>7. NoEvent.kind # "created"
  BY DEF NoEvent
<1>8. Promised'[r] = 0 \/ Promised'[r] = Len(stream.blocks)
  BY <1>4, <1>6, <1>7 DEF PromisedOf
<1>9. CASE run[r].event.kind = "start"
  <2>1. Undone(run[r]) /\ ~Telling(run[r]) /\ GeneratingRun(run[r]) /\ run[r].pending = <<>>
    BY <1>1, <1>2, <1>9 DEF Undone, Telling, BlockEvent, GeneratingRun, OpenedRun, RunHolds
  <2>2. run[r].blocks = <<>>
    BY <1>1, <2>1 DEF RunTextOf
  <2>3. EntryMirrors(run[r], stream)
    BY <1>1, <2>1 DEF StreamTextOf
  <2>4. Len(stream.blocks) = 0
    BY <2>1, <2>2, <2>3, EmptyIs DEF EntryMirrors, Creates
  <2>5. Promised'[r] = 0
    BY <1>8, <2>4
  <2>6. Promises(run[r].event, Promised, Promised')
    BY <1>5, <2>5 DEF Promises
  <2>7. ~BlockEvent(run[r].event)
    BY <1>9, NoBlockEvent
  <2> QED BY <1>2, <1>3, <2>2, <2>5, <2>6, <2>7
<1>10. CASE run[r].event.kind = "ended"
  <2>1. Promised'[r] = 0
    BY <1>4, <1>6, <1>10 DEF PromisedOf
  <2>2. Promises(run[r].event, Promised, Promised')
    BY <1>5, <2>1 DEF Promises
  <2>3. ~BlockEvent(run[r].event)
    BY <1>10, NoBlockEvent
  <2> QED BY <1>2, <1>3, <1>10, <2>2, <2>3
<1>11. CASE BlockEvent(run[r].event)
  <2>1. Telling(run[r]) /\ GeneratingRun(run[r])
    BY <1>1, <1>11, TellingIs
  <2>2. stream.gen = r
    BY <2>1, TextIs DEF EntryFollows
  <2>3. At(run[r].event) <= Len(stream.blocks)
    BY <1>2, <1>3, <1>11, <2>2 DEF Said
  <2>4. run[r].event.kind = "created" => At(run[r].event) = Len(stream.blocks)
    BY <1>1 DEF RunEventText
  <2>5. run[r].event \in Messages
    BY <1>3 DEF Messages
  <2>6. At(run[r].event) \in Nat /\ run[r].event.kind # "start"
    BY <1>11, <2>5, BlockEventTyped
  <2>7. Promised[r] = IF run[r].event.kind = "created" THEN Len(stream.blocks) - 1 ELSE Len(stream.blocks)
    BY <1>6, <2>1 DEF PromisedOf
  <2>8. Len(stream.blocks) \in Nat
    BY <1>1 DEF ServerInv, ServerTypes, StreamSet, Blocks
  <2>9. At(run[r].event) - 1 <= Promised[r]
    BY <2>3, <2>4, <2>6, <2>7, <2>8
  <2>10. \/ Promised'[r] <= Promised[r]
         \/ /\ run[r].event.kind = "created" /\ At(run[r].event) = Promised'[r]
            /\ Promised'[r] <= Promised[r] + 1
    <3>1. CASE Promised'[r] = 0
      BY <1>5, <3>1
    <3>2. CASE Promised'[r] = Len(stream.blocks)
      BY <2>4, <2>7, <2>8, <3>2
    <3> QED BY <1>8, <3>1, <3>2
  <2>11. Promises(run[r].event, Promised, Promised')
    BY <1>2, <1>5, <2>10 DEF Promises
  <2> QED BY <1>2, <1>3, <2>6, <2>9, <2>11
<1>12. run[r].event.kind \in {"start", "ended"} \/ BlockEvent(run[r].event)
  <2>1. run[r].event \in RunEvents
    BY <1>1, <1>2
  <2> QED BY <2>1 DEF RunEvents, StartEvents, CreatedEvents, UpdatedEvents, ChunkEvents, EndedEvents, BlockEvents, BlockEvent
<1> QED BY <1>9, <1>10, <1>11, <1>12

\* The event of an execution is emitted to the room.
LEMMA EmitText ==
    ASSUME StreamInv, TextInv, ServerInv', NEW r \in Runs, Emit(r)
    PROVE  TextInv'
<1> DEFINE m == run[r].event
<1>1. /\ run[r].pc = "emit" /\ After(r) /\ UNCHANGED <<durable, stream>>
      /\ wire' = ToRoom(m) /\ room' = room /\ ask' = ask /\ hook' = hook /\ view' = view
  BY DEF Emit, page
<1>2. Leaves(r)
  BY <1>1, EmitLeaves
<1>3. TextGrows /\ ServerText'
  BY <1>2, TextLeft
<1>4. /\ ServerInv /\ ServerTypes /\ ServerTypes' /\ PageText /\ room \in BOOLEAN /\ OneAnswer(wire, ask, hook)
      /\ wire \in Seq(Messages) /\ hook.queue \in Seq(PageEvents) /\ view \in ViewSet /\ ask \in AskSet
  BY TextIs, ServerNextIs, PageIs DEF HookSet
<1>5. Counts(Promised) /\ Counts(Promised')
  BY <1>4, PromisedIs
<1>6. /\ m \in PageEvents /\ Said(m) /\ m.gen = r
      /\ m.kind = "start" => run[r].blocks = <<>> /\ Promised'[r] <= 0
      /\ BlockEvent(m) => At(m) - 1 <= Promised[r]
      /\ Promises(m, Promised, Promised')
  BY <1>1, EmitPromised
<1> HIDE DEF m
<1>7. /\ Tells(wire, hook.queue, view, ask) /\ Reaches(wire, view, ask, hook)
      /\ Listens(wire, hook.queue, view, ask, hook, room, Promised)
  BY <1>4 DEF PageText
<1>8. CASE ~room
  <2>1. wire' = wire
    BY <1>1, <1>8 DEF ToRoom
  <2>2. Listens(wire, hook.queue, view, ask, hook, room, Promised')
    BY <1>4, <1>7, <1>8, ListensMissed
  <2>3. PageText'
    BY <1>1, <1>3, <1>4, <1>7, <2>1, <2>2, TextFollows
  <2> QED BY <1>3, <2>3 DEF TextInv
<1>9. CASE room
  <2>1. wire' = Append(wire, m) /\ m \in Messages /\ m.kind # "ack"
    BY <1>1, <1>6, <1>9, EventTyped DEF ToRoom, Messages
  <2>2. hook.up
    BY <1>7, <1>9 DEF Listens
  <2>3. m.kind = "start" => \A k \in 1 .. Len(hook.queue) + Len(wire) :
            ~(BlockEvent(Transit(hook.queue, wire)[k]) /\ Transit(hook.queue, wire)[k].gen = m.gen)
    <3>1. SUFFICES ASSUME m.kind = "start", NEW k \in 1 .. Len(hook.queue) + Len(wire),
                          BlockEvent(Transit(hook.queue, wire)[k]), Transit(hook.queue, wire)[k].gen = r
                   PROVE  FALSE
      BY <1>6
    <3>2. PICK e : e = Transit(hook.queue, wire)[k]
      OBVIOUS
    <3>3. \/ k \in DOMAIN hook.queue /\ e = hook.queue[k]
          \/ k - Len(hook.queue) \in DOMAIN wire /\ e = wire[k - Len(hook.queue)]
      BY <1>4, <3>2, TransitIs
    <3>4. Said(e)
      BY <1>7, <3>3 DEF Tells
    <3>5. At(e) \in DOMAIN run[r].blocks
      BY <3>1, <3>2, <3>4 DEF Said, BlockSaid
    <3> QED BY <1>6, <3>1, <3>5, EmptyIs
  <2>4. m.kind = "start" => Promised'[m.gen] <= 0
    BY <1>6
  <2>5. BlockEvent(m) => At(m) - 1 <= Promised[m.gen]
    BY <1>6
  <2>6. Listens(Append(wire, m), hook.queue, view, ask, hook, room, Promised')
    BY <1>4, <1>5, <1>6, <1>7, <1>9, <2>2, <2>3, <2>4, <2>5, ListensSent
  <2>7. /\ Tells(Append(wire, m), hook.queue, view, ask) /\ Reaches(Append(wire, m), view, ask, hook)
        /\ Append(wire, m) \in Seq(Messages)
    BY <1>4, <1>6, <1>7, <2>1, TellsMore, ReachesMore, AppendIs
  <2>8. PageText'
    BY <1>1, <1>3, <1>4, <2>1, <2>6, <2>7, TextFollows
  <2> QED BY <1>3, <2>8 DEF TextInv
<1> QED BY <1>4, <1>8, <1>9

-----------------------------------------------------------------------------
(* The blocks of an execution and of its entry *)

\* An execution that accepts an event of the runtime: the entry has its blocks.
LEMMA AcceptingMirrors ==
    ASSUME StreamInv, TextInv, NEW r \in Runs, Accepting(r)
    PROVE  /\ run[r].pc = "loop" /\ run[r].pending = <<>> /\ run[r].then = "over" /\ run[r].event = NoEvent
           /\ Numbered(r, run[r].blocks) /\ run[r].units = TextBefore(run[r].blocks, Len(run[r].blocks) + 1)
           /\ run[r].blocks \in Blocks /\ run[r].units \in Nat /\ stream.blocks \in Blocks
           /\ Len(stream.blocks) = Len(run[r].blocks)
           /\ DOMAIN stream.blocks = 1 .. Len(run[r].blocks) /\ DOMAIN run[r].blocks = 1 .. Len(run[r].blocks)
           /\ \A i \in DOMAIN stream.blocks :
                IF stream.blocks[i].open
                THEN /\ i = Len(run[r].blocks) /\ stream.blocks[i].text = <<>>
                     /\ stream.blocks[i].id = run[r].blocks[i].id /\ run[r].blocks[i].open
                ELSE stream.blocks[i] = run[r].blocks[i]
           /\ \A k \in DOMAIN stream.cached : stream.cached[k] = k - 1
<1>1. /\ ServerTypes /\ RunHolds(r, run[r]) /\ run[r].pc = "loop" /\ run[r].pending = <<>>
      /\ RunTextOf(r, run[r]) /\ StreamTextOf(run[r], stream)
  BY TextIs DEF Accepting
<1>2. run[r].then = "over" /\ run[r].event = NoEvent
  BY <1>1 DEF RunHolds
<1>3. GeneratingRun(run[r])
  BY <1>1, <1>2 DEF GeneratingRun, Undone, OpenedRun
<1>4. EntryMirrors(run[r], stream)
  BY <1>1, <1>3 DEF StreamTextOf
<1>5. ~Creates(run[r]) /\ ~Updates(run[r])
  BY <1>1 DEF Creates, Updates
<1>6. Len(stream.blocks) = Len(run[r].blocks)
  BY <1>4, <1>5 DEF EntryMirrors
<1>7. \A i \in DOMAIN stream.blocks : EntryBlock(run[r], stream, i)
  BY <1>4 DEF EntryMirrors
<1>8. \A k \in DOMAIN stream.cached : stream.cached[k] = k - 1
  BY <1>4 DEF EntryMirrors
<1>9. run[r].blocks \in Blocks /\ run[r].units \in Nat /\ stream.blocks \in Blocks
  BY <1>1, RunTyped
<1>10. DOMAIN stream.blocks = 1 .. Len(stream.blocks) /\ DOMAIN run[r].blocks = 1 .. Len(run[r].blocks)
  BY <1>9, BlocksAre
<1>11. Numbered(r, run[r].blocks) /\ run[r].units = TextBefore(run[r].blocks, Len(run[r].blocks) + 1)
  BY <1>1, <1>3 DEF RunTextOf
<1>12. \A i \in DOMAIN stream.blocks :
         IF stream.blocks[i].open
         THEN /\ i = Len(run[r].blocks) /\ stream.blocks[i].text = <<>>
              /\ stream.blocks[i].id = run[r].blocks[i].id /\ run[r].blocks[i].open
         ELSE stream.blocks[i] = run[r].blocks[i]
  BY <1>5, <1>7 DEF EntryBlock
<1> QED BY <1>1, <1>2, <1>6, <1>8, <1>9, <1>10, <1>11, <1>12

\* The execution takes the blocks and the events that follow from it.
LEMMA AcceptText ==
    ASSUME StreamInv, TextInv, ServerInv', NEW r \in Runs, Accepting(r),
           NEW blocks \in Blocks, NEW units \in 0 .. MaxUnits, NEW pending \in Seq(BlockEvents),
           Accept(r, blocks, units, pending),
           Begins(run[r].blocks, blocks), Numbered(r, blocks), units = TextBefore(blocks, Len(blocks) + 1),
           \A x : x.blocks = blocks /\ x.units = units /\ x.pending = pending => EntryMirrors(x, stream)
    PROVE  TextInv'
<1> DEFINE x == [run[r] EXCEPT !.blocks = blocks, !.units = units, !.pending = pending]
<1>1. ServerInv /\ ServerTypes' /\ PageText
  BY TextIs, ServerNextIs
<1>2. /\ run[r].pc = "loop" /\ UNCHANGED <<durable, stream>>
      /\ run' = [run EXCEPT ![r] = x]
      /\ UNCHANGED <<room, ask, wire, page>>
  BY DEF Accept, Accepting
<1>3. run[r] \in RunSet /\ run[r].then = "over" /\ run[r].event = NoEvent
  BY <1>1, RunIs, AcceptingMirrors
<1>4. x \in RunSet /\ x.pc = "loop" /\ x.turn = run[r].turn /\ x.units = units /\ x.blocks = blocks
      /\ x.pending = pending /\ x.event = NoEvent /\ x.then = "over"
  BY <1>2, <1>3 DEF RunSet
<1> HIDE DEF x
<1>5. Moves(r) /\ run'[r] = x
  BY <1>1, <1>2, <1>4, RunReplaced
<1>6. Telling(x) /\ Telling(run[r])
  BY <1>2, <1>4 DEF Telling
<1>7. RunTextOf(r, x)
  BY <1>4, <1>6 DEF RunTextOf
<1>8. EntryMirrors(x, stream)
  BY <1>4
<1>9. StreamTextOf(run'[r], stream')
  BY <1>2, <1>5, <1>8 DEF StreamTextOf
<1>10. RunEventTextOf(run'[r], run', stream')
  <2>1. ~BlockEvent(x.event) /\ x.event.kind # "created"
    BY <1>4, NoBlockEvent DEF NoEvent
  <2> QED BY <1>5, <2>1, Zenon DEF RunEventTextOf, SaidOf
<1>11. EntryMoves(r)
  BY <1>2 DEF EntryMoves
<1>12. /\ TextGrows /\ ServerText'
       /\ \A q \in Runs : q # r => Promised'[q] = Promised[q]
  <2>1. run[r].pc # "idle" /\ run'[r].pc # "idle" /\ run'[r].turn = run[r].turn
    BY <1>2, <1>4, <1>5
  <2>2. \A n \in Turns : durable'[n].status = "none" <=> durable[n].status = "none"
    BY <1>2
  <2>3. Begins(run[r].blocks, run'[r].blocks) /\ RunTextOf(r, run'[r])
    BY <1>4, <1>5, <1>7
  <2> QED BY <1>5, <1>9, <1>10, <1>11, <2>1, <2>2, <2>3, TextMoves
<1>13. Promised'[r] = Promised[r]
  <2>1. Promised[r] = PromisedOf(run[r], stream) /\ Promised'[r] = PromisedOf(x, stream)
    BY <1>2, <1>5, TextOfIs
  <2>2. PromisedOf(x, stream) = PromisedOf(run[r], stream)
    BY <1>3, <1>4, <1>6, Zenon DEF PromisedOf
  <2> QED BY <2>1, <2>2
<1>14. \A q \in Runs : Promised'[q] <= Promised[q]
  <2>1. \A q \in Runs : Promised[q] \in Nat
    BY PromisedSome
  <2> QED BY <1>12, <1>13, <2>1
<1>15. PageText'
  BY <1>1, <1>2, <1>12, <1>14, PageTextStays
<1> QED BY <1>12, <1>15 DEF TextInv

\* A block without its text.
Bare(b) == [b EXCEPT !.text = <<>>]

\* What a page that joins finds of the blocks while the creation of one is to come,
LEMMA CreatedMirrors ==
    ASSUME StreamInv, TextInv, NEW r \in Runs, Accepting(r), Idle(r),
           NEW blocks \in Blocks, NEW n \in Nat, n = Len(run[r].blocks), Len(blocks) = n + 1,
           \A i \in 1 .. n : blocks[i] = run[r].blocks[i], blocks[n + 1].open,
           NEW e, e.kind = "created", e.block = Bare(blocks[n + 1]),
           NEW x, x.blocks = blocks, x.pending # <<>>, x.pending[1] = e,
           \A k \in DOMAIN x.pending : k = 1 \/ (x.pending[k].kind = "chunk" /\ PendingText(x, k))
    PROVE  EntryMirrors(x, stream)
<1>1. /\ Len(stream.blocks) = n /\ DOMAIN stream.blocks = 1 .. n
      /\ \A i \in DOMAIN stream.blocks :
           IF stream.blocks[i].open
           THEN i = n /\ run[r].blocks[i].open
           ELSE stream.blocks[i] = run[r].blocks[i]
      /\ \A k \in DOMAIN stream.cached : stream.cached[k] = k - 1
      /\ run[r].blocks \in Blocks
  BY AcceptingMirrors
<1>2. n # 0 => ~run[r].blocks[n].open
  BY <1>1, EmptyIs DEF Idle, Tip, Last
<1>3. Creates(x)
  BY DEF Creates
<1>4. Len(x.blocks) = n + 1 /\ x.blocks # <<>>
  BY EmptyIs
<1>5. ASSUME NEW i \in DOMAIN stream.blocks PROVE EntryBlock(x, stream, i)
  <2>1. ~stream.blocks[i].open /\ stream.blocks[i] = run[r].blocks[i] /\ i \in 1 .. n
    BY <1>1, <1>2
  <2>2. x.blocks[i] = run[r].blocks[i]
    BY <2>1
  <2> QED BY <2>1, <2>2 DEF EntryBlock
<1>6. PendingText(x, 1)
  <2>1. e.block = [x.blocks[n + 1] EXCEPT !.text = <<>>]
    BY DEF Bare
  <2> QED BY <1>4, <2>1, Zenon DEF PendingText
<1> QED BY <1>1, <1>3, <1>4, <1>5, <1>6 DEF EntryMirrors

\* while one grows and when it closes.
LEMMA GrownMirrors ==
    ASSUME StreamInv, TextInv, NEW r \in Runs, Accepting(r),
           NEW blocks \in Blocks, NEW n \in Nat, n = Len(run[r].blocks), Len(blocks) = n, n # 0,
           \A i \in 1 .. n : i # n => blocks[i] = run[r].blocks[i],
           run[r].blocks[n].open, blocks[n].id = run[r].blocks[n].id,
           NEW x, x.blocks = blocks, x.pending # <<>>, blocks[n].open \/ x.pending[1].kind = "updated",
           x.pending[1].kind # "created",
           \A k \in DOMAIN x.pending : PendingText(x, k)
    PROVE  EntryMirrors(x, stream)
<1>1. /\ Len(stream.blocks) = n /\ DOMAIN stream.blocks = 1 .. n
      /\ \A i \in DOMAIN stream.blocks :
           IF stream.blocks[i].open
           THEN i = n /\ stream.blocks[i].text = <<>> /\ stream.blocks[i].id = run[r].blocks[i].id
           ELSE stream.blocks[i] = run[r].blocks[i]
      /\ \A k \in DOMAIN stream.cached : stream.cached[k] = k - 1
  BY AcceptingMirrors
<1>2. ~Creates(x)
  BY DEF Creates
<1>3. x.blocks[n].open \/ Updates(x)
  BY DEF Updates
<1>4. ASSUME NEW i \in DOMAIN stream.blocks PROVE EntryBlock(x, stream, i)
  <2>1. CASE stream.blocks[i].open
    BY <1>1, <1>3, <2>1 DEF EntryBlock
  <2>2. CASE ~stream.blocks[i].open
    <3>1. stream.blocks[i] = run[r].blocks[i] /\ i \in 1 .. n
      BY <1>1, <2>2
    <3>2. i # n
      BY <2>2, <3>1
    <3>3. x.blocks[i] = run[r].blocks[i]
      BY <3>1, <3>2
    <3> QED BY <2>2, <3>1, <3>3 DEF EntryBlock
  <2> QED BY <2>1, <2>2
<1> QED BY <1>1, <1>2, <1>4 DEF EntryMirrors

\* The open block of an execution.
LEMMA TipIs ==
    ASSUME StreamInv, TextInv, NEW r \in Runs, Accepting(r)
    PROVE  /\ Len(run[r].blocks) \in Nat /\ (run[r].blocks = <<>> <=> Len(run[r].blocks) = 0)
           /\ Tip(r) = run[r].blocks[Len(run[r].blocks)]
           /\ ~Idle(r) => Len(run[r].blocks) # 0 /\ run[r].blocks[Len(run[r].blocks)].open
           /\ Idle(r) => Len(run[r].blocks) = 0 \/ ~run[r].blocks[Len(run[r].blocks)].open
           /\ Len(run[r].blocks) # 0 => run[r].blocks[Len(run[r].blocks)] \in BlockSet
<1>1. run[r].blocks \in Blocks
  BY AcceptingMirrors
<1>2. Len(run[r].blocks) \in Nat /\ (run[r].blocks = <<>> <=> Len(run[r].blocks) = 0)
  BY <1>1 DEF Blocks
<1>3. Tip(r) = run[r].blocks[Len(run[r].blocks)]
  BY DEF Tip, Last
<1>4. Len(run[r].blocks) # 0 => run[r].blocks[Len(run[r].blocks)] \in BlockSet
  BY <1>1, <1>2, BlocksAre
<1> QED BY <1>2, <1>3, <1>4 DEF Idle

\* A block that opens.
LEMMA NewBlockIs ==
    ASSUME NEW r \in Runs, NEW kind \in {"text", "tool"}, run[r].blocks \in Blocks
    PROVE  /\ NewBlock(r, kind) \in BlockSet /\ NewBlock(r, kind).id = <<r, Len(run[r].blocks) + 1>>
           /\ NewBlock(r, kind).text = <<>> /\ NewBlock(r, kind).open
<1>1. Len(run[r].blocks) + 1 \in Nat /\ <<>> \in Seq(Nat)
  BY DEF Blocks
<1> QED BY <1>1 DEF NewBlock, Block, BlockSet

\* Only the text of a block is taken away.
LEMMA TextTaken ==
    ASSUME NEW b \in BlockSet, b.text = <<>>, NEW t
    PROVE  /\ Bare(b) = b /\ Bare(Longer(b, t)) = b
           /\ Longer(b, t).text = Append(b.text, t)
BY DEF BlockSet, Bare, Longer

\* A call of a tool opens a block,
LEMMA StartToolText ==
    ASSUME StreamInv, TextInv, ServerInv', NEW r \in Runs, StartTool(r)
    PROVE  TextInv'
<1> DEFINE block == NewBlock(r, "tool")
           old == run[r].blocks
           n == Len(old)
           blocks == Append(old, block)
           a == Created(r, block)
           pending == <<a>>
<1>1. Accepting(r) /\ Idle(r) /\ Accept(r, blocks, run[r].units, pending)
  BY DEF StartTool, Opening
<1>2. /\ ServerInv /\ run[r].pc # "idle" /\ old \in Blocks /\ Numbered(r, old)
      /\ run[r].units = TextBefore(old, n + 1) /\ run[r].units \in 0 .. MaxUnits
  BY <1>1, TextIs, RunIs, AcceptingMirrors
<1>3. n \in Nat /\ (n # 0 => ~old[n].open)
  BY <1>1, TipIs
<1>4. block \in BlockSet /\ block.id = <<r, n + 1>> /\ block.text = <<>> /\ block.open
  BY <1>2, NewBlockIs
<1>5. a \in BlockEvents /\ a.kind = "created" /\ a.block = block
  BY <1>2, <1>4, BlockEventsAre DEF Created
<1>6. pending \in Seq(BlockEvents) /\ DOMAIN pending = {1} /\ Len(pending) = 1 /\ pending[1] = a
  BY <1>5, OneIs
<1> HIDE DEF block, a, pending, n, old
<1>7. /\ blocks \in Blocks /\ Len(blocks) = n + 1 /\ blocks[n + 1] = block
      /\ \A i \in 1 .. n : blocks[i] = old[i]
      /\ Numbered(r, blocks) /\ Begins(old, blocks)
      /\ TextBefore(blocks, n + 2) = TextBefore(old, n + 1)
  BY <1>2, <1>3, <1>4, BlockAdded DEF n
<1> HIDE DEF blocks
<1>8. run[r].units = TextBefore(blocks, Len(blocks) + 1)
  <2>1. Len(blocks) + 1 = n + 2
    BY <1>3, <1>7
  <2> QED BY <1>2, <1>7, <2>1
<1>9. ASSUME NEW x, x.blocks = blocks, x.units = run[r].units, x.pending = pending
      PROVE  EntryMirrors(x, stream)
  <2>1. a.block = Bare(blocks[n + 1])
    BY <1>4, <1>5, <1>7, TextTaken
  <2>2. x.pending # <<>> /\ x.pending[1] = a /\ \A k \in DOMAIN x.pending : k = 1
    BY <1>6, <1>9, EmptyIs
  <2>3. blocks[n + 1].open
    BY <1>4, <1>7
  <2>4. n = Len(run[r].blocks) /\ \A i \in 1 .. n : blocks[i] = run[r].blocks[i]
    BY <1>7 DEF n, old
  <2> QED BY <1>1, <1>3, <1>5, <1>7, <1>9, <2>1, <2>2, <2>3, <2>4, CreatedMirrors
<1>10. Begins(run[r].blocks, blocks)
  BY <1>7 DEF old
<1> QED BY <1>1, <1>2, <1>6, <1>7, <1>8, <1>9, <1>10, AcceptText

\* the first delta of a text opens one with its text,
LEMMA FirstDeltaText ==
    ASSUME StreamInv, TextInv, ServerInv', NEW r \in Runs, FirstDelta(r)
    PROVE  TextInv'
<1> DEFINE block == NewBlock(r, "text")
           old == run[r].blocks
           n == Len(old)
           unit == run[r].units
           added == Append(old, block)
           blocks == Grown(added, unit)
           a == Created(r, block)
           b == Chunk(r, block.id, 0)
           pending == <<a, b>>
<1>1. Accepting(r) /\ Idle(r) /\ unit < MaxUnits /\ Accept(r, blocks, unit + 1, pending)
  BY DEF FirstDelta, Opening
<1>2. /\ ServerInv /\ run[r].pc # "idle" /\ old \in Blocks /\ Numbered(r, old)
      /\ unit = TextBefore(old, n + 1) /\ unit \in Nat /\ unit + 1 \in 0 .. MaxUnits
  BY <1>1, TextIs, UnitsGrow, AcceptingMirrors
<1>3. n \in Nat /\ (n # 0 => ~old[n].open)
  BY <1>1, TipIs
<1>4. block \in BlockSet /\ block.id = <<r, n + 1>> /\ block.text = <<>> /\ block.open
  BY <1>2, NewBlockIs
<1>5. /\ a \in BlockEvents /\ a.kind = "created" /\ a.block = block
      /\ b \in BlockEvents /\ b.kind = "chunk" /\ b.id = block.id /\ b.at = 0 /\ b.offset = unit
  <2>1. block.id \in Runs \X Nat /\ 0 \in Nat
    BY <1>4 DEF BlockSet
  <2> QED BY <1>1, <1>2, <1>4, <2>1, BlockEventsAre DEF Created, Chunk
<1>6. pending \in Seq(BlockEvents) /\ DOMAIN pending = {1, 2} /\ pending[1] = a /\ pending[2] = b
  BY <1>5, TwoIs
<1> HIDE DEF block, a, b, pending, n, old, unit
<1>7. /\ added \in Blocks /\ Len(added) = n + 1 /\ added[n + 1] = block
      /\ \A i \in 1 .. n : added[i] = old[i]
      /\ Numbered(r, added) /\ Begins(old, added)
      /\ TextBefore(added, n + 2) = TextBefore(old, n + 1)
  BY <1>2, <1>3, <1>4, BlockAdded DEF n
<1> HIDE DEF added
<1>0. PICK k \in Nat : k = n + 1
  BY <1>3
<1>8. /\ blocks \in Blocks /\ Len(blocks) = k
      /\ blocks[k] = Longer(added[k], unit)
      /\ blocks[k].open /\ blocks[k].id = added[k].id
      /\ Len(blocks[k].text) = Len(added[k].text) + 1
      /\ \A i \in 1 .. k : i # k => blocks[i] = added[i]
      /\ Numbered(r, blocks) /\ Begins(added, blocks)
      /\ TextBefore(blocks, k + 1) = unit + 1
  <2>1. k # 0 /\ k + 1 = n + 2 /\ Len(added) = k /\ added[k].open
    BY <1>0, <1>3, <1>4, <1>7
  <2>2. unit = TextBefore(added, k + 1)
    BY <1>2, <1>7, <2>1
  <2> QED BY <1>2, <1>7, <2>1, <2>2, BlockGrows
<1> HIDE DEF blocks
<1>9. unit + 1 = TextBefore(blocks, Len(blocks) + 1)
  BY <1>8
<1>10. ASSUME NEW x, x.blocks = blocks, x.units = unit + 1, x.pending = pending
      PROVE  EntryMirrors(x, stream)
  <2>1. a.block = Bare(blocks[n + 1])
    <3>1. a.block = Bare(blocks[k])
      BY <1>0, <1>4, <1>5, <1>7, <1>8, TextTaken
    <3> QED BY <1>0, <3>1
  <2>2. x.pending # <<>> /\ x.pending[1] = a /\ DOMAIN x.pending = {1, 2} /\ x.pending[2] = b
    BY <1>6, <1>10, EmptyIs
  <2>3. \A i \in 1 .. n : blocks[i] = run[r].blocks[i]
    BY <1>0, <1>3, <1>7, <1>8 DEF old
  <2>4. PendingText(x, 2)
    <3>1. x.blocks # <<>> /\ Len(x.blocks) = n + 1
      BY <1>0, <1>3, <1>8, <1>10, EmptyIs
    <3>2. b.id = x.blocks[n + 1].id /\ b.offset = x.units - 1
      <4>1. x.blocks[n + 1].id = block.id
        BY <1>0, <1>7, <1>8, <1>10
      <4>2. x.units - 1 = unit
        BY <1>2, <1>10
      <4> QED BY <1>5, <4>1, <4>2
    <3>3. b.at + 1 = Len(x.blocks[n + 1].text)
      <4>1. added[k].text = <<>> /\ Len(<<>>) = 0
        BY <1>0, <1>4, <1>7, EmptyIs
      <4>2. Len(blocks[k].text) = 1
        BY <1>8, <4>1
      <4>3. Len(x.blocks[n + 1].text) = 1
        BY <1>0, <1>10, <4>2
      <4> QED BY <1>5, <4>3
    <3>4. b.kind # "created" /\ b.kind # "updated"
      BY <1>5
    <3> QED BY <2>2, <3>1, <3>2, <3>3, <3>4 DEF PendingText
  <2>5. \A c \in DOMAIN x.pending : c = 1 \/ (x.pending[c].kind = "chunk" /\ PendingText(x, c))
    BY <1>5, <2>2, <2>4
  <2>6. n = Len(run[r].blocks)
    BY DEF n, old
  <2>7. Len(blocks) = n + 1 /\ blocks[n + 1].open
    BY <1>0, <1>8
  <2>8. Accepting(r) /\ Idle(r) /\ blocks \in Blocks /\ n \in Nat /\ a.kind = "created"
    BY <1>1, <1>3, <1>5, <1>8
  <2>9. x.pending # <<>> /\ x.pending[1] = a
    BY <2>2
  <2> QED BY <1>10, <2>1, <2>3, <2>5, <2>6, <2>7, <2>8, <2>9, CreatedMirrors
<1>11. Begins(run[r].blocks, blocks)
  BY <1>2, <1>7, <1>8, BeginsTwice DEF old
<1> QED BY <1>1, <1>2, <1>6, <1>8, <1>9, <1>10, <1>11, AcceptText

\* another delta grows it,
LEMMA NextDeltaText ==
    ASSUME StreamInv, TextInv, ServerInv', NEW r \in Runs, NextDelta(r)
    PROVE  TextInv'
<1> DEFINE old == run[r].blocks
           n == Len(old)
           unit == run[r].units
           blocks == Grown(old, unit)
           b == Chunk(r, Tip(r).id, Len(Tip(r).text))
           pending == <<b>>
<1>1. Accepting(r) /\ ~Idle(r) /\ unit < MaxUnits /\ Accept(r, blocks, unit + 1, pending)
  BY DEF NextDelta
<1>2. /\ ServerInv /\ run[r].pc # "idle" /\ old \in Blocks /\ Numbered(r, old)
      /\ unit = TextBefore(old, n + 1) /\ unit \in Nat /\ unit + 1 \in 0 .. MaxUnits
  BY <1>1, TextIs, UnitsGrow, AcceptingMirrors
<1>3. n \in Nat /\ n # 0 /\ old[n].open /\ Tip(r) = old[n] /\ old[n] \in BlockSet
  BY <1>1, TipIs
<1>4. old[n].id \in Runs \X Nat /\ Len(old[n].text) \in Nat
  BY <1>3 DEF BlockSet
<1>5. /\ b \in BlockEvents /\ b.kind = "chunk" /\ b.id = old[n].id /\ b.at = Len(old[n].text) /\ b.offset = unit
  BY <1>1, <1>2, <1>3, <1>4, BlockEventsAre DEF Chunk
<1>6. pending \in Seq(BlockEvents) /\ DOMAIN pending = {1} /\ Len(pending) = 1 /\ pending[1] = b
  BY <1>5, OneIs
<1> HIDE DEF b, pending, n, old, unit
<1>7. /\ blocks \in Blocks /\ Len(blocks) = n /\ blocks[n].open /\ blocks[n].id = old[n].id
      /\ Len(blocks[n].text) = Len(old[n].text) + 1
      /\ \A i \in 1 .. n : i # n => blocks[i] = old[i]
      /\ Numbered(r, blocks) /\ Begins(old, blocks)
      /\ TextBefore(blocks, n + 1) = unit + 1
  BY <1>2, <1>3, BlockGrows DEF n
<1> HIDE DEF blocks
<1>8. unit + 1 = TextBefore(blocks, Len(blocks) + 1)
  BY <1>7
<1>9. ASSUME NEW x, x.blocks = blocks, x.units = unit + 1, x.pending = pending
      PROVE  EntryMirrors(x, stream)
  <2>1. x.pending # <<>> /\ x.pending[1] = b /\ DOMAIN x.pending = {1}
    BY <1>6, <1>9, EmptyIs
  <2>2. PendingText(x, 1)
    <3>1. x.blocks # <<>> /\ Len(x.blocks) = n
      BY <1>3, <1>7, <1>9, EmptyIs
    <3>2. b.id = x.blocks[n].id /\ b.offset = x.units - 1
      <4>1. x.blocks[n].id = old[n].id
        BY <1>7, <1>9
      <4>2. x.units - 1 = unit
        BY <1>2, <1>9
      <4> QED BY <1>5, <4>1, <4>2
    <3>3. b.at + 1 = Len(x.blocks[n].text)
      BY <1>5, <1>7, <1>9
    <3>4. b.kind # "created" /\ b.kind # "updated"
      BY <1>5
    <3> QED BY <2>1, <3>1, <3>2, <3>3, <3>4 DEF PendingText
  <2>3. \A k \in DOMAIN x.pending : PendingText(x, k)
    BY <2>1, <2>2
  <2>4. n = Len(run[r].blocks) /\ (\A i \in 1 .. n : i # n => blocks[i] = run[r].blocks[i])
        /\ run[r].blocks[n].open /\ blocks[n].id = run[r].blocks[n].id
    BY <1>3, <1>7 DEF n, old
  <2>5. x.pending[1].kind # "created"
    BY <1>5, <2>1
  <2>6. Accepting(r) /\ blocks \in Blocks /\ n \in Nat /\ Len(blocks) = n /\ n # 0 /\ blocks[n].open
    BY <1>1, <1>3, <1>7
  <2>7. x.pending # <<>> /\ x.blocks = blocks
    BY <1>9, <2>1
  <2> QED BY <2>3, <2>4, <2>5, <2>6, <2>7, GrownMirrors
<1>10. Begins(run[r].blocks, blocks)
  BY <1>7 DEF old
<1> QED BY <1>1, <1>2, <1>6, <1>7, <1>8, <1>9, <1>10, AcceptText

\* and the end of a text or of a call closes one.
LEMMA EndBlockText ==
    ASSUME StreamInv, TextInv, ServerInv', NEW r \in Runs, EndBlock(r)
    PROVE  TextInv'
<1> DEFINE old == run[r].blocks
           n == Len(old)
           block == [Tip(r) EXCEPT !.open = FALSE]
           blocks == Front(old) \o <<block>>
           a == Updated(r, block)
           pending == <<a>>
<1>1. Accepting(r) /\ ~Idle(r) /\ Accept(r, blocks, run[r].units, pending)
  BY DEF EndBlock
<1>2. /\ ServerInv /\ run[r].pc # "idle" /\ old \in Blocks /\ Numbered(r, old)
      /\ run[r].units = TextBefore(old, n + 1) /\ run[r].units \in 0 .. MaxUnits
  BY <1>1, TextIs, RunIs, AcceptingMirrors
<1>3. n \in Nat /\ n # 0 /\ old[n].open /\ Tip(r) = old[n] /\ old[n] \in BlockSet
  BY <1>1, TipIs
<1>4. block \in BlockSet /\ ~block.open /\ block.id = old[n].id /\ block.text = old[n].text
  BY <1>3 DEF BlockSet
<1> HIDE DEF block
<1>5. a \in BlockEvents /\ a.kind = "updated" /\ a.block = block
  BY <1>2, <1>4, BlockEventsAre DEF Updated
<1>6. pending \in Seq(BlockEvents) /\ DOMAIN pending = {1} /\ Len(pending) = 1 /\ pending[1] = a
  BY <1>5, OneIs
<1> HIDE DEF a, pending, n, old
<1>7. /\ blocks \in Blocks /\ Len(blocks) = n /\ blocks[n] = block
      /\ \A i \in 1 .. n : i # n => blocks[i] = old[i]
      /\ Numbered(r, blocks) /\ Begins(old, blocks)
      /\ TextBefore(blocks, n + 1) = TextBefore(old, n + 1)
  <2>1. Len(old) = n
    BY DEF n
  <2> QED BY <1>2, <1>3, <1>4, <2>1, BlockCloses
<1> HIDE DEF blocks
<1>8. run[r].units = TextBefore(blocks, Len(blocks) + 1)
  BY <1>2, <1>7
<1>9. ASSUME NEW x, x.blocks = blocks, x.units = run[r].units, x.pending = pending
      PROVE  EntryMirrors(x, stream)
  <2>1. x.pending # <<>> /\ x.pending[1] = a /\ DOMAIN x.pending = {1} /\ Len(x.pending) = 1
    BY <1>6, <1>9, EmptyIs
  <2>2. PendingText(x, 1)
    <3>1. x.blocks # <<>> /\ Len(x.blocks) = n /\ x.blocks[n] = block
      BY <1>3, <1>7, <1>9, EmptyIs
    <3>2. a.kind # "created" /\ a.kind # "chunk" /\ a.block = block /\ ~block.open
      BY <1>4, <1>5
    <3> QED BY <2>1, <3>1, <3>2 DEF PendingText
  <2>3. \A k \in DOMAIN x.pending : PendingText(x, k)
    BY <2>1, <2>2
  <2>4. n = Len(run[r].blocks) /\ (\A i \in 1 .. n : i # n => blocks[i] = run[r].blocks[i])
        /\ run[r].blocks[n].open /\ blocks[n].id = run[r].blocks[n].id
    BY <1>3, <1>4, <1>7 DEF n, old
  <2>5. x.pending[1].kind # "created" /\ x.pending[1].kind = "updated"
    BY <1>5, <2>1
  <2>6. Accepting(r) /\ blocks \in Blocks /\ n \in Nat /\ Len(blocks) = n /\ n # 0
    BY <1>1, <1>3, <1>7
  <2>7. x.pending # <<>> /\ x.blocks = blocks
    BY <1>9, <2>1
  <2> QED BY <2>3, <2>4, <2>5, <2>6, <2>7, GrownMirrors
<1>10. Begins(run[r].blocks, blocks)
  BY <1>7 DEF old
<1> QED BY <1>1, <1>2, <1>6, <1>7, <1>8, <1>9, <1>10, AcceptText

\* What the store keeps of an event.
LEMMA KeptHas ==
    ASSUME ServerTypes, NEW e \in BlockEvents
    PROVE  /\ e.kind = "chunk" => /\ Kept(e).blocks = stream.blocks
                                  /\ Len(Kept(e).cached) = Len(stream.cached) + 1
                                  /\ \A k \in DOMAIN Kept(e).cached :
                                       \/ k \in DOMAIN stream.cached /\ Kept(e).cached[k] = stream.cached[k]
                                       \/ k = Len(stream.cached) + 1 /\ Kept(e).cached[k] = e.offset
           /\ e.kind # "chunk" => Kept(e).cached = stream.cached
           /\ e.kind = "created" => /\ Len(Kept(e).blocks) = Len(stream.blocks) + 1
                                    /\ \A i \in 1 .. Len(stream.blocks) : Kept(e).blocks[i] = stream.blocks[i]
                                    /\ Kept(e).blocks[Len(stream.blocks) + 1] = e.block
           /\ e.kind = "updated" => /\ Len(Kept(e).blocks) = Len(stream.blocks)
                                    /\ \A i \in 1 .. Len(stream.blocks) :
                                         Kept(e).blocks[i] = IF i = Len(stream.blocks) THEN e.block
                                                             ELSE stream.blocks[i]
<1>1. stream \in StreamSet /\ stream.blocks \in Seq(BlockSet) /\ stream.cached \in Seq(Nat)
  BY DEF ServerTypes, StreamSet, Blocks
<1>2. CASE e.kind = "chunk"
  <2>1. e.offset \in Nat
    BY <1>2 DEF BlockEvents, CreatedEvents, UpdatedEvents, ChunkEvents
  <2>2. Kept(e).blocks = stream.blocks /\ Kept(e).cached = Append(stream.cached, e.offset)
    BY <1>1, <1>2 DEF Kept, StreamSet
  <2>3. PICK s : s = Append(stream.cached, e.offset)
    OBVIOUS
  <2>4. /\ Len(s) = Len(stream.cached) + 1 /\ DOMAIN s = 1 .. Len(stream.cached) + 1
        /\ DOMAIN stream.cached = 1 .. Len(stream.cached) /\ Len(stream.cached) \in Nat
        /\ (\A k \in DOMAIN stream.cached : s[k] = stream.cached[k]) /\ s[Len(stream.cached) + 1] = e.offset
    BY <1>1, <2>1, <2>3, AppendIs
  <2>5. \A k \in DOMAIN s : \/ k \in DOMAIN stream.cached /\ s[k] = stream.cached[k]
                            \/ k = Len(stream.cached) + 1 /\ s[k] = e.offset
    BY <2>4
  <2>6. Kept(e).cached = s
    BY <2>2, <2>3
  <2> QED BY <1>2, <2>2, <2>4, <2>5, <2>6
<1>3. CASE e.kind = "created"
  <2>1. e.block \in BlockSet
    BY <1>3 DEF BlockEvents, CreatedEvents, UpdatedEvents, ChunkEvents
  <2>2. Kept(e).cached = stream.cached /\ Kept(e).blocks = Append(stream.blocks, e.block)
    BY <1>1, <1>3 DEF Kept, StreamSet
  <2>3. PICK s : s = Append(stream.blocks, e.block)
    OBVIOUS
  <2>4. /\ Len(s) = Len(stream.blocks) + 1 /\ DOMAIN stream.blocks = 1 .. Len(stream.blocks)
        /\ (\A k \in DOMAIN stream.blocks : s[k] = stream.blocks[k]) /\ s[Len(stream.blocks) + 1] = e.block
    BY <1>1, <2>1, <2>3, AppendIs
  <2>5. Kept(e).blocks = s
    BY <2>2, <2>3
  <2> QED BY <1>3, <2>2, <2>4, <2>5
<1>4. CASE e.kind = "updated"
  <2>1. Kept(e).cached = stream.cached /\ Kept(e).blocks = [stream.blocks EXCEPT ![Len(stream.blocks)] = e.block]
    BY <1>1, <1>4 DEF Kept, StreamSet
  <2>2. PICK s : s = [stream.blocks EXCEPT ![Len(stream.blocks)] = e.block]
    OBVIOUS
  <2>3. /\ Len(s) = Len(stream.blocks)
        /\ \A i \in 1 .. Len(stream.blocks) : s[i] = IF i = Len(stream.blocks) THEN e.block ELSE stream.blocks[i]
    BY <1>1, <2>2
  <2>4. Kept(e).blocks = s
    BY <2>1, <2>2
  <2> QED BY <1>4, <2>1, <2>3, <2>4
<1> QED BY <1>2, <1>3, <1>4 DEF BlockEvents, CreatedEvents, UpdatedEvents, ChunkEvents

\* The first pending event of an execution: what it says is so of its last block.
LEMMA FirstPending ==
    ASSUME StreamInv, TextInv, NEW r \in Runs, run[r].pc = "loop", run[r].pending # <<>>
    PROVE  LET x == run[r]
               e == Head(x.pending)
               n == Len(x.blocks)
           IN  /\ e \in BlockEvents /\ e = x.pending[1] /\ 1 \in DOMAIN x.pending
               /\ e.gen = r /\ e.turn = x.turn /\ e.kind \in {"created", "updated", "chunk"}
               /\ n \in Nat \ {0} /\ x.blocks \in Blocks /\ x.units \in Nat
               /\ PendingText(x, 1) /\ EntryMirrors(x, stream) /\ EntryFollows(r, x, stream)
               /\ e.kind \in {"updated", "chunk"} => Tail(x.pending) = <<>>
               /\ Creates(x) <=> e.kind = "created"
               /\ Updates(x) <=> e.kind = "updated"
               /\ e.kind = "chunk" => x.units = Len(stream.cached) + 1
<1> DEFINE x == run[r]
           old == x.pending
           e == Head(old)
           n == Len(x.blocks)
<1>1. /\ ServerInv /\ RunHolds(r, x) /\ RunTextOf(r, x) /\ StreamTextOf(x, stream)
      /\ GeneratingRun(x) => EntryFollows(r, x, stream)
  BY TextIs
<1>2. x.then = "over" /\ x.blocks \in Blocks /\ x.units \in Nat /\ old \in Seq(BlockEvents)
  BY <1>1, RunIs DEF RunHolds
<1>3. GeneratingRun(x)
  BY <1>2 DEF GeneratingRun, Undone, OpenedRun
<1>4. EntryMirrors(x, stream) /\ EntryFollows(r, x, stream)
  BY <1>1, <1>3 DEF StreamTextOf
<1>5. e \in BlockEvents /\ e = old[1] /\ 1 \in DOMAIN old /\ Len(old) \in Nat \ {0} /\ Tail(old) \in Seq(BlockEvents)
  BY <1>2, TailIs
<1>6. e.gen = r /\ e.turn = x.turn
  BY <1>1, <1>5 DEF RunHolds
<1>7. e.kind \in {"created", "updated", "chunk"}
  BY <1>5 DEF BlockEvents, CreatedEvents, UpdatedEvents, ChunkEvents
<1>8. PendingText(x, 1)
  BY <1>4, <1>5 DEF EntryMirrors
<1>9. n \in Nat \ {0}
  <2>1. x.blocks # <<>>
    BY <1>8 DEF PendingText
  <2> QED BY <1>2, <2>1 DEF Blocks
<1>10. e.kind = "updated" => Len(old) = 1
  BY <1>5, <1>8 DEF PendingText
<1>11. e.kind = "chunk" => Len(old) = 1 /\ x.units = Len(stream.cached) + 1
  BY <1>4, <1>5 DEF EntryFollows, ChunkIsNext
<1>12. Len(old) = 1 => Tail(old) = <<>>
  <2>1. Len(Tail(old)) = Len(old) - 1
    <3>1. old # <<>>
      OBVIOUS
    <3> QED BY <1>2, <3>1, TailLength
  <2>2. \A s \in Seq(BlockEvents) : Len(s) = 0 => s = <<>>
    OBVIOUS
  <2>3. Len(old) = 1 => Len(Tail(old)) = 0
    BY <2>1
  <2> QED BY <1>5, <2>2, <2>3
<1>13. (Creates(x) <=> e.kind = "created") /\ (Updates(x) <=> e.kind = "updated")
  BY <1>5 DEF Creates, Updates
<1> HIDE DEF e, n, old, x
<1>14. e.kind \in {"updated", "chunk"} => Tail(old) = <<>>
  BY <1>10, <1>11, <1>12
<1> QED BY <1>2, <1>4, <1>5, <1>6, <1>7, <1>8, <1>9, <1>11, <1>13, <1>14 DEF e, n, old, x

\* The entry has it then, and what follows is pending.
LEMMA YieldMirrors ==
    ASSUME StreamInv, TextInv, NEW r \in Runs, run[r].pc = "loop", run[r].pending # <<>>,
           NEW y, y.blocks = run[r].blocks, y.units = run[r].units, y.pending = Tail(run[r].pending)
    PROVE  EntryMirrors(y, Kept(Head(run[r].pending)))
<1> DEFINE x == run[r]
           old == x.pending
           e == Head(old)
           n == Len(x.blocks)
           l == stream
           k == Kept(e)
<1>1. /\ e \in BlockEvents /\ e = old[1] /\ 1 \in DOMAIN old
      /\ e.gen = r /\ e.turn = x.turn /\ e.kind \in {"created", "updated", "chunk"}
      /\ n \in Nat \ {0} /\ x.blocks \in Blocks /\ x.units \in Nat
      /\ PendingText(x, 1) /\ EntryMirrors(x, l) /\ EntryFollows(r, x, l)
      /\ e.kind \in {"updated", "chunk"} => Tail(old) = <<>>
      /\ Creates(x) <=> e.kind = "created"
      /\ Updates(x) <=> e.kind = "updated"
      /\ e.kind = "chunk" => x.units = Len(l.cached) + 1
  BY FirstPending
<1>2. ServerTypes /\ l \in StreamSet /\ l.blocks \in Blocks /\ old \in Seq(BlockEvents) /\ l.cached \in Seq(Nat)
  BY TextIs, RunTyped
<1>3. /\ e.kind = "chunk" => /\ k.blocks = l.blocks
                             /\ \A i \in DOMAIN k.cached :
                                   \/ i \in DOMAIN l.cached /\ k.cached[i] = l.cached[i]
                                   \/ i = Len(l.cached) + 1 /\ k.cached[i] = e.offset
      /\ e.kind # "chunk" => k.cached = l.cached
      /\ e.kind = "created" => /\ Len(k.blocks) = Len(l.blocks) + 1
                               /\ \A i \in 1 .. Len(l.blocks) : k.blocks[i] = l.blocks[i]
                               /\ k.blocks[Len(l.blocks) + 1] = e.block
      /\ e.kind = "updated" => /\ Len(k.blocks) = Len(l.blocks)
                               /\ \A i \in 1 .. Len(l.blocks) :
                                    k.blocks[i] = IF i = Len(l.blocks) THEN e.block ELSE l.blocks[i]
  BY <1>1, <1>2, KeptHas
<1>4. /\ Len(l.blocks) = IF e.kind = "created" THEN n - 1 ELSE n
      /\ \A i \in DOMAIN l.blocks : EntryBlock(x, l, i)
      /\ \A i \in DOMAIN l.cached : l.cached[i] = i - 1
      /\ \A i \in DOMAIN old : PendingText(x, i)
  BY <1>1 DEF EntryMirrors
<1>5. k \in StreamSet /\ k.blocks \in Blocks
  <2>1. Len(l.cached) + 1 = x.units => Len(l.cached) + 1 <= MaxUnits
    BY TextIs, RunIs, BoundsAssumption
  <2>2. ServerInv
    BY TextIs
  <2> QED BY <1>1, <2>1, <2>2, KeptIs DEF StreamSet
<1>6. DOMAIN l.blocks = 1 .. Len(l.blocks) /\ DOMAIN k.blocks = 1 .. Len(k.blocks)
  BY <1>2, <1>5, BlocksAre
<1>7. /\ DOMAIN Tail(old) = 1 .. Len(old) - 1 /\ Len(old) \in Nat
      /\ \A i \in DOMAIN Tail(old) : i + 1 \in DOMAIN old /\ i + 1 # 1 /\ Tail(old)[i] = old[i + 1]
  BY <1>2, TailIs
<1>8. \A i \in DOMAIN Tail(old) : PendingText(x, i + 1) /\ Tail(old)[i].kind \notin {"created", "updated"}
  BY <1>4, <1>7 DEF PendingText
<1>9. ~Creates(y) /\ ~Updates(y)
  <2>1. ASSUME Tail(old) # <<>> PROVE Tail(old)[1].kind \notin {"created", "updated"}
    <3>1. Tail(old) \in Seq(BlockEvents)
      BY <1>2, TailIs
    <3>2. 1 \in DOMAIN Tail(old)
      BY <2>1, <3>1, TailIs
    <3> QED BY <1>8, <3>2
  <2> QED BY <2>1 DEF Creates, Updates
<1>10. \A i \in DOMAIN y.pending : PendingText(y, i)
  <2>1. ASSUME NEW i \in DOMAIN y.pending PROVE PendingText(y, i)
    <3>1. i \in DOMAIN Tail(old) /\ PendingText(x, i + 1) /\ y.pending[i] = old[i + 1]
          /\ y.pending[i].kind \notin {"created", "updated"}
      BY <1>7, <1>8, <2>1
    <3> QED BY <3>1, Zenon DEF PendingText
  <2> QED BY <2>1
<1>11. n = Len(y.blocks) /\ y.blocks = x.blocks
  OBVIOUS
<1> HIDE DEF e, old, x, l, k, n
<1>12. Len(k.blocks) = n
  BY <1>1, <1>3, <1>4, <1>6
<1>13. ASSUME NEW i \in DOMAIN k.cached PROVE k.cached[i] = i - 1
  <2>1. CASE e.kind = "chunk"
    <3>1. e.offset = x.units - 1
      BY <1>1, <2>1 DEF PendingText, old
    <3>2. Len(l.cached) \in Nat
      BY <1>2
    <3>3. e.offset = Len(l.cached)
      BY <1>1, <2>1, <3>1, <3>2
    <3> QED BY <1>3, <1>4, <1>13, <2>1, <3>2, <3>3
  <2>2. CASE e.kind # "chunk"
    BY <1>3, <1>4, <1>13, <2>2
  <2> QED BY <2>1, <2>2
<1>14. ASSUME NEW i \in DOMAIN k.blocks PROVE EntryBlock(y, k, i)
  <2>0. i \in 1 .. n
    BY <1>6, <1>12
  <2>1. CASE e.kind = "created"
    <3>1. x.blocks[n].open /\ e.block = [x.blocks[n] EXCEPT !.text = <<>>]
      BY <1>1, <2>1 DEF PendingText, n, old
    <3>2. x.blocks[n] \in BlockSet
      BY <1>1, BlocksAre DEF n
    <3>3. e.block.open /\ e.block.text = <<>> /\ e.block.id = x.blocks[n].id
      BY <3>1, <3>2 DEF BlockSet
    <3>4. CASE i = n
      <4>1. k.blocks[i] = e.block
        BY <1>1, <1>3, <1>4, <2>1, <3>4
      <4> QED BY <1>11, <3>1, <3>3, <3>4, <4>1 DEF EntryBlock
    <3>5. CASE i # n
      <4>1. i \in DOMAIN l.blocks /\ k.blocks[i] = l.blocks[i]
        BY <1>1, <1>3, <1>4, <1>6, <2>0, <2>1, <3>5
      <4>2. ~l.blocks[i].open /\ l.blocks[i] = x.blocks[i]
        BY <1>4, <3>5, <4>1 DEF EntryBlock, n
      <4> QED BY <1>11, <4>1, <4>2 DEF EntryBlock
    <3> QED BY <3>4, <3>5
  <2>2. CASE e.kind = "updated"
    <3>1. Len(l.blocks) = n /\ i \in DOMAIN l.blocks
      BY <1>4, <1>6, <2>0, <2>2
    <3>2. ~x.blocks[n].open /\ e.block = x.blocks[n]
      BY <1>1, <2>2 DEF PendingText, n, old
    <3>3. CASE i = n
      <4>1. k.blocks[i] = e.block
        BY <1>3, <2>0, <2>2, <3>1, <3>3
      <4> QED BY <1>11, <3>2, <3>3, <4>1 DEF EntryBlock
    <3>4. CASE i # n
      <4>1. k.blocks[i] = l.blocks[i]
        BY <1>3, <2>0, <2>2, <3>1, <3>4
      <4>2. ~l.blocks[i].open /\ l.blocks[i] = x.blocks[i]
        BY <1>4, <3>1, <3>4 DEF EntryBlock, n
      <4> QED BY <1>11, <4>1, <4>2 DEF EntryBlock
    <3> QED BY <3>3, <3>4
  <2>3. CASE e.kind = "chunk"
    <3>1. k.blocks = l.blocks /\ i \in DOMAIN l.blocks
      BY <1>3, <1>14, <2>3
    <3>2. EntryBlock(x, l, i) /\ ~Updates(x)
      BY <1>1, <1>4, <2>3, <3>1
    <3> QED BY <1>11, <3>1, <3>2 DEF EntryBlock
  <2> QED BY <1>1, <2>1, <2>2, <2>3
<1>15. Len(k.blocks) = IF Creates(y) THEN Len(y.blocks) - 1 ELSE Len(y.blocks)
  BY <1>9, <1>11, <1>12
<1>16. EntryMirrors(y, k)
  BY <1>10, <1>13, <1>14, <1>15 DEF EntryMirrors
<1> QED BY <1>16 DEF k, e, old, x

\* What the emission of the first pending event says.
LEMMA YieldSaid ==
    ASSUME StreamInv, TextInv, NEW r \in Runs, run[r].pc = "loop", run[r].pending # <<>>,
           NEW y, y.blocks = run[r].blocks, y.turn = run[r].turn
    PROVE  LET e == Head(run[r].pending) IN
           /\ BlockSaid(e, y) /\ At(e) = Len(run[r].blocks) /\ e.gen = r
<1> DEFINE x == run[r]
           e == Head(x.pending)
           n == Len(x.blocks)
           tip == x.blocks[n]
<1>1. /\ e \in BlockEvents /\ e = x.pending[1]
      /\ e.gen = r /\ e.turn = x.turn /\ e.kind \in {"created", "updated", "chunk"}
      /\ n \in Nat \ {0} /\ x.blocks \in Blocks /\ x.units \in Nat /\ PendingText(x, 1)
      /\ EntryFollows(r, x, stream)
  BY FirstPending
<1>2. Numbered(r, x.blocks) /\ (GeneratingRun(x) => x.units = TextBefore(x.blocks, n + 1)) /\ RunHolds(r, x)
  BY TextIs DEF RunTextOf
<1>3. GeneratingRun(x)
  BY <1>2 DEF GeneratingRun, Undone, OpenedRun, RunHolds
<1>4. DOMAIN x.blocks = 1 .. n /\ n \in DOMAIN x.blocks /\ tip \in BlockSet /\ tip.text \in Seq(Nat)
  BY <1>1, BlocksAre
<1>5. tip.id = <<r, n>>
  BY <1>2, <1>4 DEF Numbered
<1>6. e.kind = "created" => tip.open /\ e.block = [tip EXCEPT !.text = <<>>]
  BY <1>1 DEF PendingText
<1>7. e.kind = "created" => e.block.open /\ e.block.text = <<>> /\ e.block.id = tip.id
  BY <1>4, <1>6 DEF BlockSet
<1>8. e.kind = "updated" => ~tip.open /\ e.block = tip
  BY <1>1 DEF PendingText
<1>9. e.kind = "chunk" => e.id = tip.id /\ e.offset = x.units - 1 /\ e.at + 1 = Len(tip.text)
  BY <1>1 DEF PendingText
<1>10. IdOf(e) = <<r, n>>
  BY <1>1, <1>5, <1>7, <1>8, <1>9 DEF IdOf
<1>11. At(e) = n
  BY <1>10 DEF At
<1>12. e.kind = "chunk" => e.at + 1 \in DOMAIN tip.text /\ tip.text[e.at + 1] = e.offset
  <2>1. SUFFICES ASSUME e.kind = "chunk" PROVE e.at + 1 \in DOMAIN tip.text /\ tip.text[e.at + 1] = e.offset
    OBVIOUS
  <2>2. e.at \in Nat
    BY <1>1, <2>1 DEF BlockEvents, CreatedEvents, UpdatedEvents, ChunkEvents
  <2>3. Len(tip.text) \in DOMAIN tip.text
    BY <1>4, <1>9, <2>1, <2>2
  <2>4. tip.text[Len(tip.text)] = TextBefore(x.blocks, n) + Len(tip.text) - 1
    BY <1>2, <1>4, <2>3 DEF Numbered
  <2>5. x.units = TextBefore(x.blocks, n) + Len(tip.text)
    BY <1>1, <1>2, <1>3, <1>4, TextBeforeHas
  <2>6. tip.text[Len(tip.text)] = x.units - 1
    <3>1. TextBefore(x.blocks, n) \in Nat /\ Len(tip.text) \in Nat
      BY <1>1, <1>4, TextBeforeHas
    <3>2. PICK b \in Nat : b = TextBefore(x.blocks, n)
      BY <3>1
    <3>3. PICK c \in Nat : c = Len(tip.text)
      BY <3>1
    <3>4. x.units = b + c /\ tip.text[Len(tip.text)] = b + c - 1
      BY <2>4, <2>5, <3>2, <3>3, Zenon
    <3> QED BY <3>4
  <2>7. e.at + 1 = Len(tip.text) /\ e.offset = x.units - 1
    BY <1>9, <2>1
  <2> QED BY <2>3, <2>6, <2>7, Zenon
<1>13. y.blocks = x.blocks /\ y.turn = x.turn
  OBVIOUS
<1> HIDE DEF e, x, n, tip
<1>14. BlockSaid(e, y)
  <2>1. y.blocks[At(e)] = tip /\ At(e) \in DOMAIN y.blocks
    BY <1>4, <1>11, <1>13 DEF tip
  <2> QED BY <1>1, <1>7, <1>8, <1>10, <1>11, <1>12, <1>13, <2>1 DEF BlockSaid
<1> QED BY <1>1, <1>11, <1>14 DEF e, x, n

\* The event is stored, to be emitted next.
LEMMA YieldText ==
    ASSUME StreamInv, TextInv, ServerInv', NEW r \in Runs, Yield(r)
    PROVE  TextInv'
<1> DEFINE old == run[r].pending
           e == Head(old)
           n == Len(run[r].blocks)
           x == [run[r] EXCEPT !.event = e, !.pc = "emit", !.pending = Tail(old)]
<1>1. /\ run[r].pc = "loop" /\ old # <<>> /\ stream.gen = r
      /\ stream' = Kept(e) /\ durable' = durable /\ UNCHANGED <<room, ask, wire, page>>
  BY DEF Yield
<1>2. /\ ServerInv /\ ServerTypes /\ ServerTypes' /\ PageText /\ RunHolds(r, run[r]) /\ run[r] \in RunSet
      /\ run \in [Runs -> RunSet] /\ old \in Seq(BlockEvents) /\ RunTextOf(r, run[r])
  BY TextIs, ServerNextIs, RunIs
<1>3. run[r].then = "over" /\ run[r].event = NoEvent
  BY <1>1, <1>2 DEF RunHolds
<1>4. /\ e \in BlockEvents /\ e = old[1] /\ 1 \in DOMAIN old
      /\ e.gen = r /\ e.turn = run[r].turn /\ e.kind \in {"created", "updated", "chunk"}
      /\ n \in Nat \ {0} /\ EntryMirrors(run[r], stream)
      /\ Creates(run[r]) <=> e.kind = "created"
      /\ e.kind = "chunk" => run[r].units = Len(stream.cached) + 1
  BY <1>1, FirstPending
<1>5. Tail(old) \in Seq(BlockEvents) /\ e \in RunEvents
  BY <1>1, <1>2, <1>4, TailIs DEF RunEvents, BlockEvents
<1>6. run' = [run EXCEPT ![r] = x]
  BY <1>2 DEF Yield
<1> HIDE DEF old, e
<1>7. /\ x \in RunSet /\ x.pc = "emit" /\ x.turn = run[r].turn /\ x.units = run[r].units /\ x.blocks = run[r].blocks
      /\ x.pending = Tail(old) /\ x.event = e /\ x.then = "over"
  BY <1>2, <1>3, <1>5 DEF RunSet, Stages
<1> HIDE DEF x, n
<1>8. Moves(r) /\ run'[r] = x
  BY <1>2, <1>6, <1>7, RunReplaced
<1>9. Telling(x) /\ Telling(run[r]) /\ Undone(run[r]) /\ GeneratingRun(x) /\ GeneratingRun(run[r])
  BY <1>1, <1>3, <1>4, <1>7 DEF Telling, BlockEvent, Undone, GeneratingRun, OpenedRun
<1>10. RunTextOf(r, x)
  <2>1. Numbered(r, x.blocks) /\ x.units = TextBefore(x.blocks, Len(x.blocks) + 1)
    BY <1>2, <1>7, <1>9, Zenon DEF RunTextOf
  <2> QED BY <1>9, <2>1 DEF RunTextOf
<1>11. EntryMirrors(x, stream')
  BY <1>1, <1>7, YieldMirrors DEF old, e
<1>12. /\ stream'.gen = r /\ Len(stream.blocks) = (IF e.kind = "created" THEN n - 1 ELSE n)
       /\ Len(stream'.blocks) = n
  <2>1. Kept(e).gen = stream.gen
    <3>1. run[r].units <= MaxUnits
      BY <1>2, RunIs, BoundsAssumption
    <3>2. e.kind = "chunk" => Len(stream.cached) + 1 <= MaxUnits
      BY <1>4, <3>1
    <3> QED BY <1>2, <1>4, <3>2, KeptIs
  <2>2. Len(stream.blocks) = (IF e.kind = "created" THEN n - 1 ELSE n)
    BY <1>4 DEF EntryMirrors, n
  <2>3. Len(Kept(e).blocks) = n
    BY <1>2, <1>4, <2>2, KeptHas
  <2> QED BY <1>1, <2>1, <2>2, <2>3
<1>13. BlockSaid(e, x) /\ At(e) = n
  BY <1>1, <1>7, YieldSaid DEF old, e, n
<1>14. RunEventTextOf(run'[r], run', stream')
  <2>1. run'[e.gen] = x
    BY <1>4, <1>8
  <2>2. SaidOf(e, run', stream')
    BY <1>4, <1>12, <1>13, <2>1 DEF SaidOf
  <2> QED BY <1>7, <1>8, <1>12, <1>13, <2>2 DEF RunEventTextOf
<1>15. EntryMoves(r)
  BY <1>1, <1>4, <1>8, <1>9, <1>12 DEF EntryMoves
<1>16. /\ TextGrows /\ ServerText'
       /\ \A q \in Runs : q # r => Promised'[q] = Promised[q]
  <2>1. run[r].pc # "idle" /\ run'[r].pc # "idle" /\ run'[r].turn = run[r].turn
    BY <1>1, <1>7, <1>8
  <2>2. \A q \in Turns : durable'[q].status = "none" <=> durable[q].status = "none"
    BY <1>1
  <2>3. Begins(run[r].blocks, run'[r].blocks) /\ RunTextOf(r, run'[r])
    BY <1>2, <1>7, <1>8, <1>10, RunTyped, BeginsSame
  <2>4. StreamTextOf(run'[r], stream')
    BY <1>8, <1>11 DEF StreamTextOf
  <2> QED BY <1>8, <1>14, <1>15, <2>1, <2>2, <2>3, <2>4, TextMoves
<1>17. Promised'[r] = Promised[r]
  <2>1. Promised[r] = PromisedOf(run[r], stream) /\ Promised'[r] = PromisedOf(x, stream')
    BY <1>8, TextOfIs
  <2>2. PromisedOf(run[r], stream) = Len(stream.blocks)
    BY <1>3, <1>9 DEF PromisedOf, NoEvent
  <2>3. PromisedOf(x, stream') = IF e.kind = "created" THEN Len(stream'.blocks) - 1 ELSE Len(stream'.blocks)
    BY <1>7, <1>9, Zenon DEF PromisedOf
  <2> QED BY <1>12, <2>1, <2>2, <2>3
<1>18. \A q \in Runs : Promised'[q] <= Promised[q]
  <2>1. \A q \in Runs : Promised[q] \in Nat
    BY PromisedSome
  <2> QED BY <1>16, <1>17, <2>1
<1>19. PageText'
  BY <1>1, <1>2, <1>16, <1>18, PageTextStays
<1> QED BY <1>16, <1>19 DEF TextInv

\* A generation opens: its entry is empty, as it is.
LEMMA OpenedText ==
    ASSUME StreamInv, TextInv, ServerInv', NEW r \in Runs, Open(r)
    PROVE  TextInv'
<1> DEFINE l == [NoStream EXCEPT !.turn = run[r].turn, !.gen = r]
<1>1. /\ run[r].pc = "open" /\ stream' = l /\ durable' = durable
      /\ UNCHANGED <<room, ask, wire, page>> /\ Goto(r, "begin")
  BY DEF Open
<1>2. l.gen = r /\ l.blocks = <<>> /\ l.cached = <<>>
  BY DEF NoStream
<1> HIDE DEF l
<1>3. /\ ServerInv /\ ServerTypes /\ ServerTypes' /\ PageText /\ RunHolds(r, run[r])
      /\ RunTextOf(r, run[r]) /\ run[r].blocks \in Blocks
  BY TextIs, ServerNextIs, RunIs
<1>4. /\ Moves(r)
      /\ run'[r].pc = "begin" /\ run'[r].turn = run[r].turn /\ run'[r].blocks = run[r].blocks
      /\ run'[r].units = run[r].units /\ run'[r].pending = run[r].pending
      /\ run'[r].event = run[r].event /\ run'[r].then = run[r].then
  BY <1>1, <1>3, GotoIs DEF Stages
<1>5. run[r].then = "over" /\ run[r].event = NoEvent /\ run[r].pending = <<>> /\ run[r].units = 0
  BY <1>1, <1>3 DEF RunHolds, OpenedRun
<1>6. Undone(run[r]) /\ ~Telling(run[r]) /\ Undone(run'[r]) /\ ~Telling(run'[r]) /\ GeneratingRun(run'[r])
  BY <1>1, <1>4, <1>5 DEF Undone, Telling, GeneratingRun, OpenedRun
<1>7. run[r].blocks = <<>>
  BY <1>3, <1>6 DEF RunTextOf
<1>8. RunTextOf(r, run'[r])
  <2>1. TextBefore(<<>>, 1) = 0
    <3>1. <<>> \in Blocks
      BY <1>3, <1>7
    <3> QED BY <3>1, TextBeforeHas
  <2>2. Numbered(r, <<>>) /\ Len(<<>>) + 1 = 1
    BY EmptyIs DEF Numbered
  <2>3. run'[r].blocks = <<>> /\ run'[r].units = 0
    BY <1>4, <1>5, <1>7
  <2> QED BY <2>1, <2>2, <2>3 DEF RunTextOf
<1>9. EntryMirrors(run'[r], l)
  <2>1. run'[r].blocks = <<>> /\ run'[r].pending = <<>>
    BY <1>4, <1>5, <1>7
  <2> QED BY <1>2, <2>1, EmptyIs DEF EntryMirrors, Creates
<1>10. StreamTextOf(run'[r], stream')
  BY <1>1, <1>9 DEF StreamTextOf
<1>11. RunEventTextOf(run'[r], run', stream')
  <2>1. ~BlockEvent(run'[r].event) /\ run'[r].event.kind # "created"
    BY <1>4, <1>5, NoBlockEvent DEF NoEvent
  <2> QED BY <2>1, Zenon DEF RunEventTextOf, SaidOf
<1>12. EntryMoves(r)
  BY <1>1, <1>2, <1>6, <1>7 DEF EntryMoves
<1>13. /\ TextGrows /\ ServerText'
       /\ \A q \in Runs : q # r => Promised'[q] = Promised[q]
  <2>1. run[r].pc # "idle" /\ run'[r].pc # "idle" /\ run'[r].turn = run[r].turn
    BY <1>1, <1>4
  <2>2. \A q \in Turns : durable'[q].status = "none" <=> durable[q].status = "none"
    BY <1>1
  <2>3. Begins(run[r].blocks, run'[r].blocks)
    BY <1>3, <1>4, BeginsSame
  <2> QED BY <1>4, <1>8, <1>10, <1>11, <1>12, <2>1, <2>2, <2>3, TextMoves
<1>14. \A q \in Runs : Promised'[q] <= Promised[q]
  <2>1. \A q \in Runs : Promised[q] \in Nat
    BY PromisedSome
  <2>2. Promised'[r] = 0
    BY <1>6, TextOfIs DEF PromisedOf
  <2> QED BY <1>13, <2>1, <2>2
<1>15. PageText'
  BY <1>1, <1>3, <1>13, <1>14, PageTextStays
<1> QED BY <1>13, <1>15 DEF TextInv

-----------------------------------------------------------------------------
(* Requests, and the death of the process *)

\* The entry that stays, or goes, has text of its run.
LEMMA EntryStays ==
    ASSUME ServerTypes, ServerTypes', TextGrows, EntryText(stream), stream' = stream \/ stream' = NoStream
    PROVE  EntryText(stream)'
<1>1. CASE stream' = stream
  <2>1. PICK l : l = stream
    OBVIOUS
  <2>2. l \in StreamSet /\ EntryText(l)
    BY <2>1 DEF ServerTypes
  <2>3. EntryText(l)'
    BY <2>2, EntryTextStill
  <2>4. EntryTextOf(stream', run')
    BY <1>1, <2>1, <2>3, EventTextIs
  <2> QED BY <2>4, EventTextIs
<1>2. CASE stream' = NoStream
  <2>1. stream'.gen = 0
    BY <1>2 DEF NoStream
  <2>2. EntryTextOf(stream', run')
    BY <2>1 DEF EntryTextOf
  <2> QED BY <2>2, EventTextIs
<1> QED BY <1>1, <1>2

\* The next execution is prepared.
LEMMA PrepareText ==
    ASSUME StreamInv, TextInv, ServerInv', NEW r \in Runs, NEW n \in Turns, NextRun(r),
           durable[n].status = "FAILED" \/ NextTurn(n), Prepare(r, n)
    PROVE  TextInv'
<1> DEFINE row == [Blank EXCEPT !.status = "PENDING"]
           x == [NoRun EXCEPT !.pc = "brief", !.then = "open", !.turn = n]
<1>1. /\ stream' = stream /\ durable' = [durable EXCEPT ![n] = row]
      /\ run' = [run EXCEPT ![r] = x]
      /\ UNCHANGED <<room, ask, wire, page>>
  BY DEF Prepare
<1>2. /\ ServerInv /\ ServerTypes /\ ServerTypes' /\ PageText /\ TurnsInOrder /\ EntryText(stream)
      /\ \A q \in Runs : RunTextOf(q, run[q]) /\ StreamTextOf(run[q], stream) /\ RunEventText(q)
      /\ RunHolds(r, run[r]) /\ run[r].pc = "idle"
  BY TextIs, ServerNextIs DEF NextRun
<1>3. run[r] = NoRun /\ run[r].blocks = <<>> /\ ~Telling(run[r])
  BY <1>2 DEF RunHolds, NoRun, NoEvent, Telling
<1>4. row \in RowSet /\ row.status = "PENDING"
  BY ZeroIsThere, StatusesAre DEF Blank, RowSet
<1>5. /\ x \in RunSet /\ x.pc = "brief" /\ x.then = "open" /\ x.turn = n /\ x.units = 0
      /\ x.pending = <<>> /\ x.event = NoEvent /\ x.blocks = <<>>
  BY EmptyIs, ZeroIsThere, StatusesAre DEF NoRun, RunSet, Stages
<1> HIDE DEF row, x
<1>6. Moves(r) /\ run'[r] = x /\ \A q \in Runs : q # r => run'[q] = run[q]
  BY <1>1, <1>2, <1>5, RunReplaced DEF Moves
<1>7. ~Telling(x) /\ ~GeneratingRun(x)
  BY <1>5 DEF Telling, GeneratingRun, OpenedRun
<1>8. TextGrows
  <2>1. \A q \in Runs : Begins(run[q].blocks, run'[q].blocks)
    BY <1>2, <1>3, <1>5, <1>6, RunTyped, BeginsSame
  <2>2. Len(stream.blocks) \in Nat
    BY <1>2, RunTyped, BlocksAre
  <2>3. \A q \in Runs : run[q].blocks # <<>> => run'[q].turn = run[q].turn
    BY <1>3, <1>6
  <2> QED BY <1>1, <2>1, <2>2, <2>3 DEF TextGrows
<1>9. ASSUME NEW q \in Runs
      PROVE  (RunText(q) /\ StreamText(q))'
  <2>1. CASE q = r
    <3>1. RunTextOf(q, run'[q])
      BY <1>5, <1>6, <1>7, <2>1, EmptyIs DEF RunTextOf, Numbered
    <3>2. StreamTextOf(run'[q], stream')
      BY <1>6, <1>7, <2>1 DEF StreamTextOf
    <3> QED BY <3>1, <3>2, TextOfIs
  <2>2. CASE q # r
    <3>1. RunTextOf(q, run'[q]) /\ StreamTextOf(run'[q], stream')
      BY <1>1, <1>2, <1>6, <2>2
    <3> QED BY <3>1, TextOfIs
  <2> QED BY <2>1, <2>2
<1>10. ASSUME NEW q \in Runs
       PROVE  RunEventText(q)'
  <2> DEFINE f == run'
             l == stream'
  <2> HIDE DEF f, l
  <2>1. PICK e : e = run'[q].event
    OBVIOUS
  <2>2. CASE e = NoEvent
    <3>1. RunEventTextOf(run'[q], f, l)
      <4>1. ~BlockEvent(e) /\ e.kind # "created"
        BY <2>2 DEF BlockEvent, NoEvent
      <4> QED BY <2>1, <4>1, Zenon DEF RunEventTextOf, SaidOf
    <3> QED BY <3>1, EventTextIs DEF f, l
  <2>3. CASE e # NoEvent
    <3>1. q # r /\ run'[q] = run[q]
      BY <1>5, <1>6, <2>1, <2>3
    <3>2. Said(e) /\ (e.kind = "created" => At(e) = Len(stream.blocks))
      BY <1>2, <2>1, <3>1, Zenon DEF RunEventText
    <3>3. e \in Messages
      BY <1>2, <2>1, <2>3, <3>1, RunTyped DEF Messages, PageEvents
    <3>4. Said(e)'
      BY <1>2, <1>8, <3>2, <3>3, SaidStill
    <3>5. SaidOf(e, f, l)
      BY <3>4, EventTextIs DEF f, l
    <3>6. l = stream
      BY <1>1 DEF l
    <3>7. RunEventTextOf(run'[q], f, l)
      BY <2>1, <3>2, <3>5, <3>6, Zenon DEF RunEventTextOf
    <3> QED BY <3>7, EventTextIs DEF f, l
  <2> QED BY <2>2, <2>3
<1>11. EntryText(stream)'
  BY <1>1, <1>2, <1>8, EntryStays
<1>12. TurnsInOrder'
  <2>1. durable'[n].status # "none" /\ \A k \in Turns : k # n => durable'[k] = durable[k]
    BY <1>1, <1>2, <1>4 DEF ServerTypes
  <2>2. \A q \in Runs : run'[q].pc # "idle" => durable'[run'[q].turn].status # "none"
    <3>1. ASSUME NEW q \in Runs, run'[q].pc # "idle"
          PROVE  durable'[run'[q].turn].status # "none"
      <4>1. CASE q = r
        BY <1>5, <1>6, <2>1, <4>1
      <4>2. CASE q # r
        <5>1. run'[q] = run[q] /\ run[q].pc # "idle"
          BY <1>6, <3>1, <4>2
        <5>2. run[q].turn \in Turns /\ durable[run[q].turn].status # "none"
          BY <1>2, <5>1, RunIs DEF TurnsInOrder, Exists
        <5> QED BY <2>1, <5>1, <5>2
      <4> QED BY <4>1, <4>2
    <3> QED BY <3>1
  <2>3. ASSUME NEW i \in Turns, NEW k \in Turns, i < k, durable'[k].status # "none"
        PROVE  durable'[i].status # "none"
    <3>1. CASE i = n
      BY <2>1, <3>1
    <3>2. CASE i # n /\ k # n
      BY <1>2, <2>1, <2>3, <3>2 DEF TurnsInOrder, Exists
    <3>3. CASE k = n
      <4>1. i # n
        BY <2>3, <3>3 DEF Turns
      <4>2. CASE durable[n].status = "FAILED"
        BY <1>2, <2>1, <2>3, <3>3, <4>1, <4>2 DEF TurnsInOrder, Exists
      <4>3. CASE NextTurn(n)
        BY <2>1, <2>3, <3>3, <4>1, <4>3 DEF NextTurn, Exists
      <4> QED BY <4>2, <4>3
    <3> QED BY <3>1, <3>2, <3>3
  <2> QED BY <2>2, <2>3, Zenon DEF TurnsInOrder, Exists
<1>13. ServerText'
  BY <1>9, <1>10, <1>11, <1>12 DEF ServerText
<1>14. \A q \in Runs : Promised'[q] <= Promised[q]
  <2>1. \A q \in Runs : Promised[q] \in Nat
    BY PromisedSome
  <2>2. ASSUME NEW q \in Runs
        PROVE  Promised'[q] = Promised[q]
    <3>1. CASE q # r
      BY <1>1, <1>6, <3>1, TextOfIs
    <3>2. CASE q = r
      <4>1. PromisedOf(run'[q], stream') = 0 /\ PromisedOf(run[q], stream) = 0
        BY <1>3, <1>6, <1>7, <3>2 DEF PromisedOf
      <4> QED BY <4>1, TextOfIs
    <3> QED BY <3>1, <3>2
  <2> QED BY <2>1, <2>2
<1>15. PageText'
  BY <1>1, <1>2, <1>8, <1>14, PageTextStays
<1> QED BY <1>13, <1>15 DEF TextInv

\* chat:send and chat:retry,
LEMMA SendText ==
    ASSUME StreamInv, TextInv, ServerInv', Send
    PROVE  TextInv'
<1>1. PICK r \in Runs, n \in Turns : NextRun(r) /\ NextTurn(n) /\ Prepare(r, n)
  BY DEF Send
<1> QED BY <1>1, PrepareText

\* which runs again what failed.
LEMMA RetryText ==
    ASSUME StreamInv, TextInv, ServerInv', Retry
    PROVE  TextInv'
<1>1. PICK r \in Runs, n \in Turns : NextRun(r) /\ durable[n].status = "FAILED" /\ Prepare(r, n)
  BY DEF Retry
<1> QED BY <1>1, PrepareText

\* The connection breaks: nothing is on its way to the page, which shows what it
\* showed.
LEMMA CutText ==
    ASSUME StreamInv, TextInv, ServerTypes', TextGrows,
           hook' = Cut(hook), room' = FALSE, ask' = NoAsk, wire' = <<>>, view' = view
    PROVE  PageText'
<1>1. /\ ServerTypes /\ PageText /\ view \in ViewSet /\ hook \in HookSet
  BY TextIs, PageIs
<1>2. PICK h : h = Cut(hook)
  OBVIOUS
<1>3. ~h.up /\ h.hydrated = hook.hydrated /\ h.queue = <<>> /\ h.replace = hook.replace
  BY <1>1, <1>2 DEF Cut, HookSet
<1>4. PICK a : a = NoAsk
  OBVIOUS
<1>5. a \in AskSet /\ a.pc = "none" /\ a.live = NoStream
  BY <1>4, NoAskTyped DEF NoAsk
<1>6. Shows(view) /\ Reaches(wire, view, ask, hook)
  BY <1>1 DEF PageText, Tells
<1>7. PICK w : w = <<>>
  OBVIOUS
<1>8. \A i : ~(i \in DOMAIN w)
  BY <1>7, EmptyIs
<1>9. Tells(w, w, view, a)
  <2>1. EntryText(a.live)
    BY <1>5 DEF EntryText, NoStream
  <2> QED BY <1>6, <1>8, <2>1, Zenon DEF Tells
<1>10. Reaches(w, view, a, h)
  <2>1. KnownDown(view) /\ (~hook.hydrated => \A n \in Turns : ~view.msgs[n].known)
    BY <1>6, Zenon DEF Reaches
  <2>2. ~(a.pc \in {"asked", "entered"}) /\ ~(a.pc \in {"read", "snapped"})
    BY <1>5
  <2>3. ~h.hydrated => \A n \in Turns : ~view.msgs[n].known
    BY <1>3, <2>1
  <2> QED BY <1>8, <2>1, <2>2, <2>3, Zenon DEF Reaches
<1>11. PICK in : in = room'
  OBVIOUS
<1>12. Listens(w, w, view, a, h, in, Promised')
  <2>1. PICK p : p = Promised'
    OBVIOUS
  <2>2. a.pc \in {"none", "asked"} /\ ~(h.ready /\ h.up) /\ ~in
    BY <1>3, <1>5, <1>11
  <2>3. Listens(<<>>, <<>>, view, a, h, in, p)
    BY <2>2, ListensNew
  <2> QED BY <1>7, <2>1, <2>3
<1>13. /\ w \in Seq(Messages) /\ w \in Seq(PageEvents) /\ w = wire' /\ w = hook'.queue /\ view = view' /\ a = ask'
       /\ h = hook'
  BY <1>2, <1>3, <1>4, <1>7, EmptyIs
<1>14. Tells(w, w, view, a) /\ Reaches(w, view, a, hook') /\ Listens(w, w, view, a, hook', room', Promised')
  BY <1>9, <1>10, <1>11, <1>12, <1>13
<1> QED BY <1>1, <1>5, <1>13, <1>14, TextFollows

\* The process dies: what was produced of text stays so.
LEMMA CrashText ==
    ASSUME StreamInv, TextInv, ServerInv', Crash
    PROVE  TextInv'
<1>1. /\ durable' = [n \in Turns |-> IF durable[n].status \in Active
                                     THEN [Blank EXCEPT !.status = "FAILED"] ELSE durable[n]]
      /\ run' = [r \in Runs |-> IF run[r].pc = "idle" THEN NoRun
                                ELSE [NoRun EXCEPT !.pc = "over", !.turn = run[r].turn,
                                                   !.blocks = run[r].blocks]]
      /\ stream' = (IF StoreSurvives THEN stream ELSE NoStream)
      /\ hook' = Cut(hook) /\ room' = FALSE /\ ask' = NoAsk /\ wire' = <<>>
      /\ view' = view /\ shown' = shown
  BY DEF Crash
<1>2. /\ ServerInv /\ ServerTypes /\ ServerTypes' /\ PageText /\ TurnsInOrder /\ EntryText(stream)
      /\ \A q \in Runs : RunTextOf(q, run[q])
      /\ \A r \in Runs : RunHolds(r, run[r])
  BY TextIs, ServerNextIs
<1>3. /\ NoRun.pc = "idle" /\ NoRun.then = "over" /\ NoRun.event = NoEvent /\ NoRun.turn = 0
      /\ NoRun.pending = <<>> /\ NoRun.units = 0 /\ NoRun.blocks = <<>>
  BY DEF NoRun
<1>4. ASSUME NEW r \in Runs
      PROVE  /\ run'[r].then = "over" /\ run'[r].event = NoEvent
             /\ run'[r].turn = run[r].turn /\ run'[r].blocks = run[r].blocks
             /\ run'[r].pc \in {"idle", "over"} /\ (run'[r].pc = "idle" <=> run[r].pc = "idle")
  <2>1. CASE run[r].pc = "idle"
    BY <1>1, <1>2, <1>3, <2>1 DEF RunHolds
  <2>2. CASE run[r].pc # "idle"
    <3> DEFINE x == [NoRun EXCEPT !.pc = "over", !.turn = run[r].turn, !.blocks = run[r].blocks]
    <3>1. /\ x.pc = "over" /\ x.then = "over" /\ x.event = NoEvent
          /\ x.turn = run[r].turn /\ x.blocks = run[r].blocks
      BY DEF NoRun
    <3>2. run'[r] = x
      BY <1>1, <2>2
    <3> HIDE DEF x
    <3> QED BY <2>2, <3>1, <3>2
  <2> QED BY <2>1, <2>2
<1>5. \A r \in Runs : ~Undone(run'[r]) /\ ~Telling(run'[r]) /\ ~GeneratingRun(run'[r])
  BY <1>4 DEF Undone, Telling, GeneratingRun
<1>6. stream' = stream \/ stream' = NoStream
  BY <1>1
<1>7. TextGrows
  <2>1. \A q \in Runs : Begins(run[q].blocks, run'[q].blocks)
    BY <1>2, <1>4, RunTyped, BeginsSame
  <2>2. Len(stream.blocks) \in Nat
    <3>1. \E r : r \in Runs
      BY BoundsAssumption DEF Runs
    <3> QED BY <1>2, <3>1, RunTyped, BlocksAre
  <2>3. \A q \in Runs : run[q].blocks # <<>> => run'[q].turn = run[q].turn
    BY <1>4
  <2>4. \A g \in Runs : stream'.gen = g => stream' = stream
    BY <1>6 DEF NoStream, Runs
  <2> QED BY <2>1, <2>2, <2>3, <2>4 DEF TextGrows
<1>8. ASSUME NEW q \in Runs
      PROVE  (RunText(q) /\ StreamText(q) /\ RunEventText(q))'
  <2>1. RunTextOf(q, run'[q]) /\ StreamTextOf(run'[q], stream')
    BY <1>2, <1>4, <1>5 DEF RunTextOf, StreamTextOf
  <2>2. RunEventTextOf(run'[q], run', stream')
    <3>1. ~BlockEvent(run'[q].event) /\ run'[q].event.kind # "created"
      BY <1>4, NoBlockEvent DEF NoEvent
    <3> QED BY <3>1, Zenon DEF RunEventTextOf, SaidOf
  <2> QED BY <2>1, <2>2, TextOfIs, EventTextIs
<1>9. EntryText(stream)'
  BY <1>2, <1>6, <1>7, EntryStays
<1>10. TurnsInOrder'
  <2>1. \A n \in Turns : durable'[n].status = "none" <=> durable[n].status = "none"
    <3>1. [Blank EXCEPT !.status = "FAILED"].status = "FAILED"
      BY DEF Blank
    <3> QED BY <1>1, <3>1 DEF Active
  <2>2. \A n, k \in Turns : n < k /\ durable'[k].status # "none" => durable'[n].status # "none"
    BY <1>2, <2>1 DEF TurnsInOrder, Exists
  <2>3. \A q \in Runs : run'[q].pc # "idle" => durable'[run'[q].turn].status # "none"
    BY <1>2, <1>4, <2>1, RunIs DEF TurnsInOrder, Exists
  <2> QED BY <2>2, <2>3, Zenon DEF TurnsInOrder, Exists
<1>11. ServerText'
  BY <1>8, <1>9, <1>10 DEF ServerText
<1>12. PageText'
  BY <1>1, <1>2, <1>7, CutText
<1> QED BY <1>11, <1>12 DEF TextInv

-----------------------------------------------------------------------------
(* What the reducer does to the text of a message *)

\* One message is replaced, and knows whether it is known.
Replaces(v, n, x, w) ==
    /\ \A k \in Turns : w.msgs[k] = IF k = n THEN x ELSE v.msgs[k]
    /\ x.known = v.msgs[n].known

\* chat:start leaves a message without blocks, or the messages as they are.
LEMMA StartedMakes ==
    ASSUME NEW v \in ViewSet, NEW m \in StartEvents
    PROVE  \/ Started(v, m).msgs = v.msgs
           \/ \E x : Replaces(v, m.turn, x, Started(v, m)) /\ x.gen = m.gen /\ x.blocks = <<>>
<1> DEFINE x == [Absent EXCEPT !.status = "RUNNING", !.gen = m.gen, !.known = v.msgs[m.turn].known]
<1>1. m.turn \in Turns /\ m.gen \in Runs /\ v.msgs[m.turn] \in ShownSet
  BY DEF StartEvents, ViewSet
<1>2. x \in ShownSet /\ x.gen = m.gen /\ x.blocks = <<>> /\ x.known = v.msgs[m.turn].known
  <2>1. Absent \in ShownSet /\ Absent.blocks = <<>>
    BY ZeroIsThere, StatusesAre DEF ShownSet, Absent
  <2>2. v.msgs[m.turn].known \in BOOLEAN
    BY <1>1 DEF ShownSet
  <2> QED BY <1>1, <2>1, <2>2, StatusesAre DEF ShownSet
<1>3. Started(v, m) = v \/ Started(v, m) = [v EXCEPT !.msgs[m.turn] = x]
  BY DEF Started
<1> HIDE DEF x
<1>4. CASE Started(v, m) = v
  BY <1>4
<1>5. CASE Started(v, m) = [v EXCEPT !.msgs[m.turn] = x]
  <2>1. Replaces(v, m.turn, x, Started(v, m))
    BY <1>1, <1>2, <1>5, MessageReplaced DEF Replaces
  <2> QED BY <1>2, <2>1
<1> QED BY <1>3, <1>4, <1>5

\* chat:block_created adds its block to a message that has no such block.
LEMMA CreatedMakes ==
    ASSUME NEW v \in ViewSet, NEW m \in CreatedEvents
    PROVE  \/ /\ BlockCreated(v, m).msgs = v.msgs
              /\ ~Matches(v, m) \/ Place(v.msgs[m.turn].blocks, m.block.id) # {}
           \/ \E x : /\ Replaces(v, m.turn, x, BlockCreated(v, m)) /\ Matches(v, m) /\ x.gen = m.gen
                     /\ Place(v.msgs[m.turn].blocks, m.block.id) = {}
                     /\ x.blocks = Append(v.msgs[m.turn].blocks, m.block)
<1> DEFINE x == [v.msgs[m.turn] EXCEPT !.blocks = Append(@, m.block)]
<1>1. m.turn \in Turns /\ m.gen \in Runs /\ v.msgs[m.turn] \in ShownSet /\ m.block \in BlockSet
  BY DEF CreatedEvents, ViewSet
<1>2. Append(v.msgs[m.turn].blocks, m.block) \in Blocks
  BY <1>1, AppendIs DEF ShownSet, Blocks
<1>3. /\ x \in ShownSet /\ x.gen = v.msgs[m.turn].gen /\ x.known = v.msgs[m.turn].known
      /\ x.blocks = Append(v.msgs[m.turn].blocks, m.block)
  BY <1>1, <1>2 DEF ShownSet
<1>4. \/ BlockCreated(v, m) = v /\ (~Matches(v, m) \/ Place(v.msgs[m.turn].blocks, m.block.id) # {})
      \/ /\ BlockCreated(v, m) = [v EXCEPT !.msgs[m.turn] = x] /\ Matches(v, m)
         /\ Place(v.msgs[m.turn].blocks, m.block.id) = {}
  BY <1>1 DEF BlockCreated, ViewSet
<1> HIDE DEF x
<1>5. CASE BlockCreated(v, m) = v /\ (~Matches(v, m) \/ Place(v.msgs[m.turn].blocks, m.block.id) # {})
  BY <1>5
<1>6. CASE /\ BlockCreated(v, m) = [v EXCEPT !.msgs[m.turn] = x] /\ Matches(v, m)
           /\ Place(v.msgs[m.turn].blocks, m.block.id) = {}
  <2>1. Replaces(v, m.turn, x, BlockCreated(v, m))
    <3>1. x \in ShownSet /\ x.known = v.msgs[m.turn].known
      BY <1>3
    <3>2. BlockCreated(v, m) = [v EXCEPT !.msgs[m.turn] = x]
      BY <1>6
    <3> QED BY <1>1, <3>1, <3>2, MessageReplaced DEF Replaces
  <2>2. x.gen = m.gen
    BY <1>3, <1>6 DEF Matches
  <2> QED BY <1>3, <1>6, <2>1, <2>2
<1> QED BY <1>4, <1>5, <1>6

\* chat:block_updated replaces one block.
LEMMA UpdatedMakes ==
    ASSUME NEW v \in ViewSet, NEW m \in UpdatedEvents
    PROVE  \/ BlockUpdated(v, m).msgs = v.msgs
           \/ \E x, i : /\ Replaces(v, m.turn, x, BlockUpdated(v, m)) /\ Matches(v, m) /\ x.gen = m.gen
                        /\ i \in Place(v.msgs[m.turn].blocks, m.block.id)
                        /\ x.blocks \in Blocks /\ DOMAIN x.blocks = DOMAIN v.msgs[m.turn].blocks
                        /\ \A j \in DOMAIN x.blocks :
                             x.blocks[j] = IF j = i THEN m.block ELSE v.msgs[m.turn].blocks[j]
<1> DEFINE old == v.msgs[m.turn]
           at == Place(old.blocks, m.block.id)
           i == CHOOSE k \in at : TRUE
           x == [old EXCEPT !.blocks = [@ EXCEPT ![i] = m.block]]
<1>1. m.turn \in Turns /\ m.gen \in Runs /\ old \in ShownSet /\ m.block \in BlockSet /\ old.blocks \in Blocks
  BY DEF UpdatedEvents, ViewSet, ShownSet
<1>2. CASE ~Matches(v, m)
  BY <1>2 DEF BlockUpdated
<1>3. CASE Matches(v, m) /\ at = {}
  BY <1>3, ResyncIsNoMessage DEF BlockUpdated
<1>4. CASE Matches(v, m) /\ at # {}
  <2>1. i \in at /\ i \in DOMAIN old.blocks
    BY <1>4 DEF Place
  <2>2. PICK new : new = [old.blocks EXCEPT ![i] = m.block]
    OBVIOUS
  <2>3. /\ new \in Blocks /\ DOMAIN new = DOMAIN old.blocks
        /\ \A j \in DOMAIN new : new[j] = IF j = i THEN m.block ELSE old.blocks[j]
    <3> HIDE DEF i, old
    <3> QED BY <1>1, <2>1, <2>2 DEF Blocks
  <2>4. x \in ShownSet /\ x.known = old.known /\ x.gen = old.gen /\ x.blocks = new
    BY <1>1, <2>2, <2>3 DEF ShownSet
  <2>5. BlockUpdated(v, m) = [v EXCEPT !.msgs[m.turn] = x]
    BY <1>1, <1>4 DEF BlockUpdated, ViewSet
  <2>6. x.gen = m.gen
    BY <1>4, <2>4 DEF Matches
  <2> HIDE DEF x, i
  <2>7. Replaces(v, m.turn, x, BlockUpdated(v, m))
    BY <1>1, <2>4, <2>5, MessageReplaced DEF Replaces
  <2>8. /\ x.blocks \in Blocks /\ DOMAIN x.blocks = DOMAIN old.blocks
        /\ \A j \in DOMAIN x.blocks : x.blocks[j] = IF j = i THEN m.block ELSE old.blocks[j]
    BY <2>3, <2>4
  <2>9. i \in Place(v.msgs[m.turn].blocks, m.block.id) /\ Matches(v, m)
    BY <1>4, <2>1
  <2> HIDE DEF old
  <2>10. PICK y, k : y = x /\ k = i
    OBVIOUS
  <2>11. /\ Replaces(v, m.turn, y, BlockUpdated(v, m)) /\ y.gen = m.gen
         /\ y.blocks \in Blocks /\ DOMAIN y.blocks = DOMAIN v.msgs[m.turn].blocks
         /\ \A j \in DOMAIN y.blocks : y.blocks[j] = IF j = k THEN m.block ELSE v.msgs[m.turn].blocks[j]
    BY <2>6, <2>7, <2>8, <2>10 DEF old
  <2> QED BY <2>9, <2>10, <2>11
<1> QED BY <1>2, <1>3, <1>4

\* chat:chunk adds its unit to one block, or a block with its unit.
MergedInto(old, m, x) ==
    \/ /\ Place(old.blocks, m.id) = {} /\ m.at = 0
       /\ \E new \in BlockSet : /\ new.id = m.id /\ new.text = <<m.offset>> /\ new.open
                                /\ x.blocks = Append(old.blocks, new)
    \/ \E i \in Place(old.blocks, m.id) :
         /\ m.at = Len(old.blocks[i].text)
         /\ x.blocks \in Blocks /\ DOMAIN x.blocks = DOMAIN old.blocks
         /\ \A j \in DOMAIN x.blocks : j # i => x.blocks[j] = old.blocks[j]
         /\ x.blocks[i].id = old.blocks[i].id /\ x.blocks[i].open = old.blocks[i].open
         /\ x.blocks[i].text = Append(old.blocks[i].text, m.offset)

\* A chunk that is merged adds its unit to its block.
LEMMA MergedMakes ==
    ASSUME NEW v \in ViewSet, NEW m \in ChunkEvents
    PROVE  \/ Merged(v, m).msgs = v.msgs
           \/ \E x : /\ Replaces(v, m.turn, x, Merged(v, m)) /\ Matches(v, m) /\ x.gen = m.gen
                     /\ MergedInto(v.msgs[m.turn], m, x)
<1> DEFINE old == v.msgs[m.turn]
           at == Place(old.blocks, m.id)
           i == CHOOSE k \in at : TRUE
           length == IF at = {} THEN 0 ELSE Len(old.blocks[i].text)
           new == [Block(m.id, "text") EXCEPT !.text = <<m.offset>>]
           blocks == IF at = {} THEN Append(old.blocks, new)
                     ELSE [old.blocks EXCEPT ![i].text = Append(@, m.offset)]
           x == [old EXCEPT !.blocks = blocks, !.offset = @ + 1]
<1>1. m.turn \in Turns /\ m.gen \in Runs /\ old \in ShownSet /\ old.blocks \in Blocks
      /\ m.id \in Runs \X Nat /\ m.offset \in Nat /\ m.offset < MaxUnits /\ m.at \in Nat
  BY DEF ChunkEvents, ViewSet, ShownSet
<1>2. CASE at = {}
  <2>1. new \in BlockSet /\ new.id = m.id /\ new.text = <<m.offset>> /\ new.open
    <3>1. Block(m.id, "text") \in BlockSet /\ Block(m.id, "text").id = m.id /\ Block(m.id, "text").open
      BY <1>1 DEF Block, BlockSet
    <3>2. <<m.offset>> \in Seq(Nat)
      BY <1>1
    <3> QED BY <3>1, <3>2 DEF BlockSet
  <2> HIDE DEF new
  <2>2. blocks = Append(old.blocks, new)
    BY <1>2
  <2>3. blocks \in Blocks
    <3>1. PICK c : c = old.blocks
      OBVIOUS
    <3>2. c \in Seq(BlockSet)
      BY <1>1, <3>1 DEF Blocks
    <3>3. Append(c, new) \in Seq(BlockSet)
      BY <2>1, <3>2, AppendIs
    <3> HIDE DEF blocks
    <3> QED BY <2>2, <3>1, <3>3, Zenon DEF Blocks
  <2>4. \A y : y.blocks = blocks /\ m.at = 0 => MergedInto(old, m, y)
    BY <1>2, <2>1, <2>2 DEF MergedInto
  <2>5. CASE Matches(v, m) /\ m.at = 0 /\ m.offset = old.offset
    <3>1. Merged(v, m) = [v EXCEPT !.msgs[m.turn] = x]
      BY <1>2, <2>5 DEF Merged, new
    <3> HIDE DEF blocks
    <3>2. old.offset \in 0 .. MaxUnits
      BY <1>1 DEF ShownSet
    <3>3. old.offset + 1 \in 0 .. MaxUnits
      BY <1>1, <2>5, <3>2, BoundsAssumption
    <3>4. x \in ShownSet /\ x.known = old.known /\ x.gen = old.gen /\ x.blocks = blocks
      BY <1>1, <2>3, <3>3 DEF ShownSet
    <3> HIDE DEF x
    <3>5. Replaces(v, m.turn, x, Merged(v, m))
      BY <1>1, <3>1, <3>4, MessageReplaced DEF Replaces
    <3>6. MergedInto(old, m, x) /\ x.gen = m.gen
      BY <2>4, <2>5, <3>4 DEF Matches
    <3> QED BY <2>5, <3>5, <3>6
  <2>6. CASE ~Matches(v, m)
    BY <2>6 DEF Merged
  <2>7. CASE Matches(v, m) /\ ~(m.at = 0 /\ m.offset = old.offset)
    <3>1. Merged(v, m) = [v EXCEPT !.resync = TRUE]
      BY <1>2, <2>7 DEF Merged
    <3> QED BY <3>1, ResyncIsNoMessage
  <2> QED BY <2>5, <2>6, <2>7
<1>3. CASE at # {}
  <2>1. i \in at
    BY <1>3
  <2>2. i \in DOMAIN old.blocks /\ length = Len(old.blocks[i].text)
    BY <1>3, <2>1 DEF Place
  <2> HIDE DEF i
  <2>3. old.blocks[i] \in BlockSet /\ old.blocks[i].text \in Seq(Nat) /\ Len(old.blocks[i].text) \in Nat
    BY <1>1, <2>2, BlocksAre
  <2>4. PICK b : b = Longer(old.blocks[i], m.offset)
    OBVIOUS
  <2>5. /\ b \in BlockSet /\ b.id = old.blocks[i].id /\ b.open = old.blocks[i].open
        /\ b.text = Append(old.blocks[i].text, m.offset)
    <3>1. PICK s : s = Append(old.blocks[i].text, m.offset)
      OBVIOUS
    <3>2. s \in Seq(Nat)
      BY <1>1, <2>3, <3>1, AppendIs
    <3>3. PICK c : c = old.blocks[i]
      OBVIOUS
    <3>4. b = [c EXCEPT !.text = s]
      BY <2>4, <3>1, <3>3, Zenon DEF Longer
    <3>5. c \in BlockSet
      BY <2>3, <3>3
    <3>6. b \in BlockSet /\ b.id = c.id /\ b.open = c.open /\ b.text = s
      BY <3>2, <3>4, <3>5 DEF BlockSet
    <3> QED BY <3>1, <3>3, <3>6
  <2>6. blocks = [old.blocks EXCEPT ![i] = b]
    BY <1>3, <2>2, <2>4 DEF Longer, i
  <2>7. PICK new2 : new2 = blocks
    OBVIOUS
  <2>8. /\ new2 \in Blocks /\ DOMAIN new2 = DOMAIN old.blocks
        /\ \A j \in DOMAIN new2 : new2[j] = IF j = i THEN b ELSE old.blocks[j]
    <3>1. PICK c : c = old.blocks
      OBVIOUS
    <3>2. new2 = [c EXCEPT ![i] = b] /\ c \in Blocks /\ i \in DOMAIN c
      BY <1>1, <2>2, <2>6, <2>7, <3>1
    <3>3. /\ new2 \in Blocks /\ DOMAIN new2 = DOMAIN c
          /\ \A j \in DOMAIN new2 : new2[j] = IF j = i THEN b ELSE c[j]
      <4>1. b \in BlockSet
        BY <2>5
      <4> QED BY <3>2, <4>1 DEF Blocks
    <3> QED BY <3>1, <3>3
  <2>9. \A y : y.blocks = new2 /\ m.at = length => MergedInto(old, m, y)
    BY <2>1, <2>2, <2>5, <2>8 DEF MergedInto
  <2>10. CASE Matches(v, m) /\ m.at = length /\ m.offset = old.offset
    <3>2. old.offset \in 0 .. MaxUnits
      BY <1>1 DEF ShownSet
    <3>3. old.offset + 1 \in 0 .. MaxUnits /\ old.offset \in Nat
      <4>1. m.offset = old.offset
        BY <2>10
      <4> QED BY <1>1, <3>2, <4>1, BoundsAssumption
    <3>1. Merged(v, m) = [v EXCEPT !.msgs[m.turn] = x]
      <4>1. ~Behind(m, length, old.offset) /\ ~Ahead(m, length, old.offset)
        <5>1. PICK len : len = length
          OBVIOUS
        <5>2. len \in Nat /\ m.at = len /\ m.offset = old.offset
          BY <2>2, <2>3, <2>10, <5>1
        <5>3. ~Behind(m, len, old.offset) /\ ~Ahead(m, len, old.offset)
          BY <3>3, <5>2 DEF Behind, Ahead
        <5> QED BY <5>1, <5>3
      <4> QED BY <1>3, <2>10, <4>1 DEF Merged, i
    <3> HIDE DEF blocks
    <3>4. x \in ShownSet /\ x.known = old.known /\ x.gen = old.gen /\ x.blocks = new2
      BY <1>1, <2>7, <2>8, <3>3 DEF ShownSet
    <3> HIDE DEF x
    <3>5. Replaces(v, m.turn, x, Merged(v, m))
      <4>1. x \in ShownSet /\ x.known = old.known
        BY <3>4
      <4> QED BY <1>1, <3>1, <4>1, MessageReplaced DEF Replaces
    <3>6. MergedInto(old, m, x) /\ x.gen = m.gen
      <4>1. MergedInto(old, m, x)
        BY <2>9, <2>10, <3>4
      <4> QED BY <2>10, <3>4, <4>1 DEF Matches
    <3> QED BY <2>10, <3>5, <3>6
  <2>11. CASE ~(Matches(v, m) /\ m.at = length /\ m.offset = old.offset)
    <3>1. Merged(v, m) = v \/ Merged(v, m) = [v EXCEPT !.resync = TRUE]
      <4>1. CASE ~Matches(v, m) \/ Behind(m, length, old.offset)
        BY <1>3, <4>1 DEF Merged, i
      <4>2. CASE Matches(v, m) /\ ~Behind(m, length, old.offset)
        <5>1. old.offset \in Nat
          BY <1>1, BoundsAssumption DEF ShownSet
        <5>2. Ahead(m, length, old.offset)
          BY <1>1, <2>2, <2>3, <2>11, <4>2, <5>1 DEF Behind, Ahead
        <5> QED BY <1>3, <4>2, <5>2 DEF Merged, i
      <4> QED BY <4>1, <4>2
    <3> QED BY <3>1, ResyncIsNoMessage
  <2> QED BY <2>10, <2>11
<1> QED BY <1>2, <1>3

\* A final event leaves a message of no generation.
LEMMA EndedMakes ==
    ASSUME NEW v \in ViewSet, NEW m \in EndedEvents
    PROVE  \/ Ended(v, m).msgs = v.msgs
           \/ \E x : Replaces(v, m.turn, x, Ended(v, m)) /\ x.gen = 0
<1> DEFINE x == [v.msgs[m.turn] EXCEPT !.status = m.status, !.blocks = m.blocks, !.gen = 0, !.offset = 0]
<1>1. m.turn \in Turns /\ v.msgs[m.turn] \in ShownSet /\ m.status \in Terminal /\ m.blocks \in Blocks
  BY DEF EndedEvents, ViewSet
<1>2. x \in ShownSet /\ x.gen = 0 /\ x.known = v.msgs[m.turn].known
  BY <1>1, ZeroIsThere, StatusesAre DEF ShownSet
<1>3. Ended(v, m) = v \/ Ended(v, m) = [v EXCEPT !.msgs[m.turn] = x]
  BY <1>1 DEF Ended, ViewSet
<1> HIDE DEF x
<1>4. CASE Ended(v, m) = v
  BY <1>4
<1>5. CASE Ended(v, m) = [v EXCEPT !.msgs[m.turn] = x]
  <2>1. Replaces(v, m.turn, x, Ended(v, m))
    BY <1>1, <1>2, <1>5, MessageReplaced DEF Replaces
  <2> QED BY <1>2, <2>1
<1> QED BY <1>3, <1>4, <1>5

\* The page has the blocks before that of an event.
Ready(v, m) == BlockEvent(m) => \A i \in 1 .. At(m) - 1 : i \notin LacksOf(v)[m.gen]

\* The place of an event about a block in the message of its generation.
LEMMA PlaceIs ==
    ASSUME StreamInv, TextInv, NEW v \in ViewSet, ViewHolds(v), Shows(v),
           NEW m \in Messages, BlockEvent(m), Said(m), Ready(v, m)
    PROVE  /\ m.gen \in Runs /\ m.gen # 0 /\ m.turn \in Turns /\ At(m) \in Nat \ {0}
           /\ IdOf(m) = <<m.gen, At(m)>>
           /\ \A n \in Turns : v.msgs[n].gen = m.gen => n = m.turn
           /\ run[m.gen].blocks \in Blocks /\ At(m) <= Len(run[m.gen].blocks)
           /\ Matches(v, m) =>
                LET old == v.msgs[m.turn].blocks IN
                /\ old \in Blocks /\ Begins(old, run[m.gen].blocks)
                /\ At(m) - 1 <= Len(old)
                /\ \A i : i \in Place(old, IdOf(m)) <=> i = At(m) /\ i <= Len(old)
<1>1. m \in BlockEvents /\ m.gen \in Runs /\ m.turn \in Turns /\ At(m) \in Nat
  BY BlockEventTyped
<1>2. BlockSaid(m, run[m.gen])
  BY DEF Said
<1>3. m.gen # 0
  BY <1>1 DEF Runs
<1>4. ServerTypes /\ RunTextOf(m.gen, run[m.gen]) /\ run[m.gen].blocks \in Blocks
  BY <1>1, TextIs, RunTyped
<1>5. /\ m.turn = run[m.gen].turn /\ IdOf(m) = <<m.gen, At(m)>> /\ At(m) \in DOMAIN run[m.gen].blocks
  BY <1>2, Zenon DEF BlockSaid
<1>6. DOMAIN run[m.gen].blocks = 1 .. Len(run[m.gen].blocks) /\ Len(run[m.gen].blocks) \in Nat
  BY <1>4, BlocksAre
<1>7. \A n \in Turns : v.msgs[n].gen = m.gen => n = m.turn
  BY <1>3, <1>5 DEF ViewHolds, Announced
<1>8. ASSUME Matches(v, m)
      PROVE  LET old == v.msgs[m.turn].blocks IN
             /\ old \in Blocks /\ Begins(old, run[m.gen].blocks)
             /\ At(m) - 1 <= Len(old)
             /\ \A i : i \in Place(old, IdOf(m)) <=> i = At(m) /\ i <= Len(old)
  <2> DEFINE old == v.msgs[m.turn].blocks
             full == run[m.gen].blocks
  <2>1. old \in Blocks
    BY <1>1 DEF ViewSet, ShownSet
  <2>2. Begins(old, full)
    BY <1>1, <1>3, <1>8 DEF Shows, Matches
  <2>3. Len(old) \in Nat /\ DOMAIN old = 1 .. Len(old)
    BY <2>1, BlocksAre
  <2>4. \A i \in DOMAIN full : full[i].id = <<m.gen, i>>
    BY <1>4 DEF RunTextOf, Numbered
  <2>5. At(m) - 1 <= Len(old)
    <3>1. CASE At(m) = 1
      BY <2>3, <3>1
    <3>2. CASE At(m) # 1
      <4>1. PICK k \in Nat : k = At(m) - 1 /\ k \in 1 .. At(m) - 1
        BY <1>1, <1>5, <1>6, <3>2
      <4>2. k \notin LacksOf(v)[m.gen]
        BY <4>1 DEF Ready
      <4>3. ~(Len(v.msgs[m.turn].blocks) < k)
        BY <1>1, <1>8, <4>2 DEF LacksOf, Matches
      <4> QED BY <2>3, <4>1, <4>3
    <3> QED BY <3>1, <3>2
  <2> HIDE DEF old, full
  <2>6. \A i \in DOMAIN old : old[i].id = <<m.gen, i>>
    BY <1>4, <2>1, <2>2, <2>4, BeginsHas DEF full
  <2>7. \A i : i \in Place(old, IdOf(m)) <=> i = At(m) /\ i <= Len(old)
    <3>1. \A i : i \in Place(old, IdOf(m)) <=> i \in DOMAIN old /\ old[i].id = <<m.gen, At(m)>>
      BY <1>5, Zenon DEF Place
    <3>2. At(m) \in Nat /\ At(m) >= 1
      BY <1>1, <1>5, <1>6
    <3> QED BY <2>3, <2>6, <3>1, <3>2
  <2> QED BY <2>1, <2>2, <2>5, <2>7 DEF old, full
<1> QED BY <1>1, <1>3, <1>4, <1>5, <1>6, <1>7, <1>8

\* What the reducer does to the text: a message shows no generation any more, none
\* of its text yet, or as much of its text as before, and the block of the event.
TextReduced(v, m, w) == \A n \in Turns :
    /\ w.msgs[n].known = v.msgs[n].known
    /\ \/ w.msgs[n].gen = 0
       \/ m.kind = "start" /\ w.msgs[n].gen = m.gen /\ w.msgs[n].blocks = <<>>
       \/ /\ w.msgs[n].gen = v.msgs[n].gen
          /\ Begins(w.msgs[n].blocks, run[w.msgs[n].gen].blocks)
          /\ Len(v.msgs[n].blocks) <= Len(w.msgs[n].blocks)
          /\ m.kind = "created" /\ m.gen = w.msgs[n].gen => At(m) <= Len(w.msgs[n].blocks)

\* The messages stay, and no block is missed by that,
LEMMA MessagesStay ==
    ASSUME NEW v \in ViewSet, Shows(v), NEW m, NEW w, w.msgs = v.msgs,
           \A n \in Turns : m.kind = "created" /\ m.gen = v.msgs[n].gen /\ m.gen # 0
                               => At(m) <= Len(v.msgs[n].blocks)
    PROVE  TextReduced(v, m, w)
<1>1. ASSUME NEW n \in Turns, w.msgs[n].gen # 0
      PROVE  /\ Begins(w.msgs[n].blocks, run[w.msgs[n].gen].blocks)
             /\ Len(v.msgs[n].blocks) <= Len(w.msgs[n].blocks)
             /\ m.kind = "created" /\ m.gen = w.msgs[n].gen => At(m) <= Len(w.msgs[n].blocks)
  <2>1. Begins(w.msgs[n].blocks, run[w.msgs[n].gen].blocks)
    BY <1>1 DEF Shows
  <2>2. Len(v.msgs[n].blocks) \in Nat
    BY BlocksAre DEF ViewSet, ShownSet
  <2> QED BY <1>1, <2>1, <2>2
<1> QED BY <1>1 DEF TextReduced

\* or one is replaced that has at least as many blocks.
LEMMA MessageGrows ==
    ASSUME NEW v \in ViewSet, Shows(v), NEW m \in Messages, m.turn \in Turns, NEW w, NEW x,
           Replaces(v, m.turn, x, w), Matches(v, m), x.gen = m.gen,
           \A n \in Turns : v.msgs[n].gen = m.gen => n = m.turn,
           Begins(x.blocks, run[m.gen].blocks), Len(v.msgs[m.turn].blocks) <= Len(x.blocks),
           m.kind = "created" => At(m) <= Len(x.blocks)
    PROVE  TextReduced(v, m, w)
<1>1. ASSUME NEW n \in Turns
      PROVE  /\ w.msgs[n].known = v.msgs[n].known
             /\ \/ w.msgs[n].gen = 0
                \/ /\ w.msgs[n].gen = v.msgs[n].gen
                   /\ Begins(w.msgs[n].blocks, run[w.msgs[n].gen].blocks)
                   /\ Len(v.msgs[n].blocks) <= Len(w.msgs[n].blocks)
                   /\ m.kind = "created" /\ m.gen = w.msgs[n].gen => At(m) <= Len(w.msgs[n].blocks)
  <2>1. CASE n = m.turn
    BY <2>1 DEF Replaces, Matches
  <2>2. CASE n # m.turn
    <3>1. w.msgs[n] = v.msgs[n] /\ v.msgs[n].gen # m.gen
      BY <2>2 DEF Replaces
    <3>2. Len(v.msgs[n].blocks) \in Nat
      BY BlocksAre DEF ViewSet, ShownSet
    <3>3. v.msgs[n].gen # 0 => Begins(v.msgs[n].blocks, run[v.msgs[n].gen].blocks)
      BY DEF Shows
    <3> QED BY <3>1, <3>2, <3>3
  <2> QED BY <2>1, <2>2
<1> QED BY <1>1 DEF TextReduced

\* Then the page still shows what was produced, and lacks the less.
LEMMA TextReducedShows ==
    ASSUME ServerTypes, NEW v \in ViewSet, NEW m \in Messages, NEW w \in ViewSet, TextReduced(v, m, w)
    PROVE  /\ Shows(w) /\ Consumed(m, LacksOf(v), LacksOf(w))
           /\ \A n \in Turns : w.msgs[n].known = v.msgs[n].known
<1>1. Shows(w)
  <2>1. SUFFICES ASSUME NEW n \in Turns, w.msgs[n].gen # 0
                 PROVE  Begins(w.msgs[n].blocks, run[w.msgs[n].gen].blocks)
    BY DEF Shows
  <2>2. CASE w.msgs[n].blocks = <<>>
    <3>1. run[w.msgs[n].gen].blocks \in Blocks
      BY <2>1, RunTyped DEF ViewSet, ShownSet
    <3> QED BY <2>2, <3>1, BeginsSame
  <2> QED BY <2>1, <2>2 DEF TextReduced
<1>2. Consumed(m, LacksOf(v), LacksOf(w))
  <2>1. SUFFICES ASSUME NEW g \in Runs, NEW i \in Nat, i \in LacksOf(w)[g], ~(m.kind = "start" /\ m.gen = g)
                 PROVE  i \in LacksOf(v)[g] /\ ~(m.kind = "created" /\ m.gen = g /\ At(m) = i)
    BY DEF Consumed
  <2>2. PICK n \in Turns : w.msgs[n].gen = g /\ Len(w.msgs[n].blocks) < i
    BY <2>1 DEF LacksOf
  <2>3. g # 0
    BY DEF Runs
  <2>4. /\ v.msgs[n].gen = g /\ Len(v.msgs[n].blocks) <= Len(w.msgs[n].blocks)
        /\ m.kind = "created" /\ m.gen = g => At(m) <= Len(w.msgs[n].blocks)
    BY <2>1, <2>2, <2>3 DEF TextReduced
  <2>5. Len(v.msgs[n].blocks) \in Nat /\ Len(w.msgs[n].blocks) \in Nat
    BY BlocksAre DEF ViewSet, ShownSet
  <2>6. Len(v.msgs[n].blocks) < i
    BY <2>2, <2>4, <2>5
  <2> QED BY <2>2, <2>4, <2>5, <2>6 DEF LacksOf
<1> QED BY <1>1, <1>2 DEF TextReduced

\* The text after each event: a start,
LEMMA StartedText ==
    ASSUME NEW v \in ViewSet, Shows(v), NEW m \in StartEvents
    PROVE  TextReduced(v, m, Started(v, m))
<1>1. m.kind = "start" /\ m.turn \in Turns
  BY DEF StartEvents
<1>2. PICK w : w = Started(v, m)
  OBVIOUS
<1>3. CASE w.msgs = v.msgs
  <2>1. TextReduced(v, m, w)
    BY <1>1, <1>3, MessagesStay
  <2> QED BY <1>2, <2>1
<1>4. CASE \E x : Replaces(v, m.turn, x, w) /\ x.gen = m.gen /\ x.blocks = <<>>
  <2>1. PICK x : Replaces(v, m.turn, x, w) /\ x.gen = m.gen /\ x.blocks = <<>>
    BY <1>4
  <2>2. ASSUME NEW n \in Turns
        PROVE  /\ w.msgs[n].known = v.msgs[n].known
               /\ \/ w.msgs[n].gen = 0
                  \/ m.kind = "start" /\ w.msgs[n].gen = m.gen /\ w.msgs[n].blocks = <<>>
                  \/ /\ w.msgs[n].gen = v.msgs[n].gen
                     /\ Begins(w.msgs[n].blocks, run[w.msgs[n].gen].blocks)
                     /\ Len(v.msgs[n].blocks) <= Len(w.msgs[n].blocks)
                     /\ m.kind = "created" /\ m.gen = w.msgs[n].gen => At(m) <= Len(w.msgs[n].blocks)
    <3>1. CASE n = m.turn
      BY <1>1, <2>1, <3>1 DEF Replaces
    <3>2. CASE n # m.turn
      <4>1. w.msgs[n] = v.msgs[n]
        BY <2>1, <3>2 DEF Replaces
      <4>2. Len(v.msgs[n].blocks) \in Nat
        BY BlocksAre DEF ViewSet, ShownSet
      <4>3. v.msgs[n].gen # 0 => Begins(v.msgs[n].blocks, run[v.msgs[n].gen].blocks)
        BY DEF Shows
      <4> QED BY <1>1, <4>1, <4>2, <4>3
    <3> QED BY <3>1, <3>2
  <2>3. TextReduced(v, m, w)
    BY <2>2 DEF TextReduced
  <2> QED BY <1>2, <2>3
<1> QED BY <1>2, <1>3, <1>4, StartedMakes

\* the end,
LEMMA EndedText ==
    ASSUME NEW v \in ViewSet, Shows(v), NEW m \in EndedEvents
    PROVE  TextReduced(v, m, Ended(v, m))
<1>1. m.kind = "ended" /\ m.turn \in Turns
  BY DEF EndedEvents
<1>2. PICK w : w = Ended(v, m)
  OBVIOUS
<1>3. CASE w.msgs = v.msgs
  <2>1. TextReduced(v, m, w)
    BY <1>1, <1>3, MessagesStay
  <2> QED BY <1>2, <2>1
<1>4. CASE \E x : Replaces(v, m.turn, x, w) /\ x.gen = 0
  <2>1. PICK x : Replaces(v, m.turn, x, w) /\ x.gen = 0
    BY <1>4
  <2>2. ASSUME NEW n \in Turns
        PROVE  /\ w.msgs[n].known = v.msgs[n].known
               /\ \/ w.msgs[n].gen = 0
                  \/ /\ w.msgs[n].gen = v.msgs[n].gen
                     /\ Begins(w.msgs[n].blocks, run[w.msgs[n].gen].blocks)
                     /\ Len(v.msgs[n].blocks) <= Len(w.msgs[n].blocks)
                     /\ m.kind = "created" /\ m.gen = w.msgs[n].gen => At(m) <= Len(w.msgs[n].blocks)
    <3>1. CASE n = m.turn
      BY <2>1, <3>1 DEF Replaces
    <3>2. CASE n # m.turn
      <4>1. w.msgs[n] = v.msgs[n]
        BY <2>1, <3>2 DEF Replaces
      <4>2. Len(v.msgs[n].blocks) \in Nat
        BY BlocksAre DEF ViewSet, ShownSet
      <4>3. v.msgs[n].gen # 0 => Begins(v.msgs[n].blocks, run[v.msgs[n].gen].blocks)
        BY DEF Shows
      <4> QED BY <1>1, <4>1, <4>2, <4>3
    <3> QED BY <3>1, <3>2
  <2>3. TextReduced(v, m, w)
    BY <2>2 DEF TextReduced
  <2> QED BY <1>2, <2>3
<1> QED BY <1>2, <1>3, <1>4, EndedMakes

\* the creation of a block, which is new when it is the next,
LEMMA CreatedText ==
    ASSUME StreamInv, TextInv, NEW v \in ViewSet, ViewHolds(v), Shows(v),
           NEW m \in CreatedEvents, Said(m), Ready(v, m)
    PROVE  TextReduced(v, m, BlockCreated(v, m))
<1> DEFINE old == v.msgs[m.turn].blocks
           full == run[m.gen].blocks
<1>1. m.kind = "created" /\ m.block \in BlockSet /\ BlockEvent(m) /\ m \in Messages
  BY DEF CreatedEvents, BlockEvent, Messages, PageEvents, RunEvents, BlockEvents
<1>2. IdOf(m) = m.block.id
  BY <1>1 DEF IdOf
<1>3. PICK k : k = At(m)
  OBVIOUS
<1>4. /\ m.gen \in Runs /\ m.gen # 0 /\ m.turn \in Turns /\ k \in Nat \ {0}
      /\ m.block.id = <<m.gen, k>>
      /\ \A n \in Turns : v.msgs[n].gen = m.gen => n = m.turn
      /\ full \in Blocks /\ k <= Len(full)
  BY <1>1, <1>2, <1>3, PlaceIs
<1>5. Matches(v, m) => /\ old \in Blocks /\ Begins(old, full) /\ k - 1 <= Len(old)
                       /\ \A i : i \in Place(old, m.block.id) <=> i = k /\ i <= Len(old)
  BY <1>1, <1>2, <1>3, PlaceIs
<1>6. BlockSaid(m, run[m.gen])
  BY <1>1 DEF Said
<1>7. m.block.text = <<>> /\ m.block.open
  BY <1>1, <1>6, Zenon DEF BlockSaid
<1> HIDE DEF full
<1>8. PICK w : w = BlockCreated(v, m)
  OBVIOUS
<1>9. CASE w.msgs = v.msgs /\ (~Matches(v, m) \/ Place(v.msgs[m.turn].blocks, m.block.id) # {})
  <2>1. \A n \in Turns : m.gen = v.msgs[n].gen => k <= Len(v.msgs[n].blocks)
    <3>1. SUFFICES ASSUME NEW n \in Turns, m.gen = v.msgs[n].gen PROVE k <= Len(v.msgs[n].blocks)
      OBVIOUS
    <3>2. n = m.turn /\ Matches(v, m)
      BY <1>4, <3>1 DEF Matches
    <3>3. PICK i : i \in Place(old, m.block.id)
      BY <1>9, <3>2
    <3> QED BY <1>5, <3>2, <3>3
  <2>2. TextReduced(v, m, w)
    BY <1>3, <1>9, <2>1, MessagesStay
  <2> QED BY <1>8, <2>2
<1>10. CASE \E x : /\ Replaces(v, m.turn, x, w) /\ Matches(v, m) /\ x.gen = m.gen
                   /\ Place(v.msgs[m.turn].blocks, m.block.id) = {}
                   /\ x.blocks = Append(v.msgs[m.turn].blocks, m.block)
  <2>1. PICK x : /\ Replaces(v, m.turn, x, w) /\ Matches(v, m) /\ x.gen = m.gen
                 /\ Place(v.msgs[m.turn].blocks, m.block.id) = {}
                 /\ x.blocks = Append(v.msgs[m.turn].blocks, m.block)
    BY <1>10
  <2>2. PICK s, new : s = old /\ new = x.blocks
    OBVIOUS
  <2> HIDE DEF old
  <2>3. s \in Blocks /\ Begins(s, full) /\ k - 1 <= Len(s) /\ Len(s) \in Nat /\ ~(k <= Len(s))
    <3>1. s \in Blocks /\ Begins(s, full) /\ k - 1 <= Len(s)
      BY <1>5, <2>1, <2>2
    <3>2. k \notin Place(s, m.block.id)
      BY <2>1, <2>2 DEF old
    <3> QED BY <1>5, <2>1, <2>2, <3>1, <3>2, BlocksAre
  <2>4. Len(s) = k - 1
    BY <1>4, <2>3
  <2>5. /\ new \in Blocks /\ Len(new) = Len(s) + 1 /\ (\A i \in 1 .. Len(s) : new[i] = s[i])
        /\ new[Len(s) + 1] = m.block
    <3>1. new = Append(s, m.block)
      BY <2>1, <2>2 DEF old
    <3>2. s \in Seq(BlockSet)
      BY <2>3 DEF Blocks
    <3>3. /\ Append(s, m.block) \in Seq(BlockSet) /\ Len(Append(s, m.block)) = Len(s) + 1 /\ DOMAIN s = 1 .. Len(s)
          /\ \A i \in DOMAIN s : Append(s, m.block)[i] = s[i]
          /\ Append(s, m.block)[Len(s) + 1] = m.block
      BY <1>1, <3>2, AppendIs
    <3> QED BY <3>1, <3>3, Zenon DEF Blocks
  <2>6. new[k] = m.block /\ Len(new) = k
    BY <1>4, <2>4, <2>5
  <2>7. Begins(new, full)
    <3>1. ASSUME NEW i \in 1 .. Len(new)
          PROVE  BlockBegins(new[i], full[i])
      <4>1. CASE i = k
        <5>1. full[k] \in BlockSet /\ full[k].id = <<m.gen, k>> /\ Len(full[k].text) \in Nat
          <6>1. k \in DOMAIN full
            BY <1>4, BlocksAre
          <6>2. RunTextOf(m.gen, run[m.gen])
            BY <1>4, TextIs
          <6>3. full[k].id = <<m.gen, k>>
            BY <6>1, <6>2 DEF RunTextOf, Numbered, full
          <6>4. full[k] \in BlockSet /\ full[k].text \in Seq(Nat)
            BY <1>4, <6>1, BlocksAre
          <6> QED BY <6>3, <6>4
        <5>2. Len(m.block.text) = 0
          BY <1>7, EmptyIs
        <5> QED BY <1>4, <1>7, <2>6, <4>1, <5>1, <5>2 DEF BlockBegins
      <4>2. CASE i # k
        <5>1. i \in 1 .. Len(s)
          BY <1>4, <2>3, <2>4, <2>6, <4>2
        <5>2. BlockBegins(s[i], full[i])
          BY <1>4, <2>3, <5>1, BeginsIs
        <5> QED BY <2>5, <5>1, <5>2
      <4> QED BY <4>1, <4>2
    <3> QED BY <1>4, <2>5, <2>6, <3>1, BeginsIs
  <2>8. Len(v.msgs[m.turn].blocks) <= Len(x.blocks) /\ At(m) <= Len(x.blocks) /\ Begins(x.blocks, full)
    BY <1>3, <1>4, <2>2, <2>3, <2>4, <2>6, <2>7 DEF old
  <2>9. TextReduced(v, m, w)
    BY <1>1, <1>4, <2>1, <2>8, MessageGrows DEF full
  <2> QED BY <1>8, <2>9
<1> QED BY <1>8, <1>9, <1>10, CreatedMakes

\* the end of a block, which the page has as it was produced,
LEMMA UpdatedText ==
    ASSUME StreamInv, TextInv, NEW v \in ViewSet, ViewHolds(v), Shows(v),
           NEW m \in UpdatedEvents, Said(m), Ready(v, m)
    PROVE  TextReduced(v, m, BlockUpdated(v, m))
<1> DEFINE old == v.msgs[m.turn].blocks
           full == run[m.gen].blocks
<1>1. m.kind = "updated" /\ m.block \in BlockSet /\ BlockEvent(m) /\ m \in Messages
  BY DEF UpdatedEvents, BlockEvent, Messages, PageEvents, RunEvents, BlockEvents
<1>2. IdOf(m) = m.block.id
  BY <1>1 DEF IdOf
<1>3. PICK k : k = At(m)
  OBVIOUS
<1>4. /\ m.gen \in Runs /\ m.gen # 0 /\ m.turn \in Turns /\ k \in Nat \ {0}
      /\ \A n \in Turns : v.msgs[n].gen = m.gen => n = m.turn
      /\ full \in Blocks /\ k <= Len(full)
  BY <1>1, <1>2, <1>3, PlaceIs
<1>5. Matches(v, m) => /\ old \in Blocks /\ Begins(old, full) /\ k - 1 <= Len(old)
                       /\ \A i : i \in Place(old, m.block.id) <=> i = k /\ i <= Len(old)
  BY <1>1, <1>2, <1>3, PlaceIs
<1>6. BlockSaid(m, run[m.gen])
  BY <1>1 DEF Said
<1>7. full[k] = m.block
  BY <1>1, <1>3, <1>6, Zenon DEF BlockSaid
<1> HIDE DEF full
<1>8. PICK w : w = BlockUpdated(v, m)
  OBVIOUS
<1>9. CASE w.msgs = v.msgs
  <2>1. TextReduced(v, m, w)
    BY <1>1, <1>9, MessagesStay
  <2> QED BY <1>8, <2>1
<1>10. CASE \E x, i : /\ Replaces(v, m.turn, x, w) /\ Matches(v, m) /\ x.gen = m.gen
                      /\ i \in Place(v.msgs[m.turn].blocks, m.block.id)
                      /\ x.blocks \in Blocks /\ DOMAIN x.blocks = DOMAIN v.msgs[m.turn].blocks
                      /\ \A j \in DOMAIN x.blocks :
                           x.blocks[j] = IF j = i THEN m.block ELSE v.msgs[m.turn].blocks[j]
  <2>1. PICK x, i : /\ Replaces(v, m.turn, x, w) /\ Matches(v, m) /\ x.gen = m.gen
                    /\ i \in Place(old, m.block.id)
                    /\ x.blocks \in Blocks /\ DOMAIN x.blocks = DOMAIN old
                    /\ \A j \in DOMAIN x.blocks : x.blocks[j] = IF j = i THEN m.block ELSE old[j]
    BY <1>10
  <2>2. PICK s, new : s = old /\ new = x.blocks
    OBVIOUS
  <2>3. s \in Blocks /\ Begins(s, full) /\ i = k
    BY <1>5, <2>1, <2>2
  <2>4. new \in Blocks /\ DOMAIN new = DOMAIN s /\ \A j \in DOMAIN new : new[j] = IF j = k THEN m.block ELSE s[j]
    BY <2>1, <2>2, <2>3
  <2> HIDE DEF old
  <2>5. /\ Len(s) \in Nat /\ DOMAIN s = 1 .. Len(s) /\ Len(new) \in Nat /\ DOMAIN new = 1 .. Len(new)
        /\ Len(s) <= Len(full)
    BY <1>4, <2>3, <2>4, BlocksAre, BeginsIs
  <2>6. Len(new) = Len(s)
    BY <2>4, <2>5
  <2>7. Begins(new, full)
    <3>1. ASSUME NEW j \in 1 .. Len(new)
          PROVE  BlockBegins(new[j], full[j])
      <4>1. CASE j = k
        <5>1. new[j] = full[j] /\ new[j] \in BlockSet /\ new[j].text \in Seq(Nat)
          BY <1>7, <2>4, <2>5, <4>1, BlocksAre
        <5> QED BY <5>1 DEF BlockBegins
      <4>2. CASE j # k
        <5>1. new[j] = s[j] /\ j \in 1 .. Len(s)
          BY <2>4, <2>5, <2>6, <4>2
        <5>2. BlockBegins(s[j], full[j])
          BY <1>4, <2>3, <5>1, BeginsIs
        <5> QED BY <5>1, <5>2
      <4> QED BY <4>1, <4>2
    <3> QED BY <1>4, <2>4, <2>5, <2>6, <3>1, BeginsIs
  <2>8. Len(v.msgs[m.turn].blocks) <= Len(x.blocks) /\ Begins(x.blocks, full)
    BY <2>2, <2>5, <2>6, <2>7 DEF old
  <2>9. TextReduced(v, m, w)
    BY <1>1, <1>4, <2>1, <2>8, MessageGrows DEF full
  <2> QED BY <1>8, <2>9
<1> QED BY <1>8, <1>9, <1>10, UpdatedMakes

\* a unit of text, which is the next of its block,
LEMMA MergedText ==
    ASSUME StreamInv, TextInv, NEW v \in ViewSet, ViewHolds(v), Shows(v),
           NEW m \in ChunkEvents, Said(m), Ready(v, m)
    PROVE  TextReduced(v, m, Merged(v, m))
<1> DEFINE old == v.msgs[m.turn].blocks
           full == run[m.gen].blocks
<1>1. m.kind = "chunk" /\ m.at \in Nat /\ m.offset \in Nat /\ BlockEvent(m) /\ m \in Messages
  BY DEF ChunkEvents, BlockEvent, Messages, PageEvents, RunEvents, BlockEvents
<1>2. IdOf(m) = m.id
  BY <1>1 DEF IdOf
<1>3. PICK k : k = At(m)
  OBVIOUS
<1>4. /\ m.gen \in Runs /\ m.gen # 0 /\ m.turn \in Turns /\ k \in Nat \ {0}
      /\ m.id = <<m.gen, k>>
      /\ \A n \in Turns : v.msgs[n].gen = m.gen => n = m.turn
      /\ full \in Blocks /\ k <= Len(full)
  BY <1>1, <1>2, <1>3, PlaceIs
<1>5. Matches(v, m) => /\ old \in Blocks /\ Begins(old, full) /\ k - 1 <= Len(old)
                       /\ \A i : i \in Place(old, m.id) <=> i = k /\ i <= Len(old)
  BY <1>1, <1>2, <1>3, PlaceIs
<1>6. BlockSaid(m, run[m.gen])
  BY <1>1 DEF Said
<1>7. m.at + 1 \in DOMAIN full[k].text /\ full[k].text[m.at + 1] = m.offset
  BY <1>1, <1>3, <1>6, Zenon DEF BlockSaid
<1>8. full[k] \in BlockSet /\ full[k].text \in Seq(Nat) /\ full[k].id = m.id
  <2>1. k \in DOMAIN full
    BY <1>4, BlocksAre
  <2>2. RunTextOf(m.gen, run[m.gen])
    BY <1>4, TextIs
  <2>3. full[k].id = <<m.gen, k>>
    BY <2>1, <2>2 DEF RunTextOf, Numbered
  <2>4. full[k] \in BlockSet /\ full[k].text \in Seq(Nat)
    BY <1>4, <2>1, BlocksAre
  <2> QED BY <1>4, <2>3, <2>4
<1> HIDE DEF full
<1>9. PICK at : at = m.at + 1 /\ at \in Nat \ {0} /\ at \in 1 .. Len(full[k].text) /\ full[k].text[at] = m.offset
  <2>1. DOMAIN full[k].text = 1 .. Len(full[k].text)
    BY <1>8
  <2> QED BY <1>1, <1>7, <2>1
<1>10. PICK w : w = Merged(v, m)
  OBVIOUS
<1>11. CASE w.msgs = v.msgs
  <2>1. TextReduced(v, m, w)
    BY <1>1, <1>11, MessagesStay
  <2> QED BY <1>10, <2>1
<1>12. ASSUME NEW x, Replaces(v, m.turn, x, w), Matches(v, m), x.gen = m.gen,
              MergedInto(v.msgs[m.turn], m, x)
       PROVE  TextReduced(v, m, w)
  <2>1. PICK s, new : s = old /\ new = x.blocks
    OBVIOUS
  <2>2. s \in Blocks /\ Begins(s, full) /\ k - 1 <= Len(s) /\ \A i : i \in Place(s, m.id) <=> i = k /\ i <= Len(s)
    BY <1>5, <1>12, <2>1
  <2>3. Len(s) \in Nat /\ DOMAIN s = 1 .. Len(s)
    BY <2>2, BlocksAre
  <2>4. \/ /\ Place(s, m.id) = {} /\ m.at = 0
           /\ \E b \in BlockSet : b.id = m.id /\ b.text = <<m.offset>> /\ b.open /\ new = Append(s, b)
        \/ \E i \in Place(s, m.id) :
             /\ m.at = Len(s[i].text)
             /\ new \in Blocks /\ DOMAIN new = DOMAIN s
             /\ \A j \in DOMAIN new : j # i => new[j] = s[j]
             /\ new[i].id = s[i].id /\ new[i].open = s[i].open
             /\ new[i].text = Append(s[i].text, m.offset)
    BY <1>12, <2>1, Zenon DEF MergedInto, old
  <2> HIDE DEF old
  <2>5. new \in Blocks /\ Len(s) <= Len(new) /\ Len(new) <= Len(full)
        /\ \A j \in 1 .. Len(new) : BlockBegins(new[j], full[j])
    <3>1. CASE /\ Place(s, m.id) = {} /\ m.at = 0
               /\ \E b \in BlockSet : b.id = m.id /\ b.text = <<m.offset>> /\ b.open /\ new = Append(s, b)
      <4>1. PICK b \in BlockSet : b.id = m.id /\ b.text = <<m.offset>> /\ b.open /\ new = Append(s, b)
        BY <3>1
      <4>2. /\ new \in Blocks /\ Len(new) = Len(s) + 1 /\ (\A i \in 1 .. Len(s) : new[i] = s[i])
            /\ new[Len(s) + 1] = b
        <5>1. s \in Seq(BlockSet)
          BY <2>2 DEF Blocks
        <5>2. /\ Append(s, b) \in Seq(BlockSet) /\ Len(Append(s, b)) = Len(s) + 1 /\ DOMAIN s = 1 .. Len(s)
              /\ \A i \in DOMAIN s : Append(s, b)[i] = s[i]
              /\ Append(s, b)[Len(s) + 1] = b
          BY <5>1, AppendIs
        <5> QED BY <4>1, <5>2, Zenon DEF Blocks
      <4>3. ~(k <= Len(s))
        BY <2>2, <3>1
      <4>4. Len(new) = k /\ k = Len(s) + 1 /\ new[k] = b
        BY <1>4, <2>2, <2>3, <4>2, <4>3
      <4>5. BlockBegins(b, full[k])
        <5>1. PICK text : text = b.text /\ Len(text) = 1 /\ text[1] = m.offset
          <6>1. <<m.offset>>[1] = m.offset /\ Len(<<m.offset>>) = 1
            OBVIOUS
          <6> QED BY <4>1, <6>1
        <5>2. at = 1
          BY <1>9, <3>1
        <5> QED BY <1>8, <1>9, <4>1, <5>1, <5>2 DEF BlockBegins
      <4>6. ASSUME NEW j \in 1 .. Len(new) PROVE BlockBegins(new[j], full[j])
        <5>1. CASE j = k
          BY <4>4, <4>5, <5>1
        <5>2. CASE j # k
          <6>1. j \in 1 .. Len(s) /\ new[j] = s[j]
            BY <2>3, <4>2, <4>4, <5>2
          <6>2. BlockBegins(s[j], full[j])
            BY <1>4, <2>2, <6>1, BeginsIs
          <6> QED BY <6>1, <6>2
        <5> QED BY <5>1, <5>2
      <4> QED BY <1>4, <2>3, <4>2, <4>4, <4>6
    <3>2. CASE \E i \in Place(s, m.id) :
                 /\ m.at = Len(s[i].text)
                 /\ new \in Blocks /\ DOMAIN new = DOMAIN s
                 /\ \A j \in DOMAIN new : j # i => new[j] = s[j]
                 /\ new[i].id = s[i].id /\ new[i].open = s[i].open
                 /\ new[i].text = Append(s[i].text, m.offset)
      <4>1. PICK i \in Place(s, m.id) :
                 /\ m.at = Len(s[i].text)
                 /\ new \in Blocks /\ DOMAIN new = DOMAIN s
                 /\ \A j \in DOMAIN new : j # i => new[j] = s[j]
                 /\ new[i].id = s[i].id /\ new[i].open = s[i].open
                 /\ new[i].text = Append(s[i].text, m.offset)
        BY <3>2
      <4>2. i = k /\ k <= Len(s) /\ k \in 1 .. Len(s)
        BY <1>4, <2>2, <2>3, <4>1
      <4>3. Len(new) = Len(s) /\ DOMAIN new = 1 .. Len(new)
        <5>1. new \in Blocks /\ DOMAIN new = DOMAIN s
          BY <4>1
        <5>2. Len(new) \in Nat /\ DOMAIN new = 1 .. Len(new)
          BY <5>1, BlocksAre
        <5> QED BY <2>3, <5>1, <5>2
      <4>4. Len(s) <= Len(full) /\ BlockBegins(s[k], full[k])
        BY <1>4, <2>2, <4>2, BeginsIs
      <4>5. BlockBegins(new[k], full[k])
        <5>1. PICK text, more, all : /\ text = s[k].text /\ more = new[k].text /\ all = full[k].text
                                     /\ m.at = Len(text) /\ more = Append(text, m.offset)
          BY <4>1, <4>2
        <5>2. text \in Seq(Nat) /\ s[k] \in BlockSet
          BY <2>2, <2>3, <4>2, <5>1, BlocksAre
        <5>3. /\ Len(Append(text, m.offset)) = Len(text) + 1 /\ DOMAIN text = 1 .. Len(text)
              /\ Len(text) \in Nat
              /\ \A j \in DOMAIN text : Append(text, m.offset)[j] = text[j]
              /\ Append(text, m.offset)[Len(text) + 1] = m.offset
          BY <1>1, <5>2, AppendIs
        <5>4. /\ Len(more) = Len(text) + 1 /\ Len(text) \in Nat
              /\ \A j \in 1 .. Len(text) : more[j] = text[j]
              /\ more[Len(text) + 1] = m.offset
          <6>1. more = Append(text, m.offset)
            BY <5>1
          <6> QED BY <5>3, <6>1, Zenon
        <5>5. /\ Len(text) + 1 = at /\ all[at] = m.offset /\ at <= Len(all)
          BY <1>9, <5>1, <5>4
        <5>6. /\ s[k].id = full[k].id /\ (\A j \in 1 .. Len(text) : text[j] = all[j])
              /\ (~s[k].open => s[k] = full[k])
          BY <4>4, <5>1 DEF BlockBegins
        <5>7. new[k].open
          <6>1. SUFFICES ASSUME ~s[k].open PROVE FALSE
            BY <4>1, <4>2
          <6>2. text = all
            BY <5>1, <5>6, <6>1
          <6> QED BY <5>4, <5>5, <6>2
        <5>8. Len(more) <= Len(all) /\ \A j \in 1 .. Len(more) : more[j] = all[j]
          <6>1. \A j \in 1 .. Len(more) : j \in 1 .. Len(text) \/ j = Len(text) + 1
            BY <5>4
          <6> QED BY <5>4, <5>5, <5>6, <6>1
        <5>9. new[k].id = full[k].id
          BY <4>1, <4>2, <5>6
        <5>10. more = new[k].text /\ all = full[k].text
          BY <5>1
        <5> QED BY <5>7, <5>8, <5>9, <5>10 DEF BlockBegins
      <4>6. ASSUME NEW j \in 1 .. Len(new) PROVE BlockBegins(new[j], full[j])
        <5>1. CASE j = k
          BY <4>5, <5>1
        <5>2. CASE j # k
          <6>1. j \in 1 .. Len(s) /\ new[j] = s[j]
            BY <4>1, <4>2, <4>3, <5>2
          <6>2. BlockBegins(s[j], full[j])
            BY <1>4, <2>2, <6>1, BeginsIs
          <6> QED BY <6>1, <6>2
        <5> QED BY <5>1, <5>2
      <4>7. new \in Blocks
        BY <4>1
      <4> QED BY <2>3, <4>3, <4>4, <4>6, <4>7
    <3> QED BY <2>4, <3>1, <3>2
  <2>6. Begins(new, full)
    BY <1>4, <2>5, BeginsIs
  <2>7. Len(v.msgs[m.turn].blocks) <= Len(x.blocks) /\ Begins(x.blocks, full)
    BY <2>1, <2>5, <2>6 DEF old
  <2> QED BY <1>1, <1>4, <1>12, <2>7, MessageGrows DEF full
<1> QED BY <1>10, <1>11, <1>12, MergedMakes

\* a Task that ended.
LEMMA TaskText ==
    ASSUME NEW v \in ViewSet, Shows(v), NEW m \in TaskEvents
    PROVE  TextReduced(v, m, TaskTerminal(v, m))
<1>1. m.kind = "task"
  BY DEF TaskEvents
<1>2. PICK w : w = TaskTerminal(v, m)
  OBVIOUS
<1>3. w.msgs = v.msgs
  <2>1. TaskTerminal(v, m).msgs = v.msgs
    <3>1. CASE m.status \in Terminal /\ Mutable(v) # {}
      <4>1. TaskTerminal(v, m) = [v EXCEPT !.resync = TRUE]
        BY <3>1, Zenon DEF TaskTerminal
      <4>2. [v EXCEPT !.resync = TRUE].msgs = v.msgs
        BY ResyncIsNoMessage
      <4> QED BY <4>1, <4>2, Zenon
    <3>2. CASE ~(m.status \in Terminal /\ Mutable(v) # {})
      <4>1. TaskTerminal(v, m) = v
        BY <3>2, Zenon DEF TaskTerminal
      <4> QED BY <4>1, Zenon
    <3> QED BY <3>1, <3>2
  <2> QED BY <1>2, <2>1, Zenon
<1>4. TextReduced(v, m, w)
  BY <1>1, <1>3, MessagesStay
<1> QED BY <1>2, <1>4

\* Whatever the event is, it says what was produced.
LEMMA ReducedText ==
    ASSUME StreamInv, TextInv, NEW v \in ViewSet, ViewHolds(v), Shows(v),
           NEW m \in PageEvents, Said(m), Ready(v, m)
    PROVE  TextReduced(v, m, Reduced(v, m))
<1>1. CASE m.kind = "start"
  <2>1. m \in StartEvents
    BY <1>1, EventTyped
  <2>2. Reduced(v, m) = Started(v, m)
    BY <1>1, Zenon DEF Reduced
  <2> QED BY <2>1, <2>2, StartedText
<1>2. CASE m.kind = "created"
  <2>1. m \in CreatedEvents
    BY <1>2, EventTyped
  <2>2. Reduced(v, m) = BlockCreated(v, m)
    BY <1>2 DEF Reduced
  <2> QED BY <2>1, <2>2, CreatedText
<1>3. CASE m.kind = "updated"
  <2>1. m \in UpdatedEvents
    BY <1>3, EventTyped
  <2>2. Reduced(v, m) = BlockUpdated(v, m)
    BY <1>3 DEF Reduced
  <2> QED BY <2>1, <2>2, UpdatedText
<1>4. CASE m.kind = "chunk"
  <2>1. m \in ChunkEvents
    BY <1>4, EventTyped
  <2>2. Reduced(v, m) = Merged(v, m)
    BY <1>4 DEF Reduced
  <2> QED BY <2>1, <2>2, MergedText
<1>5. CASE m.kind = "ended"
  <2>1. m \in EndedEvents
    BY <1>5, EventTyped
  <2>2. Reduced(v, m) = Ended(v, m)
    BY <1>5 DEF Reduced
  <2> QED BY <2>1, <2>2, EndedText
<1>6. CASE m.kind = "task"
  <2>1. m \in TaskEvents
    BY <1>6, EventTyped
  <2>2. Reduced(v, m) = TaskTerminal(v, m)
    BY <1>6 DEF Reduced
  <2> QED BY <2>1, <2>2, TaskText
<1> QED BY <1>1, <1>2, <1>3, <1>4, <1>5, <1>6, EventTyped

\* What the replay keeps of the text.
TextReached(b, t, f, n, p, x) ==
    /\ x \in ViewSet /\ ViewHolds(x) /\ Shows(x)
    /\ \A k \in Turns : x.msgs[k].known = b.msgs[k].known
    /\ Sequenced(t, f, n, LacksOf(x), p)

\* One event more: the blocks before its own are there.
LEMMA TextReachedNext ==
    ASSUME StreamInv, TextInv, NEW b, NEW t, NEW n, Traffic(t, n), StartsFirst(t, n),
           NEW f \in Nat, f + 1 \in 1 .. n, NEW p, Counts(p), NEW x, TextReached(b, t, f, n, p, x),
           NEW m \in PageEvents, m = t[f + 1], EventHolds(m), Said(m)
    PROVE  /\ TextReached(b, t, f + 1, n, p, Reduced(x, m))
           /\ Consumed(m, LacksOf(x), LacksOf(Reduced(x, m)))
<1>1. x \in ViewSet /\ ViewHolds(x) /\ Shows(x) /\ Sequenced(t, f, n, LacksOf(x), p)
      /\ \A k \in Turns : x.msgs[k].known = b.msgs[k].known
  BY DEF TextReached
<1>2. Ready(x, m)
  <2>1. SUFFICES ASSUME BlockEvent(m), NEW i \in 1 .. At(m) - 1
                 PROVE  i \notin LacksOf(x)[m.gen]
    BY DEF Ready
  <2>2. PICK k \in 1 .. n : k = f + 1 /\ f < k /\ t[k] = m
    <3>1. f + 1 \in 1 .. n /\ f < f + 1 /\ t[f + 1] = m
      OBVIOUS
    <3> QED BY <3>1
  <2>3. Precede(t, f, LacksOf(x), k, m.gen, At(m) - 1)
    <3>1. f < k /\ BlockEvent(t[k])
      BY <2>1, <2>2
    <3>2. Precede(t, f, LacksOf(x), k, t[k].gen, At(t[k]) - 1)
      BY <1>1, <3>1 DEF Sequenced
    <3> QED BY <2>2, <3>2
  <2>4. CreatedIn(t, f, k, m.gen, i) \/ i \notin LacksOf(x)[m.gen]
    BY <2>3 DEF Precede
  <2>5. ~CreatedIn(t, f, k, m.gen, i)
    <3>1. \A c \in DOMAIN t : ~(f < c /\ c < k)
      BY <2>2 DEF Traffic
    <3> QED BY <3>1 DEF CreatedIn
  <2> QED BY <2>4, <2>5
<1>3. PICK w : w = Reduced(x, m)
  OBVIOUS
<1>4. TextReduced(x, m, w)
  BY <1>1, <1>2, <1>3, ReducedText
<1>5. Applied(x, m, w)
  BY <1>1, <1>3, ReducedIs
<1>6. w \in ViewSet /\ ViewHolds(w)
  BY <1>1, <1>5, AppliedHolds DEF Applied
<1>7. m \in Messages /\ ServerTypes
  BY TextIs DEF Messages
<1>8. /\ Shows(w) /\ Consumed(m, LacksOf(x), LacksOf(w))
      /\ \A k \in Turns : w.msgs[k].known = x.msgs[k].known
  BY <1>1, <1>4, <1>6, <1>7, TextReducedShows
<1>9. Sequenced(t, f + 1, n, LacksOf(w), p)
  <2>1. PICK lacks, rest : lacks = LacksOf(x) /\ rest = LacksOf(w)
    OBVIOUS
  <2>2. Consumed(t[f + 1], lacks, rest) /\ Sequenced(t, f, n, lacks, p)
    BY <1>1, <1>8, <2>1
  <2> QED BY <2>1, <2>2, SequencedNext
<1>10. TextReached(b, t, f + 1, n, p, w)
  BY <1>1, <1>6, <1>8, <1>9 DEF TextReached
<1> QED BY <1>3, <1>8, <1>10

\* All of them: otherwise take the first view in between that is not reached.
LEMMA ReplayedText ==
    ASSUME StreamInv, TextInv, NEW b, NEW queue \in Seq(PageEvents),
           \A i \in DOMAIN queue : EventHolds(queue[i]) /\ Said(queue[i]),
           NEW t, NEW n, Traffic(t, n), StartsFirst(t, n), Len(queue) <= n,
           \A i \in DOMAIN queue : t[i] = queue[i],
           NEW p, Counts(p), NEW v, TextReached(b, t, 0, n, p, v)
    PROVE  TextReached(b, t, Len(queue), n, p, Replayed(v, queue))
<1>1. Len(queue) \in Nat /\ DOMAIN queue = 1 .. Len(queue) /\ \A i \in DOMAIN queue : queue[i] \in PageEvents
  OBVIOUS
<1>2. PICK g : /\ g[0] = v
               /\ \A k \in 1 .. Len(queue) : g[k] = Reduced(g[k - 1], queue[k])
               /\ Replayed(v, queue) = g[Len(queue)]
  BY <1>1, ReplayedIs
<1> DEFINE S == {k \in Nat : k <= Len(queue) /\ ~TextReached(b, t, k, n, p, g[k])}
<1>3. SUFFICES ASSUME Len(queue) \in S PROVE FALSE
  BY <1>1, <1>2
<1>4. PICK k \in S : \A y \in S : k <= y
  BY <1>3, LeastIsThere
<1>5. k # 0
  BY <1>2, <1>4
<1>6. k \in Nat /\ k <= Len(queue) /\ ~TextReached(b, t, k, n, p, g[k])
  BY <1>4
<1>7. PICK f \in Nat : f = k - 1 /\ k = f + 1 /\ f <= Len(queue) /\ ~(k <= f) /\ k \in 1 .. Len(queue)
                       /\ f + 1 \in 1 .. n
  <2>1. n \in Nat
    BY DEF Traffic
  <2> QED BY <1>1, <1>5, <1>6, <2>1
<1>8. TextReached(b, t, f, n, p, g[f])
  BY <1>4, <1>7
<1>9. PICK m \in PageEvents : m = queue[k] /\ m = t[f + 1] /\ EventHolds(m) /\ Said(m) /\ g[k] = Reduced(g[f], m)
  <2>1. k \in DOMAIN queue /\ queue[k] \in PageEvents /\ t[k] = queue[k]
    BY <1>1, <1>7
  <2>2. EventHolds(queue[k]) /\ Said(queue[k])
    BY <2>1
  <2>3. g[k] = Reduced(g[f], queue[k])
    BY <1>2, <1>7
  <2> QED BY <1>7, <2>1, <2>2, <2>3
<1>10. TextReached(b, t, f + 1, n, p, Reduced(g[f], m))
  BY <1>7, <1>8, <1>9, TextReachedNext
<1> QED BY <1>6, <1>7, <1>9, <1>10

-----------------------------------------------------------------------------
(* The text of the answer that hydrates a page *)

\* The messages that are not those of the rows or of the entry stay.
LEMMA HydratedTextIs ==
    ASSUME NEW v \in ViewSet, NEW ack \in Acks, EntryHolds(ack.live),
           \A r \in Runs : RunInOrder(r), NEW replace
    PROVE  \A n \in Turns : LET x == Hydrated(v, ack, replace).msgs[n] IN
                /\ x.known = (n \in DOMAIN ack.rows \/ (~replace /\ v.msgs[n].known))
                /\ x.gen # 0 => \/ x.gen = ack.live.gen /\ x.blocks = EntryShown(ack.live)
                                \/ n \notin DOMAIN ack.rows /\ x = v.msgs[n]
<1> DEFINE live == ack.live
           rows == [n \in Turns |->
                      IF n \in DOMAIN ack.rows THEN FromRow(ack.rows[n])
                      ELSE IF replace THEN Absent ELSE v.msgs[n]]
           blocks == IF Reconcilable(live) THEN Reconciled(live) ELSE live.blocks
           merged == [rows EXCEPT ![live.turn] =
                        [@ EXCEPT !.status = "RUNNING", !.gen = live.gen,
                                  !.offset = Len(live.cached), !.blocks = blocks]]
           h == Hydrated(v, ack, replace)
<1>1. live \in StreamSet /\ ack.rows \in RowMaps /\ v.msgs \in [Turns -> ShownSet]
  BY DEF Acks, ViewSet
<1>2. Absent \in ShownSet /\ Absent.gen = 0 /\ Absent.known = FALSE
  BY ZeroIsThere, StatusesAre DEF ShownSet, Absent
<1>3. ASSUME NEW n \in DOMAIN ack.rows
      PROVE  /\ FromRow(ack.rows[n]) \in ShownSet /\ FromRow(ack.rows[n]).gen = 0
             /\ FromRow(ack.rows[n]).known = TRUE
  <2>1. ack.rows[n].status \in StatusSet /\ ack.rows[n].blocks \in Blocks
    BY <1>1, <1>3, RowsTyped DEF RowSet
  <2> QED BY <1>2, <2>1 DEF FromRow, ShownSet, Absent
<1>4. \A n \in Turns :
        /\ rows[n] \in ShownSet
        /\ rows[n].known = (n \in DOMAIN ack.rows \/ (~replace /\ v.msgs[n].known))
        /\ rows[n].gen # 0 => n \notin DOMAIN ack.rows /\ rows[n] = v.msgs[n]
  <2>1. SUFFICES ASSUME NEW n \in Turns
                 PROVE  /\ rows[n] \in ShownSet
                        /\ rows[n].known = (n \in DOMAIN ack.rows \/ (~replace /\ v.msgs[n].known))
                        /\ rows[n].gen # 0 => n \notin DOMAIN ack.rows /\ rows[n] = v.msgs[n]
    OBVIOUS
  <2>2. CASE n \in DOMAIN ack.rows
    <3>1. rows[n] = FromRow(ack.rows[n])
      BY <2>2
    <3> QED BY <1>3, <2>2, <3>1
  <2>3. CASE n \notin DOMAIN ack.rows /\ replace
    <3>1. rows[n] = Absent
      BY <2>3
    <3> QED BY <1>2, <2>3, <3>1
  <2>4. CASE n \notin DOMAIN ack.rows /\ ~replace
    <3>1. rows[n] = v.msgs[n] /\ rows[n] \in ShownSet /\ v.msgs[n].known \in BOOLEAN
      BY <1>1, <2>4 DEF ShownSet
    <3> QED BY <2>4, <3>1
  <2> QED BY <2>2, <2>3, <2>4
<1>5. blocks \in Blocks /\ Len(live.cached) \in 0 .. MaxUnits /\ live.gen \in Runs \cup {0}
  BY <1>1, ReconciledTyped DEF StreamSet
<1>6. rows \in [Turns -> ShownSet]
  BY <1>4
<1>7. h = [v EXCEPT !.msgs = IF live = NoStream THEN rows ELSE merged,
                    !.resync = live # NoStream /\ ~Reconcilable(live)]
  BY DEF Hydrated
<1>8. blocks = EntryShown(live)
  BY Zenon DEF EntryShown
<1> HIDE DEF rows, blocks, h, live
<1>9. CASE live = NoStream
  <2>1. h = [v EXCEPT !.msgs = rows, !.resync = FALSE]
    BY <1>7, <1>9
  <2>2. h.msgs = rows
    BY <1>6, <2>1 DEF ViewSet
  <2> QED BY <1>4, <2>2 DEF h
<1>10. CASE live # NoStream
  <2>1. live.gen # 0 /\ Announced(live.gen, live.turn)
    BY <1>10 DEF EntryHolds, live
  <2>2. live.turn \in Turns
    BY <2>1 DEF Announced, Opened, OpenedRun, RunInOrder, RunHolds
  <2> DEFINE old == rows[live.turn]
             x == [old EXCEPT !.status = "RUNNING", !.gen = live.gen,
                              !.offset = Len(live.cached), !.blocks = blocks]
  <2>3. old \in ShownSet
    BY <1>4, <2>2
  <2>4. x \in ShownSet /\ x.gen = live.gen /\ x.blocks = blocks /\ x.known = old.known
    <3> HIDE DEF old
    <3> QED BY <1>5, <2>3, StatusesAre DEF ShownSet
  <2>5. merged = [rows EXCEPT ![live.turn] = x]
    BY <1>6, <2>2
  <2>6. old = rows[live.turn]
    OBVIOUS
  <2> HIDE DEF x, old
  <2>7. /\ merged \in [Turns -> ShownSet]
        /\ \A n \in Turns : merged[n] = IF n = live.turn THEN x ELSE rows[n]
    BY <1>6, <2>2, <2>4, <2>5
  <2> HIDE DEF merged
  <2>8. h = [v EXCEPT !.msgs = merged, !.resync = ~Reconcilable(live)]
    BY <1>7, <1>10
  <2>9. h.msgs = merged
    <3> DEFINE c == ~Reconcilable(live)
    <3> HIDE DEF c
    <3>1. h = [v EXCEPT !.msgs = merged, !.resync = c]
      BY <2>8 DEF c
    <3> QED BY <2>7, <3>1 DEF ViewSet
  <2>10. \A n \in Turns :
            /\ merged[n].known = (n \in DOMAIN ack.rows \/ (~replace /\ v.msgs[n].known))
            /\ merged[n].gen # 0 => \/ merged[n].gen = live.gen /\ merged[n].blocks = blocks
                                    \/ n \notin DOMAIN ack.rows /\ merged[n] = v.msgs[n]
    <3>1. SUFFICES ASSUME NEW n \in Turns
                   PROVE  /\ merged[n].known = (n \in DOMAIN ack.rows \/ (~replace /\ v.msgs[n].known))
                          /\ merged[n].gen # 0 => \/ merged[n].gen = live.gen /\ merged[n].blocks = blocks
                                                  \/ n \notin DOMAIN ack.rows /\ merged[n] = v.msgs[n]
      OBVIOUS
    <3>2. CASE n = live.turn
      <4>1. merged[n] = x /\ x.known = rows[n].known
        BY <2>4, <2>6, <2>7, <3>2
      <4> QED BY <1>4, <2>4, <4>1
    <3>3. CASE n # live.turn
      <4>1. merged[n] = rows[n]
        BY <2>7, <3>3
      <4> QED BY <1>4, <4>1
    <3> QED BY <3>2, <3>3
  <2> QED BY <1>8, <2>9, <2>10 DEF h, live
<1> QED BY <1>9, <1>10

\* What a page makes of an entry has the blocks of the entry.
LEMMA EntryShownIs ==
    ASSUME NEW l \in StreamSet
    PROVE  EntryShown(l) \in Blocks /\ Len(EntryShown(l)) = Len(l.blocks)
<1>1. Reconciled(l) \in Blocks /\ l.blocks \in Blocks
  BY ReconciledTyped
<1>2. DOMAIN Reconciled(l) = DOMAIN l.blocks
  BY DEF Reconciled
<1>3. Len(Reconciled(l)) = Len(l.blocks)
  <2>1. PICK a, b : a = Reconciled(l) /\ b = l.blocks
    OBVIOUS
  <2>2. a \in Blocks /\ b \in Blocks /\ DOMAIN a = DOMAIN b
    BY <1>1, <1>2, <2>1
  <2>3. Len(a) \in Nat /\ Len(b) \in Nat /\ DOMAIN a = 1 .. Len(a) /\ DOMAIN b = 1 .. Len(b)
    BY <2>2, BlocksAre
  <2>4. PICK m \in Nat, k \in Nat : m = Len(a) /\ k = Len(b) /\ 1 .. m = 1 .. k
    BY <2>2, <2>3
  <2>5. m = k
    <3>1. m # 0 => m \in 1 .. m
      OBVIOUS
    <3>2. k # 0 => k \in 1 .. k
      OBVIOUS
    <3> QED BY <2>4, <3>1, <3>2
  <2> QED BY <2>1, <2>4, <2>5
<1>4. EntryShown(l) = Reconciled(l) \/ EntryShown(l) = l.blocks
  BY Zenon DEF EntryShown
<1> QED BY <1>1, <1>3, <1>4, Zenon

\* The page that is hydrated shows text of the entry, lacks what the entry lacks,
\* and what it knows has no gap.
LEMMA HydratedText ==
    ASSUME StreamInv, TextInv, NEW v \in ViewSet, ViewHolds(v), KnownDown(v),
           NEW ack \in Acks, RowsHold(ack.rows), EntryHolds(ack.live), NotBehind(v, ack.live),
           EntryText(ack.live), NEW replace, RowsReach(v, ack.rows, replace), NEW x,
           x = Hydrated(v, ack, replace)
    PROVE  /\ x \in ViewSet /\ ViewHolds(x) /\ Shows(x) /\ KnownDown(x)
           /\ \A g \in Runs : LacksOf(x)[g] \subseteq LacksEntry(ack.live)[g]
<1>1. OneByOne /\ (\A r \in Runs : RunInOrder(r)) /\ ack.live \in StreamSet
  BY PageIs DEF Acks
<1>2. x \in ViewSet /\ ViewHolds(x)
  <2>1. PICK w : w = <<>>
    OBVIOUS
  <2>2. w \in Seq(Messages) /\ \A j : ~(j \in DOMAIN w)
    BY <2>1, EmptyIs
  <2>3. Reached(v, w, x)
    BY <1>1, <2>2, HydratedReached
  <2> QED BY <2>3 DEF Reached
<1>3. \A n \in Turns :
          /\ x.msgs[n].known = (n \in DOMAIN ack.rows \/ (~replace /\ v.msgs[n].known))
          /\ x.msgs[n].gen # 0 => \/ x.msgs[n].gen = ack.live.gen /\ x.msgs[n].blocks = EntryShown(ack.live)
                                  \/ n \notin DOMAIN ack.rows /\ x.msgs[n] = v.msgs[n]
  BY <1>1, HydratedTextIs
<1>4. \A n \in Turns : x.msgs[n].gen # 0 =>
          x.msgs[n].gen = ack.live.gen /\ x.msgs[n].blocks = EntryShown(ack.live)
  BY <1>3 DEF RowsReach
<1>5. Shows(x)
  BY <1>4 DEF Shows, EntryText
<1>6. KnownDown(x)
  <2>1. SUFFICES ASSUME NEW n \in Turns, NEW k \in Turns, n < k, x.msgs[k].known
                 PROVE  x.msgs[n].known
    BY DEF KnownDown
  <2>2. CASE k \in DOMAIN ack.rows
    BY <1>3, <2>1, <2>2 DEF RowsReach
  <2>3. CASE ~replace /\ v.msgs[k].known
    <3>1. v.msgs[n].known
      BY <2>1, <2>3 DEF KnownDown
    <3> QED BY <1>3, <2>3, <3>1
  <2> QED BY <1>3, <2>1, <2>2, <2>3
<1>7. ASSUME NEW g \in Runs
      PROVE  LacksOf(x)[g] \subseteq LacksEntry(ack.live)[g]
  <2>1. SUFFICES ASSUME NEW i \in LacksOf(x)[g] PROVE i \in LacksEntry(ack.live)[g]
    OBVIOUS
  <2>2. g # 0
    BY DEF Runs
  <2>3. i \in Nat /\ \E n \in Turns : x.msgs[n].gen = g /\ Len(x.msgs[n].blocks) < i
    BY <2>1 DEF LacksOf
  <2>4. PICK n \in Turns : x.msgs[n].gen = g /\ Len(x.msgs[n].blocks) < i
    BY <2>3
  <2>5. ack.live.gen = g /\ Len(ack.live.blocks) < i
    BY <1>1, <1>4, <2>2, <2>4, EntryShownIs
  <2> QED BY <2>3, <2>5 DEF LacksEntry
<1> QED BY <1>2, <1>5, <1>6, <1>7

-----------------------------------------------------------------------------
(* The steps of the page, and the text *)

\* What the page is told, part by part.
LEMMA PageTextIs ==
    ASSUME StreamInv, TextInv
    PROVE  /\ Tells(wire, hook.queue, view, ask) /\ Reaches(wire, view, ask, hook)
           /\ Listens(wire, hook.queue, view, ask, hook, room, Promised)
           /\ Counts(Promised) /\ OneAnswer(wire, ask, hook)
           /\ wire \in Seq(Messages) /\ hook.queue \in Seq(PageEvents)
           /\ view \in ViewSet /\ ask \in AskSet /\ hook \in HookSet /\ ViewHolds(view)
           /\ Shows(view) /\ KnownDown(view) /\ EntryText(ask.live)
           /\ (~hook.hydrated => \A n \in Turns : ~view.msgs[n].known)
<1>1. PageText /\ ServerTypes
  BY TextIs
<1>2. hook.queue \in Seq(PageEvents)
  BY PageIs DEF HookSet
<1>3. Tells(wire, hook.queue, view, ask) /\ Reaches(wire, view, ask, hook)
  BY <1>1 DEF PageText
<1>4. Shows(view) /\ EntryText(ask.live)
  BY <1>3, Zenon DEF Tells
<1>5. KnownDown(view) /\ (~hook.hydrated => \A n \in Turns : ~view.msgs[n].known)
  BY <1>3, Zenon DEF Reaches
<1>6. Listens(wire, hook.queue, view, ask, hook, room, Promised)
  BY <1>1 DEF PageText
<1> QED BY <1>1, <1>2, <1>3, <1>4, <1>5, <1>6, PageIs, PromisedIs

\* A step of the page: the text of the server stays.
LEMMA PageStepText ==
    ASSUME StreamInv, TextInv, ServerInv', UNCHANGED server,
           NEW w \in Seq(Messages), NEW queue \in Seq(PageEvents), NEW v \in ViewSet, NEW a \in AskSet,
           NEW h, NEW in,
           w = wire', queue = hook'.queue, v = view', a = ask', h = hook', in = room',
           Tells(w, queue, v, a), Reaches(w, v, a, h), Listens(w, queue, v, a, h, in, Promised)
    PROVE  TextInv'
<1>1. durable' = durable /\ run' = run /\ stream' = stream
  BY DEF server
<1>2. /\ ServerTypes /\ ServerTypes' /\ TurnsInOrder /\ EntryText(stream)
      /\ \A q \in Runs : RunTextOf(q, run[q]) /\ StreamTextOf(run[q], stream) /\ RunEventText(q)
  BY TextIs, ServerNextIs
<1>3. TextGrows
  <2>1. \A q \in Runs : Begins(run[q].blocks, run'[q].blocks)
    BY <1>1, <1>2, RunTyped, BeginsSame
  <2>2. Len(stream.blocks) \in Nat
    <3>1. \E r : r \in Runs
      BY BoundsAssumption DEF Runs
    <3> QED BY <1>2, <3>1, RunTyped, BlocksAre
  <2> QED BY <1>1, <2>1, <2>2 DEF TextGrows
<1>4. \A q \in Runs : (RunText(q) /\ StreamText(q) /\ RunEventText(q))'
  <2>1. ASSUME NEW q \in Runs
        PROVE  (RunText(q) /\ StreamText(q))'
    <3>1. RunTextOf(q, run'[q]) /\ StreamTextOf(run'[q], stream')
      BY <1>1, <1>2
    <3> QED BY <3>1, TextOfIs
  <2>2. ASSUME NEW q \in Runs
        PROVE  RunEventText(q)'
    <3>1. RunEventTextOf(run[q], run, stream)
      BY <1>2, EventTextIs
    <3>2. RunEventTextOf(run'[q], run', stream')
      BY <1>1, <3>1
    <3> QED BY <3>2, EventTextIs
  <2> QED BY <2>1, <2>2
<1>5. EntryText(stream)'
  BY <1>1, <1>2, <1>3, EntryStays
<1>6. TurnsInOrder'
  BY <1>1, <1>2 DEF TurnsInOrder, Exists
<1>7. ServerText'
  BY <1>4, <1>5, <1>6 DEF ServerText
<1>8. Promised' = Promised
  <2>1. /\ Promised = [r \in Runs |-> Promised[r]] /\ Promised' = [r \in Runs |-> Promised'[r]]
    BY <1>2, PromisedIs DEF Counts
  <2>2. \A r \in Runs : Promised'[r] = Promised[r]
    BY <1>1, TextOfIs
  <2> QED BY <2>1, <2>2
<1>9. Tells(w, queue, v, a) /\ Reaches(w, v, a, hook') /\ Listens(w, queue, v, a, hook', room', Promised')
  BY <1>8
<1>10. PageText'
  BY <1>2, <1>3, <1>9, TextFollows
<1> QED BY <1>7, <1>10 DEF TextInv

\* No join is under way: nothing is answered on the connection.
LEMMA NoneWaits ==
    ASSUME NEW w, NEW a, NEW h, OneAnswer(w, a, h), ~h.joining
    PROVE  a.pc = "none" /\ h.queue = <<>> /\ \A i \in DOMAIN w : ~IsAnswer(w[i])
BY DEF OneAnswer

\* What is taken from the connection, or not.
LEMMA TellsTail ==
    ASSUME NEW w \in Seq(Messages), NEW queue, NEW v, NEW a, Tells(w, queue, v, a), w # <<>>
    PROVE  Said(Head(w)) /\ Tells(Tail(w), queue, v, a) /\ (Head(w).kind = "ack" => EntryText(Head(w).live))
<1> DEFINE x == Tail(w)
           m == Head(w)
<1>1. 1 \in DOMAIN w /\ m = w[1] /\ \A i \in DOMAIN x : i + 1 \in DOMAIN w /\ x[i] = w[i + 1]
  BY TailIs
<1> HIDE DEF x, m
<1>2. \A i \in DOMAIN x : Said(x[i]) /\ (x[i].kind = "ack" => EntryText(x[i].live))
  BY <1>1 DEF Tells
<1>3. Said(m) /\ (m.kind = "ack" => EntryText(m.live))
  BY <1>1 DEF Tells
<1>4. Tells(x, queue, v, a)
  BY <1>2 DEF Tells
<1> QED BY <1>3, <1>4 DEF x, m

\* The rows of an answer that is taken, and those that are still to come.
LEMMA ReachesTail ==
    ASSUME NEW w \in Seq(Messages), NEW v, NEW a, NEW h, Reaches(w, v, a, h), w # <<>>,
           NEW k, k.hydrated = h.hydrated, k.replace = h.replace
    PROVE  /\ Reaches(Tail(w), v, a, k)
           /\ Head(w).kind = "ack" => RowsReach(v, Head(w).rows, h.replace)
<1> DEFINE x == Tail(w)
           m == Head(w)
<1>1. 1 \in DOMAIN w /\ m = w[1] /\ \A i \in DOMAIN x : i + 1 \in DOMAIN w /\ x[i] = w[i + 1]
  BY TailIs
<1> HIDE DEF x, m
<1>2. \A i \in DOMAIN x : x[i].kind = "ack" => RowsReach(v, x[i].rows, h.replace)
  BY <1>1 DEF Reaches
<1>3. m.kind = "ack" => RowsReach(v, m.rows, h.replace)
  BY <1>1 DEF Reaches
<1>4. Reaches(x, v, a, k)
  BY <1>2 DEF Reaches
<1> QED BY <1>3, <1>4 DEF x, m

\* The cursor from which a page that knows its messages without a gap asks for the
\* rest: what may change comes after it.
LEMMA CursorAsks ==
    ASSUME StreamInv, NEW v \in ViewSet, ViewHolds(v), KnownDown(v), NEW hydrated,
           ~hydrated => \A n \in Turns : ~v.msgs[n].known, NEW replace, replace = ~hydrated
    PROVE  Asks(v, Cursor(v), replace)
<1> DEFINE known == {n \in Turns : v.msgs[n].known}
           stable == {n \in known : \A k \in known \cap Mutable(v) : n < k}
<1>1. PICK c : c = Cursor(v)
  OBVIOUS
<1>2. (stable = {} /\ c = 0) \/ (stable # {} /\ c = Max(stable))
  BY <1>1, Zenon DEF Cursor
<1>3. stable # {} => Max(stable) \in stable
  <2>1. MaxTurns \in Nat /\ stable \in SUBSET (1 .. MaxTurns)
    BY BoundsAssumption DEF Turns
  <2> HIDE DEF stable
  <2> QED BY <2>1, GreatestIsThere
<1>4. c = 0 \/ c \in stable
  BY <1>2, <1>3
<1>5. c # 0 => c \in Turns /\ v.msgs[c].known /\ \A k \in Turns : v.msgs[k].known /\ k \in Mutable(v) => c < k
  BY <1>4
<1> HIDE DEF known, stable
<1>6. replace => c = 0
  BY <1>5
<1>7. ASSUME NEW n \in Turns, v.msgs[n].gen # 0
      PROVE  c < n
  <2>1. n \in Nat /\ 0 < n
    BY DEF Turns
  <2>2. n \in Mutable(v)
    BY <1>7, StatusesAre DEF ViewHolds, Mutable
  <2>3. CASE c = 0
    BY <2>1, <2>3
  <2>4. CASE c # 0 /\ v.msgs[n].known
    BY <1>5, <2>2, <2>4
  <2>5. CASE c # 0 /\ ~v.msgs[n].known
    <3>1. c \in Nat /\ c # n /\ c \in Turns
      BY <1>5, <2>5 DEF Turns
    <3>2. ~(n < c)
      BY <1>5, <2>5, <3>1 DEF KnownDown
    <3> QED BY <2>1, <3>1, <3>2
  <2> QED BY <2>3, <2>4, <2>5
<1>8. Asks(v, c, replace)
  BY <1>5, <1>6, <1>7 DEF Asks
<1> QED BY <1>1, <1>8

\* What joinAndHydrate leaves.
LEMMA RequestIs ==
    ASSUME NEW h \in HookSet, NEW after \in Nat, NEW replace \in BOOLEAN, Request(h, after, replace)
    PROVE  /\ hook'.up = h.up /\ ~hook'.ready /\ hook'.replace = replace /\ hook'.queue = <<>>
           /\ hook'.hydrated = h.hydrated
           /\ ask' \in AskSet /\ ask'.pc = "asked" /\ ask'.after = after /\ EntryText(ask'.live)
<1>1. /\ hook' = [h EXCEPT !.joining = TRUE, !.ready = FALSE, !.replace = replace, !.queue = <<>>]
      /\ ask' = [NoAsk EXCEPT !.pc = "asked", !.after = after]
  BY DEF Request
<1>2. /\ hook'.up = h.up /\ ~hook'.ready /\ hook'.replace = replace /\ hook'.queue = <<>>
      /\ hook'.hydrated = h.hydrated
  BY <1>1 DEF HookSet
<1>3. ask' \in AskSet /\ ask'.pc = "asked" /\ ask'.after = after /\ ask'.live = NoAsk.live
  BY <1>1, NoAskTyped DEF AskSet
<1>4. NoAsk.live = NoStream /\ NoStream.gen = 0
  BY DEF NoAsk, NoStream
<1> QED BY <1>2, <1>3, <1>4 DEF EntryText

\* The page connects: it asks from its cursor on.
LEMMA ConnectText ==
    ASSUME StreamInv, TextInv, ServerInv', Connect
    PROVE  TextInv'
<1>1. /\ ~hook.up /\ Request([hook EXCEPT !.up = TRUE], Cursor(view), ~hook.hydrated)
      /\ room' = room /\ wire' = wire /\ view' = view /\ UNCHANGED server
  BY DEF Connect
<1>2. PICK h : h = [hook EXCEPT !.up = TRUE]
  OBVIOUS
<1>3. h \in HookSet /\ h.hydrated = hook.hydrated /\ (~hook.hydrated) \in BOOLEAN /\ Cursor(view) \in Nat
  BY <1>2, PageIs, CursorTyped DEF HookSet
<1>4. PICK after \in Nat, replace \in BOOLEAN : after = Cursor(view) /\ replace = ~hook.hydrated
  BY <1>3
<1>5. PICK k, a : k = hook' /\ a = ask'
  OBVIOUS
<1>6. /\ ~k.ready /\ k.replace = replace /\ k.queue = <<>> /\ k.hydrated = hook.hydrated
      /\ a \in AskSet /\ a.pc = "asked" /\ a.after = after /\ EntryText(a.live)
  <2>1. Request(h, after, replace)
    BY <1>1, <1>2, <1>4
  <2> QED BY <1>3, <1>5, <2>1, RequestIs
<1>7. PICK w, in : w = <<>> /\ in = room'
  OBVIOUS
<1>8. w = wire' /\ ~in
  <2>1. Listens(wire, hook.queue, view, ask, hook, room, Promised)
    BY PageTextIs
  <2>2. ~room /\ wire = <<>>
    BY <1>1, <2>1, Zenon DEF Listens
  <2> QED BY <1>1, <1>7, <2>2
<1>9. w \in Seq(Messages) /\ w \in Seq(PageEvents) /\ \A i : ~(i \in DOMAIN w)
  BY <1>7, EmptyIs
<1>10. Tells(w, w, view, a)
  BY <1>6, <1>9, PageTextIs, Zenon DEF Tells
<1>11. Asks(view, after, replace)
  BY <1>4, PageTextIs, CursorAsks
<1>12. Reaches(w, view, a, k)
  <2>1. a.pc \in {"asked", "entered"} => Asks(view, a.after, k.replace)
    BY <1>6, <1>11
  <2>2. ~(a.pc \in {"read", "snapped"})
    BY <1>6
  <2>3. KnownDown(view) /\ (~k.hydrated => \A n \in Turns : ~view.msgs[n].known)
    BY <1>6, PageTextIs
  <2> QED BY <1>9, <2>1, <2>2, <2>3, Zenon DEF Reaches
<1>13. Listens(w, w, view, a, k, in, Promised)
  <2>1. a.pc \in {"none", "asked"} /\ ~(k.ready /\ k.up)
    BY <1>6
  <2>2. PICK p : p = Promised
    OBVIOUS
  <2>3. Listens(<<>>, <<>>, view, a, k, in, p)
    BY <1>8, <2>1, ListensNew
  <2> QED BY <1>7, <2>2, <2>3
<1>14. w = hook'.queue /\ view = view' /\ a = ask' /\ k = hook' /\ in = room' /\ view \in ViewSet
  BY <1>1, <1>5, <1>6, <1>7, PageTextIs
<1> QED BY <1>1, <1>6, <1>8, <1>9, <1>10, <1>12, <1>13, <1>14, PageStepText

\* Its connection is lost.
LEMMA DisconnectText ==
    ASSUME StreamInv, TextInv, ServerInv', Disconnect
    PROVE  TextInv'
<1>1. /\ hook' = Cut(hook) /\ room' = FALSE /\ ask' = NoAsk /\ wire' = <<>>
      /\ UNCHANGED server /\ view' = view
  BY DEF Disconnect
<1>2. PICK h : h = Cut(hook)
  OBVIOUS
<1>3. ~h.up /\ h.hydrated = hook.hydrated /\ h.queue = <<>>
  BY <1>2, PageIs DEF Cut, HookSet
<1>4. PICK a : a = NoAsk
  OBVIOUS
<1>5. a \in AskSet /\ a.pc = "none" /\ EntryText(a.live)
  BY <1>4, NoAskTyped DEF NoAsk, NoStream, EntryText
<1>6. PICK w, in : w = <<>> /\ in = room' /\ ~in
  BY <1>1
<1>7. w \in Seq(Messages) /\ w \in Seq(PageEvents) /\ \A i : ~(i \in DOMAIN w)
  BY <1>6, EmptyIs
<1>8. Tells(w, w, view, a)
  BY <1>5, <1>7, PageTextIs, Zenon DEF Tells
<1>9. Reaches(w, view, a, h)
  <2>1. ~(a.pc \in {"asked", "entered"}) /\ ~(a.pc \in {"read", "snapped"})
    BY <1>5
  <2>2. KnownDown(view) /\ (~h.hydrated => \A n \in Turns : ~view.msgs[n].known)
    BY <1>3, PageTextIs
  <2> QED BY <1>7, <2>1, <2>2, Zenon DEF Reaches
<1>10. Listens(w, w, view, a, h, in, Promised)
  <2>1. a.pc \in {"none", "asked"} /\ ~(h.ready /\ h.up)
    BY <1>3, <1>5
  <2>2. PICK p : p = Promised
    OBVIOUS
  <2>3. Listens(<<>>, <<>>, view, a, h, in, p)
    BY <1>6, <2>1, ListensNew
  <2> QED BY <1>6, <2>2, <2>3
<1>11. w = wire' /\ w = hook'.queue /\ view = view' /\ a = ask' /\ h = hook' /\ in = room' /\ view \in ViewSet
  BY <1>1, <1>2, <1>3, <1>4, <1>6, PageTextIs
<1> QED BY <1>1, <1>5, <1>7, <1>8, <1>9, <1>10, <1>11, PageStepText

\* The handler of a join goes on: only what it has changes.
LEMMA AskStepText ==
    ASSUME StreamInv, TextInv, ServerInv', UNCHANGED server, hook' = hook, view' = view, wire' = wire,
           NEW a \in AskSet, a = ask', NEW in, in = room', EntryText(a.live),
           a.pc \in {"asked", "entered"} => Asks(view, a.after, hook.replace),
           a.pc \in {"read", "snapped"} => RowsReach(view, a.rows, hook.replace),
           Listens(wire, hook.queue, view, a, hook, in, Promised)
    PROVE  TextInv'
<1>1. PICK w, queue, v, h : w = wire /\ queue = hook.queue /\ v = view /\ h = hook
  OBVIOUS
<1>2. /\ Tells(w, queue, v, ask) /\ Reaches(w, v, ask, h) /\ w \in Seq(Messages)
      /\ queue \in Seq(PageEvents) /\ v \in ViewSet
  BY <1>1, PageTextIs
<1>3. Tells(w, queue, v, a)
  BY <1>2, Zenon DEF Tells
<1>4. Reaches(w, v, a, h)
  <2>1. /\ a.pc \in {"asked", "entered"} => Asks(v, a.after, h.replace)
        /\ a.pc \in {"read", "snapped"} => RowsReach(v, a.rows, h.replace)
    BY <1>1
  <2> QED BY <1>2, <2>1, Zenon DEF Reaches
<1>5. Listens(w, queue, v, a, h, in, Promised)
  BY <1>1
<1>6. w = wire' /\ queue = hook'.queue /\ v = view' /\ h = hook'
  BY <1>1
<1> QED BY <1>2, <1>3, <1>4, <1>5, <1>6, PageStepText

\* It enters the room,
LEMMA JoinRoomText ==
    ASSUME StreamInv, TextInv, ServerInv', JoinRoom
    PROVE  TextInv'
<1>1. /\ ask.pc = "asked" /\ room' = TRUE /\ ask' = [ask EXCEPT !.pc = "entered"]
      /\ UNCHANGED server /\ wire' = wire /\ hook' = hook /\ view' = view
  BY DEF JoinRoom, page
<1>2. PICK a, in : a = ask' /\ in = room'
  OBVIOUS
<1>3. a \in AskSet /\ a.live = ask.live /\ a.pc = "entered" /\ a.after = ask.after /\ in
  BY <1>1, <1>2, PageTextIs DEF AskSet
<1>4. Asks(view, ask.after, hook.replace)
  <2>1. Reaches(wire, view, ask, hook)
    BY PageTextIs
  <2> QED BY <1>1, <2>1, Zenon DEF Reaches
<1>5. Listens(wire, hook.queue, view, a, hook, in, Promised)
  <2>1. PICK p, queue, b : p = Promised /\ queue = hook.queue /\ b = ask
    OBVIOUS
  <2>2. Listens(wire, queue, view, b, hook, room, p) /\ OneAnswer(wire, b, hook)
    BY <2>1, PageTextIs
  <2>3. b.pc \in {"asked", "entered"} /\ a.pc \in {"entered", "read"} /\ IsIn(in)
    BY <1>1, <1>3, <2>1 DEF IsIn
  <2>4. Listens(wire, queue, view, a, hook, in, p)
    BY <2>2, <2>3, ListensEntered
  <2> QED BY <2>1, <2>4
<1>6. EntryText(a.live) /\ (a.pc \in {"asked", "entered"} => Asks(view, a.after, hook.replace))
      /\ ~(a.pc \in {"read", "snapped"})
  BY <1>3, <1>4, PageTextIs
<1> QED BY <1>1, <1>2, <1>3, <1>5, <1>6, AskStepText

\* reads the rows, which reach from the cursor to the last turn,
LEMMA RowsAfterReach ==
    ASSUME StreamInv, TextInv, NEW v \in ViewSet, ViewHolds(v), KnownDown(v),
           NEW after \in Nat, NEW replace, Asks(v, after, replace)
    PROVE  RowsReach(v, RowsAfter(after), replace)
<1>1. PICK rows : rows = RowsAfter(after)
  OBVIOUS
<1>2. \A n : n \in DOMAIN rows <=> n \in Turns /\ n > after /\ Exists(n)
  <2> DEFINE ns == {k \in Turns : k > after /\ Exists(k)}
  <2>1. rows = [n \in ns |-> durable[n]]
    BY <1>1 DEF RowsAfter
  <2>2. DOMAIN rows = ns
    BY <2>1
  <2> QED BY <2>2
<1>3. TurnsInOrder
  BY TextIs
<1>4. ASSUME NEW n \in Turns, v.msgs[n].gen # 0
      PROVE  n \in DOMAIN rows
  <2>1. after < n
    BY <1>4 DEF Asks
  <2>2. Announced(v.msgs[n].gen, n)
    BY <1>4 DEF ViewHolds
  <2>3. PICK g \in Runs : Opened(g) /\ run[g].turn = n
    BY <2>2 DEF Announced
  <2>4. Exists(n)
    BY <1>3, <2>3 DEF TurnsInOrder, Opened, OpenedRun
  <2> QED BY <1>2, <2>1, <2>4 DEF Turns
<1>5. ASSUME NEW n \in Turns, NEW k \in Turns, n < k, k \in DOMAIN rows
      PROVE  n \in DOMAIN rows \/ (~replace /\ v.msgs[n].known)
  <2>1. Exists(n)
    BY <1>2, <1>3, <1>5 DEF TurnsInOrder
  <2>2. CASE n > after
    BY <1>2, <2>1, <2>2
  <2>3. CASE ~(n > after)
    <3>1. n \in Nat /\ 0 < n
      BY DEF Turns
    <3>2. after # 0 /\ after \in Turns /\ v.msgs[after].known /\ ~replace
      BY <2>3, <3>1 DEF Asks
    <3>3. n = after \/ n < after
      BY <2>3, <3>1
    <3>4. v.msgs[n].known
      BY <3>2, <3>3 DEF KnownDown
    <3> QED BY <3>2, <3>4
  <2> QED BY <2>2, <2>3
<1>6. RowsReach(v, rows, replace)
  BY <1>4, <1>5 DEF RowsReach
<1> QED BY <1>1, <1>6

\* The join reads the rows after its cursor.
LEMMA JoinReadText ==
    ASSUME StreamInv, TextInv, ServerInv', PageInv', JoinRead
    PROVE  TextInv'
<1>1. PICK rows : rows = RowsAfter(ask.after)
  OBVIOUS
<1>2. /\ ask.pc = "entered" /\ room' = room /\ ask' = [ask EXCEPT !.rows = rows, !.pc = "read"]
      /\ UNCHANGED server /\ wire' = wire /\ hook' = hook /\ view' = view
  BY <1>1 DEF JoinRead, page
<1>3. PICK a, in : a = ask' /\ in = room' /\ in = room
  BY <1>2
<1>4. a \in AskSet
  BY <1>3 DEF PageInv, PageHolds
<1>5. ask \in AskSet /\ ask.after \in Nat
  BY PageTextIs DEF AskSet
<1>6. a.live = ask.live /\ a.pc = "read" /\ a.rows = rows
  BY <1>2, <1>3, <1>5 DEF AskSet
<1>7. Asks(view, ask.after, hook.replace)
  <2>1. Reaches(wire, view, ask, hook)
    BY PageTextIs
  <2> QED BY <1>2, <2>1, Zenon DEF Reaches
<1>8. RowsReach(view, rows, hook.replace)
  BY <1>1, <1>5, <1>7, PageTextIs, RowsAfterReach
<1>9. in
  <2>1. Listens(wire, hook.queue, view, ask, hook, room, Promised)
    BY PageTextIs
  <2>2. room
    BY <1>2, <2>1, Zenon DEF Listens
  <2> QED BY <1>3, <2>2
<1>10. Listens(wire, hook.queue, view, a, hook, in, Promised)
  <2>1. PICK p, queue, b : p = Promised /\ queue = hook.queue /\ b = ask
    OBVIOUS
  <2>2. Listens(wire, queue, view, b, hook, room, p) /\ OneAnswer(wire, b, hook)
    BY <2>1, PageTextIs
  <2>3. b.pc \in {"asked", "entered"} /\ a.pc \in {"entered", "read"} /\ IsIn(in)
    BY <1>2, <1>6, <1>9, <2>1 DEF IsIn
  <2>4. Listens(wire, queue, view, a, hook, in, p)
    BY <2>2, <2>3, ListensEntered
  <2> QED BY <2>1, <2>4
<1>11. EntryText(a.live) /\ ~(a.pc \in {"asked", "entered"})
       /\ (a.pc \in {"read", "snapped"} => RowsReach(view, a.rows, hook.replace))
  BY <1>6, <1>8, PageTextIs
<1> QED BY <1>2, <1>3, <1>4, <1>10, <1>11, AskStepText

\* takes the snapshot, which has every block whose event the page may have had,
LEMMA JoinSnapshotText ==
    ASSUME StreamInv, TextInv, ServerInv', JoinSnapshot
    PROVE  TextInv'
<1>1. /\ ask.pc = "read" /\ room' = room /\ ask' = [ask EXCEPT !.live = stream, !.pc = "snapped"]
      /\ UNCHANGED server /\ wire' = wire /\ hook' = hook /\ view' = view
  BY DEF JoinSnapshot, page
<1>2. PICK l : l = stream
  OBVIOUS
<1>3. l \in StreamSet /\ EntryText(l)
  BY <1>2, TextIs DEF ServerTypes
<1>4. PICK a, in : a = ask' /\ in = room' /\ in = room
  BY <1>1
<1>5. a \in AskSet /\ a.live = l /\ a.pc = "snapped" /\ a.rows = ask.rows
  BY <1>1, <1>2, <1>3, <1>4, PageTextIs DEF AskSet
<1>6. RowsReach(view, ask.rows, hook.replace)
  <2>1. Reaches(wire, view, ask, hook)
    BY PageTextIs
  <2> QED BY <1>1, <2>1, Zenon DEF Reaches
<1>7. PICK t : t = Transit(hook.queue, wire)
  OBVIOUS
<1>8. ASSUME NEW k \in 1 .. Len(hook.queue) + Len(wire), BlockEvent(t[k]), t[k].gen = l.gen
      PROVE  At(t[k]) <= Len(l.blocks)
  <2>1. \/ k \in DOMAIN hook.queue /\ t[k] = hook.queue[k]
        \/ k - Len(hook.queue) \in DOMAIN wire /\ t[k] = wire[k - Len(hook.queue)]
    BY <1>7, PageTextIs, TransitIs
  <2>2. Tells(wire, hook.queue, view, ask)
    BY PageTextIs
  <2>3. Said(t[k])
    <3>1. /\ \A i \in DOMAIN wire : Said(wire[i])
          /\ \A i \in DOMAIN hook.queue : Said(hook.queue[i])
      BY <2>2, Zenon DEF Tells
    <3>2. CASE k \in DOMAIN hook.queue /\ t[k] = hook.queue[k]
      BY <3>1, <3>2
    <3>3. CASE k - Len(hook.queue) \in DOMAIN wire /\ t[k] = wire[k - Len(hook.queue)]
      BY <3>1, <3>3
    <3> QED BY <2>1, <3>2, <3>3
  <2> QED BY <1>2, <1>8, <2>3 DEF Said
<1>9. \A r \in Runs : r = l.gen => Promised[r] <= Len(l.blocks)
  BY <1>2, PromisedSome
<1>10. Listens(wire, hook.queue, view, a, hook, in, Promised)
  <2>1. PICK p : p = Promised
    OBVIOUS
  <2>2. PICK queue, w : queue = hook.queue /\ w = wire
    OBVIOUS
  <2>3. \A k \in 1 .. Len(queue) + Len(w) : BlockEvent(Transit(queue, w)[k]) /\ Transit(queue, w)[k].gen = l.gen
                                              => At(Transit(queue, w)[k]) <= Len(l.blocks)
    BY <1>7, <1>8, <2>2
  <2>4. \A r \in Runs : r = l.gen => p[r] <= Len(l.blocks)
    BY <1>9, <2>1
  <2>5. /\ queue \in Seq(PageEvents) /\ w \in Seq(Messages) /\ Counts(p) /\ OneAnswer(w, ask, hook)
        /\ Listens(w, queue, view, ask, hook, in, p)
    BY <1>4, <2>1, <2>2, PageTextIs
  <2>6. Listens(w, queue, view, a, hook, in, p)
    BY <1>1, <1>3, <1>5, <2>3, <2>4, <2>5, ListensSnapped
  <2> QED BY <2>1, <2>2, <2>6
<1>11. EntryText(a.live) /\ ~(a.pc \in {"asked", "entered"})
       /\ (a.pc \in {"read", "snapped"} => RowsReach(view, a.rows, hook.replace))
  BY <1>3, <1>5, <1>6
<1> QED BY <1>1, <1>4, <1>5, <1>10, <1>11, AskStepText

\* An answer is sent: the handler is done.
LEMMA AnswerText ==
    ASSUME StreamInv, TextInv, ServerInv', UNCHANGED server, hook' = hook, view' = view, ask' = NoAsk,
           NEW m \in Messages, m.kind \in {"ack", "refused"}, wire' = Append(wire, m),
           m.kind = "ack" => EntryText(m.live) /\ RowsReach(view, m.rows, hook.replace),
           NEW in, in = room', Listens(Append(wire, m), hook.queue, view, NoAsk, hook, in, Promised)
    PROVE  TextInv'
<1>1. PICK old, queue, v, h, a : /\ old = wire /\ queue = hook.queue /\ v = view /\ h = hook /\ a = NoAsk
  OBVIOUS
<1>2. /\ Tells(old, queue, v, ask) /\ Reaches(old, v, ask, h) /\ old \in Seq(Messages)
      /\ queue \in Seq(PageEvents) /\ v \in ViewSet
  BY <1>1, PageTextIs
<1>3. a \in AskSet /\ a.pc = "none" /\ EntryText(a.live)
  BY <1>1, NoAskTyped DEF NoAsk, NoStream, EntryText
<1>4. Tells(old, queue, v, a)
  BY <1>2, <1>3, Zenon DEF Tells
<1>5. Reaches(old, v, a, h)
  <2>1. ~(a.pc \in {"asked", "entered"}) /\ ~(a.pc \in {"read", "snapped"})
    BY <1>3
  <2> QED BY <1>2, <2>1, Zenon DEF Reaches
<1>6. Said(m)
  BY DEF Said, BlockEvent
<1>7. PICK w : w = Append(old, m)
  OBVIOUS
<1>8. Tells(w, queue, v, a)
  BY <1>2, <1>4, <1>6, <1>7, TellsMore
<1>9. Reaches(w, v, a, h)
  BY <1>1, <1>2, <1>5, <1>7, ReachesMore
<1>10. w \in Seq(Messages)
  BY <1>2, <1>7, AppendIs
<1>11. Listens(w, queue, v, a, h, in, Promised)
  BY <1>1, <1>7
<1>12. w = wire' /\ queue = hook'.queue /\ v = view' /\ a = ask' /\ h = hook'
  BY <1>1, <1>7
<1> QED BY <1>2, <1>3, <1>8, <1>9, <1>10, <1>11, <1>12, PageStepText

\* answers with both,
LEMMA JoinAckText ==
    ASSUME StreamInv, TextInv, ServerInv', JoinAck
    PROVE  TextInv'
<1>1. PICK m : m = [kind |-> "ack", rows |-> ask.rows, live |-> ask.live]
  OBVIOUS
<1>2. /\ ask.pc = "snapped" /\ room' = room /\ ask' = NoAsk /\ wire' = Append(wire, m)
      /\ UNCHANGED server /\ hook' = hook /\ view' = view
  BY <1>1 DEF JoinAck, page
<1>3. m \in Messages /\ m.kind = "ack" /\ m.live = ask.live /\ m.rows = ask.rows
  BY <1>1, PageTextIs DEF Answers, Acks, AskSet, Messages
<1>4. RowsReach(view, ask.rows, hook.replace)
  <2>1. Reaches(wire, view, ask, hook)
    BY PageTextIs
  <2> QED BY <1>2, <2>1, Zenon DEF Reaches
<1>5. PICK in : in = room' /\ in = room
  BY <1>2
<1>6. Listens(Append(wire, m), hook.queue, view, NoAsk, hook, in, Promised)
  BY <1>2, <1>3, <1>5, PageTextIs, ListensAnswered
<1>7. EntryText(m.live) /\ RowsReach(view, m.rows, hook.replace)
  BY <1>3, <1>4, PageTextIs
<1> QED BY <1>2, <1>3, <1>5, <1>6, <1>7, AnswerText

\* or refuses, and leaves the room.
LEMMA JoinFailsText ==
    ASSUME StreamInv, TextInv, ServerInv', JoinFails
    PROVE  TextInv'
<1>1. PICK m : m = [kind |-> "refused"]
  OBVIOUS
<1>2. /\ ask.pc # "none" /\ room' = FALSE /\ ask' = NoAsk /\ wire' = Append(wire, m)
      /\ UNCHANGED server /\ hook' = hook /\ view' = view
  BY <1>1 DEF JoinFails, page
<1>3. m \in Messages /\ m.kind = "refused"
  BY <1>1 DEF Answers, Messages
<1>4. PICK in : in = room' /\ ~in
  BY <1>2
<1>5. Listens(Append(wire, m), hook.queue, view, NoAsk, hook, in, Promised)
  BY <1>2, <1>3, <1>4, PageTextIs, ListensTurnedDown
<1> QED BY <1>2, <1>3, <1>4, <1>5, AnswerText

\* What the page takes from its connection.
LEMMA TakenIs ==
    ASSUME StreamInv, TextInv, NEW kinds, Received(kinds), NEW m, m = Head(wire)
    PROVE  /\ wire # <<>> /\ wire' = Tail(wire) /\ m.kind \in kinds /\ m \in Messages /\ MessageHolds(view, m)
           /\ Said(m) /\ Tells(Tail(wire), hook.queue, view, ask) /\ Tail(wire) \in Seq(Messages)
           /\ m.kind = "ack" => EntryText(m.live) /\ RowsReach(view, m.rows, hook.replace)
           /\ kinds = Events => m \in PageEvents
<1>1. wire # <<>> /\ wire' = Tail(wire) /\ m.kind \in kinds /\ m \in Messages /\ (kinds = Events => m \in PageEvents)
  BY ReceivedIs
<1>2. MessageHolds(view, m)
  BY <1>1, PageIs, TailHolds
<1>3. Said(m) /\ Tells(Tail(wire), hook.queue, view, ask) /\ (m.kind = "ack" => EntryText(m.live))
  BY <1>1, PageTextIs, TellsTail
<1>4. m.kind = "ack" => RowsReach(view, m.rows, hook.replace)
  BY <1>1, PageTextIs, ReachesTail
<1>5. Tail(wire) \in Seq(Messages)
  BY <1>1, PageTextIs, TailIs
<1> QED BY <1>1, <1>2, <1>3, <1>4, <1>5

\* No join is under way: what is to be reached is what is known.
LEMMA ReachesIdle ==
    ASSUME NEW w, NEW v, NEW a, a.pc = "none", \A i \in DOMAIN w : w[i].kind # "ack", NEW h,
           KnownDown(v), ~h.hydrated => \A n \in Turns : ~v.msgs[n].known
    PROVE  Reaches(w, v, a, h)
<1>1. ~(a.pc \in {"asked", "entered"}) /\ ~(a.pc \in {"read", "snapped"})
  OBVIOUS
<1> QED BY <1>1, Zenon DEF Reaches

\* Knowing is all that KnownDown is about.
LEMMA KnownSame ==
    ASSUME NEW v, NEW x, \A n \in Turns : x.msgs[n].known = v.msgs[n].known, KnownDown(v)
    PROVE  KnownDown(x)
BY DEF KnownDown

\* A page that lacks nothing before what comes shows an event.
LEMMA ShowText ==
    ASSUME StreamInv, TextInv, ServerInv', Show
    PROVE  TextInv'
<1>1. PICK m, x, w : m = Head(wire) /\ x = Reduced(view, m) /\ w = wire
  OBVIOUS
<1>2. /\ Received(Events) /\ hook.ready /\ view' = x
      /\ UNCHANGED server /\ room' = room /\ ask' = ask /\ hook' = hook
  BY <1>1 DEF Show
<1>3. /\ w # <<>> /\ wire' = Tail(w) /\ m.kind \in Events /\ m \in PageEvents /\ MessageHolds(view, m)
      /\ Said(m) /\ Tells(Tail(w), hook.queue, view, ask) /\ Tail(w) \in Seq(Messages)
  BY <1>1, <1>2, TakenIs
<1>4. EventHolds(m)
  BY <1>3 DEF MessageHolds, Events
<1>5. ~hook.joining
  BY <1>2, PageIs DEF OneAnswer
<1>6. PICK queue, h, a, in, p : queue = hook.queue /\ h = hook /\ a = ask /\ in = room /\ p = Promised
  OBVIOUS
<1>7. /\ a.pc = "none" /\ queue = <<>> /\ (\A i \in DOMAIN w : ~IsAnswer(w[i])) /\ h.ready
      /\ OneAnswer(w, a, h) /\ Listens(w, queue, view, a, h, in, p) /\ Counts(p)
      /\ w \in Seq(Messages) /\ queue \in Seq(PageEvents)
  BY <1>1, <1>2, <1>5, <1>6, PageTextIs, NoneWaits
<1>8. Around(w, queue, a, h, in) /\ Fits(w, queue, LacksOf(view), p) /\ h.up
  <2>1. /\ Around(w, queue, a, h, in)
        /\ \A lacks : Expects(w, view, a, h, lacks) => Fits(w, queue, lacks, p)
    BY <1>7, ListensIs, Zenon
  <2>2. h.up
    BY <1>3, <2>1, Zenon DEF Around
  <2>3. PICK lacks : lacks = LacksOf(view)
    OBVIOUS
  <2>4. Expects(w, view, a, h, lacks)
    BY <1>7, <2>2, <2>3 DEF Expects
  <2> QED BY <2>1, <2>2, <2>3, <2>4
<1>9. PICK t, n : t = Transit(queue, w) /\ n = Len(queue) + Len(w)
  OBVIOUS
<1>10. Len(queue) = 0
  BY <1>7, EmptyIs
<1>11. /\ Traffic(t, n) /\ n \in Nat /\ StartsFirst(t, n) /\ Sequenced(t, 0, n, LacksOf(view), p)
  <2>1. Traffic(t, n)
    BY <1>7, <1>9, TransitIs
  <2>2. StartsFirst(t, n) /\ Sequenced(t, 0, n, LacksOf(view), p)
    BY <1>8, <1>9, Zenon DEF Around, Fits
  <2> QED BY <2>1, <2>2 DEF Traffic
<1>12. 1 \in 1 .. n /\ t[1] = m
  <2>1. 1 \in DOMAIN w /\ m = w[1]
    BY <1>1, <1>3, <1>7, TailIs
  <2>2. PICK i \in DOMAIN w : i = 1 /\ m = w[i]
    BY <2>1
  <2>3. Len(queue) + i \in 1 .. n /\ t[Len(queue) + i] = w[i]
    <3>1. \A j \in DOMAIN w : /\ Len(queue) + j \in 1 .. Len(queue) + Len(w)
                              /\ Transit(queue, w)[Len(queue) + j] = w[j]
      BY <1>7, TransitIs
    <3> QED BY <1>9, <3>1
  <2>4. Len(queue) + i = 1
    BY <1>10, <2>2
  <2> QED BY <2>2, <2>3, <2>4
<1>13. TextReached(view, t, 0, n, p, view)
  BY <1>11, PageTextIs DEF TextReached
<1>14. TextReached(view, t, 1, n, p, x) /\ Consumed(m, LacksOf(view), LacksOf(x))
  <2>1. PICK f \in Nat : f = 0
    OBVIOUS
  <2>2. PICK k \in Nat : k = f + 1 /\ k = 1
    BY <2>1
  <2>3. f + 1 \in 1 .. n /\ m = t[f + 1] /\ TextReached(view, t, f, n, p, view)
    BY <1>12, <1>13, <2>1, <2>2
  <2>4. /\ TextReached(view, t, f + 1, n, p, Reduced(view, m))
        /\ Consumed(m, LacksOf(view), LacksOf(Reduced(view, m)))
    BY <1>3, <1>4, <1>7, <1>11, <2>3, TextReachedNext
  <2> QED BY <1>1, <2>1, <2>2, <2>4
<1>15. x \in ViewSet /\ Shows(x) /\ \A k \in Turns : x.msgs[k].known = view.msgs[k].known
  BY <1>14 DEF TextReached
<1>16. PICK rest : rest = Tail(w)
  OBVIOUS
<1>17. Listens(rest, queue, x, a, h, in, p)
  <2>1. Consumed(Head(w), LacksOf(view), LacksOf(x))
    BY <1>1, <1>14
  <2>2. Listens(w, <<>>, view, a, h, in, p)
    BY <1>7
  <2>3. Listens(Tail(w), <<>>, x, a, h, in, p)
    BY <1>3, <1>7, <2>1, <2>2, ListensShown
  <2> QED BY <1>7, <1>16, <2>3
<1>18. Reaches(rest, x, a, h)
  <2>1. \A i \in DOMAIN rest : rest[i].kind # "ack"
    <3>1. \A i \in DOMAIN Tail(w) : i + 1 \in DOMAIN w /\ Tail(w)[i] = w[i + 1]
      BY <1>3, <1>7, TailIs
    <3>2. \A i \in DOMAIN w : w[i].kind # "ack"
      BY <1>7 DEF IsAnswer
    <3> QED BY <1>16, <3>1, <3>2
  <2>2. KnownDown(x) /\ (~h.hydrated => \A k \in Turns : ~x.msgs[k].known)
    BY <1>6, <1>15, PageTextIs, KnownSame
  <2> QED BY <1>7, <2>1, <2>2, ReachesIdle
<1>19. Tells(rest, queue, x, a)
  <2>1. Tells(rest, queue, view, a)
    BY <1>3, <1>6, <1>16
  <2> QED BY <1>15, <2>1, Zenon DEF Tells
<1>20. /\ rest = wire' /\ queue = hook'.queue /\ x = view' /\ a = ask' /\ h = hook' /\ in = room'
       /\ rest \in Seq(Messages) /\ a \in AskSet
  BY <1>2, <1>3, <1>6, <1>16, PageTextIs
<1>21. Listens(rest, queue, x, a, h, in, Promised)
  BY <1>6, <1>17
<1> QED BY <1>2, <1>7, <1>15, <1>18, <1>19, <1>20, <1>21, PageStepText

\* A page that waits for its answer holds the event, one that was refused drops it.
LEMMA HoldText ==
    ASSUME StreamInv, TextInv, ServerInv', Hold
    PROVE  TextInv'
<1>1. PICK m, w : m = Head(wire) /\ w = wire
  OBVIOUS
<1>2. /\ Received(Events) /\ ~hook.ready
      /\ hook' = (IF hook.joining THEN [hook EXCEPT !.queue = Append(@, m)] ELSE hook)
      /\ UNCHANGED server /\ room' = room /\ ask' = ask /\ view' = view
  BY <1>1 DEF Hold
<1>3. /\ w # <<>> /\ wire' = Tail(w) /\ m \in PageEvents /\ Said(m)
      /\ Tells(Tail(w), hook.queue, view, ask) /\ Tail(w) \in Seq(Messages)
  BY <1>1, <1>2, TakenIs
<1>4. PICK queue, h, k, a, in, p, v : /\ queue = hook.queue /\ h = hook /\ k = hook' /\ a = ask /\ in = room
                                      /\ p = Promised /\ v = view
  OBVIOUS
<1>5. /\ OneAnswer(w, a, h) /\ Listens(w, queue, v, a, h, in, p) /\ Counts(p)
      /\ w \in Seq(Messages) /\ queue \in Seq(PageEvents) /\ h \in HookSet /\ v \in ViewSet /\ a \in AskSet
      /\ Reaches(w, v, a, h) /\ Tells(Tail(w), queue, v, a)
  BY <1>1, <1>3, <1>4, PageTextIs
<1>6. /\ ~k.ready /\ k.up = h.up /\ k.hydrated = h.hydrated /\ k.replace = h.replace
      /\ h.joining => k.queue = Append(queue, m)
      /\ ~h.joining => k.queue = queue
  BY <1>2, <1>4, <1>5 DEF HookSet
<1>7. Reaches(Tail(w), v, a, k)
  BY <1>3, <1>5, <1>6, ReachesTail
<1>8. PICK rest, now : rest = Tail(w) /\ now = k.queue
  OBVIOUS
<1>9. now \in Seq(PageEvents) /\ Tells(rest, now, v, a) /\ Listens(rest, now, v, a, k, in, p)
  <2>1. CASE h.joining
    <3>1. now = Append(queue, m)
      BY <1>6, <1>8, <2>1
    <3>2. /\ Append(queue, m) \in Seq(PageEvents)
          /\ \A i \in DOMAIN Append(queue, m) : (i \in DOMAIN queue /\ Append(queue, m)[i] = queue[i])
                                                 \/ Append(queue, m)[i] = m
      BY <1>3, <1>5, AppendIs
    <3>3. now \in Seq(PageEvents) /\ \A i \in DOMAIN now : (i \in DOMAIN queue /\ now[i] = queue[i]) \/ now[i] = m
      BY <3>1, <3>2, Zenon
    <3>4. \A i \in DOMAIN now : Said(now[i])
      <4>1. \A i \in DOMAIN queue : Said(queue[i])
        BY <1>5, Zenon DEF Tells
      <4> QED BY <1>3, <3>3, <4>1
    <3>5. Tells(rest, now, v, a)
      BY <1>5, <1>8, <3>4, Zenon DEF Tells
    <3>6. Listens(Tail(w), Append(queue, Head(w)), v, a, k, in, p)
      <4>1. Head(w) \in PageEvents /\ ~h.ready
        BY <1>1, <1>2, <1>3, <1>4
      <4> QED BY <1>3, <1>5, <1>6, <4>1, ListensHeld
    <3>7. Listens(rest, now, v, a, k, in, p)
      BY <1>1, <1>8, <3>1, <3>6, Zenon
    <3> QED BY <3>3, <3>5, <3>7
  <2>2. CASE ~h.joining
    <3>1. a.pc = "none" /\ queue = <<>> /\ \A i \in DOMAIN w : w[i].kind # "ack"
      BY <1>4, <1>5, <2>2, NoneWaits DEF IsAnswer
    <3>2. Listens(Tail(w), <<>>, v, a, k, in, p)
      <4>1. ~h.ready
        BY <1>2, <1>4
      <4> QED BY <1>3, <1>5, <1>6, <3>1, <4>1, ListensDropped
    <3>3. now = queue
      BY <1>6, <1>8, <2>2
    <3> QED BY <1>5, <1>8, <3>1, <3>2, <3>3
  <2> QED BY <2>1, <2>2
<1>10. /\ rest = wire' /\ now = hook'.queue /\ v = view' /\ a = ask' /\ k = hook' /\ in = room'
       /\ rest \in Seq(Messages)
  BY <1>2, <1>3, <1>4, <1>8
<1>11. Listens(rest, now, v, a, k, in, Promised) /\ Reaches(rest, v, a, k)
  BY <1>4, <1>7, <1>8, <1>9
<1> QED BY <1>2, <1>5, <1>9, <1>10, <1>11, PageStepText

\* The answer hydrates the page, and what it held is replayed.
LEMMA HydrateText ==
    ASSUME StreamInv, TextInv, ServerInv', PageInv', Hydrate
    PROVE  TextInv'
<1>1. PICK m, w, y : m = Head(wire) /\ w = wire /\ y = Hydrated(view, m, hook.replace)
  OBVIOUS
<1>2. PICK x : x = Replayed(y, hook.queue)
  OBVIOUS
<1>3. /\ Received({"ack"}) /\ hook.joining /\ view' = x
      /\ hook' = [hook EXCEPT !.joining = FALSE, !.ready = TRUE, !.hydrated = TRUE, !.replace = FALSE,
                              !.queue = <<>>]
      /\ UNCHANGED server /\ room' = room /\ ask' = ask
  BY <1>1, <1>2 DEF Hydrate
<1>4. /\ w # <<>> /\ wire' = Tail(w) /\ m.kind = "ack" /\ m \in Messages /\ MessageHolds(view, m)
      /\ EntryText(m.live) /\ RowsReach(view, m.rows, hook.replace)
      /\ Tells(Tail(w), hook.queue, view, ask) /\ Tail(w) \in Seq(Messages)
  BY <1>1, <1>3, TakenIs
<1>5. m \in Acks /\ RowsHold(m.rows) /\ EntryHolds(m.live) /\ NotBehind(view, m.live)
  BY <1>4, MessageTyped DEF MessageHolds
<1>6. PICK queue, h, k, a, in, p, rest : /\ queue = hook.queue /\ h = hook /\ k = hook' /\ a = ask /\ in = room
                                         /\ p = Promised /\ rest = Tail(w)
  OBVIOUS
<1>7. /\ OneAnswer(w, a, h) /\ Listens(w, queue, view, a, h, in, p) /\ Counts(p)
      /\ w \in Seq(Messages) /\ queue \in Seq(PageEvents) /\ h \in HookSet /\ a \in AskSet
  BY <1>1, <1>6, PageTextIs
<1>8. a.pc = "none" /\ \A i \in DOMAIN rest : rest[i].kind # "ack"
  <2>1. IsAnswer(Head(w))
    BY <1>1, <1>4 DEF IsAnswer
  <2>2. a.pc = "none" /\ \A i \in DOMAIN Tail(w) : ~IsAnswer(Tail(w)[i])
    BY <1>4, <1>7, <2>1, TailAnswers
  <2> QED BY <1>6, <2>2 DEF IsAnswer
<1>9. k.ready /\ k.up = h.up /\ k.hydrated /\ k.queue = <<>>
  BY <1>3, <1>6, <1>7 DEF HookSet
<1>10. /\ y \in ViewSet /\ ViewHolds(y) /\ Shows(y) /\ KnownDown(y)
       /\ \A g \in Runs : LacksOf(y)[g] \subseteq LacksEntry(m.live)[g]
  BY <1>1, <1>4, <1>5, PageTextIs, HydratedText
<1>11. PICK t, n : t = Transit(queue, w) /\ n = Len(queue) + Len(w)
  OBVIOUS
<1>12. Around(w, queue, a, h, in) /\ Fits(w, queue, LacksEntry(m.live), p)
  <2>1. /\ Around(w, queue, a, h, in)
        /\ \A lacks : Expects(w, view, a, h, lacks) => Fits(w, queue, lacks, p)
    BY <1>7, ListensIs, Zenon
  <2>2. PICK lacks : lacks = LacksEntry(m.live)
    OBVIOUS
  <2>3. 1 \in DOMAIN w /\ m = w[1]
    BY <1>1, <1>4, <1>7, TailIs
  <2>4. Expects(w, view, a, h, lacks)
    BY <1>4, <2>2, <2>3 DEF Expects
  <2> QED BY <2>1, <2>2, <2>4
<1>13. Traffic(t, n) /\ n \in Nat /\ StartsFirst(t, n) /\ Len(queue) \in Nat /\ Len(queue) <= n
  <2>1. Traffic(t, n) /\ Len(queue) \in Nat /\ Len(w) \in Nat
    BY <1>7, <1>11, TransitIs
  <2>2. StartsFirst(t, n)
    BY <1>11, <1>12, Zenon DEF Around
  <2> QED BY <1>11, <2>1, <2>2
<1>14. \A i \in DOMAIN queue : t[i] = queue[i]
  BY <1>7, <1>11, TransitIs
<1>15. Sequenced(t, 0, n, LacksOf(y), p)
  <2>1. PICK lacks, less, f : lacks = LacksEntry(m.live) /\ less = LacksOf(y) /\ f = 0
    OBVIOUS
  <2>2. Sequenced(t, f, n, lacks, p) /\ \A g \in Runs : less[g] \subseteq lacks[g]
    BY <1>10, <1>11, <1>12, <2>1, Zenon DEF Fits
  <2>3. \A r \in Runs : p[r] <= p[r]
    BY <1>7 DEF Counts
  <2>4. Sequenced(t, f, n, less, p)
    BY <1>7, <1>13, <2>2, <2>3, SequencedLess
  <2> QED BY <2>1, <2>4
<1>16. TextReached(y, t, 0, n, p, y)
  BY <1>10, <1>15 DEF TextReached
<1>17. \A i \in DOMAIN queue : EventHolds(queue[i]) /\ Said(queue[i])
  <2>1. \A i \in DOMAIN queue : EventHolds(queue[i])
    BY <1>6, PageIs, Zenon DEF PageHolds
  <2>2. \A i \in DOMAIN queue : Said(queue[i])
    BY <1>4, <1>6, Zenon DEF Tells
  <2> QED BY <2>1, <2>2
<1>18. TextReached(y, t, Len(queue), n, p, x)
  <2>1. TextReached(y, t, Len(queue), n, p, Replayed(y, queue))
    BY <1>7, <1>13, <1>14, <1>16, <1>17, ReplayedText
  <2> QED BY <1>2, <1>6, <2>1
<1>19. /\ x \in ViewSet /\ Shows(x) /\ KnownDown(x) /\ Sequenced(t, Len(queue), n, LacksOf(x), p)
  <2>1. /\ x \in ViewSet /\ Shows(x) /\ Sequenced(t, Len(queue), n, LacksOf(x), p)
        /\ \A i \in Turns : x.msgs[i].known = y.msgs[i].known
    BY <1>18 DEF TextReached
  <2> QED BY <1>10, <2>1, KnownSame
<1>20. Listens(rest, k.queue, x, a, k, in, p)
  <2>1. Sequenced(Transit(queue, w), Len(queue), Len(queue) + Len(w), LacksOf(x), p)
    BY <1>11, <1>19
  <2>2. Head(w).kind = "ack" /\ \A i \in DOMAIN Tail(w) : Tail(w)[i].kind # "ack"
    BY <1>1, <1>4, <1>6, <1>8
  <2>3. Listens(Tail(w), <<>>, x, a, k, in, p)
    BY <1>4, <1>7, <1>8, <1>9, <2>1, <2>2, ListensHydrated
  <2> QED BY <1>6, <1>9, <2>3
<1>21. Reaches(rest, x, a, k)
  BY <1>8, <1>9, <1>19, ReachesIdle
<1>22. PICK now : now = k.queue
  OBVIOUS
<1>23. now \in Seq(PageEvents) /\ Tells(rest, now, x, a)
  <2>1. now \in Seq(PageEvents) /\ \A i : ~(i \in DOMAIN now)
    BY <1>9, <1>22, EmptyIs
  <2>2. Tells(rest, queue, view, a)
    BY <1>4, <1>6
  <2> QED BY <1>19, <2>1, <2>2, Zenon DEF Tells
<1>24. /\ rest = wire' /\ now = hook'.queue /\ x = view' /\ a = ask' /\ k = hook' /\ in = room'
       /\ rest \in Seq(Messages) /\ x \in ViewSet
  BY <1>3, <1>4, <1>6, <1>19, <1>22
<1>25. Listens(rest, now, x, a, k, in, Promised)
  BY <1>6, <1>20, <1>22
<1> QED BY <1>3, <1>7, <1>21, <1>23, <1>24, <1>25, PageStepText

\* A refusal leaves the page without what it held.
LEMMA RefusedText ==
    ASSUME StreamInv, TextInv, ServerInv', Refused
    PROVE  TextInv'
<1>1. PICK m, w : m = Head(wire) /\ w = wire
  OBVIOUS
<1>2. /\ Received({"refused"}) /\ hook.joining
      /\ hook' = [hook EXCEPT !.joining = FALSE, !.queue = <<>>]
      /\ UNCHANGED server /\ room' = room /\ ask' = ask /\ view' = view
  BY <1>1 DEF Refused
<1>3. /\ w # <<>> /\ wire' = Tail(w) /\ m.kind = "refused"
      /\ Tells(Tail(w), hook.queue, view, ask) /\ Tail(w) \in Seq(Messages)
  BY <1>1, <1>2, TakenIs
<1>4. PICK queue, h, k, a, in, p, v, rest : /\ queue = hook.queue /\ h = hook /\ k = hook' /\ a = ask /\ in = room
                                            /\ p = Promised /\ v = view /\ rest = Tail(w)
  OBVIOUS
<1>5. /\ OneAnswer(w, a, h) /\ Listens(w, queue, v, a, h, in, p) /\ Counts(p)
      /\ w \in Seq(Messages) /\ queue \in Seq(PageEvents) /\ h \in HookSet /\ v \in ViewSet /\ a \in AskSet
      /\ Reaches(w, v, a, h) /\ Tells(rest, queue, v, a)
  BY <1>1, <1>3, <1>4, PageTextIs
<1>6. ~h.ready /\ ~k.ready /\ k.up = h.up /\ k.hydrated = h.hydrated /\ k.replace = h.replace /\ k.queue = <<>>
  <2>1. ~h.ready
    BY <1>2, <1>4, <1>5 DEF OneAnswer
  <2> QED BY <1>2, <1>4, <1>5, <2>1 DEF HookSet
<1>7. a.pc = "none" /\ \A i \in DOMAIN w : w[i].kind # "ack"
  <2>1. IsAnswer(Head(w)) /\ 1 \in DOMAIN w /\ Head(w) = w[1]
    BY <1>1, <1>3, <1>5, TailIs DEF IsAnswer
  <2>2. a.pc = "none"
    BY <1>3, <1>5, <2>1, TailAnswers
  <2>3. ASSUME NEW i \in DOMAIN w, w[i].kind = "ack"
        PROVE  FALSE
    <3>1. IsAnswer(w[i]) /\ IsAnswer(w[1])
      BY <2>1, <2>3 DEF IsAnswer
    <3>2. i = 1
      BY <1>5, <2>1, <3>1, Zenon DEF OneAnswer
    <3> QED BY <1>1, <1>3, <2>1, <2>3, <3>2
  <2> QED BY <2>2, <2>3
<1>8. Listens(rest, k.queue, v, a, k, in, p)
  <2>1. Listens(Tail(w), <<>>, v, a, k, in, p)
    BY <1>3, <1>5, <1>6, <1>7, ListensDropped
  <2> QED BY <1>4, <1>6, <2>1
<1>9. Reaches(rest, v, a, k)
  BY <1>3, <1>4, <1>5, <1>6, ReachesTail
<1>10. PICK now : now = k.queue
  OBVIOUS
<1>11. now \in Seq(PageEvents) /\ Tells(rest, now, v, a)
  <2>1. now \in Seq(PageEvents) /\ \A i : ~(i \in DOMAIN now)
    BY <1>6, <1>10, EmptyIs
  <2> QED BY <1>5, <2>1, Zenon DEF Tells
<1>12. /\ rest = wire' /\ now = hook'.queue /\ v = view' /\ a = ask' /\ k = hook' /\ in = room'
       /\ rest \in Seq(Messages)
  BY <1>2, <1>3, <1>4, <1>10
<1>13. Listens(rest, now, v, a, k, in, Promised)
  BY <1>4, <1>8, <1>10
<1> QED BY <1>2, <1>5, <1>9, <1>11, <1>12, <1>13, PageStepText

\* A page that asks for everything again waits for it.
LEMMA AgainText ==
    ASSUME StreamInv, TextInv, ServerInv', UNCHANGED server, room' = room, wire' = wire, view' = view,
           ~hook.joining, NEW after, after = 0, NEW replace \in BOOLEAN, Request(hook, after, replace)
    PROVE  TextInv'
<1>1. PICK k, b, h, a, w, v, in, p, queue :
         /\ k = hook' /\ b = ask' /\ h = hook /\ a = ask /\ w = wire /\ v = view /\ in = room /\ p = Promised
         /\ queue = hook.queue
  OBVIOUS
<1>2. /\ OneAnswer(w, a, h) /\ Listens(w, queue, v, a, h, in, p) /\ Counts(p)
      /\ w \in Seq(Messages) /\ h \in HookSet /\ v \in ViewSet
      /\ Reaches(w, v, a, h) /\ Tells(w, queue, v, a) /\ in \in BOOLEAN /\ queue = h.queue
  BY <1>1, PageTextIs, PageIs
<1>3. a.pc = "none" /\ queue = <<>> /\ \A i \in DOMAIN w : ~IsAnswer(w[i])
  BY <1>1, <1>2, NoneWaits
<1>4. /\ k.up = h.up /\ ~k.ready /\ k.replace = replace /\ k.queue = <<>> /\ k.hydrated = h.hydrated
      /\ b \in AskSet /\ b.pc = "asked" /\ b.after = after /\ EntryText(b.live)
  <2>1. after \in Nat
    OBVIOUS
  <2> QED BY <1>1, <1>2, <2>1, RequestIs
<1>5. Listens(w, queue, v, b, k, in, p)
  <2>1. Listens(w, <<>>, v, a, h, in, p)
    BY <1>2, <1>3
  <2>2. Listens(w, <<>>, v, b, k, in, p)
    BY <1>2, <1>3, <1>4, <2>1, ListensAsked
  <2> QED BY <1>3, <2>2
<1>6. Reaches(w, v, b, k)
  <2>1. KnownDown(v) /\ (~k.hydrated => \A n \in Turns : ~v.msgs[n].known)
    BY <1>1, <1>4, PageTextIs
  <2>2. Asks(v, b.after, k.replace)
    BY <1>4 DEF Asks, Turns
  <2>3. ~(b.pc \in {"read", "snapped"}) /\ \A i \in DOMAIN w : w[i].kind # "ack"
    BY <1>3, <1>4 DEF IsAnswer
  <2> QED BY <2>1, <2>2, <2>3, Zenon DEF Reaches
<1>7. Tells(w, queue, v, b)
  BY <1>2, <1>4, Zenon DEF Tells
<1>8. /\ w = wire' /\ queue = hook'.queue /\ v = view' /\ b = ask' /\ k = hook' /\ in = room'
      /\ queue \in Seq(PageEvents)
  BY <1>1, <1>3, <1>4, EmptyIs
<1>9. Listens(w, queue, v, b, k, in, Promised)
  BY <1>1, <1>5
<1> QED BY <1>2, <1>4, <1>6, <1>7, <1>8, <1>9, PageStepText

\* The refs change in nothing that matters to the text.
LEMMA HookText ==
    ASSUME StreamInv, TextInv, ServerInv', UNCHANGED server, room' = room, wire' = wire, view' = view,
           ask' = ask, NEW k, k = hook', k.up = hook.up, k.queue = hook.queue, k.hydrated = hook.hydrated,
           k.replace = hook.replace, k.ready /\ k.up <=> hook.ready /\ hook.up
    PROVE  TextInv'
<1>1. PICK h, a, w, v, in, p, queue :
         /\ h = hook /\ a = ask /\ w = wire /\ v = view /\ in = room /\ p = Promised /\ queue = hook.queue
  OBVIOUS
<1>2. /\ Listens(w, queue, v, a, h, in, p) /\ w \in Seq(Messages) /\ v \in ViewSet /\ a \in AskSet
      /\ Reaches(w, v, a, h) /\ Tells(w, queue, v, a) /\ queue \in Seq(PageEvents)
  BY <1>1, PageTextIs, PageIs
<1>3. k.hydrated = h.hydrated /\ k.replace = h.replace /\ k.up = h.up /\ (k.ready /\ k.up <=> h.ready /\ h.up)
  BY <1>1
<1>4. Listens(w, queue, v, a, k, in, p)
  BY <1>2, <1>3, ListensSame
<1>5. Reaches(w, v, a, k)
  BY <1>2, <1>3, Zenon DEF Reaches
<1>6. w = wire' /\ queue = hook'.queue /\ v = view' /\ a = ask' /\ k = hook' /\ in = room'
  BY <1>1
<1>7. Listens(w, queue, v, a, k, in, Promised)
  BY <1>1, <1>4
<1> QED BY <1>2, <1>5, <1>6, <1>7, PageStepText

\* React runs the effects of a commit.
LEMMA CommitText ==
    ASSUME StreamInv, TextInv, ServerInv', Commit
    PROVE  TextInv'
<1>1. /\ IF view.resync /\ ~hook.joining
         THEN IF hook.up THEN Request(hook, 0, TRUE)
              ELSE hook' = [hook EXCEPT !.ready = FALSE] /\ UNCHANGED ask
         ELSE UNCHANGED <<hook, ask>>
      /\ UNCHANGED server /\ room' = room /\ wire' = wire /\ view' = view
  BY DEF Commit
<1>2. CASE view.resync /\ ~hook.joining /\ hook.up
  <2>1. PICK replace \in BOOLEAN : replace = TRUE
    OBVIOUS
  <2>2. PICK after : after = 0
    OBVIOUS
  <2>3. Request(hook, after, replace)
    BY <1>1, <1>2, <2>1, <2>2
  <2> QED BY <1>1, <1>2, <2>1, <2>2, <2>3, AgainText
<1>3. CASE view.resync /\ ~hook.joining /\ ~hook.up
  <2>1. PICK k : k = hook'
    OBVIOUS
  <2>2. /\ k.up = hook.up /\ k.queue = hook.queue /\ k.hydrated = hook.hydrated
        /\ k.replace = hook.replace /\ ~k.up /\ ask' = ask
    BY <1>1, <1>3, <2>1, PageIs DEF HookSet
  <2>3. k.ready /\ k.up <=> hook.ready /\ hook.up
    BY <1>3, <2>2
  <2> QED BY <1>1, <2>1, <2>2, <2>3, HookText
<1>4. CASE ~(view.resync /\ ~hook.joining)
  <2>1. hook' = hook /\ ask' = ask
    BY <1>1, <1>4
  <2> QED BY <1>1, <2>1, HookText
<1> QED BY <1>2, <1>3, <1>4

-----------------------------------------------------------------------------
(* The text of every behaviour *)

\* Nothing was produced at the start, nothing is on its way and nothing is shown.
LEMMA TextInvStarts == Init => TextInv
<1>1. SUFFICES ASSUME Init PROVE TextInv
  OBVIOUS
<1>2. /\ durable = [n \in Turns |-> Blank] /\ run = [r \in Runs |-> NoRun]
      /\ stream = NoStream /\ room = FALSE /\ ask = NoAsk /\ wire = <<>>
      /\ hook = [up |-> FALSE, joining |-> FALSE, ready |-> FALSE, hydrated |-> FALSE,
                 replace |-> FALSE, queue |-> <<>>]
      /\ view = [msgs |-> [n \in Turns |-> Absent], resync |-> FALSE]
  BY <1>1 DEF Init
<1>3. \A r \in Runs : run[r].pc = "idle" /\ run[r].blocks = <<>> /\ run[r].event.kind = "none" /\ run[r].then = "over"
  BY <1>2 DEF NoRun, NoEvent
<1>4. \A n \in Turns : ~Exists(n)
  BY <1>2 DEF Exists, Blank
<1>5. stream.gen = 0 /\ NoStream.gen = 0 /\ NoAsk.live = NoStream /\ NoAsk.pc = "none"
  BY <1>2 DEF NoStream, NoAsk
<1>6. ASSUME NEW r \in Runs
      PROVE  RunText(r) /\ StreamText(r) /\ RunEventText(r)
  <2>1. ~Unsettled(r) /\ ~Generating(r)
    BY <1>3, <1>6, UndoneIs DEF Undone, Generating
  <2>2. Numbered(r, run[r].blocks)
    <3>1. PICK blocks : blocks = run[r].blocks
      OBVIOUS
    <3>2. \A i : ~(i \in DOMAIN blocks)
      BY <1>3, <1>6, <3>1, EmptyIs
    <3>3. Numbered(r, blocks)
      BY <3>2, Zenon DEF Numbered
    <3> QED BY <3>1, <3>3
  <2>3. Said(run[r].event) /\ run[r].event.kind # "created"
    BY <1>3, <1>6 DEF Said, BlockEvent
  <2> QED BY <2>1, <2>2, <2>3, Zenon DEF RunText, StreamText, RunEventText
<1>7. EntryText(stream)
  BY <1>5 DEF EntryText
<1>8. TurnsInOrder
  BY <1>3, <1>4 DEF TurnsInOrder
<1>9. ServerText
  BY <1>6, <1>7, <1>8 DEF ServerText
<1>10. PICK w : w = <<>>
  OBVIOUS
<1>11. \A i : ~(i \in DOMAIN w)
  BY <1>10, EmptyIs
<1>12. PICK v : v = view
  OBVIOUS
<1>13. \A n \in Turns : v.msgs[n].gen = 0 /\ ~v.msgs[n].known
  BY <1>2, <1>12 DEF Absent
<1>14. PICK a : a = NoAsk
  OBVIOUS
<1>15. a.pc = "none" /\ EntryText(a.live)
  BY <1>5, <1>14 DEF EntryText
<1>16. PICK h : h = hook
  OBVIOUS
<1>17. ~h.up /\ ~h.ready /\ h.queue = <<>>
  BY <1>2, <1>16
<1>18. PICK in : in = room
  OBVIOUS
<1>19. Tells(w, w, v, a)
  <2>1. Shows(v)
    BY <1>13 DEF Shows
  <2> QED BY <1>11, <1>15, <2>1, Zenon DEF Tells
<1>20. Reaches(w, v, a, h)
  <2>1. KnownDown(v) /\ \A n \in Turns : ~v.msgs[n].known
    BY <1>13 DEF KnownDown
  <2>2. ~(a.pc \in {"asked", "entered"}) /\ ~(a.pc \in {"read", "snapped"})
    BY <1>15
  <2> QED BY <1>11, <2>1, <2>2, Zenon DEF Reaches
<1>21. Listens(w, w, v, a, h, in, Promised)
  <2>1. PICK p : p = Promised
    OBVIOUS
  <2>2. a.pc \in {"none", "asked"} /\ ~(h.ready /\ h.up) /\ ~in
    BY <1>2, <1>15, <1>17, <1>18
  <2>3. Listens(<<>>, <<>>, v, a, h, in, p)
    BY <2>2, ListensNew
  <2> QED BY <1>10, <2>1, <2>3
<1>22. w = wire /\ w = hook.queue /\ v = view /\ a = ask /\ h = hook /\ in = room
  BY <1>2, <1>10, <1>12, <1>14, <1>16, <1>17, <1>18
<1>23. PageText
  BY <1>19, <1>20, <1>21, <1>22 DEF PageText
<1> QED BY <1>9, <1>23 DEF TextInv

\* Every step of an execution keeps the text.
LEMMA RunStepText ==
    ASSUME StreamInv, TextInv, ServerInv', NEW r \in Runs, RunStep(r)
    PROVE  TextInv'
<1>1. CASE ReadBrief(r)
  BY <1>1, ReadBriefText
<1>2. CASE Tell(r)
  BY <1>2, TellText
<1>3. CASE Open(r)
  BY <1>3, OpenedText
<1>4. CASE Begin(r)
  BY <1>4, BeginText
<1>5. CASE FirstDelta(r)
  BY <1>5, FirstDeltaText
<1>6. CASE NextDelta(r)
  BY <1>6, NextDeltaText
<1>7. CASE StartTool(r)
  BY <1>7, StartToolText
<1>8. CASE EndBlock(r)
  BY <1>8, EndBlockText
<1>9. CASE Yield(r)
  BY <1>9, YieldText
<1>10. CASE Complete(r)
  BY <1>10, CompleteText
<1>11. CASE Cancel(r)
  BY <1>11, CancelText
<1>12. CASE Fail(r)
  BY <1>12, FailText
<1>13. CASE Validate(r)
  BY <1>13, ValidateText
<1>14. CASE Superseded(r)
  BY <1>14, SupersededText
<1>15. CASE Emit(r)
  BY <1>15, EmitText
<1>16. CASE Finalize(r)
  BY <1>16, FinalizeText
<1>17. CASE Cleanup(r)
  BY <1>17, CleanupText
<1> QED
  BY <1>1, <1>2, <1>3, <1>4, <1>5, <1>6, <1>7, <1>8, <1>9, <1>10, <1>11, <1>12, <1>13, <1>14, <1>15,
     <1>16, <1>17 DEF RunStep

\* Every step keeps it: one lemma for each action.
LEMMA NextText ==
    ASSUME StreamInv, TextInv, ServerInv', PageInv', Next
    PROVE  TextInv'
<1>1. CASE Send \/ Retry \/ Expire \/ Connect
  BY <1>1, SendText, RetryText, ExpireText, ConnectText
<1>2. CASE JoinStep
  BY <1>2, JoinRoomText, JoinReadText, JoinSnapshotText, JoinAckText DEF JoinStep
<1>3. CASE PageStep
  BY <1>3, ShowText, HoldText, HydrateText, RefusedText, CommitText DEF PageStep
<1>4. CASE Fault
  BY <1>4, DisconnectText, JoinFailsText, CrashText, TellFailsText, EmitFailsText DEF Fault
<1>5. CASE \E r \in Runs : RunStep(r)
  BY <1>5, RunStepText
<1> QED BY <1>1, <1>2, <1>3, <1>4, <1>5 DEF Next

\* So does a step that changes nothing.
LEMMA StutterText ==
    ASSUME StreamInv, TextInv, ServerInv', UNCHANGED vars
    PROVE  TextInv'
<1>1. /\ UNCHANGED server /\ room' = room /\ wire' = wire /\ view' = view /\ ask' = ask /\ hook' = hook
  BY DEF vars, page
<1> QED BY <1>1, HookText

\* Whatever is stored, sent, held, merged or shown of an execution is the text that it
\* produced, in its order, and an event under way finds the blocks before its own.
THEOREM TextInvariance == Spec => []TextInv
<1>1. StreamInv /\ TextInv /\ StreamInv' /\ [Next]_vars => TextInv'
  <2>1. SUFFICES ASSUME StreamInv, TextInv, StreamInv', [Next]_vars PROVE TextInv'
    OBVIOUS
  <2>2. ServerInv' /\ PageInv'
    BY <2>1 DEF StreamInv
  <2>3. CASE Next
    BY <2>1, <2>2, <2>3, NextText
  <2>4. CASE UNCHANGED vars
    BY <2>1, <2>2, <2>4, StutterText
  <2> QED BY <2>1, <2>3, <2>4
<1> QED BY <1>1, TextInvStarts, StreamInvariance, PTL DEF Spec

\* What a page shows of an execution under way is a beginning of what that execution
\* produced, whatever was merged from the store, held during a join and received live.
THEOREM ShownIsProducedAlways == Spec => []ShownIsProduced
<1>1. StreamInv /\ TextInv => ShownIsProduced
  <2>1. SUFFICES ASSUME StreamInv, TextInv PROVE ShownIsProduced
    OBVIOUS
  <2>2. Shows(view)
    BY <2>1, PageTextIs
  <2> QED BY <2>2, Zenon DEF Shows, ShownIsProduced
<1> QED BY <1>1, StreamInvariance, TextInvariance, PTL
=================================================================================
