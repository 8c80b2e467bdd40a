------------------------ MODULE TaskExecutionProofs ------------------------
(* What TLAPS proves of TaskExecution when requests do not overlap, which is *)
(* how the pages send them: Overlap = {}.  For any number of threads, state  *)
(* objects, turns and outages.                                               *)
EXTENDS TaskExecution, FiniteSetTheorems, TLAPS

USE StateAssumption, BoundAssumption DEF Unstarted

-----------------------------------------------------------------------------
(* The inductive invariant *)

Early == {"send_checked", "send_numbered", "retry_checked", "retry_resetting"}
Open(x) == run[x].stage \in OpenStages

\* The threads that are going to settle, or to mark, the Assistant of their turn.
Owning(x) ==
    \/ run[x].stage \in {"register", "persist", "write"} \/ Open(x)
    \/ run[x].stage = "fallback" /\ turn[run[x].turn].status \in Active

\* Turns are numbered without a gap, and so are their messages.
TurnInv ==
    /\ \E k \in 0 .. MaxTurns : Used = 1 .. k
    /\ \A n \in Used : turn[n].user = 2 * n - 1

\* The status of the Task is the one of the Assistant that is being generated.
TaskInv ==
    /\ task.status = "absent" =>
         Used = {} /\ ~task.active /\ reg = NoState /\ \A x \in Threads : run[x] = Idle
    /\ Interrupted = {} => task.status \notin Active
    /\ \A n \in Interrupted : task.status = turn[n].status
    /\ \A m, n \in Interrupted : m = n
    /\ accepted \subseteq Used
    /\ CancelHonoured

\* One request is being prepared and one generation is owned at a time; the
\* registry's state object is that of the open generation, and of no other.
Alone ==
    /\ \A x, y \in Threads : Preparing(x) /\ Preparing(y) => x = y
    /\ \A x, y \in Threads : Owning(x) /\ Owning(y) => x = y
    /\ \A x, y \in Threads : Open(x) /\ x # y => run[y].state # reg
    /\ reg # NoState /\ object[reg].terminal = "none" => \E x \in Threads : Open(x)

\* What a request has read is still true.
RequestInv(x) ==
    /\ run[x].stage \in Early => Interrupted = {} /\ run[x].seen \in Terminal
    /\ run[x].stage \in {"send_checked", "send_numbered"} => Used # Turns
    /\ run[x].stage = "send_numbered" => run[x].last = LastMessage
    /\ run[x].stage = "retry_resetting" => turn[run[x].turn].status = "FAILED"
    /\ run[x].stage \in {"idle"} \cup Unstarted \cup PrepareStages => run[x].state = NoState
    /\ run[x].stage \notin {"idle", "send_checked", "send_numbered"} => run[x].turn \in Used

\* Until its outcome is claimed, an execution owns an active Assistant, and the
\* registry's state object tells whether its cancellation was accepted.
OwnerInv(x) ==
    /\ Owning(x) => run[x].turn \in Interrupted
    /\ run[x].stage \in {"register", "prepared", "opened", "claimed", "starting", "marking"} =>
         turn[run[x].turn].status = "PENDING"
    /\ run[x].stage = "marking" => run[x].seen = "PENDING"
    /\ run[x].stage = "register" => run[x].turn \notin accepted
    /\ Open(x) =>
         /\ reg # NoState /\ object[reg].turn = run[x].turn /\ object[reg].terminal = "none"
         /\ object[reg].cancel <=> run[x].turn \in accepted
         /\ run[x].stage \notin Unstarted => run[x].state = reg
    /\ run[x].stage = "finish" =>
         /\ run[x].outcome \in Terminal
         /\ run[x].outcome = "CANCELLED" => object[reg].cancel

\* A claimed outcome is the one the cancellation allows, and what is told is
\* what is stored.
OutcomeInv(x) ==
    /\ run[x].stage \in {"persist", "write"} =>
         /\ run[x].outcome \in Terminal
         /\ run[x].outcome = "CANCELLED" <=> run[x].turn \in accepted
    /\ run[x].stage = "write" => run[x].seen \in Active
    /\ run[x].stage = "fallback" => turn[run[x].turn].status # "FAILED"
    /\ run[x].stage = "event" /\ run[x].outcome # "FAILED" =>
         /\ run[x].outcome \in Terminal
         /\ turn[run[x].turn].status = run[x].outcome

RunInv(x) == RequestInv(x) /\ OwnerInv(x) /\ OutcomeInv(x)
SInv == CoreTypes /\ TurnInv /\ TaskInv /\ Alone /\ \A x \in Threads : RunInv(x)

-----------------------------------------------------------------------------
(* Numbers and types *)

LEMMA TurnFacts ==
    /\ Turns \subseteq Nat \ {0} /\ 1 \in Turns /\ Messages \subseteq Nat
    /\ 0 \in Messages /\ 1 \in Messages /\ 0 \in 0 .. MaxTurns /\ Turns \subseteq 0 .. MaxTurns
  BY DEF Turns, Messages

LEMMA IdleRun == Idle \in Run /\ Idle.stage = "idle" /\ Idle.state = NoState /\ Idle.turn = 0
  BY TurnFacts DEF Idle, Run, TaskStatus

\* The last message and the next turn are what the number of turns says.
LEMMA Numbers ==
    ASSUME CoreTypes, TurnInv
    PROVE  \E k \in 0 .. MaxTurns :
             /\ Used = 1 .. k /\ LastMessage = 2 * k
             /\ Used # Turns => k + 1 \in Turns /\ NextTurn = k + 1
<1>1. PICK k \in 0 .. MaxTurns : Used = 1 .. k
  BY DEF TurnInv
<1>2. LastMessage = 2 * k
  <2>1. CASE k = 0
    BY <1>1, <2>1 DEF LastMessage
  <2>2. CASE k # 0
    <3> DEFINE P(m) == \A n \in Used : turn[n].user + 1 <= m
               S == {turn[n].user + 1 : n \in Used}
    <3>1. \A n \in Used : turn[n].user + 1 = 2 * n
      BY <1>1 DEF TurnInv
    <3>2. k \in Used /\ Used # {}
      BY <1>1, <2>2
    <3>3. 2 * k \in S /\ P(2 * k)
      BY <1>1, <3>1, <3>2
    <3>4. \A m \in S : P(m) => m = 2 * k
      BY <1>1, <3>1, <3>2
    <3>5. LastMessage = CHOOSE m \in S : P(m)
      BY <3>2 DEF LastMessage
    <3> HIDE DEF P, S
    <3> QED BY <3>3, <3>4, <3>5
  <2> QED BY <2>1, <2>2
<1>3. ASSUME Used # Turns PROVE k + 1 \in Turns /\ NextTurn = k + 1
  <2>1. k + 1 \in Turns \ Used /\ \A m \in Turns \ Used : k + 1 <= m
    BY <1>1, <1>3 DEF Turns
  <2>2. \A n \in Turns \ Used : (\A m \in Turns \ Used : n <= m) => n = k + 1
    BY <2>1, TurnFacts
  <2> QED BY <2>1, <2>2 DEF NextTurn
<1> QED BY <1>1, <1>2, <1>3

LEMMA InitInv == Init => SInv
<1> SUFFICES ASSUME Init PROVE SInv
  OBVIOUS
<1>1. Used = {} /\ Interrupted = {}
  BY DEF Init, NoTurn, Used, Interrupted, Active
<1>2. CoreTypes
  BY TurnFacts, IdleRun
     DEF Init, CoreTypes, Task, TaskStatus, NoTurn, Turn, Blank, Object
<1>3. TurnInv
  BY <1>1, TurnFacts DEF TurnInv
<1>4. TaskInv
  BY <1>1 DEF Init, TaskInv, Active, CancelHonoured, NoTurn
<1>5. Alone
  BY IdleRun DEF Init, Alone, Preparing, Owning, Open, PrepareStages, OpenStages
<1>6. ASSUME NEW x \in Threads PROVE RunInv(x)
  BY IdleRun DEF Init, RunInv, RequestInv, OwnerInv, OutcomeInv, Owning, Open, Early,
     OpenStages
<1> QED BY <1>2, <1>3, <1>4, <1>5, <1>6 DEF SInv
-----------------------------------------------------------------------------
(* Frames: what a step has to respect *)

\* A step that leaves rows, registry and threads alone.
LEMMA SameKeeps ==
    ASSUME SInv, UNCHANGED <<task, turn, reg, object, run, accepted, outages>>
    PROVE  SInv'
<1>1. CoreTypes' /\ TurnInv' /\ TaskInv' /\ Alone'
  BY DEF SInv, CoreTypes, TurnInv, TaskInv, Alone, CancelHonoured, Used, Interrupted,
     Preparing, Owning, Open
<1>2. ASSUME NEW x \in Threads PROVE RunInv(x)'
  <2>1. RunInv(x) /\ LastMessage' = LastMessage /\ Used' = Used
        /\ Interrupted' = Interrupted
    BY DEF SInv, LastMessage, Used, Interrupted
  <2>2. (Open(x)' <=> Open(x)) /\ (Owning(x)' <=> Owning(x))
    BY DEF Open, Owning
  <2>3. RequestInv(x)' /\ OutcomeInv(x)'
    BY <2>1 DEF RunInv, RequestInv, OutcomeInv
  <2>4. OwnerInv(x)'
    BY <2>1, <2>2 DEF RunInv, OwnerInv
  <2> QED BY <2>3, <2>4 DEF RunInv
<1> QED BY <1>1, <1>2 DEF SInv

\* A step that changes only its own request or execution.
LEMMA RunFrame ==
    ASSUME SInv, NEW x \in Threads, NEW r \in Run, run' = [run EXCEPT ![x] = r],
           UNCHANGED <<task, turn, reg, object, accepted>>, outages' \in 0 .. MaxOutages,
           task.status # "absent",
           r.stage \in PrepareStages => \A y \in Threads \ {x} : ~Preparing(y),
           Owning(x)' => Owning(x), Open(x)' <=> Open(x),
           r.state \in {run[x].state, NoState} \/ (Open(x) /\ r.state = reg),
           RunInv(x)'
    PROVE  SInv'
<1>1. run'[x] = r /\ \A y \in Threads \ {x} : run'[y] = run[y]
  BY DEF SInv, CoreTypes
<1>2. CoreTypes'
  BY DEF SInv, CoreTypes
<1>3. TurnInv'
  BY DEF SInv, TurnInv, Used
<1>4. TaskInv'
  BY DEF SInv, TaskInv, Used, Interrupted, CancelHonoured
<1>5. \A y \in Threads \ {x} : /\ Preparing(y)' <=> Preparing(y)
                               /\ Owning(y)' <=> Owning(y)
                               /\ Open(y)' <=> Open(y)
  <2> TAKE y \in Threads \ {x}
  <2>1. run'[y] = run[y] /\ turn' = turn
    BY <1>1
  <2>2. Open(y)' <=> Open(y)
    BY <2>1 DEF Open
  <2>3. Owning(y)' <=> Owning(y)
    BY <2>1, <2>2 DEF Owning
  <2>4. Preparing(y)' <=> Preparing(y)
    BY <2>1 DEF Preparing
  <2> QED BY <2>2, <2>3, <2>4
<1>6. \A y \in Threads : Open(y) => Owning(y) /\ reg # NoState
  BY DEF SInv, RunInv, OwnerInv, Owning
<1>7. Alone'
  <2>1. ASSUME NEW y \in Threads, NEW z \in Threads, Preparing(y)', Preparing(z)' PROVE y = z
    <3>1. \A w \in Threads \ {x} : ~(Preparing(x)' /\ Preparing(w)')
      BY <1>1 DEF Preparing
    <3>2. y # x /\ z # x => y = z
      BY <2>1, <1>5 DEF SInv, Alone
    <3> QED BY <2>1, <3>1, <3>2
  <2>2. ASSUME NEW y \in Threads, NEW z \in Threads, Owning(y)', Owning(z)' PROVE y = z
    BY <2>2, <1>5 DEF SInv, Alone
  <2>3. ASSUME NEW y \in Threads, NEW z \in Threads, Open(y)', y # z
        PROVE  run'[z].state # reg
    <3>1. Open(y)
      BY <2>3, <1>5
    <3>2. run[z].state # reg /\ reg # NoState
      BY <2>3, <3>1, <1>6 DEF SInv, Alone
    <3>3. ~Open(z)
      BY <2>3, <3>1, <1>6 DEF SInv, Alone
    <3> QED BY <1>1, <3>2, <3>3
  <2>4. reg # NoState /\ object[reg].terminal = "none" => \E y \in Threads : Open(y)'
    BY <1>5 DEF SInv, Alone
  <2> QED BY <2>1, <2>2, <2>3, <2>4 DEF Alone
<1>8. ASSUME NEW y \in Threads PROVE RunInv(y)'
  <2>1. CASE y = x
    BY <2>1
  <2>2. CASE y # x
    <3>1. RunInv(y) /\ run'[y] = run[y]
      BY <1>1, <2>2 DEF SInv
    <3> QED BY <3>1 DEF RunInv, RequestInv, OwnerInv, OutcomeInv, Owning, Open, Used,
         Interrupted, LastMessage
  <2> QED BY <2>1, <2>2
<1> QED BY <1>2, <1>3, <1>4, <1>7, <1>8 DEF SInv

\* Nobody owns an Assistant, nor has an open state object, when none is active.
LEMMA NobodyOwns ==
    ASSUME SInv, Interrupted = {}
    PROVE  /\ \A x \in Threads : ~Owning(x) /\ ~Open(x)
           /\ reg # NoState => object[reg].terminal # "none"
  BY DEF SInv, RunInv, OwnerInv, Owning, Alone

\* A turn is appended, or a failed one is generated again.
LEMMA StartFrame ==
    ASSUME SInv, NEW x \in Threads, NEW n \in Turns, NEW t \in Turn, NEW r \in Run,
           Interrupted = {}, turn[n].status \in {"none", "FAILED"},
           t.status = "PENDING", t.user = 2 * n - 1,
           \E k \in 0 .. MaxTurns : Used \cup {n} = 1 .. k,
           turn' = [turn EXCEPT ![n] = t],
           task' \in Task, task'.status = "PENDING",
           accepted' = accepted \ {n}, UNCHANGED <<reg, object>>,
           run' = [run EXCEPT ![x] = r], r.state = NoState, r.stage \in {"idle", "register"},
           r.stage = "register" => r.turn = n,
           \A y \in Threads \ {x} : ~Preparing(y),
           outages' \in 0 .. MaxOutages
    PROVE  SInv'
<1>1. run'[x] = r /\ \A y \in Threads \ {x} : run'[y] = run[y]
  BY DEF SInv, CoreTypes
<1>2. turn'[n] = t /\ \A m \in Turns \ {n} : turn'[m] = turn[m]
  BY DEF SInv, CoreTypes
<1>3. Used' = Used \cup {n} /\ Interrupted' = {n}
  BY <1>2 DEF Used, Interrupted, Active
<1>4. CoreTypes'
  BY DEF SInv, CoreTypes
<1>5. TurnInv'
  BY <1>2, <1>3 DEF SInv, TurnInv, Used
<1>6. TaskInv'
  <2>1. CancelHonoured'
    BY <1>2 DEF SInv, TaskInv, CancelHonoured
  <2> QED BY <1>2, <1>3, <2>1 DEF SInv, TaskInv
<1>7. ASSUME NEW y \in Threads, y # x PROVE RunInv(y)' /\ ~Owning(y)' /\ ~Open(y)'
  <2>1. RunInv(y) /\ run'[y] = run[y] /\ ~Owning(y) /\ ~Open(y) /\ ~Preparing(y)
    BY <1>1, <1>7, NobodyOwns DEF SInv
  <2>2. run[y].stage = "fallback" => turn'[run[y].turn] = turn[run[y].turn]
    BY <2>1, <1>2 DEF RunInv, RequestInv, OutcomeInv, Used
  <2>3. ~Owning(y)' /\ ~Open(y)'
    BY <2>1, <2>2 DEF Owning, Open
  <2>4. RequestInv(y)'
    BY <2>1, <1>3 DEF RunInv, RequestInv, Preparing, Early, PrepareStages
  <2>5. OwnerInv(y)'
    BY <2>1, <2>3 DEF OwnerInv, Owning, Open, OpenStages, Preparing, PrepareStages
  <2>6. OutcomeInv(y)'
    BY <2>1, <2>2, <1>2 DEF RunInv, RequestInv, OutcomeInv, Owning, Used, Terminal
  <2> QED BY <2>3, <2>4, <2>5, <2>6 DEF RunInv
<1>8. ~Open(x)' /\ RunInv(x)'
  BY <1>1, <1>2, <1>3 DEF RunInv, RequestInv, OwnerInv, OutcomeInv, Owning, Open, Early,
     OpenStages, PrepareStages, Active
<1>9. Alone'
  BY <1>1, <1>7, <1>8, NobodyOwns DEF Alone, Preparing
<1> QED BY <1>4, <1>5, <1>6, <1>7, <1>8, <1>9 DEF SInv

\* The Assistant of an execution is marked, settled or failed by it.
LEMMA OwnedFrame ==
    ASSUME SInv, NEW x \in Threads, NEW n \in Turns, NEW t \in Turn, NEW r \in Run,
           Owning(x), n = run[x].turn, r.turn = n,
           t.status # "none", t.user = turn[n].user,
           t.status = "COMPLETED" => n \notin accepted,
           t.status = "CANCELLED" => n \in accepted,
           turn' = [turn EXCEPT ![n] = t],
           task' \in Task, task'.status = t.status,
           UNCHANGED <<reg, object, accepted>>, outages' \in 0 .. MaxOutages,
           run' = [run EXCEPT ![x] = r], r.state = run[x].state, r.stage \notin PrepareStages,
           Open(x)' <=> Open(x), RunInv(x)'
    PROVE  SInv'
<1>1. run'[x] = r /\ \A y \in Threads \ {x} : run'[y] = run[y]
  BY DEF SInv, CoreTypes
<1>2. turn'[n] = t /\ \A m \in Turns \ {n} : turn'[m] = turn[m]
  BY DEF SInv, CoreTypes
<1>3. n \in Interrupted
  BY DEF SInv, RunInv, OwnerInv
<1>4. Used' = Used /\ Interrupted' = IF t.status \in Active THEN {n} ELSE {}
  <2>1. Used' = Used
    BY <1>2, <1>3 DEF Used, Interrupted, Active
  <2>2. Interrupted = {n}
    BY <1>3 DEF SInv, TaskInv
  <2> QED BY <1>2, <2>1, <2>2 DEF Interrupted
<1>5. CoreTypes'
  BY DEF SInv, CoreTypes
<1>6. TurnInv'
  BY <1>2, <1>4 DEF SInv, TurnInv, Used
<1>7. TaskInv'
  <2>1. CancelHonoured'
    BY <1>2 DEF SInv, TaskInv, CancelHonoured
  <2>2. t.status # "absent" /\ (t.status \in Active \/ t.status \notin Active)
    BY DEF Turn, Active, Terminal
  <2> QED BY <1>2, <1>4, <2>1, <2>2 DEF SInv, TaskInv
<1>8. ASSUME NEW y \in Threads, y # x PROVE RunInv(y)' /\ ~Owning(y)' /\ ~Preparing(y)' /\ ~Open(y)'
  <2>1. RunInv(y) /\ run'[y] = run[y] /\ ~Owning(y)
    BY <1>1, <1>8 DEF SInv, Alone
  <2>2. ~Preparing(y) /\ ~Open(y)
    BY <2>1, <1>3 DEF RunInv, RequestInv, Preparing, Owning, PrepareStages, Early
  <2>3. run[y].stage = "fallback" => turn'[run[y].turn] = turn[run[y].turn]
    BY <2>1, <1>2, <1>3 DEF RunInv, RequestInv, Owning, Used, Interrupted
  <2>4. ~Owning(y)' /\ ~Open(y)' /\ ~Preparing(y)'
    BY <2>1, <2>2, <2>3 DEF Owning, Open, Preparing
  <2>5. RequestInv(y)'
    BY <2>1, <2>2, <1>4 DEF RunInv, RequestInv, Preparing, Early, PrepareStages
  <2>6. OwnerInv(y)'
    BY <2>1, <2>2, <2>4 DEF OwnerInv, Owning, Open, OpenStages
  <2>7. OutcomeInv(y)'
    BY <2>1, <2>3, <1>2, <1>3 DEF RunInv, RequestInv, OutcomeInv, Owning, Used, Terminal,
       Interrupted, Active
  <2> QED BY <2>4, <2>5, <2>6, <2>7 DEF RunInv
<1>9. Alone'
  <2>1. ~Preparing(x)'
    BY <1>1 DEF Preparing
  <2>2. Open(x)' => \A y \in Threads \ {x} : run'[y].state # reg
    BY <1>1 DEF SInv, Alone
  <2>3. reg # NoState /\ object[reg].terminal = "none" => Open(x)'
    <3>1. \A y \in Threads : Open(y) => Owning(y)
      BY DEF Owning
    <3> QED BY <3>1 DEF SInv, Alone
  <2> QED BY <1>8, <2>1, <2>2, <2>3 DEF Alone
<1> QED BY <1>5, <1>6, <1>7, <1>8, <1>9 DEF SInv

-----------------------------------------------------------------------------
(* Records of a request or an execution *)

Stages == {"idle"} \cup PrepareStages \cup OpenStages \cup ClosingStages

\* r is what becomes of the thread: another stage, and whatever else it changes
\* but its turn and its state object.
Becomes(x, r, stage) ==
    /\ r \in Run /\ run' = [run EXCEPT ![x] = r] /\ run'[x] = r
    /\ r.stage = stage /\ r.turn = run[x].turn /\ r.state = run[x].state

LEMMA Busy ==
    ASSUME SInv, NEW x \in Threads
    PROVE  run[x] \in Run /\ (run[x].stage # "idle" => task.status # "absent")
  BY IdleRun DEF SInv, CoreTypes, TaskInv

LEMMA Goes ==
    ASSUME SInv, NEW x \in Threads, NEW stage \in Stages, GoTo(x, stage)
    PROVE  \E r \in Run : /\ Becomes(x, r, stage) /\ r.last = run[x].last
                          /\ r.seen = run[x].seen /\ r.outcome = run[x].outcome
<1> DEFINE r == [run[x] EXCEPT !.stage = stage]
<1>1. r \in Run /\ r.stage = stage /\ r.turn = run[x].turn /\ r.last = run[x].last
      /\ r.seen = run[x].seen /\ r.state = run[x].state /\ r.outcome = run[x].outcome
  BY Busy DEF Run, Stages
<1>2. run' = [run EXCEPT ![x] = r]
  BY DEF GoTo
<1> HIDE DEF r
<1> QED BY <1>1, <1>2 DEF SInv, CoreTypes, Becomes

LEMMA Ends ==
    ASSUME SInv, NEW x \in Threads, End(x)
    PROVE  run' = [run EXCEPT ![x] = Idle] /\ run'[x] = Idle
  BY DEF SInv, CoreTypes, End

-----------------------------------------------------------------------------
(* Requests that read *)

\* A request is begun when no other is prepared and no Assistant is active.
LEMMA Begins ==
    ASSUME SInv, Overlap = {}, NEW kind, MayBegin(kind), Generatable
    PROVE  Interrupted = {} /\ \A x \in Threads : ~Preparing(x)
  BY DEF SInv, TaskInv, MayBegin, Generatable, Interrupted, Active, Terminal

LEMMA BeginSendKeeps ==
    ASSUME SInv, Overlap = {}, NEW x \in Threads, BeginSend(x)
    PROVE  SInv'
<1> DEFINE r == [Idle EXCEPT !.stage = "send_checked", !.seen = task.status]
<1>1. Interrupted = {} /\ \A y \in Threads : ~Preparing(y)
  BY Begins DEF BeginSend
<1>2. r \in Run /\ r.stage = "send_checked" /\ r.seen = task.status /\ r.state = NoState
  BY IdleRun DEF SInv, CoreTypes, Task, Idle, Run, PrepareStages
<1>3. run' = [run EXCEPT ![x] = r] /\ run[x].stage = "idle" /\ task.status \in Terminal
      /\ UNCHANGED <<task, turn, reg, object, accepted, outages>>
  BY DEF BeginSend, Generatable
<1>4. Used # Turns
  <2>1. {y \in Threads : run[y].stage \in {"send_checked", "send_numbered"}} = {}
    BY <1>1 DEF Preparing, PrepareStages
  <2>2. Cardinality({}) = 0 /\ Cardinality(Turns) = MaxTurns
    BY FS_EmptySet, FS_Interval DEF Turns
  <2>3. Cardinality(Used) + 0 < MaxTurns
    BY <2>1, <2>2 DEF BeginSend
  <2> QED BY <2>2, <2>3
<1> HIDE DEF r
<1>5. run'[x] = r
  BY <1>3 DEF SInv, CoreTypes
<1>6. RunInv(x)' /\ ~Owning(x)' /\ ~Open(x)' /\ ~Open(x)
  BY <1>1, <1>2, <1>3, <1>4, <1>5 DEF RunInv, RequestInv, OwnerInv, OutcomeInv, Owning, Open,
     OpenStages, Early, Interrupted, Used
<1>7. task.status # "absent"
  BY <1>3 DEF Terminal
<1> QED BY <1>1, <1>2, <1>3, <1>6, <1>7, RunFrame DEF SInv, CoreTypes

LEMMA BeginRetryKeeps ==
    ASSUME SInv, Overlap = {}, NEW x \in Threads, NEW n \in Turns, BeginRetry(x, n)
    PROVE  SInv'
<1> DEFINE r == [Idle EXCEPT !.stage = "retry_checked", !.turn = n, !.seen = task.status]
<1>1. Interrupted = {} /\ \A y \in Threads : ~Preparing(y)
  BY Begins DEF BeginRetry
<1>2. /\ r \in Run /\ r.stage = "retry_checked" /\ r.seen = task.status /\ r.state = NoState
      /\ r.turn = n
  BY IdleRun, TurnFacts DEF SInv, CoreTypes, Task, Idle, Run, PrepareStages
<1>3. run' = [run EXCEPT ![x] = r] /\ run[x].stage = "idle" /\ task.status \in Terminal
      /\ n \in Used /\ UNCHANGED <<task, turn, reg, object, accepted, outages>>
  BY DEF BeginRetry, Generatable
<1> HIDE DEF r
<1>4. run'[x] = r
  BY <1>3 DEF SInv, CoreTypes
<1>5. RunInv(x)' /\ ~Owning(x)' /\ ~Open(x)' /\ ~Open(x)
  BY <1>1, <1>2, <1>3, <1>4 DEF RunInv, RequestInv, OwnerInv, OutcomeInv, Owning, Open,
     OpenStages, Early, Interrupted, Used
<1>6. task.status # "absent"
  BY <1>3 DEF Terminal
<1> QED BY <1>1, <1>2, <1>3, <1>5, <1>6, RunFrame DEF SInv, CoreTypes

\* While it is prepared, a request is the only one.
LEMMA OnlyPreparing ==
    ASSUME SInv, NEW x \in Threads, run[x].stage \in Early
    PROVE  /\ \A y \in Threads \ {x} : ~Preparing(y)
           /\ ~Owning(x) /\ ~Open(x) /\ Preparing(x) /\ Interrupted = {}
  BY DEF SInv, RunInv, RequestInv, Alone, Early, Preparing, PrepareStages, Owning, Open, OpenStages

LEMMA ReadLastMessageKeeps ==
    ASSUME SInv, NEW x \in Threads, ReadLastMessage(x)
    PROVE  SInv'
<1> DEFINE r == [run[x] EXCEPT !.stage = "send_numbered", !.last = LastMessage]
<1>1. run[x].stage \in Early /\ run[x].stage = "send_checked"
  BY DEF ReadLastMessage, Early
<1>2. LastMessage \in Messages
  BY Numbers DEF SInv, Messages
<1>3. /\ r \in Run /\ r.stage = "send_numbered" /\ r.seen = run[x].seen /\ r.last = LastMessage
      /\ r.state = run[x].state
  BY <1>2, Busy DEF Run, PrepareStages
<1>4. run' = [run EXCEPT ![x] = r] /\ UNCHANGED <<task, turn, reg, object, accepted, outages>>
  BY DEF ReadLastMessage, SInv, CoreTypes
<1> HIDE DEF r
<1>5. run'[x] = r /\ LastMessage' = LastMessage /\ Used' = Used
  BY <1>4 DEF SInv, CoreTypes, LastMessage, Used
<1>6. RequestInv(x)
  BY DEF SInv, RunInv
<1>7. RunInv(x)' /\ ~Owning(x)' /\ ~Open(x)'
  BY <1>1, <1>3, <1>4, <1>5, <1>6 DEF RunInv, RequestInv, OwnerInv, OutcomeInv,
     Owning, Open, OpenStages, PrepareStages, Early, Interrupted
<1> QED BY <1>1, <1>3, <1>4, <1>7, Busy, OnlyPreparing, RunFrame DEF SInv, CoreTypes

\* A request or an execution is over.
LEMMA EndKeeps ==
    ASSUME SInv, NEW x \in Threads, End(x), ~Open(x), task.status # "absent",
           UNCHANGED <<task, turn, reg, object, accepted>>, outages' \in 0 .. MaxOutages
    PROVE  SInv'
<1>1. Idle \in Run /\ run' = [run EXCEPT ![x] = Idle] /\ run'[x] = Idle
      /\ Idle.stage = "idle" /\ Idle.state = NoState
  BY Ends, IdleRun
<1>2. RunInv(x)' /\ ~Owning(x)' /\ ~Open(x)' /\ Idle.stage \notin PrepareStages
  BY <1>1 DEF RunInv, RequestInv, OwnerInv, OutcomeInv, Owning, Open, OpenStages,
     PrepareStages, Early
<1> QED BY <1>1, <1>2, RunFrame

LEMMA ReadFailedAssistantKeeps ==
    ASSUME SInv, NEW x \in Threads, ReadFailedAssistant(x)
    PROVE  SInv'
<1>1. run[x].stage \in Early /\ run[x].stage = "retry_checked"
      /\ UNCHANGED <<task, turn, reg, object, accepted, outages>>
  BY DEF ReadFailedAssistant, Early
<1>2. CASE turn[run[x].turn].status = "FAILED"
  <2>1. GoTo(x, "retry_resetting") /\ "retry_resetting" \in Stages
    BY <1>2 DEF ReadFailedAssistant, Retryable, Stages, PrepareStages
  <2>2. PICK r \in Run : Becomes(x, r, "retry_resetting") /\ r.seen = run[x].seen
    BY <2>1, Goes
  <2>3. RequestInv(x)
    BY DEF SInv, RunInv
  <2>4. RunInv(x)' /\ ~Owning(x)' /\ ~Open(x)'
    BY <1>1, <1>2, <2>2, <2>3 DEF Becomes, RunInv, RequestInv, OwnerInv, OutcomeInv,
       Owning, Open, OpenStages, PrepareStages, Early, Interrupted, Used
  <2> QED BY <1>1, <2>2, <2>4, Busy, OnlyPreparing, RunFrame DEF Becomes, SInv, CoreTypes
<1>3. CASE turn[run[x].turn].status # "FAILED"
  BY <1>1, <1>3, EndKeeps, OnlyPreparing, Busy DEF ReadFailedAssistant, Retryable, SInv, CoreTypes
<1> QED BY <1>2, <1>3

LEMMA RejectRequestKeeps ==
    ASSUME SInv, NEW x \in Threads, RejectRequest(x)
    PROVE  SInv'
  BY EndKeeps, OnlyPreparing, Busy DEF RejectRequest, Early, SInv, CoreTypes

-----------------------------------------------------------------------------
(* Requests that commit *)

\* The first turn of a Task that does not exist.
LEMMA First ==
    ASSUME SInv, NEW x \in Threads, task.status = "absent", FirstTurn
    PROVE  \E t \in Turn :
             /\ t.status = "PENDING" /\ t.user = 2 * 1 - 1
             /\ turn' = [turn EXCEPT ![1] = t] /\ task' \in Task /\ task'.status = "PENDING"
             /\ Interrupted = {} /\ turn[1].status = "none" /\ Used = {}
             /\ \E k \in 0 .. MaxTurns : Used \cup {1} = 1 .. k
             /\ accepted = {} /\ \A y \in Threads : run[y] = Idle /\ ~Preparing(y)
<1>1. Used = {} /\ \A y \in Threads : run[y] = Idle
  BY DEF SInv, TaskInv
<1>2. accepted = {} /\ Interrupted = {} /\ turn[1].status = "none"
  BY <1>1, TurnFacts DEF SInv, TaskInv, Used, Interrupted, Active
<1>3. Used \cup {1} = 1 .. 1 /\ 1 \in 0 .. MaxTurns
  BY <1>1, BoundAssumption
<1>4. [status |-> "PENDING", user |-> NextMessage(0)] \in Turn /\ NextMessage(0) = 2 * 1 - 1
  BY TurnFacts DEF NextMessage, Turn, Active
<1>5. task' \in Task /\ task'.status = "PENDING"
  BY DEF FirstTurn, Task, TaskStatus, Active
<1>6. \A y \in Threads : ~Preparing(y)
  BY <1>1, IdleRun DEF Preparing, PrepareStages
<1> QED BY <1>1, <1>2, <1>3, <1>4, <1>5, <1>6 DEF FirstTurn

LEMMA CreateTaskKeeps ==
    ASSUME SInv, NEW x \in Threads, CreateTask(x) \/ CreateTaskLost(x)
    PROVE  SInv'
<1> DEFINE r == [Idle EXCEPT !.stage = "register", !.turn = 1]
<1>1. PICK t \in Turn :
             /\ t.status = "PENDING" /\ t.user = 2 * 1 - 1
             /\ turn' = [turn EXCEPT ![1] = t] /\ task' \in Task /\ task'.status = "PENDING"
             /\ Interrupted = {} /\ turn[1].status = "none" /\ Used = {}
             /\ \E k \in 0 .. MaxTurns : Used \cup {1} = 1 .. k
             /\ accepted = {} /\ \A y \in Threads : run[y] = Idle /\ ~Preparing(y)
  BY First DEF CreateTask, CreateTaskLost
<1>2. /\ r \in Run /\ r.state = NoState /\ r.stage = "register" /\ r.turn = 1
      /\ Idle \in Run /\ Idle.state = NoState /\ Idle.stage = "idle" /\ 1 \in Turns
  BY IdleRun, TurnFacts DEF Idle, Run, PrepareStages
<1>3. accepted' = accepted \ {1} /\ UNCHANGED <<reg, object>> /\ outages' \in 0 .. MaxOutages
  BY <1>1 DEF CreateTask, CreateTaskLost, Outage, SInv, CoreTypes
<1>4. CASE CreateTask(x)
  <2>1. run' = [run EXCEPT ![x] = r]
    BY <1>4 DEF CreateTask
  <2> HIDE DEF r
  <2> QED BY <1>1, <1>2, <1>3, <2>1, StartFrame
<1>5. CASE CreateTaskLost(x)
  <2>1. run' = [run EXCEPT ![x] = Idle]
    BY <1>1, <1>5 DEF CreateTaskLost, SInv, CoreTypes
  <2> QED BY <1>1, <1>2, <1>3, <2>1, StartFrame
<1> QED BY <1>4, <1>5

\* Neither the number of a turn nor the one of its messages is used twice.
LEMMA Inserts ==
    ASSUME SInv, NEW x \in Threads, run[x].stage = "send_numbered", InsertTurn(x)
    PROVE  \E t \in Turn :
             /\ NextTurn \in Turns /\ turn[NextTurn].status = "none" /\ NextTurn \notin Used
             /\ t.status = "PENDING" /\ t.user = 2 * NextTurn - 1
             /\ turn' = [turn EXCEPT ![NextTurn] = t] /\ task' \in Task /\ task'.status = "PENDING"
             /\ \E k \in 0 .. MaxTurns : Used \cup {NextTurn} = 1 .. k
             /\ accepted \ {NextTurn} = accepted
<1> DEFINE t == [status |-> "PENDING", user |-> NextMessage(run[x].last)]
<1>1. Used # Turns /\ run[x].last = LastMessage /\ run[x].seen \in Terminal
  BY DEF SInv, RunInv, RequestInv, Early
<1>2. PICK k \in 0 .. MaxTurns :
             /\ Used = 1 .. k /\ LastMessage = 2 * k
             /\ k + 1 \in Turns /\ NextTurn = k + 1
  BY <1>1, Numbers DEF SInv
<1>3. turn[NextTurn].status = "none" /\ NextTurn \notin Used /\ NextTurn \in Turns
  BY <1>2 DEF Used
<1>4. t.status = "PENDING" /\ t.user = 2 * NextTurn - 1 /\ t \in Turn
  <2>1. NextMessage(run[x].last) = 2 * k + 1 /\ 2 * k + 1 \in Messages
    BY <1>1, <1>2 DEF NextMessage, Messages, Turns
  <2> QED BY <1>2, <2>1 DEF Turn, Active
<1>5. turn' = [turn EXCEPT ![NextTurn] = t]
  BY DEF InsertTurn, Store
<1>6. task' = [task EXCEPT !.status = "PENDING"]
  BY <1>1 DEF InsertTurn, Store, Terminal
<1>7. task' \in Task /\ task'.status = "PENDING"
  BY <1>6 DEF SInv, CoreTypes, Task, TaskStatus, Active
<1>8. Used \cup {NextTurn} = 1 .. (k + 1) /\ k + 1 \in 0 .. MaxTurns
  BY <1>2 DEF Turns
<1>9. accepted \ {NextTurn} = accepted
  BY <1>3 DEF SInv, TaskInv
<1> HIDE DEF t
<1> QED BY <1>3, <1>4, <1>5, <1>7, <1>8, <1>9

LEMMA CommitSendKeeps ==
    ASSUME SInv, NEW x \in Threads, run[x].stage = "send_numbered", InsertTurn(x),
           End(x)
             \/ run' = [run EXCEPT ![x].stage = "register", ![x].turn = NextTurn],
           UNCHANGED <<reg, object, accepted>>, outages' \in 0 .. MaxOutages
    PROVE  SInv'
<1> DEFINE r == [run[x] EXCEPT !.stage = "register", !.turn = NextTurn]
<1>1. PICK t \in Turn :
             /\ NextTurn \in Turns /\ turn[NextTurn].status = "none" /\ NextTurn \notin Used
             /\ t.status = "PENDING" /\ t.user = 2 * NextTurn - 1
             /\ turn' = [turn EXCEPT ![NextTurn] = t] /\ task' \in Task /\ task'.status = "PENDING"
             /\ \E k \in 0 .. MaxTurns : Used \cup {NextTurn} = 1 .. k
             /\ accepted \ {NextTurn} = accepted
  BY Inserts
<1>2. run[x].state = NoState /\ run[x].stage \in Early
  BY DEF SInv, RunInv, RequestInv, PrepareStages, Early
<1>3. Interrupted = {} /\ \A y \in Threads \ {x} : ~Preparing(y)
  BY <1>2, OnlyPreparing
<1>4. CASE End(x)
  <2>1. /\ run' = [run EXCEPT ![x] = Idle] /\ Idle \in Run /\ Idle.state = NoState
        /\ Idle.stage = "idle" /\ accepted' = accepted \ {NextTurn}
    BY <1>1, <1>4, Ends, IdleRun
  <2> QED BY <1>1, <1>3, <2>1, StartFrame
<1>5. CASE run' = [run EXCEPT ![x].stage = "register", ![x].turn = NextTurn]
  <2>1. r \in Run /\ r.state = NoState /\ r.stage = "register" /\ r.turn = NextTurn
    BY <1>1, <1>2, Busy, TurnFacts DEF Run, PrepareStages
  <2>2. run' = [run EXCEPT ![x] = r]
    BY <1>5
  <2> HIDE DEF r
  <2> QED BY <1>1, <1>3, <2>1, <2>2, StartFrame
<1> QED BY <1>4, <1>5

LEMMA CommitRetryKeeps ==
    ASSUME SInv, NEW x \in Threads, run[x].stage = "retry_resetting", ResetAssistant(x),
           GoTo(x, "register") \/ End(x),
           UNCHANGED <<reg, object>>, outages' \in 0 .. MaxOutages
    PROVE  SInv'
<1> DEFINE n == run[x].turn
           t == [turn[n] EXCEPT !.status = "PENDING"]
<1>1. /\ run[x].state = NoState /\ run[x].stage \in Early /\ run[x].seen \in Terminal
      /\ n \in Used /\ turn[n].status = "FAILED"
  BY DEF SInv, RunInv, RequestInv, PrepareStages, Early
<1>2. Interrupted = {} /\ \A y \in Threads \ {x} : ~Preparing(y)
  BY <1>1, OnlyPreparing
<1>3. n \in Turns /\ t \in Turn /\ t.status = "PENDING" /\ t.user = 2 * n - 1
  BY <1>1 DEF SInv, CoreTypes, TurnInv, Used, Turn, Active
<1>4. \E k \in 0 .. MaxTurns : Used \cup {n} = 1 .. k
  BY <1>1 DEF SInv, TurnInv
<1>5. turn' = [turn EXCEPT ![n] = t] /\ accepted' = accepted \ {n}
  BY DEF ResetAssistant, Store
<1>6. task' = [task EXCEPT !.status = IF run[x].seen = t.status THEN @ ELSE t.status]
  BY DEF ResetAssistant, Store
<1>7. task' \in Task /\ task'.status = "PENDING"
  BY <1>1, <1>3, <1>6 DEF SInv, CoreTypes, Task, TaskStatus, Active, Terminal
<1> HIDE DEF t
<1>8. CASE End(x)
  <2>1. /\ run' = [run EXCEPT ![x] = Idle] /\ Idle \in Run /\ Idle.state = NoState
        /\ Idle.stage = "idle"
    BY <1>8, Ends, IdleRun
  <2> QED BY <1>1, <1>2, <1>3, <1>4, <1>5, <1>7, <2>1, StartFrame
<1>9. CASE GoTo(x, "register")
  <2>1. PICK r \in Run : Becomes(x, r, "register")
    BY <1>9, Goes DEF Stages, PrepareStages
  <2> QED BY <1>1, <1>2, <1>3, <1>4, <1>5, <1>7, <2>1, StartFrame DEF Becomes
<1> QED BY <1>8, <1>9

LEMMA CommitKeeps ==
    ASSUME SInv, NEW x \in Threads, CommitSend(x) \/ CommitRetry(x) \/ CommitLost(x)
    PROVE  SInv'
<1>1. outages' \in 0 .. MaxOutages
  BY DEF CommitSend, CommitRetry, CommitLost, Outage, SInv, CoreTypes
<1>2. CASE CommitSend(x)
  BY <1>1, <1>2, CommitSendKeeps DEF CommitSend
<1>3. CASE CommitRetry(x)
  BY <1>1, <1>3, CommitRetryKeeps DEF CommitRetry
<1>4. CASE CommitLost(x)
  BY <1>1, <1>4, CommitSendKeeps, CommitRetryKeeps DEF CommitLost
<1> QED BY <1>2, <1>3, <1>4

-----------------------------------------------------------------------------
(* Executions that read, or that are told something *)

\* The state object of an open execution is the registry's.
LEMMA OpenFacts ==
    ASSUME SInv, NEW x \in Threads, Open(x)
    PROVE  /\ Owning(x) /\ RunInv(x) /\ run[x] \in Run /\ task.status # "absent"
           /\ reg # NoState /\ object[reg].terminal = "none"
           /\ object[reg].turn = run[x].turn
           /\ run[x].turn \in Interrupted /\ run[x].turn \in Used
           /\ run[x].stage \notin Unstarted => run[x].state = reg /\ State(x) = object[reg]
<1>1. Owning(x) /\ RunInv(x) /\ run[x].stage # "idle"
  BY DEF SInv, Owning, Open, OpenStages
<1>2. run[x].stage \notin Unstarted => run[x].state = reg
  BY <1>1 DEF RunInv, OwnerInv
<1>3. run[x].turn \in Used
  BY <1>1 DEF RunInv, OwnerInv, Interrupted, Used, Active
<1> QED BY <1>1, <1>2, <1>3, Busy DEF RunInv, OwnerInv, State

\* The execution has come to an outcome that it may claim.
LEMMA FinishKeeps ==
    ASSUME SInv, NEW x \in Threads, NEW r \in Run, Becomes(x, r, "finish"),
           Open(x), run[x].stage \notin Unstarted,
           r.outcome \in Terminal, r.outcome = "CANCELLED" => object[reg].cancel,
           UNCHANGED <<task, turn, reg, object, accepted>>, outages' \in 0 .. MaxOutages
    PROVE  SInv'
<1>1. /\ Owning(x) /\ RunInv(x) /\ reg # NoState /\ object[reg].terminal = "none"
      /\ object[reg].turn = run[x].turn /\ run[x].turn \in Interrupted /\ run[x].turn \in Used
      /\ run[x].state = reg /\ task.status # "absent"
  BY OpenFacts
<1>2. Used' = Used /\ Interrupted' = Interrupted
  BY DEF Used, Interrupted
<1>3. Open(x)' /\ r.stage \notin PrepareStages
  BY DEF Becomes, Open, OpenStages, PrepareStages
<1>4. RequestInv(x)'
  BY <1>1, <1>2 DEF Becomes, RequestInv, Early, PrepareStages
<1>5. OwnerInv(x)'
  BY <1>1, <1>2, <1>3 DEF Becomes, RunInv, OwnerInv, OpenStages
<1>6. OutcomeInv(x)'
  BY DEF Becomes, OutcomeInv
<1> QED BY <1>1, <1>3, <1>4, <1>5, <1>6, RunFrame DEF Becomes, RunInv

LEMMA FinishesWith ==
    ASSUME SInv, NEW x \in Threads, Open(x), run[x].stage \notin Unstarted,
           NEW desired \in Terminal, Finish(x, desired),
           desired = "CANCELLED" => object[reg].cancel,
           UNCHANGED <<task, turn, reg, object, accepted>>, outages' \in 0 .. MaxOutages
    PROVE  SInv'
<1> DEFINE r == [run[x] EXCEPT !.stage = "finish", !.outcome = desired]
<1>1. r \in Run /\ r.stage = "finish" /\ r.turn = run[x].turn /\ r.state = run[x].state
      /\ r.outcome = desired
  BY Busy DEF Run, OpenStages
<1>2. run' = [run EXCEPT ![x] = r]
  BY DEF Finish
<1> HIDE DEF r
<1>3. Becomes(x, r, "finish")
  BY <1>1, <1>2 DEF Becomes, SInv, CoreTypes
<1> QED BY <1>1, <1>3, FinishKeeps

\* The execution goes on, and its Assistant stays as it is.
LEMMA OpenKeeps ==
    ASSUME SInv, NEW x \in Threads, NEW r \in Run, NEW stage \in OpenStages \ (Unstarted \cup {"finish"}),
           run' = [run EXCEPT ![x] = r], run'[x] = r, r.stage = stage, r.turn = run[x].turn,
           Open(x), r.state = reg,
           stage \in {"claimed", "starting", "marking"} => turn[run[x].turn].status = "PENDING",
           stage = "marking" => r.seen = "PENDING",
           UNCHANGED <<task, turn, reg, object, accepted>>, outages' \in 0 .. MaxOutages
    PROVE  SInv'
<1>1. /\ Owning(x) /\ RunInv(x) /\ reg # NoState /\ object[reg].terminal = "none"
      /\ object[reg].turn = run[x].turn /\ run[x].turn \in Interrupted /\ run[x].turn \in Used
      /\ task.status # "absent"
  BY OpenFacts
<1>2. Used' = Used /\ Interrupted' = Interrupted
  BY DEF Used, Interrupted
<1>3. Open(x)' /\ r.stage \notin PrepareStages
  BY DEF Open, OpenStages, PrepareStages
<1>4. RequestInv(x)'
  BY <1>1, <1>2 DEF RequestInv, Early, PrepareStages, OpenStages
<1>5. OwnerInv(x)'
  BY <1>1, <1>2, <1>3 DEF RunInv, OwnerInv, OpenStages
<1>6. OutcomeInv(x)'
  BY DEF OutcomeInv, OpenStages
<1> QED BY <1>1, <1>3, <1>4, <1>5, <1>6, RunFrame DEF RunInv

\* The entry is opened: the execution still has no state object of its own.
LEMMA StartStreamKeeps == ASSUME SInv, NEW x \in Threads, StartStream(x) PROVE SInv'
<1>1. Open(x) /\ run[x].stage = "prepared" /\ outages' \in 0 .. MaxOutages
      /\ UNCHANGED <<task, turn, reg, object, accepted>>
  BY DEF StartStream, Open, OpenStages, SInv, CoreTypes
<1>2. PICK r \in Run : Becomes(x, r, "opened")
  BY Goes DEF StartStream, Stages, OpenStages
<1>3. /\ Owning(x) /\ RunInv(x) /\ reg # NoState /\ object[reg].terminal = "none"
      /\ object[reg].turn = run[x].turn /\ run[x].turn \in Interrupted /\ run[x].turn \in Used
      /\ task.status # "absent"
  BY <1>1, OpenFacts
<1>4. Used' = Used /\ Interrupted' = Interrupted
  BY <1>1 DEF Used, Interrupted
<1>5. Open(x)' /\ r.stage \notin PrepareStages
  BY <1>2 DEF Becomes, Open, OpenStages, PrepareStages
<1>6. RequestInv(x)'
  BY <1>1, <1>2, <1>3, <1>4 DEF Becomes, RunInv, RequestInv, Early, PrepareStages
<1>7. OwnerInv(x)'
  BY <1>1, <1>2, <1>3, <1>4, <1>5 DEF Becomes, RunInv, OwnerInv
<1>8. OutcomeInv(x)'
  BY <1>2 DEF Becomes, OutcomeInv
<1> QED BY <1>1, <1>2, <1>3, <1>5, <1>6, <1>7, <1>8, RunFrame DEF Becomes, RunInv

LEMMA ClaimKeeps == ASSUME SInv, NEW x \in Threads, Claim(x) PROVE SInv'
<1> DEFINE r == [run[x] EXCEPT !.stage = "claimed", !.state = reg]
<1>1. Open(x) /\ run[x].stage \in Unstarted
  BY DEF Claim, Open, OpenStages
<1>2. run' = [run EXCEPT ![x] = r] /\ UNCHANGED <<task, turn, reg, object, accepted, outages>>
  BY <1>1, OpenFacts DEF Claim
<1>3. r \in Run /\ r.stage = "claimed" /\ r.state = reg /\ r.turn = run[x].turn
  BY <1>1, OpenFacts DEF Run, OpenStages, SInv, CoreTypes
<1>4. turn[run[x].turn].status = "PENDING"
  BY <1>1, OpenFacts DEF RunInv, OwnerInv
<1> HIDE DEF r
<1>5. run'[x] = r
  BY <1>2 DEF SInv, CoreTypes
<1> QED BY <1>1, <1>2, <1>3, <1>4, <1>5, OpenKeeps DEF OpenStages, SInv, CoreTypes

\* An execution that moves on within its open stages.
LEMMA GoesOn ==
    ASSUME SInv, NEW x \in Threads, Open(x), run[x].stage \notin Unstarted,
           NEW stage \in {"starting", "started", "streaming"}, GoTo(x, stage),
           stage = "starting" => turn[run[x].turn].status = "PENDING",
           UNCHANGED <<task, turn, reg, object, accepted>>, outages' \in 0 .. MaxOutages
    PROVE  SInv'
<1>1. stage \in Stages /\ stage \in OpenStages \ (Unstarted \cup {"finish"})
      /\ stage \notin {"claimed", "marking"}
  BY DEF Stages, OpenStages
<1>2. PICK r \in Run : Becomes(x, r, stage)
  BY <1>1, Goes
<1>3. r.state = reg
  BY <1>2, OpenFacts DEF Becomes
<1> QED BY <1>1, <1>2, <1>3, OpenKeeps DEF Becomes

LEMMA CheckCancelKeeps == ASSUME SInv, NEW x \in Threads, CheckCancel(x) PROVE SInv'
<1>1. Open(x) /\ run[x].stage = "claimed" /\ outages' \in 0 .. MaxOutages
      /\ UNCHANGED <<task, turn, reg, object, accepted>>
  BY DEF CheckCancel, Open, OpenStages, SInv, CoreTypes
<1>2. State(x) = object[reg] /\ turn[run[x].turn].status = "PENDING"
  BY <1>1, OpenFacts DEF RunInv, OwnerInv
<1>3. CASE State(x).cancel
  BY <1>1, <1>2, <1>3, FinishesWith DEF CheckCancel, Terminal
<1>4. CASE ~State(x).cancel
  BY <1>1, <1>2, <1>4, GoesOn DEF CheckCancel
<1> QED BY <1>3, <1>4

LEMMA ReadPendingKeeps == ASSUME SInv, NEW x \in Threads, ReadPending(x) PROVE SInv'
<1>1. Open(x) /\ run[x].stage = "starting" /\ outages' \in 0 .. MaxOutages
      /\ UNCHANGED <<task, turn, reg, object, accepted>>
  BY DEF ReadPending, Open, OpenStages, SInv, CoreTypes
<1>2. CASE Loaded(x)
  <2> DEFINE r == [run[x] EXCEPT !.seen = task.status, !.stage = "marking"]
  <2>1. turn[run[x].turn].status = "PENDING" /\ task.status = "PENDING"
    BY <1>1, OpenFacts DEF RunInv, OwnerInv, SInv, TaskInv
  <2>2. r \in Run /\ r.stage = "marking" /\ r.turn = run[x].turn /\ r.state = run[x].state
        /\ r.seen = "PENDING"
    BY <2>1, Busy DEF Run, OpenStages, SInv, CoreTypes, Task
  <2>3. run' = [run EXCEPT ![x] = r]
    BY <1>1, <1>2 DEF Loaded, SInv, CoreTypes, Run
  <2> HIDE DEF r
  <2>4. run'[x] = r
    BY <2>3 DEF SInv, CoreTypes
  <2>5. r.state = reg
    BY <1>1, <2>2, OpenFacts
  <2> QED BY <1>1, <2>1, <2>2, <2>3, <2>4, <2>5, OpenKeeps DEF OpenStages
<1>3. CASE Finish(x, "FAILED")
  BY <1>1, <1>3, FinishesWith DEF Terminal
<1> QED BY <1>2, <1>3 DEF ReadPending

LEMMA AttachKeeps == ASSUME SInv, NEW x \in Threads, Attach(x) PROVE SInv'
<1>1. Open(x) /\ run[x].stage = "started" /\ outages' \in 0 .. MaxOutages
      /\ UNCHANGED <<task, turn, reg, object, accepted>>
  BY DEF Attach, Open, OpenStages, SInv, CoreTypes
<1>2. State(x) = object[reg] /\ object[reg].terminal = "none"
  BY <1>1, OpenFacts
<1>3. CASE State(x).cancel
  BY <1>1, <1>2, <1>3, FinishesWith DEF Attach, Terminal
<1>4. CASE ~State(x).cancel
  <2>1. GoTo(x, "streaming") \/ Finish(x, "FAILED")
    BY <1>2, <1>4 DEF Attach
  <2> QED BY <1>1, <2>1, GoesOn, FinishesWith DEF Terminal
<1> QED BY <1>3, <1>4

LEMMA StreamEndsKeeps == ASSUME SInv, NEW x \in Threads, StreamEnds(x) PROVE SInv'
<1>1. Open(x) /\ run[x].stage = "streaming" /\ outages' \in 0 .. MaxOutages
      /\ UNCHANGED <<task, turn, reg, object, accepted>>
  BY DEF StreamEnds, Open, OpenStages, SInv, CoreTypes
<1>2. State(x) = object[reg]
  BY <1>1, OpenFacts
<1>3. \/ Finish(x, "CANCELLED") /\ object[reg].cancel
      \/ Finish(x, "COMPLETED") \/ Finish(x, "FAILED")
  BY <1>2 DEF StreamEnds
<1> QED BY <1>1, <1>3, FinishesWith DEF Terminal

LEMMA CloseGeneratorKeeps == ASSUME SInv, NEW x \in Threads, CloseGenerator(x) PROVE SInv'
<1> DEFINE r == [run[x] EXCEPT !.stage = "finish", !.outcome = "FAILED", !.open = FALSE]
<1>1. Open(x) /\ run[x].stage \notin Unstarted /\ outages' \in 0 .. MaxOutages
      /\ UNCHANGED <<task, turn, reg, object, accepted>>
  BY DEF CloseGenerator, Open, OpenStages, SInv, CoreTypes
<1>2. r \in Run /\ r.stage = "finish" /\ r.turn = run[x].turn /\ r.state = run[x].state
      /\ r.outcome = "FAILED"
  BY Busy DEF Run, OpenStages, Terminal
<1>3. run' = [run EXCEPT ![x] = r]
  BY DEF CloseGenerator, Closed
<1> HIDE DEF r
<1>4. Becomes(x, r, "finish")
  BY <1>2, <1>3 DEF Becomes, SInv, CoreTypes
<1> QED BY <1>1, <1>2, <1>4, FinishKeeps DEF Terminal

LEMMA EmitTerminalKeeps == ASSUME SInv, NEW x \in Threads, EmitTerminal(x) PROVE SInv'
<1>1. run[x].stage = "event" /\ outages' \in 0 .. MaxOutages /\ GoTo(x, "discard")
      /\ UNCHANGED <<task, turn, reg, object, accepted>>
  BY DEF EmitTerminal, SInv, CoreTypes
<1>2. PICK r \in Run : Becomes(x, r, "discard")
  BY <1>1, Goes DEF Stages, ClosingStages
<1>3. RunInv(x)' /\ ~Owning(x)' /\ ~Open(x)' /\ ~Open(x) /\ r.stage \notin PrepareStages
  <2>1. RunInv(x)
    BY DEF SInv
  <2> QED BY <1>1, <1>2, <2>1 DEF Becomes, RunInv, RequestInv, OwnerInv, OutcomeInv, Owning,
       Open, OpenStages, PrepareStages, Early, Used
<1> QED BY <1>1, <1>2, <1>3, Busy, RunFrame DEF Becomes

-----------------------------------------------------------------------------
(* Executions that write their Assistant *)

\* What a transaction of the owner of an Assistant commits.
Commits(x, t, status) ==
    /\ t \in Turn /\ t.status = status /\ t.user = turn[run[x].turn].user
    /\ turn' = [turn EXCEPT ![run[x].turn] = t]
    /\ task' \in Task /\ task'.status = status

LEMMA OwnerFacts ==
    ASSUME SInv, NEW x \in Threads, Owning(x)
    PROVE  /\ RunInv(x) /\ run[x] \in Run /\ task.status # "absent"
           /\ run[x].turn \in Turns /\ run[x].turn \in Interrupted /\ run[x].turn \in Used
           /\ turn[run[x].turn] \in Turn
<1>1. RunInv(x) /\ run[x].stage # "idle"
  BY DEF SInv, Owning, Open, OpenStages
<1> QED BY <1>1, Busy DEF RunInv, OwnerInv, Interrupted, Used, Active, SInv, CoreTypes

LEMMA Stores ==
    ASSUME SInv, NEW x \in Threads, Owning(x), NEW status \in Active \cup Terminal,
           run[x].seen # status,
           Store(x, run[x].turn, [turn[run[x].turn] EXCEPT !.status = status])
    PROVE  \E t \in Turn : Commits(x, t, status)
<1> DEFINE t == [turn[run[x].turn] EXCEPT !.status = status]
<1>1. t \in Turn /\ t.status = status /\ t.user = turn[run[x].turn].user
  BY OwnerFacts DEF Turn
<1>2. turn' = [turn EXCEPT ![run[x].turn] = t]
  BY DEF Store
<1>3. task' = [task EXCEPT !.status = status]
  BY <1>1 DEF Store
<1>4. task' \in Task /\ task'.status = status
  BY <1>3 DEF SInv, CoreTypes, Task, TaskStatus
<1> HIDE DEF t
<1> QED BY <1>1, <1>2, <1>4 DEF Commits

LEMMA Fails ==
    ASSUME SInv, NEW x \in Threads, Owning(x), FailActive(run[x].turn)
    PROVE  \E t \in Turn : Commits(x, t, "FAILED")
<1> DEFINE t == [turn[run[x].turn] EXCEPT !.status = "FAILED"]
<1>1. t \in Turn /\ t.status = "FAILED" /\ t.user = turn[run[x].turn].user
  BY OwnerFacts DEF Turn, Terminal
<1>2. turn' = [turn EXCEPT ![run[x].turn] = t]
  BY DEF FailActive
<1>3. task' \in Task /\ task'.status = "FAILED"
  BY DEF FailActive, SInv, CoreTypes, Task, TaskStatus, Terminal
<1> HIDE DEF t
<1> QED BY <1>1, <1>2, <1>3 DEF Commits

LEMMA MarkRunningKeeps ==
    ASSUME SInv, NEW x \in Threads, MarkRunning(x) \/ MarkRunningFails(x)
    PROVE  SInv'
<1>1. /\ run[x].stage = "marking" /\ Open(x) /\ outages' \in 0 .. MaxOutages
      /\ UNCHANGED <<reg, object, accepted>>
  BY DEF MarkRunning, MarkRunningFails, Outage, Open, OpenStages, SInv, CoreTypes
<1>2. /\ Owning(x) /\ RunInv(x) /\ reg # NoState /\ object[reg].terminal = "none"
      /\ object[reg].turn = run[x].turn /\ run[x].state = reg /\ run[x].turn \in Turns
      /\ run[x].turn \in Used
      /\ run[x].seen = "PENDING"
  BY <1>1, OpenFacts, OwnerFacts DEF RunInv, OwnerInv
<1>3. CASE Store(x, run[x].turn, [turn[run[x].turn] EXCEPT !.status = "RUNNING"])
  <2>1. PICK t \in Turn : Commits(x, t, "RUNNING")
    BY <1>2, <1>3, Stores DEF Active
  <2>2. turn'[run[x].turn].status = "RUNNING" /\ Used \subseteq Used'
    BY <1>2, <2>1 DEF Commits, SInv, CoreTypes, Used
  <2>3. ASSUME NEW r \in Run, NEW stage \in {"started", "finish"}, Becomes(x, r, stage),
               stage = "finish" => r.outcome = "FAILED"
        PROVE  SInv'
    <3>1. Open(x)' /\ r.stage \notin PrepareStages
      BY <2>3 DEF Becomes, Open, OpenStages, PrepareStages
    <3>2. RequestInv(x)'
      BY <1>2, <2>2, <2>3 DEF Becomes, RequestInv, Early, PrepareStages
    <3>3. OwnerInv(x)'
      BY <1>1, <1>2, <2>2, <2>3 DEF Becomes, RunInv, OwnerInv, Interrupted, Active, OpenStages,
         Terminal
    <3>4. OutcomeInv(x)'
      BY <2>3 DEF Becomes, OutcomeInv
    <3> QED BY <1>1, <1>2, <2>1, <2>3, <3>1, <3>2, <3>3, <3>4, OwnedFrame
         DEF Becomes, Commits, RunInv
  <2>4. CASE GoTo(x, "started")
    BY <2>3, <2>4, Goes DEF Stages, OpenStages
  <2>5. CASE Finish(x, "FAILED")
    <3> DEFINE r == [run[x] EXCEPT !.stage = "finish", !.outcome = "FAILED"]
    <3>1. r \in Run /\ r.stage = "finish" /\ r.turn = run[x].turn /\ r.state = run[x].state
          /\ r.outcome = "FAILED"
      BY Busy DEF Run, OpenStages, Terminal
    <3>2. run' = [run EXCEPT ![x] = r]
      BY <2>5 DEF Finish
    <3> HIDE DEF r
    <3>3. Becomes(x, r, "finish")
      BY <3>1, <3>2 DEF Becomes, SInv, CoreTypes
    <3> QED BY <2>3, <3>1, <3>3
  <2> QED BY <2>4, <2>5 DEF MarkRunning, MarkRunningFails
<1>4. CASE UNCHANGED <<task, turn>> /\ Finish(x, "FAILED")
  BY <1>1, <1>4, FinishesWith DEF Terminal
<1> QED BY <1>3, <1>4 DEF MarkRunning, MarkRunningFails

\* A closing execution goes on to the fallback or to its end.
LEMMA ClosingKeeps ==
    ASSUME SInv, NEW x \in Threads, run[x].stage \in {"persist", "write", "fallback"},
           NEW stage \in {"fallback", "discard"}, GoTo(x, stage),
           stage = "fallback" => Owning(x),
           UNCHANGED <<task, turn, reg, object, accepted>>, outages' \in 0 .. MaxOutages
    PROVE  SInv'
<1>1. PICK r \in Run : Becomes(x, r, stage)
  BY Goes DEF Stages, ClosingStages
<1>2. ~Open(x) /\ ~Open(x)' /\ r.stage \notin PrepareStages /\ run[x].stage # "idle"
  BY <1>1 DEF Becomes, Open, OpenStages, PrepareStages
<1>3. Owning(x)' => Owning(x) /\ stage = "fallback"
  BY <1>1, <1>2 DEF Becomes, Owning
<1>4. run[x].turn \in Used /\ (stage = "fallback" => run[x].turn \in Interrupted)
  BY OwnerFacts DEF SInv, RunInv, RequestInv
<1>5. RequestInv(x)'
  BY <1>1, <1>4 DEF Becomes, RequestInv, Early, PrepareStages, Used
<1>6. OwnerInv(x)'
  BY <1>1, <1>2, <1>3, <1>4 DEF Becomes, OwnerInv, Interrupted
<1>7. OutcomeInv(x)'
  BY <1>1, <1>4 DEF Becomes, OutcomeInv, Interrupted, Active
<1> QED BY <1>1, <1>2, <1>3, <1>5, <1>6, <1>7, Busy, RunFrame DEF Becomes, RunInv

LEMMA NotPersistedKeeps ==
    ASSUME SInv, NEW x \in Threads, run[x].stage \in {"persist", "write"}, NotPersisted(x),
           UNCHANGED <<task, turn, reg, object, accepted>>, outages' \in 0 .. MaxOutages
    PROVE  SInv'
  BY ClosingKeeps DEF NotPersisted, Owning

LEMMA ReadActiveKeeps == ASSUME SInv, NEW x \in Threads, ReadActive(x) PROVE SInv'
<1>1. run[x].stage = "persist" /\ Owning(x) /\ outages' \in 0 .. MaxOutages
      /\ UNCHANGED <<task, turn, reg, object, accepted>>
  BY DEF ReadActive, Owning, SInv, CoreTypes
<1>2. CASE Loaded(x)
  <2> DEFINE r == [run[x] EXCEPT !.seen = task.status, !.stage = "write"]
  <2>1. /\ run[x].turn \in Interrupted /\ run[x].turn \in Used /\ task.status \in Active
        /\ RunInv(x) /\ task.status # "absent"
    BY <1>1, OwnerFacts DEF SInv, TaskInv, Interrupted
  <2>2. r \in Run /\ r.stage = "write" /\ r.turn = run[x].turn /\ r.state = run[x].state
        /\ r.seen = task.status /\ r.outcome = run[x].outcome
    BY Busy DEF Run, ClosingStages, SInv, CoreTypes, Task
  <2>3. run' = [run EXCEPT ![x] = r]
    BY <1>1, <1>2 DEF Loaded, SInv, CoreTypes, Run
  <2> HIDE DEF r
  <2>4. run'[x] = r
    BY <2>3 DEF SInv, CoreTypes
  <2>5. ~Open(x) /\ ~Open(x)' /\ r.stage \notin PrepareStages
    BY <1>1, <2>2, <2>4 DEF Open, OpenStages, PrepareStages
  <2>6. RunInv(x)'
    BY <1>1, <2>1, <2>2, <2>4, <2>5 DEF RunInv, RequestInv, OwnerInv, OutcomeInv, Early,
       PrepareStages, Interrupted, Used
  <2> QED BY <1>1, <2>1, <2>2, <2>3, <2>5, <2>6, RunFrame
<1>3. CASE NotPersisted(x)
  BY <1>1, <1>3, NotPersistedKeeps
<1> QED BY <1>2, <1>3 DEF ReadActive

\* An execution that has settled its Assistant, or seen it fail.
LEMMA SettledKeeps ==
    ASSUME SInv, NEW x \in Threads, run[x].stage \in {"write", "fallback"}, Owning(x),
           NEW status \in Terminal, NEW t \in Turn, Commits(x, t, status),
           status = "COMPLETED" => run[x].turn \notin accepted,
           status = "CANCELLED" => run[x].turn \in accepted,
           NEW r \in Run, NEW stage \in {"event", "discard", "fallback"},
           run' = [run EXCEPT ![x] = r], r.stage = stage, r.turn = run[x].turn,
           r.state = run[x].state,
           stage = "event" => r.outcome = status,
           stage = "fallback" => status # "FAILED",
           UNCHANGED <<reg, object, accepted>>, outages' \in 0 .. MaxOutages
    PROVE  SInv'
<1>1. run[x].turn \in Turns /\ run[x].turn \in Used /\ run'[x] = r
  BY OwnerFacts DEF SInv, CoreTypes
<1>2. turn'[run[x].turn].status = status /\ run[x].turn \in Used'
  BY <1>1 DEF Commits, SInv, CoreTypes, Used, Terminal
<1>3. ~Open(x) /\ ~Open(x)' /\ ~Owning(x)' /\ r.stage \notin PrepareStages
  BY <1>1, <1>2 DEF Owning, Open, OpenStages, PrepareStages, Terminal, Active
<1>4. RunInv(x)'
  BY <1>1, <1>2, <1>3 DEF RunInv, RequestInv, OwnerInv, OutcomeInv, Early, PrepareStages,
     Terminal
<1> QED BY <1>1, <1>3, <1>4, OwnedFrame DEF Commits, Terminal

LEMMA Tells ==
    ASSUME SInv, NEW x \in Threads, NEW status \in Terminal, Tell(x, status)
    PROVE  \E r \in Run : /\ run' = [run EXCEPT ![x] = r] /\ run'[x] = r
                          /\ r.stage \in {"event", "discard"} /\ r.turn = run[x].turn
                          /\ r.state = run[x].state /\ r.outcome = status
<1> DEFINE stage == IF run[x].open THEN "event" ELSE "discard"
           r == [run[x] EXCEPT !.outcome = status, !.stage = stage]
<1>1. stage \in {"event", "discard"}
  OBVIOUS
<1>2. r \in Run /\ r.stage = stage /\ r.turn = run[x].turn /\ r.state = run[x].state
      /\ r.outcome = status
  BY Busy DEF Run, ClosingStages
<1>3. run' = [run EXCEPT ![x] = r]
  BY DEF Tell
<1> HIDE DEF r
<1> QED BY <1>1, <1>2, <1>3 DEF SInv, CoreTypes

LEMMA PersistKeeps ==
    ASSUME SInv, NEW x \in Threads, Persist(x) \/ PersistFails(x)
    PROVE  SInv'
<1>1. /\ run[x].stage = "write" /\ Owning(x) /\ outages' \in 0 .. MaxOutages
      /\ UNCHANGED <<reg, object, accepted>>
  BY DEF Persist, PersistFails, Outage, Owning, SInv, CoreTypes
<1>2. /\ run[x].outcome \in Terminal /\ run[x].seen \in Active
      /\ run[x].outcome = "CANCELLED" <=> run[x].turn \in accepted
  BY <1>1 DEF SInv, RunInv, OutcomeInv
<1>3. CASE Settle(x)
  <2>1. PICK t \in Turn : Commits(x, t, run[x].outcome)
    BY <1>1, <1>2, <1>3, Stores DEF Settle, Active, Terminal
  <2>2. CASE Persist(x)
    <3>1. PICK r \in Run : /\ run' = [run EXCEPT ![x] = r] /\ run'[x] = r
                           /\ r.stage \in {"event", "discard"} /\ r.turn = run[x].turn
                           /\ r.state = run[x].state /\ r.outcome = run[x].outcome
      BY <1>2, <2>2, Tells DEF Persist
    <3> QED BY <1>1, <1>2, <2>1, <3>1, SettledKeeps
  <2>3. CASE PersistFails(x)
    <3>1. PICK stage \in {"discard", "fallback"} :
            GoTo(x, stage) /\ (stage = "fallback" => run[x].outcome # "FAILED")
      BY <2>3 DEF PersistFails, NotPersisted
    <3>2. PICK r \in Run : Becomes(x, r, stage)
      BY <3>1, Goes DEF Stages, ClosingStages
    <3> QED BY <1>1, <1>2, <2>1, <3>1, <3>2, SettledKeeps DEF Becomes
  <2> QED BY <2>2, <2>3
<1>4. CASE UNCHANGED <<task, turn>> /\ NotPersisted(x)
  BY <1>1, <1>4, NotPersistedKeeps
<1> QED BY <1>3, <1>4 DEF Persist, PersistFails

LEMMA FallbackKeeps ==
    ASSUME SInv, NEW x \in Threads, Fallback(x) \/ FallbackFails(x)
    PROVE  SInv'
<1>1. /\ run[x].stage = "fallback" /\ outages' \in 0 .. MaxOutages
      /\ UNCHANGED <<reg, object, accepted>>
  BY DEF Fallback, FallbackFails, Outage, SInv, CoreTypes
<1>2. CASE Failable(run[x].turn) /\ FailActive(run[x].turn)
  <2>1. Owning(x)
    BY <1>1, <1>2 DEF Failable, Owning
  <2>2. PICK t \in Turn : Commits(x, t, "FAILED")
    BY <1>2, <2>1, Fails
  <2>3. CASE Tell(x, Told(x))
    <3>1. PICK r \in Run : /\ run' = [run EXCEPT ![x] = r] /\ run'[x] = r
                           /\ r.stage \in {"event", "discard"} /\ r.turn = run[x].turn
                           /\ r.state = run[x].state /\ r.outcome = "FAILED"
      BY <2>3, Tells DEF Told, Terminal
    <3> QED BY <1>1, <2>1, <2>2, <3>1, SettledKeeps DEF Terminal
  <2>4. CASE GoTo(x, "discard")
    <3>1. PICK r \in Run : Becomes(x, r, "discard")
      BY <2>4, Goes DEF Stages, ClosingStages
    <3> QED BY <1>1, <2>1, <2>2, <3>1, SettledKeeps DEF Becomes, Terminal
  <2> QED BY <2>3, <2>4, <1>2, <1>1 DEF Fallback, FallbackFails
<1>3. CASE UNCHANGED <<task, turn>> /\ GoTo(x, "discard")
  BY <1>1, <1>3, ClosingKeeps
<1>4. CASE ~Failable(run[x].turn) /\ UNCHANGED <<task, turn>> /\ Tell(x, Told(x))
  <2>1. PICK r \in Run : /\ run' = [run EXCEPT ![x] = r] /\ run'[x] = r
                         /\ r.stage \in {"event", "discard"} /\ r.turn = run[x].turn
                         /\ r.state = run[x].state /\ r.outcome = "FAILED"
    BY <1>4, Tells DEF Told, Terminal
  <2>2. ~Open(x) /\ ~Open(x)' /\ ~Owning(x)' /\ r.stage \notin PrepareStages
    BY <1>1, <2>1 DEF Owning, Open, OpenStages, PrepareStages
  <2>3. run[x].turn \in Used /\ Used' = Used /\ RunInv(x)
    BY <1>1, <1>4 DEF SInv, RunInv, RequestInv, Used
  <2>4. RunInv(x)'
    BY <2>1, <2>2, <2>3 DEF RunInv, RequestInv, OwnerInv, OutcomeInv, Early, PrepareStages
  <2> QED BY <1>1, <1>4, <2>1, <2>2, <2>4, Busy, RunFrame
<1> QED
  <2>1. CASE Fallback(x)
    BY <1>2, <1>3, <1>4, <2>1 DEF Fallback
  <2>2. CASE FallbackFails(x)
    BY <1>2, <1>3, <2>2 DEF FallbackFails
  <2> QED BY <2>1, <2>2

-----------------------------------------------------------------------------
(* The registry *)

\* A prepared request owns its Assistant, and its state object is a new one.
LEMMA RegisterKeeps == ASSUME SInv, NEW x \in Threads, Register(x) PROVE SInv'
<1> DEFINE n == run[x].turn
<1>1. run[x].stage = "register" /\ Owning(x) /\ ~Open(x) /\ Preparing(x)
  BY DEF Register, Owning, Open, OpenStages, Preparing, PrepareStages
<1>2. /\ RunInv(x) /\ n \in Turns /\ n \in Interrupted /\ n \in Used /\ n \notin accepted
      /\ turn[n].status = "PENDING" /\ run[x].state = NoState /\ task.status # "absent"
  BY <1>1, OwnerFacts DEF RunInv, OwnerInv, RequestInv, PrepareStages
<1>3. PICK s \in States \ Held : NewObject(s, n) /\ reg' = s
  BY DEF Register
<1>4. UNCHANGED <<task, turn, accepted, outages>>
  BY DEF Register
<1>5. PICK r \in Run : Becomes(x, r, "prepared")
  BY Goes DEF Register, Stages, OpenStages
<1>6. \A y \in Threads \ {x} : run'[y] = run[y] /\ run[y].state # s
  BY <1>3, <1>5 DEF Becomes, Held, SInv, CoreTypes
<1>7. reg' = s /\ s # NoState /\ object'[s] = [Blank EXCEPT !.turn = n]
      /\ \A o \in States \ {s} : object'[o] = object[o]
  BY <1>3, StateAssumption DEF NewObject, SInv, CoreTypes
<1>8. object'[s].turn = n /\ object'[s].cancel = FALSE /\ object'[s].terminal = "none"
  BY <1>7 DEF Blank
<1>9. CoreTypes'
  <2>1. [Blank EXCEPT !.turn = n] \in Object
    BY <1>2, TurnFacts DEF Blank, Object
  <2>2. object' \in [States -> Object]
    BY <1>3, <2>1 DEF NewObject, SInv, CoreTypes
  <2>3. run' \in [Threads -> Run]
    BY <1>5 DEF Becomes, SInv, CoreTypes
  <2> QED BY <1>4, <1>7, <2>2, <2>3 DEF SInv, CoreTypes
<1>10. TurnInv'
  BY <1>4 DEF SInv, TurnInv, Used
<1>11. TaskInv'
  BY <1>2, <1>4 DEF SInv, TaskInv, Used, Interrupted, CancelHonoured
<1>12. ASSUME NEW y \in Threads \ {x}
       PROVE  /\ ~Owning(y)' /\ ~Open(y)' /\ ~Preparing(y)' /\ RunInv(y)'
              /\ run'[y].state # reg'
  <2>1. ~Owning(y) /\ ~Preparing(y) /\ RunInv(y) /\ run'[y] = run[y] /\ run[y].state # s
    BY <1>1, <1>6 DEF SInv, Alone
  <2>2. ~Open(y)
    BY <2>1 DEF Owning
  <2>3. ~Owning(y)' /\ ~Open(y)' /\ ~Preparing(y)'
    BY <1>4, <2>1, <2>2 DEF Owning, Open, Preparing
  <2>4. RequestInv(y)' /\ OutcomeInv(y)'
    BY <1>4, <2>1 DEF RunInv, RequestInv, OutcomeInv, Interrupted, Used, LastMessage
  <2>5. OwnerInv(y)'
    BY <2>1, <2>2, <2>3, <1>4 DEF RunInv, OwnerInv, Open, OpenStages
  <2> QED BY <1>7, <2>1, <2>3, <2>4, <2>5 DEF RunInv
<1>13. RunInv(x)' /\ Open(x)' /\ ~Preparing(x)'
  <2>1. run'[x].stage = "prepared" /\ run'[x].turn = n /\ run'[x].state = NoState
    BY <1>2, <1>5 DEF Becomes
  <2>2. Open(x)' /\ ~Preparing(x)'
    BY <2>1 DEF Open, OpenStages, Preparing, PrepareStages
  <2>3. RequestInv(x)' /\ OutcomeInv(x)'
    BY <1>2, <1>4, <2>1 DEF RequestInv, OutcomeInv, Early, PrepareStages, Used
  <2>4. OwnerInv(x)'
    BY <1>2, <1>4, <1>7, <1>8, <2>1 DEF OwnerInv, Interrupted
  <2> QED BY <2>2, <2>3, <2>4 DEF RunInv
<1>14. Alone'
  BY <1>12, <1>13 DEF Alone
<1>15. \A y \in Threads : RunInv(y)'
  BY <1>12, <1>13
<1> QED BY <1>9, <1>10, <1>11, <1>14, <1>15 DEF SInv

\* The cancellation that is accepted is the one of the open execution.
LEMMA WinKeeps ==
    ASSUME SInv, Cancellable, object' = [object EXCEPT ![reg].cancel = TRUE],
           accepted' = accepted \cup {object[reg].turn},
           UNCHANGED <<task, turn, reg, run, outages>>
    PROVE  SInv'
<1>1. reg # NoState /\ object[reg].terminal = "none" /\ reg \in States
  BY DEF Cancellable, SInv, CoreTypes
<1>2. PICK w \in Threads : Open(w)
  BY <1>1 DEF SInv, Alone
<1>3. /\ Owning(w) /\ object[reg].turn = run[w].turn /\ run[w].turn \in Interrupted
      /\ run[w].turn \in Used /\ run[w].turn \in Turns
  BY <1>2, OpenFacts, OwnerFacts
<1>4. UNCHANGED <<task, turn, reg, run, outages>> /\ accepted' = accepted \cup {run[w].turn}
  BY <1>3
<1>5. /\ object'[reg].cancel = TRUE /\ object'[reg].turn = object[reg].turn
      /\ object'[reg].terminal = object[reg].terminal
  BY <1>1 DEF SInv, CoreTypes, Object
<1>6. CoreTypes'
  BY <1>1, <1>3, <1>4 DEF SInv, CoreTypes, Object
<1>7. TurnInv' /\ Used' = Used /\ Interrupted' = Interrupted
  BY <1>4 DEF SInv, TurnInv, Used, Interrupted
<1>8. TaskInv'
  <2>1. CancelHonoured'
    BY <1>3, <1>4 DEF SInv, TaskInv, CancelHonoured, Interrupted, Active
  <2> QED BY <1>3, <1>4, <1>7, <2>1 DEF SInv, TaskInv
<1>9. Alone'
  BY <1>4, <1>5 DEF SInv, Alone, Preparing, Owning, Open
<1>10. ASSUME NEW y \in Threads PROVE RunInv(y)'
  <2>1. RunInv(y) /\ (Open(y)' <=> Open(y)) /\ (Owning(y)' <=> Owning(y))
    BY <1>4 DEF SInv, Open, Owning
  <2>2. RequestInv(y)'
    BY <1>4, <1>7, <2>1 DEF RunInv, RequestInv, LastMessage
  <2>3. y # w => ~Owning(y)
    BY <1>3 DEF SInv, Alone
  <2>4. OutcomeInv(y)'
    <3>1. y = w => run[y].stage \notin {"persist", "write"}
      BY <1>2 DEF Open, OpenStages
    <3>2. run[y].stage \notin {"persist", "write"}
      BY <2>3, <3>1 DEF Owning
    <3> QED BY <1>4, <2>1, <3>2 DEF RunInv, OutcomeInv
  <2>5. OwnerInv(y)'
    <3>1. CASE y = w
      BY <1>2, <1>3, <1>4, <1>5, <1>7, <2>1, <3>1 DEF RunInv, OwnerInv, Open, OpenStages
    <3>2. CASE y # w
      <4>1. ~Owning(y) /\ ~Open(y)
        BY <2>3, <3>2 DEF Owning
      <4> QED BY <1>4, <2>1, <4>1 DEF RunInv, OwnerInv, Open, Owning, OpenStages
    <3> QED BY <3>1, <3>2
  <2> QED BY <2>2, <2>4, <2>5 DEF RunInv
<1> QED BY <1>6, <1>7, <1>8, <1>9, <1>10 DEF SInv

LEMMA CancelKeeps == ASSUME SInv, Cancel PROVE SInv'
<1>1. accepted' = accepted \cup {object[reg].turn}
  BY DEF Cancel, Won
<1> QED BY <1>1, WinKeeps DEF Cancel

\* The answer of chat:cancel promises what the registry has made sure of: the
\* generation of the flagged entry, if it is open, is the registry's.
LEMMA AnswerCancelKeeps == ASSUME SInv, AnswerCancel PROVE SInv'
<1>1. UNCHANGED <<task, turn, reg, run, outages>>
  BY DEF AnswerCancel
<1>2. ASSUME NEW n \in {stream.ask} \cap Generating
      PROVE  /\ reg # NoState /\ object[reg].terminal = "none" /\ object[reg].turn = n
             /\ object[reg].cancel => n \in accepted
  <2>1. PICK x \in Threads : Open(x) /\ run[x].turn = n
    BY <1>2 DEF Generating, Open
  <2> QED BY <2>1, OpenFacts DEF RunInv, OwnerInv
<1>3. CASE Cancellable
  <2>1. Won = {object[reg].turn} /\ object' = [object EXCEPT ![reg].cancel = TRUE]
    BY <1>3 DEF AnswerCancel, RequestCancel, Won
  <2>2. accepted' = accepted \cup {object[reg].turn}
    BY <1>2, <2>1 DEF AnswerCancel
  <2> QED BY <1>1, <1>3, <2>1, <2>2, WinKeeps
<1>4. CASE ~Cancellable
  <2>1. Won = {} /\ object' = object
    BY <1>4 DEF AnswerCancel, RequestCancel, Won
  <2>2. \A n \in {stream.ask} \cap Generating : n \in accepted
    BY <1>2, <1>4 DEF Cancellable
  <2>3. accepted' = accepted
    BY <2>1, <2>2 DEF AnswerCancel
  <2> QED BY <1>1, <2>1, <2>3, SameKeeps
<1> QED BY <1>3, <1>4

LEMMA EntryKeeps == ASSUME SInv, FlagEntry \/ EntryGone PROVE SInv'
  BY SameKeeps DEF FlagEntry, EntryGone

\* The open execution settles its state object.
LEMMA ClaimTerminalKeeps == ASSUME SInv, NEW x \in Threads, ClaimTerminal(x) PROVE SInv'
<1> DEFINE o == Outcome(x)
           r == [run[x] EXCEPT !.stage = "persist", !.outcome = o]
<1>1. Open(x) /\ run[x].stage = "finish"
  BY DEF ClaimTerminal, Open, OpenStages
<1>2. /\ Owning(x) /\ RunInv(x) /\ reg # NoState /\ reg \in States /\ object[reg].terminal = "none"
      /\ run[x].state = reg /\ State(x) = object[reg] /\ object[reg].turn = run[x].turn
      /\ run[x].turn \in Interrupted /\ run[x].turn \in Used /\ task.status # "absent"
  BY <1>1, OpenFacts DEF SInv, CoreTypes
<1>3. /\ o \in Terminal /\ (o = "CANCELLED" <=> object[reg].cancel)
      /\ object[reg].cancel <=> run[x].turn \in accepted
  BY <1>1, <1>2 DEF Outcome, RunInv, OwnerInv, Terminal
<1>4. /\ object' = [object EXCEPT ![reg].terminal = o]
      /\ run' = [run EXCEPT ![x] = r]
      /\ UNCHANGED <<task, turn, reg, accepted, outages>>
  BY <1>2 DEF ClaimTerminal
<1>5. r \in Run /\ r.stage = "persist" /\ r.turn = run[x].turn /\ r.state = run[x].state
      /\ r.outcome = o
  BY <1>3, Busy DEF Run, ClosingStages
<1> HIDE DEF r, o
<1>6. run'[x] = r /\ \A y \in Threads \ {x} : run'[y] = run[y]
  BY <1>4 DEF SInv, CoreTypes
<1>7. object'[reg].terminal # "none"
  BY <1>2, <1>3, <1>4 DEF SInv, CoreTypes, Object, Terminal
<1>8. CoreTypes'
  BY <1>2, <1>3, <1>4, <1>5 DEF SInv, CoreTypes, Object
<1>9. TurnInv' /\ Used' = Used /\ Interrupted' = Interrupted
  BY <1>4 DEF SInv, TurnInv, Used, Interrupted
<1>10. TaskInv'
  BY <1>2, <1>4, <1>9 DEF SInv, TaskInv, CancelHonoured
<1>11. ASSUME NEW y \in Threads \ {x}
       PROVE  ~Owning(y)' /\ ~Open(y)' /\ ~Preparing(y)' /\ RunInv(y)'
  <2>1. ~Owning(y) /\ RunInv(y) /\ run'[y] = run[y]
    BY <1>2, <1>6 DEF SInv, Alone
  <2>2. ~Open(y) /\ ~Preparing(y)
    BY <1>2, <2>1 DEF RunInv, RequestInv, Preparing, Owning, PrepareStages, Early
  <2>3. ~Owning(y)' /\ ~Open(y)' /\ ~Preparing(y)'
    BY <1>4, <2>1, <2>2 DEF Owning, Open, Preparing
  <2>4. RequestInv(y)' /\ OutcomeInv(y)'
    BY <1>4, <1>9, <2>1 DEF RunInv, RequestInv, OutcomeInv, LastMessage
  <2>5. OwnerInv(y)'
    BY <2>1, <2>2, <2>3, <1>4 DEF RunInv, OwnerInv, Open, OpenStages
  <2> QED BY <2>3, <2>4, <2>5 DEF RunInv
<1>12. RunInv(x)' /\ ~Open(x)' /\ ~Preparing(x)'
  <2>1. ~Open(x)' /\ ~Preparing(x)'
    BY <1>5, <1>6 DEF Open, OpenStages, Preparing, PrepareStages
  <2>2. RequestInv(x)'
    BY <1>2, <1>5, <1>6, <1>9 DEF RequestInv, Early, PrepareStages
  <2>3. OwnerInv(x)'
    BY <1>2, <1>5, <1>6, <1>9, <2>1 DEF OwnerInv
  <2>4. OutcomeInv(x)'
    BY <1>2, <1>3, <1>4, <1>5, <1>6 DEF OutcomeInv
  <2> QED BY <2>1, <2>2, <2>3, <2>4 DEF RunInv
<1>13. Alone'
  BY <1>4, <1>7, <1>11, <1>12 DEF Alone
<1>14. \A y \in Threads : RunInv(y)'
  BY <1>11, <1>12
<1> QED BY <1>8, <1>9, <1>10, <1>13, <1>14 DEF SInv

\* An execution that ends takes only its own state object out of the registry.
LEMMA DiscardKeeps == ASSUME SInv, NEW x \in Threads, Discard(x) PROVE SInv'
<1>1. run[x].stage = "discard" /\ ~Open(x) /\ ~Owning(x) /\ ~Preparing(x)
      /\ task.status # "absent" /\ UNCHANGED <<task, turn, accepted, outages>>
  BY Busy DEF Discard, Open, OpenStages, Owning, Preparing, PrepareStages
<1>2. /\ run'[x] = Idle /\ \A y \in Threads \ {x} : run'[y] = run[y]
      /\ run' \in [Threads -> Run]
  BY IdleRun, Ends DEF Discard, End, SInv, CoreTypes
<1>3. Idle.stage = "idle" /\ Idle.state = NoState
  BY IdleRun
<1>4. reg' = reg \/ (reg' = NoState /\ reg = run[x].state)
  BY DEF Discard, Drop
<1>5. reg' # NoState => reg' = reg /\ reg \in States /\ object'[reg] = object[reg]
  BY <1>4 DEF Discard, Held, SInv, CoreTypes
<1>6. CoreTypes'
  <2>1. Blank \in Object
    BY DEF Blank, Object
  <2>2. object' \in [States -> Object]
    BY <2>1 DEF Discard, SInv, CoreTypes
  <2> QED BY <1>1, <1>2, <1>4, <2>2 DEF SInv, CoreTypes
<1>7. TurnInv' /\ Used' = Used /\ Interrupted' = Interrupted
  BY <1>1 DEF SInv, TurnInv, Used, Interrupted
<1>8. TaskInv'
  BY <1>1, <1>7 DEF SInv, TaskInv, CancelHonoured
<1>9. ASSUME NEW y \in Threads PROVE Open(y)' => Open(y) /\ y # x /\ reg' = reg /\ reg # NoState
  <2>1. Open(y)' => Open(y) /\ y # x
    BY <1>2, <1>3 DEF Open, OpenStages
  <2>2. Open(y) => run[x].state # reg /\ reg # NoState
    BY <1>1, OpenFacts DEF SInv, Alone
  <2> QED BY <1>4, <2>1, <2>2
<1>10. \A y \in Threads \ {x} : /\ (Open(y)' <=> Open(y))
                                /\ (Owning(y)' <=> Owning(y))
                                /\ (Preparing(y)' <=> Preparing(y))
  BY <1>1, <1>2 DEF Open, Owning, Preparing
<1>11. ~Open(x)' /\ ~Owning(x)' /\ ~Preparing(x)'
  BY <1>2, <1>3 DEF Open, OpenStages, Owning, Preparing, PrepareStages
<1>12. Alone'
  <2>1. \A y, z \in Threads : Preparing(y)' /\ Preparing(z)' => y = z
    BY <1>10, <1>11 DEF SInv, Alone
  <2>2. \A y, z \in Threads : Owning(y)' /\ Owning(z)' => y = z
    BY <1>10, <1>11 DEF SInv, Alone
  <2>3. \A y, z \in Threads : Open(y)' /\ y # z => run'[z].state # reg'
    BY <1>2, <1>3, <1>9 DEF SInv, Alone
  <2>4. reg' # NoState /\ object'[reg'].terminal = "none" => \E y \in Threads : Open(y)'
    BY <1>1, <1>5, <1>10 DEF SInv, Alone
  <2> QED BY <2>1, <2>2, <2>3, <2>4 DEF Alone
<1>13. ASSUME NEW y \in Threads PROVE RunInv(y)'
  <2>1. CASE y = x
    BY <1>2, <1>3, <1>11, <2>1 DEF RunInv, RequestInv, OwnerInv, OutcomeInv, Early, PrepareStages
  <2>2. CASE y # x
    <3>1. /\ RunInv(y) /\ run'[y] = run[y] /\ (Open(y)' <=> Open(y))
          /\ (Owning(y)' <=> Owning(y))
      BY <1>2, <1>10, <2>2 DEF SInv
    <3>2. RequestInv(y)' /\ OutcomeInv(y)'
      BY <1>1, <1>7, <3>1 DEF RunInv, RequestInv, OutcomeInv, LastMessage
    <3>3. Open(y) => reg' = reg /\ object'[reg] = object[reg] /\ reg # NoState
      BY <1>5, <1>9, <3>1
    <3>4. run[y].stage = "finish" => Open(y)
      BY DEF Open, OpenStages
    <3>5. OwnerInv(y)'
      BY <1>1, <1>7, <3>1, <3>3, <3>4 DEF RunInv, OwnerInv
    <3> QED BY <3>2, <3>5 DEF RunInv
  <2> QED BY <2>1, <2>2
<1> QED BY <1>6, <1>7, <1>8, <1>12, <1>13 DEF SInv

-----------------------------------------------------------------------------
(* The row of the Task, and a restart *)

LEMMA DeleteTaskKeeps == ASSUME SInv, DeleteTask PROVE SInv'
<1>1. /\ task' = [task EXCEPT !.active = FALSE] /\ task.status \in Terminal
      /\ UNCHANGED <<turn, reg, object, run, accepted, outages>>
  BY DEF DeleteTask, Generatable
<1>2. task'.status = task.status /\ task' \in Task /\ task.status # "absent"
  BY <1>1 DEF SInv, CoreTypes, Task, Terminal
<1>3. CoreTypes' /\ TurnInv' /\ Used' = Used /\ Interrupted' = Interrupted
  BY <1>1, <1>2 DEF SInv, CoreTypes, TurnInv, Used, Interrupted
<1>4. TaskInv'
  BY <1>1, <1>2, <1>3 DEF SInv, TaskInv, CancelHonoured
<1>5. Alone'
  BY <1>1 DEF SInv, Alone, Preparing, Owning, Open
<1>6. ASSUME NEW y \in Threads PROVE RunInv(y)'
  <2>1. RunInv(y) /\ LastMessage' = LastMessage
    BY <1>1, <1>3 DEF SInv, LastMessage
  <2>2. (Open(y)' <=> Open(y)) /\ (Owning(y)' <=> Owning(y))
    BY <1>1 DEF Open, Owning
  <2>3. RequestInv(y)' /\ OutcomeInv(y)'
    BY <1>1, <1>3, <2>1 DEF RunInv, RequestInv, OutcomeInv
  <2>4. OwnerInv(y)'
    BY <1>1, <1>3, <2>1, <2>2 DEF RunInv, OwnerInv
  <2> QED BY <2>3, <2>4 DEF RunInv
<1> QED BY <1>3, <1>4, <1>5, <1>6 DEF SInv

\* The recovery settles what was interrupted, and nobody is left.
LEMMA RestartKeeps == ASSUME SInv, Restart PROVE SInv'
<1>1. /\ reg' = NoState /\ accepted' = accepted
      /\ \A x \in Threads : run'[x] = Idle /\ run'[x].stage = "idle" /\ run'[x].state = NoState
  BY IdleRun DEF Restart
<1>2. \A n \in Turns :
        /\ turn'[n] \in Turn /\ turn'[n].user = turn[n].user
        /\ turn'[n].status = IF n \in Interrupted THEN "FAILED" ELSE turn[n].status
  BY DEF Restart, SInv, CoreTypes, Turn, Terminal
<1>3. Interrupted' = {} /\ Used' = Used
  BY <1>2 DEF Interrupted, Used, Active
<1>4. CoreTypes'
  <2>1. Blank \in Object
    BY DEF Blank, Object
  <2>2. task' \in Task
    BY DEF Restart, SInv, CoreTypes, Task, TaskStatus, Terminal
  <2>3. turn' \in [Turns -> Turn]
    BY <1>2 DEF Restart
  <2> QED BY <2>1, <2>2, <2>3, IdleRun DEF Restart, Outage, SInv, CoreTypes
<1>5. TurnInv'
  BY <1>2, <1>3 DEF SInv, TurnInv, Used
<1>6. TaskInv'
  <2>1. CancelHonoured'
    BY <1>1, <1>2 DEF SInv, TaskInv, CancelHonoured
  <2>2. /\ task'.status \notin Active
        /\ task'.status = "absent" => task.status = "absent" /\ ~task'.active
    <3>1. CASE Interrupted = {}
      BY <3>1 DEF Restart, SInv, CoreTypes, Task, TaskInv
    <3>2. CASE Interrupted # {}
      BY <3>2 DEF Restart, SInv, CoreTypes, Task, Active
    <3> QED BY <3>1, <3>2
  <2> QED BY <1>1, <1>3, <2>1, <2>2 DEF SInv, TaskInv
<1>7. Alone'
  BY <1>1 DEF Alone, Preparing, Owning, Open, PrepareStages, OpenStages
<1>8. ASSUME NEW x \in Threads PROVE RunInv(x)'
  BY <1>1 DEF RunInv, RequestInv, OwnerInv, OutcomeInv, Owning, Open, OpenStages, Early,
     PrepareStages
<1> QED BY <1>4, <1>5, <1>6, <1>7, <1>8 DEF SInv

-----------------------------------------------------------------------------
(* Invariance *)

LEMMA SerialNext ==
    ASSUME Overlap = {}, SInv, [Next]_vars
    PROVE  SInv'
<1>1. CASE UNCHANGED vars
  BY <1>1, SameKeeps DEF vars
<1>2. ASSUME NEW x \in Threads, Request(x) \/ PrepareStep(x) PROVE SInv'
  BY <1>2, CreateTaskKeeps, BeginSendKeeps, BeginRetryKeeps, ReadLastMessageKeeps, CommitKeeps,
     ReadFailedAssistantKeeps, RejectRequestKeeps, RegisterKeeps DEF Request, PrepareStep
<1>3. ASSUME NEW x \in Threads, ExecuteStep(x) PROVE SInv'
  BY <1>3, StartStreamKeeps, ClaimKeeps, CheckCancelKeeps, ReadPendingKeeps, MarkRunningKeeps, AttachKeeps,
     StreamEndsKeeps, CloseGeneratorKeeps, ClaimTerminalKeeps, ReadActiveKeeps, PersistKeeps,
     FallbackKeeps, EmitTerminalKeeps, DiscardKeeps DEF ExecuteStep
<1>4. ASSUME NEW x \in Threads, Fault(x) PROVE SInv'
  BY <1>4, CreateTaskKeeps, CommitKeeps, MarkRunningKeeps, PersistKeeps, FallbackKeeps DEF Fault
<1>5. CASE Cancel \/ FlagEntry \/ AnswerCancel \/ EntryGone
  BY <1>5, CancelKeeps, AnswerCancelKeeps, EntryKeeps
<1>6. CASE DeleteTask \/ Restart
  BY <1>6, DeleteTaskKeeps, RestartKeeps
<1> QED BY <1>1, <1>2, <1>3, <1>4, <1>5, <1>6 DEF Next

\* Entries are opened for turns that exist, and flags are put on entries.
LEMMA StreamTyped ==
    ASSUME SInv, stream \in Stream, [Next]_vars
    PROVE  stream' \in Stream
<1>1. UNCHANGED stream => stream' \in Stream
  OBVIOUS
<1>2. ASSUME NEW x \in Threads, Request(x) \/ PrepareStep(x) PROVE UNCHANGED stream
  BY <1>2 DEF Request, PrepareStep, CreateTask, BeginSend, BeginRetry, ReadLastMessage, CommitSend,
     ReadFailedAssistant, CommitRetry, RejectRequest, Register
<1>3. ASSUME NEW x \in Threads, ExecuteStep(x) PROVE stream' \in Stream
  <2>1. CASE StartStream(x)
    <3>1. run[x].turn \in 0 .. MaxTurns
      BY DEF SInv, CoreTypes, Run
    <3> QED BY <2>1, <3>1 DEF StartStream, Stream
  <2>2. CASE ~StartStream(x)
    BY <1>3, <2>2 DEF ExecuteStep, Claim, CheckCancel, ReadPending, MarkRunning, Attach, StreamEnds,
       CloseGenerator, ClaimTerminal, ReadActive, Persist, Fallback, EmitTerminal, Discard
  <2> QED BY <2>1, <2>2
<1>4. ASSUME NEW x \in Threads, Fault(x) PROVE UNCHANGED stream
  BY <1>4 DEF Fault, CreateTaskLost, CommitLost, MarkRunningFails, PersistFails, FallbackFails
<1>5. CASE FlagEntry \/ AnswerCancel \/ EntryGone \/ Restart
  BY <1>5, TurnFacts DEF FlagEntry, AnswerCancel, EntryGone, Restart, Stream
<1>6. CASE Cancel \/ DeleteTask
  BY <1>6 DEF Cancel, DeleteTask
<1> QED BY <1>1, <1>2, <1>3, <1>4, <1>5, <1>6 DEF Next, vars

\* When requests do not overlap, every reachable state satisfies the invariant.
THEOREM SerialInvariance == ASSUME Overlap = {} PROVE Spec => []SInv
<1>1. Init => SInv
  BY InitInv
<1>2. SInv /\ [Next]_vars => SInv'
  BY SerialNext
<1> QED BY <1>1, <1>2, PTL DEF Spec

\* The rows, the registry and the executions have the values their classes allow.
THEOREM TypeCorrect == ASSUME Overlap = {} PROVE Spec => []TypeOK
<1> DEFINE Typed == stream \in Stream
<1>1. Init => Typed
  BY TurnFacts DEF Init, Stream
<1>2. SInv /\ Typed /\ [Next]_vars => Typed'
  BY StreamTyped
<1>3. SInv /\ Typed => TypeOK
  BY DEF SInv, TypeOK
<1> QED BY <1>1, <1>2, <1>3, SerialInvariance, PTL DEF Spec

\* At most one Assistant is generated, and the status of the Task says whether
\* (prepare_send, prepare_retry, soft_delete_if_terminal look only at that).
THEOREM OneGenerationAlways == ASSUME Overlap = {} PROVE Spec => []OneGeneration
<1>1. SInv => OneGeneration
  BY DEF SInv, TaskInv, OneGeneration, Interrupted
<1> QED BY <1>1, SerialInvariance, PTL

\* request_cancel reaches the open generation (TaskExecutionCancellationRegistry).
THEOREM CancelReachableAlways == ASSUME Overlap = {} PROVE Spec => []CancelReachable
<1>1. SInv => CancelReachable
  BY OpenFacts DEF CancelReachable, Open
<1> QED BY <1>1, SerialInvariance, PTL

\* An accepted cancellation and only an accepted cancellation ends as CANCELLED,
\* unless the generation fails (claim_terminal, cancel_assistant).
THEOREM CancelHonouredAlways == ASSUME Overlap = {} PROVE Spec => []CancelHonoured
<1>1. SInv => CancelHonoured
  BY DEF SInv, TaskInv
<1> QED BY <1>1, SerialInvariance, PTL

\* The message_id create_turn computes orders the messages of a Task.
THEOREM MonotoneMessagesAlways == ASSUME Overlap = {} PROVE Spec => []MonotoneMessages
<1>1. SInv => MonotoneMessages
  BY TurnFacts DEF SInv, TurnInv, MonotoneMessages, Used, Turns
<1> QED BY <1>1, SerialInvariance, PTL

\* Who is told "done" or "cancelled" finds it in MySQL (_finish_execution).
THEOREM EventIsDurableAlways == ASSUME Overlap = {} PROVE Spec => []EventIsDurable
<1>1. SInv => EventIsDurable
  BY DEF SInv, RunInv, OutcomeInv, EventIsDurable
<1> QED BY <1>1, SerialInvariance, PTL

-----------------------------------------------------------------------------
(* The steps are those of TaskHistory *)

Answer == [n \in Turns |-> turn[n].status]

\* A commit that gives one Assistant, and the Task with it, another status.
LEMMA CommitMaps ==
    ASSUME SInv, NEW n \in Turns, NEW t \in Turn, turn' = [turn EXCEPT ![n] = t],
           task'.status = t.status
    PROVE  History!Both(n, t.status)
<1>1. turn'[n] = t /\ \A m \in Turns \ {n} : turn'[m] = turn[m]
  BY DEF SInv, CoreTypes
<1>2. \A m \in Turns : turn'[m].status = IF m = n THEN t.status ELSE turn[m].status
  BY <1>1
<1>3. [m \in Turns |-> turn'[m].status] = [[m \in Turns |-> turn[m].status] EXCEPT ![n] = t.status]
  BY <1>2
<1> QED BY <1>3 DEF History!Both

\* Turns are appended in their order; a failed one is generated again.
LEMMA StartMaps ==
    ASSUME SInv, Interrupted = {}, NEW n \in Turns, NEW t \in Turn,
           turn' = [turn EXCEPT ![n] = t], t.status = "PENDING", task'.status = "PENDING",
           turn[n].status \in {"none", "FAILED"},
           \E k \in 0 .. MaxTurns : Used \cup {n} = 1 .. k
    PROVE  History!Next
<1>1. History!Both(n, "PENDING")
  BY CommitMaps
<1>2. task.status \notin History!Active
  BY DEF SInv, TaskInv, Active, History!Active
<1>3. n # 1 => n - 1 \in Turns /\ turn[n - 1].status # "none"
  <2>1. PICK k \in 0 .. MaxTurns : Used \cup {n} = 1 .. k
    OBVIOUS
  <2>2. n # 1 => n - 1 \in 1 .. k /\ n - 1 # n
    BY <2>1, TurnFacts DEF Turns
  <2> QED BY <2>1, <2>2 DEF Used
<1>4. Answer[n] = turn[n].status /\ (n # 1 => Answer[n - 1] = turn[n - 1].status)
  BY <1>3 DEF Answer
<1>5. History!Generate(n)
  BY <1>1, <1>2, <1>3, <1>4 DEF History!Generate, Answer
<1> QED BY <1>5 DEF History!Next, Turns

\* An Assistant is marked or settled by its owner.
LEMMA OwnerMaps ==
    ASSUME SInv, NEW x \in Threads, Owning(x), NEW status, NEW t \in Turn, Commits(x, t, status),
           \/ status \in Terminal
           \/ status = "RUNNING" /\ turn[run[x].turn].status = "PENDING"
    PROVE  History!Next
<1> PICK n \in Turns : n = run[x].turn
  BY OwnerFacts
<1>1. n \in Turns /\ turn[n].status \in Active
  BY OwnerFacts DEF Interrupted
<1>2. History!Both(n, status)
  BY <1>1, CommitMaps DEF Commits
<1>3. Answer[n] = turn[n].status
  BY <1>1 DEF Answer
<1>4. CASE status \in Terminal
  <2>1. History!Settle(n, status) /\ status \in History!Terminal
    BY <1>1, <1>2, <1>3, <1>4 DEF History!Settle, History!Active, History!Terminal, Active, Terminal,
       Answer
  <2> QED BY <1>1, <2>1 DEF History!Next, Turns
<1>5. CASE status = "RUNNING" /\ turn[n].status = "PENDING"
  <2>1. History!Run(n)
    BY <1>2, <1>3, <1>5 DEF History!Run, Answer
  <2> QED BY <1>1, <2>1 DEF History!Next, Turns
<1> QED BY <1>4, <1>5

Same == UNCHANGED <<task.status, Answer>>

LEMMA FirstMaps ==
    ASSUME SInv, NEW x \in Threads, CreateTask(x) \/ CreateTaskLost(x)
    PROVE  History!Next
<1>1. PICK t \in Turn :
             /\ t.status = "PENDING" /\ t.user = 2 * 1 - 1
             /\ turn' = [turn EXCEPT ![1] = t] /\ task' \in Task /\ task'.status = "PENDING"
             /\ Interrupted = {} /\ turn[1].status = "none" /\ Used = {}
             /\ \E k \in 0 .. MaxTurns : Used \cup {1} = 1 .. k
             /\ accepted = {} /\ \A y \in Threads : run[y] = Idle /\ ~Preparing(y)
  BY First DEF CreateTask, CreateTaskLost
<1> QED BY <1>1, StartMaps, TurnFacts

LEMMA CommitSendMaps ==
    ASSUME SInv, NEW x \in Threads, run[x].stage = "send_numbered", InsertTurn(x)
    PROVE  History!Next
<1>1. PICK t \in Turn :
             /\ NextTurn \in Turns /\ turn[NextTurn].status = "none" /\ NextTurn \notin Used
             /\ t.status = "PENDING" /\ t.user = 2 * NextTurn - 1
             /\ turn' = [turn EXCEPT ![NextTurn] = t] /\ task' \in Task /\ task'.status = "PENDING"
             /\ \E k \in 0 .. MaxTurns : Used \cup {NextTurn} = 1 .. k
             /\ accepted \ {NextTurn} = accepted
  BY Inserts
<1>2. Interrupted = {}
  BY OnlyPreparing DEF Early
<1> QED BY <1>1, <1>2, StartMaps

LEMMA CommitRetryMaps ==
    ASSUME SInv, NEW x \in Threads, run[x].stage = "retry_resetting", ResetAssistant(x)
    PROVE  History!Next
<1> DEFINE n == run[x].turn
           t == [turn[n] EXCEPT !.status = "PENDING"]
<1>1. run[x].seen \in Terminal /\ n \in Used /\ turn[n].status = "FAILED" /\ Interrupted = {}
  BY DEF SInv, RunInv, RequestInv, PrepareStages, Early
<1>2. n \in Turns /\ t \in Turn /\ t.status = "PENDING"
  BY <1>1 DEF SInv, CoreTypes, Used, Turn, Active
<1>3. \E k \in 0 .. MaxTurns : Used \cup {n} = 1 .. k
  BY <1>1 DEF SInv, TurnInv
<1>4. turn' = [turn EXCEPT ![n] = t]
  BY DEF ResetAssistant, Store
<1>5. task' = [task EXCEPT !.status = IF run[x].seen = t.status THEN @ ELSE t.status]
  BY DEF ResetAssistant, Store
<1>6. task'.status = "PENDING"
  BY <1>1, <1>2, <1>5 DEF SInv, CoreTypes, Task, Terminal
<1> HIDE DEF t
<1> QED BY <1>1, <1>2, <1>3, <1>4, <1>6, StartMaps

LEMMA MarkRunningMaps ==
    ASSUME SInv, NEW x \in Threads, MarkRunning(x) \/ MarkRunningFails(x)
    PROVE  History!Next \/ UNCHANGED <<task, turn>>
<1>1. run[x].stage = "marking" /\ Open(x) /\ Owning(x)
  BY DEF MarkRunning, MarkRunningFails, Open, OpenStages, Owning
<1>2. run[x].seen = "PENDING" /\ turn[run[x].turn].status = "PENDING"
  BY <1>1 DEF SInv, RunInv, OwnerInv
<1>3. CASE Store(x, run[x].turn, [turn[run[x].turn] EXCEPT !.status = "RUNNING"])
  <2>1. PICK t \in Turn : Commits(x, t, "RUNNING")
    BY <1>1, <1>2, <1>3, Stores DEF Active
  <2> QED BY <1>1, <1>2, <2>1, OwnerMaps
<1> QED BY <1>3 DEF MarkRunning, MarkRunningFails

LEMMA PersistMaps ==
    ASSUME SInv, NEW x \in Threads, Persist(x) \/ PersistFails(x)
    PROVE  History!Next \/ UNCHANGED <<task, turn>>
<1>1. run[x].stage = "write" /\ Owning(x)
  BY DEF Persist, PersistFails, Owning
<1>2. run[x].outcome \in Terminal /\ run[x].seen \in Active
  BY <1>1 DEF SInv, RunInv, OutcomeInv
<1>3. CASE Settle(x)
  <2>1. PICK t \in Turn : Commits(x, t, run[x].outcome)
    BY <1>1, <1>2, <1>3, Stores DEF Settle, Active, Terminal
  <2> QED BY <1>1, <1>2, <2>1, OwnerMaps
<1> QED BY <1>3 DEF Persist, PersistFails

LEMMA FallbackMaps ==
    ASSUME SInv, NEW x \in Threads, Fallback(x) \/ FallbackFails(x)
    PROVE  History!Next \/ UNCHANGED <<task, turn>>
<1>1. CASE Failable(run[x].turn) /\ FailActive(run[x].turn)
  <2>1. Owning(x)
    BY <1>1 DEF Fallback, FallbackFails, Failable, Owning
  <2>2. PICK t \in Turn : Commits(x, t, "FAILED")
    BY <1>1, <2>1, Fails
  <2> QED BY <2>1, <2>2, OwnerMaps DEF Terminal
<1>2. CASE Fallback(x)
  BY <1>1, <1>2 DEF Fallback
<1>3. CASE FallbackFails(x)
  BY <1>1, <1>3 DEF FallbackFails
<1> QED BY <1>2, <1>3

LEMMA RestartMaps == ASSUME SInv, Restart PROVE History!Next \/ Same
<1>1. \A n \in Turns : turn'[n].status = IF n \in Interrupted THEN "FAILED" ELSE turn[n].status
  BY DEF Restart, SInv, CoreTypes, Turn
<1>2. CASE Interrupted = {}
  <2>1. task'.status = task.status
    BY <1>2 DEF Restart, SInv, CoreTypes, Task
  <2>2. Answer' = Answer
    BY <1>1, <1>2 DEF Answer
  <2> QED BY <2>1, <2>2 DEF Same
<1>3. CASE Interrupted # {}
  <2>1. PICK n \in Turns : Interrupted = {n}
    BY <1>3 DEF SInv, TaskInv, Interrupted
  <2>2. task'.status = "FAILED"
    BY <1>3 DEF Restart, SInv, CoreTypes, Task
  <2>3. [m \in Turns |-> turn'[m].status] = [[m \in Turns |-> turn[m].status] EXCEPT ![n] = "FAILED"]
    BY <1>1, <2>1
  <2>4. History!Both(n, "FAILED")
    BY <2>2, <2>3 DEF History!Both
  <2>5. [m \in Turns |-> turn[m].status][n] \in History!Active
    BY <2>1 DEF Interrupted, Active, History!Active
  <2>6. History!Settle(n, "FAILED") /\ "FAILED" \in History!Terminal
    BY <2>4, <2>5 DEF History!Settle, History!Terminal
  <2> QED BY <2>6 DEF History!Next, Turns
<1> QED BY <1>2, <1>3

LEMMA SerialMaps ==
    ASSUME SInv, [Next]_vars
    PROVE  History!Next \/ Same
<1>1. UNCHANGED <<task, turn>> => Same
  BY DEF Same, Answer
<1>2. UNCHANGED vars => UNCHANGED <<task, turn>>
  BY DEF vars
<1>3. ASSUME NEW x \in Threads, Request(x) PROVE History!Next \/ UNCHANGED <<task, turn>>
  BY <1>3, FirstMaps DEF Request, BeginSend, BeginRetry
<1>4. ASSUME NEW x \in Threads, PrepareStep(x) PROVE History!Next \/ UNCHANGED <<task, turn>>
  <2>1. CASE CommitSend(x)
    BY <2>1, CommitSendMaps DEF CommitSend
  <2>2. CASE CommitRetry(x)
    BY <2>2, CommitRetryMaps DEF CommitRetry
  <2>3. CASE ReadLastMessage(x) \/ ReadFailedAssistant(x) \/ RejectRequest(x) \/ Register(x)
    BY <2>3 DEF ReadLastMessage, ReadFailedAssistant, RejectRequest, Register
  <2> QED BY <1>4, <2>1, <2>2, <2>3 DEF PrepareStep
<1>5. ASSUME NEW x \in Threads, ExecuteStep(x) PROVE History!Next \/ UNCHANGED <<task, turn>>
  <2>1. CASE MarkRunning(x) \/ Persist(x) \/ Fallback(x)
    BY <2>1, MarkRunningMaps, PersistMaps, FallbackMaps
  <2>2. CASE StartStream(x) \/ Claim(x) \/ CheckCancel(x) \/ ReadPending(x) \/ Attach(x)
               \/ StreamEnds(x) \/ CloseGenerator(x)
    BY <2>2 DEF StartStream, Claim, CheckCancel, ReadPending, Attach, StreamEnds, CloseGenerator
  <2>3. CASE ClaimTerminal(x) \/ ReadActive(x) \/ EmitTerminal(x) \/ Discard(x)
    BY <2>3 DEF ClaimTerminal, ReadActive, EmitTerminal, Discard
  <2> QED BY <1>5, <2>1, <2>2, <2>3 DEF ExecuteStep
<1>6. ASSUME NEW x \in Threads, Fault(x) PROVE History!Next \/ UNCHANGED <<task, turn>>
  <2>1. CASE CommitLost(x)
    BY <2>1, CommitSendMaps, CommitRetryMaps DEF CommitLost
  <2> QED BY <1>6, <2>1, FirstMaps, MarkRunningMaps, PersistMaps, FallbackMaps DEF Fault
<1>7. CASE Cancel \/ FlagEntry \/ AnswerCancel \/ EntryGone
  BY <1>1, <1>7 DEF Cancel, FlagEntry, AnswerCancel, EntryGone
<1>8. CASE DeleteTask
  <2>1. task'.status = task.status /\ turn' = turn
    BY <1>8 DEF DeleteTask, SInv, CoreTypes, Task
  <2> QED BY <2>1 DEF Same, Answer
<1> QED BY <1>1, <1>2, <1>3, <1>4, <1>5, <1>6, <1>7, <1>8, RestartMaps DEF Next

\* A Task whose requests do not overlap is, for whoever reads its history, what
\* TaskHistory promises, across failed transactions, crashes and restarts.
THEOREM HistoryRefined == ASSUME Overlap = {} PROVE Spec => HistorySpec
<1>1. Init => History!Init
  <2>1. ASSUME Init PROVE [n \in Turns |-> turn[n].status] = [n \in 1 .. MaxTurns |-> "none"]
    BY <2>1 DEF Init, NoTurn, Turns
  <2> QED BY <2>1 DEF Init, History!Init
<1>2. SInv /\ [Next]_vars => [History!Next]_(History!vars)
  BY SerialMaps DEF Same, Answer, History!vars
<1> QED BY <1>1, <1>2, SerialInvariance, PTL DEF Spec, HistorySpec, History!Spec
=============================================================================
