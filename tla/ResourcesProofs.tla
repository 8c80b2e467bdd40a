--------------------------- MODULE ResourcesProofs ---------------------------
(***************************************************************************)
(* What TLAPS proves of Resources, for any rows, requests and number of    *)
(* transactions.                                                           *)
(*                                                                         *)
(* A row that a transaction has locked is written by no other transaction. *)
(* What has been checked of it is therefore still so at the commit, also   *)
(* where the check reads other rows without a lock: no agent refers to a   *)
(* row that is switched off, because an agent that is about to refer to it *)
(* has to lock it first.                                                   *)
(***************************************************************************)
EXTENDS Resources, WellFoundedInduction, TLAPS

----------------------------------------------------------------------------
(* The inductive invariant. *)

\* t holds rows, or waits for its first one.
Busy(t) == txn[t].stage \in {"locking", "checked"}

\* The rows that t's statements have locked, and those that were checked after.
Taken(t) ==
    {r \in Rows : \E i \in StatementNumbers :
        /\ r \in Statement(txn[t].request, i)
        /\ i < txn[t].at \/ (i = txn[t].at /\ r \notin txn[t].next)}
Checked(t) ==
    {r \in Rows : \E i \in StatementNumbers :
        /\ r \in Statement(txn[t].request, i)
        /\ i < txn[t].at \/ (i = txn[t].at /\ txn[t].stage = "checked")}

\* What the variables range over.
States == {"absent", "active", "inactive", "deleted", "pending", "gone"}
Drafts == [status : {"absent", "parsing", "ready", "failed"}, subtask : Transactions \cup {NoSubtask}]
Txns == [stage : {"idle", "locking", "checked", "committed", "refused"},
         request : ResourceRequests \cup {NoRequestYet}, at : Nat, next : SUBSET Rows]

TypesHold ==
    /\ state \in [ResourceRows \cup DocumentRows -> States]
    /\ config \in [AgentRows -> Configs]
    /\ name \in [ResourceRows -> NameRows \cup {NoRename}]
    /\ draft \in [DraftRows -> Drafts]
    /\ lock \in [Rows -> Transactions \cup {NoTransaction}]
    /\ txn \in [Transactions -> Txns]

\* A statement's rows are locked from the lowest up, and after the last
\* statement there is nothing left to lock.
TxnInOrder(t) ==
    /\ Busy(t) => /\ txn[t].request \in ResourceRequests
                  /\ txn[t].at \in StatementNumbers
                  /\ txn[t].next \subseteq Statement(txn[t].request, txn[t].at)
                  /\ \A x \in Statement(txn[t].request, txn[t].at) \ txn[t].next, y \in txn[t].next : x < y
    /\ txn[t].stage = "locking" => txn[t].next # {}
    /\ txn[t].stage = "checked" =>
         /\ txn[t].next = {}
         /\ \A i \in StatementNumbers : i > txn[t].at => Statement(txn[t].request, i) = {}
    /\ txn[t].stage = "committed" =>
         txn[t].request = NoRequestYet \/ txn[t].request.kind = "send"

\* The locks are those that the statements have taken.
LocksAreTaken ==
    \A t \in Transactions, r \in Rows : lock[r] = t <=> Busy(t) /\ r \in Taken(t)

\* Of a row that was checked and is locked: what stays so until the commit.
RowKept(q, r) ==
    /\ r = q.target /\ r \in ResourceRows \cup DocumentRows => state[r] # "absent"
    /\ r = q.target /\ q.kind \in Turns => state[r] = "active"
    /\ r = q.target /\ (SwitchesOff(q) \/ q.kind = "delete_document") => ~InUse(r)
    /\ r = q.target /\ q.kind = "delete_draft" => draft[r].subtask = NoSubtask
    /\ q.kind \in References /\ r \in Refs(ConfigOf(q)) => ReferenceValid(q.target, ConfigOf(q), r)
    /\ q.kind \in References /\ r \in ConfigOf(q).documents => state[r] = "active"
    /\ r \in q.drafts => Bindable(r)

\* READ COMMITTED is enough: what t has checked holds until it is over.
ChecksAreKept(t) == Busy(t) => \A r \in Checked(t) : RowKept(txn[t].request, r)

\* A row that is being created is not there yet, and nobody else creates it.
Creating(t) == Busy(t) /\ txn[t].request.kind \in Creations
CreationsAreFresh ==
    \A t \in Transactions : Creating(t) =>
       /\ state[txn[t].request.target] = "absent"
       /\ \A u \in Transactions \ {t} : Creating(u) => txn[u].request.target # txn[t].request.target

ResourceInv ==
    /\ TypesHold
    /\ \A t \in Transactions : TxnInOrder(t) /\ ChecksAreKept(t)
    /\ LocksAreTaken
    /\ CreationsAreFresh
    /\ ReferencesAreLive
    /\ TurnHasItsDrafts

----------------------------------------------------------------------------
(* Numbers. *)

SmallerNumber == {p \in Nat \X Nat : p[1] < p[2]}

\* Below every natural number there are finitely many.
LEMMA NumbersEnd == IsWellFoundedOn(SmallerNumber, Nat)
  BY NatLessThanWellFounded DEF OpToRel, SmallerNumber

\* A set of natural numbers that is not empty has a least element.
LEMMA MinIsLeast ==
    ASSUME NEW S \in SUBSET Nat, S # {}
    PROVE  /\ Min(S) \in S
           /\ \A y \in S : Min(S) <= y
<1>1. PICK x \in S : \A y \in S : <<y, x>> \notin SmallerNumber
  BY NumbersEnd, WFMin, Zenon
<1>2. \A y \in S : ~(y < x)
  BY <1>1 DEF SmallerNumber
<1>3. \A y \in S : x <= y
  BY <1>2
<1> QED BY <1>3 DEF Min

----------------------------------------------------------------------------
(* Requests and their statements. *)

\* What a request is about has the type its kind says.
LEMMA RequestTyped ==
    ASSUME NEW q \in ResourceRequests
    PROVE  /\ q.kind \in RequestKinds
           /\ q.target \in Rows
           /\ q.config \in Configs
           /\ q.active \in BOOLEAN
           /\ q.name \in NameRows \cup {NoRename}
           /\ q.drafts \subseteq DraftRows
           /\ q.kind \in AgentKinds => q.target \in AgentRows
           /\ q.kind \in DocumentKinds => q.target \in DocumentRows
           /\ q.kind \in CollectionKinds => q.target \in CollectionRows
           /\ q.kind \in ReferredKinds => q.target \in WorkspaceRows \cup CollectionRows
           /\ q.kind = "delete_draft" => q.target \in DraftRows
           /\ q.kind = "create_agent" => q.name # NoRename
           /\ q.kind \notin Renames => q.name = NoRename
           /\ q.kind # "send" => q.drafts = {}
           /\ q.task \in TaskRows \cup {NoTask}
           /\ q.kind = "retry" => q.task # NoTask
<1>1. q \in [kind : RequestKinds, target : Rows, config : Configs, active : BOOLEAN,
             name : NameRows \cup {NoRename}, task : TaskRows \cup {NoTask}, drafts : SUBSET DraftRows]
  BY RequestsAssumption, Zenon
<1>2. /\ q.kind \in AgentKinds => q.target \in AgentRows
      /\ q.kind \in DocumentKinds => q.target \in DocumentRows
      /\ q.kind \in CollectionKinds => q.target \in CollectionRows
      /\ q.kind \in ReferredKinds => q.target \in WorkspaceRows \cup CollectionRows
      /\ q.kind = "delete_draft" => q.target \in DraftRows
      /\ q.kind = "create_agent" => q.name # NoRename
      /\ q.kind \notin Renames => q.name = NoRename
      /\ q.kind # "send" => q.drafts = {}
      /\ q.kind = "retry" => q.task # NoTask
  BY RequestsAssumption, Zenon
<1> QED BY <1>1, <1>2

\* A request is not the absence of one.
LEMMA RequestIsMade ==
    ASSUME NEW q \in ResourceRequests
    PROVE  q.kind # "none"
  BY RequestTyped DEF RequestKinds, AgentKinds, DocumentKinds, CollectionKinds, ReferredKinds

\* The numbers of the statements, and that they tell them apart.
LEMMA NumbersTyped ==
    /\ LastCollection \in Nat
    /\ AtTurn \in Nat /\ 2 < AtTurn /\ AtLast \in Nat /\ AtTurn < AtLast
    /\ AtReset \in StatementNumbers /\ AtFirst \in StatementNumbers /\ AtSecond \in StatementNumbers
    /\ AtTurn \in StatementNumbers /\ AtLast \in StatementNumbers
    /\ \A c \in CollectionRows : /\ AtDocumentsOf(c) \in StatementNumbers
                                 /\ c \in Nat /\ 2 < AtDocumentsOf(c) /\ AtDocumentsOf(c) < AtTurn
    /\ StatementNumbers \subseteq Nat
    /\ \A i \in StatementNumbers : AtReset <= i /\ i <= AtLast
<1>1. CollectionRows \subseteq Nat \ {0}
  BY RowsAssumption DEF Rows, ResourceRows
<1>2. LastCollection \in Nat /\ \A c \in CollectionRows : c <= LastCollection
  BY RowsAssumption
<1> QED BY <1>1, <1>2 DEF AtReset, AtFirst, AtSecond, AtTurn, AtLast, AtDocumentsOf, StatementNumbers

\* What each statement locks.
LEMMA StatementIs ==
    ASSUME NEW q \in ResourceRequests
    PROVE  /\ Statement(q, AtReset) = ResetRows(q)
           /\ Statement(q, AtFirst) = {FirstRow(q)}
           /\ Statement(q, AtSecond) = SecondRows(q)
           /\ Statement(q, AtTurn) = TurnRows(q)
           /\ Statement(q, AtLast) = LastRows(q)
           /\ \A c \in CollectionRows :
                Statement(q, AtDocumentsOf(c)) = {d \in DocumentsOf(q) : AtDocumentsOf(HeldIn[d]) = AtDocumentsOf(c)}
<1>1. AtReset = 0 /\ AtFirst = 1 /\ AtSecond = 2
  BY DEF AtReset, AtFirst, AtSecond
<1>2. /\ AtTurn # 0 /\ AtTurn # 1 /\ AtTurn # 2
      /\ AtLast # 0 /\ AtLast # 1 /\ AtLast # 2 /\ AtLast # AtTurn
  BY NumbersTyped
<1>3. \A c \in CollectionRows : /\ AtDocumentsOf(c) # 0 /\ AtDocumentsOf(c) # 1 /\ AtDocumentsOf(c) # 2
                                /\ AtDocumentsOf(c) # AtTurn /\ AtDocumentsOf(c) # AtLast
  BY NumbersTyped DEF AtDocumentsOf
<1> QED BY <1>1, <1>2, <1>3 DEF Statement

\* The numbers of the statements, one by one.
LEMMA NumberIs ==
    ASSUME NEW i \in StatementNumbers
    PROVE  \/ i = AtReset
           \/ i = AtFirst
           \/ i = AtSecond
           \/ i = AtTurn
           \/ i = AtLast
           \/ \E c \in CollectionRows : i = AtDocumentsOf(c)
  BY DEF StatementNumbers

\* The row of a task is locked first by a retry, and last but for the drafts by
\* a send; it is not what either is about.
LEMMA TaskStatements ==
    ASSUME NEW q \in ResourceRequests
    PROVE  /\ ResetRows(q) \cup TurnRows(q) \subseteq TaskRows
           /\ ResetRows(q) # {} => q.kind = "retry"
           /\ TurnRows(q) # {} => q.kind = "send"
           /\ \A x \in ResetRows(q), y \in ResetRows(q) : x = y
           /\ \A x \in TurnRows(q), y \in TurnRows(q) : x = y
           /\ q.target \notin TaskRows
<1>1. ResetRows(q) \cup TurnRows(q) \subseteq TaskRows
  BY RequestTyped DEF ResetRows, TurnRows
<1>2. q.target \notin TaskRows
  BY RequestTyped, RowsAssumption
     DEF RequestKinds, AgentKinds, DocumentKinds, CollectionKinds, ReferredKinds, ResourceRows
<1> QED BY <1>1, <1>2 DEF ResetRows, TurnRows

\* The configuration a request resolves names resources and documents.
LEMMA ConfigTyped ==
    ASSUME TypesHold, NEW q \in ResourceRequests, q.kind \in References
    PROVE  /\ ConfigOf(q) \in Configs
           /\ Refs(ConfigOf(q)) \subseteq ResourceRows
           /\ ConfigOf(q).documents \subseteq DocumentRows
           /\ q.target \in AgentRows
<1>1. q.target \in AgentRows
  BY RequestTyped DEF References, Turns, AgentKinds
<1>2. ConfigOf(q) \in Configs
  BY <1>1, RequestTyped DEF ConfigOf, TypesHold
<1> QED BY <1>1, <1>2 DEF Configs, Refs

\* Where each row that a request has to lock is locked.
LEMMA RowsHaveStatements ==
    ASSUME TypesHold, NEW q \in ResourceRequests
    PROVE  /\ FirstRow(q) \in Statement(q, AtFirst)
           /\ q.kind \notin Creations \cup {"delete_document"} => FirstRow(q) = q.target
           /\ q.kind = "delete_document" => q.target \in Statement(q, AtSecond)
           /\ q.kind \in References => \A r \in Refs(ConfigOf(q)) : r \in Statement(q, AtSecond)
           /\ q.kind \in References => \A d \in ConfigOf(q).documents :
                /\ d \in Statement(q, AtDocumentsOf(HeldIn[d]))
                /\ AtDocumentsOf(HeldIn[d]) \in StatementNumbers
           /\ q.drafts \subseteq Statement(q, AtLast)
<1>1. FirstRow(q) \in Statement(q, AtFirst)
  BY StatementIs
<1>2. q.kind \notin Creations \cup {"delete_document"} => FirstRow(q) = q.target
  BY DEF FirstRow, Creations
<1>3. q.kind = "delete_document" => q.target \in Statement(q, AtSecond)
  BY StatementIs DEF SecondRows, References, Turns, DocumentPlan
<1>4. q.kind \in References => \A r \in Refs(ConfigOf(q)) : r \in Statement(q, AtSecond)
  BY StatementIs DEF SecondRows
<1>5. ASSUME q.kind \in References, NEW d \in ConfigOf(q).documents
      PROVE  /\ d \in Statement(q, AtDocumentsOf(HeldIn[d]))
             /\ AtDocumentsOf(HeldIn[d]) \in StatementNumbers
  <2>1. d \in DocumentRows /\ HeldIn[d] \in CollectionRows
    BY <1>5, ConfigTyped, RowsAssumption
  <2>2. d \in DocumentsOf(q)
    BY <1>5 DEF DocumentsOf
  <2> QED BY <2>1, <2>2, StatementIs, NumbersTyped
<1>6. q.drafts \subseteq Statement(q, AtLast)
  BY StatementIs, RequestTyped DEF LastRows
<1> QED BY <1>1, <1>2, <1>3, <1>4, <1>5, <1>6

\* Statements lock rows.
LEMMA StatementTyped ==
    ASSUME TypesHold, NEW q \in ResourceRequests, NEW i \in StatementNumbers
    PROVE  Statement(q, i) \subseteq Rows
<1>1. FirstRow(q) \in Rows
  <2>1. q.kind \in {"upload", "delete_document"} => HeldIn[q.target] \in Rows
    BY RequestTyped, RowsAssumption DEF DocumentKinds, Rows, ResourceRows
  <2>2. q.kind = "create_agent" => q.name \in Rows
    BY RequestTyped DEF Rows
  <2> QED BY <2>1, <2>2, RequestTyped DEF FirstRow, DocumentPlan
<1>2. SecondRows(q) \subseteq Rows
  <2>1. CASE q.kind \in References
    BY <2>1, ConfigTyped DEF SecondRows, Rows
  <2>2. CASE q.kind \notin References
    BY <2>2, RequestTyped DEF SecondRows, DocumentPlan
  <2> QED BY <2>1, <2>2
<1>3. LastRows(q) \subseteq Rows
  BY RequestTyped DEF LastRows, Rows
<1>4. DocumentsOf(q) \subseteq Rows
  BY ConfigTyped DEF DocumentsOf, ActiveDocuments, Rows
<1>5. CASE i = AtFirst
  BY <1>1, <1>5, StatementIs
<1>6. CASE i = AtSecond
  BY <1>2, <1>6, StatementIs
<1>7. CASE i = AtLast
  BY <1>3, <1>7, StatementIs
<1>8. CASE \E c \in CollectionRows : i = AtDocumentsOf(c)
  BY <1>4, <1>8, StatementIs
<1>9. CASE i = AtReset \/ i = AtTurn
  BY <1>9, StatementIs, TaskStatements DEF Rows
<1> QED BY <1>5, <1>6, <1>7, <1>8, <1>9, NumberIs

\* What was checked is locked.
LEMMA CheckedIsTaken ==
    ASSUME NEW t \in Transactions, TxnInOrder(t)
    PROVE  Checked(t) \subseteq Taken(t)
  BY DEF TxnInOrder, Checked, Taken

\* Once the first statement is over, its row is checked.
LEMMA FirstIsChecked ==
    ASSUME NEW t \in Transactions, Busy(t), TypesHold, TxnInOrder(t),
           AtFirst < txn[t].at \/ txn[t].stage = "checked",
           NEW q \in ResourceRequests, q = txn[t].request
    PROVE  FirstRow(q) \in Checked(t)
<1>1. FirstRow(q) \in Statement(q, AtFirst) /\ FirstRow(q) \in Rows
  BY RowsHaveStatements, StatementTyped, NumbersTyped
<1>2. /\ txn[t].at \in StatementNumbers /\ AtFirst \in StatementNumbers
      /\ AtFirst < txn[t].at \/ txn[t].at = AtFirst
  <2>1. txn[t].at \in StatementNumbers
    BY DEF TxnInOrder
  <2>2. txn[t].at \in Nat /\ AtFirst \in StatementNumbers /\ AtFirst \in Nat
    BY <2>1, NumbersTyped
  <2>3. txn[t].stage = "checked" => ~(AtFirst > txn[t].at)
    BY <1>1, <2>2 DEF TxnInOrder
  <2> QED BY <2>1, <2>2, <2>3
<1> QED BY <1>1, <1>2 DEF Checked

\* Before a commit every row the request is about has been checked.
LEMMA AllIsChecked ==
    ASSUME NEW t \in Transactions, TypesHold, TxnInOrder(t), txn[t].stage = "checked",
           NEW q \in ResourceRequests, q = txn[t].request
    PROVE  /\ \A i \in StatementNumbers : Statement(q, i) \subseteq Checked(t)
           /\ q.kind \notin Creations => q.target \in Checked(t)
           /\ q.kind \in References => Refs(ConfigOf(q)) \cup ConfigOf(q).documents \subseteq Checked(t)
           /\ q.drafts \subseteq Checked(t)
<1>1. ASSUME NEW i \in StatementNumbers, NEW r \in Statement(q, i)
      PROVE  r \in Checked(t)
  <2>1. Busy(t)
    BY DEF Busy
  <2>2. i \in Nat /\ txn[t].at \in Nat /\ ~(i > txn[t].at)
    BY <1>1, <2>1, NumbersTyped DEF TxnInOrder
  <2>3. r \in Rows
    BY <1>1, StatementTyped
  <2> QED BY <1>1, <2>2, <2>3 DEF Checked
<1>2. q.kind \notin Creations => q.target \in Checked(t)
  BY <1>1, RowsHaveStatements, NumbersTyped
<1>3. q.kind \in References => Refs(ConfigOf(q)) \cup ConfigOf(q).documents \subseteq Checked(t)
  BY <1>1, RowsHaveStatements, NumbersTyped
<1>4. q.drafts \subseteq Checked(t)
  BY <1>1, RowsHaveStatements, NumbersTyped
<1> QED BY <1>1, <1>2, <1>3, <1>4


----------------------------------------------------------------------------
(* What a step leaves as it is. *)

\* What statements lock is read from the rows and the configurations.
LEMMA StatementSame ==
    ASSUME UNCHANGED <<state, config>>
    PROVE  \A q \in ResourceRequests, i \in StatementNumbers : Statement(q, i)' = Statement(q, i)
<1>1. \A q \in ResourceRequests : ConfigOf(q)' = ConfigOf(q)
  BY DEF ConfigOf
<1>2. \A q \in ResourceRequests : ActiveDocuments(q.target)' = ActiveDocuments(q.target)
  BY DEF ActiveDocuments
<1>3. \A q \in ResourceRequests : SecondRows(q)' = SecondRows(q) /\ DocumentsOf(q)' = DocumentsOf(q)
  BY <1>1, <1>2 DEF SecondRows, DocumentsOf, Refs, DocumentPlan
<1> QED BY <1>3 DEF Statement, ResetRows, TurnRows, FirstRow, LastRows

\* So are the checks that have to hold until the commit.
LEMMA RowKeptSame ==
    ASSUME UNCHANGED <<state, config, draft>>
    PROVE  \A q \in ResourceRequests, r \in Rows : RowKept(q, r)' <=> RowKept(q, r)
  BY DEF RowKept, InUse, ConfigOf, ReferenceValid, Bindable, SwitchesOff, Refs, ReferenceAllowed, OwnerAllowed

\* A transaction that makes no step stays as it is, as far as the statements
\* that it has begun still lock the same rows.
LEMMA OtherStays ==
    ASSUME NEW t \in Transactions, txn'[t] = txn[t], TxnInOrder(t), TypesHold,
           \A i \in StatementNumbers :
              \/ Statement(txn[t].request, i)' = Statement(txn[t].request, i)
              \/ txn[t].stage # "checked" /\ txn[t].at < i
              \/ ~Busy(t)
    PROVE  /\ TxnInOrder(t)'
           /\ Busy(t)' <=> Busy(t)
           /\ Busy(t) => Taken(t)' = Taken(t) /\ Checked(t)' = Checked(t)
<1>1. Busy(t)' <=> Busy(t)
  BY DEF Busy
<1>2. ASSUME Busy(t)
      PROVE  txn[t].at \in Nat /\ ~(txn[t].at < txn[t].at)
             /\ \A i \in StatementNumbers : ~(i < txn[t].at /\ txn[t].at < i)
                                            /\ ~(i = txn[t].at /\ txn[t].at < i)
  <2>1. txn[t].at \in StatementNumbers
    BY <1>2 DEF TxnInOrder
  <2>2. txn[t].at \in Nat
    BY <2>1, NumbersTyped
  <2>3. \A i \in StatementNumbers : i \in Nat
    BY NumbersTyped
  <2> QED BY <2>2, <2>3
<1>3. ASSUME Busy(t)
      PROVE  Taken(t)' = Taken(t) /\ Checked(t)' = Checked(t)
  BY <1>2, <1>3 DEF Taken, Checked
<1>4. TxnInOrder(t)'
  <2>1. CASE Busy(t)
    BY <1>1, <1>2, <2>1 DEF TxnInOrder
  <2>2. CASE ~Busy(t)
    BY <1>1, <2>2 DEF TxnInOrder, Busy
  <2> QED BY <2>1, <2>2
<1> QED BY <1>1, <1>3, <1>4

\* A step that commits nothing: the other transactions stay as they are.
LEMMA OthersWait ==
    ASSUME ResourceInv, UNCHANGED <<state, config, draft>>,
           NEW u \in Transactions, txn'[u] = txn[u]
    PROVE  /\ TxnInOrder(u)' /\ ChecksAreKept(u)'
           /\ Busy(u)' <=> Busy(u)
           /\ Busy(u) => Taken(u)' = Taken(u) /\ Checked(u)' = Checked(u)
<1>1. TxnInOrder(u) /\ ChecksAreKept(u) /\ TypesHold
  BY DEF ResourceInv
<1>2. CASE ~Busy(u)
  <2>1. TxnInOrder(u)' /\ ~Busy(u)'
    BY <1>1, <1>2 DEF TxnInOrder, Busy
  <2> QED BY <1>2, <2>1 DEF ChecksAreKept
<1>3. CASE Busy(u)
  <2>1. PICK q \in ResourceRequests : q = txn[u].request
    BY <1>1, <1>3 DEF TxnInOrder
  <2>2. \A i \in StatementNumbers : Statement(txn[u].request, i)' = Statement(txn[u].request, i)
    BY <2>1, StatementSame
  <2>3. /\ TxnInOrder(u)'
        /\ Busy(u)' <=> Busy(u)
        /\ Taken(u)' = Taken(u) /\ Checked(u)' = Checked(u)
    BY <1>1, <1>3, <2>2, OtherStays
  <2>4. ASSUME NEW r \in Checked(u)
        PROVE  RowKept(txn[u].request, r)'
    <3>1. r \in Rows
      BY DEF Checked
    <3>2. RowKept(q, r)
      BY <1>1, <1>3, <2>1, <2>4 DEF ChecksAreKept
    <3>3. RowKept(q, r)'
      BY <3>1, <3>2, RowKeptSame
    <3> QED BY <2>1, <3>3
  <2> QED BY <2>3, <2>4 DEF ChecksAreKept
<1> QED BY <1>2, <1>3

\* References are read from the rows and the configurations.
LEMMA LiveSame ==
    ASSUME ReferencesAreLive, UNCHANGED <<state, config>>
    PROVE  ReferencesAreLive'
  BY DEF ReferencesAreLive, Refs, ReferenceValid, ReferenceAllowed, OwnerAllowed

----------------------------------------------------------------------------
(* Begin. *)

\* A transaction that begins holds nothing yet.
LEMMA BeginKeeps ==
    ASSUME ResourceInv, NEW t \in Transactions, Begin(t)
    PROVE  ResourceInv'
<1> USE DEF ResourceInv
<1>1. PICK q \in ResourceRequests :
        /\ q.kind \in Creations => Fresh(q.target)
        /\ txn' = [txn EXCEPT ![t] = [stage |-> "locking", request |-> q,
                                      at |-> Beginning(q), next |-> Statement(q, Beginning(q))]]
  BY DEF Begin
<1>2. /\ txn[t].stage = "idle" /\ ~Busy(t)
      /\ UNCHANGED <<state, config, name, draft, lock>>
  BY DEF Begin, Busy
<1>3. /\ txn'[t] = [stage |-> "locking", request |-> q, at |-> Beginning(q), next |-> Statement(q, Beginning(q))]
      /\ \A u \in Transactions \ {t} : txn'[u] = txn[u]
  BY <1>1 DEF TypesHold
<1>4. /\ txn'[t].stage = "locking" /\ txn'[t].request = q
      /\ txn'[t].at = Beginning(q) /\ txn'[t].next = Statement(q, Beginning(q))
  BY <1>3
<1>0. /\ Beginning(q) \in StatementNumbers /\ Beginning(q) \in Nat
      /\ Beginning(q) = AtReset \/ (q.kind # "retry" /\ Beginning(q) = AtFirst)
  BY NumbersTyped DEF Beginning
<1>5. Busy(t)' /\ \A i \in StatementNumbers : Statement(q, i)' = Statement(q, i)
  BY <1>2, <1>4, StatementSame DEF Busy
<1>6. \A u \in Transactions \ {t} :
        /\ TxnInOrder(u)' /\ ChecksAreKept(u)'
        /\ Busy(u)' <=> Busy(u)
        /\ Busy(u) => Taken(u)' = Taken(u) /\ Checked(u)' = Checked(u)
  BY <1>2, <1>3, OthersWait
<1>7. Taken(t)' = {} /\ Checked(t)' = {}
  <2>1. \A i \in StatementNumbers : i < Beginning(q) => Statement(q, i) = {}
    <3>1. \A i \in StatementNumbers : i \in Nat /\ (i < AtFirst => i = AtReset) /\ ~(i < AtReset)
      BY NumbersTyped DEF AtFirst, AtReset
    <3>2. q.kind # "retry" => Statement(q, AtReset) = {}
      BY StatementIs, TaskStatements
    <3> QED BY <1>0, <3>1, <3>2
  <2> QED BY <1>0, <1>4, <1>5, <2>1 DEF Taken, Checked
<1>8. TypesHold'
  <2>1. Beginning(q) \in Nat /\ Statement(q, Beginning(q)) \subseteq Rows
    BY <1>0, StatementTyped
  <2>2. txn'[t] \in Txns
    BY <1>3, <2>1 DEF Txns
  <2>3. txn' \in [Transactions -> Txns]
    BY <1>1, <2>2, <1>3 DEF TypesHold
  <2> QED BY <1>2, <2>3 DEF TypesHold
<1>9. TxnInOrder(t)' /\ ChecksAreKept(t)'
  <2>1. Statement(q, Beginning(q)) # {}
    BY RowsHaveStatements, StatementIs DEF Beginning, ResetRows
  <2> QED BY <1>0, <1>4, <1>5, <1>7, <2>1 DEF TxnInOrder, ChecksAreKept
<1>10. LocksAreTaken'
  BY <1>2, <1>6, <1>7 DEF LocksAreTaken
<1>11. CreationsAreFresh'
  <2>1. ASSUME Creating(t)'
        PROVE  /\ state[q.target] = "absent"
               /\ \A u \in Transactions \ {t} : Creating(u) => txn[u].request.target # q.target
    BY <1>1, <1>4, <2>1 DEF Creating, Fresh, Busy
  <2>2. \A u \in Transactions \ {t} : Creating(u)' <=> Creating(u)
    BY <1>3, <1>6 DEF Creating
  <2> QED BY <1>2, <1>3, <1>4, <2>1, <2>2 DEF CreationsAreFresh
<1>12. ReferencesAreLive'
  BY <1>2, LiveSame
<1>13. TurnHasItsDrafts'
  BY <1>2, <1>3, <1>4 DEF TurnHasItsDrafts
<1> QED BY <1>6, <1>8, <1>9, <1>10, <1>11, <1>12, <1>13

----------------------------------------------------------------------------
(* The end of a transaction. *)

\* A transaction that is over asks for nothing any more.
LEMMA OverEnds ==
    ASSUME ResourceInv, NEW t \in Transactions, Busy(t),
           NEW stage \in {"committed", "refused"}, Over(t, stage)
    PROVE  /\ \A u \in Transactions \ {t} : txn'[u] = txn[u]
           /\ txn'[t].stage = stage
           /\ txn'[t].request = IF stage = "committed" /\ txn[t].request.kind = "send"
                                  THEN txn[t].request ELSE NoRequestYet
           /\ txn' \in [Transactions -> Txns]
           /\ lock' \in [Rows -> Transactions \cup {NoTransaction}]
           /\ \A r \in Rows : lock'[r] = IF lock[r] = t THEN NoTransaction ELSE lock[r]
           /\ ~Busy(t)' /\ TxnInOrder(t)' /\ ChecksAreKept(t)'
<1>1. TypesHold /\ TxnInOrder(t)
  BY DEF ResourceInv
<1>2. txn[t].request \in ResourceRequests
  BY <1>1 DEF TxnInOrder
<1>3. txn' = [txn EXCEPT ![t] =
         [stage |-> stage, at |-> 0, next |-> {},
          request |-> IF stage = "committed" /\ txn[t].request.kind = "send" THEN txn[t].request
                      ELSE NoRequestYet]]
  BY <1>1 DEF Over, TypesHold
<1>4. txn'[t] = [stage |-> stage, at |-> 0, next |-> {},
          request |-> IF stage = "committed" /\ txn[t].request.kind = "send" THEN txn[t].request
                      ELSE NoRequestYet]
  BY <1>1, <1>3 DEF TypesHold
<1>5. \A u \in Transactions \ {t} : txn'[u] = txn[u]
  BY <1>1, <1>3 DEF TypesHold
<1>6. txn'[t].stage = stage /\ txn'[t].request = IF stage = "committed" /\ txn[t].request.kind = "send"
                                  THEN txn[t].request ELSE NoRequestYet
  BY <1>4
<1>7. txn' \in [Transactions -> Txns]
  <2>1. txn'[t] \in Txns
    BY <1>2, <1>4 DEF Txns
  <2> QED BY <1>1, <1>3, <1>5, <2>1 DEF TypesHold
<1>8. lock' = [r \in Rows |-> IF lock[r] = t THEN NoTransaction ELSE lock[r]]
  BY DEF Over, Unlocked
<1>9. lock' \in [Rows -> Transactions \cup {NoTransaction}]
  BY <1>1, <1>8 DEF TypesHold
<1>10. ~Busy(t)'
  BY <1>6 DEF Busy
<1>11. TxnInOrder(t)' /\ ChecksAreKept(t)'
  <2>1. stage = "committed" => \/ txn'[t].request = NoRequestYet
                               \/ txn'[t].request.kind = "send"
    BY <1>6
  <2> QED BY <1>6, <1>10, <2>1 DEF TxnInOrder, ChecksAreKept
<1> QED BY <1>5, <1>6, <1>7, <1>8, <1>9, <1>10, <1>11

\* What the others hold is still theirs, and t holds nothing.
LEMMA OverUnlocks ==
    ASSUME ResourceInv, NEW t \in Transactions, Busy(t),
           \A r \in Rows : lock'[r] = IF lock[r] = t THEN NoTransaction ELSE lock[r],
           ~Busy(t)',
           \A u \in Transactions \ {t} : /\ Busy(u)' <=> Busy(u)
                                         /\ Busy(u) => Taken(u)' = Taken(u)
    PROVE  LocksAreTaken'
<1>1. \A u \in Transactions : u # NoTransaction
  BY TransactionsAssumption DEF NoTransaction
<1>2. \A u \in Transactions, r \in Rows : lock[r] = u <=> Busy(u) /\ r \in Taken(u)
  BY DEF ResourceInv, LocksAreTaken
<1>3. ASSUME NEW u \in Transactions, NEW r \in Rows
      PROVE  lock'[r] = u <=> Busy(u)' /\ r \in Taken(u)'
  <2>1. CASE u = t
    BY <1>1, <2>1
  <2>2. CASE u # t
    BY <1>1, <1>2, <2>2
  <2> QED BY <2>1, <2>2
<1> QED BY <1>3 DEF LocksAreTaken

\* A transaction that is refused or rolled back has written nothing.
LEMMA RefusedKeeps ==
    ASSUME ResourceInv, NEW t \in Transactions, Busy(t), Over(t, "refused"),
           UNCHANGED <<state, config, name, draft>>
    PROVE  ResourceInv'
<1>1. /\ \A u \in Transactions \ {t} : txn'[u] = txn[u]
      /\ txn'[t].stage = "refused" /\ txn'[t].request = NoRequestYet
      /\ txn' \in [Transactions -> Txns]
      /\ lock' \in [Rows -> Transactions \cup {NoTransaction}]
      /\ \A r \in Rows : lock'[r] = IF lock[r] = t THEN NoTransaction ELSE lock[r]
      /\ ~Busy(t)' /\ TxnInOrder(t)' /\ ChecksAreKept(t)'
  BY OverEnds
<1>2. \A u \in Transactions \ {t} :
        /\ TxnInOrder(u)' /\ ChecksAreKept(u)'
        /\ Busy(u)' <=> Busy(u)
        /\ Busy(u) => Taken(u)' = Taken(u) /\ Checked(u)' = Checked(u)
  BY <1>1, OthersWait
<1>3. TypesHold'
  BY <1>1 DEF ResourceInv, TypesHold
<1>4. LocksAreTaken'
  BY <1>1, <1>2, OverUnlocks
<1>5. CreationsAreFresh'
  <2>1. \A u \in Transactions : Creating(u)' => u # t /\ Creating(u)
    BY <1>1, <1>2 DEF Creating
  <2> QED BY <1>1, <2>1 DEF ResourceInv, CreationsAreFresh
<1>6. ReferencesAreLive'
  BY LiveSame DEF ResourceInv
<1>7. TurnHasItsDrafts'
  BY <1>1 DEF ResourceInv, TurnHasItsDrafts
<1> QED BY <1>1, <1>2, <1>3, <1>4, <1>5, <1>6, <1>7 DEF ResourceInv

\* In particular one that is rolled back.
LEMMA RollbackKeeps ==
    ASSUME ResourceInv, NEW t \in Transactions, Rollback(t)
    PROVE  ResourceInv'
  BY RefusedKeeps DEF Rollback, Busy

----------------------------------------------------------------------------
(* Locking and checking. *)

\* A created row is locked by its own creation only as a reference.
LEMMA CreatedIsNotLocked ==
    ASSUME TypesHold, NEW q \in ResourceRequests, q.kind \in Creations,
           NEW i \in StatementNumbers, q.target \in Statement(q, i)
    PROVE  q.kind = "create_agent" /\ q.target \in Refs(ConfigOf(q))
<1>1. CASE q.kind = "create_agent"
  <2>1. q.target \in AgentRows /\ q.name \in NameRows /\ q.drafts = {}
    BY <1>1, RequestTyped DEF AgentKinds, NoRename
  <2>2. q.target \notin NameRows /\ q.target \notin DocumentRows
    BY <2>1, RowsAssumption DEF ResourceRows
  <2>3. FirstRow(q) = q.name /\ LastRows(q) = {} /\ SecondRows(q) = Refs(ConfigOf(q))
    BY <1>1 DEF FirstRow, LastRows, SecondRows, References, Turns
  <2>4. DocumentsOf(q) \subseteq DocumentRows
    BY <1>1, ConfigTyped DEF DocumentsOf, References, Turns
  <2> QED BY <1>1, <2>1, <2>2, <2>3, <2>4, NumberIs, StatementIs, TaskStatements
<1>2. CASE q.kind = "upload"
  <2>1. q.target \in DocumentRows /\ q.name = NoRename /\ HeldIn[q.target] \in CollectionRows
    BY <1>2, RequestTyped, RowsAssumption DEF DocumentKinds, Renames
  <2>2. q.target # HeldIn[q.target]
    BY <2>1, RowsAssumption DEF ResourceRows
  <2>3. FirstRow(q) = HeldIn[q.target] /\ LastRows(q) = {} /\ SecondRows(q) = {} /\ DocumentsOf(q) = {}
    BY <1>2, <2>1 DEF FirstRow, LastRows, SecondRows, DocumentsOf, References, Turns
  <2> QED BY <2>2, <2>3, NumberIs, StatementIs, TaskStatements
<1> QED BY <1>1, <1>2 DEF Creations

\* What an active agent refers to is active.
LEMMA UsedIsActive ==
    ASSUME ReferencesAreLive, NEW r, InUse(r)
    PROVE  state[r] = "active"
  BY DEF InUse, ReferencesAreLive, ReferenceValid

\* The checks imply what has to hold until the commit.
LEMMA ValidIsKept ==
    ASSUME TypesHold, ReferencesAreLive, NEW q \in ResourceRequests, NEW i \in StatementNumbers,
           NEW r \in Statement(q, i), RowValid(q, r)
    PROVE  RowKept(q, r)
<1>1. ASSUME r = q.target, r \in ResourceRows \cup DocumentRows
      PROVE  state[r] # "absent"
  <2>1. CASE q.kind \in Creations
    BY <1>1, <2>1, CreatedIsNotLocked DEF RowValid, References, Turns, ReferenceValid
  <2>2. CASE q.kind \notin Creations
    <3>1. q.kind # "delete_draft"
      BY <1>1, RequestTyped, RowsAssumption
    <3>2. q.kind \in {"put_agent", "delete_agent", "put", "reconfigure", "delete", "send", "retry",
                     "delete_document"}
      BY <2>2, <3>1, RequestTyped
         DEF RequestKinds, AgentKinds, DocumentKinds, CollectionKinds, ReferredKinds, Creations
    <3> QED BY <1>1, <3>2 DEF RowValid, TargetValid, Turns
  <2> QED BY <2>1, <2>2
<1>2. ASSUME r = q.target, SwitchesOff(q) \/ q.kind = "delete_document"
      PROVE  ~InUse(r)
  <2>1. CASE SwitchesOff(q)
    BY <1>2, <2>1 DEF RowValid, TargetValid
  <2>2. CASE q.kind = "delete_document" /\ state[r] = "active"
    BY <1>2, <2>2 DEF RowValid, TargetValid
  <2>3. CASE state[r] # "active"
    BY <2>3, UsedIsActive
  <2> QED BY <1>2, <2>1, <2>2, <2>3
<1>3. r = q.target /\ q.kind \in Turns => state[r] = "active"
  BY DEF RowValid, TargetValid
<1>4. r = q.target /\ q.kind = "delete_draft" => draft[r].subtask = NoSubtask
  BY DEF RowValid, TargetValid
<1>5. q.kind \in References /\ r \in Refs(ConfigOf(q)) => ReferenceValid(q.target, ConfigOf(q), r)
  BY DEF RowValid
<1>6. q.kind \in References /\ r \in ConfigOf(q).documents => state[r] = "active"
  BY DEF RowValid, DocumentsOf
<1>7. r \in q.drafts => Bindable(r)
  BY DEF RowValid
<1> QED BY <1>1, <1>2, <1>3, <1>4, <1>5, <1>6, <1>7 DEF RowKept

\* One row more is locked, and the statement may be over: what changes of t.
LockedRow(t) ==
    /\ txn'[t].stage \in {"locking", "checked"}
    /\ txn'[t].request = txn[t].request
    /\ lock' = [lock EXCEPT ![NextRow(t)] = t]
    /\ \/ /\ txn[t].next # {NextRow(t)}
          /\ txn'[t].stage = "locking" /\ txn'[t].at = txn[t].at
          /\ txn'[t].next = txn[t].next \ {NextRow(t)}
       \/ /\ txn[t].next = {NextRow(t)}
          /\ \A x \in Statement(txn[t].request, txn[t].at) : RowValid(txn[t].request, x)
          /\ \/ /\ Following(txn[t].request, txn[t].at) = {}
                /\ txn'[t].stage = "checked" /\ txn'[t].at = txn[t].at /\ txn'[t].next = {}
             \/ /\ Following(txn[t].request, txn[t].at) # {}
                /\ txn'[t].stage = "locking"
                /\ txn'[t].at = Min(Following(txn[t].request, txn[t].at))
                /\ txn'[t].next = Statement(txn[t].request, Min(Following(txn[t].request, txn[t].at)))

\* The four outcomes of a step that locks a row.
LEMMA LockRowIs ==
    ASSUME TypesHold, NEW t \in Transactions, LockRow(t), ~Over(t, "refused")
    PROVE  /\ LockedRow(t)
           /\ \A u \in Transactions \ {t} : txn'[u] = txn[u]
           /\ txn'[t].at \in Nat /\ txn'[t].next \subseteq Rows => txn' \in [Transactions -> Txns]
<1> DEFINE r == NextRow(t)
           q == txn[t].request
           at == txn[t].at
           m == Min(Following(q, at))
<1>1. txn \in [Transactions -> Txns] /\ txn[t].stage = "locking"
  BY DEF TypesHold, LockRow
<1>2. /\ ~(txn[t].next = {r} /\ \E x \in Statement(q, at) : ~RowValid(q, x))
      /\ lock' = [lock EXCEPT ![r] = t]
      /\ txn' = IF txn[t].next # {r}
                  THEN [txn EXCEPT ![t].next = @ \ {r}]
                ELSE IF Following(q, at) = {}
                  THEN [txn EXCEPT ![t].stage = "checked", ![t].next = {}]
                ELSE [txn EXCEPT ![t].at = m, ![t].next = Statement(q, m)]
  BY DEF LockRow
<1> HIDE DEF r, q, at, m
<1>3. \A u \in Transactions \ {t} : txn'[u] = txn[u]
  BY <1>1, <1>2
<1>4. CASE txn[t].next # {r}
  <2>1. txn' = [txn EXCEPT ![t].next = txn[t].next \ {r}]
    BY <1>1, <1>2, <1>4
  <2>2. txn'[t] = [txn[t] EXCEPT !.next = txn[t].next \ {r}]
    BY <1>1, <2>1
  <2>3. /\ txn'[t].stage = txn[t].stage /\ txn'[t].request = txn[t].request
        /\ txn'[t].at = txn[t].at /\ txn'[t].next = txn[t].next \ {r}
    BY <1>1, <2>2 DEF Txns
  <2>4. txn'[t].at \in Nat /\ txn'[t].next \subseteq Rows => txn' \in [Transactions -> Txns]
    BY <1>1, <2>1, <2>2 DEF Txns
  <2> QED BY <1>1, <1>2, <1>3, <1>4, <2>3, <2>4 DEF LockedRow, r
<1>5. CASE txn[t].next = {r} /\ Following(q, at) = {}
  <2>1. txn' = [txn EXCEPT ![t].stage = "checked", ![t].next = {}]
    BY <1>2, <1>5
  <2>2. txn'[t] = [txn[t] EXCEPT !.stage = "checked", !.next = {}]
    BY <1>1, <2>1
  <2>3. /\ txn'[t].stage = "checked" /\ txn'[t].request = txn[t].request
        /\ txn'[t].at = txn[t].at /\ txn'[t].next = {}
    BY <1>1, <2>2 DEF Txns
  <2>4. txn' \in [Transactions -> Txns]
    <3>1. txn' = [txn EXCEPT ![t] = [txn[t] EXCEPT !.stage = "checked", !.next = {}]]
      BY <1>1, <2>1
    <3>2. [txn[t] EXCEPT !.stage = "checked", !.next = {}] \in Txns
      BY <1>1 DEF Txns
    <3> QED BY <1>1, <3>1, <3>2
  <2> QED BY <1>2, <1>3, <1>5, <2>3, <2>4 DEF LockedRow, r, q, at
<1>6. CASE txn[t].next = {r} /\ Following(q, at) # {}
  <2>1. txn' = [txn EXCEPT ![t].at = m, ![t].next = Statement(q, m)]
    BY <1>2, <1>6
  <2>2. txn'[t] = [txn[t] EXCEPT !.at = m, !.next = Statement(q, m)]
    BY <1>1, <2>1
  <2>3. /\ txn'[t].stage = txn[t].stage /\ txn'[t].request = txn[t].request
        /\ txn'[t].at = m /\ txn'[t].next = Statement(q, m)
    BY <1>1, <2>2 DEF Txns
  <2>4. txn'[t].at \in Nat /\ txn'[t].next \subseteq Rows => txn' \in [Transactions -> Txns]
    BY <1>1, <2>1, <2>2, <2>3 DEF Txns
  <2> QED BY <1>1, <1>2, <1>3, <1>6, <2>3, <2>4 DEF LockedRow, r, q, at, m
<1> QED BY <1>4, <1>5, <1>6


\* The row that is locked next is one of those the statement waits for.
LEMMA NextRowIs ==
    ASSUME TypesHold, NEW t \in Transactions, TxnInOrder(t), txn[t].stage = "locking"
    PROVE  /\ NextRow(t) \in txn[t].next /\ NextRow(t) \in Rows
           /\ \A x \in txn[t].next : x \in Nat /\ NextRow(t) <= x
<1>1. txn[t].next \subseteq Rows /\ txn[t].next # {}
  BY DEF TypesHold, Txns, TxnInOrder
<1>2. txn[t].next \in SUBSET Nat
  BY <1>1, RowsAssumption
<1> QED BY <1>1, <1>2, MinIsLeast DEF NextRow

\* The statement that follows, if there is one; those between find no rows.
LEMMA FollowingIs ==
    ASSUME NEW q \in ResourceRequests, NEW at \in StatementNumbers, Following(q, at) # {}
    PROVE  /\ Min(Following(q, at)) \in StatementNumbers
           /\ Min(Following(q, at)) > at
           /\ Statement(q, Min(Following(q, at))) # {}
           /\ \A i \in StatementNumbers : i > at /\ i < Min(Following(q, at)) => Statement(q, i) = {}
<1>1. Following(q, at) \in SUBSET Nat
  BY NumbersTyped DEF Following
<1>2. /\ Min(Following(q, at)) \in Following(q, at)
      /\ \A y \in Following(q, at) : Min(Following(q, at)) <= y
  BY <1>1, MinIsLeast
<1>3. ASSUME NEW i \in StatementNumbers, i > at, i < Min(Following(q, at)), Statement(q, i) # {}
      PROVE  FALSE
  <2>1. i \in Following(q, at)
    BY <1>3 DEF Following
  <2>2. Min(Following(q, at)) <= i /\ i \in Nat /\ Min(Following(q, at)) \in Nat
    BY <1>1, <1>2, <2>1
  <2> QED BY <1>3, <2>2
<1>4. Min(Following(q, at)) \in StatementNumbers /\ Min(Following(q, at)) > at
      /\ Statement(q, Min(Following(q, at))) # {}
  BY <1>2 DEF Following
<1> QED BY <1>3, <1>4

\* The numbers up to one of them.
LEMMA UpTo ==
    \A N \in SUBSET Nat, a \in Nat, m \in Nat :
      /\ \A i \in N : (i <= a <=> i < a \/ i = a) /\ (i <= a \/ i > a)
      /\ m > a => \A i \in N : i <= a => i < m
  OBVIOUS

\* What t has locked grows by the row, and what it has checked is valid.
LEMMA LockedRowTakes ==
    ASSUME ResourceInv, NEW t \in Transactions, txn[t].stage = "locking", LockedRow(t),
           UNCHANGED <<state, config, name, draft>>
    PROVE  /\ Taken(t)' = Taken(t) \cup {NextRow(t)}
           /\ TxnInOrder(t)' /\ ChecksAreKept(t)' /\ Busy(t)'
           /\ txn'[t].at \in Nat /\ txn'[t].next \subseteq Rows
<1>1. TypesHold /\ TxnInOrder(t) /\ ChecksAreKept(t) /\ ReferencesAreLive /\ Busy(t)
  BY DEF ResourceInv, Busy
<1> DEFINE r == NextRow(t)
           at == txn[t].at
           next == txn[t].next
<1>2. PICK q \in ResourceRequests : q = txn[t].request
  BY <1>1 DEF TxnInOrder
<1>3. r \in next /\ r \in Rows /\ next \subseteq Rows
  BY <1>1, NextRowIs DEF TypesHold, Txns
<1>4. at \in StatementNumbers /\ at \in Nat /\ next \subseteq Statement(q, at)
  BY <1>1, <1>2, NumbersTyped DEF TxnInOrder
<1>5. \A i \in StatementNumbers : i \in Nat /\ Statement(q, i)' = Statement(q, i)
                                  /\ Statement(q, i) \subseteq Rows
  BY <1>1, NumbersTyped, StatementSame, StatementTyped
<1>6. txn'[t].request = q /\ Busy(t)'
  BY <1>2 DEF LockedRow, Busy
<1>7. Taken(t) = {x \in Rows : \E i \in StatementNumbers :
                     x \in Statement(q, i) /\ (i < at \/ (i = at /\ x \notin next))}
  BY <1>2 DEF Taken
<1>8. Checked(t) = {x \in Rows : \E i \in StatementNumbers : x \in Statement(q, i) /\ i < at}
  BY <1>2 DEF Checked
<1>9. \A x \in Checked(t) : RowKept(q, x)'
  <2>1. \A x \in Checked(t) : RowKept(q, x) /\ x \in Rows
    BY <1>1, <1>2 DEF ChecksAreKept, Checked
  <2> QED BY <2>1, RowKeptSame
<1>10. ASSUME next # {r}, txn'[t].stage = "locking", txn'[t].at = at, txn'[t].next = next \ {r}
       PROVE  /\ Taken(t)' = Taken(t) \cup {r}
              /\ TxnInOrder(t)' /\ ChecksAreKept(t)'
              /\ txn'[t].at \in Nat /\ txn'[t].next \subseteq Rows
  <2> HIDE DEF r, at, next
  <2>1. Taken(t)' = {x \in Rows : \E i \in StatementNumbers :
                     x \in Statement(q, i) /\ (i < at \/ (i = at /\ x \notin next \ {r}))}
    BY <1>5, <1>6, <1>10 DEF Taken
  <2>2. Taken(t)' = Taken(t) \cup {r}
    BY <1>3, <1>4, <1>7, <2>1
  <2>3. Checked(t)' = Checked(t)
    BY <1>5, <1>6, <1>8, <1>10 DEF Checked
  <2>4. \A x \in Statement(q, at) \ (next \ {r}), y \in next \ {r} : x < y
    <3>1. \A x \in Statement(q, at) \ next, y \in next : x < y
      BY <1>1, <1>2 DEF TxnInOrder, at, next
    <3>2. \A y \in next : y \in Nat /\ r \in Nat /\ r <= y
      BY <1>1, <1>3, NextRowIs, RowsAssumption DEF r, next
    <3>3. \A y \in next \ {r} : r < y
      BY <3>2
    <3> QED BY <3>1, <3>3
  <2>5. TxnInOrder(t)'
    BY <1>2, <1>3, <1>4, <1>5, <1>6, <1>10, <2>4 DEF TxnInOrder
  <2> QED BY <1>3, <1>4, <1>6, <1>9, <1>10, <2>2, <2>3, <2>5 DEF ChecksAreKept
<1>11. ASSUME next = {r}, \A x \in Statement(q, at) : RowValid(q, x),
              NEW m \in Nat, m \in StatementNumbers, at <= m,
              \A i \in StatementNumbers : i > at /\ i < m => Statement(q, i) = {},
              txn'[t].at = m,
              \/ txn'[t].stage = "locking" /\ m > at /\ txn'[t].next = Statement(q, m)
                 /\ Statement(q, m) # {}
              \/ txn'[t].stage = "checked" /\ m = at /\ txn'[t].next = {}
                 /\ \A i \in StatementNumbers : i > at => Statement(q, i) = {}
       PROVE  /\ Taken(t)' = Taken(t) \cup {r}
              /\ TxnInOrder(t)' /\ ChecksAreKept(t)'
              /\ txn'[t].at \in Nat /\ txn'[t].next \subseteq Rows
  <2> HIDE DEF r, at, next
  <2> DEFINE past == {x \in Rows : \E i \in StatementNumbers : x \in Statement(q, i) /\ i <= at}
  <2>1. Taken(t) \cup {r} = past
    <3>1. \A i \in StatementNumbers : i <= at <=> i < at \/ i = at
      BY <1>4, <1>5, UpTo, Zenon
    <3>2. r \in Rows /\ r \in Statement(q, at) /\ next = {r}
      BY <1>3, <1>4, <1>11
    <3>3. \A x : x \in Taken(t) \cup {r} <=> x \in past
      BY <1>4, <1>7, <3>1, <3>2, Zenon
    <3> QED BY <3>3, Zenon
  <2>2. Taken(t)' = past
    <3>1. CASE txn'[t].stage = "locking"
      <4>1. Taken(t)' = {x \in Rows : \E i \in StatementNumbers :
                     x \in Statement(q, i) /\ (i < m \/ (i = m /\ x \notin Statement(q, m)))}
        BY <1>5, <1>6, <1>11, <3>1 DEF Taken
      <4>0. m > at /\ m \in Nat /\ at \in Nat
        BY <1>4, <1>11, <3>1
      <4>5. StatementNumbers \in SUBSET Nat
        BY <1>5, Zenon
      <4>2. \A i \in StatementNumbers : i <= at => i < m
        BY <4>0, <4>5, UpTo, Zenon
      <4>3. \A i \in StatementNumbers : i < m /\ Statement(q, i) # {} => i <= at
        BY <1>11, <4>0, <4>5, UpTo, Zenon
      <4>4. \A x : x \in Taken(t)' <=> x \in past
        BY <4>1, <4>2, <4>3, Zenon
      <4> QED BY <4>4, Zenon
    <3>2. CASE txn'[t].stage = "checked"
      <4>1. Taken(t)' = {x \in Rows : \E i \in StatementNumbers :
                     x \in Statement(q, i) /\ (i < at \/ (i = at /\ x \notin {}))}
        BY <1>5, <1>6, <1>11, <3>2 DEF Taken
      <4>2. \A i \in StatementNumbers : i <= at <=> i < at \/ i = at
        BY <1>4, <1>5, UpTo, Zenon
      <4> QED BY <4>1, <4>2, Zenon
    <3> QED BY <1>11, <3>1, <3>2
  <2>3. Checked(t)' = past
    <3>1. CASE txn'[t].stage = "locking"
      <4>1. Checked(t)' = {x \in Rows : \E i \in StatementNumbers : x \in Statement(q, i) /\ i < m}
        BY <1>5, <1>6, <1>11, <3>1 DEF Checked
      <4>0. m > at /\ m \in Nat /\ at \in Nat
        BY <1>4, <1>11, <3>1
      <4>5. StatementNumbers \in SUBSET Nat
        BY <1>5, Zenon
      <4>2. \A i \in StatementNumbers : i <= at => i < m
        BY <4>0, <4>5, UpTo, Zenon
      <4>3. \A i \in StatementNumbers : i < m /\ Statement(q, i) # {} => i <= at
        BY <1>11, <4>0, <4>5, UpTo, Zenon
      <4>4. \A x : x \in Checked(t)' <=> x \in past
        BY <4>1, <4>2, <4>3, Zenon
      <4> QED BY <4>4, Zenon
    <3>2. CASE txn'[t].stage = "checked"
      <4>1. Checked(t)' = {x \in Rows : \E i \in StatementNumbers :
                              x \in Statement(q, i) /\ (i < at \/ i = at)}
        BY <1>5, <1>6, <1>11, <3>2 DEF Checked
      <4>2. \A i \in StatementNumbers : i <= at <=> i < at \/ i = at
        BY <1>4, <1>5, UpTo, Zenon
      <4> QED BY <4>1, <4>2, Zenon
    <3> QED BY <1>11, <3>1, <3>2
  <2>4. ASSUME NEW x \in past
        PROVE  RowKept(q, x)'
    <3>1. PICK i \in StatementNumbers : x \in Statement(q, i) /\ i <= at
      OBVIOUS
    <3>2. CASE i < at
      BY <1>8, <1>9, <3>1, <3>2
    <3>3. CASE i = at
      BY <1>1, <1>11, <3>1, <3>3, ValidIsKept, RowKeptSame
    <3> QED BY <1>4, <1>5, <3>1, <3>2, <3>3
  <2>5. TxnInOrder(t)'
    BY <1>2, <1>3, <1>4, <1>5, <1>6, <1>11 DEF TxnInOrder
  <2> QED BY <1>5, <1>6, <1>11, <2>1, <2>2, <2>3, <2>4, <2>5 DEF ChecksAreKept
<1>12. CASE next # {r}
  BY <1>6, <1>10, <1>12 DEF LockedRow
<1>13. CASE next = {r} /\ Following(q, at) = {}
  <2>1. \A i \in StatementNumbers : i > at => Statement(q, i) = {}
    BY <1>13 DEF Following
  <2> QED BY <1>2, <1>4, <1>6, <1>11, <1>13, <2>1 DEF LockedRow
<1>14. CASE next = {r} /\ Following(q, at) # {}
  <2> DEFINE m == Min(Following(q, at))
  <2>1. /\ m \in StatementNumbers /\ m > at /\ Statement(q, m) # {}
        /\ \A i \in StatementNumbers : i > at /\ i < m => Statement(q, i) = {}
    BY <1>4, <1>14, FollowingIs
  <2>2. /\ txn'[t].stage = "locking" /\ txn'[t].at = m /\ txn'[t].next = Statement(q, m)
        /\ \A x \in Statement(q, at) : RowValid(q, x)
    BY <1>2, <1>14 DEF LockedRow
  <2>3. m \in Nat /\ at <= m
    BY <1>4, <1>5, <2>1
  <2> HIDE DEF m
  <2> QED BY <1>6, <1>11, <1>14, <2>1, <2>2, <2>3
<1> QED BY <1>12, <1>13, <1>14

\* A step that locks a row preserves the invariant.
LEMMA LockRowKeeps ==
    ASSUME ResourceInv, NEW t \in Transactions, LockRow(t)
    PROVE  ResourceInv'
<1>1. /\ txn[t].stage = "locking" /\ Busy(t)
      /\ UNCHANGED <<state, config, name, draft>>
      /\ lock[NextRow(t)] \in {NoTransaction, t}
  BY DEF LockRow, Busy
<1>2. CASE Over(t, "refused")
  BY <1>1, <1>2, RefusedKeeps
<1>3. CASE ~Over(t, "refused")
  <2>1. LockedRow(t) /\ \A u \in Transactions \ {t} : txn'[u] = txn[u]
    BY <1>3, LockRowIs DEF ResourceInv
  <2>2. /\ Taken(t)' = Taken(t) \cup {NextRow(t)}
        /\ TxnInOrder(t)' /\ ChecksAreKept(t)' /\ Busy(t)'
        /\ txn'[t].at \in Nat /\ txn'[t].next \subseteq Rows
    BY <1>1, <2>1, LockedRowTakes
  <2>3. \A u \in Transactions \ {t} :
          /\ TxnInOrder(u)' /\ ChecksAreKept(u)'
          /\ Busy(u)' <=> Busy(u)
          /\ Busy(u) => Taken(u)' = Taken(u) /\ Checked(u)' = Checked(u)
    BY <1>1, <2>1, OthersWait
  <2>4. NextRow(t) \in Rows
    BY <1>1, NextRowIs DEF ResourceInv
  <2>5. /\ txn'[t].stage \in {"locking", "checked"}
        /\ txn'[t].request = txn[t].request /\ txn'[t].request \in ResourceRequests
        /\ lock' = [lock EXCEPT ![NextRow(t)] = t]
    BY <1>1, <2>1 DEF LockedRow, ResourceInv, TxnInOrder
  <2>6. TypesHold'
    <3>1. txn' \in [Transactions -> Txns]
      BY <1>3, <2>2, LockRowIs DEF ResourceInv
    <3> QED BY <1>1, <2>4, <2>5, <3>1 DEF ResourceInv, TypesHold
  <2>7. LocksAreTaken'
    <3>1. \A u \in Transactions, r \in Rows : lock[r] = u <=> Busy(u) /\ r \in Taken(u)
      BY DEF ResourceInv, LocksAreTaken
    <3>2. \A u \in Transactions : u # NoTransaction
      BY TransactionsAssumption DEF NoTransaction
    <3>3. lock \in [Rows -> Transactions \cup {NoTransaction}]
      BY DEF ResourceInv, TypesHold
    <3>4. ASSUME NEW u \in Transactions, NEW r \in Rows
          PROVE  lock'[r] = u <=> Busy(u)' /\ r \in Taken(u)'
      <4>1. CASE u = t
        BY <1>1, <2>2, <2>4, <2>5, <3>1, <3>3, <4>1
      <4>2. CASE u # t
        BY <1>1, <2>3, <2>4, <2>5, <3>1, <3>2, <3>3, <4>2
      <4> QED BY <4>1, <4>2
    <3> QED BY <3>4 DEF LocksAreTaken
  <2>8. CreationsAreFresh'
    <3>1. \A u \in Transactions : Creating(u)' <=> Creating(u)
      BY <1>1, <2>1, <2>2, <2>3, <2>5 DEF Creating
    <3>2. \A u \in Transactions : txn'[u].request = txn[u].request
      BY <2>1, <2>5
    <3> QED BY <1>1, <3>1, <3>2 DEF ResourceInv, CreationsAreFresh
  <2>9. ReferencesAreLive'
    BY <1>1, LiveSame DEF ResourceInv
  <2>10. TurnHasItsDrafts'
    BY <1>1, <2>1, <2>5 DEF ResourceInv, TurnHasItsDrafts
  <2> QED BY <2>2, <2>3, <2>6, <2>7, <2>8, <2>9, <2>10 DEF ResourceInv
<1> QED BY <1>2, <1>3

----------------------------------------------------------------------------
(* Committing. *)

\* The rows that a commit writes.
LEMMA WrittenTyped ==
    ASSUME NEW q \in ResourceRequests
    PROVE  /\ q.kind \notin Turns \cup {"delete_draft"} => q.target \in ResourceRows \cup DocumentRows
           /\ q.name # NoRename => q.target \in ResourceRows
           /\ q.kind \in {"create_agent", "put_agent"} => q.target \in AgentRows
           /\ StateAfter(q) \in States /\ StateAfter(q) # "absent"
<1>1. q.kind \notin Turns \cup {"delete_draft"} => q.target \in ResourceRows \cup DocumentRows
  BY RequestTyped DEF RequestKinds, AgentKinds, DocumentKinds, CollectionKinds, ReferredKinds, ResourceRows
<1>2. q.name # NoRename => q.target \in ResourceRows
  BY RequestTyped DEF Renames, AgentKinds, CollectionKinds, ReferredKinds, ResourceRows
<1>3. q.kind \in {"create_agent", "put_agent"} => q.target \in AgentRows
  BY RequestTyped DEF AgentKinds
<1>4. StateAfter(q) \in States /\ StateAfter(q) # "absent"
  BY DEF StateAfter, States
<1> QED BY <1>1, <1>2, <1>3, <1>4

\* What a commit does, row by row.
Committed(t, q) ==
    /\ \A r \in ResourceRows \cup DocumentRows :
         state'[r] = IF r = q.target /\ q.kind \notin Turns \cup {"delete_draft"} THEN StateAfter(q) ELSE state[r]
    /\ \A a \in AgentRows :
         config'[a] = IF a = q.target /\ q.kind \in {"create_agent", "put_agent"} THEN q.config ELSE config[a]
    /\ \A d \in DraftRows : draft'[d] = DraftAfter(t, q, d)

\* What a commit writes, row by row.
LEMMA CommitIs ==
    ASSUME ResourceInv, NEW t \in Transactions, CommitRequest(t),
           NEW q \in ResourceRequests, q = txn[t].request
    PROVE  /\ Committed(t, q)
           /\ state' \in [ResourceRows \cup DocumentRows -> States]
           /\ config' \in [AgentRows -> Configs]
           /\ name' \in [ResourceRows -> NameRows \cup {NoRename}]
           /\ draft' \in [DraftRows -> Drafts]
<1>1. /\ state \in [ResourceRows \cup DocumentRows -> States]
      /\ config \in [AgentRows -> Configs]
      /\ name \in [ResourceRows -> NameRows \cup {NoRename}]
      /\ draft \in [DraftRows -> Drafts]
  BY DEF ResourceInv, TypesHold
<1>2. /\ state' = IF q.kind \in Turns \cup {"delete_draft"} THEN state
                  ELSE [state EXCEPT ![q.target] = StateAfter(q)]
      /\ config' = IF q.kind \in {"create_agent", "put_agent"}
                     THEN [config EXCEPT ![q.target] = q.config] ELSE config
      /\ name' = IF q.name = NoRename THEN name ELSE [name EXCEPT ![q.target] = q.name]
      /\ draft' = [d \in DraftRows |-> DraftAfter(t, q, d)]
  BY DEF CommitRequest
<1>3. state' \in [ResourceRows \cup DocumentRows -> States]
  BY <1>1, <1>2, WrittenTyped
<1>4. config' \in [AgentRows -> Configs]
  BY <1>1, <1>2, WrittenTyped, RequestTyped
<1>5. name' \in [ResourceRows -> NameRows \cup {NoRename}]
  BY <1>1, <1>2, WrittenTyped, RequestTyped
<1>6. \A d \in DraftRows : DraftAfter(t, q, d) \in Drafts
  BY <1>1 DEF DraftAfter, Drafts, NoSubtask
<1>7. draft' \in [DraftRows -> Drafts]
  BY <1>2, <1>6
<1>8. Committed(t, q)
  BY <1>1, <1>2, WrittenTyped DEF Committed
<1> QED BY <1>3, <1>4, <1>5, <1>7, <1>8

\* What the transaction that commits has locked and checked.
Ready(t, q) ==
    /\ q.kind \notin Creations => lock[q.target] = t /\ RowKept(q, q.target)
    /\ q.kind \in Creations => state[q.target] = "absent"
    /\ q.kind \in DocumentKinds => lock[HeldIn[q.target]] = t
    /\ q.kind \in References => \A r \in Refs(ConfigOf(q)) \cup ConfigOf(q).documents :
                                   lock[r] = t /\ RowKept(q, r)
    /\ \A d \in q.drafts : lock[d] = t /\ RowKept(q, d)

\* A transaction that commits holds its rows, and what it checked still holds.
LEMMA CommitReady ==
    ASSUME ResourceInv, NEW t \in Transactions, txn[t].stage = "checked",
           NEW q \in ResourceRequests, q = txn[t].request
    PROVE  Ready(t, q)
<1>1. TypesHold /\ TxnInOrder(t) /\ ChecksAreKept(t) /\ Busy(t)
  BY DEF ResourceInv, Busy
<1>2. \A r \in Checked(t) : lock[r] = t /\ RowKept(q, r)
  <2>1. \A r \in Checked(t) : r \in Rows /\ r \in Taken(t)
    BY <1>1, CheckedIsTaken DEF Checked
  <2> QED BY <1>1, <2>1 DEF ChecksAreKept, ResourceInv, LocksAreTaken
<1>3. /\ q.kind \notin Creations => q.target \in Checked(t)
      /\ q.kind \in References => Refs(ConfigOf(q)) \cup ConfigOf(q).documents \subseteq Checked(t)
      /\ q.drafts \subseteq Checked(t)
      /\ FirstRow(q) \in Checked(t)
  BY <1>1, AllIsChecked, FirstIsChecked
<1>4. q.kind \in DocumentKinds => FirstRow(q) = HeldIn[q.target]
  BY DEF DocumentKinds, FirstRow, DocumentPlan
<1>5. q.kind \in Creations => state[q.target] = "absent"
  BY <1>1 DEF ResourceInv, CreationsAreFresh, Creating
<1> QED BY <1>2, <1>3, <1>4, <1>5 DEF Ready

\* What another transaction holds is not written, unless it did not exist.
LEMMA HeldIsNotWritten ==
    ASSUME TypesHold, NEW t \in Transactions, NEW q \in ResourceRequests,
           Committed(t, q), Ready(t, q), NEW r \in Rows, lock[r] # t
    PROVE  /\ r \in ResourceRows \cup DocumentRows /\ state[r] # "absent" => state'[r] = state[r]
           /\ r \in AgentRows /\ state[r] # "absent" => config'[r] = config[r]
           /\ r \in DraftRows => draft'[r] = draft[r]
           /\ InUse(r)' => InUse(r)
<1>1. r \in ResourceRows \cup DocumentRows /\ state[r] # "absent" => state'[r] = state[r]
  BY DEF Committed, Ready
<1>2. r \in AgentRows /\ state[r] # "absent" => config'[r] = config[r]
  BY DEF Committed, Ready
<1>3. r \in DraftRows => draft'[r] = draft[r]
  BY DEF Committed, Ready, DraftAfter, Creations
<1>4. ASSUME InUse(r)'
      PROVE  InUse(r)
  <2>1. PICK a \in AgentRows : state'[a] = "active" /\ r \in Refs(config'[a]) \cup config'[a].documents
    BY <1>4 DEF InUse, Refs
  <2>2. CASE a = q.target /\ q.kind \in {"create_agent", "put_agent"}
    <3>1. config'[a] = q.config /\ q.config = ConfigOf(q) /\ q.kind \in References
      BY <2>2 DEF Committed, ConfigOf, References, Turns
    <3>2. lock[r] = t
      BY <2>1, <3>1 DEF Ready
    <3> QED BY <3>2
  <2>3. CASE ~(a = q.target /\ q.kind \in {"create_agent", "put_agent"})
    <3>1. config'[a] = config[a]
      BY <2>3 DEF Committed
    <3>2. state[a] = "active"
      <4>1. CASE a = q.target /\ q.kind \notin Turns \cup {"delete_draft"}
        <5>1. q.kind = "delete_agent"
          <6>1. a \notin DocumentRows /\ a \notin WorkspaceRows \cup CollectionRows
            BY RowsAssumption DEF ResourceRows
          <6> QED BY <2>3, <4>1, <6>1, RequestTyped
                  DEF RequestKinds, AgentKinds, DocumentKinds, CollectionKinds, ReferredKinds, Turns
        <5>2. state'[a] = "deleted"
          BY <4>1, <5>1 DEF Committed, StateAfter, Creations, ResourceRows
        <5> QED BY <2>1, <5>2
      <4>2. CASE ~(a = q.target /\ q.kind \notin Turns \cup {"delete_draft"})
        BY <2>1, <4>2 DEF Committed, ResourceRows
      <4> QED BY <4>1, <4>2
    <3> QED BY <2>1, <3>1, <3>2 DEF InUse
  <2> QED BY <2>2, <2>3
<1> QED BY <1>1, <1>2, <1>3, <1>4

\* What another transaction has begun to lock stays what it locks.
LEMMA OthersLockTheSame ==
    ASSUME ResourceInv, NEW t \in Transactions, NEW q \in ResourceRequests,
           Committed(t, q), Ready(t, q),
           NEW u \in Transactions, u # t, Busy(u), NEW p \in ResourceRequests, p = txn[u].request
    PROVE  /\ \A i \in StatementNumbers : \/ Statement(p, i)' = Statement(p, i)
                                          \/ txn[u].stage # "checked" /\ txn[u].at < i
           /\ ~(Checked(u) \subseteq TaskRows) /\ p.kind \in References => ConfigOf(p)' = ConfigOf(p)
<1>1. TypesHold /\ TxnInOrder(u) /\ ChecksAreKept(u)
  BY DEF ResourceInv
<1>2. \A r \in Checked(u) : r \in Rows /\ lock[r] = u /\ RowKept(p, r)
  <2>1. \A r \in Checked(u) : r \in Rows /\ r \in Taken(u)
    BY <1>1, CheckedIsTaken DEF Checked
  <2> QED BY <1>1, <2>1 DEF ChecksAreKept, ResourceInv, LocksAreTaken
<1>3. txn[u].at \in StatementNumbers /\ txn[u].at \in Nat
  <2>1. txn[u].at \in StatementNumbers
    BY <1>1 DEF TxnInOrder
  <2> QED BY <2>1, NumbersTyped
<1>4. \A i \in StatementNumbers : i \in Nat
  BY NumbersTyped
<1>5. CASE ~(AtFirst < txn[u].at) /\ txn[u].stage # "checked"
  <2>1. \A i \in StatementNumbers : /\ i < txn[u].at => i = AtReset
                                    /\ i = AtReset \/ i = AtFirst \/ txn[u].at < i
    BY <1>3, <1>4, <1>5 DEF AtReset, AtFirst
  <2>2. Checked(u) \subseteq TaskRows
    <3>1. Statement(p, AtReset) \subseteq TaskRows
      BY StatementIs, TaskStatements
    <3> QED BY <1>5, <2>1, <3>1 DEF Checked
  <2>3. Statement(p, AtReset)' = Statement(p, AtReset) /\ Statement(p, AtFirst)' = Statement(p, AtFirst)
    BY DEF Statement, AtReset, AtFirst, ResetRows, FirstRow, DocumentPlan
  <2> QED BY <1>5, <2>1, <2>2, <2>3
<1>6. CASE AtFirst < txn[u].at \/ txn[u].stage = "checked"
  <2>1. FirstRow(p) \in Checked(u)
    BY <1>1, <1>6, FirstIsChecked
  <2>2. ConfigOf(p)' = ConfigOf(p)
    <3>1. CASE p.kind \in Turns
      <4>1. p.target \in AgentRows /\ p.target \in Rows /\ FirstRow(p) = p.target
        BY <3>1, RequestTyped DEF Turns, AgentKinds, FirstRow
      <4>2. lock[p.target] = u /\ state[p.target] = "active"
        BY <1>2, <2>1, <3>1, <4>1 DEF RowKept
      <4>3. config'[p.target] = config[p.target]
        BY <1>1, <4>1, <4>2, HeldIsNotWritten
      <4> QED BY <3>1, <4>3 DEF ConfigOf
    <3>2. CASE p.kind \notin Turns
      BY <3>2 DEF ConfigOf
    <3> QED BY <3>1, <3>2
  <2>3. p.kind = "reconfigure" => ActiveDocuments(p.target)' = ActiveDocuments(p.target)
    <3>1. SUFFICES ASSUME p.kind = "reconfigure", NEW d \in DocumentRows, HeldIn[d] = p.target
                   PROVE  state'[d] = state[d]
      BY DEF ActiveDocuments
    <3>2. lock[p.target] = u
      BY <1>2, <2>1, <3>1 DEF FirstRow
    <3>3. q.kind \in DocumentKinds => q.target # d
      BY <3>1, <3>2 DEF Ready
    <3>4. d = q.target => q.kind \in DocumentKinds \cup Turns \cup {"delete_draft"}
      <4>1. d \notin ResourceRows /\ d \notin DraftRows
        BY RowsAssumption
      <4> QED BY <4>1, RequestTyped
              DEF RequestKinds, AgentKinds, CollectionKinds, ReferredKinds, ResourceRows
    <3> QED BY <3>3, <3>4 DEF Committed
  <2>4. \A i \in StatementNumbers : Statement(p, i)' = Statement(p, i)
    <3>1. SecondRows(p)' = SecondRows(p) /\ DocumentsOf(p)' = DocumentsOf(p)
      BY <2>2, <2>3 DEF SecondRows, DocumentsOf, Refs, DocumentPlan
    <3> QED BY <3>1 DEF Statement, ResetRows, TurnRows, FirstRow, LastRows, DocumentPlan
  <2> QED BY <2>2, <2>4
<1> QED BY <1>5, <1>6

\* What another transaction has checked stays valid.
LEMMA OthersStayValid ==
    ASSUME ResourceInv, NEW t \in Transactions, NEW q \in ResourceRequests,
           Committed(t, q), Ready(t, q),
           NEW u \in Transactions, u # t, Busy(u), NEW p \in ResourceRequests, p = txn[u].request,
           NEW r \in Checked(u)
    PROVE  RowKept(p, r)'
<1>1. TypesHold /\ TxnInOrder(u) /\ ChecksAreKept(u)
  BY DEF ResourceInv
<1>2. r \in Rows /\ lock[r] = u /\ RowKept(p, r)
  <2>1. r \in Rows /\ r \in Taken(u)
    BY <1>1, CheckedIsTaken DEF Checked
  <2> QED BY <1>1, <2>1 DEF ChecksAreKept, ResourceInv, LocksAreTaken
<1>3. /\ r \in ResourceRows \cup DocumentRows /\ state[r] # "absent" => state'[r] = state[r]
      /\ r \in DraftRows => draft'[r] = draft[r]
      /\ InUse(r)' => InUse(r)
  BY <1>1, <1>2, HeldIsNotWritten
<1>0. CASE r \in TaskRows
  <2>1. /\ r \notin ResourceRows \cup DocumentRows /\ r # p.target
        /\ r \notin p.drafts
    BY <1>0, RowsAssumption, RequestTyped, TaskStatements
  <2>2. ConfigOf(p)' \in Configs \/ p.kind \notin References
    <3>1. ConfigOf(p) \in Configs \/ p.kind \notin References
      BY <1>1, ConfigTyped
    <3>2. \A a \in AgentRows : config'[a] = config[a] \/ config'[a] = q.config
      BY DEF Committed
    <3>3. p.kind \in References => p.target \in AgentRows
      BY RequestTyped DEF References, Turns, AgentKinds
    <3> QED BY <3>1, <3>2, <3>3, RequestTyped DEF ConfigOf
  <2>3. p.kind \in References => /\ r \notin Refs(ConfigOf(p))'
                                 /\ r \notin ConfigOf(p)'.documents
    BY <2>1, <2>2 DEF Refs, Configs
  <2> QED BY <2>1, <2>3 DEF RowKept
<1> SUFFICES ASSUME r \notin TaskRows
             PROVE  RowKept(p, r)'
  BY <1>0
<1>4. p.kind \in References => ConfigOf(p)' = ConfigOf(p)
  BY OthersLockTheSame
<1>5. r = p.target /\ r \in ResourceRows \cup DocumentRows => state'[r] # "absent"
  BY <1>2, <1>3 DEF RowKept
<1>6. r = p.target /\ p.kind \in Turns => state'[r] = "active"
  <2>1. r = p.target /\ p.kind \in Turns => r \in ResourceRows /\ state[r] = "active"
    BY <1>2, RequestTyped DEF RowKept, Turns, AgentKinds, ResourceRows
  <2> QED BY <1>3, <2>1
<1>7. r = p.target /\ (SwitchesOff(p) \/ p.kind = "delete_document") => ~InUse(r)'
  BY <1>2, <1>3 DEF RowKept
<1>8. r = p.target /\ p.kind = "delete_draft" => draft'[r].subtask = NoSubtask
  BY <1>2, <1>3, RequestTyped DEF RowKept
<1>9. ASSUME p.kind \in References, r \in Refs(ConfigOf(p))
      PROVE  state'[r] = "active" /\ ReferenceAllowed(p.target, ConfigOf(p), r)
  <2>1. r \in ResourceRows /\ ReferenceValid(p.target, ConfigOf(p), r)
    BY <1>1, <1>2, <1>9, ConfigTyped DEF RowKept
  <2> QED BY <1>3, <2>1 DEF ReferenceValid
<1>10. p.kind \in References /\ r \in ConfigOf(p).documents => state'[r] = "active"
  BY <1>1, <1>2, <1>3, ConfigTyped DEF RowKept
<1>11. r \in p.drafts => Bindable(r)'
  BY <1>2, <1>3, RequestTyped DEF RowKept, Bindable
<1>12. p.kind \in References /\ r \in Refs(ConfigOf(p))' => ReferenceValid(p.target, ConfigOf(p), r)'
  <2>1. p.kind \in References => Refs(ConfigOf(p))' = Refs(ConfigOf(p))
    BY <1>4 DEF Refs
  <2> QED BY <1>4, <1>9, <2>1 DEF ReferenceValid, ReferenceAllowed, OwnerAllowed
<1> QED BY <1>4, <1>5, <1>6, <1>7, <1>8, <1>10, <1>11, <1>12 DEF RowKept, SwitchesOff

\* Every other transaction is as it was.
LEMMA OthersSeeNothing ==
    ASSUME ResourceInv, NEW t \in Transactions, NEW q \in ResourceRequests,
           Committed(t, q), Ready(t, q), NEW u \in Transactions, u # t, txn'[u] = txn[u]
    PROVE  /\ TxnInOrder(u)' /\ ChecksAreKept(u)'
           /\ Busy(u)' <=> Busy(u)
           /\ Busy(u) => Taken(u)' = Taken(u) /\ Checked(u)' = Checked(u)
<1>1. TxnInOrder(u) /\ ChecksAreKept(u) /\ TypesHold
  BY DEF ResourceInv
<1>2. CASE ~Busy(u)
  <2>1. TxnInOrder(u)' /\ ~Busy(u)'
    BY <1>1, <1>2 DEF TxnInOrder, Busy
  <2> QED BY <1>2, <2>1 DEF ChecksAreKept
<1>3. CASE Busy(u)
  <2>1. PICK p \in ResourceRequests : p = txn[u].request
    BY <1>1, <1>3 DEF TxnInOrder
  <2>2. \A i \in StatementNumbers : \/ Statement(p, i)' = Statement(p, i)
                                    \/ txn[u].stage # "checked" /\ txn[u].at < i
    BY <1>3, <2>1, OthersLockTheSame
  <2>3. /\ TxnInOrder(u)'
        /\ Busy(u)' <=> Busy(u)
        /\ Taken(u)' = Taken(u) /\ Checked(u)' = Checked(u)
    BY <1>1, <1>3, <2>1, <2>2, OtherStays
  <2>4. \A r \in Checked(u) : RowKept(p, r)'
    BY <1>3, <2>1, OthersStayValid
  <2> QED BY <2>1, <2>3, <2>4 DEF ChecksAreKept
<1> QED BY <1>2, <1>3

\* Agents that refer to something refer to what is there after the commit.
LEMMA CommitKeepsLive ==
    ASSUME ResourceInv, NEW t \in Transactions, NEW q \in ResourceRequests,
           Committed(t, q), Ready(t, q)
    PROVE  ReferencesAreLive'
<1>1. TypesHold /\ ReferencesAreLive
  BY DEF ResourceInv
<1>2. SUFFICES ASSUME NEW a \in AgentRows, state'[a] = "active"
               PROVE  /\ \A r \in Refs(config'[a]) : state'[r] = "active" /\ ReferenceAllowed(a, config'[a], r)
                      /\ \A d \in config'[a].documents : state'[d] = "active"
  BY DEF ReferencesAreLive, ReferenceValid, ReferenceAllowed, OwnerAllowed, Refs
<1>3. a \in ResourceRows /\ a \notin DocumentRows /\ a \notin WorkspaceRows \cup CollectionRows
  BY RowsAssumption DEF ResourceRows
<1>4. CASE a = q.target /\ q.kind \in {"create_agent", "put_agent"}
  <2>1. config'[a] = q.config /\ q.config = ConfigOf(q) /\ q.kind \in References
    BY <1>4 DEF Committed, ConfigOf, References, Turns
  <2>2. \A r \in Refs(q.config) : r \in ResourceRows /\ ReferenceValid(a, q.config, r)
    BY <1>1, <1>4, <2>1, ConfigTyped DEF Ready, RowKept
  <2>3. \A r \in Refs(q.config) : r # a
    BY <1>3, <2>2 DEF Refs, ReferenceValid, ReferenceAllowed
  <2>4. \A d \in q.config.documents : d \in DocumentRows /\ state[d] = "active" /\ d # a
    BY <1>1, <1>3, <2>1, ConfigTyped DEF Ready, RowKept
  <2> QED BY <1>4, <2>1, <2>2, <2>3, <2>4 DEF Committed, ReferenceValid
<1>5. CASE ~(a = q.target /\ q.kind \in {"create_agent", "put_agent"})
  <2>1. config'[a] = config[a]
    BY <1>5 DEF Committed
  <2>2. state[a] = "active"
    <3>1. CASE a = q.target /\ q.kind \notin Turns \cup {"delete_draft"}
      <4>1. q.kind = "delete_agent"
        BY <1>3, <1>5, <3>1, RequestTyped
           DEF RequestKinds, AgentKinds, DocumentKinds, CollectionKinds, ReferredKinds, Turns
      <4>2. state'[a] = "deleted"
        BY <1>3, <3>1, <4>1 DEF Committed, StateAfter, Creations
      <4> QED BY <1>2, <4>2
    <3>2. CASE ~(a = q.target /\ q.kind \notin Turns \cup {"delete_draft"})
      BY <1>2, <1>3, <3>2 DEF Committed
    <3> QED BY <3>1, <3>2
  <2>3. \A r \in Refs(config[a]) : state[r] = "active" /\ ReferenceAllowed(a, config[a], r)
    BY <1>1, <2>2 DEF ReferencesAreLive, ReferenceValid
  <2>4. \A d \in config[a].documents : state[d] = "active"
    BY <1>1, <2>2 DEF ReferencesAreLive
  <2>5. /\ \A r \in Refs(config[a]) : r \in WorkspaceRows \cup CollectionRows
        /\ config[a].documents \subseteq DocumentRows
    <3>1. \A r \in Refs(config[a]) : r = config[a].home \/ r \in config[a].collections
      BY DEF Refs
    <3>2. config[a].documents \subseteq DocumentRows
      BY <1>1 DEF TypesHold, Configs
    <3> QED BY <2>3, <3>1, <3>2 DEF ReferenceAllowed
  <2>6. ASSUME NEW r \in Refs(config[a]) \cup config[a].documents
        PROVE  state'[r] = "active"
    <3>1. state[r] = "active" /\ r \in ResourceRows \cup DocumentRows /\ InUse(r)
          /\ r \in WorkspaceRows \cup CollectionRows \cup DocumentRows
      BY <2>2, <2>3, <2>4, <2>5 DEF InUse, ResourceRows
    <3>2. CASE r = q.target /\ q.kind \notin Turns \cup {"delete_draft"}
      <4>1. q.kind \notin Creations /\ RowKept(q, r)
        BY <3>1, <3>2 DEF Ready
      <4>2. ~SwitchesOff(q) /\ q.kind # "delete_document"
        BY <3>1, <3>2, <4>1 DEF RowKept
      <4>3. q.kind \notin AgentKinds
        BY <3>1, <3>2, RequestTyped, RowsAssumption DEF ResourceRows
      <4>4. q.kind \in {"put", "reconfigure"} /\ q.active
        BY <3>2, <4>1, <4>2, <4>3, RequestTyped
           DEF RequestKinds, DocumentKinds, CollectionKinds, ReferredKinds, SwitchesOff, Creations
      <4>5. state'[r] = "active"
        BY <3>1, <3>2, <4>4 DEF Committed, StateAfter, Creations
      <4> QED BY <4>5
    <3>3. CASE ~(r = q.target /\ q.kind \notin Turns \cup {"delete_draft"})
      BY <3>1, <3>3 DEF Committed
    <3> QED BY <3>2, <3>3
  <2> QED BY <2>1, <2>3, <2>6
<1> QED BY <1>4, <1>5

\* A commit preserves the invariant.
LEMMA CommitKeeps ==
    ASSUME ResourceInv, NEW t \in Transactions, CommitRequest(t)
    PROVE  ResourceInv'
<1>1. TypesHold /\ TxnInOrder(t) /\ txn[t].stage = "checked" /\ Busy(t) /\ Over(t, "committed")
  BY DEF ResourceInv, CommitRequest, Busy
<1>2. PICK q \in ResourceRequests : q = txn[t].request
  BY <1>1 DEF TxnInOrder
<1>3. Ready(t, q)
  BY <1>1, <1>2, CommitReady
<1>4. /\ Committed(t, q)
      /\ state' \in [ResourceRows \cup DocumentRows -> States]
      /\ config' \in [AgentRows -> Configs]
      /\ name' \in [ResourceRows -> NameRows \cup {NoRename}]
      /\ draft' \in [DraftRows -> Drafts]
  BY <1>2, CommitIs
<1>5. /\ \A u \in Transactions \ {t} : txn'[u] = txn[u]
      /\ txn'[t].stage = "committed"
      /\ txn'[t].request = IF q.kind = "send" THEN q ELSE NoRequestYet
      /\ txn' \in [Transactions -> Txns]
      /\ lock' \in [Rows -> Transactions \cup {NoTransaction}]
      /\ \A r \in Rows : lock'[r] = IF lock[r] = t THEN NoTransaction ELSE lock[r]
      /\ ~Busy(t)' /\ TxnInOrder(t)' /\ ChecksAreKept(t)'
  BY <1>1, <1>2, OverEnds
<1>6. \A u \in Transactions \ {t} :
        /\ TxnInOrder(u)' /\ ChecksAreKept(u)'
        /\ Busy(u)' <=> Busy(u)
        /\ Busy(u) => Taken(u)' = Taken(u) /\ Checked(u)' = Checked(u)
  BY <1>3, <1>4, <1>5, OthersSeeNothing
<1>7. TypesHold'
  BY <1>4, <1>5 DEF TypesHold
<1>8. LocksAreTaken'
  BY <1>1, <1>5, <1>6, OverUnlocks
<1>9. CreationsAreFresh'
  <2>1. \A u \in Transactions : Creating(u)' => u # t /\ Creating(u) /\ txn'[u] = txn[u]
    BY <1>5, <1>6 DEF Creating
  <2>2. ASSUME NEW u \in Transactions, Creating(u)'
        PROVE  state'[txn[u].request.target] = "absent"
    <3>1. PICK p \in ResourceRequests : p = txn[u].request
      BY <2>1, <2>2 DEF Creating, TxnInOrder, ResourceInv
    <3>2. p.kind \in Creations /\ state[p.target] = "absent"
      BY <2>1, <2>2, <3>1 DEF Creating, ResourceInv, CreationsAreFresh
    <3>3. p.target \in ResourceRows \cup DocumentRows
      BY <3>2, WrittenTyped DEF Creations, Turns
    <3>4. p.target = q.target => q.kind \in Turns \cup {"delete_draft"}
      <4>1. CASE q.kind \in Creations
        <5>1. Creating(t)
          BY <1>1, <1>2, <4>1 DEF Creating
        <5> QED BY <1>2, <2>1, <2>2, <3>1, <5>1 DEF ResourceInv, CreationsAreFresh
      <4>2. CASE q.kind \notin Creations
        BY <1>3, <3>2, <3>3, <4>2 DEF Ready, RowKept
      <4> QED BY <4>1, <4>2
    <3> QED BY <1>4, <3>1, <3>2, <3>3, <3>4 DEF Committed
  <2> QED BY <2>1, <2>2 DEF ResourceInv, CreationsAreFresh
<1>10. ReferencesAreLive'
  BY <1>3, <1>4, CommitKeepsLive
<1>11. TurnHasItsDrafts'
  <2>1. ASSUME NEW u \in Transactions, txn'[u].stage = "committed", txn'[u].request.kind = "send",
               NEW d \in txn'[u].request.drafts
        PROVE  draft'[d] = [status |-> "ready", subtask |-> u]
    <3>1. CASE u = t
      <4>1. q.kind = "send" /\ d \in q.drafts /\ d \in DraftRows
        <5>1. NoRequestYet.kind # "send"
          BY DEF NoRequestYet
        <5> QED BY <1>5, <2>1, <3>1, <5>1, RequestTyped
      <4>2. draft[d].status = "ready" /\ draft[d] \in Drafts
        BY <1>1, <1>3, <4>1 DEF Ready, RowKept, Bindable, TypesHold
      <4>3. draft'[d] = [draft[d] EXCEPT !.subtask = t]
        BY <1>4, <4>1 DEF Committed, DraftAfter
      <4> QED BY <3>1, <4>2, <4>3 DEF Drafts
    <3>2. CASE u # t
      <4>1. txn[u] = txn'[u] /\ txn[u].request \in ResourceRequests \cup {NoRequestYet}
        BY <1>1, <1>5, <3>2 DEF TypesHold, Txns
      <4>2. draft[d] = [status |-> "ready", subtask |-> u] /\ d \in DraftRows
        <5>1. txn[u].request \in ResourceRequests
          BY <2>1, <4>1 DEF NoRequestYet
        <5> QED BY <2>1, <4>1, <5>1, RequestTyped DEF ResourceInv, TurnHasItsDrafts
      <4>3. u # NoSubtask
        BY TransactionsAssumption DEF NoSubtask
      <4>4. d \notin q.drafts
        BY <1>3, <4>2, <4>3 DEF Ready, RowKept, Bindable
      <4>5. ~(q.kind = "delete_draft" /\ d = q.target)
        BY <1>3, <4>2, <4>3 DEF Ready, RowKept, Creations
      <4> QED BY <1>4, <4>2, <4>4, <4>5 DEF Committed, DraftAfter
    <3> QED BY <3>1, <3>2
  <2> QED BY <2>1 DEF TurnHasItsDrafts
<1> QED BY <1>5, <1>6, <1>7, <1>8, <1>9, <1>10, <1>11 DEF ResourceInv

----------------------------------------------------------------------------
(* Transactions of one statement. *)

\* A document's cleanup waits for who holds it, and nothing refers to it.
LEMMA DocumentCleanedKeeps ==
    ASSUME ResourceInv, NEW d \in DocumentRows, DocumentCleaned(d)
    PROVE  ResourceInv'
<1> USE DEF ResourceInv
<1>1. /\ state[d] = "pending" /\ lock[d] = NoTransaction
      /\ state' = [state EXCEPT ![d] = "gone"]
      /\ UNCHANGED <<config, name, draft, lock, txn>>
  BY DEF DocumentCleaned
<1>2. /\ state' \in [ResourceRows \cup DocumentRows -> States]
      /\ \A r \in ResourceRows \cup DocumentRows : r # d => state'[r] = state[r]
      /\ state'[d] = "gone"
  BY <1>1 DEF TypesHold, States
<1>3. d \notin ResourceRows
  BY RowsAssumption
<1>4. \A q \in ResourceRequests, i \in StatementNumbers : Statement(q, i)' = Statement(q, i)
  <2>1. \A q \in ResourceRequests : ActiveDocuments(q.target)' = ActiveDocuments(q.target)
    BY <1>1, <1>2 DEF ActiveDocuments
  <2>2. \A q \in ResourceRequests : ConfigOf(q)' = ConfigOf(q)
    BY <1>1 DEF ConfigOf
  <2>3. \A q \in ResourceRequests : SecondRows(q)' = SecondRows(q) /\ DocumentsOf(q)' = DocumentsOf(q)
    BY <2>1, <2>2 DEF SecondRows, DocumentsOf, Refs, DocumentPlan
  <2> QED BY <2>3 DEF Statement, ResetRows, TurnRows, FirstRow, LastRows
<1>5. ASSUME NEW u \in Transactions, Busy(u)
      PROVE  /\ TxnInOrder(u)' /\ ChecksAreKept(u)' /\ Busy(u)'
             /\ Taken(u)' = Taken(u)
  <2>1. PICK q \in ResourceRequests : q = txn[u].request
    BY <1>5 DEF TxnInOrder
  <2>2. /\ TxnInOrder(u)' /\ Busy(u)'
        /\ Taken(u)' = Taken(u) /\ Checked(u)' = Checked(u)
    BY <1>1, <1>4, <1>5, <2>1, OtherStays
  <2>3. ASSUME NEW r \in Checked(u)
        PROVE  RowKept(q, r)'
    <3>1. r \in Rows /\ lock[r] = u /\ RowKept(q, r)
      <4>1. r \in Rows /\ r \in Taken(u)
        BY CheckedIsTaken DEF Checked
      <4> QED BY <1>5, <2>1, <4>1 DEF LocksAreTaken, ChecksAreKept
    <3>2. r # d
      BY <1>1, <3>1, TransactionsAssumption DEF NoTransaction
    <3>3. r \in ResourceRows \cup DocumentRows => state'[r] = state[r]
      BY <1>2, <3>2
    <3>4. InUse(r)' => InUse(r)
      BY <1>1, <1>2, <1>3 DEF InUse, Refs, ResourceRows
    <3>5. ConfigOf(q)' = ConfigOf(q)
      BY <1>1 DEF ConfigOf
    <3>6. q.kind \in References => /\ Refs(ConfigOf(q)) \subseteq ResourceRows
                                   /\ ConfigOf(q).documents \subseteq DocumentRows
      BY ConfigTyped
    <3>7. r = q.target /\ q.kind \in Turns => r \in ResourceRows
      BY RequestTyped DEF Turns, AgentKinds, ResourceRows
    <3>8. Bindable(r)' <=> Bindable(r)
      BY <1>1 DEF Bindable
    <3>9. q.kind \in References /\ r \in Refs(ConfigOf(q))' => ReferenceValid(q.target, ConfigOf(q), r)'
      <4>1. q.kind \in References => Refs(ConfigOf(q))' = Refs(ConfigOf(q))
        BY <3>5 DEF Refs
      <4> QED BY <3>1, <3>3, <3>5, <3>6, <4>1
              DEF RowKept, ReferenceValid, ReferenceAllowed, OwnerAllowed
    <3>10. r = q.target /\ r \in ResourceRows \cup DocumentRows => state'[r] # "absent"
      BY <3>1, <3>3 DEF RowKept
    <3>11. r = q.target /\ q.kind \in Turns => state'[r] = "active"
      BY <3>1, <3>3, <3>7 DEF RowKept
    <3>12. q.kind \in References /\ r \in ConfigOf(q).documents => state'[r] = "active"
      BY <3>1, <3>3, <3>6 DEF RowKept
    <3> QED BY <1>1, <3>1, <3>4, <3>5, <3>8, <3>9, <3>10, <3>11, <3>12 DEF RowKept, SwitchesOff
  <2> QED BY <1>1, <2>1, <2>2, <2>3 DEF ChecksAreKept
<1>6. ASSUME NEW u \in Transactions, ~Busy(u)
      PROVE  TxnInOrder(u)' /\ ChecksAreKept(u)' /\ ~Busy(u)'
  <2>1. TxnInOrder(u)' /\ ~Busy(u)'
    BY <1>1, <1>6 DEF TxnInOrder, Busy
  <2> QED BY <2>1 DEF ChecksAreKept
<1>7. TypesHold'
  BY <1>1, <1>2 DEF TypesHold
<1>8. LocksAreTaken'
  BY <1>1, <1>5, <1>6 DEF LocksAreTaken
<1>9. CreationsAreFresh'
  <2>1. \A u \in Transactions : Creating(u)' <=> Creating(u)
    BY <1>1 DEF Creating, Busy
  <2>2. ASSUME NEW u \in Transactions, Creating(u)
        PROVE  state'[txn[u].request.target] = "absent"
    <3>1. PICK q \in ResourceRequests : q = txn[u].request
      BY <2>2 DEF Creating, TxnInOrder
    <3>2. state[q.target] = "absent" /\ q.target \in ResourceRows \cup DocumentRows
      BY <2>2, <3>1, WrittenTyped DEF Creating, Creations, Turns, CreationsAreFresh
    <3> QED BY <1>1, <1>2, <3>1, <3>2
  <2> QED BY <1>1, <2>1, <2>2 DEF CreationsAreFresh
<1>10. ReferencesAreLive'
  <2>1. SUFFICES ASSUME NEW a \in AgentRows, state'[a] = "active"
                 PROVE  /\ \A r \in Refs(config[a]) : state'[r] = "active" /\ ReferenceAllowed(a, config[a], r)
                        /\ \A x \in config[a].documents : state'[x] = "active"
    BY <1>1 DEF ReferencesAreLive, ReferenceValid, ReferenceAllowed, OwnerAllowed, Refs
  <2>2. state[a] = "active"
    BY <1>2, <1>3, <2>1 DEF ResourceRows
  <2>3. /\ \A r \in Refs(config[a]) : state[r] = "active" /\ ReferenceAllowed(a, config[a], r)
        /\ \A x \in config[a].documents : state[x] = "active"
    BY <2>2 DEF ReferencesAreLive, ReferenceValid
  <2>4. config[a] \in Configs
    BY DEF TypesHold
  <2>5. \A r \in Refs(config[a]) \cup config[a].documents : r \in ResourceRows \cup DocumentRows /\ r # d
    BY <1>1, <2>3, <2>4 DEF Configs, Refs
  <2> QED BY <1>2, <2>3, <2>5
<1>11. TurnHasItsDrafts'
  BY <1>1 DEF TurnHasItsDrafts
<1> QED BY <1>5, <1>6, <1>7, <1>8, <1>9, <1>10, <1>11

\* A draft that is not ready yet is nobody's.
LEMMA DraftChangeKeeps ==
    ASSUME ResourceInv, NEW d \in DraftRows, draft[d].status \in {"absent", "parsing"},
           NEW status \in {"parsing", "ready", "failed"},
           draft' = [draft EXCEPT ![d].status = status],
           UNCHANGED <<state, config, name, lock, txn>>
    PROVE  ResourceInv'
<1> USE DEF ResourceInv
<1>1. /\ draft' \in [DraftRows -> Drafts]
      /\ \A x \in DraftRows : x # d => draft'[x] = draft[x]
      /\ draft'[d].subtask = draft[d].subtask
  BY DEF TypesHold, Drafts
<1>2. \A q \in ResourceRequests, i \in StatementNumbers : Statement(q, i)' = Statement(q, i)
  BY StatementSame
<1>3. ASSUME NEW u \in Transactions, Busy(u)
      PROVE  /\ TxnInOrder(u)' /\ ChecksAreKept(u)' /\ Busy(u)'
             /\ Taken(u)' = Taken(u)
  <2>1. PICK q \in ResourceRequests : q = txn[u].request
    BY <1>3 DEF TxnInOrder
  <2>2. /\ TxnInOrder(u)' /\ Busy(u)'
        /\ Taken(u)' = Taken(u) /\ Checked(u)' = Checked(u)
    BY <1>2, <1>3, <2>1, OtherStays
  <2>3. ASSUME NEW r \in Checked(u)
        PROVE  RowKept(q, r)'
    <3>1. RowKept(q, r)
      BY <1>3, <2>1 DEF ChecksAreKept
    <3>2. r \in q.drafts => Bindable(r)'
      <4>1. r \in q.drafts => r \in DraftRows /\ Bindable(r)
        BY <3>1, RequestTyped DEF RowKept
      <4>2. r \in q.drafts => r # d
        BY <4>1 DEF Bindable
      <4> QED BY <1>1, <4>1, <4>2 DEF Bindable
    <3>3. r = q.target /\ q.kind = "delete_draft" => draft'[r].subtask = NoSubtask
      BY <1>1, <3>1, RequestTyped DEF RowKept
    <3>4. InUse(r)' <=> InUse(r)
      BY DEF InUse, Refs
    <3>5. ConfigOf(q)' = ConfigOf(q)
      BY DEF ConfigOf
    <3>6. q.kind \in References /\ r \in Refs(ConfigOf(q))' => ReferenceValid(q.target, ConfigOf(q), r)'
      BY <3>1, <3>5 DEF RowKept, ReferenceValid, ReferenceAllowed, OwnerAllowed, Refs
    <3> QED BY <3>1, <3>2, <3>3, <3>4, <3>5, <3>6 DEF RowKept, SwitchesOff
  <2> QED BY <2>1, <2>2, <2>3 DEF ChecksAreKept
<1>4. ASSUME NEW u \in Transactions, ~Busy(u)
      PROVE  TxnInOrder(u)' /\ ChecksAreKept(u)' /\ ~Busy(u)'
  <2>1. TxnInOrder(u)' /\ ~Busy(u)'
    BY <1>4 DEF TxnInOrder, Busy
  <2> QED BY <2>1 DEF ChecksAreKept
<1>5. TypesHold'
  BY <1>1 DEF TypesHold
<1>6. LocksAreTaken'
  BY <1>3, <1>4 DEF LocksAreTaken
<1>7. CreationsAreFresh'
  BY DEF CreationsAreFresh, Creating, Busy
<1>8. ReferencesAreLive'
  BY LiveSame
<1>9. TurnHasItsDrafts'
  <2>1. ASSUME NEW u \in Transactions, txn[u].stage = "committed", txn[u].request.kind = "send",
               NEW x \in txn[u].request.drafts
        PROVE  draft'[x] = [status |-> "ready", subtask |-> u]
    <3>1. draft[x] = [status |-> "ready", subtask |-> u]
      BY <2>1 DEF TurnHasItsDrafts
    <3>2. txn[u].request \in ResourceRequests
      <4>1. txn[u].request \in ResourceRequests \cup {NoRequestYet}
        BY DEF TypesHold, Txns
      <4> QED BY <2>1, <4>1 DEF NoRequestYet
    <3>3. x \in DraftRows /\ x # d
      BY <2>1, <3>1, <3>2, RequestTyped
    <3> QED BY <1>1, <3>1, <3>3
  <2> QED BY <2>1 DEF TurnHasItsDrafts
<1> QED BY <1>3, <1>4, <1>5, <1>6, <1>7, <1>8, <1>9

----------------------------------------------------------------------------
(* The invariant. *)

\* The invariant holds at the beginning.
LEMMA InitialResources ==
    ASSUME ResourceInit
    PROVE  ResourceInv
<1>1. /\ state = [r \in ResourceRows \cup DocumentRows |->
                    IF r \in Existing THEN "active" ELSE "absent"]
      /\ config \in FirstConfigs
      /\ name = [r \in ResourceRows |-> NoRename]
      /\ draft = [d \in DraftRows |-> [status |-> "absent", subtask |-> NoSubtask]]
      /\ lock = [r \in Rows |-> NoTransaction]
      /\ txn = [t \in Transactions |->
                  [stage |-> "idle", request |-> NoRequestYet, at |-> 0, next |-> {}]]
  BY DEF ResourceInit
<1>2. \A t \in Transactions : txn[t] = [stage |-> "idle", request |-> NoRequestYet, at |-> 0, next |-> {}]
  BY <1>1
<1>3. \A t \in Transactions : ~Busy(t)
  BY <1>2 DEF Busy
<1>4. TypesHold
  <2>1. state \in [ResourceRows \cup DocumentRows -> States]
    BY <1>1 DEF States
  <2>2. config \in [AgentRows -> Configs]
    BY <1>1, FirstConfigsAssumption
  <2>3. name \in [ResourceRows -> NameRows \cup {NoRename}] /\ draft \in [DraftRows -> Drafts]
        /\ lock \in [Rows -> Transactions \cup {NoTransaction}]
    BY <1>1 DEF Drafts
  <2>4. txn \in [Transactions -> Txns]
    BY <1>1 DEF Txns
  <2> QED BY <2>1, <2>2, <2>3, <2>4 DEF TypesHold
<1>5. \A t \in Transactions : TxnInOrder(t) /\ ChecksAreKept(t)
  BY <1>2, <1>3 DEF TxnInOrder, ChecksAreKept
<1>6. LocksAreTaken
  BY <1>1, <1>3, TransactionsAssumption DEF LocksAreTaken, NoTransaction
<1>7. CreationsAreFresh
  BY <1>3 DEF CreationsAreFresh, Creating
<1>8. ReferencesAreLive
  <2>1. SUFFICES ASSUME NEW a \in AgentRows, state[a] = "active"
                 PROVE  /\ \A r \in Refs(config[a]) : ReferenceValid(a, config[a], r)
                        /\ \A d \in config[a].documents : state[d] = "active"
    BY DEF ReferencesAreLive
  <2>2. a \in AgentRows \cap Existing
    BY <1>1, <2>1 DEF ResourceRows
  <2>3. /\ config[a].documents \subseteq Existing
        /\ \A r \in Refs(config[a]) : r \in Existing /\ ReferenceAllowed(a, config[a], r)
    BY <1>1, <2>2, FirstConfigsAssumption
  <2>4. \A x \in Existing : state[x] = "active"
    BY <1>1, FirstConfigsAssumption
  <2> QED BY <2>3, <2>4 DEF ReferenceValid
<1>9. TurnHasItsDrafts
  BY <1>2 DEF TurnHasItsDrafts
<1> QED BY <1>4, <1>5, <1>6, <1>7, <1>8, <1>9 DEF ResourceInv

\* Every step preserves the invariant.
LEMMA ResourcesKeepInv ==
    ASSUME ResourceInv, [ResourceNext]_resourceVars
    PROVE  ResourceInv'
<1>1. ASSUME NEW t \in Transactions, Begin(t)
      PROVE  ResourceInv'
  BY <1>1, BeginKeeps
<1>2. ASSUME NEW t \in Transactions, LockRow(t)
      PROVE  ResourceInv'
  BY <1>2, LockRowKeeps
<1>3. ASSUME NEW t \in Transactions, CommitRequest(t)
      PROVE  ResourceInv'
  BY <1>3, CommitKeeps
<1>4. ASSUME NEW t \in Transactions, Rollback(t)
      PROVE  ResourceInv'
  BY <1>4, RollbackKeeps
<1>5. ASSUME NEW d \in DocumentRows, DocumentCleaned(d)
      PROVE  ResourceInv'
  BY <1>5, DocumentCleanedKeeps
<1>6. ASSUME NEW d \in DraftRows, CreateDraft(d)
      PROVE  ResourceInv'
  BY <1>6, DraftChangeKeeps DEF CreateDraft
<1>7. ASSUME NEW d \in DraftRows, MarkParsed(d)
      PROVE  ResourceInv'
  BY <1>7, DraftChangeKeeps DEF MarkParsed
<1>8. ASSUME UNCHANGED resourceVars
      PROVE  ResourceInv'
  <2>1. /\ state' = state /\ config' = config /\ name' = name
        /\ draft' = draft /\ lock' = lock /\ txn' = txn
    BY <1>8 DEF resourceVars
  <2>2. \A u \in Transactions : /\ TxnInOrder(u)' /\ ChecksAreKept(u)'
                                /\ Busy(u)' <=> Busy(u)
                                /\ Busy(u) => Taken(u)' = Taken(u)
    BY <2>1, OthersWait
  <2>3. TypesHold' /\ LocksAreTaken' /\ ReferencesAreLive'
    BY <2>1, <2>2, LiveSame DEF ResourceInv, TypesHold, LocksAreTaken
  <2>4. CreationsAreFresh' /\ TurnHasItsDrafts'
    BY <2>1, <2>2 DEF ResourceInv, CreationsAreFresh, Creating, TurnHasItsDrafts
  <2> QED BY <2>2, <2>3, <2>4 DEF ResourceInv
<1> QED BY <1>1, <1>2, <1>3, <1>4, <1>5, <1>6, <1>7, <1>8 DEF ResourceNext

\* The inductive invariant.
THEOREM ResourceInvariance == ResourceSpec => []ResourceInv
<1>1. ResourceInit => ResourceInv
  BY InitialResources
<1>2. ResourceInv /\ [ResourceNext]_resourceVars => ResourceInv'
  BY ResourcesKeepInv
<1> QED BY <1>1, <1>2, PTL DEF ResourceSpec

\* Rows, locks and transactions stay what ResourceTypeOK says they are; only a
\* transaction that is under way holds a row.
THEOREM ResourceTypesAlways == ResourceSpec => []ResourceTypeOK
<1>1. ResourceInv => ResourceTypeOK
  BY DEF ResourceInv, TypesHold, ResourceTypeOK, LocksAreTaken, Busy, States, Drafts, Txns
<1> QED BY <1>1, ResourceInvariance, PTL

\* An active agent only refers to active rows that its owner may use, however
\* the requests that create, edit, switch off and delete them overlap.
THEOREM ReferencesAreLiveAlways == ResourceSpec => []ReferencesAreLive
<1>1. ResourceInv => ReferencesAreLive
  BY DEF ResourceInv
<1> QED BY <1>1, ResourceInvariance, PTL

\* A sent turn has all its drafts, ready and bound to it, however the requests
\* for the same drafts overlap.
THEOREM TurnHasItsDraftsAlways == ResourceSpec => []TurnHasItsDrafts
<1>1. ResourceInv => TurnHasItsDrafts
  BY DEF ResourceInv
<1> QED BY <1>1, ResourceInvariance, PTL

----------------------------------------------------------------------------
(* The order of the rows. *)

\* The order of most requests: agents, what they refer to, documents collection
\* by collection, tasks, drafts; names come last.
Level(r) ==
    IF r \in AgentRows THEN 0
    ELSE IF r \in ResourceRows THEN 1
    ELSE IF r \in DocumentRows THEN 2
    ELSE IF r \in TaskRows THEN 3
    ELSE IF r \in DraftRows THEN 4
    ELSE 5
Under(r) == IF r \in DocumentRows THEN HeldIn[r] ELSE 0

Before(x, y) ==
    \/ Level(x) < Level(y)
    \/ Level(x) = Level(y) /\ (Under(x) < Under(y) \/ (Under(x) = Under(y) /\ x < y))

\* A request may name the id of an agent where it should name a workspace or a
\* collection: it is refused, but only once that row has been locked, out of
\* the order.
NoAgentIsReferredTo == \A q \in ResourceRequests : Refs(q.config) \cap AgentRows = {}

\* The level of each kind of row.
LEMMA LevelIs ==
    /\ \A r \in AgentRows : Level(r) = 0
    /\ \A r \in WorkspaceRows \cup CollectionRows : Level(r) = 1
    /\ \A r \in DocumentRows : Level(r) = 2 /\ Under(r) = HeldIn[r]
    /\ \A r \in TaskRows : Level(r) = 3
    /\ \A r \in DraftRows : Level(r) = 4
    /\ \A r \in NameRows : Level(r) = 5
    /\ \A r \in Rows : Level(r) \in Nat /\ Level(r) <= 5 /\ Under(r) \in Nat /\ Under(r) <= LastCollection
    /\ \A r \in Rows \ DocumentRows : Under(r) = 0
<1>1. \A d \in DocumentRows : HeldIn[d] \in Nat /\ HeldIn[d] <= LastCollection
  BY RowsAssumption DEF Rows, ResourceRows
<1> QED BY <1>1, NumbersTyped, RowsAssumption DEF Level, Under, Rows, ResourceRows

\* Where each level is locked: the names of creations apart.
LEMMA LevelsOfStatements ==
    ASSUME TypesHold, NEW q \in ResourceRequests, NEW i \in StatementNumbers, NEW x \in Statement(q, i),
           q.kind \in References => Refs(ConfigOf(q)) \subseteq WorkspaceRows \cup CollectionRows
    PROVE  /\ i = AtFirst => \/ x \in NameRows /\ q.kind = "create_agent"
                             \/ Level(x) = 0 /\ q.kind \in AgentKinds
                             \/ Level(x) = 1 /\ q.kind \notin AgentKinds
                             \/ Level(x) = 4 /\ q.kind = "delete_draft"
           /\ i = AtSecond => \/ Level(x) = 1 /\ q.kind \in References
                              \/ Level(x) = 2 /\ q.kind = "delete_document"
           /\ \A c \in CollectionRows : i = AtDocumentsOf(c) =>
                x \in DocumentRows /\ HeldIn[x] = c /\ q.kind \in References \cup {"reconfigure"}
           /\ i = AtTurn => x \in TaskRows /\ q.kind = "send"
           /\ i = AtLast => \/ x \in DraftRows /\ q.kind = "send"
                            \/ x = q.name /\ x \in NameRows /\ q.kind \in Renames \ {"create_agent"}
<1>1. ASSUME i = AtFirst
      PROVE  \/ x \in NameRows /\ q.kind = "create_agent"
             \/ Level(x) = 0 /\ q.kind \in AgentKinds
             \/ Level(x) = 1 /\ q.kind \notin AgentKinds
             \/ Level(x) = 4 /\ q.kind = "delete_draft"
  <2>1. x = FirstRow(q)
    BY <1>1, StatementIs
  <2>2. CASE q.kind = "create_agent"
    BY <2>1, <2>2, RequestTyped DEF FirstRow, NoRename
  <2>3. CASE q.kind \in DocumentKinds
    <3>1. x = HeldIn[q.target] /\ x \in CollectionRows
      BY <2>1, <2>3, RequestTyped, RowsAssumption DEF FirstRow, DocumentPlan, DocumentKinds
    <3> QED BY <2>3, <3>1, LevelIs DEF DocumentKinds, AgentKinds
  <2>4. CASE q.kind \notin DocumentKinds \cup {"create_agent"}
    <3>1. x = q.target
      BY <2>1, <2>4 DEF FirstRow, DocumentKinds
    <3> QED BY <2>4, <3>1, LevelIs, RequestTyped
            DEF RequestKinds, AgentKinds, CollectionKinds, ReferredKinds
  <2> QED BY <2>2, <2>3, <2>4
<1>2. ASSUME i = AtSecond
      PROVE  \/ Level(x) = 1 /\ q.kind \in References
             \/ Level(x) = 2 /\ q.kind = "delete_document"
  <2>1. x \in SecondRows(q)
    BY <1>2, StatementIs
  <2>2. CASE q.kind \in References
    BY <2>1, <2>2, LevelIs DEF SecondRows
  <2>3. CASE q.kind \notin References
    BY <2>1, <2>3, LevelIs, RequestTyped DEF SecondRows, DocumentPlan, DocumentKinds
  <2> QED BY <2>2, <2>3
<1>3. ASSUME NEW c \in CollectionRows, i = AtDocumentsOf(c)
      PROVE  x \in DocumentRows /\ HeldIn[x] = c /\ q.kind \in References \cup {"reconfigure"}
  <2>1. x \in DocumentsOf(q) /\ AtDocumentsOf(HeldIn[x]) = AtDocumentsOf(c)
    BY <1>3, StatementIs
  <2>2. x \in DocumentRows /\ q.kind \in References \cup {"reconfigure"}
    BY <2>1, ConfigTyped DEF DocumentsOf, ActiveDocuments
  <2>3. HeldIn[x] \in Nat /\ c \in Nat
    BY <2>2, RowsAssumption DEF Rows, ResourceRows
  <2> QED BY <2>1, <2>2, <2>3 DEF AtDocumentsOf
<1>4. ASSUME i = AtLast
      PROVE  \/ x \in DraftRows /\ q.kind = "send"
             \/ x = q.name /\ x \in NameRows /\ q.kind \in Renames \ {"create_agent"}
  <2>1. x \in LastRows(q)
    BY <1>4, StatementIs
  <2>2. CASE q.kind = "send"
    BY <2>1, <2>2, RequestTyped DEF LastRows
  <2>3. CASE q.kind # "send"
    <3>1. x = q.name /\ q.name # NoRename /\ q.kind # "create_agent"
      BY <2>1, <2>3 DEF LastRows
    <3> QED BY <3>1, RequestTyped
  <2> QED BY <2>2, <2>3
<1>5. i = AtTurn => x \in TaskRows /\ q.kind = "send"
  BY StatementIs, TaskStatements
<1> QED BY <1>1, <1>2, <1>3, <1>4, <1>5

\* Of two statements, the later one locks rows that come later, but for the reset
\* of a turn that is tried again.
LEMMA LaterStatement ==
    ASSUME TypesHold, NEW q \in ResourceRequests,
           q.kind \in References => Refs(ConfigOf(q)) \subseteq WorkspaceRows \cup CollectionRows,
           NEW i \in StatementNumbers, NEW j \in StatementNumbers, i < j, i # AtReset,
           NEW x \in Statement(q, i), NEW y \in Statement(q, j), x \notin NameRows
    PROVE  Before(x, y)
<1>1. \A c \in CollectionRows : /\ 2 < AtDocumentsOf(c) /\ AtDocumentsOf(c) < AtTurn
                                /\ AtDocumentsOf(c) \in Nat
  BY NumbersTyped
<1>2. /\ AtTurn \in Nat /\ 2 < AtTurn /\ AtLast \in Nat /\ AtTurn < AtLast
      /\ AtReset = 0 /\ AtFirst = 1 /\ AtSecond = 2
  BY NumbersTyped DEF AtReset, AtFirst, AtSecond
<1>3. j # AtReset /\ j # AtFirst /\ i # AtLast
  BY <1>1, <1>2, NumberIs
<1>4. CASE j = AtSecond
  <2>1. i = AtFirst
    BY <1>1, <1>2, <1>4, NumberIs
  <2>2. \/ Level(x) = 0 /\ q.kind \in AgentKinds
        \/ Level(x) = 1 /\ q.kind \notin AgentKinds
        \/ Level(x) = 4 /\ q.kind = "delete_draft"
    BY <2>1, LevelsOfStatements
  <2>3. \/ Level(y) = 1 /\ q.kind \in References
        \/ Level(y) = 2 /\ q.kind = "delete_document"
    BY <1>4, LevelsOfStatements
  <2>4. q.kind \in References => q.kind \in AgentKinds
    BY DEF AgentKinds, References, Turns
  <2>5. q.kind = "delete_document" => q.kind \notin AgentKinds /\ q.kind # "delete_draft"
    BY DEF AgentKinds
  <2>6. q.kind = "delete_draft" => q.kind \notin References
    BY DEF References, Turns
  <2>7. Level(x) < Level(y)
    BY <2>2, <2>3, <2>4, <2>5, <2>6
  <2> QED BY <2>7 DEF Before
<1>5. CASE j = AtLast
  <2>1. (Level(y) = 4 /\ q.kind = "send") \/ (Level(y) = 5 /\ q.kind \in Renames \ {"create_agent"})
    BY <1>5, LevelsOfStatements, LevelIs
  <2>2. CASE i = AtFirst
    BY <2>1, <2>2, LevelsOfStatements DEF Before, Renames
  <2>3. CASE i = AtSecond
    BY <2>1, <2>3, LevelsOfStatements DEF Before, Renames
  <2>4. CASE \E c \in CollectionRows : i = AtDocumentsOf(c)
    <3>1. Level(x) = 2
      BY <2>4, LevelsOfStatements, LevelIs
    <3> QED BY <2>1, <3>1 DEF Before
  <2>5. CASE i = AtTurn
    <3>1. Level(x) = 3
      BY <2>5, LevelsOfStatements, LevelIs
    <3> QED BY <2>1, <3>1 DEF Before
  <2> QED BY <1>3, <2>2, <2>3, <2>4, <2>5, NumberIs
<1>7. CASE j = AtTurn
  <2>1. Level(y) = 3 /\ q.kind = "send" /\ q.kind \in AgentKinds
    BY <1>7, LevelsOfStatements, LevelIs DEF AgentKinds
  <2>2. CASE i = AtFirst
    BY <2>1, <2>2, LevelsOfStatements DEF Before
  <2>3. CASE i = AtSecond
    BY <2>1, <2>3, LevelsOfStatements DEF Before
  <2>4. CASE \E c \in CollectionRows : i = AtDocumentsOf(c)
    <3>1. Level(x) = 2
      BY <2>4, LevelsOfStatements, LevelIs
    <3> QED BY <2>1, <3>1 DEF Before
  <2>5. i # AtTurn
    BY <1>2, <1>7
  <2> QED BY <1>3, <2>2, <2>3, <2>4, <2>5, NumberIs
<1>6. CASE \E c \in CollectionRows : j = AtDocumentsOf(c)
  <2>1. PICK c \in CollectionRows : j = AtDocumentsOf(c)
    BY <1>6
  <2>2. y \in DocumentRows /\ Level(y) = 2 /\ Under(y) = c /\ q.kind \in References \cup {"reconfigure"}
    BY <2>1, LevelsOfStatements, LevelIs
  <2>3. CASE i = AtFirst
    BY <2>2, <2>3, LevelsOfStatements DEF Before, References, Turns
  <2>4. CASE i = AtSecond
    BY <2>2, <2>4, LevelsOfStatements DEF Before, References, Turns
  <2>5. CASE \E b \in CollectionRows : i = AtDocumentsOf(b)
    <3>1. PICK b \in CollectionRows : i = AtDocumentsOf(b)
      BY <2>5
    <3>2. Level(x) = 2 /\ Under(x) = b
      BY <3>1, LevelsOfStatements, LevelIs
    <3>3. b < c
      BY <2>1, <3>1, NumbersTyped DEF AtDocumentsOf
    <3> QED BY <2>2, <3>2, <3>3 DEF Before
  <2>6. i # AtTurn
    BY <1>1, <1>2, <2>1
  <2> QED BY <1>3, <2>3, <2>4, <2>5, <2>6, NumberIs
<1> QED BY <1>3, <1>4, <1>5, <1>6, <1>7, NumberIs

\* The rows of one statement are of one level.
LEMMA SameStatement ==
    ASSUME TypesHold, NEW q \in ResourceRequests,
           q.kind \in References => Refs(ConfigOf(q)) \subseteq WorkspaceRows \cup CollectionRows,
           NEW i \in StatementNumbers, NEW x \in Statement(q, i), NEW y \in Statement(q, i), x < y
    PROVE  Before(x, y)
<1>1. x \in Rows /\ y \in Rows /\ x # y
  <2>1. x \in Nat /\ y \in Nat /\ x \in Rows /\ y \in Rows
    BY StatementTyped, RowsAssumption
  <2> QED BY <2>1
<1>2. Level(x) = Level(y) /\ Under(x) = Under(y)
  <2>1. CASE i = AtFirst
    BY <1>1, <2>1, StatementIs
  <2>2. CASE i = AtSecond
    <3>1. CASE q.kind \in References
      <4>1. x \in WorkspaceRows \cup CollectionRows /\ y \in WorkspaceRows \cup CollectionRows
        BY <2>2, <3>1, StatementIs DEF SecondRows
      <4> QED BY <1>1, <4>1, LevelIs, RowsAssumption DEF ResourceRows
    <3>2. CASE q.kind \notin References
      BY <1>1, <2>2, <3>2, StatementIs DEF SecondRows
    <3> QED BY <3>1, <3>2
  <2>3. CASE \E c \in CollectionRows : i = AtDocumentsOf(c)
    BY <2>3, LevelsOfStatements, LevelIs
  <2>4. CASE i = AtLast
    <3>1. CASE q.kind = "send"
      <4>1. x \in DraftRows /\ y \in DraftRows
        BY <2>4, <3>1, LevelsOfStatements DEF Renames
      <4> QED BY <1>1, <4>1, LevelIs, RowsAssumption
    <3>2. CASE q.kind # "send"
      BY <1>1, <2>4, <3>2, LevelsOfStatements
    <3> QED BY <3>1, <3>2
  <2>5. CASE i = AtReset \/ i = AtTurn
    BY <1>1, <2>5, StatementIs, TaskStatements
  <2> QED BY <2>1, <2>2, <2>3, <2>4, <2>5, NumberIs
<1> QED BY <1>2 DEF Before

\* Of a set of rows, one comes last.
LEMMA LastIsThere ==
    ASSUME NEW S \in SUBSET Rows, S # {}
    PROVE  \E x \in S : \A y \in S : ~Before(x, y)
<1>1. \A r \in S : /\ Level(r) \in Nat /\ Level(r) <= 5
                   /\ Under(r) \in Nat /\ Under(r) <= LastCollection
                   /\ r \in Nat /\ r <= LastRow
  BY LevelIs, RowsAssumption
<1>2. LastCollection \in Nat /\ LastRow \in Nat
  BY RowsAssumption
<1> DEFINE A == {5 - Level(r) : r \in S}
<1>3. A \in SUBSET Nat /\ A # {}
  BY <1>1
<1>4. PICK a \in S : \A r \in S : Level(r) <= Level(a)
  <2>1. PICK a \in S : Min(A) = 5 - Level(a)
    BY <1>3, MinIsLeast
  <2>2. \A r \in S : Min(A) <= 5 - Level(r)
    BY <1>3, MinIsLeast
  <2> QED BY <1>1, <2>1, <2>2
<1> DEFINE T == {r \in S : Level(r) = Level(a)}
           B == {LastCollection - Under(r) : r \in T}
<1>5. B \in SUBSET Nat /\ B # {}
  BY <1>1, <1>2
<1>6. PICK b \in T : \A r \in T : Under(r) <= Under(b)
  <2>1. PICK b \in T : Min(B) = LastCollection - Under(b)
    BY <1>5, MinIsLeast
  <2>2. \A r \in T : Min(B) <= LastCollection - Under(r)
    BY <1>5, MinIsLeast
  <2> QED BY <1>1, <1>2, <2>1, <2>2
<1> DEFINE U == {r \in T : Under(r) = Under(b)}
           C == {LastRow - r : r \in U}
<1>7. C \in SUBSET Nat /\ C # {}
  BY <1>1, <1>2
<1>8. PICK c \in U : \A r \in U : r <= c
  <2>1. PICK c \in U : Min(C) = LastRow - c
    BY <1>7, MinIsLeast
  <2>2. \A r \in U : Min(C) <= LastRow - r
    BY <1>7, MinIsLeast
  <2> QED BY <1>1, <1>2, <2>1, <2>2
<1>9. ASSUME NEW y \in S, Before(c, y)
      PROVE  FALSE
  <2>1. ~(Level(c) < Level(y))
    BY <1>1, <1>4
  <2>2. Level(c) = Level(y) /\ y \in T
    BY <1>9, <2>1 DEF Before
  <2>3. ~(Under(c) < Under(y))
    BY <1>1, <1>6, <2>2
  <2>4. Under(c) = Under(y) /\ c < y /\ y \in U
    BY <1>9, <2>1, <2>2, <2>3 DEF Before
  <2> QED BY <1>1, <1>8, <2>4
<1> QED BY <1>9

\* What a waiting transaction holds comes before the row it waits for, but for
\* the name of an agent that it creates and the Task it tries again.
LEMMA HeldBeforeNext ==
    ASSUME NoAgentIsReferredTo, ResourceInv,
           NEW t \in Transactions, txn[t].stage = "locking",
           NEW x \in Rows, lock[x] = t, lock[NextRow(t)] # t, x \notin NameRows,
           ~(x \in TaskRows /\ txn[t].request.kind = "retry")
    PROVE  Before(x, NextRow(t))
<1>1. TypesHold /\ TxnInOrder(t) /\ ChecksAreKept(t) /\ Busy(t) /\ ReferencesAreLive
  BY DEF ResourceInv, Busy
<1>2. PICK q \in ResourceRequests : q = txn[t].request
  BY <1>1 DEF TxnInOrder
<1> DEFINE at == txn[t].at
           y == NextRow(t)
<1>3. y \in txn[t].next /\ y \in Statement(q, at) /\ at \in StatementNumbers
  BY <1>1, <1>2, NextRowIs DEF TxnInOrder
<1>4. PICK i \in StatementNumbers : /\ x \in Statement(q, i)
                                    /\ i < at \/ (i = at /\ x \notin txn[t].next)
  BY <1>1, <1>2 DEF ResourceInv, LocksAreTaken, Taken
<1>5. ASSUME q.kind \in References
      PROVE  \/ Refs(ConfigOf(q)) \subseteq WorkspaceRows \cup CollectionRows
             \/ ~(AtFirst < at)
  <2>1. CASE q.kind \in Turns /\ AtFirst < at
    <3>1. FirstRow(q) \in Checked(t) /\ FirstRow(q) = q.target
      BY <1>1, <1>2, <2>1, FirstIsChecked DEF FirstRow, Turns
    <3>2. state[q.target] = "active" /\ q.target \in AgentRows
      BY <1>1, <1>2, <2>1, <3>1, RequestTyped DEF ChecksAreKept, RowKept, Turns, AgentKinds
    <3>3. \A r \in Refs(config[q.target]) : ReferenceAllowed(q.target, config[q.target], r)
      BY <1>1, <3>2 DEF ReferencesAreLive, ReferenceValid
    <3> QED BY <2>1, <3>3 DEF ReferenceAllowed, Refs, ConfigOf
  <2>2. CASE q.kind \notin Turns
    <3>1. Refs(q.config) \subseteq ResourceRows /\ Refs(q.config) \cap AgentRows = {}
      BY <1>1, <1>5, <2>2, ConfigTyped DEF NoAgentIsReferredTo, ConfigOf
    <3> QED BY <2>2, <3>1 DEF ConfigOf, ResourceRows
  <2> QED BY <2>1, <2>2
<1>8. i # AtReset /\ AtFirst <= i /\ i \in Nat /\ at \in Nat
  <2>1. i # AtReset
    BY <1>2, <1>4, StatementIs, TaskStatements
  <2>2. i \in Nat /\ at \in Nat
    BY <1>3, <1>4, NumbersTyped
  <2> QED BY <2>1, <2>2 DEF AtReset, AtFirst
<1>6. CASE i < at
  <2>1. AtFirst < at
    BY <1>6, <1>8 DEF AtFirst
  <2> QED BY <1>1, <1>3, <1>4, <1>5, <1>6, <1>8, <2>1, LaterStatement
<1>7. CASE i = at /\ x \notin txn[t].next
  <2>1. x < y
    BY <1>1, <1>2, <1>3, <1>4, <1>7 DEF TxnInOrder
  <2>2. AtFirst < at
    <3>1. ASSUME at = AtFirst
          PROVE  x = y
      BY <1>3, <1>4, <1>7, <3>1, StatementIs
    <3>2. at # AtFirst
      BY <1>3, <1>7, <3>1
    <3> QED BY <1>7, <1>8, <3>2 DEF AtFirst
  <2> QED BY <1>1, <1>3, <1>4, <1>5, <1>7, <2>1, <2>2, SameStatement
<1> QED BY <1>4, <1>6, <1>7

\* Names are held while something else is waited for by creations only, and
\* are otherwise the last that is waited for.  A retry that waits for its Task
\* holds nothing yet.
LEMMA NamesAndWaits ==
    ASSUME ResourceInv, NEW t \in Transactions, txn[t].stage = "locking"
    PROVE  /\ \A x \in NameRows : lock[x] = t /\ lock[NextRow(t)] # t =>
                /\ txn[t].request.kind = "create_agent" /\ x = txn[t].request.name
                /\ NextRow(t) \notin NameRows
           /\ NextRow(t) \in NameRows =>
                /\ NextRow(t) = txn[t].request.name
                /\ txn[t].request.kind \in Renames
                /\ txn[t].request.kind = "create_agent" => \A x \in Rows : lock[x] # t
           /\ NextRow(t) \in TaskRows =>
                /\ txn[t].request.kind \in Turns
                /\ txn[t].request.kind = "retry" => \A x \in Rows : lock[x] # t
<1>1. TypesHold /\ TxnInOrder(t) /\ Busy(t)
  BY DEF ResourceInv, Busy
<1>2. PICK q \in ResourceRequests : q = txn[t].request
  BY <1>1 DEF TxnInOrder
<1> DEFINE at == txn[t].at
           y == NextRow(t)
<1>3. y \in txn[t].next /\ y \in Statement(q, at) /\ at \in StatementNumbers /\ y \in Rows
  BY <1>1, <1>2, NextRowIs DEF TxnInOrder
<1>4. \A x \in Rows : lock[x] = t => \E i \in StatementNumbers :
         x \in Statement(q, i) /\ (i < at \/ (i = at /\ x \notin txn[t].next))
  BY <1>1, <1>2 DEF ResourceInv, LocksAreTaken, Taken
<1>5. \A i \in StatementNumbers : i \in Nat /\ AtReset <= i /\ i <= AtLast
  BY NumbersTyped
<1>6. ASSUME NEW i \in StatementNumbers, NEW x \in Statement(q, i), x \in NameRows
      PROVE  \/ i = AtFirst /\ q.kind = "create_agent" /\ x = q.name
             \/ i = AtLast /\ q.kind \in Renames \ {"create_agent"} /\ x = q.name

  <2>1. x \notin ResourceRows \cup DocumentRows \cup TaskRows \cup DraftRows
    BY <1>6, RowsAssumption
  <2>2. CASE i = AtFirst
    <3>1. x = FirstRow(q)
      BY <2>2, <1>6, StatementIs
    <3>2. HeldIn[q.target] \in CollectionRows \/ q.kind \notin DocumentKinds
      BY RequestTyped, RowsAssumption
    <3>3. q.kind # "create_agent" => q.target \in ResourceRows \cup DocumentRows \cup DraftRows
      BY RequestTyped DEF RequestKinds, AgentKinds, DocumentKinds, CollectionKinds, ReferredKinds, ResourceRows
    <3> QED BY <2>1, <2>2, <3>1, <3>2, <3>3 DEF FirstRow, DocumentPlan, DocumentKinds, ResourceRows
  <2>3. CASE i = AtSecond
    <3>1. x \in SecondRows(q)
      BY <1>6, <2>3, StatementIs
    <3>2. q.kind = "delete_document" => q.target \in DocumentRows
      BY RequestTyped DEF DocumentKinds
    <3> QED BY <1>1, <2>1, <3>1, <3>2, ConfigTyped DEF SecondRows, DocumentPlan
  <2>4. CASE \E c \in CollectionRows : i = AtDocumentsOf(c)
    <3>1. x \in DocumentsOf(q)
      BY <1>6, <2>4, StatementIs
    <3> QED BY <1>1, <2>1, <3>1, ConfigTyped DEF DocumentsOf, ActiveDocuments
  <2>5. CASE i = AtLast
    <3>1. x \in LastRows(q)
      BY <1>6, <2>5, StatementIs
    <3>2. q.drafts \subseteq DraftRows
      BY RequestTyped
    <3>3. q.kind # "send" /\ q.kind # "create_agent" /\ x = q.name /\ q.name # NoRename
      BY <2>1, <3>1, <3>2 DEF LastRows
    <3> QED BY <2>5, <3>3, RequestTyped
  <2>6. CASE i = AtReset \/ i = AtTurn
    BY <1>6, <2>1, <2>6, StatementIs, TaskStatements
  <2> QED BY <2>2, <2>3, <2>4, <2>5, <2>6, NumberIs
<1>7. ASSUME NEW x \in NameRows, lock[x] = t, lock[y] # t
      PROVE  q.kind = "create_agent" /\ x = q.name /\ y \notin NameRows
  <2>1. x \in Rows
    BY DEF Rows
  <2>2. PICK i \in StatementNumbers : /\ x \in Statement(q, i)
                                      /\ i < at \/ (i = at /\ x \notin txn[t].next)
    BY <1>4, <1>7, <2>1
  <2>3. CASE i = AtLast
    <3>1. i = at
      BY <1>3, <1>5, <2>2, <2>3
    <3>2. q.kind # "send"
      BY <1>6, <2>2, <2>3 DEF Renames
    <3>3. Statement(q, AtLast) = LastRows(q) /\ LastRows(q) \subseteq {q.name}
      BY <3>2, StatementIs DEF LastRows
    <3>4. x = y
      BY <1>3, <2>2, <2>3, <3>1, <3>3
    <3> QED BY <1>7, <3>4
  <2>4. CASE i = AtFirst /\ q.kind = "create_agent" /\ x = q.name
    <3>1. y \notin NameRows
      <4>1. ASSUME y \in NameRows
            PROVE  FALSE
        <5>1. at = AtFirst /\ y = q.name
          BY <1>3, <1>6, <2>4, <4>1
        <5> QED BY <1>7, <2>4, <5>1
      <4> QED BY <4>1
    <3> QED BY <2>4, <3>1
  <2> QED BY <1>6, <1>7, <2>2, <2>3, <2>4
<1>8. ASSUME y \in NameRows
      PROVE  /\ y = q.name /\ q.kind \in Renames
             /\ q.kind = "create_agent" => \A x \in Rows : lock[x] # t
  <2>1. y = q.name /\ q.kind \in Renames
    BY <1>3, <1>6, <1>8 DEF Renames
  <2>2. ASSUME q.kind = "create_agent", NEW x \in Rows, lock[x] = t
        PROVE  FALSE
    <3>1. at = AtFirst /\ at = 1
      BY <1>3, <1>6, <1>8, <2>2 DEF AtFirst
    <3>2. PICK i \in StatementNumbers : /\ x \in Statement(q, i)
                                        /\ i < at \/ (i = at /\ x \notin txn[t].next)
      BY <1>4, <2>2
    <3>3. i = at
      <4>1. q.kind # "retry" => Statement(q, AtReset) = {}
        BY StatementIs, TaskStatements
      <4>2. i # AtReset
        BY <2>2, <3>2, <4>1
      <4> QED BY <1>5, <3>1, <3>2, <4>2 DEF AtReset
    <3>4. x = y
      BY <1>3, <3>1, <3>2, <3>3, StatementIs
    <3> QED BY <1>3, <1>5, <3>2, <3>3, <3>4
  <2> QED BY <2>1, <2>2
<1>9. ASSUME y \in TaskRows
      PROVE  /\ q.kind \in Turns
             /\ q.kind = "retry" => \A x \in Rows : lock[x] # t
  <2>1. y \notin ResourceRows \cup DocumentRows \cup DraftRows \cup NameRows
    BY <1>9, RowsAssumption
  <2>2. at = AtReset \/ at = AtTurn
    <3>1. at # AtFirst
      <4>1. FirstRow(q) \notin TaskRows
        <5>1. q.kind \in DocumentKinds => HeldIn[q.target] \notin TaskRows
          BY RequestTyped, RowsAssumption DEF ResourceRows
        <5>2. q.kind = "create_agent" => q.name \notin TaskRows
          BY RequestTyped, RowsAssumption
        <5> QED BY <5>1, <5>2, TaskStatements DEF FirstRow, DocumentPlan, DocumentKinds
      <4> QED BY <1>3, <1>9, <4>1, StatementIs
    <3>2. at # AtSecond
      <4>1. SecondRows(q) \subseteq ResourceRows \cup DocumentRows
        BY <1>1, ConfigTyped, RequestTyped DEF SecondRows, DocumentPlan, DocumentKinds
      <4> QED BY <1>3, <2>1, <4>1, StatementIs
    <3>3. ~\E c \in CollectionRows : at = AtDocumentsOf(c)
      <4>1. DocumentsOf(q) \subseteq DocumentRows
        BY <1>1, ConfigTyped DEF DocumentsOf, ActiveDocuments
      <4> QED BY <1>3, <2>1, <4>1, StatementIs
    <3>4. at # AtLast
      <4>1. LastRows(q) \subseteq DraftRows \cup NameRows
        BY RequestTyped DEF LastRows
      <4> QED BY <1>3, <2>1, <4>1, StatementIs
    <3> QED BY <1>3, <3>1, <3>2, <3>3, <3>4, NumberIs
  <2>3. q.kind \in Turns
    BY <1>3, <2>2, StatementIs, TaskStatements DEF Turns
  <2>4. ASSUME q.kind = "retry", NEW x \in Rows, lock[x] = t
        PROVE  FALSE
    <3>1. at = AtReset
      BY <1>3, <2>2, <2>4, StatementIs, TaskStatements
    <3>2. PICK i \in StatementNumbers : /\ x \in Statement(q, i)
                                        /\ i < at \/ (i = at /\ x \notin txn[t].next)
      BY <1>4, <2>4
    <3>3. i = at
      BY <1>5, <3>1, <3>2 DEF AtReset
    <3>4. x = y
      BY <1>3, <3>1, <3>2, <3>3, StatementIs, TaskStatements
    <3> QED BY <1>3, <1>5, <3>2, <3>3, <3>4
  <2> QED BY <2>3, <2>4
<1> QED BY <1>2, <1>7, <1>8, <1>9

\* In every circle somebody waits for the name of an agent that is created, or
\* sends to a Task whose turn is tried again.
LEMMA CirclesAreKnown ==
    ASSUME NoAgentIsReferredTo, ResourceInv
    PROVE  CirclesAreOfTwoKinds
<1>1. SUFFICES ASSUME NEW ts \in SUBSET Transactions, Circle(ts),
                      \A t \in ts : ~WaitsForRetry(t) /\ \A u \in ts :
                         ~(/\ NextRow(t) \in NameRows
                           /\ txn[t].request.kind = "put_agent"
                           /\ txn[u].request.kind = "create_agent")
               PROVE  FALSE
  BY DEF CirclesAreOfTwoKinds, WaitsForNewAgent
<1>2. \A t \in ts : /\ t \in Transactions /\ txn[t].stage = "locking"
                    /\ lock[NextRow(t)] \in ts \ {t}
                    /\ NextRow(t) \in Rows /\ txn[t].request \in ResourceRequests
  <2>1. ASSUME NEW t \in ts
        PROVE  /\ t \in Transactions /\ txn[t].stage = "locking"
               /\ lock[NextRow(t)] \in ts \ {t}
               /\ NextRow(t) \in Rows /\ txn[t].request \in ResourceRequests
    <3>1. t \in Transactions /\ txn[t].stage = "locking" /\ lock[NextRow(t)] \in ts \ {t}
      BY <1>1 DEF Circle
    <3>2. TypesHold /\ TxnInOrder(t) /\ Busy(t)
      BY <3>1 DEF ResourceInv, Busy
    <3> QED BY <3>1, <3>2, NextRowIs DEF TxnInOrder
  <2> QED BY <2>1
<1>3. \A t \in ts : /\ \A x \in NameRows : lock[x] = t =>
                        /\ txn[t].request.kind = "create_agent" /\ x = txn[t].request.name
                        /\ NextRow(t) \notin NameRows
                    /\ NextRow(t) \in NameRows =>
                        /\ NextRow(t) = txn[t].request.name
                        /\ txn[t].request.kind \in Renames
                        /\ txn[t].request.kind = "create_agent" => \A x \in Rows : lock[x] # t
                    /\ NextRow(t) \in TaskRows =>
                        /\ txn[t].request.kind \in Turns
                        /\ txn[t].request.kind = "retry" => \A x \in Rows : lock[x] # t
  BY <1>2, NamesAndWaits
\* Those somebody may wait for.
<1> DEFINE T == {t \in ts : NextRow(t) \notin NameRows /\ \E x \in Rows : lock[x] = t}
           h(t) == lock[NextRow(t)]
<1>4. \A t \in ts : NextRow(t) \in NameRows => h(t) \in T /\ txn[h(t)].request.kind = "create_agent"
                                               /\ NextRow(t) = txn[h(t)].request.name
  BY <1>2, <1>3
<1>5. T # {}
  <2>1. PICK t \in ts : TRUE
    BY <1>1 DEF Circle
  <2>2. h(t) \in ts /\ \E x \in Rows : lock[x] = h(t)
    BY <1>2, <2>1
  <2> QED BY <1>4, <2>2
<1>6. ASSUME NEW t \in ts, NextRow(t) \in NameRows
      PROVE  txn[t].request.kind = "create_agent"
  <2>1. PICK q \in ResourceRequests : q = txn[t].request
    BY <1>2
  <2>2. PICK p \in ResourceRequests : p = txn[h(t)].request
    BY <1>2, <1>4, <1>6
  <2>3. p.kind = "create_agent" /\ p.name = q.name /\ q.name # NoRename /\ h(t) \in ts
    <3>1. q.name \in NameRows
      BY <1>3, <1>6, <2>1
    <3>2. q.name # NoRename
      BY <3>1, RowsAssumption DEF Rows, NoRename
    <3> QED BY <1>3, <1>4, <1>6, <2>1, <2>2, <3>2
  <2>4. q.kind \in AgentKinds
    <3>1. p.kind \in AgentKinds
      BY <2>3 DEF AgentKinds
    <3> QED BY <2>3, <3>1, RequestsAssumption, Zenon
  <2>5. q.kind \in Renames
    BY <1>3, <1>6, <2>1
  <2>6. q.kind # "put_agent"
    BY <1>1, <1>6, <2>1, <2>2, <2>3
  <2> QED BY <2>1, <2>4, <2>5, <2>6 DEF AgentKinds, Renames
<1>7. ASSUME NEW t \in T
      PROVE  h(t) \in T /\ Before(NextRow(t), NextRow(h(t)))
  <2>1. t \in ts /\ h(t) \in ts /\ h(t) # t /\ NextRow(t) \in Rows /\ lock[NextRow(t)] = h(t)
    BY <1>2
  <2>2. h(t) \in T
    BY <1>3, <1>6, <2>1
  <2>7. ~(NextRow(t) \in TaskRows /\ txn[h(t)].request.kind = "retry")
    <3>1. SUFFICES ASSUME NextRow(t) \in TaskRows, txn[h(t)].request.kind = "retry"
                   PROVE  FALSE
      OBVIOUS
    <3>2. txn[t].request.kind = "send"
      BY <1>3, <2>1, <3>1 DEF Turns
    <3> QED BY <1>1, <2>1, <3>1, <3>2 DEF WaitsForRetry
  <2>3. lock[NextRow(h(t))] # h(t) /\ h(t) \in Transactions /\ txn[h(t)].stage = "locking"
    BY <1>2, <2>1
  <2>4. NextRow(t) \notin NameRows
    OBVIOUS
  <2> HIDE DEF h
  <2>5. PICK u \in Transactions : u = h(t)
    BY <2>3
  <2>6. Before(NextRow(t), NextRow(u))
    BY <2>1, <2>3, <2>4, <2>5, <2>7, HeldBeforeNext
  <2> QED BY <2>2, <2>5, <2>6
<1>8. {NextRow(t) : t \in T} \in SUBSET Rows /\ {NextRow(t) : t \in T} # {}
  BY <1>2, <1>5
<1>9. PICK x \in {NextRow(t) : t \in T} : \A y \in {NextRow(t) : t \in T} : ~Before(x, y)
  BY <1>8, LastIsThere
<1>10. PICK t \in T : x = NextRow(t)
  BY <1>9
<1> QED BY <1>7, <1>9, <1>10

\* If requests name no agent where they should name a workspace or a collection,
\* transactions that wait for one another in a circle include the renaming of an
\* agent and the creation whose name it waits for, or a send and the retry whose
\* Task it waits for.
THEOREM CirclesAreOfTwoKindsAlways ==
    ASSUME NoAgentIsReferredTo
    PROVE  ResourceSpec => []CirclesAreOfTwoKinds
<1>1. ResourceInv => CirclesAreOfTwoKinds
  BY CirclesAreKnown
<1> QED BY <1>1, ResourceInvariance, PTL
=============================================================================
