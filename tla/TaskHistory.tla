---------------------------- MODULE TaskHistory ----------------------------
(***************************************************************************)
(* What a Task promises to whoever reads its history, without requests,    *)
(* executions, cancellation and transactions: at most one Assistant is     *)
(* being generated, the status of the Task is that of the generation or of *)
(* its outcome, and a COMPLETED or CANCELLED Assistant never changes; only *)
(* a FAILED one is generated again, in place.                              *)
(***************************************************************************)
EXTENDS Naturals

CONSTANT MaxTurns

VARIABLES status, answer

vars == <<status, answer>>

Active == {"PENDING", "RUNNING"}
Terminal == {"COMPLETED", "FAILED", "CANCELLED"}

Init ==
    /\ status = "absent"
    /\ answer = [n \in 1 .. MaxTurns |-> "none"]

Both(n, s) == status' = s /\ answer' = [answer EXCEPT ![n] = s]

\* A turn is appended, or a failed one is generated again.
Generate(n) ==
    /\ status \notin Active
    /\ \/ answer[n] = "none" /\ (n = 1 \/ answer[n - 1] # "none")
       \/ answer[n] = "FAILED"
    /\ Both(n, "PENDING")

Run(n) == answer[n] = "PENDING" /\ Both(n, "RUNNING")

Settle(n, outcome) == answer[n] \in Active /\ Both(n, outcome)

Next == \E n \in 1 .. MaxTurns :
    Generate(n) \/ Run(n) \/ \E outcome \in Terminal : Settle(n, outcome)

Spec == Init /\ [][Next]_vars
=============================================================================
