------------------------------ MODULE ApprovalGate ------------------------------
(***************************************************************************)
(* What Phodex promises about the approval in front of a task's runtime,   *)
(* whatever engine runs it: the task asks once, a human answers once, and  *)
(* the runtime is launched at most once and, when an approval is required, *)
(* only after a yes.                                                       *)
(***************************************************************************)
CONSTANTS Tasks, Required
VARIABLES verdict, launched

gateVars == <<verdict, launched>>

Init ==
    /\ verdict = [t \in Tasks |-> "none"]
    /\ launched = [t \in Tasks |-> FALSE]

\* The engine asks for permission; what is running already needs none.
Ask(t) ==
    /\ Required /\ verdict[t] = "none" /\ ~launched[t]
    /\ verdict' = [verdict EXCEPT ![t] = "pending"]
    /\ UNCHANGED launched

\* A human answers.
Answer(t) ==
    /\ verdict[t] = "pending" /\ ~launched[t]
    /\ \E v \in {"approved", "rejected"} : verdict' = [verdict EXCEPT ![t] = v]
    /\ UNCHANGED launched

\* The runtime is launched.
Launch(t) ==
    /\ Required => verdict[t] = "approved"
    /\ ~launched[t]
    /\ launched' = [launched EXCEPT ![t] = TRUE]
    /\ UNCHANGED verdict

Next == \E t \in Tasks : Ask(t) \/ Answer(t) \/ Launch(t)

Spec == Init /\ [][Next]_gateVars

=============================================================================
