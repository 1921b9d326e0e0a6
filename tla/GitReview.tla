------------------------------- MODULE GitReview -------------------------------
(***************************************************************************)
(* What Phodex promises about its commit-and-push step: a reviewed change  *)
(* is offered, answered once by the developer, and pushed at most once,    *)
(* only after a yes; "completed" means that it is pushed.                  *)
(***************************************************************************)
CONSTANT Ops
VARIABLES verdict, pushed

reviewVars == <<verdict, pushed>>

Init ==
    /\ verdict = [o \in Ops |-> "absent"]
    /\ pushed = {}

Decide(o, from, to) ==
    /\ verdict[o] = from
    /\ verdict' = [verdict EXCEPT ![o] = to]
    /\ UNCHANGED pushed

Offer(o) == Decide(o, "absent", "pending_review")
Confirm(o) == Decide(o, "pending_review", "running")
Discard(o) == Decide(o, "pending_review", "rejected")
Fail(o) == Decide(o, "running", "failed")
Complete(o) == o \in pushed /\ Decide(o, "running", "completed")

Push(o) ==
    /\ verdict[o] = "running" /\ o \notin pushed
    /\ pushed' = pushed \cup {o}
    /\ UNCHANGED verdict

Next ==
    \E o \in Ops :
        Offer(o) \/ Confirm(o) \/ Discard(o) \/ Fail(o) \/ Complete(o) \/ Push(o)

Spec == Init /\ [][Next]_reviewVars

=============================================================================
