---------------------------- MODULE CheckOutcome ----------------------------
(***************************************************************************)
(* What the evaluation of a rewrite promises its caller, without its       *)
(* goroutines: one step from the answers of the leaves to a verdict.       *)
(***************************************************************************)
EXTENDS RewriteTree

VARIABLES
    answer,     \* answer[l]: what leaf l returns; "never" if it hangs
    cancelled,  \* the context of the request is done
    verdict     \* what the evaluation returned, or "none"

outcomeVars == <<answer, cancelled, verdict>>

Init ==
    /\ answer \in [Leaf -> Answer]
    /\ cancelled = FALSE
    /\ verdict = "none"

\* an outcome is the value of the rewrite; an error has a cause
Justified(r) ==
    /\ r \in Outcome =>
        \A val \in [Node -> Value] : Valuation(answer, val) => val[Root] = r
    /\ r = "error" => cancelled \/ \E l \in Leaf : answer[l] = "error"

Decide ==
    /\ verdict = "none"
    /\ \E r \in Outcome \cup {"error"} :
        /\ Justified(r)
        /\ verdict' = r
    /\ UNCHANGED <<answer, cancelled>>

Cancel ==
    /\ ~cancelled
    /\ cancelled' = TRUE
    /\ UNCHANGED <<answer, verdict>>

Next == Decide \/ Cancel

Spec == Init /\ [][Next]_outcomeVars

\* the leaves that answer determine the value, or none of them hangs
Determined ==
    \/ \A l \in Leaf : answer[l] # "never"
    \/ \A val \in [Node -> Value] : Valuation(answer, val) => val[Root] # "unknown"

FairSpec == Spec /\ WF_outcomeVars(Determined /\ Decide)
=============================================================================
