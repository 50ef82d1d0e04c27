---------------------------- MODULE CheckRewrite ----------------------------
(***************************************************************************)
(* The concurrent evaluation of a rewrite rule by checkRewrite.            *)
(*                                                                         *)
(* A rewrite is a tree whose inner nodes are unions and intersections.     *)
(* checkRewrite starts a goroutine for every child of a node, and one more *)
(* that waits for all of them (wg.Wait), and returns the first thing it    *)
(* receives on two unbuffered channels, or the error of its context.  A    *)
(* child's goroutine sends an error, or an outcome that decides the node;  *)
(* otherwise it just ends.  Nothing stops the children that are left when  *)
(* their parent has returned.                                              *)
(*                                                                         *)
(* A leaf (checkLeaf) is opaque here: it answers, fails, or hangs, for     *)
(* instance on a request forwarded to a peer.                              *)
(***************************************************************************)
EXTENDS RewriteTree

VARIABLES
    answer,     \* answer[l]: what leaf l would return; "never" if it hangs
    pc,         \* pc[n]: where the goroutine that evaluates n is
    result,     \* result[n]: what the evaluation of n returned
    cancelled   \* ctx is done

vars == <<answer, pc, result, cancelled>>

TypeOK ==
    /\ answer \in [Leaf -> Answer]
    /\ pc \in [Node -> {"idle", "started", "selecting", "sending", "done"}]
    /\ result \in [Node -> Outcome \cup {"error", "none"}]
    /\ cancelled \in BOOLEAN

-----------------------------------------------------------------------------
Init ==
    /\ answer \in [Leaf -> Answer]
    /\ pc = [n \in Node |-> IF n = Root THEN "started" ELSE "idle"]
    /\ result = [n \in Node |-> "none"]
    /\ cancelled = FALSE

\* where the goroutine of n goes with the value r of its evaluation: a child
\* sends an error or a deciding outcome to its parent, and ends otherwise
AfterReturn(n, r) ==
    IF n = Root \/ r = Default(Parent[n]) THEN "done" ELSE "sending"

\* checkRewrite on n starts the children and gets to its select
Spawn(n) ==
    /\ n \in Inner
    /\ pc[n] = "started"
    /\ pc' = [m \in Node |-> IF m = n THEN "selecting"
                             ELSE IF m \in Children(n) THEN "started"
                             ELSE pc[m]]
    /\ UNCHANGED <<answer, result, cancelled>>

\* checkLeaf returns; once its context is done it may fail instead
LeafReturns(l) ==
    /\ l \in Leaf
    /\ pc[l] = "started"
    /\ \E r \in Outcome \cup {"error"} :
        /\ r = answer[l] \/ (cancelled /\ r = "error")
        /\ result' = [result EXCEPT ![l] = r]
        /\ pc' = [pc EXCEPT ![l] = AfterReturn(l, r)]
    /\ UNCHANGED <<answer, cancelled>>

\* Mutant: nothing is received before every child has finished
ReceiveAfterAll(n, c) ==
    /\ pc[n] = "selecting"
    /\ c \in Children(n)
    /\ pc[c] = "sending"
    /\ \A d \in Children(n) : pc[d] \in {"sending", "done"}
    /\ result' = [result EXCEPT ![n] = result[c]]
    /\ pc' = [pc EXCEPT ![c] = "done", ![n] = AfterReturn(n, result[c])]
    /\ UNCHANGED <<answer, cancelled>>

\* select receives from the goroutine of child c, on errCh or checkOutcomeCh
Receive(n, c) ==
    /\ pc[n] = "selecting"
    /\ c \in Children(n)
    /\ pc[c] = "sending"
    /\ result' = [result EXCEPT ![n] = result[c]]
    /\ pc' = [pc EXCEPT ![c] = "done", ![n] = AfterReturn(n, result[c])]
    /\ UNCHANGED <<answer, cancelled>>

\* Mutant: wg.Done before the send
AllChildrenDoneEarly(n) ==
    /\ pc[n] = "selecting"
    /\ \A c \in Children(n) : pc[c] \in {"sending", "done"}
    /\ result' = [result EXCEPT ![n] = Default(n)]
    /\ pc' = [pc EXCEPT ![n] = AfterReturn(n, Default(n))]
    /\ UNCHANGED <<answer, cancelled>>

\* select receives from the goroutine that waits for all children
AllChildrenDone(n) ==
    /\ pc[n] = "selecting"
    /\ \A c \in Children(n) : pc[c] = "done"
    /\ result' = [result EXCEPT ![n] = Default(n)]
    /\ pc' = [pc EXCEPT ![n] = AfterReturn(n, Default(n))]
    /\ UNCHANGED <<answer, cancelled>>

\* Mutants: no such case, a default case in its place, and a value of its own
CtxDoneMissing(n) == FALSE /\ UNCHANGED vars

CtxDoneDefault(n) ==
    /\ pc[n] = "selecting"
    /\ result' = [result EXCEPT ![n] = "error"]
    /\ pc' = [pc EXCEPT ![n] = AfterReturn(n, "error")]
    /\ UNCHANGED <<answer, cancelled>>

\* select finds its context done
CtxDone(n) ==
    /\ pc[n] = "selecting"
    /\ cancelled
    /\ result' = [result EXCEPT ![n] = "error"]
    /\ pc' = [pc EXCEPT ![n] = AfterReturn(n, "error")]
    /\ UNCHANGED <<answer, cancelled>>

\* the client gives up, or its deadline passes
Cancel ==
    /\ ~cancelled
    /\ pc[Root] # "done"
    /\ cancelled' = TRUE
    /\ UNCHANGED <<answer, pc, result>>

\* gRPC (external) ends the context of a request when its handler has returned
HandlerReturns ==
    /\ ~cancelled
    /\ pc[Root] = "done"
    /\ cancelled' = TRUE
    /\ UNCHANGED <<answer, pc, result>>

Next ==
    \/ \E n \in Node :
        \/ Spawn(n)
        \/ LeafReturns(n)
        \/ AllChildrenDone(n)
        \/ CtxDone(n)
    \/ \E n, c \in Node : Receive(n, c)
    \/ Cancel
    \/ HandlerReturns

Spec == Init /\ [][Next]_vars

\* goroutines run, a select with something to receive receives, and a handler
\* that returned ends its context; no client has to cancel, and a leaf that hangs
\* need not notice that its context is done
Fairness ==
    /\ \A l \in Leaf : WF_vars(answer[l] # "never" /\ LeafReturns(l))
    /\ \A n \in Inner :
        /\ WF_vars(Spawn(n))
        /\ WF_vars(AllChildrenDone(n))
        /\ WF_vars(CtxDone(n))
        /\ WF_vars(\E c \in Node : Receive(n, c))
    /\ WF_vars(HandlerReturns)

FairSpec == Spec /\ Fairness

-----------------------------------------------------------------------------
Solves(val) == Valuation(answer, val)

\* Whatever the order in which goroutines run, errors arrive and contexts end, a
\* rewrite, or a part of one, that is evaluated to an outcome has that value: an
\* error or a missing answer is never taken for a denial or a permission.
VerdictSound ==
    \A val \in [Node -> Value] :
        Solves(val) => \A n \in Node : result[n] \in Outcome => result[n] = val[n]

\* An evaluation fails only if a leaf failed or the context was done.
ErrorHasCause ==
    (\E n \in Node : result[n] = "error") =>
        cancelled \/ \E l \in Leaf : answer[l] = "error"

\* While a node is still selecting, a child whose goroutine ended without being
\* received from did not decide the node: the goroutine behind wg.Wait cannot
\* overtake a deciding outcome.
EndedChildrenUndecided ==
    \A n \in Inner : pc[n] = "selecting" =>
        \A c \in Children(n) : pc[c] = "done" => result[c] = Default(n)

\* The goroutines, channels and contexts implement one step from the answers of
\* the leaves to a justified verdict, and take it, under the fairness of the
\* scheduler: a value determined by the leaves that answer, or an error, is found
\* though other leaves never answer.
Promise == INSTANCE CheckOutcome WITH verdict <- result[Root]

KeepsPromise == Promise!FairSpec

\* A goroutine with something to send is received from unless its parent has
\* returned.  (If it has, the goroutine stays blocked for good.)
SenderServed ==
    \A c \in Node \ {Root} :
        pc[c] = "sending" ~> (pc[c] = "done" \/ result[Parent[c]] # "none")

\* After a request was answered, no part of its evaluation goes on selecting for
\* good, though its own leaves hang: the end of the handler's context ends it.
NoSelectLeftBehind ==
    pc[Root] = "done" ~> [](\A n \in Inner : pc[n] # "selecting")
=============================================================================
