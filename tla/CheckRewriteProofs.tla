------------------------- MODULE CheckRewriteProofs -------------------------
(***************************************************************************)
(* Proofs about CheckRewrite, for every rewrite tree.                      *)
(***************************************************************************)
EXTENDS CheckRewrite, TLAPS

\* where an evaluation goes after it returned
LEMMA AfterReturnType ==
  ASSUME NEW n \in Node, NEW r
  PROVE  AfterReturn(n, r) \in {"sending", "done"}
BY DEF AfterReturn

\* Type correctness of the evaluation.
THEOREM TypeCorrect == Spec => []TypeOK
<1>1. Init => TypeOK
  BY TreeAssumption DEF Init, TypeOK, Inner, Answer
<1>2. TypeOK /\ [Next]_vars => TypeOK'
  <2> SUFFICES ASSUME TypeOK, [Next]_vars PROVE TypeOK'
    OBVIOUS
  <2> USE DEF TypeOK
  <2>1. ASSUME NEW n \in Node, Spawn(n) PROVE TypeOK'
    BY <2>1 DEF Spawn
  <2>2. ASSUME NEW l \in Node, LeafReturns(l) PROVE TypeOK'
    BY <2>2, AfterReturnType DEF LeafReturns
  <2>3. ASSUME NEW n \in Node, AllChildrenDone(n) PROVE TypeOK'
    BY <2>3, AfterReturnType DEF AllChildrenDone, Default, Outcome
  <2>4. ASSUME NEW n \in Node, CtxDone(n) PROVE TypeOK'
    BY <2>4, AfterReturnType DEF CtxDone
  <2>5. ASSUME NEW n \in Node, NEW c \in Node, Receive(n, c) PROVE TypeOK'
    BY <2>5, AfterReturnType DEF Receive
  <2>6. CASE Cancel \/ HandlerReturns
    BY <2>6 DEF Cancel, HandlerReturns
  <2>7. CASE UNCHANGED vars
    BY <2>7 DEF vars
  <2> QED
    BY <2>1, <2>2, <2>3, <2>4, <2>5, <2>6, <2>7 DEF Next
<1> QED
  BY <1>1, <1>2, PTL DEF Spec

-----------------------------------------------------------------------------
(***************************************************************************)
(* The inductive invariant.  VerdictSound needs to know what a goroutine   *)
(* that sends carries, and what one that ended silently found.             *)
(***************************************************************************)

\* a goroutine sends only an error or an outcome that decides its parent
SendersDecide ==
    \A c \in Node \ {Root} :
        pc[c] = "sending" => result[c] # Default(Parent[c])

\* only checkRewrite selects
InnerSelect == \A n \in Node : pc[n] = "selecting" => n \in Inner

Progress == InnerSelect /\ SendersDecide /\ EndedChildrenUndecided

\* An evaluation that ends with r, of a node that was not sending, keeps what is
\* known about the children that sent or ended.
LEMMA ReturnKeepsProgress ==
  ASSUME TypeOK, Progress, NEW n \in Node,
         NEW r \in Outcome \cup {"error"},
         pc[n] = "started" \/ pc[n] = "selecting",
         pc' = [pc EXCEPT ![n] = AfterReturn(n, r)],
         result' = [result EXCEPT ![n] = r]
  PROVE  Progress'
<1> USE DEF Progress, TypeOK
<1>1. InnerSelect'
  BY AfterReturnType DEF InnerSelect
<1>2. SendersDecide'
  BY DEF SendersDecide, AfterReturn
<1>3. EndedChildrenUndecided'
  <2> SUFFICES ASSUME NEW m \in Inner, pc'[m] = "selecting",
                      NEW c \in Children(m), pc'[c] = "done"
               PROVE  result'[c] = Default(m)
    BY DEF EndedChildrenUndecided
  <2>1. m \in Node /\ c \in Node /\ c # Root /\ Parent[c] = m
    BY DEF Children, Inner
  <2>2. pc[m] = "selecting"
    BY <2>1, AfterReturnType
  <2>3. CASE c = n
    BY <2>1, <2>3 DEF AfterReturn
  <2>4. CASE c # n
    BY <2>1, <2>2, <2>4 DEF EndedChildrenUndecided
  <2> QED
    BY <2>3, <2>4
<1> QED
  BY <1>1, <1>2, <1>3

\* Every step keeps it.
LEMMA ProgressStep ==
  ASSUME TypeOK, Progress, [Next]_vars
  PROVE  Progress'
<1>1. ASSUME NEW n \in Node, Spawn(n) PROVE Progress'
  <2> USE DEF Progress, TypeOK
  <2>1. \A m \in Node : pc'[m] # pc[m] =>
          (m = n /\ pc'[m] = "selecting") \/ pc'[m] = "started"
    BY <1>1 DEF Spawn
  <2>2. InnerSelect'
    BY <1>1, <2>1 DEF InnerSelect, Spawn
  <2>3. SendersDecide'
    BY <1>1, <2>1 DEF SendersDecide, Spawn
  <2>4. ASSUME NEW m \in Inner, pc'[m] = "selecting",
               NEW c \in Children(m), pc'[c] = "done"
        PROVE  result'[c] = Default(m)
    <3>1. m \in Node /\ c \in Node
      BY DEF Children, Inner
    <3>2. CASE m = n
      BY <1>1, <2>4, <3>1, <3>2 DEF Spawn, EndedChildrenUndecided
    <3>3. CASE m # n
      BY <1>1, <2>1, <2>4, <3>1, <3>3 DEF Spawn, EndedChildrenUndecided
    <3> QED
      BY <3>2, <3>3
  <2> QED
    BY <2>2, <2>3, <2>4 DEF EndedChildrenUndecided
<1>2. ASSUME NEW l \in Node, LeafReturns(l) PROVE Progress'
  <2>1. PICK r \in Outcome \cup {"error"} :
          /\ pc[l] = "started"
          /\ result' = [result EXCEPT ![l] = r]
          /\ pc' = [pc EXCEPT ![l] = AfterReturn(l, r)]
    BY <1>2 DEF LeafReturns
  <2> QED
    BY <2>1, ReturnKeepsProgress
<1>3. ASSUME NEW n \in Node, AllChildrenDone(n) PROVE Progress'
  <2>1. /\ Default(n) \in Outcome \cup {"error"}
        /\ pc[n] = "selecting"
        /\ result' = [result EXCEPT ![n] = Default(n)]
        /\ pc' = [pc EXCEPT ![n] = AfterReturn(n, Default(n))]
    BY <1>3 DEF AllChildrenDone, Default, Outcome
  <2> QED
    BY <2>1, ReturnKeepsProgress
<1>4. ASSUME NEW n \in Node, CtxDone(n) PROVE Progress'
  <2>1. /\ "error" \in Outcome \cup {"error"}
        /\ pc[n] = "selecting"
        /\ result' = [result EXCEPT ![n] = "error"]
        /\ pc' = [pc EXCEPT ![n] = AfterReturn(n, "error")]
    BY <1>4 DEF CtxDone
  <2> QED
    BY <2>1, ReturnKeepsProgress
<1>5. ASSUME NEW n \in Node, NEW c \in Node, Receive(n, c) PROVE Progress'
  <2> USE DEF Progress, TypeOK
  <2>1. /\ c # n /\ c # Root /\ Parent[c] = n
        /\ pc'[c] = "done" /\ pc'[n] = AfterReturn(n, result[c])
        /\ \A m \in Node : m # c /\ m # n => pc'[m] = pc[m]
        /\ result'[n] = result[c]
        /\ \A m \in Node : m # n => result'[m] = result[m]
    BY <1>5 DEF Receive, Children
  <2>2. InnerSelect'
    BY <2>1, AfterReturnType DEF InnerSelect
  <2>3. SendersDecide'
    BY <2>1 DEF SendersDecide, AfterReturn
  <2>4. ASSUME NEW m \in Inner, pc'[m] = "selecting",
               NEW d \in Children(m), pc'[d] = "done"
        PROVE  result'[d] = Default(m)
    <3>1. m \in Node /\ d \in Node /\ d # Root /\ Parent[d] = m
      BY DEF Children, Inner
    <3>2. m # n /\ m # c /\ pc[m] = "selecting"
      BY <2>1, <2>4, <3>1, AfterReturnType
    <3>3. CASE d = n
      BY <2>1, <2>4, <3>1, <3>3 DEF AfterReturn
    <3>4. CASE d # n
      <4>1. d # c
        BY <2>1, <3>1, <3>2
      <4> QED
        BY <2>1, <2>4, <3>1, <3>2, <3>4, <4>1 DEF EndedChildrenUndecided
    <3> QED
      BY <3>3, <3>4
  <2> QED
    BY <2>2, <2>3, <2>4 DEF EndedChildrenUndecided
<1>6. CASE Cancel \/ HandlerReturns \/ UNCHANGED vars
  BY <1>6 DEF Cancel, HandlerReturns, vars, Progress, InnerSelect, SendersDecide,
              EndedChildrenUndecided
<1> QED
  BY <1>1, <1>2, <1>3, <1>4, <1>5, <1>6 DEF Next

\* The goroutine behind wg.Wait never overtakes a child with a deciding outcome.
THEOREM AlwaysEndedChildrenUndecided == Spec => []EndedChildrenUndecided
<1>1. Init => Progress
  BY DEF Init, Progress, InnerSelect, SendersDecide, EndedChildrenUndecided, Inner
<1>2. TypeOK /\ Progress /\ [Next]_vars => Progress'
  BY ProgressStep
<1>3. Progress => EndedChildrenUndecided
  BY DEF Progress
<1> QED
  BY <1>1, <1>2, <1>3, TypeCorrect, PTL DEF Spec

\* What a node may return, given that its children's outcomes agree with val:
\* a deciding outcome of one child, or the default when all children ended.
LEMMA ReturnedOutcomeAgrees ==
  ASSUME NEW val \in [Node -> Value], Solves(val), NEW n \in Inner,
         NEW r \in Outcome,
         \/ \E c \in Children(n) : val[c] = r /\ r # Default(n)
         \/ r = Default(n) /\ \A c \in Children(n) : val[c] = Default(n)
  PROVE  val[n] = r
<1>1. Deciding(n) # Default(n) /\ (r # Default(n) => r = Deciding(n))
  BY DEF Deciding, Default, Outcome
<1>2. val[n] = IF \E c \in Children(n) : val[c] = Deciding(n) THEN Deciding(n)
               ELSE IF \A c \in Children(n) : val[c] = Default(n) THEN Default(n)
               ELSE "unknown"
  BY DEF Solves, Valuation
<1>3. CASE \E c \in Children(n) : val[c] = r /\ r # Default(n)
  BY <1>1, <1>2, <1>3
<1>4. CASE r = Default(n) /\ \A c \in Children(n) : val[c] = Default(n)
  BY <1>1, <1>2, <1>4
<1> QED
  BY <1>3, <1>4

\* Whatever the schedule, an evaluation that yields an outcome yields the value
\* of the rewrite in three-valued logic.
THEOREM AlwaysVerdictSound == Spec => []VerdictSound
<1>1. Init => VerdictSound /\ Progress
  BY DEF Init, VerdictSound, Outcome, Progress, InnerSelect, SendersDecide,
         EndedChildrenUndecided, Inner
<1>2. TypeOK /\ Progress /\ VerdictSound /\ [Next]_vars => VerdictSound'
  <2> SUFFICES ASSUME TypeOK, Progress, VerdictSound, [Next]_vars,
                      NEW val \in [Node -> Value], Solves(val)',
                      NEW m \in Node, result'[m] \in Outcome
               PROVE  result'[m] = val[m]
    BY DEF VerdictSound
  <2>1. answer' = answer
    BY DEF Next, vars, Spawn, LeafReturns, AllChildrenDone, CtxDone, Receive, Cancel,
           HandlerReturns
  <2>2. Solves(val)
    BY <2>1 DEF Solves, Valuation
  <2>3. \A n \in Node : result[n] \in Outcome => result[n] = val[n]
    BY <2>2 DEF VerdictSound
  <2>4. CASE result'[m] = result[m]
    BY <2>3, <2>4
  <2>5. ASSUME LeafReturns(m) PROVE result'[m] = val[m]
    BY <2>2, <2>5 DEF LeafReturns, Solves, Valuation, TypeOK, Outcome
  <2>6. ASSUME AllChildrenDone(m) PROVE result'[m] = val[m]
    <3>1. m \in Inner /\ result'[m] = Default(m) /\ Default(m) \in Outcome
      BY <2>6 DEF AllChildrenDone, Progress, InnerSelect, TypeOK, Default, Outcome
    <3>2. \A c \in Children(m) : result[c] = Default(m)
      BY <2>6, <3>1 DEF AllChildrenDone, Progress, EndedChildrenUndecided
    <3>3. \A c \in Children(m) : val[c] = Default(m)
      BY <2>3, <3>1, <3>2 DEF Children
    <3> QED
      BY <2>2, <3>1, <3>3, ReturnedOutcomeAgrees
  <2>7. ASSUME NEW c \in Node, Receive(m, c) PROVE result'[m] = val[m]
    <3>1. /\ c \in Children(m) /\ c # Root /\ Parent[c] = m
          /\ pc[c] = "sending" /\ result'[m] = result[c]
      BY <2>7 DEF Receive, Children, TypeOK
    <3>2. m \in Inner
      BY <3>1, TreeAssumption
    <3>3. result[c] # Default(m)
      BY <3>1 DEF Progress, SendersDecide
    <3>4. result[c] \in Outcome /\ val[c] = result[c]
      BY <2>3, <3>1
    <3> QED
      BY <2>2, <3>1, <3>2, <3>3, <3>4, ReturnedOutcomeAgrees
  <2>8. ASSUME CtxDone(m) PROVE FALSE
    BY <2>8 DEF CtxDone, TypeOK, Outcome
  <2>9. CASE result'[m] # result[m]
    <3>1. \/ LeafReturns(m) \/ AllChildrenDone(m) \/ CtxDone(m)
          \/ \E c \in Node : Receive(m, c)
      BY <2>9 DEF Next, vars, Spawn, LeafReturns, AllChildrenDone, CtxDone, Receive,
                  Cancel, HandlerReturns, TypeOK
    <3> QED
      BY <3>1, <2>5, <2>6, <2>7, <2>8
  <2> QED
    BY <2>4, <2>9
<1>3. TypeOK /\ Progress /\ [Next]_vars => Progress'
  BY ProgressStep
<1> QED
  BY <1>1, <1>2, <1>3, TypeCorrect, PTL DEF Spec

-----------------------------------------------------------------------------
\* An error always has a cause: a leaf that failed or a context that is done.
THEOREM AlwaysErrorHasCause == Spec => []ErrorHasCause
<1>1. Init => ErrorHasCause
  BY DEF Init, ErrorHasCause
<1>2. TypeOK /\ ErrorHasCause /\ [Next]_vars => ErrorHasCause'
  <2> SUFFICES ASSUME TypeOK, ErrorHasCause, [Next]_vars,
                      NEW m \in Node, result'[m] = "error"
               PROVE  cancelled' \/ \E l \in Leaf : answer'[l] = "error"
    BY DEF ErrorHasCause
  <2>1. answer' = answer /\ (cancelled => cancelled')
    BY DEF Next, vars, Spawn, LeafReturns, AllChildrenDone, CtxDone, Receive, Cancel,
           HandlerReturns
  <2>2. CASE result[m] = "error"
    BY <2>1, <2>2 DEF ErrorHasCause
  <2>3. CASE result'[m] # result[m]
    <3>1. \/ LeafReturns(m) \/ AllChildrenDone(m) \/ CtxDone(m)
          \/ \E c \in Node : Receive(m, c)
      BY <2>3 DEF Next, vars, Spawn, LeafReturns, AllChildrenDone, CtxDone, Receive,
                  Cancel, HandlerReturns, TypeOK
    <3>2. CASE LeafReturns(m)
      BY <2>1, <3>2 DEF LeafReturns, TypeOK
    <3>3. CASE AllChildrenDone(m)
      BY <3>3 DEF AllChildrenDone, Default, TypeOK
    <3>4. CASE CtxDone(m)
      BY <2>1, <3>4 DEF CtxDone
    <3>5. ASSUME NEW c \in Node, Receive(m, c) PROVE result[c] = "error"
      BY <3>5 DEF Receive, TypeOK
    <3> QED
      BY <2>1, <3>1, <3>2, <3>3, <3>4, <3>5 DEF ErrorHasCause
  <2> QED
    BY <2>2, <2>3
<1> QED
  BY <1>1, <1>2, TypeCorrect, PTL DEF Spec

\* What the root returned stays what it returned: a root that returned has left
\* its select.
RootReturnsOnce == result[Root] # "none" => pc[Root] \in {"sending", "done"}

\* A step that gives the root its result gives it once.
LEMMA RootReturnsOnceStep ==
  ASSUME TypeOK, RootReturnsOnce, [Next]_vars
  PROVE  /\ RootReturnsOnce'
         /\ result'[Root] # result[Root] => result[Root] = "none"
<1> USE DEF TypeOK, RootReturnsOnce
<1>0. Root \in Node /\ Root \notin Leaf
  BY TreeAssumption DEF Inner
<1>1. ASSUME NEW n \in Node, Spawn(n)
      PROVE  RootReturnsOnce' /\ result' = result
  BY <1>0, <1>1 DEF Spawn, Children
<1>2. ASSUME NEW l \in Node, LeafReturns(l)
      PROVE  RootReturnsOnce' /\ result'[Root] = result[Root]
  BY <1>0, <1>2 DEF LeafReturns
<1>3. ASSUME NEW n \in Node, AllChildrenDone(n)
      PROVE  RootReturnsOnce' /\ (result'[Root] # result[Root] => result[Root] = "none")
  BY <1>0, <1>3, AfterReturnType DEF AllChildrenDone
<1>4. ASSUME NEW n \in Node, CtxDone(n)
      PROVE  RootReturnsOnce' /\ (result'[Root] # result[Root] => result[Root] = "none")
  BY <1>0, <1>4, AfterReturnType DEF CtxDone
<1>5. ASSUME NEW n \in Node, NEW c \in Node, Receive(n, c)
      PROVE  RootReturnsOnce' /\ (result'[Root] # result[Root] => result[Root] = "none")
  BY <1>0, <1>5, AfterReturnType DEF Receive, Children
<1>6. CASE Cancel \/ HandlerReturns \/ UNCHANGED vars
  BY <1>6 DEF Cancel, HandlerReturns, vars
<1> QED
  BY <1>1, <1>2, <1>3, <1>4, <1>5, <1>6 DEF Next

\* CheckOutcome reads the rewrite as the evaluation does.
LEMMA SameValues ==
  /\ Promise!Outcome = Outcome /\ Promise!Value = Value /\ Promise!Answer = Answer
  /\ \A val : Promise!Valuation(answer, val) <=> Valuation(answer, val)
<1>1. /\ Promise!Outcome = Outcome /\ Promise!Inner = Inner
      /\ \A n : Promise!Default(n) = Default(n) /\ Promise!Deciding(n) = Deciding(n)
      /\ \A n : Promise!Children(n) = Children(n)
  BY DEF Promise!Outcome, Outcome, Promise!Inner, Inner, Promise!Default, Default,
         Promise!Deciding, Deciding, Promise!Children, Children
<1>2. Promise!Value = Value /\ Promise!Answer = Answer
  BY <1>1 DEF Promise!Value, Value, Promise!Answer, Answer
<1>3. \A val : Promise!Valuation(answer, val) <=> Valuation(answer, val)
  BY <1>1 DEF Promise!Valuation, Valuation
<1> QED
  BY <1>1, <1>2, <1>3

\* Every step of the evaluation is a step of CheckOutcome, or none: the verdict
\* is the result of the root.
THEOREM ImplementsCheckOutcome == Spec => Promise!Spec
<1> DEFINE Inv == TypeOK /\ VerdictSound /\ ErrorHasCause
<1>0. Root \in Node
  BY TreeAssumption DEF Inner
<1>1. Init => Promise!Init
  BY <1>0, SameValues DEF Init, Promise!Init
<1>2. Init => RootReturnsOnce
  BY <1>0 DEF Init, RootReturnsOnce
<1>3. TypeOK /\ RootReturnsOnce /\ [Next]_vars => RootReturnsOnce'
  BY RootReturnsOnceStep
<1>4. Inv /\ Inv' /\ RootReturnsOnce /\ [Next]_vars
        => [Promise!Next]_(Promise!outcomeVars)
  <2> SUFFICES ASSUME Inv, Inv', RootReturnsOnce, [Next]_vars
               PROVE  Promise!Next \/ UNCHANGED <<answer, cancelled, result[Root]>>
    BY DEF Promise!outcomeVars
  <2>1. CASE UNCHANGED vars
    BY <2>1 DEF vars
  <2>2. CASE Cancel \/ HandlerReturns
    BY <2>2 DEF Cancel, HandlerReturns, Promise!Next, Promise!Cancel
  <2>3. ASSUME UNCHANGED <<answer, cancelled>>, result'[Root] # result[Root]
        PROVE  Promise!Next
    <3>1. result[Root] = "none"
      BY <2>3, RootReturnsOnceStep
    <3>2. result'[Root] \in Outcome \cup {"error"}
      BY <1>0, <2>3, <3>1 DEF TypeOK
    <3>3. ASSUME result'[Root] \in Outcome, NEW val \in [Node -> Value],
                 Valuation(answer, val)
          PROVE  val[Root] = result'[Root]
      <4>1. Solves(val)'
        BY <2>3, <3>3 DEF Solves, Valuation
      <4> QED
        BY <1>0, <3>3, <4>1 DEF VerdictSound
    <3>4. result'[Root] = "error" => cancelled \/ \E l \in Leaf : answer[l] = "error"
      BY <1>0, <2>3 DEF ErrorHasCause
    <3>5. Promise!Justified(result'[Root])
      BY <3>3, <3>4, SameValues DEF Promise!Justified
    <3> QED
      BY <2>3, <3>1, <3>2, <3>5, SameValues DEF Promise!Next, Promise!Decide
  <2>4. CASE UNCHANGED <<answer, cancelled>>
    BY <2>3, <2>4
  <2>5. \/ UNCHANGED vars \/ Cancel \/ HandlerReturns
        \/ UNCHANGED <<answer, cancelled>>
    BY DEF Next, Spawn, LeafReturns, AllChildrenDone, CtxDone, Receive
  <2> QED
    BY <2>1, <2>2, <2>4, <2>5
<1> QED
  BY <1>1, <1>2, <1>3, <1>4, TypeCorrect, AlwaysVerdictSound, AlwaysErrorHasCause, PTL
  DEF Spec, Promise!Spec
=============================================================================
