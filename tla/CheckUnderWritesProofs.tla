----------------------- MODULE CheckUnderWritesProofs -----------------------
(***************************************************************************)
(* Proofs about CheckUnderWrites: what an answer of Check means, for all   *)
(* configs, tuples, writes and schedules.                                  *)
(***************************************************************************)
EXTENDS CheckUnderWrites, RewriteRulesProofs

\* The tables, the lists and the outcomes keep their types.
THEOREM TypeCorrect == Spec => []TypeOK
<1>1. Init => TypeOK
  BY DEF Init, TypeOK, TablesInit, TablesOK, Accepted
<1>2. TypeOK /\ [Next]_vars => TypeOK'
  <2> SUFFICES ASSUME TypeOK, [Next]_vars PROVE TypeOK'
    OBVIOUS
  <2> USE DEF TypeOK, TablesOK
  <2>1. CASE Writes /\ UNCHANGED <<missed, lists, allowed, denied, cut>>
    BY <2>1 DEF Writes, TransactRelationTuples, WriteConfig
  <2>2. ASSUME NEW c \in Call, Allow(c) PROVE TypeOK'
    BY <2>2 DEF Allow, tables
  <2>3. ASSUME NEW c \in Call, Deny(c) PROVE TypeOK'
    BY <2>3 DEF Deny, tables
  <2>4. ASSUME NEW c \in Call, RowCount(c) PROVE TypeOK'
    BY <2>2, <2>4 DEF RowCount, tables
  <2>5. ASSUME NEW c \in Call, ReadSubjectSets(c) PROVE TypeOK'
    BY <2>5, SubjectsType DEF ReadSubjectSets, SubjectSets, tables, List
  <2>6. ASSUME NEW l \in lists, CheckSubjectSets(l) PROVE TypeOK'
    BY <2>2, <2>3, <2>6 DEF CheckSubjectSets, List
  <2>7. CASE UNCHANGED vars
    BY <2>7 DEF vars, tables
  <2> QED
    BY <2>1, <2>2, <2>3, <2>4, <2>5, <2>6, <2>7
       DEF Next, Evaluate, CheckUnion, CheckIntersection, CheckComputed
<1> QED
  BY <1>1, <1>2, PTL DEF Spec

-----------------------------------------------------------------------------
(***************************************************************************)
(* The inductive invariant.  What a call has read bounds the tuples of the *)
(* window of the check: from above by ever, from below by always.          *)
(***************************************************************************)

\* the tables lie between the two histories, and configs are accepted ones
Window ==
    /\ always \subseteq tuples /\ tuples \subseteq ever
    /\ versions \subseteq Accepted

\* what is stored all along would have been seen, what was seen was stored
ReadsInWindow ==
    /\ \A c \in missed : KindOf(c) = "this" /\ ~HasRow(always, c)
    /\ \A l \in lists :
        /\ KindOf(l.call) \in {"this", "ttu"}
        /\ KindOf(l.call) = "this" => l.call \in missed
        /\ l.sets \subseteq SubjectSets(ever, l.call)
        /\ cut \/ SubjectSets(always, l.call) \subseteq l.sets

\* the outcome true follows from any closed set
AllowsFollow == \A S \in SUBSET Call : Closed(FALSE, S, ever, versions) => allowed \subseteq S

\* the calls that did not return false are closed: they are a set without those
\* that did, and so without anything that was not granted
DenialsStand == cut \/ \A c \in denied : ~Derives(TRUE, c, Call \ denied, always, versions)

IInv == TypeOK /\ Window /\ ReadsInWindow /\ AllowsFollow /\ DenialsStand

\* A call that is allowed by rules that hold of what was allowed before keeps the
\* invariant.
LEMMA AllowStep ==
  ASSUME IInv, NEW c \in Call, Allow(c), Derives(FALSE, c, allowed, ever, versions)
  PROVE  IInv'
<1> USE DEF IInv, TypeOK, TablesOK, Allow, tables
<1>1. AllowsFollow'
  <2> SUFFICES ASSUME NEW S \in SUBSET Call, Closed(FALSE, S, ever, versions) PROVE c \in S
    BY DEF AllowsFollow
  <2>1. allowed \subseteq S
    BY DEF AllowsFollow
  <2>2. Derives(FALSE, c, S, ever, versions)
    BY <2>1, DerivesMonotone
  <2> QED
    BY <2>2 DEF Closed
<1>2. TypeOK' /\ Window' /\ ReadsInWindow' /\ DenialsStand'
  BY DEF Window, ReadsInWindow, DenialsStand
<1> QED
  BY <1>1, <1>2

\* A call that is denied, and that the rules do not give from what is not denied,
\* keeps the invariant.
LEMMA DenyStep ==
  ASSUME IInv, NEW c \in Call, Deny(c),
         cut \/ ~Derives(TRUE, c, Call \ denied, always, versions)
  PROVE  IInv'
<1> USE DEF IInv, TypeOK, TablesOK, Deny, tables
<1>1. DenialsStand'
  <2> SUFFICES ASSUME ~cut, NEW d \in denied', Derives(TRUE, d, Call \ denied', always, versions)
               PROVE  FALSE
    BY DEF DenialsStand
  <2>1. d \in Call /\ Call \ denied' \subseteq Call \ denied
    OBVIOUS
  <2>2. Derives(TRUE, d, Call \ denied, always, versions)
    BY <2>1, StandingMonotone
  <2> QED
    BY <2>2 DEF DenialsStand
<1>2. TypeOK' /\ Window' /\ ReadsInWindow' /\ AllowsFollow'
  BY DEF Window, ReadsInWindow, AllowsFollow
<1> QED
  BY <1>1, <1>2

\* Every step keeps the invariant.
LEMMA IInvStep ==
  ASSUME IInv, [Next]_vars
  PROVE  IInv'
<1> USE DEF IInv, TypeOK, TablesOK
<1>1. CASE Writes /\ UNCHANGED <<missed, lists, allowed, denied, cut>>
  <2>1. TypeOK' /\ Window'
    BY <1>1 DEF Writes, TransactRelationTuples, WriteConfig, Window
  <2>2. /\ ever \subseteq ever' /\ always' \subseteq always /\ versions \subseteq versions'
        /\ UNCHANGED <<missed, lists, allowed, denied, cut>>
    BY <1>1 DEF Writes, TransactRelationTuples, WriteConfig
  <2>3. ReadsInWindow'
    <3>1. \A o, r : /\ SubjectsOf(always', o, r) \subseteq SubjectsOf(always, o, r)
                   /\ SubjectsOf(ever, o, r) \subseteq SubjectsOf(ever', o, r)
      BY <2>2, SubjectsMonotone
    <3> QED
      BY <2>2, <3>1 DEF ReadsInWindow, HasRow, SubjectSets
  <2>4. AllowsFollow'
    <3> SUFFICES ASSUME NEW S \in SUBSET Call, Closed(FALSE, S, ever, versions)'
                 PROVE  allowed \subseteq S
      BY <2>2 DEF AllowsFollow
    <3>1. Closed(FALSE, S, ever', versions')
      BY DEF Closed
    <3>2. Closed(FALSE, S, ever, versions)
      BY <2>2, <3>1, ClosedAntitone
    <3> QED
      BY <3>2 DEF AllowsFollow
  <2>5. DenialsStand'
    <3> SUFFICES ASSUME ~cut, NEW c \in denied,
                        Derives(TRUE, c, Call \ denied, always', versions')
                 PROVE  FALSE
      BY <2>2 DEF DenialsStand
    <3>1. Derives(TRUE, c, Call \ denied, always, versions)
      BY <2>2, StandingMonotone
    <3> QED
      BY <3>1 DEF DenialsStand
  <2> QED
    BY <2>1, <2>3, <2>4, <2>5
<1>2. ASSUME NEW c \in Call, CheckUnion(c) PROVE IInv'
  <2>1. CASE Parts(c) \cap allowed # {} /\ Allow(c)
    BY <1>2, <2>1, AllowStep DEF CheckUnion, Derives
  <2>2. CASE Parts(c) \subseteq denied /\ Deny(c)
    BY <1>2, <2>2, DenyStep DEF CheckUnion, Derives
  <2> QED
    BY <1>2, <2>1, <2>2 DEF CheckUnion
<1>3. ASSUME NEW c \in Call, CheckIntersection(c) PROVE IInv'
  <2>1. CASE Parts(c) \subseteq allowed /\ Allow(c)
    BY <1>3, <2>1, AllowStep DEF CheckIntersection, Derives
  <2>2. CASE Parts(c) \cap denied # {} /\ Deny(c)
    BY <1>3, <2>2, DenyStep DEF CheckIntersection, Derives
  <2> QED
    BY <1>3, <2>1, <2>2 DEF CheckIntersection
<1>4. ASSUME NEW c \in Call, CheckComputed(c) PROVE IInv'
  <2>1. CASE Allowed(c.object, Computed[c.rule]) /\ Allow(c)
    BY <1>4, <2>1, AllowStep DEF CheckComputed, Derives, Allowed, Holds
  <2>2. CASE Denied(c.object, Computed[c.rule]) /\ Deny(c)
    BY <1>4, <2>2, DenyStep DEF CheckComputed, Derives, Holds, Denied
  <2> QED
    BY <1>4, <2>1, <2>2 DEF CheckComputed
<1>5. ASSUME NEW c \in Call, RowCount(c) PROVE IInv'
  <2>1. CASE HasRow(tuples, c) /\ Allow(c)
    <3>1. Derives(FALSE, c, allowed, ever, versions)
      BY <1>5, <2>1, SubjectsMonotone DEF RowCount, Derives, HasRow, Window
    <3> QED
      BY <2>1, <3>1, AllowStep
  <2>2. CASE ~HasRow(tuples, c) /\ missed' = missed \cup {c}
             /\ UNCHANGED <<tables, lists, allowed, denied, cut>>
    <3>1. KindOf(c) = "this" /\ ~HasRow(always, c)
      BY <1>5, <2>2, SubjectsMonotone DEF RowCount, HasRow, Window
    <3> QED
      BY <2>2, <3>1 DEF tables, Window, ReadsInWindow, AllowsFollow, DenialsStand
  <2> QED
    BY <1>5, <2>1, <2>2 DEF RowCount
<1>6. ASSUME NEW c \in Call, ReadSubjectSets(c) PROVE IInv'
  <2>1. PICK sets \in SUBSET SubjectSets(tuples, c) :
          /\ lists' = lists \cup {[call |-> c, sets |-> sets]}
          /\ cut' = (cut \/ sets # SubjectSets(tuples, c))
    BY <1>6 DEF ReadSubjectSets
  <2>2. SubjectSets(always, c) \subseteq SubjectSets(tuples, c)
        /\ SubjectSets(tuples, c) \subseteq SubjectSets(ever, c)
    BY SubjectsMonotone DEF Window, SubjectSets
  <2>3. UNCHANGED <<tables, missed, allowed, denied>>
    BY <1>6 DEF ReadSubjectSets
  <2>4. TypeOK' /\ Window'
    BY <2>1, <2>3, SubjectsType DEF tables, Window, List, SubjectSets
  <2>5. AllowsFollow' /\ DenialsStand'
    BY <2>1, <2>3 DEF tables, AllowsFollow, DenialsStand
  <2>6. ReadsInWindow'
    <3>1. KindOf(c) \in {"this", "ttu"} /\ (KindOf(c) = "this" => c \in missed)
      BY <1>6 DEF ReadSubjectSets, ReadsInWindow
    <3>2. UNCHANGED <<tuples, ever, always, missed>>
      BY <2>3 DEF tables
    <3>3. cut' \/ SubjectSets(always, c) \subseteq sets
      BY <2>1, <2>2
    <3>4. \A l \in lists' : /\ KindOf(l.call) \in {"this", "ttu"}
                            /\ KindOf(l.call) = "this" => l.call \in missed
                            /\ l.sets \subseteq SubjectSets(ever, l.call)
                            /\ cut' \/ SubjectSets(always, l.call) \subseteq l.sets
      BY <2>1, <2>2, <3>1, <3>3 DEF ReadsInWindow
    <3> QED
      BY <3>2, <3>4 DEF ReadsInWindow
  <2> QED
    BY <2>4, <2>5, <2>6
<1>7. ASSUME NEW l \in lists, CheckSubjectSets(l) PROVE IInv'
  <2> DEFINE c == l.call
  <2>1. c \in Call /\ l.sets \subseteq SubjectSet
    BY DEF List
  <2>2. CASE /\ \E s \in l.sets : Allowed(s.object, CheckedRelation(c, s))
             /\ Allow(c)
    <3>1. Derives(FALSE, c, allowed, ever, versions)
      BY <2>2 DEF Derives, ReadsInWindow, Allowed, Holds
    <3> QED
      BY <2>1, <2>2, <3>1, AllowStep
  <2>3. CASE /\ \A s \in l.sets : Denied(s.object, CheckedRelation(c, s))
             /\ Deny(c)
    <3>1. cut \/ ~Derives(TRUE, c, Call \ denied, always, versions)
      BY <2>3 DEF Derives, ReadsInWindow, Denied, Holds
    <3> QED
      BY <2>1, <2>3, <3>1, DenyStep
  <2> QED
    BY <1>7, <2>2, <2>3 DEF CheckSubjectSets
<1>8. CASE UNCHANGED vars
  BY <1>8 DEF vars, tables, Window, ReadsInWindow, AllowsFollow, DenialsStand
<1> QED
  BY <1>1, <1>2, <1>3, <1>4, <1>5, <1>6, <1>7, <1>8 DEF Next, Evaluate

\* The invariant holds at the begin of a check and after every step.
THEOREM Inductive == Spec => []IInv
<1>1. Init => IInv
  BY DEF Init, TablesInit, TablesOK, Accepted, IInv, TypeOK, Window, ReadsInWindow,
         AllowsFollow, DenialsStand
<1>2. IInv /\ [Next]_vars => IInv'
  BY IInvStep
<1> QED
  BY <1>1, <1>2, PTL DEF Spec

-----------------------------------------------------------------------------
\* The calls that did not return false are a closed set.
LEMMA RestIsClosed ==
  ASSUME IInv, ~cut
  PROVE  Closed(TRUE, Call \ denied, always, versions)
BY DEF IInv, TypeOK, DenialsStand, Closed

\* What a check allows is granted by the tuples that were stored at some moment of
\* it, whatever was written between its queries (checkLeaf reads in no
\* transaction).
THEOREM AlwaysAllowsWhatWasGranted == Spec => []AllowsWhatWasGranted
<1>1. IInv => AllowsWhatWasGranted
  BY DEF IInv, AllowsFollow, AllowsWhatWasGranted, Granted
<1> QED
  BY <1>1, Inductive, PTL

\* What a check denies is not granted by the tuples that were stored all along,
\* unless the rows of a query ended early (SubjectSets does not ask rows.Err).
THEOREM AlwaysDeniesWhatWasNotStanding == Spec => []DeniesWhatWasNotStanding
<1>1. IInv => DeniesWhatWasNotStanding
  <2> SUFFICES ASSUME IInv, ~cut, NEW c \in denied PROVE ~Granted(TRUE, {c}, always, versions)
    BY DEF DeniesWhatWasNotStanding
  <2> QED
    BY RestIsClosed DEF Granted
<1> QED
  BY <1>1, Inductive, PTL

\* While nothing is written an answer is exactly what tuples and rewrites say,
\* whatever the schedule of goroutines and the order of rows.
THEOREM AlwaysQuietCheckIsExact == Spec => []QuietCheckIsExact
<1>1. IInv /\ AllowsWhatWasGranted => QuietCheckIsExact
  <2> SUFFICES ASSUME IInv, AllowsWhatWasGranted, ever = always, ~cut,
                      \A o \in Object : \E v \in Version : versions \cap VersionsOf[o] = {v}
               PROVE  /\ Granted(FALSE, allowed, tuples, versions)
                      /\ \A c \in denied : ~Granted(FALSE, {c}, tuples, versions)
    BY DEF QuietCheckIsExact
  <2>1. tuples = ever /\ tuples = always /\ tuples \in SUBSET Tuple
    BY DEF IInv, Window, TypeOK, TablesOK
  <2>2. Closed(FALSE, Call \ denied, tuples, versions)
    BY <2>1, RestIsClosed, OneConfig DEF Closed
  <2> QED
    BY <2>1, <2>2 DEF AllowsWhatWasGranted, Granted
<1> QED
  BY <1>1, Inductive, AlwaysAllowsWhatWasGranted, PTL

\* A config that a check selects was accepted, and so mentions no relation that it
\* does not define, on whatever level, if its nested rewrites are last children
\* (validateRewriteRelations returns with the first).
THEOREM AlwaysNestedLastClosed == Spec => []NestedLastClosed
<1>1. IInv => NestedLastClosed
  BY AcceptedClosed DEF IInv, Window, NestedLastClosed
<1> QED
  BY <1>1, Inductive, PTL

-----------------------------------------------------------------------------
(***************************************************************************)
(* The safety half of CheckReturns: calls that all wait wait in a circle.  *)
(***************************************************************************)

\* the guards of Continue, for a call that has not returned, second queries apart
CanContinue(c) ==
    \/ KindOf(c) = "union" /\ (Parts(c) \cap allowed # {} \/ Parts(c) \subseteq denied)
    \/ KindOf(c) = "intersection" /\ (Parts(c) \subseteq allowed \/ Parts(c) \cap denied # {})
    \/ /\ KindOf(c) = "computed"
       /\ Allowed(c.object, Computed[c.rule]) \/ Denied(c.object, Computed[c.rule])
    \/ KindOf(c) = "this" /\ c \notin missed
    \/ (KindOf(c) = "ttu" \/ c \in missed) /\ \A l \in lists : l.call # c
    \/ \E l \in lists :
        /\ l.call = c
        /\ \/ \E s \in l.sets : Allowed(s.object, CheckedRelation(c, s))
           \/ \A s \in l.sets : Denied(s.object, CheckedRelation(c, s))

StuckInCircles ==
    (\A c \in Call \ (allowed \cup denied) : ~CanContinue(c)) => ReturnedOrCircular

\* A call that has not returned, and all of whose calls have, can go on.
LEMMA WaitsForCalls ==
  ASSUME IInv, \A o \in Object : versions \cap VersionsOf[o] # {},
         NEW c \in Call \ (allowed \cup denied), ~CanContinue(c)
  PROVE  LeadsTo(c, Checks(c, ever), versions) \cap (Call \ (allowed \cup denied)) # {}
<1> DEFINE Returned == allowed \cup denied
           Leads == LeadsTo(c, Checks(c, ever), versions)
<1> SUFFICES ASSUME Leads \cap Call \subseteq Returned PROVE FALSE
  OBVIOUS
<1>1. Parts(c) \subseteq Returned
  BY PartsAreCalls DEF LeadsTo
<1>2. ASSUME NEW s \in Checks(c, ever), s.object \in Object,
             s.relation \in Relation \cup {Ellipsis}
      PROVE  Allowed(s.object, s.relation) \/ Denied(s.object, s.relation)
  <2>1. PICK k : k \in Rewrites(versions, s.object, s.relation)
    BY <1>2, SomeRewrite
  <2>2. CASE k = NoRewrite
    BY <2>1, <2>2 DEF Denied
  <2>3. CASE k # NoRewrite
    <3>1. CallOf(k, s.object) \in Leads
      BY <2>1, <2>3, LeadsToRewrites
    <3>2. CallOf(k, s.object) \in Call
      BY <1>2, <2>1, <2>3, RewritesAreCalls
    <3>3. CallOf(k, s.object) \in Returned
      BY <3>1, <3>2
    <3> QED
      BY <2>1, <2>3, <3>3 DEF Allowed, Denied
  <2> QED
    BY <2>2, <2>3
<1> HIDE DEF Leads
<1>3. c \in Call /\ c.object \in Object /\ c.rule \in Rule
  BY DEF Call
<1>4. CASE KindOf(c) \in Nested
  BY <1>1, <1>4 DEF CanContinue, Nested
<1>5. CASE KindOf(c) = "computed"
  <2> DEFINE s == [object |-> c.object, relation |-> Computed[c.rule]]
  <2>1. s \in Checks(c, ever)
    BY <1>5 DEF Checks
  <2>2. s.object \in Object /\ s.relation \in Relation
    BY <1>3, RulesAssumption
  <2>3. Allowed(s.object, s.relation) \/ Denied(s.object, s.relation)
    BY <1>2, <2>1, <2>2
  <2> QED
    BY <1>5, <2>3 DEF CanContinue
<1>6. CASE KindOf(c) \in {"this", "ttu"}
  <2>1. PICK l \in lists : l.call = c
    BY <1>6 DEF CanContinue
  <2>2. l.sets \subseteq SubjectSets(ever, c)
    BY <2>1 DEF IInv, ReadsInWindow
  <2>3. ASSUME NEW s \in l.sets
        PROVE  Allowed(s.object, CheckedRelation(c, s)) \/ Denied(s.object, CheckedRelation(c, s))
    <3> DEFINE d == [object |-> s.object, relation |-> CheckedRelation(c, s)]
    <3>1. d \in Checks(c, ever)
      BY <1>6, <2>2 DEF Checks
    <3>2. s \in SubjectSet
      BY <2>2, SubjectsType DEF SubjectSets, IInv, TypeOK, TablesOK
    <3>3. d.object \in Object /\ d.relation \in Relation \cup {Ellipsis}
      BY <1>3, <3>2, RulesAssumption DEF SubjectSet, CheckedRelation
    <3>4. Allowed(d.object, d.relation) \/ Denied(d.object, d.relation)
      BY <1>2, <3>1, <3>3
    <3> QED
      BY <3>4
  <2> QED
    BY <2>1, <2>3 DEF CanContinue
<1> QED
  BY <1>3, <1>4, <1>5, <1>6, RulesAssumption DEF KindOf, Nested

\* If no call of a check can go on, all have returned, or those that have not lead in
\* a circle: no child of checkRewrite or checkLeaf waits for anything else.
THEOREM AlwaysStuckInCircles == Spec => []StuckInCircles
<1>1. IInv => StuckInCircles
  <2> DEFINE C == Call \ (allowed \cup denied)
             leads == [c \in Call |-> LeadsTo(c, Checks(c, ever), versions)]
  <2> SUFFICES ASSUME IInv, \A c \in C : ~CanContinue(c), C # {},
                      \A o \in Object : versions \cap VersionsOf[o] # {}
               PROVE  Circular(leads)
    BY DEF StuckInCircles, ReturnedOrCircular
  <2>1. \A c \in C : leads[c] \cap C # {}
    BY WaitsForCalls
  <2> HIDE DEF leads
  <2> QED
    BY <2>1, CircularIf
<1> QED
  BY <1>1, Inductive, PTL
=============================================================================
