---------------------- MODULE ExpandUnderWritesProofs ----------------------
(***************************************************************************)
(* Proofs about ExpandUnderWrites: whom the tree of an Expand shows, for   *)
(* all configs, tuples and writes.                                         *)
(***************************************************************************)
EXTENDS ExpandUnderWrites, RewriteRulesProofs

\* The tables, the lists and the trees keep their types.
THEOREM TypeCorrect == Spec => []TypeOK
<1>1. Init => TypeOK
  BY DEF Init, TypeOK, TablesInit, TablesOK, Accepted
<1>2. TypeOK /\ [Next]_vars => TypeOK'
  <2> SUFFICES ASSUME TypeOK, [Next]_vars PROVE TypeOK'
    OBVIOUS
  <2> USE DEF TypeOK, TablesOK
  <2>1. CASE Writes /\ UNCHANGED <<lists, shown, hidden, cut>>
    BY <2>1 DEF Writes, TransactRelationTuples, WriteConfig
  <2>2. ASSUME NEW c \in Call, Show(c) PROVE TypeOK'
    BY <2>2 DEF Show, tables
  <2>3. ASSUME NEW c \in Call, Hide(c) PROVE TypeOK'
    BY <2>3 DEF Hide, tables
  <2>4. ASSUME NEW c \in Call, ReadSubjects(c) PROVE TypeOK'
    BY <2>4, SubjectsType DEF ReadSubjects, ListRelationTuples, tables, List
  <2>5. ASSUME NEW l \in lists, ExpandSubjects(l) PROVE TypeOK'
    BY <2>2, <2>3, <2>5 DEF ExpandSubjects, List
  <2>6. CASE UNCHANGED vars
    BY <2>6 DEF vars, tables
  <2> QED
    BY <2>1, <2>2, <2>3, <2>4, <2>5, <2>6 DEF Next, Traverse, ExpandWithRewrite, ExpandComputed
<1> QED
  BY <1>1, <1>2, PTL DEF Spec

-----------------------------------------------------------------------------
(***************************************************************************)
(* The inductive invariant.  Expand reads the rules in a way of its own:   *)
(* an intersection as a union, "..." as the relation at hand, a user of a  *)
(* tupleset as a leaf.                                                     *)
(***************************************************************************)
Listed(T, c) == SubjectsOf(T, c.object, ListedRelation(c))

ExpandDerives(every, c, S, T, V) ==
    \/ KindOf(c) \in Nested /\ Parts(c) \cap S # {}
    \/ KindOf(c) = "computed" /\ Holds(every, S, V, c.object, Computed[c.rule])
    \/ /\ KindOf(c) \in {"this", "ttu"}
       /\ \/ User \in Listed(T, c)
          \/ \E s \in Listed(T, c) \ {User} : Holds(every, S, V, s.object, ExpandedRelation(c, s))

\* the tables lie between the two histories
Window == always \subseteq tuples /\ tuples \subseteq ever

\* what is stored all along would have been listed, what was listed was stored
ReadsInWindow ==
    \A l \in lists :
        /\ KindOf(l.call) \in {"this", "ttu"}
        /\ l.subjects \subseteq Listed(ever, l.call)
        /\ cut \/ Listed(always, l.call) \subseteq l.subjects

\* a leaf for the user follows from any set that is closed in Expand's reading
ShowsFollow ==
    \A S \in SUBSET Call :
        (\A c \in Call \ S : ~ExpandDerives(FALSE, c, S, ever, versions)) => shown \subseteq S

\* the calls that did not return a tree without the user are closed in this reading
HidesStand == cut \/ \A c \in hidden : ~ExpandDerives(TRUE, c, Call \ hidden, always, versions)

IInv == TypeOK /\ Window /\ ReadsInWindow /\ ShowsFollow /\ HidesStand

\* What some config gives Expand from less it gives from more.
LEMMA ExpandDerivesMonotone ==
  ASSUME NEW T, NEW U, T \subseteq U, NEW V, NEW W, V \subseteq W,
         NEW R, NEW S, R \subseteq S, NEW c, ExpandDerives(FALSE, c, R, T, V)
  PROVE  ExpandDerives(FALSE, c, S, U, W)
<1>1. \A o, r : SubjectsOf(T, o, r) \subseteq SubjectsOf(U, o, r)
  BY SubjectsMonotone
<1>2. \A o, r : Holds(FALSE, R, V, o, r) => Holds(FALSE, S, W, o, r)
  BY HoldsMonotone
<1> QED
  BY <1>1, <1>2 DEF ExpandDerives, Listed

\* What every config gives Expand from less is given, by fewer configs, from more.
LEMMA ExpandStandingMonotone ==
  ASSUME NEW T, NEW U, T \subseteq U, NEW V, NEW W, W \subseteq V,
         NEW R, NEW S, R \subseteq S, NEW c, ExpandDerives(TRUE, c, R, T, V)
  PROVE  ExpandDerives(TRUE, c, S, U, W)
<1>1. \A o, r : SubjectsOf(T, o, r) \subseteq SubjectsOf(U, o, r)
  BY SubjectsMonotone
<1>2. \A o, r : Holds(TRUE, R, V, o, r) => Holds(TRUE, S, W, o, r)
  BY StandsMonotone
<1> QED
  BY <1>1, <1>2 DEF ExpandDerives, Listed

\* A tree with the user that Expand's reading gives from the trees before keeps the
\* invariant.
LEMMA ShowStep ==
  ASSUME IInv, NEW c \in Call, Show(c), ExpandDerives(FALSE, c, shown, ever, versions)
  PROVE  IInv'
<1> USE DEF IInv, TypeOK, TablesOK, Show, tables
<1>1. ShowsFollow'
  <2> SUFFICES ASSUME NEW S \in SUBSET Call,
                      \A d \in Call \ S : ~ExpandDerives(FALSE, d, S, ever, versions)
               PROVE  c \in S
    BY DEF ShowsFollow
  <2>1. shown \subseteq S
    BY DEF ShowsFollow
  <2>2. ExpandDerives(FALSE, c, S, ever, versions)
    BY <2>1, ExpandDerivesMonotone
  <2> QED
    BY <2>2
<1>2. TypeOK' /\ Window' /\ ReadsInWindow' /\ HidesStand'
  BY DEF Window, ReadsInWindow, HidesStand
<1> QED
  BY <1>1, <1>2

\* So does a tree without the user that the reading does not give from those that
\* did not leave the user out.
LEMMA HideStep ==
  ASSUME IInv, NEW c \in Call, Hide(c),
         cut \/ ~ExpandDerives(TRUE, c, Call \ hidden, always, versions)
  PROVE  IInv'
<1> USE DEF IInv, TypeOK, TablesOK, Hide, tables
<1>1. HidesStand'
  <2> SUFFICES ASSUME ~cut, NEW d \in hidden',
                      ExpandDerives(TRUE, d, Call \ hidden', always, versions)
               PROVE  FALSE
    BY DEF HidesStand
  <2>1. d \in Call /\ Call \ hidden' \subseteq Call \ hidden
    OBVIOUS
  <2>2. ExpandDerives(TRUE, d, Call \ hidden, always, versions)
    BY <2>1, ExpandStandingMonotone
  <2> QED
    BY <2>2 DEF HidesStand
<1>2. TypeOK' /\ Window' /\ ReadsInWindow' /\ ShowsFollow'
  BY DEF Window, ReadsInWindow, ShowsFollow
<1> QED
  BY <1>1, <1>2

\* Every step keeps the invariant.
LEMMA IInvStep ==
  ASSUME IInv, [Next]_vars
  PROVE  IInv'
<1> USE DEF IInv, TypeOK, TablesOK
<1>1. CASE Writes /\ UNCHANGED <<lists, shown, hidden, cut>>
  <2>1. TypeOK' /\ Window'
    BY <1>1 DEF Writes, TransactRelationTuples, WriteConfig, Window
  <2>2. /\ ever \subseteq ever' /\ always' \subseteq always /\ versions \subseteq versions'
        /\ UNCHANGED <<lists, shown, hidden, cut>>
    BY <1>1 DEF Writes, TransactRelationTuples, WriteConfig
  <2>3. ReadsInWindow'
    <3>1. \A o, r : /\ SubjectsOf(always', o, r) \subseteq SubjectsOf(always, o, r)
                    /\ SubjectsOf(ever, o, r) \subseteq SubjectsOf(ever', o, r)
      BY <2>2, SubjectsMonotone
    <3> QED
      BY <2>2, <3>1 DEF ReadsInWindow, Listed
  <2>4. ShowsFollow'
    <3> SUFFICES ASSUME NEW S \in SUBSET Call,
                        \A c \in Call \ S : ~ExpandDerives(FALSE, c, S, ever', versions')
                 PROVE  shown \subseteq S
      BY <2>2 DEF ShowsFollow
    <3>1. \A c \in Call \ S : ~ExpandDerives(FALSE, c, S, ever, versions)
      BY <2>2, ExpandDerivesMonotone
    <3> QED
      BY <3>1 DEF ShowsFollow
  <2>5. HidesStand'
    <3> SUFFICES ASSUME ~cut, NEW c \in hidden,
                        ExpandDerives(TRUE, c, Call \ hidden, always', versions')
                 PROVE  FALSE
      BY <2>2 DEF HidesStand
    <3>1. ExpandDerives(TRUE, c, Call \ hidden, always, versions)
      BY <2>2, ExpandStandingMonotone
    <3> QED
      BY <3>1 DEF HidesStand
  <2> QED
    BY <2>1, <2>3, <2>4, <2>5
<1>2. ASSUME NEW c \in Call, ExpandWithRewrite(c) PROVE IInv'
  <2>1. CASE Parts(c) \cap shown # {} /\ Show(c)
    BY <1>2, <2>1, ShowStep DEF ExpandWithRewrite, ExpandDerives
  <2>2. CASE Parts(c) \subseteq hidden /\ Hide(c)
    BY <1>2, <2>2, HideStep DEF ExpandWithRewrite, ExpandDerives, Nested
  <2> QED
    BY <1>2, <2>1, <2>2 DEF ExpandWithRewrite
<1>3. ASSUME NEW c \in Call, ExpandComputed(c) PROVE IInv'
  <2>1. CASE Shows(c.object, Computed[c.rule]) /\ Show(c)
    BY <1>3, <2>1, ShowStep DEF ExpandComputed, ExpandDerives, Shows, Holds
  <2>2. CASE Hides(c.object, Computed[c.rule]) /\ Hide(c)
    BY <1>3, <2>2, HideStep DEF ExpandComputed, ExpandDerives, Hides, Holds, Nested
  <2> QED
    BY <1>3, <2>1, <2>2 DEF ExpandComputed
<1>4. ASSUME NEW c \in Call, ReadSubjects(c) PROVE IInv'
  <2>1. PICK subjects \in SUBSET Listed(tuples, c) :
          /\ lists' = lists \cup {[call |-> c, subjects |-> subjects]}
          /\ cut' = (cut \/ subjects # Listed(tuples, c))
    BY <1>4 DEF ReadSubjects, ListRelationTuples, Listed
  <2>2. Listed(always, c) \subseteq Listed(tuples, c) /\ Listed(tuples, c) \subseteq Listed(ever, c)
    BY SubjectsMonotone DEF Window, Listed
  <2>3. KindOf(c) \in {"this", "ttu"} /\ UNCHANGED <<tables, shown, hidden>>
    BY <1>4 DEF ReadSubjects
  <2>4. TypeOK' /\ Window'
    BY <2>1, <2>3, SubjectsType DEF tables, Window, List, Listed
  <2>5. ShowsFollow' /\ HidesStand'
    BY <2>1, <2>3 DEF tables, ShowsFollow, HidesStand
  <2>6. ReadsInWindow'
    <3>1. cut' \/ Listed(always, c) \subseteq subjects
      BY <2>1, <2>2
    <3> QED
      BY <2>1, <2>2, <2>3, <3>1 DEF ReadsInWindow, tables
  <2> QED
    BY <2>4, <2>5, <2>6
<1>5. ASSUME NEW l \in lists, ExpandSubjects(l) PROVE IInv'
  <2> DEFINE c == l.call
  <2>1. /\ c \in Call /\ KindOf(c) \in {"this", "ttu"}
        /\ l.subjects \subseteq Listed(ever, c)
        /\ cut \/ Listed(always, c) \subseteq l.subjects
    BY DEF List, ReadsInWindow
  <2>2. CASE /\ \/ User \in l.subjects
                \/ \E s \in l.subjects \ {User} : Shows(s.object, ExpandedRelation(c, s))
             /\ Show(c)
    <3>1. ExpandDerives(FALSE, c, shown, ever, versions)
      BY <2>1, <2>2 DEF ExpandDerives, Shows, Holds
    <3> QED
      BY <2>1, <2>2, <3>1, ShowStep
  <2>3. CASE /\ User \notin l.subjects
             /\ \A s \in l.subjects \ {User} : Hides(s.object, ExpandedRelation(c, s))
             /\ Hide(c)
    <3>1. cut \/ ~ExpandDerives(TRUE, c, Call \ hidden, always, versions)
      BY <2>1, <2>3 DEF ExpandDerives, Hides, Holds, Nested
    <3> QED
      BY <2>1, <2>3, <3>1, HideStep
  <2> QED
    BY <1>5, <2>2, <2>3 DEF ExpandSubjects
<1>6. CASE UNCHANGED vars
  BY <1>6 DEF vars, tables, Window, ReadsInWindow, ShowsFollow, HidesStand
<1> QED
  BY <1>1, <1>2, <1>3, <1>4, <1>5, <1>6 DEF Next, Traverse

\* The invariant holds at the begin of an Expand and after every step.
THEOREM Inductive == Spec => []IInv
<1>1. Init => IInv
  BY DEF Init, TablesInit, TablesOK, Accepted, IInv, TypeOK, Window, ReadsInWindow,
         ShowsFollow, HidesStand
<1>2. IInv /\ [Next]_vars => IInv'
  BY IInvStep
<1> QED
  BY <1>1, <1>2, PTL DEF Spec

-----------------------------------------------------------------------------
(***************************************************************************)
(* From Expand's reading to that of Check, where they agree.               *)
(***************************************************************************)

\* The self-contained ones of some calls lead only to each other.
LEMMA SelfContainedLeads ==
  ASSUME NEW C, NEW T, NEW V, NEW c \in SelfContained(C, T, V)
  PROVE  c \in C /\ LeadsTo(c, Expands(c, T), V) \subseteq SelfContained(C, T, V)
<1> DEFINE leads == [d \in C |-> LeadsTo(d, Expands(d, T), V)]
           Sets == {D \in SUBSET C : \A d \in D : leads[d] \subseteq D}
<1>1. SelfContained(C, T, V) = UNION Sets
  BY DEF SelfContained
<1>2. PICK D \in Sets : c \in D
  BY <1>1
<1>3. c \in C /\ leads[c] \subseteq D
  BY <1>2
<1>4. leads[c] = LeadsTo(c, Expands(c, T), V)
  BY <1>3
<1> HIDE DEF leads
<1> QED
  BY <1>1, <1>2, <1>3, <1>4

\* A relation that a call goes on to leads to the calls of its rewrites, so what is
\* had of it is had within any set Q that the call leads to.
LEMMA HoldsWithin ==
  ASSUME NEW c, NEW T, NEW V, NEW Q, NEW R, NEW S,
         LeadsTo(c, Expands(c, T), V) \subseteq Q, R \cap Q \subseteq S,
         NEW o, NEW r, [object |-> o, relation |-> r] \in Expands(c, T)
  PROVE  /\ Holds(FALSE, R, V, o, r) => Holds(FALSE, S, V, o, r)
         /\ Holds(TRUE, R, V, o, r) => Holds(TRUE, S, V, o, r)
<1> DEFINE s == [object |-> o, relation |-> r]
           Heads(t) == {CallOf(k, t.object) : k \in Rewrites(V, t.object, t.relation) \ {NoRewrite}}
<1>1. Heads(s) \subseteq LeadsTo(c, Expands(c, T), V)
  BY DEF LeadsTo
<1>2. \A k \in Rewrites(V, o, r) : k # NoRewrite => CallOf(k, o) \in Q
  BY <1>1
<1> QED
  BY <1>2 DEF Holds

\* the relations that a call goes on to, by its kind
LEMMA ExpandsOf ==
  ASSUME NEW c, NEW T
  PROVE  /\ KindOf(c) = "computed" =>
              [object |-> c.object, relation |-> Computed[c.rule]] \in Expands(c, T)
         /\ KindOf(c) \in {"this", "ttu"} =>
              \A s \in Listed(T, c) \ {User} :
                [object |-> s.object, relation |-> ExpandedRelation(c, s)] \in Expands(c, T)
BY DEF Expands, Listed

\* The tree of an Expand shows who is granted a relation by tuples that stood all
\* through the traversal, whatever was written meanwhile (expandWithRewrite lists
\* the tuples of every leaf in a query of its own).
THEOREM AlwaysShowsWhoStands == Spec => []ShowsWhoStands
<1>1. IInv => ShowsWhoStands
  <2> DEFINE Q == Alike(always, versions)
             S == Call \ (hidden \cap Q)
  <2> SUFFICES ASSUME IInv, ~cut PROVE Closed(TRUE, S, always, versions)
    BY DEF ShowsWhoStands, Granted
  <2> SUFFICES ASSUME NEW c \in hidden \cap Q, Derives(TRUE, c, S, always, versions)
               PROVE  ExpandDerives(TRUE, c, Call \ hidden, always, versions)
    BY DEF Closed, IInv, HidesStand
  <2>1. /\ ReadsAlike(c, always)
        /\ LeadsTo(c, Expands(c, always), versions) \subseteq Q
    BY SelfContainedLeads DEF Alike
  <2>2. S \cap Q \subseteq Call \ hidden
    OBVIOUS
  <2> HIDE DEF Q, S
  <2>3. ASSUME NEW o, NEW r, [object |-> o, relation |-> r] \in Expands(c, always),
               Holds(TRUE, S, versions, o, r)
        PROVE  Holds(TRUE, Call \ hidden, versions, o, r)
    BY ONLY <2>1, <2>2, <2>3, HoldsWithin, Zenon
  <2>4. Parts(c) \subseteq Q
    BY <2>1 DEF LeadsTo
  <2>5. CASE KindOf(c) \in Nested
    <3>1. PICK d \in Parts(c) : d \in S
      BY <2>1, <2>5 DEF Derives, ReadsAlike, Nested
    <3> QED
      BY <2>2, <2>4, <2>5, <3>1 DEF ExpandDerives
  <2>6. CASE KindOf(c) = "computed"
    BY <2>3, <2>6, ExpandsOf DEF Derives, ExpandDerives
  <2>7. CASE KindOf(c) \in {"this", "ttu"}
    <3>1. /\ ReadRelation(c) = ListedRelation(c)
          /\ \A s \in SubjectSets(always, c) : CheckedRelation(c, s) = ExpandedRelation(c, s)
      BY <2>1, <2>7 DEF ReadsAlike
    <3>2. SubjectSets(always, c) = Listed(always, c) \ {User}
      BY <3>1 DEF SubjectSets, Listed
    <3>3. KindOf(c) = "this" /\ HasRow(always, c) => User \in Listed(always, c)
      BY <3>1 DEF HasRow, Listed, ReadRelation
    <3>4. \/ User \in Listed(always, c)
          \/ \E s \in Listed(always, c) \ {User} :
                Holds(TRUE, S, versions, s.object, ExpandedRelation(c, s))
      BY <2>7, <3>1, <3>2, <3>3 DEF Derives
    <3> QED
      BY <2>3, <2>7, <3>4, ExpandsOf DEF ExpandDerives
  <2> QED
    BY <2>5, <2>6, <2>7 DEF Derives, Nested
<1> QED
  BY <1>1, Inductive, PTL

\* Where there are neither intersections nor users in tuplesets, whom a tree shows is
\* granted the relation by tuples that were stored during the traversal
\* (expandWithRewrite puts the subjects of all children into one list).
THEOREM AlwaysPlainShowsGranted == Spec => []PlainShowsGranted
<1>1. IInv => PlainShowsGranted
  <2> DEFINE P == Plain(ever, versions)
  <2> SUFFICES ASSUME IInv, NEW S \in SUBSET Call, Closed(FALSE, S, ever, versions)
               PROVE  shown \cap P \subseteq S
    BY DEF PlainShowsGranted, Granted
  <2> DEFINE U == S \cup (Call \ P)
  <2>1. ASSUME NEW c \in Call \ U, ExpandDerives(FALSE, c, U, ever, versions) PROVE FALSE
    <3>1. c \in P /\ c \in Call \ S
      OBVIOUS
    <3> SUFFICES Derives(FALSE, c, S, ever, versions)
      BY <3>1 DEF Closed
    <3>2. /\ ReadsPlainly(c, ever)
          /\ LeadsTo(c, Expands(c, ever), versions) \subseteq P
      BY <3>1, SelfContainedLeads DEF Plain
    <3>3. U \cap P \subseteq S
      OBVIOUS
    <3> HIDE DEF P, U
    <3>4. ASSUME NEW o, NEW r, [object |-> o, relation |-> r] \in Expands(c, ever),
                 Holds(FALSE, U, versions, o, r)
          PROVE  Holds(FALSE, S, versions, o, r)
      BY ONLY <3>2, <3>3, <3>4, HoldsWithin, Zenon
    <3>5. Parts(c) \subseteq P
      BY <3>2 DEF LeadsTo
    <3>6. CASE KindOf(c) \in Nested
      BY <2>1, <3>2, <3>3, <3>5, <3>6 DEF ExpandDerives, Derives, ReadsPlainly, Nested
    <3>7. CASE KindOf(c) = "computed"
      BY <2>1, <3>4, <3>7, ExpandsOf DEF ExpandDerives, Derives, Nested
    <3>8. CASE KindOf(c) \in {"this", "ttu"}
      <4>1. /\ ReadRelation(c) = ListedRelation(c)
            /\ \A s \in SubjectSets(ever, c) : CheckedRelation(c, s) = ExpandedRelation(c, s)
            /\ KindOf(c) = "ttu" => User \notin SubjectsOf(ever, c.object, ReadRelation(c))
        BY <3>2, <3>8 DEF ReadsPlainly, ReadsAlike
      <4>2. SubjectSets(ever, c) = Listed(ever, c) \ {User}
        BY <4>1 DEF SubjectSets, Listed
      <4>3. User \in Listed(ever, c) => KindOf(c) = "this" /\ HasRow(ever, c)
        BY <3>8, <4>1 DEF HasRow, Listed, ReadRelation
      <4>4. \/ User \in Listed(ever, c)
            \/ \E s \in Listed(ever, c) \ {User} :
                  Holds(FALSE, S, versions, s.object, ExpandedRelation(c, s))
        BY <2>1, <3>4, <3>8, ExpandsOf DEF ExpandDerives, Nested
      <4> QED
        BY <3>8, <4>1, <4>2, <4>3, <4>4 DEF Derives
    <3> QED
      BY <2>1, <3>6, <3>7, <3>8 DEF ExpandDerives
  <2>2. shown \subseteq U
    BY <2>1 DEF IInv, ShowsFollow
  <2> QED
    BY <2>2
<1> QED
  BY <1>1, Inductive, PTL

-----------------------------------------------------------------------------
(***************************************************************************)
(* The safety half of ExpandReturns: calls that all wait wait in a circle. *)
(***************************************************************************)
Returns(o, r) == Shows(o, r) \/ Hides(o, r)

\* the guards of Continue, for a call that has not returned
CanContinue(c) ==
    \/ KindOf(c) \in Nested /\ Parts(c) \subseteq shown \cup hidden
    \/ KindOf(c) = "computed" /\ Returns(c.object, Computed[c.rule])
    \/ KindOf(c) \in {"this", "ttu"} /\ \A l \in lists : l.call # c
    \/ \E l \in lists :
        /\ l.call = c
        /\ \A s \in l.subjects \ {User} : Returns(s.object, ExpandedRelation(c, s))

StuckInCircles ==
    (\A c \in Call \ (shown \cup hidden) : ~CanContinue(c)) => ReturnedOrCircular

\* A call that has not returned, and all of whose calls have, can go on.
LEMMA WaitsForCalls ==
  ASSUME IInv, \A o \in Object : versions \cap VersionsOf[o] # {},
         NEW c \in Call \ (shown \cup hidden), ~CanContinue(c)
  PROVE  LeadsTo(c, Expands(c, ever), versions) \cap (Call \ (shown \cup hidden)) # {}
<1> DEFINE Leads == LeadsTo(c, Expands(c, ever), versions)
<1> SUFFICES ASSUME Leads \cap Call \subseteq shown \cup hidden PROVE FALSE
  OBVIOUS
<1>1. Parts(c) \subseteq shown \cup hidden
  BY PartsAreCalls DEF LeadsTo
<1>2. ASSUME NEW s \in Expands(c, ever), s.object \in Object,
             s.relation \in Relation \cup {Ellipsis}
      PROVE  Returns(s.object, s.relation)
  <2>1. PICK k : k \in Rewrites(versions, s.object, s.relation)
    BY <1>2, SomeRewrite
  <2>2. CASE k = NoRewrite
    BY <2>1, <2>2 DEF Returns, Hides
  <2>3. CASE k # NoRewrite
    <3>1. CallOf(k, s.object) \in Leads
      BY <2>1, <2>3, LeadsToRewrites
    <3>2. CallOf(k, s.object) \in Call
      BY <1>2, <2>1, <2>3, RewritesAreCalls
    <3>3. CallOf(k, s.object) \in shown \cup hidden
      BY <3>1, <3>2
    <3> QED
      BY <2>1, <2>3, <3>3 DEF Returns, Shows, Hides
  <2> QED
    BY <2>2, <2>3
<1> HIDE DEF Leads
<1>3. c \in Call /\ c.object \in Object /\ c.rule \in Rule
  BY DEF Call
<1>4. CASE KindOf(c) \in Nested
  BY <1>1, <1>4 DEF CanContinue
<1>5. CASE KindOf(c) = "computed"
  <2> DEFINE s == [object |-> c.object, relation |-> Computed[c.rule]]
  <2>1. s \in Expands(c, ever)
    BY <1>5 DEF Expands
  <2>2. s.object \in Object /\ s.relation \in Relation
    BY <1>3, RulesAssumption
  <2>3. Returns(s.object, s.relation)
    BY <1>2, <2>1, <2>2
  <2> QED
    BY <1>5, <2>3 DEF CanContinue
<1>6. CASE KindOf(c) \in {"this", "ttu"}
  <2>1. PICK l \in lists : l.call = c
    BY <1>6 DEF CanContinue
  <2>2. l.subjects \subseteq Listed(ever, c)
    BY <2>1 DEF IInv, ReadsInWindow
  <2>3. ASSUME NEW s \in l.subjects \ {User}
        PROVE  Returns(s.object, ExpandedRelation(c, s))
    <3> DEFINE d == [object |-> s.object, relation |-> ExpandedRelation(c, s)]
    <3>1. d \in Expands(c, ever)
      BY <1>6, <2>2, ExpandsOf
    <3>2. s \in SubjectSet
      BY <2>2, SubjectsType DEF Listed, IInv, TypeOK, TablesOK
    <3>3. d.object \in Object /\ d.relation \in Relation \cup {Ellipsis}
      BY <1>3, <3>2, RulesAssumption DEF SubjectSet, ExpandedRelation
    <3>4. Returns(d.object, d.relation)
      BY <1>2, <3>1, <3>3
    <3> QED
      BY <3>4
  <2> QED
    BY <2>1, <2>3 DEF CanContinue
<1> QED
  BY <1>3, <1>4, <1>5, <1>6, RulesAssumption DEF KindOf

\* If no call of an Expand can go on, all have returned, or those that have not lead
\* in a circle: expand and expandWithRewrite wait for nothing else.
THEOREM AlwaysStuckInCircles == Spec => []StuckInCircles
<1>1. IInv => StuckInCircles
  <2> DEFINE C == Call \ (shown \cup hidden)
             leads == [c \in Call |-> LeadsTo(c, Expands(c, ever), versions)]
  <2> SUFFICES ASSUME IInv, \A c \in C : ~CanContinue(c), C # {},
                      \A o \in Object : versions \cap VersionsOf[o] # {}
               PROVE  Circular(leads)
    BY DEF StuckInCircles, ReturnedOrCircular
  <2>1. \A c \in C : leads[c] \cap C # {}
    BY WaitsForCalls
  <2> HIDE DEF leads
  <2> QED
    BY <2>1, CircularIf
<1> QED
  BY <1>1, Inductive, PTL
=============================================================================
