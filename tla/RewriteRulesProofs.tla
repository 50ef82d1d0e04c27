------------------------ MODULE RewriteRulesProofs ------------------------
(***************************************************************************)
(* Lemmas about the rules of RewriteRules: how what they give depends on   *)
(* the tuples and on the configs, and what validateRewriteRelations shows  *)
(* of an accepted config.                                                  *)
(***************************************************************************)
EXTENDS RewriteRules, TLAPS

\* The calls for the children of a rule are calls.
LEMMA PartsAreCalls ==
  ASSUME NEW c \in Call
  PROVE  Parts(c) \subseteq Call
BY RulesAssumption DEF Call, Parts, CallOf, ChildrenOf

\* What a query returns are subjects.
LEMMA SubjectsType ==
  ASSUME NEW T \in SUBSET Tuple, NEW o, NEW r
  PROVE  SubjectsOf(T, o, r) \subseteq SubjectSet \cup {User}
BY RulesAssumption DEF SubjectsOf

\* More tuples have more subjects.
LEMMA SubjectsMonotone ==
  ASSUME NEW T, NEW U, T \subseteq U, NEW o, NEW r
  PROVE  SubjectsOf(T, o, r) \subseteq SubjectsOf(U, o, r)
BY DEF SubjectsOf

\* More configs have more rewrites.
LEMMA RewritesMonotone ==
  ASSUME NEW V, NEW W, V \subseteq W, NEW o, NEW r
  PROVE  Rewrites(V, o, r) \subseteq Rewrites(W, o, r)
BY DEF Rewrites

\* What holds under some config holds under some of more.
LEMMA HoldsMonotone ==
  ASSUME NEW V, NEW W, V \subseteq W, NEW R, NEW S, R \subseteq S, NEW o, NEW r,
         Holds(FALSE, R, V, o, r)
  PROVE  Holds(FALSE, S, W, o, r)
BY RewritesMonotone DEF Holds

\* What holds under every config holds under every one of fewer.
LEMMA StandsMonotone ==
  ASSUME NEW V, NEW W, W \subseteq V, NEW R, NEW S, R \subseteq S, NEW o, NEW r,
         Holds(TRUE, R, V, o, r)
  PROVE  Holds(TRUE, S, W, o, r)
BY RewritesMonotone DEF Holds

\* What some config gives from less can be derived from more.
LEMMA DerivesMonotone ==
  ASSUME NEW T, NEW U, T \subseteq U, NEW V, NEW W, V \subseteq W,
         NEW R, NEW S, R \subseteq S, NEW c, Derives(FALSE, c, R, T, V)
  PROVE  Derives(FALSE, c, S, U, W)
<1>1. \A o, r : SubjectsOf(T, o, r) \subseteq SubjectsOf(U, o, r)
  BY SubjectsMonotone
<1>2. \A o, r : Holds(FALSE, R, V, o, r) => Holds(FALSE, S, W, o, r)
  BY HoldsMonotone
<1> QED
  BY <1>1, <1>2 DEF Derives, HasRow, SubjectSets

\* What every config gives from less is given, by fewer configs, from more.
LEMMA StandingMonotone ==
  ASSUME NEW T, NEW U, T \subseteq U, NEW V, NEW W, W \subseteq V,
         NEW R, NEW S, R \subseteq S, NEW c, Derives(TRUE, c, R, T, V)
  PROVE  Derives(TRUE, c, S, U, W)
<1>1. \A o, r : SubjectsOf(T, o, r) \subseteq SubjectsOf(U, o, r)
  BY SubjectsMonotone
<1>2. \A o, r : Holds(TRUE, R, V, o, r) => Holds(TRUE, S, W, o, r)
  BY StandsMonotone
<1> QED
  BY <1>1, <1>2 DEF Derives, HasRow, SubjectSets

\* A set that is closed over more tuples and configs is closed over fewer.
LEMMA ClosedAntitone ==
  ASSUME NEW T, NEW U, T \subseteq U, NEW V, NEW W, V \subseteq W,
         NEW S, Closed(FALSE, S, U, W)
  PROVE  Closed(FALSE, S, T, V)
BY DerivesMonotone DEF Closed

\* While a namespace has one config, some and every come to the same.
LEMMA OneConfig ==
  ASSUME NEW V, \A o \in Object : \E v \in Version : V \cap VersionsOf[o] = {v},
         NEW T \in SUBSET Tuple, NEW S, NEW c \in Call
  PROVE  Derives(FALSE, c, S, T, V) = Derives(TRUE, c, S, T, V)
<1>1. \A o \in Object : \A r : Holds(FALSE, S, V, o, r) = Holds(TRUE, S, V, o, r)
  <2> SUFFICES ASSUME NEW o \in Object, NEW r
               PROVE  Holds(FALSE, S, V, o, r) = Holds(TRUE, S, V, o, r)
    OBVIOUS
  <2>1. PICK v \in Version : V \cap VersionsOf[o] = {v}
    OBVIOUS
  <2>2. Rewrites(V, o, r) = {Rewrite[v][r]}
    BY <2>1 DEF Rewrites
  <2> QED
    BY <2>2 DEF Holds
<1>2. c.object \in Object
  BY DEF Call
<1>3. \A s \in SubjectSets(T, c) : s.object \in Object
  BY SubjectsType DEF SubjectSets, SubjectSet
<1> QED
  BY <1>1, <1>2, <1>3 DEF Derives

\* If a call of C leads into C wherever it leads, C is circular.
LEMMA CircularIf ==
  ASSUME NEW leads, NEW C \in SUBSET Call, C # {}, \A c \in C : leads[c] \cap C # {}
  PROVE  Circular(leads)
BY DEF Circular

\* A relation that a call goes on to is evaluated by calls that it leads to.
LEMMA LeadsToRewrites ==
  ASSUME NEW c, NEW Sets, NEW V, NEW s \in Sets,
         NEW k \in Rewrites(V, s.object, s.relation), k # NoRewrite
  PROVE  CallOf(k, s.object) \in LeadsTo(c, Sets, V)
BY DEF LeadsTo

\* The rewrites of an object's relation are evaluated by calls.
LEMMA RewritesAreCalls ==
  ASSUME NEW V, NEW o \in Object, NEW r \in Relation \cup {Ellipsis},
         NEW k \in Rewrites(V, o, r), k # NoRewrite
  PROVE  CallOf(k, o) \in Call
<1>1. PICK v \in V \cap VersionsOf[o] : k = Rewrite[v][r]
  BY DEF Rewrites
<1>2. k \in RulesOf[o] /\ RulesOf[o] \subseteq Rule
  BY <1>1, RulesAssumption
<1> QED
  BY <1>2 DEF Call, CallOf

\* While every namespace has a config, a relation has a rewrite, or is undefined, in
\* one of them.
LEMMA SomeRewrite ==
  ASSUME NEW V, NEW o \in Object, V \cap VersionsOf[o] # {}, NEW r
  PROVE  Rewrites(V, o, r) # {}
BY DEF Rewrites

-----------------------------------------------------------------------------
\* What validateRewriteRelations shows of a config that it accepts: where it returns
\* early only at the end of a list, it has looked at every child of every rewrite.
LEMMA AcceptedClosed ==
  ASSUME NEW v \in Accepted, \A k \in Below[v] : NestedLast(k)
  PROVE  \A k \in Below[v] : Mentioned(k) \subseteq Defined(v)
<1> DEFINE S == {k \in Below[v] : IF Kind[k] \in Nested THEN ValidateRewriteRelations(v, k)
                                                        ELSE Valid(v, k)}
<1>1. v \in Version /\ \A r \in Defined(v) : ValidateRewriteRelations(v, Rewrite[v][r])
  BY DEF Accepted
<1>2. /\ Below[v] \subseteq Rule
      /\ \A r \in Defined(v) : Rewrite[v][r] \in Below[v]
      /\ \A n \in Below[v] : ChildrenOf(n) \subseteq Below[v]
  <2>1. Below[v] = {k \in Rule : \A R \in SUBSET Rule :
                        \/ k \in R
                        \/ \E r \in Defined(v) : Rewrite[v][r] \notin R
                        \/ \E n \in R : ~(ChildrenOf(n) \subseteq R)}
    BY <1>1 DEF Below
  <2>2. \A r \in Defined(v) : Rewrite[v][r] \in Rule
    BY <1>1, RulesAssumption DEF Defined
  <2>3. \A n \in Rule : ChildrenOf(n) \subseteq Rule
    BY RulesAssumption DEF ChildrenOf
  <2> QED
    BY <2>1, <2>2, <2>3
<1>3. \A r \in Defined(v) : Rewrite[v][r] \in S
  BY <1>1, <1>2, RulesAssumption DEF Defined
<1>4. \A n \in S : ChildrenOf(n) \subseteq S
  <2> SUFFICES ASSUME NEW n \in S, NEW i \in 1..Len(Children[n])
               PROVE  Children[n][i] \in S
    BY DEF ChildrenOf
  <2> DEFINE child == Children[n][i]
  <2>1. n \in Rule /\ Children[n] \in Seq(Rule) /\ child \in Below[v]
    BY <1>2, RulesAssumption DEF ChildrenOf
  <2>2. Kind[n] \in Nested
    BY <2>1, RulesAssumption
  <2>3. PICK R \in SUBSET Rule :
          /\ n \in R
          /\ \A m \in R : \A j \in Visited(m) :
              IF Kind[Children[m][j]] \in Nested THEN Children[m][j] \in R
                                                 ELSE Valid(v, Children[m][j])
    BY <2>2 DEF ValidateRewriteRelations
  <2>4. i \in Visited(n)
    <3>1. \A j \in 1..Len(Children[n]) : Kind[Children[n][j]] \in Nested => j = Len(Children[n])
      BY DEF NestedLast
    <3> QED
      BY <2>1, <3>1 DEF Visited
  <2>5. IF Kind[child] \in Nested THEN child \in R ELSE Valid(v, child)
    BY <2>3, <2>4
  <2>6. child \in R => ValidateRewriteRelations(v, child)
    BY <2>3 DEF ValidateRewriteRelations
  <2> QED
    BY <2>1, <2>5, <2>6
<1>5. Below[v] \subseteq S
  BY <1>1, <1>2, <1>3, <1>4 DEF Below
<1> QED
  BY <1>5 DEF Mentioned, Valid, Nested
=============================================================================
