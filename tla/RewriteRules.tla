---------------------------- MODULE RewriteRules ----------------------------
(***************************************************************************)
(* What Check and Expand read: the relation tuples, and the rewrites of    *)
(* the namespace configs.  CheckUnderWrites and ExpandUnderWrites extend   *)
(* this module with the steps of a request, between which the tuples and   *)
(* configs of this module are written.                                     *)
(*                                                                         *)
(* A rule is a rewrite, or a child of one, on any level.  The evaluation   *)
(* of a rule for an object is a call, told by these two arguments.         *)
(***************************************************************************)
EXTENDS Naturals, Sequences

CONSTANTS
    Object, Relation,
    User,          \* the user that the request, or the reader of a tree, asks about
    Ellipsis,      \* the relation "..." of a subject set
    Rule,
    Kind,          \* Kind[k]: union, intersection, this, computed or ttu
    Children,      \* Children[k]: the children of a union or an intersection
    RelationOf,    \* RelationOf[k]: the relation that k is part of the rewrite of
    Tupleset,      \* Tupleset[k]: the relation of the tupleset of a ttu
    Computed,      \* Computed[k]: the relation of a computed subject set or of a ttu
    Version,       \* the configs that are submitted, of all namespaces
    VersionsOf,    \* VersionsOf[o]: those of o's namespace
    RulesOf,       \* RulesOf[o]: their rules
    Rewrite,       \* Rewrite[v][r]: the rewrite of r in v, or NoRewrite for a
    NoRewrite,     \*   relation that v does not define
    Tuple          \* the tuples that are written: object, relation and subject

SubjectSet == [object : Object, relation : Relation \cup {Ellipsis}]
Nested == {"union", "intersection"}
ChildrenOf(k) == {Children[k][i] : i \in 1..Len(Children[k])}

\* (a rewrite is a union or an intersection, and only these have children)
ASSUME RulesAssumption ==
    /\ Kind \in [Rule -> Nested \cup {"this", "computed", "ttu"}]
    /\ Children \in [Rule -> Seq(Rule)]
    /\ \A k \in Rule : Kind[k] \notin Nested => Children[k] = <<>>
    /\ RelationOf \in [Rule -> Relation]
    /\ Tupleset \in [Rule -> Relation \cup {Ellipsis}]
    /\ Computed \in [Rule -> Relation]
    /\ VersionsOf \in [Object -> SUBSET Version]
    /\ RulesOf \in [Object -> SUBSET Rule]
    /\ \A o \in Object : \A k \in RulesOf[o] : ChildrenOf(k) \subseteq RulesOf[o]
    /\ Rewrite \in [Version -> [Relation \cup {Ellipsis} -> Rule \cup {NoRewrite}]]
    /\ \A o \in Object : \A v \in VersionsOf[o] : \A r \in Relation \cup {Ellipsis} :
        Rewrite[v][r] \in RulesOf[o] \cup {NoRewrite}
    /\ \A v \in Version : \A r \in Relation \cup {Ellipsis} :
        Rewrite[v][r] # NoRewrite => Kind[Rewrite[v][r]] \in Nested
    /\ NoRewrite \notin Rule
    /\ User \notin SubjectSet
    /\ Tuple \subseteq [object : Object, relation : Relation,
                        subject : SubjectSet \cup {User}]

VARIABLES
    tuples,     \* what is stored
    ever,       \* history: what was stored at some moment of the request
    always,     \* history: what was stored at every moment of the request
    versions    \* the configs that were accepted so far: nodes select any of them

tables == <<tuples, ever, always, versions>>

TablesOK ==
    /\ tuples \subseteq Tuple /\ ever \subseteq Tuple /\ always \subseteq Tuple
    /\ versions \subseteq Version

Call == {c \in [rule : Rule, object : Object] : c.rule \in RulesOf[c.object]}
KindOf(c) == Kind[c.rule]
CallOf(k, o) == [rule |-> k, object |-> o]

\* the calls for the children of a rule
Parts(c) == {CallOf(k, c.object) : k \in ChildrenOf(c.rule)}

\* rewriteFromNamespaceConfig, for the version of V that chooseNamespaceConfigSnapshot
\* selects.  Every call of expand, and of check on another node, may select another;
\* that a check keeps to one on its own node (DistributedCheck) is among the choices.
Rewrites(V, o, r) == {Rewrite[v][r] : v \in V \cap VersionsOf[o]}

-----------------------------------------------------------------------------
(***************************************************************************)
(* The queries, on the tuples T.                                           *)
(***************************************************************************)

\* the relation whose tuples a leaf reads
ReadRelation(c) == IF KindOf(c) = "ttu" THEN Tupleset[c.rule] ELSE RelationOf[c.rule]

\* the subjects of an object's relation, as far as they are sets or the user
SubjectsOf(T, o, r) == {t.subject : t \in {t \in T : t.object = o /\ t.relation = r}}

\* RowCount is not 0
HasRow(T, c) == User \in SubjectsOf(T, c.object, RelationOf[c.rule])

SubjectSets(T, c) == SubjectsOf(T, c.object, ReadRelation(c)) \ {User}

\* which relation of a subject set checkLeaf checks
CheckedRelation(c, s) ==
    IF KindOf(c) = "ttu" /\ s.relation = Ellipsis THEN Computed[c.rule] ELSE s.relation

-----------------------------------------------------------------------------
(***************************************************************************)
(* validateRewriteRelations.  It returns with its first nested rewrite, so *)
(* it calls itself for one rewrite after the other; the set of those       *)
(* stands for the calls.                                                   *)
(***************************************************************************)
Defined(v) == {r \in Relation \cup {Ellipsis} : Rewrite[v][r] # NoRewrite}

\* the children that the loop gets to: up to the first nested rewrite
Visited(k) ==
    {i \in 1..Len(Children[k]) : \A j \in 1..i - 1 : Kind[Children[k][j]] \notin Nested}

\* Mutant: the relation of a computed subject set is not looked up
ValidTuplesetsOnly(v, k) == Kind[k] = "ttu" => Tupleset[k] \in Defined(v)

\* a child that is no rewrite mentions a defined relation, or none
Valid(v, k) ==
    /\ Kind[k] = "computed" => Computed[k] \in Defined(v)
    /\ Kind[k] = "ttu" => Tupleset[k] \in Defined(v)

ValidateRewriteRelations(v, k) ==
    \E R \in SUBSET Rule :
        /\ k \in R
        /\ \A n \in R : \A i \in Visited(n) :
            LET child == Children[n][i] IN
                IF Kind[child] \in Nested THEN child \in R ELSE Valid(v, child)

\* what WriteConfig accepts
Accepted ==
    {v \in Version : \A r \in Defined(v) : ValidateRewriteRelations(v, Rewrite[v][r])}

-----------------------------------------------------------------------------
TablesInit ==
    /\ tuples \in SUBSET Tuple
    /\ ever = tuples
    /\ always = tuples
    /\ versions \in SUBSET Accepted

\* a transaction of WriteRelationTuplesTxn commits: inserts, then deletes
TransactRelationTuples(inserts, deletes) ==
    /\ tuples' = (tuples \cup inserts) \ deletes
    /\ ever' = ever \cup tuples'
    /\ always' = always \cap tuples'
    /\ UNCHANGED versions

\* WriteConfig adds a config that passes validation.  (Which relations it may drop is
\* in RelationTuples.)
WriteConfig(v) ==
    /\ v \in Accepted
    /\ versions' = versions \cup {v}
    /\ UNCHANGED <<tuples, ever, always>>

\* (to insert what is stored, or to insert and delete at once, comes to one of these)
Writes ==
    \/ \E inserts \in SUBSET (Tuple \ tuples), deletes \in SUBSET tuples :
        TransactRelationTuples(inserts, deletes)
    \/ \E v \in Version : WriteConfig(v)

-----------------------------------------------------------------------------
(***************************************************************************)
(* The reference: the user has what is in every set of calls that is       *)
(* closed under the rules.  Where configs of a namespace differ, a         *)
(* relation is had by some of them, or by every one.                       *)
(***************************************************************************)
Holds(every, S, V, o, r) ==
    IF every THEN \A k \in Rewrites(V, o, r) : k # NoRewrite /\ CallOf(k, o) \in S
             ELSE \E k \in Rewrites(V, o, r) : k # NoRewrite /\ CallOf(k, o) \in S

\* what the rules give in one step from the calls S
Derives(every, c, S, T, V) ==
    \/ KindOf(c) = "union" /\ \E d \in Parts(c) : d \in S
    \/ KindOf(c) = "intersection" /\ \A d \in Parts(c) : d \in S
    \/ KindOf(c) = "computed" /\ Holds(every, S, V, c.object, Computed[c.rule])
    \/ KindOf(c) = "this" /\ HasRow(T, c)
    \/ /\ KindOf(c) \in {"this", "ttu"}
       /\ \E s \in SubjectSets(T, c) : Holds(every, S, V, s.object, CheckedRelation(c, s))

Closed(every, S, T, V) == \A c \in Call \ S : ~Derives(every, c, S, T, V)

\* the user has all of C
Granted(every, C, T, V) == \A S \in SUBSET Call : C \subseteq S \/ ~Closed(every, S, T, V)

\* the calls that a call leads to, where Sets is the subject sets it goes on to
LeadsTo(c, Sets, V) ==
    LET heads(s) == {CallOf(k, s.object) : k \in Rewrites(V, s.object, s.relation) \ {NoRewrite}}
    IN  Parts(c) \cup UNION {heads(s) : s \in Sets}

\* there are calls each of which leads to one of them
Circular(leads) == \E C \in (SUBSET Call) \ {{}} : \A c \in C : leads[c] \cap C # {}

-----------------------------------------------------------------------------
\* Below[v]: the rules of a config, on all levels
Below ==
    [v \in Version |->
        {k \in Rule : \A R \in SUBSET Rule :
            \/ k \in R
            \/ \E r \in Defined(v) : Rewrite[v][r] \notin R
            \/ \E n \in R : ~(ChildrenOf(n) \subseteq R)}]

\* the relations of its own namespace that a child mentions
Mentioned(k) ==
    CASE Kind[k] = "computed" -> {Computed[k]}
      [] Kind[k] = "ttu" -> {Tupleset[k]}
      [] OTHER -> {}

NestedLast(k) ==
    \A i \in 1..Len(Children[k]) : Kind[Children[k][i]] \in Nested => i = Len(Children[k])

\* A config whose nested rewrites are each the last child is accepted only if the
\* relations that its rewrites mention, on whatever level, are its own.  (The
\* validation returns with the first nested rewrite.)
NestedLastClosed ==
    \A v \in versions :
        (\A k \in Below[v] : NestedLast(k))
            => \A k \in Below[v] : Mentioned(k) \subseteq Defined(v)
=============================================================================
