------------------------- MODULE ExpandUnderWrites -------------------------
(***************************************************************************)
(* What the tree of an Expand says while tuples and configs are written.   *)
(*                                                                         *)
(* Expand traverses subject sets one after the other, with a query for     *)
(* every leaf of every rewrite, in no transaction.  Every call of expand   *)
(* selects a config anew: the timestamp that it puts into the context is   *)
(* not read.                                                               *)
(*                                                                         *)
(* Of a tree only this is kept: whether one of its leaves is the user.     *)
(* What the leaves of all users are is what they are for each user.  The   *)
(* state is, as in CheckUnderWrites, what calls have returned so far; a    *)
(* call that fails returns no tree.                                        *)
(***************************************************************************)
EXTENDS RewriteRules

VARIABLES
    lists,      \* the subjects that calls have listed
    shown,      \* the calls that returned a tree with a leaf for the user
    hidden,     \* the calls that returned a tree without
    cut         \* history: the rows of some result ended early

vars == <<tables, lists, shown, hidden, cut>>

List == [call : Call, subjects : SUBSET (SubjectSet \cup {User})]

TypeOK ==
    /\ TablesOK
    /\ lists \subseteq List
    /\ shown \subseteq Call /\ hidden \subseteq Call
    /\ cut \in BOOLEAN

\* expand of an object's relation with one of the configs: a nil tree, which is
\* left out, for an undefined relation
Shows(o, r) == \E k \in Rewrites(versions, o, r) : k # NoRewrite /\ CallOf(k, o) \in shown
Hides(o, r) == \E k \in Rewrites(versions, o, r) : k = NoRewrite \/ CallOf(k, o) \in hidden

\* the relation of a tupleset, and of a subject set: "..." is the one at hand
ListedRelation(c) == IF ReadRelation(c) = Ellipsis THEN RelationOf[c.rule] ELSE ReadRelation(c)
ExpandedRelation(c, s) == IF s.relation = Ellipsis THEN RelationOf[c.rule] ELSE s.relation

-----------------------------------------------------------------------------
Init ==
    /\ TablesInit
    /\ lists = {}
    /\ shown = {}
    /\ hidden = {}
    /\ cut = FALSE

\* what a call returns is added to what calls have returned, if it is new
Show(c) == c \notin shown /\ shown' = shown \cup {c} /\ UNCHANGED <<tables, lists, hidden, cut>>
Hide(c) == c \notin hidden /\ hidden' = hidden \cup {c} /\ UNCHANGED <<tables, lists, shown, cut>>

\* expandWithRewrite: the children of a union and of an intersection are put into
\* one list, one after the other
ExpandWithRewrite(c) ==
    /\ KindOf(c) \in Nested
    /\ Parts(c) \subseteq shown \cup hidden
    /\ \/ Parts(c) \cap shown # {} /\ Show(c)
       \/ Parts(c) \subseteq hidden /\ Hide(c)

\* Mutant: the relation at hand is expanded in place of the computed one
ExpandComputedOwn(c) ==
    /\ KindOf(c) = "computed"
    /\ \/ Shows(c.object, RelationOf[c.rule]) /\ Show(c)
       \/ Hides(c.object, RelationOf[c.rule]) /\ Hide(c)

ExpandComputed(c) ==
    /\ KindOf(c) = "computed"
    /\ \/ Shows(c.object, Computed[c.rule]) /\ Show(c)
       \/ Hides(c.object, Computed[c.rule]) /\ Hide(c)

\* Mutant: the tuples of all relations are listed
ListRelationTuplesAny(c) == {t.subject : t \in {t \in tuples : t.object = c.object}}

\* the subjects of an object's relation
ListRelationTuples(c) == SubjectsOf(tuples, c.object, ListedRelation(c))

\* the query of "this" and ttu.  A result that breaks off is taken for a whole one.
ReadSubjects(c) ==
    /\ KindOf(c) \in {"this", "ttu"}
    /\ \E subjects \in SUBSET ListRelationTuples(c) :
        /\ lists' = lists \cup {[call |-> c, subjects |-> subjects]}
        /\ cut' = (cut \/ subjects # ListRelationTuples(c))
    /\ UNCHANGED <<tables, shown, hidden>>

\* Mutant: the tree of a subject set replaces those before it
ExpandSubjectsLast(l) ==
    LET Sets == l.subjects \ {User} IN
        /\ \A s \in Sets : \/ Shows(s.object, ExpandedRelation(l.call, s))
                           \/ Hides(s.object, ExpandedRelation(l.call, s))
        /\ \/ User \in l.subjects /\ Show(l.call)
           \/ l.subjects = {} /\ Hide(l.call)
           \/ \E s \in Sets : \/ Shows(s.object, ExpandedRelation(l.call, s)) /\ Show(l.call)
                              \/ Hides(s.object, ExpandedRelation(l.call, s)) /\ Hide(l.call)

\* a user is a leaf, a subject set is expanded
ExpandSubjects(l) ==
    LET Sets == l.subjects \ {User} IN
        /\ \A s \in Sets : \/ Shows(s.object, ExpandedRelation(l.call, s))
                           \/ Hides(s.object, ExpandedRelation(l.call, s))
        /\ \/ /\ \/ User \in l.subjects
                 \/ \E s \in Sets : Shows(s.object, ExpandedRelation(l.call, s))
              /\ Show(l.call)
           \/ /\ User \notin l.subjects
              /\ \A s \in Sets : Hides(s.object, ExpandedRelation(l.call, s))
              /\ Hide(l.call)

Traverse(c) ==
    \/ ExpandWithRewrite(c) \/ ExpandComputed(c) \/ ReadSubjects(c)
    \/ \E l \in lists : l.call = c /\ ExpandSubjects(l)

Next ==
    \/ Writes /\ UNCHANGED <<lists, shown, hidden, cut>>
    \/ \E c \in Call : Traverse(c)

Spec == Init /\ [][Next]_vars

\* queries are answered until the call returns; that it lists its subjects a second
\* time is not needed
Continue(c) ==
    /\ c \notin shown \cup hidden
    /\ Traverse(c)
    /\ (\E l \in lists : l.call = c) => UNCHANGED lists

FairSpec == Spec /\ \A c \in Call : WF_vars(Continue(c))

-----------------------------------------------------------------------------
\* the subject sets that a call goes on to expand, on the tuples T
Expands(c, T) ==
    CASE KindOf(c) = "computed" -> {[object |-> c.object, relation |-> Computed[c.rule]]}
      [] KindOf(c) \in {"this", "ttu"} ->
            {[object |-> s.object, relation |-> ExpandedRelation(c, s)] :
                s \in SubjectsOf(T, c.object, ListedRelation(c)) \ {User}}
      [] OTHER -> {}

\* Check and Expand read the tuples of a call alike: "...", in a tupleset or in a
\* subject set, is one relation to both, and an intersection is not empty
ReadsAlike(c, T) ==
    /\ KindOf(c) = "intersection" => Parts(c) # {}
    /\ KindOf(c) \in {"this", "ttu"} =>
        /\ ReadRelation(c) = ListedRelation(c)
        /\ \A s \in SubjectSets(T, c) : CheckedRelation(c, s) = ExpandedRelation(c, s)

\* and the tree of a call stands for its leaves: it is a union, and has the user
\* only where Check asks for the user
ReadsPlainly(c, T) ==
    /\ ReadsAlike(c, T)
    /\ KindOf(c) # "intersection"
    /\ KindOf(c) = "ttu" => User \notin SubjectsOf(T, c.object, ReadRelation(c))

\* those of the calls C that only lead to calls of C, and these too, and so on
SelfContained(C, T, V) ==
    LET leads == [c \in C |-> LeadsTo(c, Expands(c, T), V)] IN
        UNION {D \in SUBSET C : \A c \in D : leads[c] \subseteq D}

Alike(T, V) == SelfContained({c \in Call : ReadsAlike(c, T)}, T, V)
Plain(T, V) == SelfContained({c \in Call : ReadsPlainly(c, T)}, T, V)

\* A tree leaves nobody out, though tuples and configs were written during the
\* traversal: a user who is granted a relation, by an intersection too, by tuples
\* that stood all through it and under every config, is among the leaves, unless a
\* result broke off or a "..." was met that Check reads in another way.
ShowsWhoStands ==
    cut \/ \A c \in hidden \cap Alike(always, versions) : ~Granted(TRUE, {c}, always, versions)

\* A tree invents nobody: where there are neither intersections nor users in
\* tuplesets, a leaf is a user who is granted the relation by tuples that were
\* stored during the traversal.  (Of an intersection Expand puts the subjects of all
\* children into one list.)
PlainShowsGranted == Granted(FALSE, shown \cap Plain(ever, versions), ever, versions)

\* all calls have returned, or a namespace has no config and is not expanded, or what
\* was stored at some time of the traversal, and rewrites, lead in a circle
ReturnedOrCircular ==
    \/ Call \subseteq shown \cup hidden
    \/ \E o \in Object : versions \cap VersionsOf[o] = {}
    \/ Circular([c \in Call |-> LeadsTo(c, Expands(c, ever), versions)])

\* Every Expand returns, unless tuples and rewrites lead in a circle: the depth that
\* is passed down, and compared with nothing, is not needed for it.
ExpandReturns == <>[]ReturnedOrCircular
=============================================================================
