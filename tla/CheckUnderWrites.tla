-------------------------- MODULE CheckUnderWrites --------------------------
(***************************************************************************)
(* What the answer of a Check means while tuples and configs are written.  *)
(*                                                                         *)
(* A check reads the tuple tables with many queries, in no transaction,    *)
(* while WriteRelationTuplesTxn changes them.  A leaf of type "this" alone *)
(* has two, one for the user and one for the subject sets, and then calls  *)
(* check for each set that it read.  A nested check that is forwarded to   *)
(* another node is evaluated with the config that that node selects.       *)
(*                                                                         *)
(* The state is what the calls that the request has led to have found so   *)
(* far.  A request may evaluate one call several times, with different     *)
(* results: allowed, denied, missed and lists keep them all.  A call of    *)
(* check, checkRewrite or checkLeaf that fails is one that does not return *)
(* an outcome; which error the caller then returns is in CheckRewrite, and *)
(* which node evaluates a call in DistributedCheck.  Every call may be     *)
(* made: those that this request does not lead to are evaluated for        *)
(* nobody, and what is shown of the others does not suffer.                *)
(***************************************************************************)
EXTENDS RewriteRules

VARIABLES
    missed,     \* the "this" calls that found no row of the user
    lists,      \* the subject sets that calls have read
    allowed,    \* the calls that returned true
    denied,     \* the calls that returned false
    cut         \* history: the rows of some result ended early

vars == <<tables, missed, lists, allowed, denied, cut>>

List == [call : Call, sets : SUBSET SubjectSet]

TypeOK ==
    /\ TablesOK
    /\ missed \subseteq Call
    /\ lists \subseteq List
    /\ allowed \subseteq Call /\ denied \subseteq Call
    /\ cut \in BOOLEAN

\* check of an object's relation with one of the configs: false at once for an
\* undefined relation
Allowed(o, r) == \E k \in Rewrites(versions, o, r) : k # NoRewrite /\ CallOf(k, o) \in allowed
Denied(o, r) == \E k \in Rewrites(versions, o, r) : k = NoRewrite \/ CallOf(k, o) \in denied

-----------------------------------------------------------------------------
Init ==
    /\ TablesInit
    /\ missed = {}
    /\ lists = {}
    /\ allowed = {}
    /\ denied = {}
    /\ cut = FALSE

\* what a call returns is added to what calls have returned, if it is new
Allow(c) ==
    /\ c \notin allowed
    /\ allowed' = allowed \cup {c}
    /\ UNCHANGED <<tables, missed, lists, denied, cut>>
Deny(c) ==
    /\ c \notin denied
    /\ denied' = denied \cup {c}
    /\ UNCHANGED <<tables, missed, lists, allowed, cut>>

\* checkRewrite: one child is enough, or all are needed
CheckUnion(c) ==
    /\ KindOf(c) = "union"
    /\ \/ Parts(c) \cap allowed # {} /\ Allow(c)
       \/ Parts(c) \subseteq denied /\ Deny(c)

\* Mutant: the first child decides an intersection either way
CheckIntersectionFirst(c) ==
    /\ KindOf(c) = "intersection"
    /\ \/ Parts(c) \cap allowed # {} /\ Allow(c)
       \/ Parts(c) \cap denied # {} /\ Deny(c)

CheckIntersection(c) ==
    /\ KindOf(c) = "intersection"
    /\ \/ Parts(c) \subseteq allowed /\ Allow(c)
       \/ Parts(c) \cap denied # {} /\ Deny(c)

\* Mutant: the relation at hand is checked in place of the computed one
CheckComputedOwn(c) ==
    /\ KindOf(c) = "computed"
    /\ \/ Allowed(c.object, RelationOf[c.rule]) /\ Allow(c)
       \/ Denied(c.object, RelationOf[c.rule]) /\ Deny(c)

\* checkLeaf of a computed subject set
CheckComputed(c) ==
    /\ KindOf(c) = "computed"
    /\ \/ Allowed(c.object, Computed[c.rule]) /\ Allow(c)
       \/ Denied(c.object, Computed[c.rule]) /\ Deny(c)

\* Mutant: a user without a row of their own is denied
RowCountDecides(c) ==
    /\ KindOf(c) = "this"
    /\ \/ HasRow(tuples, c) /\ Allow(c)
       \/ ~HasRow(tuples, c) /\ Deny(c)

\* checkLeaf of "this", the first query
RowCount(c) ==
    /\ KindOf(c) = "this"
    /\ \/ HasRow(tuples, c) /\ Allow(c)
       \/ /\ ~HasRow(tuples, c)
          /\ missed' = missed \cup {c}
          /\ UNCHANGED <<tables, lists, allowed, denied, cut>>

\* the query for subject sets, by "this" after the first one and by ttu.  A
\* result that breaks off is taken for a whole one.
ReadSubjectSets(c) ==
    /\ KindOf(c) = "ttu" \/ c \in missed
    /\ \E sets \in SUBSET SubjectSets(tuples, c) :
        /\ lists' = lists \cup {[call |-> c, sets |-> sets]}
        /\ cut' = (cut \/ sets # SubjectSets(tuples, c))
    /\ UNCHANGED <<tables, missed, allowed, denied>>

\* the sets of a list are checked in the order of the rows, which is any, up to
\* the first that allows
CheckSubjectSets(l) ==
    \/ /\ \E s \in l.sets : Allowed(s.object, CheckedRelation(l.call, s))
       /\ Allow(l.call)
    \/ /\ \A s \in l.sets : Denied(s.object, CheckedRelation(l.call, s))
       /\ Deny(l.call)

\* the goroutine of a call goes on
Evaluate(c) ==
    \/ CheckUnion(c) \/ CheckIntersection(c) \/ CheckComputed(c)
    \/ RowCount(c) \/ ReadSubjectSets(c)
    \/ \E l \in lists : l.call = c /\ CheckSubjectSets(l)

Next ==
    \/ Writes /\ UNCHANGED <<missed, lists, allowed, denied, cut>>
    \/ \E c \in Call : Evaluate(c)

Spec == Init /\ [][Next]_vars

\* queries are answered and goroutines run until they return; that one reads its
\* subject sets a second time is not needed
Continue(c) ==
    /\ c \notin allowed \cup denied
    /\ Evaluate(c)
    /\ (\E l \in lists : l.call = c) => UNCHANGED lists

FairSpec == Spec /\ \A c \in Call : WF_vars(Continue(c))

-----------------------------------------------------------------------------
\* No order of queries, concurrent evaluations, writes and broken results lets a
\* check allow what was never granted in parts: what a call allows is granted by
\* the tuples that were stored at one moment or another of the check, and rewrites
\* of one config or another.
AllowsWhatWasGranted == Granted(FALSE, allowed, ever, versions)

\* Nor does it deny what stands: what a call denies is not granted by the tuples
\* that were stored all along under every config, unless a result broke off.
DeniesWhatWasNotStanding ==
    cut \/ \A c \in denied : ~Granted(TRUE, {c}, always, versions)

\* When nothing is written meanwhile and a namespace has one config, the answer is
\* that of the tuples, whichever goroutine was first, however the rows were ordered
\* and whatever failed.
QuietCheckIsExact ==
    (/\ ever = always /\ ~cut
     /\ \A o \in Object : \E v \in Version : versions \cap VersionsOf[o] = {v}) =>
        /\ Granted(FALSE, allowed, tuples, versions)
        /\ \A c \in denied : ~Granted(FALSE, {c}, tuples, versions)

\* the subject sets that a call goes on to check, on the tuples T
Checks(c, T) ==
    CASE KindOf(c) = "computed" -> {[object |-> c.object, relation |-> Computed[c.rule]]}
      [] KindOf(c) \in {"this", "ttu"} ->
            {[object |-> s.object, relation |-> CheckedRelation(c, s)] : s \in SubjectSets(T, c)}
      [] OTHER -> {}

\* all calls have returned, or what was stored at some time of the check, and
\* rewrites, lead in a circle, or a namespace has no config and its checks fail
ReturnedOrCircular ==
    \/ Call \subseteq allowed \cup denied
    \/ Circular([c \in Call |-> LeadsTo(c, Checks(c, ever), versions)])
    \/ \E o \in Object : versions \cap VersionsOf[o] = {}

\* Every check returns, unless tuples and rewrites lead in a circle: the recursion of
\* check adds no circle of its own, and no order of writes and of the returns of
\* concurrent children leaves a call without a result.
CheckReturns == <>[]ReturnedOrCircular
=============================================================================
