----------------------------- MODULE TupleStore -----------------------------
(***************************************************************************)
(* What the two kinds of write promise, without requests, transactions,    *)
(* snapshots or the reverse lookup: a set of tuples and the versions of    *)
(* every namespace, changed in single steps, where a tuple only uses       *)
(* relations that some version defined and no version drops a relation     *)
(* that a tuple uses.                                                      *)
(***************************************************************************)
CONSTANTS
    Namespace, Relation, Tuple,
    Ellipsis,        \* the relation "...", of every namespace that exists
    References(_)    \* the (namespace, relation) pairs a tuple uses

VARIABLES
    tuples,     \* the stored relation tuples
    current,    \* current[ns]: the relations of the latest version of ns
    versions    \* versions[ns]: the relations of each version of ns

storeVars == <<tuples, current, versions>>

Init ==
    /\ tuples = {}
    /\ current = [ns \in Namespace |-> {}]
    /\ versions = [ns \in Namespace |-> {}]

\* the relation was defined, or, for "...", the namespace exists
Known(ns, r) ==
    /\ versions[ns] # {}
    /\ r # Ellipsis => \E relations \in versions[ns] : r \in relations

WriteTuples(inserts, deletes) ==
    /\ \A t \in inserts : \A ref \in References(t) : Known(ref[1], ref[2])
    /\ tuples' = (tuples \cup inserts) \ deletes
    /\ UNCHANGED <<current, versions>>

WriteVersion(ns, relations) ==
    /\ \A t \in tuples : \A r \in current[ns] \ relations : <<ns, r>> \notin References(t)
    /\ current' = [current EXCEPT ![ns] = relations]
    /\ versions' = [versions EXCEPT ![ns] = @ \cup {relations}]
    /\ UNCHANGED tuples

Next ==
    \/ \E inserts, deletes \in SUBSET Tuple : WriteTuples(inserts, deletes)
    \/ \E ns \in Namespace, relations \in SUBSET Relation : WriteVersion(ns, relations)

Spec == Init /\ [][Next]_storeVars
=============================================================================
