-------------------------- MODULE MCRelationTuples --------------------------
(***************************************************************************)
(* Instances of RelationTuples for TLC.                                    *)
(***************************************************************************)
EXTENDS RelationTuples, TLC

CONSTANTS doc, group, o, member, user

Plain == [namespace |-> doc, object |-> o, relation |-> member, subject |-> user]

\* refers to a relation of another namespace
Foreign == [Plain EXCEPT !.subject =
    [namespace |-> group, object |-> o, relation |-> member]]

\* refers to its own relation twice
Nested == [Plain EXCEPT !.subject =
    [namespace |-> doc, object |-> o, relation |-> member]]

\* refers to an object of another namespace, whatever the relation
Dots == [Plain EXCEPT !.subject =
    [namespace |-> group, object |-> o, relation |-> Ellipsis]]

\* the lookup row of one is deleted with it, the two rows of the other stay
MCTuple == {Plain, Foreign}
MCTupleAll == {Plain, Foreign, Nested, Dots}
Symmetry == Permutations(Client)
=============================================================================
