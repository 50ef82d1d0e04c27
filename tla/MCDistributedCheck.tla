------------------------- MODULE MCDistributedCheck -------------------------
(***************************************************************************)
(* Instances of DistributedCheck for TLC: an evaluation of doc may have to *)
(* check group, which the first version of the config does not define.     *)
(* Of two nodes n2 owns doc and n1 owns group.  Of three nodes n1 owns     *)
(* doc, and n2 does in a ring that lacks n3.                               *)
(***************************************************************************)
EXTENDS DistributedCheck

CONSTANTS n1, n2, n3, doc, group

MCObject == {doc, group}
MCNested == [o \in Object |-> IF o = doc THEN {group} \cap Object ELSE {}]
MCUndefined == [v \in 1..MaxVersion |-> IF v = 1 THEN {group} \cap Object ELSE {}]

\* who comes first for an object: the owner is the first that the ring has (of an
\* empty ring, which no node that is up has, the value does not matter)
Preference(o, S) ==
    IF o = doc /\ S # {n1, n2, n3} THEN <<n2, n1, n3>> ELSE <<n1, n2, n3>>
OwnerIn(o, S) ==
    LET candidates == {i \in 1..3 : Preference(o, S)[i] \in S}
    IN  IF S = {} THEN n1
        ELSE Preference(o, S)[CHOOSE i \in candidates : \A j \in candidates : i <= j]
MCLocateKey == [o \in Object |-> [S \in SUBSET Node |-> OwnerIn(o, S)]]
=============================================================================
