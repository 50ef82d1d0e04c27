--------------------------- MODULE MCCheckRewrite ---------------------------
(***************************************************************************)
(* Instances of CheckRewrite for TLC: a tree with both kinds of node.      *)
(***************************************************************************)
EXTENDS CheckRewrite

CONSTANTS root, inner, leaf1, leaf2, leaf3

MCNode == {root, inner, leaf1, leaf2, leaf3}
MCLeaf == {leaf1, leaf2, leaf3}

\* root has the children inner and leaf3, inner has leaf1 and leaf2
MCParent == [n \in MCNode \ {root} |-> IF n \in {leaf1, leaf2} THEN inner ELSE root]
=============================================================================
