----------------------------- MODULE RewriteTree -----------------------------
(***************************************************************************)
(* The rewrite rule of a relation as a tree of unions and intersections,   *)
(* and its value in three-valued logic: a leaf that fails or never answers *)
(* is unknown.                                                             *)
(***************************************************************************)
CONSTANTS
    Node,     \* the nodes of the rewrite
    Root,     \* the rewrite of the relation that is checked
    Parent,   \* Parent[n]: the node n is a child of, for n # Root
    Leaf,     \* the nodes checkLeaf evaluates
    Union     \* the inner nodes that are unions; the others are intersections

Inner == Node \ Leaf

ASSUME TreeAssumption ==
    /\ Root \in Inner
    /\ Leaf \subseteq Node
    /\ Union \subseteq Inner
    /\ Parent \in [Node \ {Root} -> Inner]

Children(n) == {c \in Node \ {Root} : Parent[c] = n}

Outcome == {"allow", "deny"}
Answer == Outcome \cup {"error", "never"}

\* the outcome of a node none of whose children decided otherwise
Default(n) == IF n \in Union THEN "deny" ELSE "allow"

\* the outcome that decides n whatever its other children say
Deciding(n) == IF n \in Union THEN "allow" ELSE "deny"

Value == Outcome \cup {"unknown"}

\* val satisfies the equations of the tree, given the answers of its leaves
Valuation(answer, val) ==
    /\ \A l \in Leaf :
        val[l] = IF answer[l] \in Outcome THEN answer[l] ELSE "unknown"
    /\ \A n \in Inner :
        val[n] = IF \E c \in Children(n) : val[c] = Deciding(n) THEN Deciding(n)
                 ELSE IF \A c \in Children(n) : val[c] = Default(n) THEN Default(n)
                 ELSE "unknown"
=============================================================================
