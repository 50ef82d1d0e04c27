------------------------ MODULE MCExpandUnderWrites ------------------------
(***************************************************************************)
(* An instance of ExpandUnderWrites for TLC: Check and Expand read one     *)
(* subject set of lead alike, while "..." in the other stands for the      *)
(* members to Check and for the leads to Expand, which go in a circle.     *)
(***************************************************************************)
EXTENDS ExpandUnderWrites, MCRewriteRules

MCTuple == {T(lead, Of(member)), T(lead, Of(Ellipsis)), T(member, User)}
=============================================================================
