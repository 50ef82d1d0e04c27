------------------------- MODULE MCCheckUnderWrites -------------------------
(***************************************************************************)
(* An instance of CheckUnderWrites for TLC: leads may be members, so that  *)
(* checks may go round in a circle.                                        *)
(***************************************************************************)
EXTENDS CheckUnderWrites, MCRewriteRules

MCTuple == {T(lead, Of(Ellipsis)), T(member, Of(lead)), T(member, User)}
=============================================================================
