------------------------- MODULE MCConfigSnapshots -------------------------
(***************************************************************************)
(* Instances of ConfigSnapshots for TLC.                                   *)
(***************************************************************************)
EXTENDS ConfigSnapshots, TLC

\* nodes are interchangeable: used only where no temporal property is checked
Symmetry == Permutations(Node)
=============================================================================
