--------------------------- MODULE MCOneTimeCodes ---------------------------
(* OneTimeCodes on small sets of workers and rows.                         *)
EXTENDS OneTimeCodes, TLC

Symmetry == Permutations(Workers) \cup Permutations(Ids)
=============================================================================
