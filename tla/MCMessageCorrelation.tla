------------------------ MODULE MCMessageCorrelation ------------------------
(* Instances of MessageCorrelation for TLC.                                *)
EXTENDS MessageCorrelation, TLC

Symmetry == Permutations(Catchers) \cup Permutations(Messages)
=============================================================================
