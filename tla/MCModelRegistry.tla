--------------------------- MODULE MCModelRegistry ---------------------------
(* Instances of ModelRegistry for TLC. *)
EXTENDS ModelRegistry, TLC

Symmetry == Permutations(Clients) \cup Permutations(Models)
=============================================================================
