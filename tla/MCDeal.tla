------------------------------- MODULE MCDeal -------------------------------
(* Small instances of Deal for TLC. *)
EXTENDS Deal, TLC

\* Requests differ in nothing but their names.
Symmetry == Permutations(Requests)
=============================================================================
