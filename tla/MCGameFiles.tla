---------------------------- MODULE MCGameFiles -----------------------------
(* GameFiles for TLC: preparations are interchangeable. *)
EXTENDS GameFiles, TLC

Symmetry == Permutations(Task)
=============================================================================
