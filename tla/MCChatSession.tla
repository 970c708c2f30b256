--------------------------- MODULE MCChatSession ---------------------------
(* ChatSession for TLC: the other people are interchangeable. *)
EXTENDS ChatSession

Symmetry == Permutations(Nick)
=============================================================================
