----------------------------- MODULE MCProgram -----------------------------
(* Program with interchangeable addresses. *)
EXTENDS Program, TLC

Symmetry == Permutations(Blocks)
=============================================================================
