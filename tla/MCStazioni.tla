------------------------------ MODULE MCStazioni ------------------------------
(* Stazioni for TLC: processes of a kind are interchangeable. *)
EXTENDS Stazioni, TLC

Symmetry == Permutations(Operators) \cup Permutations(Users)
=============================================================================
