------------------------------ MODULE MCCiGate ------------------------------
(* CiGate on a head with two interchangeable check runs. *)
EXTENDS CiGate, TLC

Symmetry == Permutations(Checks)
=============================================================================
