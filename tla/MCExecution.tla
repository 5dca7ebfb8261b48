---------------------------- MODULE MCExecution ----------------------------
(* Two runs, and repositories of which one fits on the disk. *)
EXTENDS Execution, TLC

OneClone == {S \in SUBSET Repos : Cardinality(S) <= 1}

Symmetry ==
    Permutations(Workers) \cup Permutations(Repos)
        \cup Permutations(Heads) \cup Permutations(Runs)
=============================================================================
