---------------------------- MODULE MCReviewQueue ----------------------------
(* Small instances of ReviewQueue for TLC. *)
EXTENDS ReviewQueue, TLC

\* Run ids, worker loops, pull requests and heads are interchangeable.
Symmetry ==
    Permutations(RunIds) \cup Permutations(Workers)
        \cup Permutations(PRs) \cup Permutations(Heads)
=============================================================================
