----------------------------- MODULE MCRelease -----------------------------
(* Release on a small pull request. *)
EXTENDS Release, TLC

Symmetry == Permutations(RunIds) \cup Permutations(Approvals)

\* One push, stop, lost response or approval by a mention at a time: each meets every
\* step of two runs and two approvals.
Mentions == {a \in Approvals : release[a].run = NoRun /\ release[a].pc # "unused"}
OneDisturbance ==
    head + crashes + Cardinality({a \in Approvals : lost[a] > 0}) + Cardinality(Mentions) <= 1
=============================================================================
