------------------------------- MODULE MCIntake -------------------------------
(* Intake of pull requests of one repository. *)
EXTENDS Intake

OneRepo == [p \in PRs |-> "ra"]
=============================================================================
