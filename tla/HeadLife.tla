------------------------------- MODULE HeadLife -------------------------------
(***************************************************************************)
(* What the author of a pull request may expect of one of its heads,       *)
(* whatever happens to the deliveries, the tasks, the backfill and the     *)
(* process: a review of it is due until it has a run or is lost in a       *)
(* failure, a lost one becomes due again, and one that has its run gets    *)
(* no other unless a comment replaced the first.                           *)
(***************************************************************************)
VARIABLE standing

HInit == standing \in {"unknown", "missed"}

\* GitHub has an event of it under way, or lists it.
ComesUp == standing \in {"unknown", "missed"} /\ standing' = "due"

\* A delivery failed, or a stop lost what was under way.
IsLost == standing = "due" /\ standing' = "missed"

IsRequested == standing \in {"due", "replaced"} /\ standing' = "run"

\* A comment deletes the run.
IsReplaced == standing = "run" /\ standing' = "replaced"

HNext == ComesUp \/ IsLost \/ IsRequested \/ IsReplaced

HSpec == HInit /\ [][HNext]_standing
=============================================================================
