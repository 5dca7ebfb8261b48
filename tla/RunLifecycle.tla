---------------------------- MODULE RunLifecycle ----------------------------
(***************************************************************************)
(* What is promised about one review run, whatever happens to the queue,   *)
(* the CI watchers, the workers, the executions, the releases and the      *)
(* process.                                                                *)
(*                                                                         *)
(* A run is submitted once, waits for CI, is admitted or turned away, is   *)
(* executed by one worker at a time and settles for good.  A restart puts  *)
(* interrupted executions back; a newer request may withdraw the run at    *)
(* any moment, and a withdrawn run never comes back.                       *)
(*                                                                         *)
(* ReviewQueue, Execution and Release each have a part of that life in     *)
(* detail.  The last two leave the CI gate out: there a run enters queued. *)
(***************************************************************************)
CONSTANTS
    RunIds, Workers, NoRun,
    Entry  \* the status a new run has

VARIABLES status,     \* status[r]: where run r stands
          executing   \* executing[w]: the run worker w executes, or NoRun

avars == <<status, executing>>

Statuses == {"pending_ci", "queued", "running", "pending_approval", "posted",
             "failed", "partial", "skipped", "ci-failed"}

\* A run that was never requested and one whose request was withdrawn.
UNSUBMITTED == "unsubmitted"
WITHDRAWN == "withdrawn"

ATypeOK ==
    /\ status \in [RunIds -> Statuses \cup {UNSUBMITTED, WITHDRAWN}]
    /\ executing \in [Workers -> RunIds \cup {NoRun}]

AInit ==
    /\ status \in [RunIds -> {UNSUBMITTED, Entry}]
    /\ executing = [w \in Workers |-> NoRun]

\* Withdrawing is final: no later change of status touches the run.
Change(st, r, s) == IF st[r] = WITHDRAWN THEN st ELSE [st EXCEPT ![r] = s]

\* A new run enters; older runs may be withdrawn by it.
Submit(r) ==
    /\ status[r] = UNSUBMITTED
    /\ \E W \in SUBSET {q \in RunIds : status[q] # UNSUBMITTED} :
         status' = [q \in RunIds |-> IF q = r THEN Entry
                                     ELSE IF q \in W THEN WITHDRAWN
                                     ELSE status[q]]
    /\ UNCHANGED executing

\* The CI gate lets a waiting run through or turns it away.
Decide(r) ==
    /\ status[r] = "pending_ci"
    /\ \E s \in {"queued", "skipped", "ci-failed"} : status' = [status EXCEPT ![r] = s]
    /\ UNCHANGED executing

\* Only an admitted run starts, and only while nobody executes it.
Start(w, r) ==
    /\ status[r] = "queued"
    /\ executing[w] = NoRun
    /\ \A v \in Workers : executing[v] # r
    /\ status' = [status EXCEPT ![r] = "running"]
    /\ executing' = [executing EXCEPT ![w] = r]

\* An execution ends: it is tried again, or the run settles.
End(w) ==
    /\ executing[w] # NoRun
    /\ \E s \in {"queued", "failed", "skipped", "pending_approval"} :
         status' = Change(status, executing[w], s)
    /\ executing' = [executing EXCEPT ![w] = NoRun]

\* A worker dies with its run still marked running.
Abandon(w) ==
    /\ executing[w] # NoRun
    /\ executing' = [executing EXCEPT ![w] = NoRun]
    /\ UNCHANGED status

\* The process stops; every execution is cut off.
Stop ==
    /\ executing' = [w \in Workers |-> NoRun]
    /\ UNCHANGED status

\* A start-up sweep requeues what was cut off, after the stop or with it.
Recover ==
    /\ status' = [r \in RunIds |-> IF status[r] = "running" THEN "queued" ELSE status[r]]
    /\ executing' = [w \in Workers |-> NoRun]

ANext ==
    \/ \E r \in RunIds : Submit(r) \/ Decide(r)
    \/ \E w \in Workers, r \in RunIds : Start(w, r)
    \/ \E w \in Workers : End(w) \/ Abandon(w)
    \/ Stop
    \/ Recover

ASpec == AInit /\ [][ANext]_avars
=============================================================================
