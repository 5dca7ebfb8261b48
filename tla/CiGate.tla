------------------------------- MODULE CiGate -------------------------------
(***************************************************************************)
(* The CI gate of one review run: CiGateMonitor of ci/gate.py between the  *)
(* check runs GitHub shows for a head, which go on changing, and the       *)
(* comments and the Slack message the gate sends.                          *)
(*                                                                         *)
(* Time is counted in poll intervals.  One action is what runs between two *)
(* awaits: GitHub answers a poll with the check runs of that moment        *)
(* (seen), and the watcher decides later, on what it was told.             *)
(***************************************************************************)
EXTENDS Integers, FiniteSets

CONSTANTS
    Checks,      \* check runs that may appear for the head
    Settle,      \* settle_seconds, in poll intervals
    Cap,         \* wait_cap_minutes * 60, in poll intervals
    MaxErrors,   \* bound: polls that raise
    MaxCrashes   \* bound: how often the process stops

ASSUME GateAssumption ==
    /\ IsFiniteSet(Checks)
    /\ Settle \in Nat
    /\ Cap \in Nat
    /\ MaxErrors \in Nat
    /\ MaxCrashes \in Nat

VARIABLES
    checks,     \* GitHub: where each check run of the head stands
    status,     \* the row of the run, durable
    hasHead,    \* the job names a head: false for a run a comment asked for
    pc,         \* where the _watch task is
    seen,       \* _watch's runs: the answer to its last poll
    elapsed,    \* _watch's elapsed
    posted,     \* comments on the pull request, of each kind
    announced,  \* the Slack message "CI Gate Failed ... Posted diagnosis comment"
    up,         \* the process is running
    waited,     \* history: intervals slept, over all restarts
    errors,     \* history: polls that raised
    refused,    \* history: comments GitHub did not accept
    lost,       \* history: comments GitHub accepted, whose response was lost
    crashes     \* history: stops

world == <<checks, hasHead>>
history == <<waited, errors, refused, lost, crashes>>
vars == <<checks, status, hasHead, pc, seen, elapsed, posted, announced, up, history>>

CheckStates == {"absent", "running", "success", "failure", "neutral"}
Kinds == {"diagnosis", "fallback", "timeout"}
Verdicts == {"queued", "ci-failed", "skipped"}
Posting == {"diagnosing", "falling back", "giving up"}
Pcs == {"off", "top", "polling", "answered", "backoff", "waiting", "logs", "announcing"} \cup Posting

TypeOK ==
    /\ checks \in [Checks -> CheckStates]
    /\ status \in Verdicts \cup {"pending_ci", "deleted"}
    /\ hasHead \in BOOLEAN
    /\ pc \in Pcs
    /\ seen \in [Checks -> CheckStates]
    /\ elapsed \in Nat
    /\ posted \in [Kinds -> Nat]
    /\ announced \in BOOLEAN
    /\ up \in BOOLEAN
    /\ waited \in Nat
    /\ errors \in 0 .. MaxErrors
    /\ refused \in Nat
    /\ lost \in Nat
    /\ crashes \in 0 .. MaxCrashes

Nothing == [c \in Checks |-> "absent"]

Init ==
    /\ checks \in [Checks -> {"absent", "running"}]
    /\ status = "pending_ci"
    /\ hasHead \in BOOLEAN
    /\ pc = "top"
    /\ seen = Nothing
    /\ elapsed = 0
    /\ posted = [k \in Kinds |-> 0]
    /\ announced = FALSE
    /\ up = TRUE
    /\ waited = 0
    /\ errors = 0
    /\ refused = 0
    /\ lost = 0
    /\ crashes = 0

-----------------------------------------------------------------------------
(* What an answer says *)

Present(runs) == {c \in Checks : runs[c] # "absent"}
Completed(runs) == {c \in Present(runs) : runs[c] # "running"}

\* CheckRun.failed: any conclusion but success, "neutral" too.
Failed(runs) == {c \in Present(runs) : runs[c] \in {"failure", "neutral"}}

AllCompleted(runs) == Completed(runs) = Present(runs)

\* CiGateMonitor.resolve_gate, which states the gate's decision but is not used by
\* _watch: the reason of its GateResult.
ResolveGate(runs, n) ==
    IF Present(runs) = {} THEN IF n >= Settle THEN "no-ci" ELSE "pending"
    ELSE IF AllCompleted(runs) THEN IF Failed(runs) # {} THEN "ci-failed" ELSE "green"
    ELSE IF n >= Cap THEN "timeout" ELSE "pending"

StatusOf(reason) ==
    CASE reason = "ci-failed" -> "ci-failed"
      [] reason = "timeout" -> "skipped"
      [] reason \in {"green", "no-ci"} -> "queued"
      [] OTHER -> "pending_ci"

-----------------------------------------------------------------------------
(* The watcher *)

\* Mutant: the cap is passed before the wait ends.
CapPassed(n) == n > Cap

CapReached(n) == n >= Cap

\* UPDATE ... WHERE run_id = r; no row, no effect.
SetStatus(s) == status' = IF status = "deleted" THEN status ELSE s

Ends == pc' = "off" /\ seen' = Nothing /\ elapsed' = 0

\* Mutant: the comment is on its way before the status is written.
GiveUpUnsaved == pc' = "giving up" /\ seen' = Nothing /\ UNCHANGED status

\* SKIPPED, then the explanatory comment
GiveUp == SetStatus("skipped") /\ pc' = "giving up" /\ seen' = Nothing

\* The head of the loop: a row that is gone, or not pending any more, ends the
\* task; a job without a head passes as one without CI.
LoopHead(n) ==
    \/ status # "pending_ci" /\ Ends /\ UNCHANGED status
    \/ status = "pending_ci" /\ ~hasHead /\ Ends /\ SetStatus("queued")
    \/ /\ status = "pending_ci" /\ hasHead
       /\ pc' = "polling" /\ elapsed' = n /\ seen' = Nothing
       /\ UNCHANGED status

Start ==
    /\ pc = "top"
    /\ LoopHead(elapsed)
    /\ UNCHANGED <<world, posted, announced, up, history>>

\* GitHub answers with the check runs of this moment.
PollAnswered ==
    /\ pc = "polling"
    /\ seen' = checks
    /\ pc' = "answered"
    /\ UNCHANGED <<world, status, elapsed, posted, announced, up, history>>

PollFails ==
    /\ pc = "polling"
    /\ errors < MaxErrors
    /\ errors' = errors + 1
    /\ pc' = "backoff"
    /\ UNCHANGED <<world, status, seen, elapsed, posted, announced, up, waited, refused, lost, crashes>>

\* A failed poll is repeated after a sleep, with no look at the cap.
BackoffEnds ==
    /\ pc = "backoff"
    /\ waited' = waited + 1
    /\ LoopHead(elapsed + 1)
    /\ UNCHANGED <<world, posted, announced, up, errors, refused, lost, crashes>>

\* Mutant: the failed check runs are not looked at.
PassAnyway ==
    /\ pc = "answered"
    /\ Present(seen) = {} \/ AllCompleted(seen)
    /\ SetStatus("queued")
    /\ Ends
    /\ UNCHANGED <<world, posted, announced, up, history>>

\* No check runs, whatever the settle window, or all of them green.
Pass ==
    /\ pc = "answered"
    /\ Present(seen) = {} \/ (AllCompleted(seen) /\ Failed(seen) = {})
    /\ SetStatus("queued")
    /\ Ends
    /\ UNCHANGED <<world, posted, announced, up, history>>

\* Rule B: the status first, then the logs of the failed check runs.
Reject ==
    /\ pc = "answered"
    /\ Present(seen) # {} /\ AllCompleted(seen) /\ Failed(seen) # {}
    /\ SetStatus("ci-failed")
    /\ pc' = "logs"
    /\ seen' = Nothing
    /\ UNCHANGED <<world, elapsed, posted, announced, up, history>>

StillRunning ==
    /\ pc = "answered"
    /\ ~AllCompleted(seen)
    /\ \/ CapReached(elapsed) /\ GiveUp
       \/ ~CapReached(elapsed) /\ pc' = "waiting" /\ UNCHANGED <<status, seen>>
    /\ UNCHANGED <<world, elapsed, posted, announced, up, history>>

\* Mutant: elapsed stands still.
WakesUnaged ==
    /\ pc = "waiting"
    /\ waited' = waited
    /\ LoopHead(elapsed)
    /\ UNCHANGED <<world, posted, announced, up, errors, refused, lost, crashes>>

\* The sleep is over.  seen is still the old answer, so its check runs are not all
\* completed: lines 147 to 153 are never taken.
Wakes ==
    /\ pc = "waiting"
    /\ waited' = waited + 1
    /\ \/ CapReached(elapsed + 1) /\ GiveUp /\ elapsed' = elapsed + 1
       \/ ~CapReached(elapsed + 1) /\ LoopHead(elapsed + 1)
    /\ UNCHANGED <<world, posted, announced, up, errors, refused, lost, crashes>>

-----------------------------------------------------------------------------
(* The comments *)

\* Mutant: a failure to read the logs is swallowed.
LogsReadSwallowed ==
    /\ pc = "logs"
    /\ pc' \in {"diagnosing", "announcing"}
    /\ UNCHANGED <<world, status, seen, elapsed, posted, announced, up, history>>

\* fetch_failure_logs answers, or raises.
LogsRead ==
    /\ pc = "logs"
    /\ pc' \in {"diagnosing", "falling back"}
    /\ UNCHANGED <<world, status, seen, elapsed, posted, announced, up, history>>

Kind ==
    IF pc = "diagnosing" THEN "diagnosis"
    ELSE IF pc = "falling back" THEN "fallback"
    ELSE "timeout"

\* Mutant: the fallback is posted in any case.
AfterPostAgain ==
    IF pc = "diagnosing" THEN "falling back" ELSE IF pc = "falling back" THEN "announcing" ELSE "off"

\* Where the task goes on after post_comment returned.
AfterPost == IF pc = "giving up" THEN "off" ELSE "announcing"

\* Mutant: an exception of the fallback comment is swallowed.
AfterErrorSwallowed ==
    IF pc = "diagnosing" THEN "falling back" ELSE IF pc = "falling back" THEN "announcing" ELSE "off"

\* Where it goes on after post_comment raised: only the diagnosis is caught.
AfterError == IF pc = "diagnosing" THEN "falling back" ELSE "off"

CommentDelivered ==
    /\ pc \in Posting
    /\ posted' = [posted EXCEPT ![Kind] = @ + 1]
    /\ pc' = AfterPost
    /\ UNCHANGED <<world, status, seen, elapsed, announced, up, history>>

CommentRefused ==
    /\ pc \in Posting
    /\ refused' = refused + 1
    /\ pc' = AfterError
    /\ UNCHANGED <<world, status, seen, elapsed, posted, announced, up, waited, errors, lost, crashes>>

CommentLost ==
    /\ pc \in Posting
    /\ posted' = [posted EXCEPT ![Kind] = @ + 1]
    /\ lost' = lost + 1
    /\ pc' = AfterError
    /\ UNCHANGED <<world, status, seen, elapsed, announced, up, waited, errors, refused, crashes>>

\* SlackNotifier.send_message catches what goes wrong.
Announce ==
    /\ pc = "announcing"
    /\ announced' \in {announced, TRUE}
    /\ Ends
    /\ UNCHANGED <<world, status, posted, up, history>>

-----------------------------------------------------------------------------
(* Around the gate *)

\* A check run appears, ends, or is run again.
CheckMoves ==
    /\ \E c \in Checks, s \in CheckStates \ {"absent"} :
         /\ (checks[c] \in {"absent", "success", "failure", "neutral"}) = (s = "running")
         /\ checks' = [checks EXCEPT ![c] = s]
    /\ UNCHANGED <<status, hasHead, pc, seen, elapsed, posted, announced, up, history>>

\* A comment on the pull request deletes its rows.
Withdraw ==
    /\ up
    /\ status # "deleted"
    /\ status' = "deleted"
    /\ UNCHANGED <<world, pc, seen, elapsed, posted, announced, up, history>>

Crash ==
    /\ up
    /\ crashes < MaxCrashes
    /\ crashes' = crashes + 1
    /\ up' = FALSE
    /\ Ends
    /\ UNCHANGED <<world, status, posted, announced, waited, errors, refused, lost>>

\* The start-up sweep watches a pending run anew, with elapsed at 0.
Boot ==
    /\ ~up
    /\ up' = TRUE
    /\ pc' = IF status = "pending_ci" THEN "top" ELSE "off"
    /\ UNCHANGED <<world, status, seen, elapsed, posted, announced, history>>

Polling == PollAnswered \/ PollFails \/ BackoffEnds
Deciding == Start \/ Pass \/ Reject \/ StillRunning \/ Wakes
Telling == LogsRead \/ CommentDelivered \/ CommentRefused \/ CommentLost \/ Announce

Next ==
    \/ Polling
    \/ Deciding
    \/ Telling
    \/ CheckMoves
    \/ Withdraw
    \/ Crash
    \/ Boot

Spec == Init /\ [][Next]_vars

\* The task runs when it can; GitHub answers polls again and again; a stopped
\* process is started again.
FairSpec ==
    /\ Spec
    /\ SF_vars(PollAnswered)
    /\ WF_vars(BackoffEnds \/ Deciding)
    /\ WF_vars(Telling)
    /\ WF_vars(Boot)

-----------------------------------------------------------------------------
(* Properties *)

Comments == posted["diagnosis"] + posted["fallback"] + posted["timeout"]

\* A comment never speaks before the row does: whatever stops the process, a pull
\* request that was told of a verdict has that verdict, or its run was deleted.
CommentMatchesVerdict ==
    /\ posted["timeout"] > 0 => status \in {"skipped", "deleted"}
    /\ posted["diagnosis"] + posted["fallback"] > 0 => status \in {"ci-failed", "deleted"}

\* One comment for one verdict, restarts included: a second one only where GitHub
\* accepted the diagnosis and its response was lost.
OneComment == Comments <= 1 + lost

\* Slack says that a comment was posted only when one was.
AnnouncedIsPosted == announced => Comments > 0

\* A verdict that needs words gets them, unless the process stopped on the way or
\* GitHub refused the comment.
NoSilentVerdict ==
    up /\ pc = "off" /\ status \in {"ci-failed", "skipped"} =>
        Comments > 0 \/ crashes > 0 \/ refused > 0

\* The wait: at most the cap in each life of the process, and one interval more for
\* each poll that raised.
WaitIsBounded == waited <= (crashes + 1) * Cap + errors

-----------------------------------------------------------------------------
(* What makes the invariants above inductive *)

Deliberating == {"top", "polling", "answered", "backoff", "waiting"}
Explaining == {"logs", "diagnosing", "falling back", "announcing"}

\* The task and the row agree, and a stopped process has no task.
TaskMatchesRow ==
    /\ pc \in Deliberating => status \in {"pending_ci", "deleted"}
    /\ pc \in Explaining => status \in {"ci-failed", "deleted"}
    /\ pc = "giving up" => status \in {"skipped", "deleted"}
    /\ ~up => pc = "off" /\ crashes > 0

\* Nothing is posted before the last await of the way to a comment.
SilentUntilPosted ==
    /\ status = "pending_ci" \/ pc \in Deliberating \cup {"logs", "diagnosing", "giving up"} => Comments = 0
    /\ pc = "falling back" => Comments <= lost
    /\ pc = "announcing" => Comments > 0

\* A verdict without its comment has a task, or something went wrong.
VerdictIsOnItsWay ==
    status \in {"ci-failed", "skipped"} =>
        Comments > 0 \/ crashes > 0 \/ refused > 0 \/ pc \in {"logs", "diagnosing", "falling back", "giving up"}

\* The waits booked after n intervals of a life of the process.
Booked(n) == IF CapReached(n) THEN Cap ELSE n

\* What is booked for this life: at most the cap, less the wait that a failed poll
\* has announced.
Allowance ==
    IF ~up THEN 0
    ELSE IF pc = "off" THEN Cap
    ELSE IF pc = "backoff" THEN Booked(elapsed) - 1
    ELSE Booked(elapsed)

WaitAccount ==
    /\ pc = "waiting" => ~CapReached(elapsed)
    /\ waited <= crashes * Cap + errors + Allowance

\* A task that polls has a head, and sleeps on an answer with check runs that are not
\* completed; one that begins has not waited.
AnswerIsKept ==
    /\ pc \in {"polling", "answered", "backoff", "waiting"} => hasHead
    /\ pc = "waiting" => ~AllCompleted(seen)
    /\ pc = "top" \/ ~up => elapsed = 0

IInv ==
    /\ TypeOK
    /\ CommentMatchesVerdict
    /\ OneComment
    /\ AnnouncedIsPosted
    /\ TaskMatchesRow
    /\ SilentUntilPosted
    /\ VerdictIsOnItsWay
    /\ WaitAccount
    /\ AnswerIsKept

-----------------------------------------------------------------------------

\* _watch decides as resolve_gate, its other statement in the same class, says,
\* on every answer that has check runs.
AgreesWithResolveGate ==
    [][status = "pending_ci" /\ Present(seen) # {} /\ pc' # pc /\ up'
       => /\ (pc = "answered") => (status' = StatusOf(ResolveGate(seen, elapsed)))
          /\ (pc = "waiting") => (status' = StatusOf(ResolveGate(seen, elapsed + 1)))]_vars

\* The watcher as the queue knows it: between an answer and the decision on it a poll
\* goes on, and what is posted after the decision is none of the queue's concern.
WatchedRow == IF status = "deleted" THEN "withdrawn" ELSE status
WatchPhase ==
    IF pc = "answered" THEN "polling"
    ELSE IF pc \in {"top", "polling", "backoff", "waiting"} THEN pc
    ELSE "off"
WatchElapsed == IF WatchPhase \in {"off", "top"} THEN 0 ELSE Booked(elapsed)

Watch ==
    INSTANCE GateWatch WITH row <- WatchedRow, named <- (status # "deleted" /\ hasHead),
                            phase <- WatchPhase, elapsed <- WatchElapsed

\* Whatever GitHub answers and when, and whatever is posted, the gate does to the row
\* what ReviewQueue takes a watcher to do, and nothing else.
ImplementsWatch == Watch!WSpec

\* Every pending run gets its verdict or is withdrawn, and the task comes to an end.
GateResolves == status = "pending_ci" ~> status # "pending_ci" /\ pc = "off"
=============================================================================
