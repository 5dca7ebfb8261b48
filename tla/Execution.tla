----------------------------- MODULE Execution -----------------------------
(***************************************************************************)
(* The executions of runs by the worker loops: ReviewPipeline.execute from *)
(* the claim to the staged review (executor/pipeline.py), the agent it     *)
(* starts in a thread of its own (runner/workspace.py), and the attempts   *)
(* (queue/worker.py), over the clone cache they share.                     *)
(*                                                                         *)
(* How a run comes to be queued and who may claim it is in ReviewQueue,    *)
(* what becomes of a staged review in Release.                             *)
(***************************************************************************)
EXTENDS CloneCache

CONSTANTS
    Runs,        \* runs that are queued
    NoRun,       \* not a run
    MaxAttempts, \* config.retry.max_attempts
    MaxCrashes   \* bound: how often the process stops

ASSUME ExecutionAssumption ==
    /\ NoRun \notin Runs
    /\ MaxAttempts \in Nat
    /\ MaxCrashes \in Nat

VARIABLES
    wants,     \* review_runs: the repository and the head of each run
    status,    \* review_runs: where each run stands
    attempts,  \* job.attempts, in memory
    job,       \* the run each loop executes, NoRun for none
    phase,     \* where execute is
    tries,     \* history: executions of each run
    crashes    \* history: stops

jobs == <<wants, status, attempts, job, phase, tries, crashes>>
vars == <<cache, jobs>>

\* What an agent may come to: it exits with 0 and an answer, JSON or other text; with 1;
\* with another code, the signal that killed it included; it is killed at its time
\* limit; it cannot be started, for want of the binary or of the directory.
Exits == {"answer", "failure", "other code", "timeout", "not started"}
\* _is_retryable and the two results run builds itself.
Retryable == {"failure", "timeout", "not started"}

JobsTypeOK ==
    /\ wants \in [Runs -> [repo : Repos, head : Heads]]
    /\ status \in [Runs -> {"queued", "running", "pending_approval", "skipped", "failed"}]
    /\ attempts \in [Runs -> 0 .. MaxAttempts]
    /\ job \in [Workers -> Runs \cup {NoRun}]
    /\ phase \in [Workers -> {"off", "fetching", "ensuring", "diffing", "running"}]
    /\ tries \in [Runs -> Nat]
    /\ crashes \in 0 .. MaxCrashes

TypeOK == CacheTypeOK /\ JobsTypeOK

Init ==
    /\ CacheInit
    /\ wants \in [Runs -> [repo : Repos, head : Heads]]
    /\ status = [j \in Runs |-> "queued"]
    /\ attempts = [j \in Runs |-> 0]
    /\ job = [w \in Workers |-> NoRun]
    /\ phase = [w \in Workers |-> "off"]
    /\ tries = [j \in Runs |-> 0]
    /\ crashes = 0

-----------------------------------------------------------------------------
(* The worker loop *)

\* Each awaited call gives way to other loops; while one waits for git, none goes on.
At(w, p) == ~Blocked /\ phase[w] = p

\* Mutant: the claim does not look at the status.
ClaimableAnyway(j) == status[j] \in {"queued", "running"}

Claimable(j) == status[j] = "queued"

\* dequeue, and the call of execute.
Claim(w, j) ==
    /\ At(w, "off")
    /\ Claimable(j)
    /\ status' = [status EXCEPT ![j] = "running"]
    /\ job' = [job EXCEPT ![w] = j]
    /\ phase' = [phase EXCEPT ![w] = "fetching"]
    /\ tries' = [tries EXCEPT ![j] = @ + 1]
    /\ UNCHANGED <<cache, wants, attempts, crashes>>

\* The execution ends and its run has status s.
Ends(w, s) ==
    /\ status' = [status EXCEPT ![job[w]] = s]
    /\ job' = [job EXCEPT ![w] = NoRun]
    /\ phase' = [phase EXCEPT ![w] = "off"]
    /\ UNCHANGED <<wants, tries, crashes>>

\* Mutant: one attempt too many.
TriesAgainOnceMore(w) ==
    \/ /\ attempts[job[w]] <= MaxAttempts
       /\ attempts' = [attempts EXCEPT ![job[w]] = @ + 1]
       /\ Ends(w, "queued")
    \/ /\ attempts[job[w]] > MaxAttempts
       /\ Ends(w, "failed")
       /\ UNCHANGED attempts

\* Mutant: the attempt is not counted.
TriesAgainUncounted(w) == Ends(w, "queued") /\ UNCHANGED attempts

\* A retryable result: another attempt, or none left.
TriesAgain(w) ==
    \/ /\ attempts[job[w]] < MaxAttempts
       /\ attempts' = [attempts EXCEPT ![job[w]] = @ + 1]
       /\ Ends(w, "queued")
    \/ /\ attempts[job[w]] = MaxAttempts
       /\ Ends(w, "failed")
       /\ UNCHANGED attempts

\* A result that is final.
Settles(w, s) == Ends(w, s) /\ UNCHANGED attempts

-----------------------------------------------------------------------------
(* execute *)

\* fetch_pr says the pull request is closed.
Closed(w) ==
    /\ At(w, "fetching")
    /\ Settles(w, "skipped")
    /\ UNCHANGED cache

Ensure(w) ==
    /\ At(w, "fetching")
    /\ Look(w, wants[job[w]].repo, wants[job[w]].head)
    /\ phase' = [phase EXCEPT ![w] = "ensuring"]
    /\ UNCHANGED <<wants, status, attempts, job, tries, crashes>>

EnsureGoesOn(w) == EnsureStep(w) /\ UNCHANGED jobs

EnsureEnds(w) ==
    /\ EnsureReturns(w)
    /\ phase' = [phase EXCEPT ![w] = "diffing"]
    /\ UNCHANGED <<wants, status, attempts, job, tries, crashes>>

EnsureRaises(w) == EnsureFails(w) /\ TriesAgain(w)

\* fetch_pr_diff, and the start of the agent.
DiffArrives(w) ==
    /\ At(w, "diffing")
    /\ phase' = [phase EXCEPT ![w] = "running"]
    /\ UNCHANGED <<cache, wants, status, attempts, job, tries, crashes>>

DiffFails(w) ==
    /\ At(w, "diffing")
    /\ Leave(w)
    /\ TriesAgain(w)

\* run returns.  A result that is not to be retried is staged as the review, with the
\* findings of a scan of the checkout, and waits for its approval.  Output that is JSON
\* and not an object, a severity of the wrong type, an unknown alias: an exception.
RunReturns(w) ==
    /\ At(w, "running")
    /\ Leave(w)
    /\ \E e \in Exits :
         \/ e \in Retryable /\ TriesAgain(w)
         \/ e \notin Retryable /\ Settles(w, "pending_approval")
         \/ e = "answer" /\ Settles(w, "failed")

-----------------------------------------------------------------------------

\* The process is killed and started again: recover_orphans puts the runs that were
\* executed back on the queue, with no attempts behind them.
Restart ==
    /\ crashes < MaxCrashes
    /\ crashes' = crashes + 1
    /\ CacheStops
    /\ status' = [j \in Runs |-> IF status[j] = "running" THEN "queued" ELSE status[j]]
    /\ attempts' = [j \in Runs |-> 0]
    /\ job' = [w \in Workers |-> NoRun]
    /\ phase' = [w \in Workers |-> "off"]
    /\ UNCHANGED <<wants, tries>>

LoopStep(w) ==
    \/ \E j \in Runs : Claim(w, j)
    \/ Closed(w) \/ Ensure(w) \/ EnsureGoesOn(w) \/ EnsureEnds(w) \/ EnsureRaises(w)
    \/ DiffArrives(w) \/ DiffFails(w) \/ RunReturns(w)

Next ==
    \/ \E w \in Workers : LoopStep(w)
    \/ Restart

Spec == Init /\ [][Next]_vars

-----------------------------------------------------------------------------
(* Properties *)

\* Retries end: within one life of the process a run is executed once and then once
\* for each attempt, whatever fails; a life begins with no attempts behind it.
TriesAreBounded == \A j \in Runs : tries[j] <= (MaxAttempts + 1) * (crashes + 1)

Lifecycle ==
    INSTANCE RunLifecycle WITH Entry <- "queued", RunIds <- Runs, executing <- job

\* Executions implement the life cycle of a run: with the cache they share, the git
\* commands that hold up the event loop and every way to fail, a run has one loop at a
\* time and settles once.
ImplementsLifecycle == Lifecycle!ASpec
=============================================================================
