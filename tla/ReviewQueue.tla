----------------------------- MODULE ReviewQueue -----------------------------
(***************************************************************************)
(* The review queue: the review_runs table of state/db.py, the in-memory  *)
(* queue of queue/manager.py, the CI watchers of ci/gate.py and the worker *)
(* loops of queue/worker.py, all interleaved on one event loop.            *)
(*                                                                         *)
(* One action is what runs between two awaits.  The table is durable;      *)
(* everything else is lost when the process stops.  What a CI poll and a   *)
(* pipeline execution return is chosen freely; how long a gate waits in    *)
(* seconds, and the comments it posts, are in CiGate.                      *)
(***************************************************************************)
EXTENDS Integers, Sequences, FiniteSets

CONSTANTS
    RunIds,       \* uuid4 identifiers, each drawn at most once
    Workers,      \* worker loops, config.concurrency of them
    PRs,          \* <<owner, repo, number>>
    Heads,        \* <<head sha, model>> a webhook or the backfill names
    NoHead,       \* the empty head of a run requested by a comment
    NoRow, NoRun,
    MaxAttempts,  \* config.retry.max_attempts
    CapPolls,     \* the wait cap, counted in poll intervals
    MaxCrashes,   \* bound: how often the process stops
    MaxBusy       \* bound: how often the database reports "locked"

ASSUME ConstantsAssumption ==
    /\ IsFiniteSet(RunIds)
    /\ NoRun \notin RunIds
    /\ NoHead \notin Heads
    /\ Workers # {}
    /\ MaxAttempts \in Nat
    /\ CapPolls \in Nat
    /\ MaxCrashes \in Nat
    /\ MaxBusy \in Nat

PENDING_CI == "pending_ci"
QUEUED == "queued"
RUNNING == "running"
CI_FAILED == "ci-failed"
SKIPPED == "skipped"
FAILED == "failed"
PENDING_APPROVAL == "pending_approval"

Statuses == {"pending_ci", "queued", "running", "pending_approval", "posted",
             "failed", "partial", "skipped", "ci-failed"}
OpenStatuses == {PENDING_CI, QUEUED, RUNNING}
Settled == Statuses \ OpenStatuses

Rows == [pr : PRs, head : Heads \cup {NoHead}, status : Statuses]

ASSUME NoRowAssumption == NoRow \notin Rows

VARIABLES
    runs,      \* review_runs, durable: a row or NoRow for each run id
    issued,    \* the run ids drawn so far
    up,        \* the process is running
    queue,     \* QueueManager._queue
    queued,    \* QueueManager._queued
    attempts,  \* ReviewJob.attempts of the job object in memory
    watch,     \* CiGateMonitor._watch tasks: where each is, and its elapsed time
    worker,    \* the worker loops: where each is, and its job
    crashes,   \* stops so far
    struck     \* runs a "database is locked" error hit in this life of the process

volatile == <<queue, queued, attempts, watch, worker>>
vars == <<runs, issued, up, queue, queued, attempts, watch, worker, crashes, struck>>

WatchPcs == {"off", "top", "polling", "backoff", "waiting"}
WorkerPcs == {"top", "waiting", "idle", "executing", "dead"}

TypeOK ==
    /\ runs \in [RunIds -> Rows \cup {NoRow}]
    /\ issued \in SUBSET RunIds
    /\ up \in BOOLEAN
    /\ queue \in Seq(RunIds)
    /\ queued \in SUBSET RunIds
    /\ attempts \in [RunIds -> 0 .. MaxAttempts]
    /\ watch \in [RunIds -> [pc : WatchPcs, elapsed : 0 .. CapPolls]]
    /\ worker \in [Workers -> [pc : WorkerPcs, run : RunIds \cup {NoRun}]]
    /\ crashes \in 0 .. MaxCrashes
    /\ struck \in SUBSET RunIds

NotWatched == [pc |-> "off", elapsed |-> 0]
FreshWatch == [pc |-> "top", elapsed |-> 0]
AtTop == [pc |-> "top", run |-> NoRun]

Init ==
    /\ runs = [r \in RunIds |-> NoRow]
    /\ issued = {}
    /\ up = TRUE
    /\ queue = <<>>
    /\ queued = {}
    /\ attempts = [r \in RunIds |-> 0]
    /\ watch = [r \in RunIds |-> NotWatched]
    /\ worker = [w \in Workers |-> AtTop]
    /\ crashes = 0
    /\ struck = {}

-----------------------------------------------------------------------------
(* The table *)

\* A statement about r finds the database locked.  Bound: MaxBusy runs in each life
\* of the process, each of them once.
Locked(r) ==
    /\ r \notin struck
    /\ Cardinality(struck) < MaxBusy
    /\ struck' = struck \cup {r}

Is(r, s) == runs[r] # NoRow /\ runs[r].status = s

\* UPDATE ... WHERE run_id = r; no row, no effect.
SetStatus(r, s) ==
    runs' = IF runs[r] = NoRow THEN runs ELSE [runs EXCEPT ![r].status = s]

\* UNIQUE (owner, repo, pr, head, model)
Duplicate(p, h) == \E r \in RunIds : runs[r] # NoRow /\ runs[r].pr = p /\ runs[r].head = h

NewRow(p, h) == [pr |-> p, head |-> h, status |-> PENDING_CI]

\* Rows of the same pull request, deleted by a comment's INSERT.
WithoutPR(p) == [r \in RunIds |-> IF runs[r] # NoRow /\ runs[r].pr = p THEN NoRow ELSE runs[r]]

-----------------------------------------------------------------------------
(* The in-memory queue *)

\* asyncio.Event.set wakes every loop that waits for the event.
Woken == [w \in Workers |-> IF worker[w].pc = "waiting" THEN AtTop ELSE worker[w]]

\* Mutant: the event is not set.
PutSilently(r) == queued' = queued \cup {r} /\ queue' = Append(queue, r) /\ UNCHANGED worker

\* _queued.add, put_nowait, _waker.set
Put(r) ==
    /\ queued' = queued \cup {r}
    /\ queue' = Append(queue, r)
    /\ worker' = Woken

\* Mutant: put_back without its check.
PutBackAlways(r) == Put(r)

\* QueueManager.put_back: nothing for a run still in _queued.
PutBack(r) ==
    IF r \in queued THEN UNCHANGED <<queued, queue, worker>> ELSE Put(r)

\* QueueManager.enqueue of a webhook or backfill decision.  A duplicate changes
\* nothing, so it is a stuttering step.
Enqueue(r, p, h) ==
    /\ up
    /\ r \notin issued
    /\ ~Duplicate(p, h)
    /\ issued' = issued \cup {r}
    /\ runs' = [runs EXCEPT ![r] = NewRow(p, h)]
    /\ watch' = [watch EXCEPT ![r] = FreshWatch]
    /\ Put(r)
    /\ UNCHANGED <<up, attempts, crashes, struck>>

\* ... of a "@review" comment: the runs of the pull request are deleted first.
EnqueueComment(r, p) ==
    /\ up
    /\ r \notin issued
    /\ issued' = issued \cup {r}
    /\ runs' = [WithoutPR(p) EXCEPT ![r] = NewRow(p, NoHead)]
    /\ watch' = [watch EXCEPT ![r] = FreshWatch]
    /\ Put(r)
    /\ UNCHANGED <<up, attempts, crashes, struck>>

\* The INSERT finds the database locked: _retry inserts the row, but insert_run
\* answers False, and enqueue takes the run for a duplicate.
EnqueueLocked(r, p, h) ==
    /\ up
    /\ Locked(r)
    /\ r \notin issued
    /\ ~Duplicate(p, h)
    /\ issued' = issued \cup {r}
    /\ runs' = [runs EXCEPT ![r] = NewRow(p, h)]
    /\ UNCHANGED <<up, volatile, crashes>>

-----------------------------------------------------------------------------
(* The CI watchers *)

\* Mutant: elapsed is never advanced.
TickForgotten(n) == n

\* elapsed counts poll intervals; only elapsed >= cap is ever asked.
Tick(n) == IF n < CapPolls THEN n + 1 ELSE n

\* The head of _watch's loop.  A deleted row raises KeyError and ends the task;
\* a run without a head passes without a poll.
LoopHead(r, n) ==
    \/ /\ ~Is(r, PENDING_CI)
       /\ watch' = [watch EXCEPT ![r] = NotWatched]
       /\ UNCHANGED <<runs, queued, queue, worker>>
    \/ /\ Is(r, PENDING_CI)
       /\ runs[r].head = NoHead
       /\ watch' = [watch EXCEPT ![r] = NotWatched]
       /\ SetStatus(r, QUEUED)
       /\ PutBack(r)
    \/ /\ Is(r, PENDING_CI)
       /\ runs[r].head # NoHead
       /\ watch' = [watch EXCEPT ![r] = [pc |-> "polling", elapsed |-> n]]
       /\ UNCHANGED <<runs, queued, queue, worker>>

WatchStart(r) ==
    /\ watch[r].pc = "top"
    /\ LoopHead(r, 0)
    /\ UNCHANGED <<issued, up, attempts, crashes, struck>>

\* A poll that raised is tried again after a sleep; the cap is not looked at.
WatchRetry(r) ==
    /\ watch[r].pc = "backoff"
    /\ LoopHead(r, Tick(watch[r].elapsed))
    /\ UNCHANGED <<issued, up, attempts, crashes, struck>>

PollFails(r) ==
    /\ watch[r].pc = "polling"
    /\ watch' = [watch EXCEPT ![r].pc = "backoff"]
    /\ UNCHANGED <<runs, issued, up, queue, queued, attempts, worker, crashes, struck>>

\* No check runs, or all of them completed with success.
PollPasses(r) ==
    /\ watch[r].pc = "polling"
    /\ SetStatus(r, QUEUED)
    /\ PutBack(r)
    /\ watch' = [watch EXCEPT ![r] = NotWatched]
    /\ UNCHANGED <<issued, up, attempts, crashes, struck>>

\* All completed, some failed.
PollRejects(r) ==
    /\ watch[r].pc = "polling"
    /\ SetStatus(r, CI_FAILED)
    /\ watch' = [watch EXCEPT ![r] = NotWatched]
    /\ UNCHANGED <<issued, up, queue, queued, attempts, worker, crashes, struck>>

\* Some are not completed: the cap ends the wait, or the task sleeps.
PollPending(r) ==
    /\ watch[r].pc = "polling"
    /\ \/ /\ watch[r].elapsed >= CapPolls
          /\ SetStatus(r, SKIPPED)
          /\ watch' = [watch EXCEPT ![r] = NotWatched]
       \/ /\ watch[r].elapsed < CapPolls
          /\ watch' = [watch EXCEPT ![r].pc = "waiting"]
          /\ UNCHANGED runs
    /\ UNCHANGED <<issued, up, queue, queued, attempts, worker, crashes, struck>>

\* The sleep is over: the cap is looked at again before the next poll.
WatchWakes(r) ==
    /\ watch[r].pc = "waiting"
    /\ \/ /\ Tick(watch[r].elapsed) >= CapPolls
          /\ SetStatus(r, SKIPPED)
          /\ watch' = [watch EXCEPT ![r] = NotWatched]
          /\ UNCHANGED <<queued, queue, worker>>
       \/ /\ Tick(watch[r].elapsed) < CapPolls
          /\ LoopHead(r, Tick(watch[r].elapsed))
    /\ UNCHANGED <<issued, up, attempts, crashes, struck>>

\* The watcher's write of an outcome finds the database locked: the exception
\* ends the task.
WatchLocked(r) ==
    /\ \/ watch[r].pc = "polling"
       \/ watch[r].pc = "top" /\ Is(r, PENDING_CI) /\ runs[r].head = NoHead
       \/ watch[r].pc = "waiting" /\ Tick(watch[r].elapsed) >= CapPolls
    /\ Locked(r)
    /\ watch' = [watch EXCEPT ![r] = NotWatched]
    /\ UNCHANGED <<runs, issued, up, queue, queued, attempts, worker, crashes>>

-----------------------------------------------------------------------------
(* The worker loops *)

\* Mutant: the claim does not look at the status.
ClaimableAnyway(r) == runs[r] # NoRow

\* queue[k] is the first entry claim_run can claim.
Claimable(r) == Is(r, QUEUED)
UnclaimableBefore(k) == \A i \in 1 .. k - 1 : ~Claimable(queue[i])

\* Mutant: run ids stay in _queued when their entry is taken.
PopKeepsQueued(k) == queue' = SubSeq(queue, k + 1, Len(queue)) /\ UNCHANGED queued

\* Entries 1 .. k are taken off the queue.
Pop(k) ==
    /\ queue' = SubSeq(queue, k + 1, Len(queue))
    /\ queued' = queued \ {queue[i] : i \in 1 .. k}

\* dequeue claims a run; entries ahead of it that cannot be claimed are dropped.
Claim(w) ==
    /\ worker[w].pc = "top"
    /\ \E k \in 1 .. Len(queue) :
         /\ UnclaimableBefore(k)
         /\ Claimable(queue[k])
         /\ Pop(k)
         /\ SetStatus(queue[k], RUNNING)
         /\ worker' = [worker EXCEPT ![w] = [pc |-> "executing", run |-> queue[k]]]
    /\ UNCHANGED <<issued, up, attempts, watch, crashes, struck>>

\* dequeue finds nothing to claim, drops what is there and waits to be woken.
DequeueNothing(w) ==
    /\ worker[w].pc = "top"
    /\ UnclaimableBefore(Len(queue) + 1)
    /\ Pop(Len(queue))
    /\ worker' = [worker EXCEPT ![w].pc = "waiting"]
    /\ UNCHANGED <<runs, issued, up, attempts, watch, crashes, struck>>

\* The UPDATE of a claim finds the database locked: the entry is gone and the
\* exception ends the worker loop.
ClaimLocked(w) ==
    /\ worker[w].pc = "top"
    /\ \E k \in 1 .. Len(queue) : UnclaimableBefore(k) /\ Pop(k) /\ Locked(queue[k])
    /\ worker' = [worker EXCEPT ![w].pc = "dead"]
    /\ UNCHANGED <<runs, issued, up, attempts, watch, crashes>>

\* wait_for gives up after five seconds: dequeue answers None, the loop sleeps.
WaitTimesOut(w) ==
    /\ worker[w].pc = "waiting"
    /\ worker' = [worker EXCEPT ![w].pc = "idle"]
    /\ UNCHANGED <<runs, issued, up, queue, queued, attempts, watch, crashes, struck>>

IdleEnds(w) ==
    /\ worker[w].pc = "idle"
    /\ worker' = [worker EXCEPT ![w].pc = "top"]
    /\ UNCHANGED <<runs, issued, up, queue, queued, attempts, watch, crashes, struck>>

\* The pipeline returns a result that is not retryable, or raises.
Finish(w) ==
    /\ worker[w].pc = "executing"
    /\ \E s \in {SKIPPED, PENDING_APPROVAL, FAILED} : SetStatus(worker[w].run, s)
    /\ worker' = [worker EXCEPT ![w] = AtTop]
    /\ UNCHANGED <<issued, up, queue, queued, attempts, watch, crashes, struck>>

\* Mutant: one attempt too many.
RetryOnceMore(w) ==
    LET r == worker[w].run IN
    /\ worker[w].pc = "executing"
    /\ attempts[r] <= MaxAttempts
    /\ attempts' = [attempts EXCEPT ![r] = @ + 1]
    /\ SetStatus(r, QUEUED)
    /\ queue' = Append(queue, r)
    /\ worker' = [worker EXCEPT ![w] = AtTop]
    /\ UNCHANGED <<issued, up, queued, watch, crashes, struck>>

\* A retryable result with attempts left: back to the end of the queue, past
\* _queued and without a wake-up.
Retry(w) ==
    LET r == worker[w].run IN
    /\ worker[w].pc = "executing"
    /\ attempts[r] < MaxAttempts
    /\ attempts' = [attempts EXCEPT ![r] = @ + 1]
    /\ SetStatus(r, QUEUED)
    /\ queue' = Append(queue, r)
    /\ worker' = [worker EXCEPT ![w] = AtTop]
    /\ UNCHANGED <<issued, up, queued, watch, crashes, struck>>

\* A retryable result with none left.
Exhaust(w) ==
    /\ worker[w].pc = "executing"
    /\ attempts[worker[w].run] >= MaxAttempts
    /\ SetStatus(worker[w].run, FAILED)
    /\ worker' = [worker EXCEPT ![w] = AtTop]
    /\ UNCHANGED <<issued, up, queue, queued, attempts, watch, crashes, struck>>

\* The status cannot be written, and neither can the handler's FAILED: the
\* second exception ends the loop and the row stays running.
FinishLocked(w) ==
    /\ worker[w].pc = "executing"
    /\ Locked(worker[w].run)
    /\ worker' = [worker EXCEPT ![w] = [pc |-> "dead", run |-> NoRun]]
    /\ UNCHANGED <<runs, issued, up, queue, queued, attempts, watch, crashes>>

-----------------------------------------------------------------------------
(* Stop and start *)

Crash ==
    /\ up
    /\ crashes < MaxCrashes
    /\ crashes' = crashes + 1
    /\ up' = FALSE
    /\ queue' = <<>>
    /\ queued' = {}
    /\ attempts' = [r \in RunIds |-> 0]
    /\ watch' = [r \in RunIds |-> NotWatched]
    /\ worker' = [w \in Workers |-> AtTop]
    /\ struck' = {}
    /\ UNCHANGED <<runs, issued>>

\* recover_orphans with a lease of 0 seconds
Recovered ==
    [r \in RunIds |-> IF Is(r, RUNNING) THEN [runs[r] EXCEPT !.status = QUEUED] ELSE runs[r]]

Open == {r \in RunIds : runs[r] # NoRow /\ runs[r].status \in OpenStatuses}

\* The orders in which a SELECT without ORDER BY may return the rows of S.
Orders(S) ==
    {q \in [1 .. Cardinality(S) -> S] :
        /\ \A r \in S : \E i \in 1 .. Cardinality(S) : q[i] = r
        /\ \A i, j \in 1 .. Cardinality(S) : q[i] = q[j] => i = j}

\* QueueManager.reconcile, before anything is served
Boot ==
    /\ ~up
    /\ up' = TRUE
    /\ runs' = Recovered
    /\ queue' \in Orders(Open)
    /\ queued' = Open
    /\ watch' = [r \in RunIds |-> IF Is(r, PENDING_CI) THEN FreshWatch ELSE NotWatched]
    /\ UNCHANGED <<issued, attempts, worker, crashes, struck>>

-----------------------------------------------------------------------------

Request ==
    \E r \in RunIds, p \in PRs :
        \/ \E h \in Heads : Enqueue(r, p, h) \/ EnqueueLocked(r, p, h)
        \/ EnqueueComment(r, p)

Watching(r) ==
    \/ WatchStart(r) \/ WatchRetry(r) \/ WatchWakes(r) \/ WatchLocked(r)
    \/ PollFails(r) \/ PollPasses(r) \/ PollRejects(r) \/ PollPending(r)

Working(w) ==
    \/ Claim(w) \/ DequeueNothing(w) \/ ClaimLocked(w)
    \/ WaitTimesOut(w) \/ IdleEnds(w)
    \/ Finish(w) \/ Retry(w) \/ Exhaust(w) \/ FinishLocked(w)

Next ==
    \/ Request
    \/ up /\ \E r \in RunIds : Watching(r)
    \/ up /\ \E w \in Workers : Working(w)
    \/ Crash
    \/ Boot

Spec == Init /\ [][Next]_vars

-----------------------------------------------------------------------------
(* Safety *)

\* put_back trusts _queued: a run in _queued that is not in the queue would never
\* be put back, and would wait for ever.
QueuedSetIsInQueue == queued \subseteq {queue[i] : i \in 1 .. Len(queue)}

\* put_back is idempotent per run_id, although the gate, the retry path and the
\* start-up sweep all put the same run on the queue: it is there at most once.
QueueHasNoDuplicates ==
    \A i, j \in 1 .. Len(queue) : queue[i] = queue[j] => i = j

\* claim_run lets one worker have a run, and the row says so: no other worker, no
\* watcher and no start-up sweep moves a run while it is executed.
ExecutionIsExclusive ==
    \A w \in Workers : worker[w].pc = "executing" =>
        /\ runs[worker[w].run] = NoRow \/ Is(worker[w].run, RUNNING)
        /\ \A v \in Workers \ {w} : worker[v].run # worker[w].run

\* Only the gate moves a run out of pending_ci, and it then stops watching.
WatchedIsPending ==
    \A r \in RunIds : watch[r].pc # "off" => runs[r] = NoRow \/ Is(r, PENDING_CI)

\* No open run is forgotten: while the process runs, each is in the hands of the
\* watcher, the queue or the worker its status names.  A locked database costs the
\* run it hit, until the next start, and no other.
NoRunIsStranded ==
    up =>
        \A r \in RunIds \ struck :
            /\ Is(r, PENDING_CI) => watch[r].pc # "off"
            /\ Is(r, QUEUED) => \E i \in 1 .. Len(queue) : queue[i] = r
            /\ Is(r, RUNNING) => \E w \in Workers : worker[w].pc = "executing" /\ worker[w].run = r

\* No lost wake-up: the worker loops do not all wait for the event while the queue
\* holds an entry, although a retried run is put there without setting it.
NoLostWakeup ==
    up /\ queue # <<>> => \E w \in Workers : worker[w].pc # "waiting"

\* INSERT OR IGNORE: one run for one head of a pull request (REQ-004).
OneRunPerHead ==
    \A r, q \in RunIds :
        /\ runs[r] # NoRow /\ runs[q] # NoRow
        /\ runs[r].pr = runs[q].pr /\ runs[r].head = runs[q].head
        => r = q

\* A run that has settled keeps its verdict, in spite of the watchers, worker
\* loops and sweeps that may still hold it; only a comment deletes it.
SettledIsFinal ==
    [][\A r \in RunIds :
         runs[r] # NoRow /\ runs[r].status \in Settled => runs'[r] \in {runs[r], NoRow}]_vars

\* A deleted run does not come back, whoever still holds its job.
DeletedStaysDeleted ==
    [][\A r \in issued : runs[r] = NoRow => runs'[r] = NoRow]_vars

-----------------------------------------------------------------------------
(* What makes the invariants above inductive *)

\* A loop has a job exactly while it executes it.
JobWhileExecuting ==
    \A w \in Workers : worker[w].pc = "executing" <=> worker[w].run # NoRun

\* An executed run is nowhere else: not watched, not in the queue, not in _queued.
ExecutedIsHeldOnce ==
    \A w \in Workers : worker[w].pc = "executing" =>
        /\ watch[worker[w].run].pc = "off"
        /\ worker[w].run \notin queued
        /\ \A i \in 1 .. Len(queue) : queue[i] # worker[w].run

\* Only a retried run is in the queue past _queued, and no watcher has it any more,
\* so put_back never meets it.
PastQueuedIsUnwatched ==
    \A i \in 1 .. Len(queue) : queue[i] \notin queued => watch[queue[i]].pc = "off"

\* A run id not drawn yet appears nowhere.
UnissuedIsUnknown ==
    \A r \in RunIds \ issued :
        /\ runs[r] = NoRow
        /\ watch[r].pc = "off"
        /\ \A w \in Workers : worker[w].run # r
        /\ \A i \in 1 .. Len(queue) : queue[i] # r

\* A stopped process holds nothing.
DownIsEmpty ==
    ~up => /\ queue = <<>> /\ queued = {}
           /\ watch = [r \in RunIds |-> NotWatched]
           /\ worker = [w \in Workers |-> AtTop]

IInv ==
    /\ TypeOK
    /\ QueuedSetIsInQueue
    /\ QueueHasNoDuplicates
    /\ JobWhileExecuting
    /\ ExecutionIsExclusive
    /\ ExecutedIsHeldOnce
    /\ PastQueuedIsUnwatched
    /\ WatchedIsPending
    /\ UnissuedIsUnknown
    /\ DownIsEmpty
    /\ NoRunIsStranded
    /\ NoLostWakeup
    /\ OneRunPerHead

-----------------------------------------------------------------------------
(* The queue implements the life cycle of a run. *)

LifecycleStatus ==
    [r \in RunIds |-> IF runs[r] # NoRow THEN runs[r].status
                      ELSE IF r \in issued THEN "withdrawn" ELSE "unsubmitted"]

Executing == [w \in Workers |-> worker[w].run]

Lifecycle ==
    INSTANCE RunLifecycle WITH Entry <- PENDING_CI, status <- LifecycleStatus,
                               executing <- Executing

\* Every step of the queue is a step of some run's life cycle, or none.
ImplementsLifecycle == Lifecycle!ASpec

-----------------------------------------------------------------------------
(* Each run has a watcher as CiGate describes it. *)

WatchElapsed(r) == IF watch[r].pc \in {"off", "top"} THEN 0 ELSE watch[r].elapsed

Watch(r) ==
    INSTANCE GateWatch WITH Cap <- CapPolls, row <- LifecycleStatus[r],
                            named <- (runs[r] # NoRow /\ runs[r].head # NoHead),
                            phase <- watch[r].pc, elapsed <- WatchElapsed(r)

\* Whatever happens to the other runs, to the queue and to the loops: to the row of a
\* run nothing is done but what its watcher does, and what the watcher can cope with.
EachRunIsWatched ==
    /\ \A r \in RunIds : Watch(r)!WInit
    /\ [][\A r \in RunIds : [Watch(r)!WNext]_(Watch(r)!wvars)]_vars

-----------------------------------------------------------------------------
(* Liveness *)

\* GitHub answers a poll again and again; its errors do not go on for ever.
PollAnswers(r) == up /\ (PollPasses(r) \/ PollRejects(r) \/ PollPending(r))

\* asyncio runs every task that is ready; polls, sleeps, waits and pipelines end
\* (the runner's container has a time limit); a stopped process is started again.
Fairness ==
    /\ WF_vars(Boot)
    /\ \A r \in RunIds :
         /\ WF_vars(up /\ (WatchStart(r) \/ WatchRetry(r) \/ WatchWakes(r)))
         /\ SF_vars(PollAnswers(r))
    /\ \A w \in Workers :
         /\ WF_vars(up /\ (Claim(w) \/ DequeueNothing(w)))
         /\ WF_vars(up /\ (WaitTimesOut(w) \/ IdleEnds(w)))
         /\ WF_vars(up /\ (Finish(w) \/ Retry(w) \/ Exhaust(w)))

FairSpec == Spec /\ Fairness

IsOpen(r) == runs[r] # NoRow /\ runs[r].status \in OpenStatuses

\* Every request is answered: a run that is open settles, or a comment replaces
\* it, or a locked database hit it.  Retries, the CI wait and restarts come to an
\* end, and a worker loop that a locked database ended leaves the queue to another.
EveryRunSettles == \A r \in RunIds : IsOpen(r) ~> ~IsOpen(r) \/ r \in struck
=============================================================================
