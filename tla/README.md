# Verification of the PR review agent

The agent watches pull requests on GitHub, waits for their CI, lets an LLM review
them in a container, holds the review until somebody approves it, and then posts
the review, promotes the pull request and merges it. It is one Python process
(FastAPI on one asyncio event loop) with one SQLite file. This directory holds
TLA+ models of its core, TLC configurations that check them, and proofs that
TLAPS checks. `PROJECT.json` maps each definition to the lines it models. Paths
below are relative to the repository; `tla/` is this directory.

## 1. The system

### Parts, state and operations

| Part | Source | State | Operations |
|---|---|---|---|
| queue manager | `src/queue/manager.py` | `_queue`, `_queued`, `_waker` (memory) | `enqueue`, `put_back`, `dequeue`, `reconcile` |
| worker scheduler | `src/queue/worker.py` | N loops, each with at most one job | `run`, `_worker_loop` |
| state repository | `src/state/db.py` | `review_runs`, `repos` (SQLite, durable) | `insert_run`, `claim_run`, `set_status`, `recover_orphans`, `reconcile_open_jobs`, repos calls |
| CI gate | `src/ci/gate.py` | one `_watch` task per pending run | `watch`, `_pass`, `_fail`, `resolve_gate` |
| review pipeline | `src/executor/pipeline.py` | `_staged_reviews` (memory) | `execute`, `publish_approved_review` |
| GitHub client | `src/github/client.py` | none; GitHub's own state | reviews, comments, check runs, logs, merge, hooks; a rate-limit retry loop |
| Slack notifier | `src/observability/slack_notifier.py` | none; the messages in Slack | preview, confirmation, plain messages |
| application | `src/webhook/app.py` | the tasks it starts | webhook, approval API, Slack events and buttons, `/status`, start-up and shutdown |
| webhook handler, dispatcher | `src/webhook/handler.py`, `dispatcher.py` | the tasks it starts | verify, parse, acknowledge, dispatch in the background |
| trigger filter, commands | `src/filter/` | none | event to decision |
| boot backfill | `src/queue/backfill.py` | none | a request for each open pull request without a run |
| webhook registrar | `src/webhook/registrar.py` | the hooks of each repository (on GitHub) | `reconcile` on a loop |
| Slack socket client | `src/webhook/slack_socket.py` | one connection, the tasks it starts | connect, receive, acknowledge, hand on, reconnect |
| clone cache | `src/cache/clone.py` | clones on disk, `repos` rows | `ensure`, eviction |
| workspace runner | `src/runner/workspace.py` | one agent process in a thread | `run`: start, wait, parse |
| scanners, validator, docs, registry, configuration, logging | the rest of `src/` | none that lasts | see "Not modelled" |

### How the parts interact

A webhook, the backfill or a comment becomes a decision and reaches
`QueueManager.enqueue`. That inserts a row (`INSERT OR IGNORE`; a comment deletes
the rows of its pull request first), starts a watcher and puts the job on the
queue, all before the next await. The watcher polls GitHub and writes its verdict
to the row; a passing run goes through `put_back`. Worker loops take entries off
the queue, claim the row (`UPDATE ... WHERE status = 'queued'`), run the pipeline
and write the status it returns, or put the run back for another attempt. The
pipeline stages its review in memory, sends a preview to Slack and returns
`pending_approval`. An approval (API, Slack button, Slack mention) starts a task of
its own that pops the staged review, posts it, promotes and merges the pull
request and confirms in Slack. What users do in Slack arrives as an envelope over the
socket client's connection, is acknowledged, and gets a task. An execution asks the
clone cache for a checkout of its head and reads it while the agent runs; the
directory is that of the repository, so executions share it. The registrar re-points
the hooks the webhooks come from whenever the tunnel has another URL. Start-up turns `running` rows into `queued` ones and
watches and queues every open run again. The parts share the event loop, one
SQLite connection, the row of each run, and, unseen by the code, the pull request.

### What is hard

* **Interleaving.** Everything between two awaits is atomic, and nothing more. Three
  writers (gate, worker loops, comments) move one row; three callers put one run on
  the queue; any number of approvals release one review; up to five executions share
  one checkout and one disk cap.
* **Crashes.** Only the table survives. The queue, the watchers, the attempts and the
  staged reviews do not, and every external call may be cut off after it took effect.
* **Failed and lost calls.** GitHub may refuse a call or do what it asks and lose the
  answer; the handlers have fallbacks that repeat the call in another form.
* **A locked database.** An operation raises, halfway through a handler.
* **A world that moves.** The tunnel changes its URL within a round of the registrar,
  Slack closes the connection between an acknowledgement and its task, git is killed
  halfway, somebody deletes a hook.
* **Time.** Waits with a cap, polls that fail, retries, sleeping loops.

### What correctness means, part by part

* *Queue, table and workers*: no run is lost, duplicated or executed twice at once;
  a verdict is final; a deleted run does not come back; every open run settles.
* *Gate*: the verdict is the one the check runs call for; the comment and the Slack
  message agree with the row; the wait is bounded and ends.
* *Pipeline and release*: a review that is staged is kept until one release takes it;
  a release posts once; what Slack confirms is true; nothing is merged unposted.
* *Intake*: each head that matters is requested, once, whatever the network and the
  process do; nothing else is.
* *Clone cache and executions*: the checkout an execution reads is of its head; a row
  has its clone; eviction takes what was used least recently, and no more than the cap
  calls for; attempts end.
* *Registrar*: a repository has one hook, never a second one; in the end it points to
  the tunnel, signed with the secret the process verifies.
* *Slack socket*: what is acknowledged is handled; the connection comes back.

## 2. The modules

| Module | Models | Composition |
|---|---|---|
| `RunLifecycle` | what is promised about each run: one execution at a time, one settled verdict, withdrawn for good | abstract specification of `ReviewQueue`, `Execution` and `Release` |
| `GateWatch` | what the rest of the system and the watcher of one run may expect of each other | abstract specification of `CiGate`, and of `ReviewQueue` for each of its runs |
| `Publication` | what is promised to those who approve and read reviews | abstract specification of `Release` |
| `HeadLife` | what may be expected of one head between its event and the table | abstract specification of `Intake` for each head |
| `ReviewQueue` | queue manager, worker loops, `review_runs`, the watchers' part in it, restarts, locks | implements `RunLifecycle` (`INSTANCE ... WITH`), and `GateWatch` once for each run |
| `CiGate` | one watcher in full: check runs, clock, comments, Slack | implements `GateWatch`: what `ReviewQueue` chooses freely about polls is decided here |
| `Intake` | deliveries, `handle`, `dispatch`, `decide`, `parse_command`, the Slack review commands, the backfill, stops | implements `HeadLife` for each head; refines what `ReviewQueue` calls a request |
| `Release` | the end of `execute`, approvals, publication, promotion, merge, confirmation, restarts | implements `RunLifecycle` and `Publication`; goes on where `ReviewQueue` has a run wait for approval |
| `CloneCache` | `ensure` with clone, fetch, checkout and eviction, the table `repos`, locks and stops between any two steps | a component of its own, with its own specification (`CacheSpec`) |
| `Execution` | `execute` from the claim to the staged review, the agent, the attempts | extends `CloneCache` and composes it with the loops that use it; implements `CacheSpec` and `RunLifecycle` |
| `Registrar` | `reconcile`, `_ensure` and the three hook calls with their retries | |
| `SlackSocket` | `_loop`, the connection, Slack's repeated sending | what a handler does with a payload is in `Release` and `Intake` |
| `MCReviewQueue`, `MCCiGate`, `MCRelease`, `MCIntake`, `MCExecution`, `MCRegistrar`, `MCSlackSocket` | symmetry sets and constant values for TLC | |
| `ReviewQueueProofs`, `CiGateProofs`, `ReleaseProofs`, `IntakeProofs`, `CloneCacheProofs`, `ExecutionProofs`, `RegistrarProofs`, `SlackSocketProofs` | lemmas and theorems | |

One action is the code that runs between two awaits. A handler that awaits several
times is several actions, joined by a phase of its task (`watch[r].pc`,
`worker[w].pc`, `pc`, `exec[r]`, `release[a].pc`, `task[w].pc`, `phase[w]`, `call`). Definitions named "Mutant" are
changed forms of the definition below them; no specification uses them. They state
what a bug in that place would be, and which property notices it.

### ReviewQueue

`runs` is the table: a row or `NoRow` for each run id. `queue` and `queued` are
`_queue` and `_queued`; `attempts` is the field of the job in memory (the column is
never written); `watch` and `worker` say where each task is. The wake-up event needs
no variable: a loop in phase `"waiting"` is one that waits for it, and `Woken` is
`_waker.set()`. `Enqueue` and `EnqueueComment` are `enqueue` with its INSERT;
`EnqueueLocked` is the INSERT that finds the database locked. `Watch*` and `Poll*`
are the pieces of `_watch`. `Claim`, `DequeueNothing` and `ClaimLocked` are the three
ways through `dequeue`, and drop the entries ahead as the code does; `Finish`,
`Retry`, `Exhaust` and `FinishLocked` are the ends of `_worker_loop`'s iteration.
`Crash` empties what is in memory, `Boot` is `reconcile`, in every order the SELECT
may return. A head stands for the pair of head and model. `struck` is history: the
runs a locked database has hit since the process started, so that the properties can
say that it costs these runs and no others, and that the next start makes up for it.

### CiGate

`checks` is what GitHub knows and goes on changing; `seen` is the answer to the last
poll, on which the task decides later. `elapsed` counts poll intervals; `LoopHead`
is the top of the loop, reached from three places. `posted` counts the comments on
the pull request by kind; `CommentDelivered`, `CommentRefused` and `CommentLost` are
what a POST may come to. `Withdraw` is a comment that deletes the row.
`ResolveGate` is `resolve_gate`, which nothing in production calls; it serves as
reference for the decisions `_watch` takes itself.

### Release

`row` is the status column as the release sees it (`open` stands for pending CI or
queued); `exec` is where `execute` is, `staged` is `_staged_reviews`, in which a
review is the number of times its run was staged, so that two reviews of one run
differ. `release[a]` is the task of approval `a`, with the run it names and whether
its job names the pull request (`reaches`). `took` is the review it popped. `posts`,
`pr` and `mergedBy` are GitHub, `previewed` and `told` Slack.
`AfterAccepted` and `AfterRaised` are the fallback chain of `submit_review`: the
review, the review without inline comments, a plain comment. `ApproveByApi` takes a
run in any status, as `/status` lists their ids and the handler does not look;
`ApproveByButton` falls back to a job without repository when the row is gone;
`ApproveByMention` names a run id that is never a row. All three pass
`user_approved`, so `require_approval` stops none of them.

### Intake

`github` is what GitHub knows of each pull request: state, draft flag, head (a number
that grows) and whether the self account was asked to review it. An action of the
environment (`Open`, `Push`, `MarkReady`, `AskReviewer`, `Close`, `Reopen`, `Say`)
changes it and puts the event, with the payload of that moment, into `sent`. `Deliver`
is `handle`: it acknowledges the event and starts a task (`tasks`), and GitHub may
deliver the event again, in any order. `Lose` is a delivery that fails: GitHub does not
repeat it by itself. `Dispatch` is `dispatch` with `decide`, `parse_command` and the
INSERT, between which nothing waits; `DecidesEnqueue` and `DecidesCommand` are the
conditions under which `_decide_inner` answers "enqueue" and a command. `List`,
`ListFails` and `Backfill` are the pieces of `BootBackfill.run` around its one await.
`AgentSays` stands for the gate's two comments that contain the word "review";
`SlackCommand` for a message in Slack that names a number, which becomes a comment of
the self account whatever it says. The body of a comment tells the two apart: what
people write and `parse_command` takes for a command is a "command", on GitHub and in
Slack alike, what the gate writes is a "notice", and `DecidesCommand` accepts both, as
the code does. A run is a pull request and a head; what becomes of
it is in `ReviewQueue`. `requested`, `repeated`, `heard` and `missed` are history.

The self account is taken as configured (`PR_REVIEWER_ACCOUNT`; without it `decide`
lets every author through). A pull request is not converted back to a draft, and a
reviewer once asked stays asked.

### CloneCache and Execution

`rows` is the table `repos` (`last_used`, in seconds of `clock`), `disk` what the
directory of each repository holds: a commit, the default branch of a fresh clone,
nothing, a part of a clone, or a clone whose index a killed git left locked. `ensure`
runs on the event loop and waits for git without yielding, so no two interleave
(`Blocked`); it is cut into steps all the same (`Look`, `CloneDone`, `PutRow`,
`FetchDone`, `Touch`, `CheckoutDone`, `RemoveDir`, `DropRow`, `EnsureReturns`, each
with its way to fail), because a stop or a locked database may end it after any of
them. `Fitting` says which clones are within the cap together: eviction measures the
disk, and only that it fits or not matters. `CacheStops` is a stop: what was under way
is left as it is, and a checkout or removal that was cut off is in `torn`. `moved`
names the loops whose checkout another one changed since they got it.

`Execution` adds the runs and the loops: `Claim`, `Closed`, `Ensure`, `DiffArrives` or
`DiffFails`, and `RunReturns` with the ways an agent may end (`Exits`): an answer, exit
code 1, any other code, the time limit, or not started at all. `TriesAgain` is the
retry of the loop. The agent runs in a thread, so the event loop goes on and other
executions use the same directory meanwhile. A run's status is that of the table;
`attempts` is in memory and starts at 0 in each life.

### Registrar

`hooks` are the hooks at GitHub that have the path of the app, oldest first; a hook has
the URL it points to, counted by the moves of the tunnel, and the secret it was given.
`desired` is the URL this round read, `todo` the repositories it has still to do,
`call` what is awaited. `Listed` decides as `_ensure` does on the first hook with the
path; `Written` is a call that GitHub carried out, `Refused` a rate limit that is tried
again, `Fails` an error, with or without effect at GitHub, after which the round goes
on with the next repository. `Restart` may cut a call off, with or without effect, and
may change the secret.

### SlackSocket

`slack` is what Slack knows of each envelope; `wire` and `acks` are what is under way in
the two directions. `Sends` may happen again and again until the acknowledgement has
arrived. `Receive`, `Ack` and `Dispatch` are what `_loop` does with one message, cut at
`recv` and at `send`; the acknowledgement leaves before the payload has its task. A
closed connection (`Breaks`) loses any part of what is under way; the loop learns of it
when `recv` or `send` raises (`ReceiveRaises`, `AckRaises`, `AckRaisesLate`) and
connects again, at once, or after a sleep when connecting failed. `forgotten` is
history: the envelopes that a stop or a closed connection cut off from their task.

## 3. What the runs check

Passing runs:

| Run | Instance | Shows |
|---|---|---|
| `queue_safety` | 3 runs, 2 pull requests, 2 heads, 2 loops, 1 retry, cap 1, 1 stop, 1 run hit by a lock in each life | `QueuedSetIsInQueue`, `QueueHasNoDuplicates`: the three ways onto the queue do not get in each other's way. `ExecutionIsExclusive`: one loop at a time. `NoRunIsStranded`, `NoLostWakeup`: no open run is forgotten but one that a locked database has hit, and that one until the next start only. `ImplementsLifecycle`: every step is one of `RunLifecycle`, in which a settled run keeps its verdict and a deleted one does not come back. `EachRunIsWatched`: whatever happens around a run, its row and its watcher take the steps of `GateWatch`. |
| `queue_live` | 2 runs, 2 heads, 2 loops, 1 stop, 1 run hit by a lock in each life | `EveryRunSettles`, across retries, CI waits, a restart, and the end of one of the loops |
| `gate_safety` | 2 check runs, cap 2, 2 failed polls, 2 stops | `CommentMatchesVerdict`, `OneComment`, `AnnouncedIsPosted`, `NoSilentVerdict`, `WaitIsBounded`; `AgreesWithResolveGate`: the two statements of the decision do not drift apart; `ImplementsWatch`: the gate does to the row what `GateWatch` says and nothing else; `GateResolves`: a pending run gets its verdict |
| `release_safety` | 2 runs, 2 approvals, and a push, a stop, a lost answer or an approval by a mention (`OneDisturbance`) | `ReviewIsReleasedOnce`, `OnePostPerApproval`, `StagedOncePerLife`, `ReviewIsKept`. `ImplementsLifecycle`: executions, approvals and merges leave each run its life cycle. `ImplementsPublication`: a review in hand is taken by one approval and never replaced, and an approval comments, merges and confirms in this order, each once, and confirms what is true |
| `intake_safety` | 2 pull requests of one repository, one of them the self account's, pages of one, 1 push each, 3 changes, 1 fault, 1 stop | `NoHeadIsForgotten`: the head of a wanted pull request was requested, is under way, or was lost and not listed since. `RequestsAreWarranted`: no run without a reason, and no draft of somebody else. `RequestedOnce`: repeated deliveries and the backfill do not double a request. `EachHeadIsFollowed`: every head, superseded ones included, takes the steps of `HeadLife`. |
| `intake_live` | 1 pull request, 3 changes, 2 stops | `EveryHeadIsRequested`: what stops lose, the backfill makes up for |
| `execution_safety` | 2 loops, 2 runs, 3 repositories of which one fits on the disk, 2 heads, 2 seconds, 1 retry, 1 stop | `RowsHaveClones`: no row without a clone, whatever git, the database and the disk do, but where a stop or a lock tore the two apart. `UndisturbedReadsItsHead`: what an execution reads is its head, unless another one moved the checkout. `TriesAreBounded`. `EvictsWhatItMust`: an entry goes over the cap only, the one used least recently first. `ImplementsLifecycle`: each run has one loop at a time and settles once, whatever the cache and the agent do. |
| `registrar_live` | 3 repositories of which the first never answers, 2 moves, 1 deleted hook, 2 tries, 2 stops | `OneHookEach`, `SignedSinceBoot`, and `HooksFollowTheTunnel`: once the tunnel rests, each hook that can be reached points to it for good |
| `socket_live` | 2 envelopes, 2 closed connections, 1 stop, any number of refused ones | `AcknowledgedIsHandled`: what Slack was told to forget has its task, but where a stop or a closed connection came between. `EveryEnvelopeArrives` |

`queue_safety`, `release_safety` and `execution_safety` also check the type invariant of
their modules. The other modules' types, and some properties that a run's other
properties imply (`WatchedIsPending`, `MergeFollowsPost`, `ConfirmationIsTrue`), are
theorems only. Each property comes with a mutant of a definition of the
model that TLC finds to violate it under the same configuration (`PROJECT.json`,
"mutants").

Runs in which the code does not do what the repository says of it:

| Run | Claim | What happens |
|---|---|---|
| `release_double` | `requirements.md:54`, "never double-posts" | a second approval posts again, with the default text |
| `intake_commands` | `src/filter/command.py:4`, "A body with no `@review` token yields `None`" | `RunsAreReplacedOnRequest`: the word "review" is enough, so the gate's comment on a run it rejects comes back as a command and deletes that run for one without a head, though nobody commanded anything. A command on GitHub or in Slack (REQ-025) may delete runs |
| `execution_shared` | `src/cache/clone.py:54`, "Always checkout the exact PR head commit so the working tree reflects the PR's changes" | a second execution of the repository moves the one checkout to its own head, or evicts it, while the first reads it |

### Seen while modelling

Further places where the code does not do what a reader would expect. The models have
them as the code does; no run states them.

* *Queue.* `insert_run` repeats a locked INSERT and answers False all the same: the row
  is in the table, and nobody watches or queues it until a restart (`EnqueueLocked`). A
  claim that finds the database locked has taken the entry off the queue already
  (`manager.py:119`, `ClaimLocked`), and the loop ends; `module-design.md:195` has the
  transaction tried again. So does a second lock in the loop's exception handler
  (`worker.py:88`, `FinishLocked`). When all loops have ended, nothing is executed until
  a restart. A run is executed `max_attempts + 1` times, while `src/config.yaml:51`
  counts the first.
* *Gate.* A head without check runs passes on the first poll; the settle window of
  `src/ci/gate.py:4` is read by `resolve_gate` only. Failed polls skip the look at the
  wait cap. A stop between status and comment, or a refused fallback comment, leaves a
  rejected run unexplained (`NoSilentVerdict` says that nothing else does).
* *Release.* Staged reviews are in memory (`pipeline.py:52`): after a restart a run waits
  for the approval of a review that is gone, and an approval posts the default text. A
  run in any status can be approved by the API, and is then approved and merged with a
  default text (`src/webhook/app.py:118`). A new head leaves the waiting run of the old
  one as it is (`manager.py:73`), where REQ-023 (`requirements.md:40`) has it cancelled.
  `@review approve`, which the preview asks for (`slack_notifier.py:101`), is a command
  to review, and deletes the waiting run. A refused APPROVE is replaced by a plain
  comment, and the merge follows (`src/github/client.py:122`); it names no head. The
  button of a run whose row is gone sends the staged review to no repository. No status
  becomes `posted` after an approval. The preview's button has the approval URL as a
  link, which the browser GETs and the route does not know. A merge whose answer is lost
  counts as failed (`client.py:131`), and is not confirmed. "Promoted" is said without
  a look at `mark_pr_ready_for_review`'s answer.
* *Intake.* Comments and Slack commands are not checked against `repo_config` and the
  denylist (REQ-003). A pull request closed without a merge is announced as merged.
  The backfill presents each pull request as "opened", so it never makes up for a lost
  request for a reviewer; it also reads one page, and one failed listing passes a
  repository over until the next start. "reopened" is no supported action. A reviewer
  asked on a draft of somebody else is skipped, and the draft's `ready_for_review` is
  skipped as well. `check_run` and `workflow_run` carry no pull request where
  `normalize_event` looks for it, so `advance-ci` inserts nothing. The reply to a
  malformed command goes to no pull request. An unknown model alias is not refused
  (REQ-013). After a comment deleted its run, the backfill requests the head again. Any
  remark of the self account with the word "review" in it is a command, the gate's own
  among them (`intake_commands`). An event is decided on with the draft flag and the
  reviewers it came with (`trigger.py:84`): one that arrives late has a pull request
  reviewed that was taken back to draft meanwhile. The model has no such change, so no
  property is about it.
* *Executions.* An agent that ends with a code other than 0, 1 and 124, killed by a
  signal for one, is no error (`workspace.py:212`): its empty result is staged, where
  `system-design.md:48` has a failure retried. The time limit kills the agent and not
  the processes it started. The attempts begin again with each life of the process.
* *Clone cache.* A checkout that is killed leaves `index.lock`, and a clone or removal
  that is cut off leaves part of a directory. When its row is there, `ensure` fetches
  instead of cloning anew, and the repository fails for good. A directory without a row
  is never evicted. The cap is looked at after the checkout, so the disk holds one clone
  more meanwhile.
* *Registrar.* A hook that has the right URL already keeps whatever secret it has, while
  the docstring (`registrar.py:7`) promises the correct one; `SignedSinceBoot` is about
  hooks that were re-pointed. A hook is known by its path only, so a hook of another
  deployment of the app is taken over. `update_slack_manifest` has no caller.
* *GitHub client.* Network errors and answers of the 5xx kind are not tried again
  (REQ-014); only rate limits are.
* *Slack socket.* A stop or a closed connection after the acknowledgement left and before
  the task ran loses the payload: Slack will not send it again. Envelopes of other types
  are acknowledged and dropped.

### Bounds, and why they are enough

Every bound is a constant. `MaxCrashes`, `MaxBusy`, `MaxErrors`, `MaxLost`,
`MaxPushes`, `MaxMoves`, `MaxDeleted`, `MaxBreaks` and `MaxTime` limit what the
environment does; `CapPolls` and `Cap` are the wait cap in poll intervals,
`MaxAttempts` and `MaxTries` are the configured ones. Two worker loops are what a race
for a claim takes; three runs let one run be in the queue behind another while a
third deletes them; two pull requests, because a comment deletes the rows of one and
not of the other. One retry and a cap of one or two intervals reach both outcomes of
each comparison. `MaxBusy` is less than the number of loops in `queue_live`, so that
one is left. Two approvals are what a double release takes, and two runs make one
run's review reachable under another's approval if it were keyed wrongly. One stop
with the phases in between reaches each point where work can be cut off; a second one
(`gate_safety`) covers work that is cut off after it was repeated. `OneDisturbance`
takes the push, the stop, the lost answer and the mention of `release_safety` one at a
time; the theorems cover their combinations. Safety does not rest on these bounds alone: the
theorems below hold for every value of them.

The intake needs two pull requests in one repository to push one off the page, one of
the self account and one of somebody else for the two reasons of a request, and three
changes for an event to be overtaken by a push and by a comment. One fault and one stop
put a loss, a repetition or a failed listing next to each of them.

Three repositories with room for one let eviction choose between two entries, and two
seconds let one be older. The registrar's three repositories put the one that never
answers before the others; two moves let the tunnel move within a round and once more
after it. A call that was cut off has its effect at once or never; it does not arrive
in a later life of the process. Two closed connections let an envelope be sent, lost,
sent again and lost again.

Deadlock is checked for the queue, the gate and the registrar, where loops and timers
always have a step. The others may stop for good, and their configurations say
`CHECK_DEADLOCK FALSE`: the release with the pull request merged or closed, the runs
settled and every approval given; the intake with every event delivered and decided;
the executions with every run at its end; the socket client when it waits for an
envelope and everything was handled.

### Fairness, and why the code justifies it

asyncio runs each ready task in turn, so steps that wait for nothing are weakly fair
in each `FairSpec`: the watcher's decisions and sleeps, the loops' claims,
timeouts (`wait_for` gives up after five seconds) and sleeps, the dispatch tasks, the
backfill's loop, the registrar's loop (every call has a timeout), the socket client's
loop and its tasks. An execution ends
because the runner's container has a time limit. A poll may fail any number of times
in a row, so it is strongly fair only: GitHub answers again and again; so are the calls
of the registrar for the repositories that can be reached, the tunnel's answer, and the
connections the socket client asks for. A listing is
answered or fails, a delivery arrives or is lost. Slack sends again what was not
acknowledged, which is its documented behaviour, and what is sent on a connection that
lasts arrives. The process is started again by its
container's restart policy (`Boot`; `compose.yaml:29`, `restart: unless-stopped`). Nothing is assumed of
requests, comments, pushes, approvals, crashes, locks, moves of the tunnel or closed
connections.

## 4. What is proved

TLAPS checks the following for every value of the constants, from the assumptions
named in the modules (`ConstantsAssumption`, `NoRowAssumption`, `GateAssumption`,
`ReleaseAssumption`, `IntakeAssumption`, `CacheAssumption`, `ExecutionAssumption`,
`RegistrarAssumption`, `SocketAssumption`): sets of runs are finite where an order of
them is needed, bounds are natural numbers, the "nothing" values are not values, and
what fits on the disk fits with less on it.

**ReviewQueueProofs.** `InductiveInvariant` is `Spec => []IInv`. The safety
properties are not inductive alone. That a run in `_queued` is in the queue says
nothing about a run that was retried past `_queued`, so `PastQueuedIsUnwatched` adds
that no watcher has such a run, and `put_back` never meets it; that an execution is
exclusive needs the run to be nowhere else (`ExecutedIsHeldOnce`), and that needs run
ids not drawn yet to be unknown everywhere (`UnissuedIsUnknown`). `DownIsEmpty` carries
it through restarts. From it: `TypeCorrect`, `NothingStranded`, `Exclusive`,
`QueueConsistent`, `NoDuplicates`, `WakeupsArrive`, `GateIsAlone`, `Deduplicated` (one
run for one head of a pull request). Two results about
steps: `VerdictsAreFinal` (a settled run keeps its verdict, a deleted one does not come
back), and `QueueImplementsLifecycle`, the refinement, where each
action of the queue maps to an action of `RunLifecycle` or to a stutter.

`RunsAreWatched` is the other half of the contract with the gate: seen from any one run,
each step of the queue is a step of `GateWatch` or none. Its own watcher takes the
watcher's steps (`OwnWatcherSeen`, `VerdictSeen`, `LoopHeadSeen`); everything else is
what `GateWatch` allows around a watcher. That this is true of the worker loops rests on
`GateIsAlone`: a loop writes to no row that has a watcher (`LoopWriteSeen`), and of the
start-up sweep on `DownIsEmpty` (`BootSeen`).

**CiGateProofs.** The invariant ties the phase of the task to the row
(`TaskMatchesRow`) and to the number of comments (`SilentUntilPosted`,
`VerdictIsOnItsWay`). The bound on the wait needs an account: `waited` is at most what
earlier lives and failed polls paid for, plus what this life has booked
(`WaitAccount`). From it: `TypeCorrect`, `CommentsAreTrue`, `OneCommentPerVerdict`,
`SlackIsTruthful`, `SilenceHasACause`, `WaitsAreBounded`. What the task knows while it
waits is a part of the invariant too (`AnswerIsKept`): it sleeps only on an answer with
check runs that are not completed, and a task that begins has not waited. On it rests
`DecidesAsResolved`, about steps: `_watch`, which looks at its old answer again after the
sleep, decides nothing that `resolve_gate` would not. `GateIsAWatch` is the refinement
`Spec => Watch!WSpec`: comments, logs and announcements are stutters, and each write to
the row is a verdict of the watcher in its phase.

With `RunsAreWatched` the two models meet in `GateWatch`. `ReviewQueue` leaves it open
what a poll comes to and lets the watcher do all that `GateWatch` allows; `CiGate` is
shown to do no more than that; what it is exposed to from outside, a withdrawal or a
stop at any point, is what `GateWatch` allows around a watcher while it runs. That the
two can be read as one system is this argument; the composition itself is no module.

**ReleaseProofs.** The invariant has four groups that are proved one after the other.
Deliveries: the phase of a release bounds what it has posted (`PhaseFitsPosts`), and
only the merger says so (`MergerIsUnique`). Copies: a copy is staged or taken, and what
was taken is older than what is staged (`CopiesAreDistinct`). Executions: rows and
executions agree (`ExecutionFitsRow`), and a run still to be staged in this life was
staged in earlier ones only (`StagedEarlier`). Keeping: the run whose preview is on its
way has its review as well (`NotifiedIsKept`). Two more facts are there for the refinements: a
run that is still to be staged in this life has nothing staged (`UnstagedUntilReviewed`),
so that staging replaces no review, and a release that has confirmed is over
(`ConfirmationIsLast`). From the invariant: `TypeCorrect`, `ReleasedOnce`,
`OnePost`, `StagedOnce`, `ReviewsAreKept`, `MergesFollowPosts`, `ConfirmationsAreTrue`.
`ReleaseImplementsLifecycle` takes each execution for the loop that runs it, and shows
that previews, approvals, releases and merges leave the status alone.
`ReleasesKeepTheirPromise` is the refinement of `Publication`: the fallback chain of a
post, with any number of lost answers, is one comment there, and a release that pops
nothing comments without a review.

**IntakeProofs.** Two facts about the environment carry the proof (`ChangesAreProgress`):
heads only grow, requests for a reviewer and "ready" are not taken back, and a new head
comes with an event that asks for its review. So what an event or a listing said once
stays true enough (`EventsAreTrue`, `ListingIsTrue`, `TrueStaysTrue`), and each run keeps
its warrant. `RememberStep` follows a head from the delivery to the task and the table,
or to what was missed and back by way of the listing. That nothing is requested twice
needs the table to hold whatever no comment deleted (`RequestedIsKept`). From the
invariant: `NothingForgotten`, `EveryRequestWarranted`, `OncePerHead`. `HeadsAreFollowed`
is the refinement of `HeadLife` by each head, superseded ones included: what enters the
table was due (`OnlyTheDueEnter`), and what is missed was due (`OnlyTheDueAreMissed`), so
that with `RememberStep` no head takes a step from nowhere or to nowhere (`LifeStep`).

**CloneCacheProofs.** The invariant says, for each step of `ensure`, what the earlier
ones found or made of the row and the directory (`Fits`), and of the entry whose
directory was removed, that it was due (`VictimIsDue`). No two loops are in `ensure` at
once (`OneAtATime`), so what one has found stays true until its next step; that is what
keeps the two parts. From it: `CacheTypeCorrect`, `ClonesAreThere`,
`UndisturbedReadsAreRight`, `EvictionIsDue`, and `AloneReadsItsHead`: with a single
worker loop every execution reads its head, so it takes two to make `execution_shared`
happen.

**ExecutionProofs.** `ExecutionsUseTheCache` is the refinement `Spec => CacheSpec`:
each step of an execution is a step of the cache or a stutter, so the cache's theorems
hold of the executions (`ClonesStayThere`, `ReviewsReadTheirHead`, `EvictionsAreDue`,
`OneLoopReadsItsHead`). It needs the phase of an execution to fit its task in the cache
(`PhaseFitsTask`). That retries end (`RetriesEnd`) needs an account: each execution of a
run is one of an earlier life, an attempt that was counted, or the current one
(`TriesAccount`), and for the current one to be one, no two loops have the same run
(`JobsDiffer`). `ExecutionsImplementLifecycle` rests on it too, and on `JobIsRunning`: a
loop has a run exactly when it is executing, and that run is marked running.

**RegistrarProofs.** No hook is ahead of the round, and no round ahead of the tunnel
(`NothingIsAhead`), so a hook whose URL is newer than the start was written in this
life, with its secret; and what is about to be created is not there
(`CreatesTheFirst`). From the invariant: `TypeCorrect`, `HooksAreSingle`,
`HooksAreSigned`. `HooksNeverGoBack` is about steps: while the process runs, a hook is
not re-pointed to an older URL.

**SlackSocketProofs.** That Slack takes an envelope for acknowledged is not inductive
alone: an acknowledgement under way will make it so later. `AcksAreCovered` therefore
asks of both that the envelope is handled, has its task, is the one the loop is about to
give a task, or was cut off. From it: `TypeCorrect`, `AcknowledgementsAreKept`.
`UnbrokenForgetsNothing`: without a stop or a closed connection nothing is cut off.

Only model-checked: `EveryRunSettles`, `GateResolves`, `EveryHeadIsRequested`,
`HooksFollowTheTunnel` and `EveryEnvelopeArrives` (liveness under fairness, and the
ENABLED in it, are out of the prover's reach), and of course the runs that find a
violation.

## 5. Not modelled, and why

* **Wording, layout, logging, metrics**: nothing depends on them.
* **The scanners, the compliance validator, the docs loader**: they compute findings
  from a checkout and keep nothing. Of the runner, what the agent's end becomes is in
  `Execution`; the parsing of its output is an answer or an exception there.
* **Configuration and model registry**: read once, immutable; they are constants.
* **`acquire_lease`, `update_head`, `WorkerScheduler.dispatch`, `security_step`,
  `update_slack_manifest`**: nothing calls them in production. `require_approval` is
  read but never effective, see `Release`.
* **Signatures and malformed payloads**: what `handle` rejects is no event. A database
  that is locked during intake is in `ReviewQueue` (`EnqueueLocked`), not in `Intake`.
* **How long GitHub's rate limiting is waited for** (`_retryable`): the delay is a
  function of the attempt and of the answer, with a random part. How often is tried is
  in `Registrar`; elsewhere one call is the whole retry loop. The error of the last
  attempt carries the `Retry-After` of the attempt before, which nobody reads.
* **A release without a Slack notifier**, and the publication of a review by `execute`
  itself, which no configuration of the application reaches.
* **What an agent does to its checkout**: files it leaves behind belong to no commit;
  a checkout that refuses to overwrite them is a `CheckoutFails`.
* **Liveness of the executions**: an execution's end is an assumption of `queue_live`.

## 6. Plan

Done, in this order: the queue and its refinement, the gate, the release and the intake,
the clone cache and the executions over it, the registrar and the Slack socket, each
with its proofs; then the contract between queue and gate (`GateWatch`), the life cycle of
a run as an abstraction of releases and executions too, what is promised of publication
(`Publication`), and the life of a head (`HeadLife`). Left:

1. A composition of `Intake` and `ReviewQueue`: the rows of the one are the table of the
   other, and `Insert` and `Replace` are its `Enqueue` and `EnqueueComment`.
2. A composition of `ReviewQueue` and `Release` over one pull request. Both implement
   `RunLifecycle`, so what is left is that `Release`'s `Begin` and `Finish` happen exactly
   when the queue's `Claim` and `Finish` do.
3. For `Registrar` and `SlackSocket`, abstract specifications of a hook's life and of an
   envelope's, and the proofs that they are implemented.
