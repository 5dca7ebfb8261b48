------------------------------- MODULE Release -------------------------------
(***************************************************************************)
(* The release of staged reviews of one pull request: the end of           *)
(* ReviewPipeline.execute, publish_approved_review and the GitHub calls    *)
(* it makes (executor/pipeline.py, github/client.py), and the approvals    *)
(* that arrive by Slack and by the API (webhook/app.py).                   *)
(*                                                                         *)
(* Several runs of the pull request may be executed and released at once;  *)
(* one action is what runs between two awaits.  The rows and what GitHub   *)
(* and Slack were told are durable, staged reviews are not.  CI gate,      *)
(* queue and claims are in ReviewQueue: here a run is open until it is     *)
(* executed.                                                               *)
(***************************************************************************)
EXTENDS Integers, FiniteSets

CONSTANTS
    RunIds,      \* runs of the pull request
    NoRun,       \* "slack_<number>", the run id a Slack mention approves
    Approvals,   \* approvals users give, each at most once
    Nobody,      \* not an approval
    AutoMerge,   \* repo_spec.auto_merge
    MaxPushes,   \* bound: commits pushed
    MaxLost,     \* bound: responses of GitHub lost in one release
    MaxCrashes   \* bound: how often the process stops

ASSUME ReleaseAssumption ==
    /\ NoRun \notin RunIds
    /\ Nobody \notin Approvals
    /\ AutoMerge \in BOOLEAN
    /\ MaxPushes \in Nat
    /\ MaxLost \in Nat
    /\ MaxCrashes \in Nat

VARIABLES
    head,       \* GitHub: commits of the pull request so far
    pr,         \* GitHub: its state
    mergedBy,   \* GitHub: the release that merged it
    posts,      \* GitHub: reviews and comments each release has posted
    previewed,  \* Slack: runs whose preview, with its button, is shown
    told,       \* Slack: the confirmation of each release
    row,        \* review_runs: where each run stands
    rowHead,    \* review_runs: its head, NoHead for "@review"
    up,         \* the process is running
    exec,       \* ReviewPipeline.execute of each run
    staged,     \* _staged_reviews: the copy staged of each run, 0 for none
    release,    \* publish_approved_review of each approval
    took,       \* the copy each release popped, 0 for none
    stagings,   \* history: how often each run was staged
    lost,       \* history: responses lost in each release
    crashes     \* history: stops

NoHead == -1

github == <<head, pr, mergedBy, posts>>
slack == <<previewed, told>>
table == <<row, rowHead>>
history == <<stagings, lost, crashes>>
vars == <<github, slack, table, up, exec, staged, release, took, history>>

Statuses == {"none", "open", "running", "pending_approval", "skipped", "failed", "gone"}
Posting == {"submitting", "summary only", "commenting"}
Concluding == {"promoting", "merging", "telling"}
ReleasePcs == {"unused", "created", "off"} \cup Posting \cup Concluding

TypeOK ==
    /\ head \in 0 .. MaxPushes
    /\ pr \in {"open", "closed", "merged"}
    /\ mergedBy \in Approvals \cup {Nobody}
    /\ posts \in [Approvals -> Nat]
    /\ previewed \in SUBSET RunIds
    /\ told \in [Approvals -> {"nothing", "approved", "merged"}]
    /\ row \in [RunIds -> Statuses]
    /\ rowHead \in [RunIds -> {NoHead} \cup 0 .. MaxPushes]
    /\ up \in BOOLEAN
    /\ exec \in [RunIds -> {"off", "fetching", "reviewing", "notifying"}]
    /\ staged \in [RunIds -> Nat]
    /\ release \in [Approvals -> [pc : ReleasePcs, run : RunIds \cup {NoRun},
                                  reaches : BOOLEAN, merged : BOOLEAN]]
    /\ took \in [Approvals -> Nat]
    /\ stagings \in [RunIds -> Nat]
    /\ lost \in [Approvals -> 0 .. MaxLost]
    /\ crashes \in 0 .. MaxCrashes

Init ==
    /\ head = 0
    /\ pr = "open"
    /\ mergedBy = Nobody
    /\ posts = [a \in Approvals |-> 0]
    /\ previewed = {}
    /\ told = [a \in Approvals |-> "nothing"]
    /\ row = [r \in RunIds |-> "none"]
    /\ rowHead = [r \in RunIds |-> NoHead]
    /\ up = TRUE
    /\ exec = [r \in RunIds |-> "off"]
    /\ staged = [r \in RunIds |-> 0]
    /\ release = [a \in Approvals |-> [pc |-> "unused", run |-> NoRun, reaches |-> FALSE, merged |-> FALSE]]
    /\ took = [a \in Approvals |-> 0]
    /\ stagings = [r \in RunIds |-> 0]
    /\ lost = [a \in Approvals |-> 0]
    /\ crashes = 0

-----------------------------------------------------------------------------
(* Runs and their executions *)

\* A commit is pushed, or the pull request is closed by somebody else.
Push ==
    /\ pr = "open"
    /\ head < MaxPushes
    /\ head' = head + 1
    /\ UNCHANGED <<pr, mergedBy, posts, slack, table, up, exec, staged, release, took, history>>

Close ==
    /\ pr = "open"
    /\ pr' = "closed"
    /\ UNCHANGED <<head, mergedBy, posts, slack, table, up, exec, staged, release, took, history>>

\* A webhook or the backfill asks for a review of a head; older runs stay.
Request(r) ==
    /\ up
    /\ row[r] = "none"
    /\ \E h \in 0 .. head :
         /\ \A q \in RunIds : row[q] \notin {"none", "gone"} => rowHead[q] # h
         /\ rowHead' = [rowHead EXCEPT ![r] = h]
    /\ row' = [row EXCEPT ![r] = "open"]
    /\ UNCHANGED <<github, slack, up, exec, staged, release, took, history>>

\* "@review", whatever follows it: parse_command knows no other kind, so
\* "@review approve" deletes the runs of the pull request and asks for a new one.
Comment(r) ==
    /\ up
    /\ row[r] = "none"
    /\ row' = [q \in RunIds |-> IF q = r THEN "open" ELSE IF row[q] = "none" THEN "none" ELSE "gone"]
    /\ rowHead' = [rowHead EXCEPT ![r] = NoHead]
    /\ UNCHANGED <<github, slack, up, exec, staged, release, took, history>>

\* UPDATE ... WHERE run_id = r; no row, no effect.
SetStatus(r, s) == row' = IF row[r] = "gone" THEN row ELSE [row EXCEPT ![r] = s]

\* Mutant: a run that waits for its approval is executed again.
ClaimableAnyway(r) == row[r] \in {"open", "pending_approval"} /\ exec[r] = "off"

Claimable(r) == row[r] = "open"

Begin(r) ==
    /\ up
    /\ Claimable(r)
    /\ SetStatus(r, "running")
    /\ exec' = [exec EXCEPT ![r] = "fetching"]
    /\ UNCHANGED <<github, slack, rowHead, up, staged, release, took, history>>

\* A closed or merged pull request is skipped; if it cannot be fetched, the
\* execution goes on.
Fetched(r) ==
    /\ exec[r] = "fetching"
    /\ \/ /\ pr # "open"
          /\ SetStatus(r, "skipped")
          /\ exec' = [exec EXCEPT ![r] = "off"]
       \/ /\ exec' = [exec EXCEPT ![r] = "reviewing"]
          /\ UNCHANGED row
    /\ UNCHANGED <<github, slack, rowHead, up, staged, release, took, history>>

\* Clone, diff or runner fail: another attempt, or none is left; or an exception.
Fail(r) ==
    /\ exec[r] = "reviewing"
    /\ \E s \in {"open", "failed"} : SetStatus(r, s)
    /\ exec' = [exec EXCEPT ![r] = "off"]
    /\ UNCHANGED <<github, slack, rowHead, up, staged, release, took, history>>

\* Mutant: the preview is sent before the review is staged.
StageLate(r) ==
    /\ exec[r] = "reviewing"
    /\ exec' = [exec EXCEPT ![r] = "notifying"]
    /\ UNCHANGED <<github, slack, table, up, staged, stagings, release, took, lost, crashes>>

\* The findings are staged under the run id, and the preview is on its way.
Stage(r) ==
    /\ exec[r] = "reviewing"
    /\ stagings' = [stagings EXCEPT ![r] = @ + 1]
    /\ staged' = [staged EXCEPT ![r] = stagings[r] + 1]
    /\ exec' = [exec EXCEPT ![r] = "notifying"]
    /\ UNCHANGED <<github, slack, table, up, release, took, lost, crashes>>

\* Slack shows the preview and its button, before or without an answer.
Preview(r) ==
    /\ exec[r] = "notifying"
    /\ previewed' = previewed \cup {r}
    /\ UNCHANGED <<github, told, table, up, exec, staged, release, took, history>>

\* Mutant: the status of a review that was published without Slack.
FinishPosted(r) ==
    /\ exec[r] = "notifying"
    /\ SetStatus(r, "posted")
    /\ exec' = [exec EXCEPT ![r] = "off"]
    /\ UNCHANGED <<github, slack, rowHead, up, staged, release, took, history>>

\* notify_staged_review returned; the worker writes the status.
Finish(r) ==
    /\ exec[r] = "notifying"
    /\ SetStatus(r, "pending_approval")
    /\ exec' = [exec EXCEPT ![r] = "off"]
    /\ UNCHANGED <<github, slack, rowHead, up, staged, release, took, history>>

-----------------------------------------------------------------------------
(* Approvals *)

Created(a, r, ok) ==
    release' = [release EXCEPT ![a] = [pc |-> "created", run |-> r, reaches |-> ok, merged |-> FALSE]]

\* POST /api/reviews/{run_id}/approve: /status lists the run ids, and the request names
\* the pull request for a run whose row is gone.  The status of the run is not looked at.
ApproveByApi(a, r) ==
    /\ up
    /\ release[a].pc = "unused"
    /\ row[r] # "none"
    /\ Created(a, r, TRUE)
    /\ UNCHANGED <<github, slack, table, up, exec, staged, took, history>>

\* The button carries the run id only: without its row, the release goes to
\* repository "" and pull request 1.
ApproveByButton(a, r) ==
    /\ up
    /\ release[a].pc = "unused"
    /\ r \in previewed
    /\ Created(a, r, row[r] # "gone")
    /\ UNCHANGED <<github, slack, table, up, exec, staged, took, history>>

\* "approve #<number>" in Slack: the run id "slack_<number>" is never a row.
ApproveByMention(a) ==
    /\ up
    /\ release[a].pc = "unused"
    /\ Created(a, NoRun, TRUE)
    /\ UNCHANGED <<github, slack, table, up, exec, staged, took, history>>

\* Mutant: the staged review is read, not popped.
PopPeeks(a) ==
    LET r == release[a].run IN
    /\ took' = [took EXCEPT ![a] = IF r = NoRun THEN 0 ELSE staged[r]]
    /\ UNCHANGED staged

\* _staged_reviews.pop, 0 where nothing is staged: the caller's default text.
Pop(a) ==
    LET r == release[a].run IN
    IF r = NoRun THEN UNCHANGED <<staged, took>>
    ELSE /\ took' = [took EXCEPT ![a] = staged[r]]
         /\ staged' = [staged EXCEPT ![r] = 0]

\* The task starts: all callers pass user_approved, so require_approval never holds
\* a release up.
ReleaseStarts(a) ==
    /\ release[a].pc = "created"
    /\ Pop(a)
    /\ release' = [release EXCEPT ![a].pc = "submitting"]
    /\ UNCHANGED <<github, slack, table, up, exec, history>>

-----------------------------------------------------------------------------
(* submit_review, mark_pr_ready_for_review, merge_pr *)

\* Mutant: the fallback goes on after a review that was accepted.
AfterAcceptedAgain(pc) == IF pc = "submitting" THEN {"promoting", "commenting"} ELSE {"promoting"}

\* Where publish_approved_review goes on after a post that was accepted.
AfterAccepted(pc) == {"promoting"}

\* Mutant: the exception of the last fallback is swallowed.
AfterRaisedSwallowed(pc, inline) == {"promoting"}

\* ... and after one that raised: without the inline comments, if there are any, then
\* as a comment; if that raises as well, the task ends.
AfterRaised(pc, inline) ==
    IF pc = "submitting" /\ inline THEN {"summary only", "commenting"}
    ELSE IF pc = "commenting" THEN {"off"}
    ELSE {"commenting"}

\* GitHub has what was posted.
Accepts(a) ==
    /\ release[a].pc \in Posting
    /\ release[a].reaches
    /\ posts' = [posts EXCEPT ![a] = @ + 1]
    /\ UNCHANGED <<head, pr, mergedBy>>

Posted(a) ==
    /\ Accepts(a)
    /\ \E p \in AfterAccepted(release[a].pc) : release' = [release EXCEPT ![a].pc = p]
    /\ UNCHANGED <<slack, table, up, exec, staged, took, history>>

PostLost(a) ==
    /\ lost[a] < MaxLost
    /\ Accepts(a)
    /\ lost' = [lost EXCEPT ![a] = @ + 1]
    /\ \E p \in AfterRaised(release[a].pc, took[a] # 0) : release' = [release EXCEPT ![a].pc = p]
    /\ UNCHANGED <<slack, table, up, exec, staged, took, stagings, crashes>>

PostRefused(a) ==
    /\ release[a].pc \in Posting
    /\ \E p \in AfterRaised(release[a].pc, took[a] # 0) : release' = [release EXCEPT ![a].pc = p]
    /\ UNCHANGED <<github, slack, table, up, exec, staged, took, history>>

\* mark_pr_ready_for_review catches what goes wrong; its answer is not used.
Promote(a) ==
    /\ release[a].pc = "promoting"
    /\ release' = [release EXCEPT ![a].pc = IF AutoMerge THEN "merging" ELSE "telling"]
    /\ UNCHANGED <<github, slack, table, up, exec, staged, took, history>>

\* GitHub merges whatever the head is now: the request names none.
Merges(a) ==
    /\ release[a].pc = "merging"
    /\ release[a].reaches
    /\ pr = "open"
    /\ pr' = "merged"
    /\ mergedBy' = a
    /\ UNCHANGED <<head, posts>>

Merged(a) ==
    /\ Merges(a)
    /\ release' = [release EXCEPT ![a].pc = "telling", ![a].merged = TRUE]
    /\ UNCHANGED <<slack, table, up, exec, staged, took, history>>

\* None of the three methods was answered with a merge.  One that fails before
\* another merges changes nothing.
AfterMergeRaised(a) == [release EXCEPT ![a].pc = "telling"]

MergeLost(a) ==
    /\ lost[a] < MaxLost
    /\ Merges(a)
    /\ lost' = [lost EXCEPT ![a] = @ + 1]
    /\ release' = AfterMergeRaised(a)
    /\ UNCHANGED <<slack, table, up, exec, staged, took, stagings, crashes>>

MergeRefused(a) ==
    /\ release[a].pc = "merging"
    /\ release' = AfterMergeRaised(a)
    /\ UNCHANGED <<github, slack, table, up, exec, staged, took, history>>

\* notify_review_approved_and_promoted, which catches what goes wrong.
Tell(a) ==
    /\ release[a].pc = "telling"
    /\ \/ told' = [told EXCEPT ![a] = IF release[a].merged THEN "merged" ELSE "approved"]
       \/ UNCHANGED told
    /\ release' = [release EXCEPT ![a].pc = "off"]
    /\ UNCHANGED <<github, previewed, table, up, exec, staged, took, history>>

-----------------------------------------------------------------------------
(* Stop and start *)

Crash ==
    /\ up
    /\ crashes < MaxCrashes
    /\ crashes' = crashes + 1
    /\ up' = FALSE
    /\ exec' = [r \in RunIds |-> "off"]
    /\ staged' = [r \in RunIds |-> 0]
    /\ release' = [a \in Approvals |->
                     IF release[a].pc = "unused" THEN release[a] ELSE [release[a] EXCEPT !.pc = "off"]]
    /\ UNCHANGED <<github, slack, table, took, stagings, lost>>

\* Runs cut off while they were executed are open again.
Boot ==
    /\ ~up
    /\ up' = TRUE
    /\ row' = [r \in RunIds |-> IF row[r] = "running" THEN "open" ELSE row[r]]
    /\ UNCHANGED <<github, slack, rowHead, exec, staged, release, took, history>>

Executing(r) == Begin(r) \/ Fetched(r) \/ Fail(r) \/ Stage(r) \/ Preview(r) \/ Finish(r)
Approve(a) == ApproveByMention(a) \/ \E r \in RunIds : ApproveByApi(a, r) \/ ApproveByButton(a, r)
Releasing(a) ==
    \/ ReleaseStarts(a) \/ Posted(a) \/ PostLost(a) \/ PostRefused(a)
    \/ Promote(a) \/ Merged(a) \/ MergeLost(a) \/ MergeRefused(a) \/ Tell(a)

Next ==
    \/ Push
    \/ Close
    \/ \E r \in RunIds : Request(r) \/ Comment(r) \/ Executing(r)
    \/ \E a \in Approvals : Approve(a) \/ Releasing(a)
    \/ Crash
    \/ Boot

Spec == Init /\ [][Next]_vars

-----------------------------------------------------------------------------
(* Safety *)

\* A copy that was staged is popped by one release, however often its run is
\* approved, and by whatever channels.
ReviewIsReleasedOnce ==
    \A a, b \in Approvals :
        a # b /\ release[a].run = release[b].run /\ took[a] = took[b] => took[a] = 0

\* One approval, one post, although submit_review has three ways to post: a second
\* one only where GitHub accepted the first and its response was lost.
OnePostPerApproval == \A a \in Approvals : posts[a] <= 1 + lost[a]

\* A run is executed to its end once in each life of the process: what waits for an
\* approval is not executed again.
StagedOncePerLife == \A r \in RunIds : stagings[r] <= 1 + crashes

\* A review to release, or a release that took it.
Held(r) == staged[r] # 0 \/ \E a \in Approvals : release[a].run = r /\ took[a] # 0

\* A run that waits for its approval has a review to release, or a release that took
\* it: the approval may come before the status is written.
ReviewIsKept ==
    crashes = 0 =>
        \A r \in RunIds : row[r] = "pending_approval" => Held(r)

\* Nothing is merged that was not commented on first, by the same release.
MergeFollowsPost == mergedBy # Nobody => posts[mergedBy] > 0

\* The confirmation in Slack is true: something was posted, and "Merged into base
\* branch" is said by the release that merged.
ConfirmationIsTrue ==
    \A a \in Approvals :
        /\ told[a] # "nothing" => posts[a] > 0
        /\ told[a] = "merged" => mergedBy = a

\* Claimed by requirements.md:54 (REQ-NF-005), "never double-posts a review": of all
\* releases of a run, one posts.
PostedOncePerRun ==
    \A a, b \in Approvals :
        a # b /\ release[a].run = release[b].run /\ posts[a] > 0 /\ posts[b] > 0 => release[a].run = NoRun

-----------------------------------------------------------------------------
(* Executions and releases implement the life cycle of a run. *)

LifecycleStatus ==
    [r \in RunIds |-> CASE row[r] = "none" -> "unsubmitted"
                        [] row[r] = "open" -> "queued"
                        [] row[r] = "gone" -> "withdrawn"
                        [] OTHER -> row[r]]

\* Each execution stands for the loop that runs it.
Executed == [r \in RunIds |-> IF exec[r] = "off" THEN NoRun ELSE r]

Lifecycle ==
    INSTANCE RunLifecycle WITH Entry <- "queued", Workers <- RunIds, status <- LifecycleStatus,
                               executing <- Executed

\* Previews, approvals, releases and merges leave the life of a run to the queue and to
\* its execution: whatever they do, its row takes the steps of the life cycle.
ImplementsLifecycle == Lifecycle!ASpec

\* What an approval has said last, on GitHub or in Slack.
Voice ==
    [a \in Approvals |-> IF told[a] # "nothing" THEN told[a]
                         ELSE IF posts[a] > 0 THEN "posted" ELSE "silent"]

Publication ==
    INSTANCE Publication WITH inHand <- {r \in RunIds : staged[r] # 0},
                              has <- {a \in Approvals : took[a] # 0},
                              voice <- Voice, merger <- mergedBy

\* Executions, approvals by three channels, fallbacks, lost responses and stops
\* together: a review passes from hand to hand and is never copied or replaced, and no
\* approval merges before it comments or confirms what it did not do.
ImplementsPublication == Publication!PSpec

-----------------------------------------------------------------------------
(* What makes the invariants above inductive *)

\* The phase of a release and what it has posted.
PhaseFitsPosts ==
    \A a \in Approvals :
        /\ release[a].pc \in {"unused", "created"} => took[a] = 0 /\ posts[a] = 0
        /\ release[a].pc \in Posting => posts[a] <= lost[a]
        /\ release[a].pc \in Concluding => posts[a] > 0
        /\ took[a] # 0 => release[a].run \in RunIds

\* Copies are numbered: what a release took is older than what is staged now.
CopiesAreDistinct ==
    /\ \A r \in RunIds : staged[r] <= stagings[r]
    /\ \A a \in Approvals : \A r \in RunIds : took[a] # 0 /\ release[a].run = r =>
           took[a] <= stagings[r] /\ took[a] # staged[r]

\* A pull request is merged once, and only its merger says so.
MergerIsUnique ==
    /\ mergedBy # Nobody => pr = "merged"
    /\ \A a \in Approvals : release[a].merged => mergedBy = a

\* An execution and its row agree; a stopped process executes nothing.
ExecutionFitsRow ==
    \A r \in RunIds :
        /\ exec[r] # "off" => up /\ row[r] \in {"running", "gone"}
        /\ up /\ row[r] = "running" => exec[r] # "off"

\* A run that is still to be staged in this life was staged in earlier ones only.
StagedEarlier ==
    \A r \in RunIds :
        ~up \/ row[r] \in {"none", "open"} \/ exec[r] \in {"fetching", "reviewing"} => stagings[r] <= crashes

\* The review of a run whose preview is on its way is kept as well.
NotifiedIsKept ==
    crashes = 0 =>
        \A r \in RunIds : exec[r] = "notifying" => Held(r)

\* A run that is still to be staged in this life has nothing staged.
UnstagedUntilReviewed ==
    \A r \in RunIds :
        ~up \/ row[r] \in {"none", "open"} \/ exec[r] \in {"fetching", "reviewing"} => staged[r] = 0

\* The confirmation is the last a release says.
ConfirmationIsLast == \A a \in Approvals : told[a] # "nothing" => release[a].pc = "off"

IInv ==
    /\ TypeOK
    /\ ReviewIsReleasedOnce
    /\ OnePostPerApproval
    /\ StagedOncePerLife
    /\ ReviewIsKept
    /\ MergeFollowsPost
    /\ ConfirmationIsTrue
    /\ PhaseFitsPosts
    /\ CopiesAreDistinct
    /\ MergerIsUnique
    /\ ExecutionFitsRow
    /\ StagedEarlier
    /\ NotifiedIsKept
    /\ UnstagedUntilReviewed
    /\ ConfirmationIsLast
=============================================================================
