-------------------------------- MODULE Intake --------------------------------
(***************************************************************************)
(* The way from GitHub and Slack to the review_runs table: deliveries of   *)
(* events, webhook/handler.py, webhook/dispatcher.py, filter/trigger.py,   *)
(* filter/command.py, the review commands of Slack (webhook/app.py) and    *)
(* the boot backfill (queue/backfill.py).                                  *)
(*                                                                         *)
(* An event is acknowledged when it arrives and decided on by a task of    *)
(* its own; a stop loses the tasks, and the backfill makes up for it from  *)
(* what GitHub lists.  What becomes of a run is in ReviewQueue: here a run *)
(* is its pull request and head.                                           *)
(***************************************************************************)
EXTENDS Integers, FiniteSets

CONSTANTS
    PRs,         \* pull requests, numbered in the order they were created
    Repos,       \* repositories with a webhook
    RepoOf,      \* the repository of each pull request
    Managed,     \* config.is_managed: enabled in repo_config
    Denied,      \* config.is_denied
    Own,         \* pull requests whose author is the self account
    PageSize,    \* pull requests GitHub lists on the one page that is read
    MaxHeads,    \* bound: commits pushed to a pull request after the first
    MaxChanges,  \* bound: events on GitHub and commands in Slack
    MaxFaults,   \* bound: deliveries that fail or are repeated, and listings that fail,
                 \* while the process runs
    MaxCrashes   \* bound: how often the process stops

ASSUME IntakeAssumption ==
    /\ PRs \subseteq Nat
    /\ IsFiniteSet(PRs)
    /\ RepoOf \in [PRs -> Repos]
    /\ Managed \subseteq Repos
    /\ Denied \subseteq Repos
    /\ Own \subseteq PRs
    /\ PageSize \in Nat
    /\ MaxHeads \in Nat
    /\ MaxChanges \in Nat
    /\ MaxFaults \in Nat
    /\ MaxCrashes \in Nat

VARIABLES
    github,      \* GitHub: the state, draft flag, head of each pull request, and
                 \* whether the self account is asked to review it
    sent,        \* GitHub: events under way to the webhook
    up,          \* the process is running
    tasks,       \* Dispatcher.dispatch tasks of events that were acknowledged
    todo,        \* BootBackfill.run: repositories still to be listed
    listing,     \* BootBackfill.run: the answer to list_open_prs
    rows,        \* review_runs: <<pull request, head>> of each run, durable
    requested,   \* history: all that was ever in rows
    repeated,    \* history: what was inserted a second time
    heard,       \* history: <<pull request, body>> the self account was heard to say
    missed,      \* history: <<pull request, head>> whose event was lost, not listed since
    changes,     \* events so far
    faults,      \* failed or repeated deliveries and failed listings so far
    crashes      \* stops so far

NoHead == -1

table == <<rows, requested, repeated>>
memory == <<tasks, todo, listing>>
vars == <<github, sent, up, memory, table, heard, missed, changes, faults, crashes>>

\* SUPPORTED_EVENTS and SUPPORTED_ACTIONS, in one word each; "reopened" is none of them.
\* check_run and workflow_run are left out: the handler looks for a pull request where
\* they have none, and the INSERT of such a run is ignored.
Asking == {"opened", "ready_for_review", "synchronize"}
Supported == Asking \cup {"review_requested", "closed", "issue_comment"}
Kinds == Supported \cup {"reopened"}

\* What comes of a text in parse_command.  A "command" is what a person writes that it
\* takes for one: @review on GitHub, "review #1" in Slack (REQ-025), or any remark with the
\* word "review" or a mention in it.  A "notice" is what the gate writes with that word in
\* it, which is taken for a command as well.  Any "other" is none, or has unknown flags.
Bodies == {"command", "notice", "other", "none"}

Heads == 0 .. MaxHeads
Runs == PRs \X (Heads \cup {NoHead})
Events == [kind : Kinds, pr : PRs, head : Heads, draft : BOOLEAN, asked : BOOLEAN,
           body : Bodies, self : BOOLEAN]
States == {"none", "open", "closed", "reopened"}

TypeOK ==
    /\ github \in [PRs -> [state : States, head : Heads, draft : BOOLEAN, asked : BOOLEAN]]
    /\ sent \in SUBSET Events
    /\ up \in BOOLEAN
    /\ tasks \in SUBSET Events
    /\ todo \in SUBSET Repos
    /\ listing \in SUBSET (PRs \X Heads)
    /\ rows \in SUBSET Runs
    /\ requested \in SUBSET Runs
    /\ repeated \in SUBSET Runs
    /\ heard \in SUBSET (PRs \X Bodies)
    /\ missed \in SUBSET (PRs \X Heads)
    /\ changes \in 0 .. MaxChanges
    /\ faults \in 0 .. MaxFaults
    /\ crashes \in 0 .. MaxCrashes

\* The process starts for the first time, on pull requests that may be open already.
Init ==
    /\ github \in [PRs -> {[state |-> s, head |-> 0, draft |-> FALSE, asked |-> FALSE] : s \in {"none", "open"}}]
    /\ sent = {}
    /\ up = TRUE
    /\ tasks = {}
    /\ todo = Managed
    /\ listing = {}
    /\ rows = {}
    /\ requested = {}
    /\ repeated = {}
    /\ heard = {}
    /\ missed = {<<p, 0>> : p \in {n \in PRs : github[n].state = "open"}}
    /\ changes = 0
    /\ faults = 0
    /\ crashes = 0

-----------------------------------------------------------------------------
(* GitHub *)

IsOpen(p) == github[p].state \in {"open", "reopened"}

\* The payload of an event tells how the pull request is after it.
Event(k, p) ==
    [kind |-> k, pr |-> p, head |-> github'[p].head, draft |-> github'[p].draft,
     asked |-> github'[p].asked, body |-> "none", self |-> p \in Own]

Changes(p, k, pull) ==
    /\ changes < MaxChanges
    /\ changes' = changes + 1
    /\ github' = [github EXCEPT ![p] = pull]
    /\ sent' = sent \cup {Event(k, p)}
    /\ UNCHANGED <<up, memory, table, heard, missed, faults, crashes>>

Open(p) ==
    /\ github[p].state = "none"
    /\ \E d \in BOOLEAN : Changes(p, "opened", [github[p] EXCEPT !.state = "open", !.draft = d])

Push(p) ==
    /\ IsOpen(p)
    /\ github[p].head < MaxHeads
    /\ Changes(p, "synchronize", [github[p] EXCEPT !.head = @ + 1])

MarkReady(p) ==
    /\ IsOpen(p)
    /\ github[p].draft
    /\ Changes(p, "ready_for_review", [github[p] EXCEPT !.draft = FALSE])

\* The self account is asked for a review, or somebody else is.
AskReviewer(p) ==
    /\ IsOpen(p)
    /\ \E a \in BOOLEAN : Changes(p, "review_requested", [github[p] EXCEPT !.asked = @ \/ a])

Close(p) ==
    /\ IsOpen(p)
    /\ Changes(p, "closed", [github[p] EXCEPT !.state = "closed"])

Reopen(p) ==
    /\ github[p].state = "closed"
    /\ Changes(p, "reopened", [github[p] EXCEPT !.state = "reopened"])

Spoken(p, b, s) ==
    /\ changes < MaxChanges
    /\ changes' = changes + 1
    /\ heard' = IF s THEN heard \cup {<<p, b>>} ELSE heard
    /\ UNCHANGED <<github, up, todo, listing, table, missed, faults, crashes>>

CommentEvent(p, b, s) ==
    [kind |-> "issue_comment", pr |-> p, head |-> github[p].head, draft |-> FALSE,
     asked |-> FALSE, body |-> b, self |-> s]

\* A comment by the self account; one by somebody else is skipped whatever it says.
Say(p) ==
    /\ github[p].state # "none"
    /\ \E b \in {"command", "other"}, s \in BOOLEAN :
         /\ s \/ b = "command"
         /\ Spoken(p, b, s)
         /\ sent' = sent \cup {CommentEvent(p, b, s)}
    /\ UNCHANGED tasks

\* The gate comments on a run it rejects, under the self account: "This review run will
\* not proceed until CI is green.", "CI hasn't completed; no review run".
AgentSays(p) ==
    /\ up
    /\ \E h \in Heads : <<p, h>> \in rows
    /\ Spoken(p, "notice", TRUE)
    /\ sent' = sent \cup {CommentEvent(p, "notice", TRUE)}
    /\ UNCHANGED tasks

-----------------------------------------------------------------------------
(* trigger.py and command.py *)

\* Mutant: drafts are reviewed whoever wrote them.
DecidesDrafts(e) ==
    /\ \/ e.self /\ e.kind \in Asking
       \/ e.kind = "review_requested" /\ e.asked
    /\ RepoOf[e.pr] \in Managed
    /\ RepoOf[e.pr] \notin Denied

\* _decide_inner of an event of a pull request: is it "enqueue"?
DecidesEnqueue(e) ==
    /\ e.draft => e.self
    /\ \/ e.self /\ e.kind \in Asking
       \/ e.kind = "review_requested" /\ e.asked
    /\ RepoOf[e.pr] \in Managed
    /\ RepoOf[e.pr] \notin Denied

\* _decide_inner of a comment of the self account: is it "reply" with a command?  A
\* malformed one is answered on no pull request, which raises and changes nothing.
DecidesCommand(e) == e.kind = "issue_comment" /\ e.self /\ e.body \in {"command", "notice"}

-----------------------------------------------------------------------------
(* The table *)

\* Mutant: the run of a head is inserted again.
FreshAlways(run) == TRUE

\* INSERT OR IGNORE
Fresh(run) == run \notin rows

Insert(S) ==
    LET new == {run \in S : Fresh(run)} IN
    /\ rows' = rows \cup new
    /\ requested' = requested \cup new
    /\ repeated' = repeated \cup (new \cap requested)

\* The DELETE and INSERT of a comment; the command names no head.
Replace(p) ==
    /\ rows' = {run \in rows : run[1] # p} \cup {<<p, NoHead>>}
    /\ requested' = requested \cup {<<p, NoHead>>}
    /\ repeated' = repeated \cup ({<<p, NoHead>>} \cap requested)

-----------------------------------------------------------------------------
(* handler.py and dispatcher.py *)

Accepts(e) == e.kind \in Supported

\* An event arrives, is acknowledged and gets a task; GitHub may deliver it again.
Deliver(e) ==
    /\ up
    /\ tasks' = IF Accepts(e) THEN tasks \cup {e} ELSE tasks
    /\ \/ sent' = sent \ {e} /\ UNCHANGED faults
       \/ faults < MaxFaults /\ faults' = faults + 1 /\ UNCHANGED sent
    /\ UNCHANGED <<github, up, todo, listing, table, heard, missed, changes, crashes>>

\* Heads whose request is lost with the events S.
HeadsOf(S) == {<<e.pr, e.head>> : e \in {x \in S : DecidesEnqueue(x)}}

\* A delivery fails: the process is down, or the tunnel or the network is.
Lose(e) ==
    /\ \/ ~up /\ UNCHANGED faults
       \/ up /\ faults < MaxFaults /\ faults' = faults + 1
    /\ sent' = sent \ {e}
    /\ missed' = missed \cup HeadsOf({e})
    /\ UNCHANGED <<github, up, memory, table, heard, changes, crashes>>

\* dispatch and what it calls run without an await that waits.
Dispatch(e) ==
    /\ \/ DecidesEnqueue(e) /\ Insert({<<e.pr, e.head>>})
       \/ DecidesCommand(e) /\ Replace(e.pr)
       \/ ~DecidesEnqueue(e) /\ ~DecidesCommand(e) /\ UNCHANGED table
    /\ tasks' = tasks \ {e}
    /\ UNCHANGED <<github, sent, up, todo, listing, heard, missed, changes, faults, crashes>>

\* A message in Slack that names a number, or the choice of a repository: an event of
\* the self account, handed to dispatch in a task, whatever the message says.
SlackCommand(p) ==
    /\ up
    /\ RepoOf[p] \in Managed
    /\ \E b \in {"command", "other"} :
         /\ Spoken(p, b, TRUE)
         /\ tasks' = tasks \cup {CommentEvent(p, b, TRUE)}
    /\ UNCHANGED sent

-----------------------------------------------------------------------------
(* backfill.py *)

\* Pull requests of a repository that list_open_prs returns: one page, newest first.
Listed(q) ==
    {p \in PRs : /\ RepoOf[p] = q
                 /\ IsOpen(p)
                 /\ Cardinality({n \in PRs : n > p /\ RepoOf[n] = q /\ IsOpen(n)}) < PageSize}

\* GitHub answers; the answer is on its way while the pull requests go on changing.
List(q) ==
    /\ listing = {}
    /\ q \in todo
    /\ todo' = todo \ {q}
    /\ listing' = {<<p, github[p].head>> : p \in Listed(q)}
    /\ missed' = missed \ listing'
    /\ UNCHANGED <<github, sent, up, tasks, table, heard, changes, faults, crashes>>

\* list_open_prs raises: the repository is passed over.
ListFails(q) ==
    /\ listing = {}
    /\ q \in todo
    /\ faults < MaxFaults
    /\ faults' = faults + 1
    /\ todo' = todo \ {q}
    /\ UNCHANGED <<github, sent, up, tasks, listing, table, heard, missed, changes, crashes>>

\* Mutant: any run of the pull request counts.
HasRunOfPull(p, h) == \E run \in rows : run[1] = p

\* has_run_for_head
HasRun(p, h) == <<p, h>> \in rows

\* The event the backfill makes of a listed pull request: opened, and no draft.
ListedEvent(p, h) ==
    [kind |-> "opened", pr |-> p, head |-> h, draft |-> FALSE, asked |-> github[p].asked,
     body |-> "none", self |-> p \in Own]

\* The loop over the listed pull requests awaits nothing that waits.
Backfill ==
    /\ listing # {}
    /\ Insert({run \in listing : /\ ~HasRun(run[1], run[2])
                                 /\ DecidesEnqueue(ListedEvent(run[1], run[2]))})
    /\ listing' = {}
    /\ UNCHANGED <<github, sent, up, tasks, todo, heard, missed, changes, faults, crashes>>

-----------------------------------------------------------------------------
(* Stop and start *)

Crash ==
    /\ up
    /\ crashes < MaxCrashes
    /\ crashes' = crashes + 1
    /\ up' = FALSE
    /\ tasks' = {}
    /\ todo' = {}
    /\ listing' = {}
    /\ missed' = missed \cup HeadsOf(tasks) \cup listing
    /\ UNCHANGED <<github, sent, table, heard, changes, faults>>

\* Mutant: the backfill runs at the first start only.
BootWithoutBackfill ==
    /\ ~up
    /\ up' = TRUE
    /\ UNCHANGED <<github, sent, memory, table, heard, missed, changes, faults, crashes>>

Boot ==
    /\ ~up
    /\ up' = TRUE
    /\ todo' = Managed
    /\ UNCHANGED <<github, sent, tasks, listing, table, heard, missed, changes, faults, crashes>>

Change(p) ==
    \/ Open(p) \/ Push(p) \/ MarkReady(p) \/ AskReviewer(p) \/ Close(p) \/ Reopen(p)
    \/ Say(p) \/ AgentSays(p) \/ SlackCommand(p)

Next ==
    \/ \E p \in PRs : Change(p)
    \/ \E e \in sent : Deliver(e) \/ Lose(e)
    \/ \E e \in tasks : Dispatch(e)
    \/ \E q \in Repos : List(q) \/ ListFails(q)
    \/ Backfill
    \/ Crash
    \/ Boot

Spec == Init /\ [][Next]_vars

-----------------------------------------------------------------------------
(* Safety *)

\* The pull requests REQ-002 names first: by the self account, in a reviewed repository.
Wanted == {p \in Own : RepoOf[p] \in Managed \ Denied}

\* An event on the way to a request of the head.
OnItsWay(p, h) ==
    \E e \in sent \cup tasks : DecidesEnqueue(e) /\ e.pr = p /\ e.head = h

\* An acknowledged event is a task in memory, and the backfill looks at heads that may
\* move while it waits: the head of a pull request is requested all the same, or will
\* be, unless its event was lost and GitHub has not listed it since.
NoHeadIsForgotten ==
    \A p \in Wanted :
        github[p].state # "none" =>
            \/ <<p, github[p].head>> \in requested \cup listing \cup missed
            \/ OnItsWay(p, github[p].head)

\* Events arrive late, twice and out of order, and the backfill makes events of its own:
\* a head is requested for one of two reasons, neither of them a draft of somebody else
\* (REQ-018), and a run without a head only if the self account spoke.
RequestsAreWarranted ==
    \A run \in rows :
        \/ /\ run[2] # NoHead
           /\ run[2] <= github[run[1]].head
           /\ run[1] \in Own \/ (github[run[1]].asked /\ ~github[run[1]].draft)
           /\ RepoOf[run[1]] \in Managed \ Denied
        \/ /\ run[2] = NoHead
           /\ \E b \in Bodies : <<run[1], b>> \in heard

\* Repeated deliveries, the backfill and a restart do not request a head twice; only a
\* comment, which deletes the rows of its pull request, makes that possible (REQ-004).
RequestedOnce == \A run \in repeated : <<run[1], NoHead>> \in requested

\* Claimed by filter/command.py:4, "A body with no @review token yields None".  The gate's
\* notices have none, and come back as comments of the self account: a run is deleted
\* only if somebody else than the agent commanded it, on GitHub or in Slack.
RunsAreReplacedOnRequest ==
    \A run \in requested \ rows : <<run[1], "command">> \in heard

-----------------------------------------------------------------------------
(* What makes the invariants above inductive *)

\* What is under way was true of its pull request once, and still is: heads only grow, a
\* reviewer stays asked, a draft that was marked ready stays ready.
EventsAreTrue ==
    \A e \in sent \cup tasks :
        /\ e.kind # "issue_comment" =>
              /\ e.self = (e.pr \in Own)
              /\ e.head <= github[e.pr].head
              /\ e.asked /\ ~e.draft => github[e.pr].asked /\ ~github[e.pr].draft
        /\ e.kind = "issue_comment" /\ e.self => <<e.pr, e.body>> \in heard

\* Nobody is asked to review what is not open yet.
UnopenedIsUnasked == \A p \in PRs : github[p].state = "none" => ~github[p].asked

\* What was listed is a head the pull request had.
ListingIsTrue == \A run \in listing : run[2] <= github[run[1]].head

\* What is in the table was requested.
RowsAreRequested == rows \subseteq requested

\* What a comment did not delete is in the table still.
RequestedIsKept ==
    \A run \in requested : run \in rows \/ <<run[1], NoHead>> \in requested

\* A stopped process has no tasks.
DownIsEmpty == ~up => tasks = {} /\ todo = {} /\ listing = {}

IInv ==
    /\ TypeOK
    /\ NoHeadIsForgotten
    /\ RequestsAreWarranted
    /\ RequestedOnce
    /\ EventsAreTrue
    /\ UnopenedIsUnasked
    /\ ListingIsTrue
    /\ RowsAreRequested
    /\ RequestedIsKept
    /\ DownIsEmpty

-----------------------------------------------------------------------------
(* Each head of a wanted pull request has the life HeadLife describes. *)

Standing(p, h) ==
    CASE <<p, h>> \in rows -> "run"
      [] <<p, h>> \in requested \ rows -> "replaced"
      [] <<p, h>> \notin requested /\ (OnItsWay(p, h) \/ <<p, h>> \in listing) -> "due"
      [] <<p, h>> \in missed \ (requested \cup listing) /\ ~OnItsWay(p, h) -> "missed"
      [] OTHER -> "unknown"

Life(p, h) == INSTANCE HeadLife WITH standing <- Standing(p, h)

\* Deliveries fail, come twice and out of order, the backfill lists what is under way, and
\* stops take what was acknowledged: no head, current or not, is dropped between the event
\* and the table, none enters it out of nothing, and none leaves it but by a comment.
EachHeadIsFollowed ==
    /\ \A p \in Wanted, h \in Heads : Life(p, h)!HInit
    /\ [][\A p \in Wanted, h \in Heads : [Life(p, h)!HNext]_(Standing(p, h))]_vars

-----------------------------------------------------------------------------
(* Liveness *)

\* GitHub delivers, or fails; tasks run; the backfill comes to its end; a stopped process
\* is started again (compose.yaml: restart: unless-stopped).
Fairness ==
    /\ WF_vars(Boot)
    /\ WF_vars(Backfill)
    /\ \A q \in Repos : WF_vars(List(q) \/ ListFails(q))
    /\ WF_vars(\E e \in sent : Deliver(e) \/ Lose(e))
    /\ WF_vars(\E e \in tasks : Dispatch(e))

FairSpec == Spec /\ Fairness

\* Stops lose deliveries and tasks, and the backfill makes up for them: the head of a
\* pull request is requested, or moves on, or the pull request is closed.  (After
\* "reopened", which is no supported action, a head missed before is not requested.)
EveryHeadIsRequested ==
    \A p \in Wanted, h \in Heads :
        github[p].state = "open" /\ github[p].head = h
            ~> <<p, h>> \in requested \/ github[p].state # "open" \/ github[p].head # h
=============================================================================
