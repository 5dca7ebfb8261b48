----------------------------- MODULE IntakeProofs -----------------------------
(***************************************************************************)
(* Intake, proved for every set of pull requests and repositories, page    *)
(* size, and number of changes, failed deliveries and stops: no head is    *)
(* forgotten, and none is requested without a reason or twice.             *)
(***************************************************************************)
EXTENDS Intake, TLAPS

Pulls == [state : States, head : Heads, draft : BOOLEAN, asked : BOOLEAN]

LEMMA HeadsAreIntegers == Heads \subseteq Int
  BY DEF Heads

\* The bounds are natural numbers.
LEMMA BoundsAreNatural ==
    MaxHeads \in Nat /\ MaxChanges \in Nat /\ MaxFaults \in Nat /\ MaxCrashes \in Nat
  BY IntakeAssumption

-----------------------------------------------------------------------------
(* What the environment does *)

\* How a pull request may change, with the event GitHub sends: its head does not go
\* back, it does not become unasked or a draft again, and an event that asks for no
\* review comes with the head it had.
Progress(p, k, pull) ==
    /\ pull \in Pulls
    /\ pull.state # "none"
    /\ github[p].head <= pull.head
    /\ github[p].asked /\ ~github[p].draft => pull.asked /\ ~pull.draft
    /\ k \in Kinds \ {"issue_comment"}
    /\ k \in Asking \/ (github[p].state # "none" /\ pull.head = github[p].head)

PullChange(p) == Open(p) \/ Push(p) \/ MarkReady(p) \/ AskReviewer(p) \/ Close(p) \/ Reopen(p)

\* Somebody writes something, on GitHub or in Slack.
Speak(p) == Say(p) \/ AgentSays(p) \/ SlackCommand(p)

\* Every change of a pull request is progress.
LEMMA ChangesAreProgress ==
    ASSUME TypeOK, UnopenedIsUnasked, NEW p \in PRs, PullChange(p)
    PROVE  \E k \in Kinds, pull \in Pulls : Changes(p, k, pull) /\ Progress(p, k, pull)
  <1>0. github[p] \in Pulls
    BY DEF TypeOK, Pulls
  <1>h. github[p].head <= github[p].head
    BY <1>0 DEF Pulls, Heads
  <1>k. /\ Asking \subseteq Kinds \ {"issue_comment"}
        /\ {"review_requested", "closed", "reopened"} \subseteq Kinds \ {"issue_comment"}
    BY DEF Kinds, Supported, Asking
  <1>1. CASE Open(p)
    <2>1. PICK d \in BOOLEAN : Changes(p, "opened", [github[p] EXCEPT !.state = "open", !.draft = d])
      BY <1>1 DEF Open
    <2>2. github[p].state = "none" /\ ~github[p].asked
      BY <1>1 DEF Open, UnopenedIsUnasked
    <2> DEFINE pull == [github[p] EXCEPT !.state = "open", !.draft = d]
    <2>3. pull \in Pulls /\ pull.state # "none" /\ pull.head = github[p].head
      BY <1>0 DEF Pulls, States
    <2>4. "opened" \in Asking
      BY DEF Asking
    <2>5. Progress(p, "opened", pull)
      BY <1>k, <1>h, <2>2, <2>3, <2>4 DEF Progress
    <2>6. Changes(p, "opened", pull)
      BY <2>1
    <2> HIDE DEF pull
    <2> QED
      BY <2>3, <2>5, <2>6, <1>k DEF Asking
  <1>2. CASE Push(p)
    <2>1. github[p].head + 1 \in Heads /\ github[p].head <= github[p].head + 1 /\ github[p].state # "none"
      BY BoundsAreNatural, <1>0, <1>2 DEF Push, Pulls, Heads, IsOpen
    <2>2. Changes(p, "synchronize", [github[p] EXCEPT !.head = @ + 1])
      BY <1>2 DEF Push
    <2>3. Progress(p, "synchronize", [github[p] EXCEPT !.head = @ + 1])
      BY <1>0, <1>k, <2>1 DEF Progress, Pulls, Asking
    <2> QED
      BY <2>2, <2>3, <1>k DEF Progress
  <1>3. CASE MarkReady(p)
    <2>1. Changes(p, "ready_for_review", [github[p] EXCEPT !.draft = FALSE]) /\ github[p].state # "none"
      BY <1>3 DEF MarkReady, IsOpen
    <2> DEFINE pull == [github[p] EXCEPT !.draft = FALSE]
    <2>2. pull \in Pulls /\ pull.state # "none" /\ pull.head = github[p].head
      BY <1>0, <2>1 DEF Pulls
    <2>3. pull.asked = github[p].asked /\ ~pull.draft
      BY <1>0 DEF Pulls
    <2>4. "ready_for_review" \in Asking
      BY DEF Asking
    <2>5. Progress(p, "ready_for_review", pull)
      BY <1>k, <1>h, <2>2, <2>3, <2>4 DEF Progress
    <2>6. Changes(p, "ready_for_review", pull)
      BY <2>1
    <2> HIDE DEF pull
    <2> QED
      BY <2>2, <2>5, <2>6, <1>k DEF Asking
  <1>4. CASE AskReviewer(p)
    <2>1. PICK a \in BOOLEAN : Changes(p, "review_requested", [github[p] EXCEPT !.asked = @ \/ a])
      BY <1>4 DEF AskReviewer
    <2>2. github[p].state # "none"
      BY <1>4 DEF AskReviewer, IsOpen
    <2>3. (github[p].asked \/ a) \in BOOLEAN /\ (github[p].asked => (github[p].asked \/ a))
      OBVIOUS
    <2>4. Progress(p, "review_requested", [github[p] EXCEPT !.asked = @ \/ a])
      BY <1>0, <1>k, <2>2, <2>3 DEF Progress, Pulls, Heads
    <2> QED
      BY <2>1, <2>4, <1>k DEF Progress
  <1>5. CASE Close(p)
    <2>1. Changes(p, "closed", [github[p] EXCEPT !.state = "closed"]) /\ github[p].state # "none"
      BY <1>5 DEF Close, IsOpen
    <2>2. Progress(p, "closed", [github[p] EXCEPT !.state = "closed"])
      BY <1>0, <1>k, <2>1 DEF Progress, Pulls, Heads, States
    <2> QED
      BY <2>1, <2>2, <1>k DEF Progress
  <1>6. CASE Reopen(p)
    <2>1. Changes(p, "reopened", [github[p] EXCEPT !.state = "reopened"]) /\ github[p].state # "none"
      BY <1>6 DEF Reopen
    <2>2. Progress(p, "reopened", [github[p] EXCEPT !.state = "reopened"])
      BY <1>0, <1>k, <2>1 DEF Progress, Pulls, Heads, States
    <2> QED
      BY <2>1, <2>2, <1>k DEF Progress
  <1> QED
    BY <1>1, <1>2, <1>3, <1>4, <1>5, <1>6 DEF PullChange

\* What a change leaves behind: the pull request, its event, and nothing else.
LEMMA ChangeFacts ==
    ASSUME TypeOK, NEW p \in PRs, NEW k \in Kinds, NEW pull \in Pulls,
           Changes(p, k, pull), Progress(p, k, pull)
    PROVE  /\ github' \in [PRs -> Pulls]
           /\ github'[p] = pull
           /\ sent' = sent \cup {Event(k, p)}
           /\ Event(k, p) \in Events
           /\ Event(k, p).kind = k /\ Event(k, p).pr = p /\ Event(k, p).self = (p \in Own)
           /\ Event(k, p).head = pull.head /\ Event(k, p).draft = pull.draft /\ Event(k, p).asked = pull.asked
           /\ changes' \in 0 .. MaxChanges
           /\ UNCHANGED <<up, tasks, todo, listing, rows, requested, repeated, heard, missed, faults, crashes>>
  <1>1. github' \in [PRs -> Pulls] /\ github'[p] = pull
    BY DEF Changes, TypeOK, Pulls
  <1>2. sent' = sent \cup {Event(k, p)}
    BY DEF Changes
  <1>3. /\ Event(k, p).kind = k /\ Event(k, p).pr = p /\ Event(k, p).self = (p \in Own)
        /\ Event(k, p).head = pull.head /\ Event(k, p).draft = pull.draft /\ Event(k, p).asked = pull.asked
    BY <1>1 DEF Event
  <1>4. Event(k, p) \in Events
    <2>1. pull.head \in Heads /\ pull.draft \in BOOLEAN /\ pull.asked \in BOOLEAN /\ (p \in Own) \in BOOLEAN
      BY DEF Pulls
    <2> QED
      BY <1>1, <2>1 DEF Event, Events, Bodies
  <1>5. changes' \in 0 .. MaxChanges
    BY BoundsAreNatural DEF Changes, TypeOK
  <1> QED
    BY <1>1, <1>2, <1>3, <1>4, <1>5 DEF Changes, memory, table

\* The other pull requests stay as they are.
LEMMA OthersStand ==
    ASSUME TypeOK, NEW p \in PRs, NEW q \in PRs, NEW k \in Kinds, NEW pull \in Pulls,
           Changes(p, k, pull), q # p
    PROVE  github'[q] = github[q]
  BY DEF Changes, TypeOK

\* What is said becomes an event on GitHub, or a task at once.
LEMMA SpeakFacts ==
    ASSUME TypeOK, NEW p \in PRs, Speak(p)
    PROVE  \E b \in Bodies, s \in BOOLEAN :
              LET e == CommentEvent(p, b, s) IN
              /\ e \in Events
              /\ sent' \in {sent, sent \cup {e}} /\ tasks' \in {tasks, tasks \cup {e}}
              /\ s => <<p, b>> \in heard'
              /\ heard \subseteq heard' /\ heard' \in SUBSET (PRs \X Bodies)
              /\ changes' \in 0 .. MaxChanges
              /\ tasks' # tasks => up
              /\ UNCHANGED <<github, up, todo, listing, rows, requested, repeated, missed, faults, crashes>>
  <1>1. ASSUME NEW b \in Bodies, NEW s \in BOOLEAN, Spoken(p, b, s)
        PROVE  /\ CommentEvent(p, b, s) \in Events
               /\ s => <<p, b>> \in heard'
               /\ heard \subseteq heard' /\ heard' \in SUBSET (PRs \X Bodies)
               /\ changes' \in 0 .. MaxChanges
               /\ UNCHANGED <<github, up, todo, listing, rows, requested, repeated, missed, faults, crashes>>
    <2>1. CommentEvent(p, b, s) \in Events
      BY DEF CommentEvent, Events, TypeOK, Kinds, Supported
    <2>2. changes' \in 0 .. MaxChanges
      BY BoundsAreNatural, <1>1 DEF Spoken, TypeOK
    <2> QED
      BY <1>1, <2>1, <2>2 DEF Spoken, table, TypeOK
  <1>2. CASE Say(p)
    <2>1. PICK b \in Bodies, s \in BOOLEAN : Spoken(p, b, s) /\ sent' = sent \cup {CommentEvent(p, b, s)}
      BY <1>2 DEF Say, Bodies
    <2> QED
      BY <1>1, <1>2, <2>1 DEF Say
  <1>3. CASE AgentSays(p)
    <2>1. "notice" \in Bodies
      BY DEF Bodies
    <2> QED
      BY <1>1, <1>3, <2>1 DEF AgentSays
  <1>4. CASE SlackCommand(p)
    <2>1. PICK b \in Bodies : Spoken(p, b, TRUE) /\ tasks' = tasks \cup {CommentEvent(p, b, TRUE)}
      BY <1>4 DEF SlackCommand, Bodies
    <2> QED
      BY <1>1, <1>4, <2>1 DEF SlackCommand
  <1> QED
    BY <1>2, <1>3, <1>4 DEF Speak

-----------------------------------------------------------------------------
(* What the table does *)

\* INSERT OR IGNORE keeps what is there, and afterwards all of S was requested.
LEMMA InsertFacts ==
    ASSUME NEW S, Insert(S), RowsAreRequested
    PROVE  /\ rows \subseteq rows' /\ rows' \subseteq rows \cup S
           /\ requested \subseteq requested' /\ requested' \subseteq requested \cup S
           /\ S \subseteq requested'
           /\ repeated' \subseteq repeated \cup (requested \ rows)
           /\ rows' \subseteq requested' /\ requested' \subseteq requested \cup rows'
  BY DEF Insert, Fresh, RowsAreRequested

\* A comment leaves one run of its pull request, which has no head.
LEMMA ReplaceFacts ==
    ASSUME NEW p, Replace(p), RowsAreRequested
    PROVE  /\ <<p, NoHead>> \in rows' /\ <<p, NoHead>> \in requested'
           /\ rows' \subseteq rows \cup {<<p, NoHead>>}
           /\ \A run \in rows : run[1] # p => run \in rows'
           /\ requested' = requested \cup {<<p, NoHead>>}
           /\ repeated' \subseteq repeated \cup {<<p, NoHead>>}
           /\ rows' \subseteq requested'
  BY DEF Replace, RowsAreRequested

\* What an event that asks for a review is.
LEMMA EnqueueFacts ==
    ASSUME NEW e \in Events, DecidesEnqueue(e)
    PROVE  /\ e.kind \in Supported /\ e.kind # "issue_comment"
           /\ <<e.pr, e.head>> \in Runs /\ e.head # NoHead /\ <<e.pr, e.head>> \in PRs \X Heads
           /\ RepoOf[e.pr] \in Managed \ Denied
           /\ e.self \/ (e.asked /\ ~e.draft)
           /\ Accepts(e)
  <1>1. e.pr \in PRs /\ e.head \in Heads /\ e.draft \in BOOLEAN /\ e.self \in BOOLEAN
    BY DEF Events
  <1>2. e.kind \in Supported /\ e.kind # "issue_comment"
    BY DEF DecidesEnqueue, Supported, Asking
  <1>3. e.head # NoHead
    BY <1>1 DEF Heads, NoHead
  <1> QED
    BY <1>1, <1>2, <1>3 DEF DecidesEnqueue, Runs, Accepts

\* The event of a listed pull request of the self account asks for a review; that of
\* another one never does.
LEMMA ListedFacts ==
    ASSUME NEW p \in PRs, NEW h \in Heads
    PROVE  /\ p \in Wanted => DecidesEnqueue(ListedEvent(p, h))
           /\ DecidesEnqueue(ListedEvent(p, h)) => p \in Wanted
  BY DEF DecidesEnqueue, ListedEvent, Wanted, Asking

\* The runs the backfill inserts.
ToInsert == {run \in listing : /\ ~HasRun(run[1], run[2])
                               /\ DecidesEnqueue(ListedEvent(run[1], run[2]))}

LEMMA ToInsertFacts ==
    ASSUME TypeOK
    PROVE  /\ ToInsert \subseteq Runs
           /\ \A run \in ToInsert : run \in listing /\ run[1] \in Wanted /\ run[2] # NoHead
           /\ \A p \in Wanted : \A h : <<p, h>> \in listing => <<p, h>> \in rows \cup ToInsert
  <1>1. \A run \in listing : run[1] \in PRs /\ run[2] \in Heads /\ run = <<run[1], run[2]>>
    BY DEF TypeOK
  <1>2. \A h \in Heads : h # NoHead
    BY DEF Heads, NoHead
  <1>3. ToInsert \subseteq Runs
    BY <1>1 DEF ToInsert, Runs
  <1>4. \A run \in ToInsert : run \in listing /\ run[1] \in Wanted /\ run[2] # NoHead
    BY <1>1, <1>2, ListedFacts DEF ToInsert
  <1>5. ASSUME NEW p \in Wanted, NEW h, <<p, h>> \in listing PROVE <<p, h>> \in rows \cup ToInsert
    <2>1. p \in PRs /\ h \in Heads
      BY <1>1, <1>5
    <2>2. DecidesEnqueue(ListedEvent(p, h))
      BY <2>1, ListedFacts
    <2> QED
      BY <1>5, <2>2 DEF ToInsert, HasRun
  <1> QED
    BY <1>3, <1>4, <1>5

\* What is listed is a pull request with its head.
Page(q) == {<<p, github[p].head>> : p \in Listed(q)}

LEMMA PageFacts ==
    ASSUME TypeOK, NEW q
    PROVE  /\ Page(q) \subseteq PRs \X Heads
           /\ \A run \in Page(q) : run[1] \in PRs /\ run[2] = github[run[1]].head
  <1>1. Listed(q) \subseteq PRs
    BY Zenon DEF Listed
  <1>2. \A p \in PRs : github[p].head \in Heads
    BY DEF TypeOK
  <1> QED
    BY <1>1, <1>2 DEF Page

-----------------------------------------------------------------------------
(* Types *)

\* Every step keeps every variable in its type.
LEMMA TypeStep == TypeOK /\ UnopenedIsUnasked /\ RowsAreRequested /\ [Next]_vars => TypeOK'
  <1> SUFFICES ASSUME TypeOK, UnopenedIsUnasked, RowsAreRequested, [Next]_vars PROVE TypeOK'
    OBVIOUS
  <1>1. ASSUME NEW p \in PRs, PullChange(p) PROVE TypeOK'
    <2>1. PICK k \in Kinds, pull \in Pulls : Changes(p, k, pull) /\ Progress(p, k, pull)
      BY <1>1, ChangesAreProgress
    <2>2. /\ github' \in [PRs -> Pulls] /\ sent' = sent \cup {Event(k, p)} /\ Event(k, p) \in Events
          /\ changes' \in 0 .. MaxChanges
          /\ UNCHANGED <<up, tasks, todo, listing, rows, requested, repeated, heard, missed, faults, crashes>>
      BY <2>1, ChangeFacts
    <2> QED
      BY <2>2 DEF TypeOK, Pulls
  <1>2. ASSUME NEW p \in PRs, Speak(p) PROVE TypeOK'
    <2>1. PICK b \in Bodies, s \in BOOLEAN :
              /\ CommentEvent(p, b, s) \in Events
              /\ sent' \in {sent, sent \cup {CommentEvent(p, b, s)}}
              /\ tasks' \in {tasks, tasks \cup {CommentEvent(p, b, s)}}
              /\ heard' \in SUBSET (PRs \X Bodies)
              /\ changes' \in 0 .. MaxChanges
              /\ UNCHANGED <<github, up, todo, listing, rows, requested, repeated, missed, faults, crashes>>
      BY <1>2, SpeakFacts
    <2>2. sent' \in SUBSET Events /\ tasks' \in SUBSET Events
      BY <2>1 DEF TypeOK
    <2> QED
      BY <2>1, <2>2 DEF TypeOK
  <1>3. ASSUME NEW e \in sent, Deliver(e) PROVE TypeOK'
    <2>1. e \in Events
      BY DEF TypeOK
    <2>2. sent' \in SUBSET Events /\ tasks' \in SUBSET Events /\ faults' \in 0 .. MaxFaults
      BY BoundsAreNatural, <1>3, <2>1 DEF Deliver, TypeOK
    <2> QED
      BY <1>3, <2>2 DEF Deliver, TypeOK, table
  <1>4. ASSUME NEW e \in sent, Lose(e) PROVE TypeOK'
    <2>1. HeadsOf({e}) \subseteq PRs \X Heads
      BY EnqueueFacts DEF HeadsOf, TypeOK
    <2>2. faults' \in 0 .. MaxFaults
      BY BoundsAreNatural, <1>4 DEF Lose, TypeOK
    <2>3. sent' \in SUBSET Events /\ missed' \in SUBSET (PRs \X Heads)
      BY <1>4, <2>1 DEF Lose, TypeOK
    <2> QED
      BY <1>4, <2>2, <2>3 DEF Lose, TypeOK, table, memory
  <1>5. ASSUME NEW e \in tasks, Dispatch(e) PROVE TypeOK'
    <2>1. e \in Events /\ e.pr \in PRs
      BY DEF TypeOK, Events
    <2>2. rows' \in SUBSET Runs /\ requested' \in SUBSET Runs /\ repeated' \in SUBSET Runs
      <3>1. CASE DecidesEnqueue(e) /\ Insert({<<e.pr, e.head>>})
        BY <2>1, <3>1, EnqueueFacts, InsertFacts DEF TypeOK
      <3>2. CASE Replace(e.pr)
        <4>1. <<e.pr, NoHead>> \in Runs
          BY <2>1 DEF Runs
        <4> QED
          BY <3>2, <4>1, ReplaceFacts DEF TypeOK
      <3>3. CASE UNCHANGED table
        BY <3>3 DEF table, TypeOK
      <3> QED
        BY <1>5, <3>1, <3>2, <3>3 DEF Dispatch
    <2>3. tasks' \in SUBSET Events
      BY <1>5 DEF Dispatch, TypeOK
    <2>4. UNCHANGED <<github, sent, up, todo, listing, heard, missed, changes, faults, crashes>>
      BY <1>5 DEF Dispatch
    <2> QED
      BY <2>2, <2>3, <2>4 DEF TypeOK
  <1>6. ASSUME NEW q \in Repos, List(q) \/ ListFails(q) PROVE TypeOK'
    <2>1. Page(q) \subseteq PRs \X Heads
      BY PageFacts
    <2>2. /\ listing' \in SUBSET (PRs \X Heads) /\ missed' \in SUBSET (PRs \X Heads)
          /\ todo' \in SUBSET Repos
      BY <1>6, <2>1 DEF List, ListFails, TypeOK, Page
    <2>3. faults' \in 0 .. MaxFaults
      BY BoundsAreNatural, <1>6 DEF List, ListFails, TypeOK
    <2> QED
      BY <1>6, <2>2, <2>3 DEF List, ListFails, TypeOK, table
  <1>7. CASE Backfill
    <2>1. Insert(ToInsert)
      BY <1>7 DEF Backfill, ToInsert
    <2>2. rows' \in SUBSET Runs /\ requested' \in SUBSET Runs /\ repeated' \in SUBSET Runs
      BY <2>1, InsertFacts, ToInsertFacts DEF TypeOK
    <2> QED
      BY <1>7, <2>2 DEF Backfill, TypeOK
  <1>8. CASE Crash
    <2>1. HeadsOf(tasks) \subseteq PRs \X Heads
      BY EnqueueFacts DEF HeadsOf, TypeOK
    <2>2. crashes' \in 0 .. MaxCrashes
      BY BoundsAreNatural, <1>8 DEF Crash, TypeOK
    <2>3. missed' \in SUBSET (PRs \X Heads)
      BY <1>8, <2>1 DEF Crash, TypeOK
    <2> QED
      BY <1>8, <2>2, <2>3 DEF Crash, TypeOK, table
  <1>9. CASE Boot
    BY IntakeAssumption, <1>9 DEF Boot, TypeOK, table
  <1>10. CASE UNCHANGED vars
    BY <1>10 DEF vars, TypeOK, memory, table
  <1> QED
    BY <1>1, <1>2, <1>3, <1>4, <1>5, <1>6, <1>7, <1>8, <1>9, <1>10 DEF Next, Change, PullChange, Speak

-----------------------------------------------------------------------------
(* Events, listings and rows are true of their pull requests *)

Truth == EventsAreTrue /\ UnopenedIsUnasked /\ ListingIsTrue /\ DownIsEmpty

\* What EventsAreTrue says of one event, of pull requests g and what was heard, s.
TrueOf(e, g, s) ==
    /\ e.kind # "issue_comment" =>
          /\ e.self = (e.pr \in Own)
          /\ e.head <= g[e.pr].head
          /\ e.asked /\ ~e.draft => g[e.pr].asked /\ ~g[e.pr].draft
    /\ e.kind = "issue_comment" /\ e.self => <<e.pr, e.body>> \in s

\* Pull requests make progress, and what was heard stays heard.
Onward ==
    /\ \A p \in PRs : /\ github[p].head <= github'[p].head
                      /\ github[p].asked /\ ~github[p].draft => github'[p].asked /\ ~github'[p].draft
    /\ heard \subseteq heard'

\* A step that does not touch pull requests is onward.
LEMMA StandingIsOnward ==
    ASSUME TypeOK, UNCHANGED github, heard \subseteq heard'
    PROVE  Onward
  BY DEF Onward, TypeOK, Heads

\* A change of a pull request is onward.
LEMMA ChangeIsOnward ==
    ASSUME TypeOK, NEW p \in PRs, NEW k \in Kinds, NEW pull \in Pulls,
           Changes(p, k, pull), Progress(p, k, pull)
    PROVE  Onward
  <1>1. github'[p] = pull /\ heard' = heard
    BY ChangeFacts
  <1>o. \A q \in PRs : q # p => github'[q] = github[q]
    BY OthersStand
  <1>2. \A q \in PRs : github[q].head <= github[q].head
    BY DEF TypeOK, Heads
  <1> QED
    BY <1>1, <1>o, <1>2 DEF Onward, Progress

\* What was true of a pull request stays true.
LEMMA TrueStaysTrue ==
    ASSUME TypeOK, TypeOK', Onward, NEW e \in Events, TrueOf(e, github, heard)
    PROVE  TrueOf(e, github', heard')
  <1>1. e.pr \in PRs /\ e.head \in Heads
    BY DEF Events
  <1>2. github[e.pr].head \in Heads /\ github'[e.pr].head \in Heads
    BY <1>1 DEF TypeOK
  <1>3. e.head <= github[e.pr].head => e.head <= github'[e.pr].head
    <2>1. github[e.pr].head <= github'[e.pr].head
      BY <1>1 DEF Onward
    <2>2. e.head \in Int /\ github[e.pr].head \in Int /\ github'[e.pr].head \in Int
      BY <1>1, <1>2, HeadsAreIntegers
    <2> QED
      BY <2>1, <2>2
  <1>4. github[e.pr].asked /\ ~github[e.pr].draft => github'[e.pr].asked /\ ~github'[e.pr].draft
    BY <1>1 DEF Onward
  <1> QED
    BY <1>3, <1>4 DEF TrueOf, Onward

\* Events stay true when steps are onward and bring in only true ones.
LEMMA TrueEvents ==
    ASSUME TypeOK, TypeOK', EventsAreTrue, Onward,
           \A e \in sent' \cup tasks' : e \in sent \cup tasks \/ TrueOf(e, github', heard')
    PROVE  EventsAreTrue'
  <1>1. \A e \in sent \cup tasks : e \in Events /\ TrueOf(e, github, heard)
    BY DEF EventsAreTrue, TrueOf, TypeOK
  <1>2. \A e \in sent \cup tasks : TrueOf(e, github', heard')
    BY <1>1, TrueStaysTrue
  <1> QED
    BY <1>2 DEF EventsAreTrue, TrueOf

\* A listed head stays one the pull request had.
LEMMA TrueListing ==
    ASSUME TypeOK, TypeOK', ListingIsTrue, Onward, listing' \subseteq listing
    PROVE  ListingIsTrue'
  <1> SUFFICES ASSUME NEW run \in listing' PROVE run[2] <= github'[run[1]].head
    BY DEF ListingIsTrue
  <1>1. run[1] \in PRs /\ run[2] \in Heads /\ run[2] <= github[run[1]].head
    BY DEF ListingIsTrue, TypeOK
  <1>2. run[2] \in Int /\ github[run[1]].head \in Int /\ github'[run[1]].head \in Int
    BY <1>1, HeadsAreIntegers DEF TypeOK
  <1>3. github[run[1]].head <= github'[run[1]].head
    BY <1>1 DEF Onward
  <1> QED
    BY <1>1, <1>2, <1>3

\* Every step keeps events and listings true.
LEMMA TruthStep == TypeOK /\ TypeOK' /\ Truth /\ [Next]_vars => Truth' /\ Onward
  <1> SUFFICES ASSUME TypeOK, TypeOK', Truth, [Next]_vars PROVE Truth' /\ Onward
    OBVIOUS
  <1>q. ASSUME UNCHANGED <<github, heard>>, sent' \cup tasks' \subseteq sent \cup tasks,
               listing' \subseteq listing, DownIsEmpty'
        PROVE  Truth' /\ Onward
    <2>1. Onward
      BY <1>q, StandingIsOnward
    <2>2. EventsAreTrue' /\ ListingIsTrue'
      BY <1>q, <2>1, TrueEvents, TrueListing DEF Truth
    <2> QED
      BY <1>q, <2>1, <2>2 DEF Truth, UnopenedIsUnasked
  <1>1. ASSUME NEW p \in PRs, PullChange(p) PROVE Truth' /\ Onward
    <2>1. PICK k \in Kinds, pull \in Pulls : Changes(p, k, pull) /\ Progress(p, k, pull)
      BY <1>1, ChangesAreProgress DEF Truth
    <2>2. Onward
      BY <2>1, ChangeIsOnward
    <2>3. /\ github' \in [PRs -> Pulls]
          /\ github'[p] = pull
          /\ sent' = sent \cup {Event(k, p)}
          /\ UNCHANGED <<up, tasks, todo, listing>>
      BY <2>1, ChangeFacts
    <2>4. /\ Event(k, p).kind = k /\ Event(k, p).pr = p /\ Event(k, p).self = (p \in Own)
          /\ Event(k, p).head = pull.head /\ Event(k, p).draft = pull.draft /\ Event(k, p).asked = pull.asked
      BY <2>1, ChangeFacts
    <2>5. TrueOf(Event(k, p), github', heard')
      <3>1. k # "issue_comment" /\ pull.head <= pull.head
        BY <2>1 DEF Progress, Pulls, Heads
      <3> QED
        BY <2>3, <2>4, <3>1 DEF TrueOf
    <2>6. EventsAreTrue' /\ ListingIsTrue'
      BY <2>2, <2>3, <2>5, TrueEvents, TrueListing DEF Truth
    <2>7. UnopenedIsUnasked'
      <3>1. \A q \in PRs : q # p => github'[q] = github[q]
        BY <2>1, OthersStand
      <3> QED
        BY <2>1, <2>3, <3>1 DEF Truth, UnopenedIsUnasked, Progress
    <2>8. DownIsEmpty'
      BY <2>3 DEF Truth, DownIsEmpty
    <2> QED
      BY <2>2, <2>6, <2>7, <2>8 DEF Truth
  <1>2. ASSUME NEW p \in PRs, Speak(p) PROVE Truth' /\ Onward
    <2>1. PICK b \in Bodies, s \in BOOLEAN :
              /\ sent' \in {sent, sent \cup {CommentEvent(p, b, s)}}
              /\ tasks' \in {tasks, tasks \cup {CommentEvent(p, b, s)}}
              /\ s => <<p, b>> \in heard'
              /\ heard \subseteq heard'
              /\ tasks' # tasks => up
              /\ UNCHANGED <<github, up, todo, listing>>
      BY <1>2, SpeakFacts
    <2>2. Onward
      BY <2>1, StandingIsOnward
    <2>3. TrueOf(CommentEvent(p, b, s), github', heard')
      BY <2>1 DEF TrueOf, CommentEvent
    <2>4. EventsAreTrue' /\ ListingIsTrue'
      BY <2>1, <2>2, <2>3, TrueEvents, TrueListing DEF Truth
    <2>5. DownIsEmpty' /\ UnopenedIsUnasked'
      BY <2>1 DEF Truth, DownIsEmpty, UnopenedIsUnasked
    <2> QED
      BY <2>2, <2>4, <2>5 DEF Truth
  <1>3. ASSUME NEW e \in sent, Deliver(e) PROVE Truth' /\ Onward
    BY <1>3, <1>q DEF Deliver, Truth, DownIsEmpty
  <1>4. ASSUME NEW e \in sent, Lose(e) PROVE Truth' /\ Onward
    BY <1>4, <1>q DEF Lose, Truth, DownIsEmpty, memory
  <1>5. ASSUME NEW e \in tasks, Dispatch(e) PROVE Truth' /\ Onward
    BY <1>5, <1>q DEF Dispatch, Truth, DownIsEmpty
  <1>6. ASSUME NEW q \in Repos, List(q) PROVE Truth' /\ Onward
    <2>1. Onward
      BY <1>6, StandingIsOnward DEF List
    <2>2. UNCHANGED <<github, sent, tasks, heard, up>> /\ up
      BY <1>6 DEF List, Truth, DownIsEmpty
    <2>3. EventsAreTrue'
      BY <2>1, <2>2, TrueEvents DEF Truth
    <2>4. ListingIsTrue'
      <3>1. listing' = Page(q) /\ github' = github
        BY <1>6 DEF List, Page
      <3>2. \A run \in listing' : run[1] \in PRs /\ run[2] = github'[run[1]].head
        BY <3>1, PageFacts
      <3>3. \A p \in PRs : github'[p].head <= github'[p].head
        <4>1. \A p \in PRs : github[p].head \in Int
          BY HeadsAreIntegers DEF TypeOK
        <4> QED
          BY <3>1, <4>1
      <3> QED
        BY <3>2, <3>3 DEF ListingIsTrue
    <2> QED
      BY <2>1, <2>2, <2>3, <2>4 DEF Truth, DownIsEmpty, UnopenedIsUnasked
  <1>7. ASSUME NEW q \in Repos, ListFails(q) PROVE Truth' /\ Onward
    BY <1>7, <1>q DEF ListFails, Truth, DownIsEmpty
  <1>8. CASE Backfill
    BY <1>8, <1>q DEF Backfill, Truth, DownIsEmpty
  <1>9. CASE Crash
    BY <1>9, <1>q DEF Crash, Truth, DownIsEmpty
  <1>10. CASE Boot
    BY <1>10, <1>q DEF Boot, Truth, DownIsEmpty
  <1>11. CASE UNCHANGED vars
    BY <1>11, <1>q DEF vars, memory, Truth, DownIsEmpty
  <1> QED
    BY <1>1, <1>2, <1>3, <1>4, <1>5, <1>6, <1>7, <1>8, <1>9, <1>10, <1>11 DEF Next, Change, PullChange, Speak

-----------------------------------------------------------------------------
(* The table *)

Once == RequestedOnce /\ RowsAreRequested /\ RequestedIsKept

\* A step leaves the table alone, or inserts for an event that asks for a review, or
\* replaces for a command, or inserts what the backfill found.
LEMMA TableChanges ==
    ASSUME [Next]_vars
    PROVE  \/ UNCHANGED <<rows, requested, repeated>>
           \/ \E e \in tasks : DecidesEnqueue(e) /\ Insert({<<e.pr, e.head>>})
           \/ \E e \in tasks : DecidesCommand(e) /\ Replace(e.pr)
           \/ Insert(ToInsert)
  <1>1. ASSUME NEW p \in PRs, Change(p) PROVE UNCHANGED <<rows, requested, repeated>>
    BY <1>1 DEF Change, Open, Push, MarkReady, AskReviewer, Close, Reopen, Say, AgentSays,
                SlackCommand, Changes, Spoken, table
  <1>2. ASSUME NEW e \in sent, Deliver(e) \/ Lose(e) PROVE UNCHANGED <<rows, requested, repeated>>
    BY <1>2 DEF Deliver, Lose, table
  <1>3. ASSUME NEW e \in tasks, Dispatch(e)
        PROVE  \/ UNCHANGED <<rows, requested, repeated>>
               \/ DecidesEnqueue(e) /\ Insert({<<e.pr, e.head>>})
               \/ DecidesCommand(e) /\ Replace(e.pr)
    BY <1>3 DEF Dispatch, table
  <1>4. ASSUME NEW q \in Repos, List(q) \/ ListFails(q) PROVE UNCHANGED <<rows, requested, repeated>>
    BY <1>4 DEF List, ListFails, table
  <1>5. Backfill => Insert(ToInsert)
    BY DEF Backfill, ToInsert
  <1>6. Crash \/ Boot \/ UNCHANGED vars => UNCHANGED <<rows, requested, repeated>>
    BY DEF Crash, Boot, vars, table
  <1> QED
    BY <1>1, <1>2, <1>3, <1>4, <1>5, <1>6 DEF Next

\* INSERT OR IGNORE never requests again what no comment deleted.
LEMMA InsertOnce == ASSUME NEW S, Once, Insert(S) PROVE Once'
  <1>1. /\ rows \subseteq rows' /\ requested \subseteq requested'
        /\ repeated' \subseteq repeated \cup (requested \ rows)
        /\ rows' \subseteq requested' /\ requested' \subseteq requested \cup rows'
    BY InsertFacts DEF Once
  <1>2. RequestedOnce'
    BY <1>1 DEF Once, RequestedOnce, RequestedIsKept
  <1>3. RequestedIsKept'
    BY <1>1 DEF Once, RequestedIsKept
  <1> QED
    BY <1>1, <1>2, <1>3 DEF Once, RowsAreRequested

\* A comment leaves its own mark for the runs it deletes.
LEMMA ReplaceOnce == ASSUME NEW p, Once, Replace(p) PROVE Once'
  <1>1. /\ <<p, NoHead>> \in rows' /\ <<p, NoHead>> \in requested'
        /\ \A run \in rows : run[1] # p => run \in rows'
        /\ requested' = requested \cup {<<p, NoHead>>}
        /\ repeated' \subseteq repeated \cup {<<p, NoHead>>}
        /\ rows' \subseteq requested'
    BY ReplaceFacts DEF Once
  <1>2. RequestedOnce'
    BY <1>1 DEF Once, RequestedOnce
  <1>3. RequestedIsKept'
    BY <1>1 DEF Once, RequestedIsKept
  <1> QED
    BY <1>1, <1>2, <1>3 DEF Once, RowsAreRequested

\* Every step keeps the bookkeeping of what was requested.
LEMMA OnceStep == Once /\ [Next]_vars => Once'
  <1> SUFFICES ASSUME Once, [Next]_vars PROVE Once'
    OBVIOUS
  <1>1. CASE UNCHANGED <<rows, requested, repeated>>
    BY <1>1 DEF Once, RequestedOnce, RowsAreRequested, RequestedIsKept
  <1> QED
    BY <1>1, TableChanges, InsertOnce, ReplaceOnce

-----------------------------------------------------------------------------
(* Every run has its warrant *)

\* What RequestsAreWarranted says of one run, of pull requests g and what was heard, s.
Warrant(run, g, s) ==
    \/ /\ run[2] # NoHead
       /\ run[2] <= g[run[1]].head
       /\ run[1] \in Own \/ (g[run[1]].asked /\ ~g[run[1]].draft)
       /\ RepoOf[run[1]] \in Managed \ Denied
    \/ /\ run[2] = NoHead
       /\ \E b \in Bodies : <<run[1], b>> \in s

\* Progress of a pull request does not take a warrant away.
LEMMA WarrantStays ==
    ASSUME TypeOK, TypeOK', Onward, NEW run \in Runs, Warrant(run, github, heard)
    PROVE  Warrant(run, github', heard')
  <1>1. run[1] \in PRs /\ run[2] \in Int
    <2>1. run \in PRs \X (Heads \cup {NoHead})
      BY DEF Runs
    <2>2. Heads \cup {NoHead} \subseteq Int
      BY HeadsAreIntegers DEF NoHead
    <2> QED
      BY <2>1, <2>2
  <1>2. github[run[1]].head \in Int /\ github'[run[1]].head \in Int
    BY <1>1, HeadsAreIntegers DEF TypeOK
  <1>3. /\ github[run[1]].head <= github'[run[1]].head
        /\ github[run[1]].asked /\ ~github[run[1]].draft => github'[run[1]].asked /\ ~github'[run[1]].draft
        /\ heard \subseteq heard'
    BY <1>1 DEF Onward
  <1>4. run[2] <= github[run[1]].head => run[2] <= github'[run[1]].head
    BY <1>1, <1>2, <1>3
  <1> QED
    BY <1>3, <1>4 DEF Warrant

\* An event that is true and asks for a review is a warrant for its head.
LEMMA EventIsWarrant ==
    ASSUME NEW e \in Events, TrueOf(e, github, heard), DecidesEnqueue(e)
    PROVE  Warrant(<<e.pr, e.head>>, github, heard)
  <1>1. e.kind # "issue_comment" /\ e.head # NoHead /\ RepoOf[e.pr] \in Managed \ Denied
    BY EnqueueFacts
  <1>2. e.self \/ (e.asked /\ ~e.draft)
    BY EnqueueFacts
  <1> QED
    BY <1>1, <1>2 DEF TrueOf, Warrant

\* A comment that was heard is a warrant for the run without a head.
LEMMA CommandIsWarrant ==
    ASSUME NEW e \in Events, TrueOf(e, github, heard), DecidesCommand(e)
    PROVE  Warrant(<<e.pr, NoHead>>, github, heard)
  <1>1. e.body \in Bodies
    BY DEF Events
  <1> QED
    BY <1>1 DEF TrueOf, DecidesCommand, Warrant

\* Every step inserts only runs with a warrant.
LEMMA WarrantedStep ==
    ASSUME TypeOK, TypeOK', Truth, RowsAreRequested, Onward, RequestsAreWarranted, [Next]_vars
    PROVE  RequestsAreWarranted'
  <1>1. \A run \in rows : run \in Runs /\ Warrant(run, github, heard)
    BY DEF TypeOK, RequestsAreWarranted, Warrant
  <1>2. \A e \in tasks : e \in Events /\ TrueOf(e, github, heard)
    BY DEF TypeOK, Truth, EventsAreTrue, TrueOf
  <1>3. ASSUME NEW run \in rows' PROVE run \in Runs /\ Warrant(run, github, heard)
    <2>1. CASE rows' = rows
      BY <1>1, <1>3, <2>1
    <2>2. ASSUME NEW e \in tasks, DecidesEnqueue(e), Insert({<<e.pr, e.head>>})
          PROVE  run \in Runs /\ Warrant(run, github, heard)
      <3>1. run \in rows \/ run = <<e.pr, e.head>>
        BY <1>3, <2>2, InsertFacts
      <3>2. <<e.pr, e.head>> \in Runs /\ Warrant(<<e.pr, e.head>>, github, heard)
        BY <1>2, <2>2, EnqueueFacts, EventIsWarrant
      <3> QED
        BY <1>1, <3>1, <3>2
    <2>3. ASSUME NEW e \in tasks, DecidesCommand(e), Replace(e.pr)
          PROVE  run \in Runs /\ Warrant(run, github, heard)
      <3>1. run \in rows \/ run = <<e.pr, NoHead>>
        BY <1>3, <2>3, ReplaceFacts
      <3>2. <<e.pr, NoHead>> \in Runs
        BY <1>2 DEF Events, Runs
      <3>3. Warrant(<<e.pr, NoHead>>, github, heard)
        BY <1>2, <2>3, CommandIsWarrant
      <3> QED
        BY <1>1, <3>1, <3>2, <3>3
    <2>4. CASE Insert(ToInsert)
      <3>1. run \in rows \/ run \in ToInsert
        BY <1>3, <2>4, InsertFacts
      <3>2. ASSUME run \in ToInsert PROVE run \in Runs /\ Warrant(run, github, heard)
        <4>1. run \in Runs /\ run \in listing /\ run[1] \in Wanted /\ run[2] # NoHead
          BY <3>2, ToInsertFacts
        <4>2. run[2] <= github[run[1]].head
          BY <4>1 DEF Truth, ListingIsTrue
        <4> QED
          BY <4>1, <4>2 DEF Warrant, Wanted
      <3> QED
        BY <1>1, <3>1, <3>2
    <2> QED
      BY <2>1, <2>2, <2>3, <2>4, TableChanges
  <1>4. \A run \in rows' : Warrant(run, github', heard')
    BY <1>3, WarrantStays
  <1> QED
    BY <1>4 DEF RequestsAreWarranted, Warrant

-----------------------------------------------------------------------------
(* No head is forgotten *)

\* What NoHeadIsForgotten says of one head.
Remembered(p, h) == <<p, h>> \in requested \cup listing \cup missed \/ OnItsWay(p, h)

\* Every step hands a head on: from the delivery to the task, from there to the table,
\* or to what was missed, and from there by way of the listing to the table.
LEMMA RememberStep ==
    ASSUME TypeOK, RowsAreRequested, [Next]_vars, UnopenedIsUnasked,
           NEW p \in Wanted, NEW h \in Heads, Remembered(p, h)
    PROVE  Remembered(p, h)'
  <1>r. requested \subseteq requested'
    BY TableChanges, InsertFacts, ReplaceFacts
  <1>m. ASSUME listing \subseteq listing', missed \subseteq missed', sent \cup tasks \subseteq sent' \cup tasks'
        PROVE  Remembered(p, h)'
    BY <1>m, <1>r DEF Remembered, OnItsWay
  <1>1. ASSUME NEW q \in PRs, PullChange(q) PROVE Remembered(p, h)'
    <2>1. PICK k \in Kinds, pull \in Pulls : Changes(q, k, pull) /\ Progress(q, k, pull)
      BY <1>1, ChangesAreProgress
    <2>2. sent' = sent \cup {Event(k, q)} /\ UNCHANGED <<tasks, listing, missed>>
      BY <2>1, ChangeFacts
    <2> QED
      BY <1>m, <2>2
  <1>2. ASSUME NEW q \in PRs, Speak(q) PROVE Remembered(p, h)'
    <2>1. sent \subseteq sent' /\ tasks \subseteq tasks' /\ UNCHANGED <<listing, missed>>
      BY <1>2, SpeakFacts
    <2> QED
      BY <1>m, <2>1
  <1>3. ASSUME NEW e \in sent, Deliver(e) PROVE Remembered(p, h)'
    <2>1. UNCHANGED <<listing, missed>>
      BY <1>3 DEF Deliver
    <2>2. DecidesEnqueue(e) => Accepts(e)
      BY EnqueueFacts DEF TypeOK
    <2>3. \A x \in sent \cup tasks : DecidesEnqueue(x) => x \in sent' \cup tasks'
      BY <1>3, <2>2 DEF Deliver
    <2> QED
      BY <1>r, <2>1, <2>3 DEF Remembered, OnItsWay
  <1>4. ASSUME NEW e \in sent, Lose(e) PROVE Remembered(p, h)'
    <2>1. UNCHANGED <<listing, tasks>> /\ missed' = missed \cup HeadsOf({e}) /\ sent' = sent \ {e}
      BY <1>4 DEF Lose, memory
    <2>2. DecidesEnqueue(e) => <<e.pr, e.head>> \in missed'
      BY <2>1 DEF HeadsOf
    <2> QED
      BY <1>r, <2>1, <2>2 DEF Remembered, OnItsWay
  <1>5. ASSUME NEW e \in tasks, Dispatch(e) PROVE Remembered(p, h)'
    <2>1. UNCHANGED <<listing, missed, sent>> /\ tasks' = tasks \ {e}
      BY <1>5 DEF Dispatch
    <2>2. DecidesEnqueue(e) => <<e.pr, e.head>> \in requested'
      <3>1. DecidesEnqueue(e) => ~DecidesCommand(e)
        BY EnqueueFacts DEF DecidesCommand, TypeOK
      <3>2. DecidesEnqueue(e) => Insert({<<e.pr, e.head>>})
        BY <1>5, <3>1 DEF Dispatch
      <3> QED
        BY <3>2, InsertFacts
    <2> QED
      BY <1>r, <2>1, <2>2 DEF Remembered, OnItsWay
  <1>6. ASSUME NEW q \in Repos, List(q) PROVE Remembered(p, h)'
    <2>1. listing = {} /\ missed' = missed \ listing' /\ UNCHANGED <<sent, tasks>>
      BY <1>6 DEF List
    <2> QED
      BY <1>r, <2>1 DEF Remembered, OnItsWay
  <1>7. ASSUME NEW q \in Repos, ListFails(q) PROVE Remembered(p, h)'
    BY <1>7, <1>m DEF ListFails
  <1>8. CASE Backfill
    <2>1. Insert(ToInsert) /\ UNCHANGED <<sent, tasks, missed>>
      BY <1>8 DEF Backfill, ToInsert
    <2>2. <<p, h>> \in listing => <<p, h>> \in requested'
      <3>1. <<p, h>> \in listing => <<p, h>> \in rows \cup ToInsert
        BY ToInsertFacts
      <3>2. rows \subseteq requested' /\ ToInsert \subseteq requested'
        BY <2>1, InsertFacts DEF RowsAreRequested
      <3> QED
        BY <3>1, <3>2
    <2> QED
      BY <1>r, <2>1, <2>2 DEF Remembered, OnItsWay
  <1>9. CASE Crash
    <2>1. UNCHANGED sent /\ missed' = missed \cup HeadsOf(tasks) \cup listing
      BY <1>9 DEF Crash
    <2>2. \A e \in tasks : DecidesEnqueue(e) => <<e.pr, e.head>> \in missed'
      BY <2>1 DEF HeadsOf
    <2> QED
      BY <1>r, <2>1, <2>2 DEF Remembered, OnItsWay
  <1>10. CASE Boot \/ UNCHANGED vars
    BY <1>10, <1>m DEF Boot, vars, memory
  <1> QED
    BY <1>1, <1>2, <1>3, <1>4, <1>5, <1>6, <1>7, <1>8, <1>9, <1>10 DEF Next, Change, PullChange, Speak

\* A new head comes with an event that asks for its review; every other head is
\* remembered already.
LEMMA ForgottenStep ==
    ASSUME TypeOK, RowsAreRequested, UnopenedIsUnasked, NoHeadIsForgotten, [Next]_vars
    PROVE  NoHeadIsForgotten'
  <1>t. TypeOK'
    BY TypeStep
  <1> SUFFICES ASSUME NEW p \in Wanted, NEW h \in Heads,
                      github'[p].state # "none", github'[p].head = h
               PROVE  Remembered(p, h)'
    <2>1. \A p \in Wanted : github'[p].head \in Heads
      BY IntakeAssumption, <1>t DEF TypeOK, Wanted
    <2> QED
      BY <2>1 DEF NoHeadIsForgotten, Remembered, OnItsWay
  <1>p. p \in PRs /\ p \in Own /\ RepoOf[p] \in Managed \ Denied
    BY IntakeAssumption DEF Wanted
  <1>1. ASSUME github[p].state # "none", github[p].head = h PROVE Remembered(p, h)'
    <2>1. Remembered(p, h)
      BY <1>1 DEF NoHeadIsForgotten, Remembered
    <2> QED
      BY <2>1, RememberStep
  <1>2. ASSUME NEW q \in PRs, PullChange(q) PROVE Remembered(p, h)'
    <2>1. PICK k \in Kinds, pull \in Pulls : Changes(q, k, pull) /\ Progress(q, k, pull)
      BY <1>2, ChangesAreProgress
    <2>2. github'[q] = pull /\ sent' = sent \cup {Event(k, q)}
      BY <2>1, ChangeFacts
    <2>3. CASE p # q
      <3>1. github'[p] = github[p]
        BY <1>p, <2>1, <2>3, OthersStand
      <3> QED
        BY <1>1, <3>1
    <2>4. CASE p = q /\ k \notin Asking
      <3>1. github[p].state # "none" /\ pull.head = github[p].head /\ github'[p] = pull
        BY <2>1, <2>2, <2>4 DEF Progress
      <3> QED
        BY <1>1, <3>1
    <2>5. CASE p = q /\ k \in Asking
      <3>1. PICK e : e = Event(k, q)
        OBVIOUS
      <3>2. e.kind = k /\ e.pr = p /\ e.self = TRUE /\ e.head = h
        <4>1. /\ Event(k, q).kind = k /\ Event(k, q).pr = q /\ Event(k, q).self = (q \in Own)
              /\ Event(k, q).head = pull.head
          BY <2>1, ChangeFacts
        <4> QED
          BY <1>p, <2>2, <2>5, <3>1, <4>1
      <3>3. DecidesEnqueue(e)
        BY <1>p, <2>5, <3>2 DEF DecidesEnqueue
      <3>4. e \in sent'
        BY <2>2, <3>1
      <3> QED
        BY <3>2, <3>3, <3>4 DEF Remembered, OnItsWay
    <2> QED
      BY <2>3, <2>4, <2>5
  <1>3. CASE UNCHANGED github
    BY <1>1, <1>3
  <1>4. (\E q \in PRs : PullChange(q)) \/ UNCHANGED github
    <2>1. ASSUME NEW q \in PRs, Speak(q) PROVE UNCHANGED github
      BY <2>1, SpeakFacts
    <2>2. ASSUME NEW e \in sent \cup tasks, Deliver(e) \/ Lose(e) \/ Dispatch(e) PROVE UNCHANGED github
      BY <2>2 DEF Deliver, Lose, Dispatch
    <2>3. ASSUME NEW q \in Repos, List(q) \/ ListFails(q) PROVE UNCHANGED github
      BY <2>3 DEF List, ListFails
    <2>4. Backfill \/ Crash \/ Boot \/ UNCHANGED vars => UNCHANGED github
      BY DEF Backfill, Crash, Boot, vars
    <2> QED
      BY <2>1, <2>2, <2>3, <2>4 DEF Next, Change, PullChange, Speak
  <1> QED
    BY <1>2, <1>3, <1>4

-----------------------------------------------------------------------------
(* The invariant and the theorems *)

\* Nothing has been said, requested or sent when the process first starts, and the heads
\* of open pull requests are missed.
LEMMA InitIInv == Init => IInv
  <1> SUFFICES ASSUME Init PROVE IInv
    OBVIOUS
  <1> DEFINE New == {[state |-> s, head |-> 0, draft |-> FALSE, asked |-> FALSE] : s \in {"none", "open"}}
  <1>g. github \in [PRs -> New]
    BY DEF Init
  <1>n. \A n \in New : /\ n.state \in {"none", "open"} /\ n.head = 0
                       /\ n.draft = FALSE /\ n.asked = FALSE
    OBVIOUS
  <1>1. \A p \in PRs : /\ github[p].state \in {"none", "open"} /\ github[p].head = 0
                       /\ github[p].draft = FALSE /\ github[p].asked = FALSE
    BY <1>g, <1>n
  <1>2. 0 \in Heads
    BY BoundsAreNatural DEF Heads
  <1>3. TypeOK
    <2>1. github \in [PRs -> [state : States, head : Heads, draft : BOOLEAN, asked : BOOLEAN]]
      <3>1. New \subseteq [state : States, head : Heads, draft : BOOLEAN, asked : BOOLEAN]
        <4>1. "none" \in States /\ "open" \in States
          BY DEF States
        <4>2. \A s \in {"none", "open"} : [state |-> s, head |-> 0, draft |-> FALSE, asked |-> FALSE]
                  \in [state : States, head : Heads, draft : BOOLEAN, asked : BOOLEAN]
          BY <1>2, <4>1
        <4> QED
          BY <4>2
      <3> QED
        BY <1>g, <3>1
    <2>2. missed \subseteq PRs \X Heads
      BY <1>2 DEF Init
    <2> QED
      BY BoundsAreNatural, IntakeAssumption, <2>1, <2>2 DEF Init, TypeOK
  <1>4. NoHeadIsForgotten
    <2> SUFFICES ASSUME NEW p \in Wanted, github[p].state # "none" PROVE <<p, github[p].head>> \in missed
      BY DEF NoHeadIsForgotten
    <2>1. p \in PRs
      BY IntakeAssumption DEF Wanted
    <2>2. missed = {<<n, 0>> : n \in {m \in PRs : github[m].state = "open"}}
      BY DEF Init
    <2> QED
      BY <1>1, <2>1, <2>2
  <1>5. RequestsAreWarranted /\ RequestedOnce /\ RowsAreRequested /\ RequestedIsKept
    BY DEF Init, RequestsAreWarranted, RequestedOnce, RowsAreRequested, RequestedIsKept
  <1>6. EventsAreTrue /\ ListingIsTrue /\ DownIsEmpty
    BY DEF Init, EventsAreTrue, ListingIsTrue, DownIsEmpty
  <1>7. UnopenedIsUnasked
    BY <1>1 DEF UnopenedIsUnasked
  <1> QED
    BY <1>3, <1>4, <1>5, <1>6, <1>7 DEF IInv

\* Every step keeps the invariant.
LEMMA NextIInv == IInv /\ [Next]_vars => IInv'
  <1> SUFFICES ASSUME IInv, [Next]_vars PROVE IInv'
    OBVIOUS
  <1>1. TypeOK /\ Truth /\ Once /\ NoHeadIsForgotten /\ RequestsAreWarranted
    BY DEF IInv, Truth, Once
  <1>2. TypeOK'
    BY <1>1, TypeStep DEF Truth, Once
  <1>3. Truth' /\ Onward
    BY <1>1, <1>2, TruthStep
  <1>4. Once'
    BY <1>1, OnceStep
  <1>5. NoHeadIsForgotten'
    BY <1>1, ForgottenStep DEF Truth, Once
  <1>6. RequestsAreWarranted'
    BY <1>1, <1>2, <1>3, WarrantedStep DEF Once
  <1> QED
    BY <1>2, <1>3, <1>4, <1>5, <1>6 DEF IInv, Truth, Once

\* In every state reached, IInv holds: variables have their types, and what is under way,
\* listed or in the table is true of GitHub and accounted for.
THEOREM InductiveInvariant == Spec => []IInv
  BY InitIInv, NextIInv, PTL DEF Spec

\* However deliveries, tasks, the backfill and stops interleave, the head of a wanted pull
\* request was requested, is on its way, or was lost and not listed since.
THEOREM NothingForgotten == Spec => []NoHeadIsForgotten
  <1>1. IInv => NoHeadIsForgotten
    BY DEF IInv
  <1> QED
    BY <1>1, InductiveInvariant, PTL

\* No run is in the table that its pull request, or the self account, did not ask for.
THEOREM EveryRequestWarranted == Spec => []RequestsAreWarranted
  <1>1. IInv => RequestsAreWarranted
    BY DEF IInv
  <1> QED
    BY <1>1, InductiveInvariant, PTL

\* A run is inserted a second time only where a comment deleted the first.
THEOREM OncePerHead == Spec => []RequestedOnce
  <1>1. IInv => RequestedOnce
    BY DEF IInv
  <1> QED
    BY <1>1, InductiveInvariant, PTL

-----------------------------------------------------------------------------
(* The life of a head *)

\* A review of the head is under way.
Due(p, h) == OnItsWay(p, h) \/ <<p, h>> \in listing

\* Standing, in terms of these three.
LEMMA StandingIs ==
    ASSUME RowsAreRequested, NEW p, NEW h
    PROVE  /\ <<p, h>> \in rows => Standing(p, h) = "run"
           /\ <<p, h>> \notin rows /\ <<p, h>> \in requested => Standing(p, h) = "replaced"
           /\ <<p, h>> \notin rows \cup requested =>
                 /\ Due(p, h) => Standing(p, h) = "due"
                 /\ ~Due(p, h) /\ <<p, h>> \in missed => Standing(p, h) = "missed"
                 /\ ~Due(p, h) /\ <<p, h>> \notin missed => Standing(p, h) = "unknown"
  BY DEF Standing, Due, RowsAreRequested

\* Whatever the table takes in was due, and whatever is requested is in the table first.
LEMMA OnlyTheDueEnter ==
    ASSUME TypeOK, RowsAreRequested, [Next]_vars, NEW p \in PRs, NEW h \in Heads
    PROVE  /\ <<p, h>> \in rows' \ rows => Due(p, h)
           /\ <<p, h>> \in requested => <<p, h>> \in requested'
           /\ <<p, h>> \in requested' \ requested => <<p, h>> \in rows'
           /\ rows' \subseteq requested'
  <1>h. h # NoHead
    BY DEF Heads, NoHead
  <1>1. CASE UNCHANGED <<rows, requested>>
    BY <1>1 DEF RowsAreRequested
  <1>2. ASSUME NEW e \in tasks, DecidesEnqueue(e), Insert({<<e.pr, e.head>>})
        PROVE  /\ <<p, h>> \in rows' \ rows => Due(p, h)
               /\ <<p, h>> \in requested => <<p, h>> \in requested'
               /\ <<p, h>> \in requested' \ requested => <<p, h>> \in rows'
               /\ rows' \subseteq requested'
    <2>1. <<p, h>> \in rows' \ rows => <<p, h>> = <<e.pr, e.head>>
      BY <1>2, InsertFacts
    <2>2. <<p, h>> = <<e.pr, e.head>> => Due(p, h)
      BY <1>2 DEF Due, OnItsWay
    <2> QED
      BY <1>2, <2>1, <2>2, InsertFacts
  <1>3. ASSUME NEW e \in tasks, Replace(e.pr)
        PROVE  /\ <<p, h>> \in rows' \ rows => Due(p, h)
               /\ <<p, h>> \in requested => <<p, h>> \in requested'
               /\ <<p, h>> \in requested' \ requested => <<p, h>> \in rows'
               /\ rows' \subseteq requested'
    BY <1>h, <1>3, ReplaceFacts
  <1>4. CASE Insert(ToInsert)
    <2>1. <<p, h>> \in rows' \ rows => <<p, h>> \in listing
      BY <1>4, InsertFacts, ToInsertFacts
    <2> QED
      BY <1>4, <2>1, InsertFacts DEF Due
  <1> QED
    BY <1>1, <1>2, <1>3, <1>4, TableChanges

\* What is missed was due.
LEMMA OnlyTheDueAreMissed ==
    ASSUME TypeOK, UnopenedIsUnasked, [Next]_vars, NEW p \in PRs, NEW h \in Heads,
           <<p, h>> \in missed' \ missed
    PROVE  Due(p, h)
  <1>1. ASSUME NEW S, S \subseteq sent \cup tasks, <<p, h>> \in HeadsOf(S) PROVE Due(p, h)
    <2>1. PICK e \in S : DecidesEnqueue(e) /\ <<p, h>> = <<e.pr, e.head>>
      BY <1>1 DEF HeadsOf
    <2>2. e.pr = p /\ e.head = h
      BY <2>1
    <2> QED
      BY <1>1, <2>1, <2>2 DEF Due, OnItsWay
  <1>2. ASSUME NEW q \in PRs, Change(q) PROVE FALSE
    BY <1>2 DEF Change, Open, Push, MarkReady, AskReviewer, Close, Reopen, Say, AgentSays,
                SlackCommand, Changes, Spoken
  <1>3. ASSUME NEW e \in sent, Deliver(e) \/ Lose(e) PROVE Due(p, h)
    <2>1. <<p, h>> \in HeadsOf({e})
      BY <1>3 DEF Deliver, Lose
    <2> QED
      BY <1>1, <2>1
  <1>4. ASSUME NEW e \in tasks, Dispatch(e) PROVE FALSE
    BY <1>4 DEF Dispatch
  <1>5. ASSUME NEW q \in Repos, List(q) \/ ListFails(q) PROVE FALSE
    BY <1>5 DEF List, ListFails
  <1>6. CASE Crash
    <2>1. <<p, h>> \in HeadsOf(tasks) \/ <<p, h>> \in listing
      BY <1>6 DEF Crash
    <2> QED
      BY <1>1, <2>1 DEF Due
  <1>7. Backfill \/ Boot \/ UNCHANGED vars => FALSE
    BY DEF Backfill, Boot, vars
  <1> QED
    BY <1>2, <1>3, <1>4, <1>5, <1>6, <1>7 DEF Next

\* A head of a wanted pull request takes a step of its life, or none.
LEMMA LifeStep ==
    ASSUME TypeOK, RowsAreRequested, UnopenedIsUnasked, [Next]_vars,
           NEW p \in Wanted, NEW h \in Heads
    PROVE  [Life(p, h)!HNext]_(Standing(p, h))
  <1>p. p \in PRs
    BY IntakeAssumption DEF Wanted
  <1> DEFINE run == <<p, h>>
  <1> DEFINE Steps == {<<"unknown", "due">>, <<"missed", "due">>, <<"due", "missed">>,
                       <<"due", "run">>, <<"replaced", "run">>, <<"run", "replaced">>}
  <1>s. \/ Standing(p, h)' = Standing(p, h)
        \/ <<Standing(p, h), Standing(p, h)'>> \in Steps
        => [Life(p, h)!HNext]_(Standing(p, h))
    BY DEF Life!HNext, Life!ComesUp, Life!IsLost, Life!IsRequested, Life!IsReplaced
  <1>n. /\ run \in rows => Standing(p, h) = "run"
        /\ run \notin rows /\ run \in requested => Standing(p, h) = "replaced"
        /\ run \notin rows \cup requested =>
              /\ Due(p, h) => Standing(p, h) = "due"
              /\ ~Due(p, h) /\ run \in missed => Standing(p, h) = "missed"
              /\ ~Due(p, h) /\ run \notin missed => Standing(p, h) = "unknown"
    BY StandingIs
  <1>1. /\ run \in rows' \ rows => Due(p, h)
        /\ run \in requested => run \in requested'
        /\ run \in requested' \ requested => run \in rows'
        /\ rows' \subseteq requested'
    BY <1>p, OnlyTheDueEnter
  <1>l. /\ run \in rows' => Standing(p, h)' = "run"
        /\ run \notin rows' /\ run \in requested' => Standing(p, h)' = "replaced"
        /\ run \notin rows' \cup requested' =>
              /\ Due(p, h)' => Standing(p, h)' = "due"
              /\ ~Due(p, h)' /\ run \in missed' => Standing(p, h)' = "missed"
              /\ ~Due(p, h)' /\ run \notin missed' => Standing(p, h)' = "unknown"
    BY <1>1 DEF Standing, Due
  <1>2. run \in missed' \ missed => Due(p, h)
    BY <1>p, OnlyTheDueAreMissed
  <1>3. run \in requested \/ run \in missed \/ Due(p, h)
        => run \in requested' \/ run \in missed' \/ Due(p, h)'
    <2>1. Remembered(p, h) <=> run \in requested \/ run \in missed \/ Due(p, h)
      BY DEF Remembered, Due
    <2>2. Remembered(p, h)' <=> run \in requested' \/ run \in missed' \/ Due(p, h)'
      BY DEF Remembered, Due
    <2> QED
      BY <2>1, <2>2, RememberStep
  <1>4. rows \subseteq requested
    BY DEF RowsAreRequested
  <1> HIDE DEF run
  <1>5. CASE run \in rows
    <2>1. Standing(p, h)' \in {"run", "replaced"}
      BY <1>l, <1>1, <1>4, <1>5
    <2> QED
      BY <1>s, <1>n, <1>5, <2>1
  <1>6. CASE run \notin rows /\ run \in requested
    <2>1. Standing(p, h)' \in {"run", "replaced"}
      BY <1>l, <1>1, <1>6
    <2> QED
      BY <1>s, <1>n, <1>6, <2>1
  <1>7. CASE run \notin rows \cup requested /\ Due(p, h)
    <2>1. Standing(p, h)' \in {"run", "due", "missed"}
      BY <1>l, <1>1, <1>3, <1>7
    <2> QED
      BY <1>s, <1>n, <1>7, <2>1
  <1>8. CASE run \notin rows \cup requested /\ ~Due(p, h) /\ run \in missed
    <2>1. run \notin rows' \cup requested'
      BY <1>1, <1>8
    <2>2. Standing(p, h)' \in {"due", "missed"}
      BY <1>l, <1>3, <1>8, <2>1
    <2> QED
      BY <1>s, <1>n, <1>8, <2>2
  <1>9. CASE run \notin rows \cup requested /\ ~Due(p, h) /\ run \notin missed
    <2>1. run \notin rows' \cup requested' /\ run \notin missed'
      BY <1>1, <1>2, <1>9
    <2>2. Standing(p, h)' \in {"due", "unknown"}
      BY <1>l, <2>1
    <2> QED
      BY <1>s, <1>n, <1>9, <2>2
  <1> QED
    BY <1>5, <1>6, <1>7, <1>8, <1>9

\* The refinement: between the event and the table, each head of a wanted pull request
\* takes the steps of HeadLife, however deliveries, tasks, the backfill, comments and
\* stops interleave.
THEOREM HeadsAreFollowed == Spec => EachHeadIsFollowed
  <1>1. Init => \A p \in Wanted, h \in Heads : Life(p, h)!HInit
    <2> SUFFICES ASSUME Init, NEW p \in Wanted, NEW h \in Heads PROVE Life(p, h)!HInit
      OBVIOUS
    <2>1. /\ sent = {} /\ tasks = {} /\ listing = {} /\ rows = {} /\ requested = {}
      BY DEF Init
    <2>2. ~Due(p, h)
      BY <2>1 DEF Due, OnItsWay
    <2>3. Standing(p, h) \in {"unknown", "missed"}
      BY <2>1, <2>2, StandingIs DEF RowsAreRequested
    <2> QED
      BY <2>3 DEF Life!HInit
  <1>2. IInv /\ [Next]_vars => \A p \in Wanted, h \in Heads : [Life(p, h)!HNext]_(Standing(p, h))
    BY LifeStep DEF IInv
  <1>3. IInv /\ [Next]_vars
        => [\A p \in Wanted, h \in Heads : [Life(p, h)!HNext]_(Standing(p, h))]_vars
    BY <1>2
  <1> QED
    BY <1>1, <1>3, InductiveInvariant, PTL DEF Spec, EachHeadIsFollowed
=============================================================================
