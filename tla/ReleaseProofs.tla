---------------------------- MODULE ReleaseProofs ----------------------------
(***************************************************************************)
(* Release, proved for every number of runs, approvals, pushes, lost       *)
(* responses and stops: a staged review is released once, and what Slack   *)
(* says was done is done.                                                  *)
(***************************************************************************)
EXTENDS Release, TLAPS

\* What a release has told GitHub and Slack.
Deliveries ==
    /\ OnePostPerApproval
    /\ MergeFollowsPost
    /\ ConfirmationIsTrue
    /\ PhaseFitsPosts
    /\ MergerIsUnique

\* Who holds the copies that were staged.
Copies == ReviewIsReleasedOnce /\ CopiesAreDistinct

\* Executions and their rows.
Executions == StagedOncePerLife /\ ExecutionFitsRow /\ StagedEarlier

\* Reviews are kept until a release takes them.
Keeping == ReviewIsKept /\ NotifiedIsKept

USE ReleaseAssumption

ReleaseRecords == [pc : ReleasePcs, run : RunIds \cup {NoRun}, reaches : BOOLEAN, merged : BOOLEAN]

-----------------------------------------------------------------------------
(* How the steps move a release *)

\* Going on to another phase changes nothing else of a release, and no other release.
LEMMA PhaseMoves ==
    ASSUME release \in [Approvals -> ReleaseRecords], NEW a \in Approvals, NEW p \in ReleasePcs,
           release' = [release EXCEPT ![a].pc = p]
    PROVE  /\ release' \in [Approvals -> ReleaseRecords]
           /\ \A b \in Approvals : b # a => release'[b] = release[b]
           /\ release'[a].pc = p
           /\ \A b \in Approvals : release'[b].run = release[b].run /\ release'[b].merged = release[b].merged
  BY DEF ReleaseRecords

\* A merge that was answered is remembered.
LEMMA MergeMoves ==
    ASSUME release \in [Approvals -> ReleaseRecords], NEW a \in Approvals,
           release' = [release EXCEPT ![a].pc = "telling", ![a].merged = TRUE]
    PROVE  /\ release' \in [Approvals -> ReleaseRecords]
           /\ \A b \in Approvals : b # a => release'[b] = release[b]
           /\ release'[a].pc = "telling"
           /\ release'[a].merged
           /\ \A b \in Approvals : release'[b].run = release[b].run
  BY DEF ReleaseRecords, ReleasePcs, Concluding

\* A new release has merged nothing.
LEMMA CreatedMoves ==
    ASSUME release \in [Approvals -> ReleaseRecords], NEW a \in Approvals,
           NEW r \in RunIds \cup {NoRun}, NEW ok \in BOOLEAN, Created(a, r, ok)
    PROVE  /\ release' \in [Approvals -> ReleaseRecords]
           /\ \A b \in Approvals : b # a => release'[b] = release[b]
           /\ release'[a].pc = "created"
           /\ ~release'[a].merged
  BY DEF Created, ReleaseRecords, ReleasePcs

\* A stop ends every release and changes nothing else of it.
LEMMA CrashMoves ==
    ASSUME release \in [Approvals -> ReleaseRecords], Crash
    PROVE  /\ release' \in [Approvals -> ReleaseRecords]
           /\ \A a \in Approvals :
                /\ release'[a].pc = IF release[a].pc = "unused" THEN "unused" ELSE "off"
                /\ release'[a].run = release[a].run
                /\ release'[a].merged = release[a].merged
  BY DEF Crash, ReleaseRecords, ReleasePcs

\* A status that is a status keeps the column in its type.
LEMMA StatusMoves ==
    ASSUME TypeOK, NEW r \in RunIds, NEW s \in Statuses, SetStatus(r, s)
    PROVE  /\ row' \in [RunIds -> Statuses]
           /\ \A q \in RunIds : q # r => row'[q] = row[q]
           /\ row'[r] = IF row[r] = "gone" THEN "gone" ELSE s
  BY DEF SetStatus, TypeOK, Statuses

\* The steps of an execution keep every variable in its type.
LEMMA ExecutingType ==
    ASSUME TypeOK, NEW r \in RunIds, Executing(r)
    PROVE  TypeOK'
  <1>1. CASE Begin(r)
    <2>1. row' \in [RunIds -> Statuses]
      BY <1>1, StatusMoves DEF Begin, Statuses
    <2> QED
      BY <1>1, <2>1 DEF Begin, TypeOK, Statuses, github, slack, history
  <1>2. CASE Fetched(r)
    <2>1. row' \in [RunIds -> Statuses]
      BY <1>2, StatusMoves DEF Fetched, Statuses, TypeOK
    <2> QED
      BY <1>2, <2>1 DEF Fetched, TypeOK, Statuses, github, slack, history
  <1>3. CASE Fail(r)
    <2>1. row' \in [RunIds -> Statuses]
      BY <1>3, StatusMoves DEF Fail, Statuses
    <2> QED
      BY <1>3, <2>1 DEF Fail, TypeOK, Statuses, github, slack, history
  <1>4. CASE Stage(r)
    <2>1. stagings[r] + 1 \in Nat
      BY DEF TypeOK
    <2> QED
      BY <1>4, <2>1 DEF Stage, TypeOK, github, slack, table
  <1>5. CASE Preview(r)
    BY <1>5 DEF Preview, TypeOK, github, table, history
  <1>6. CASE Finish(r)
    <2>1. row' \in [RunIds -> Statuses]
      BY <1>6, StatusMoves DEF Finish, Statuses
    <2> QED
      BY <1>6, <2>1 DEF Finish, TypeOK, Statuses, github, slack, history
  <1> QED
    BY <1>1, <1>2, <1>3, <1>4, <1>5, <1>6 DEF Executing

\* Approving keeps every variable in its type.
LEMMA ApproveType ==
    ASSUME TypeOK, NEW a \in Approvals, Approve(a)
    PROVE  TypeOK'
  <1>0. release \in [Approvals -> ReleaseRecords]
    BY DEF TypeOK, ReleaseRecords
  <1>1. release' \in [Approvals -> ReleaseRecords]
    BY <1>0, CreatedMoves DEF Approve, ApproveByApi, ApproveByButton, ApproveByMention
  <1>2. UNCHANGED <<github, slack, table, up, exec, staged, took, history>>
    BY DEF Approve, ApproveByApi, ApproveByButton, ApproveByMention
  <1> QED
    BY <1>1, <1>2 DEF TypeOK, ReleaseRecords, github, slack, table, history

\* The calls of a release keep every variable in its type.
LEMMA ReleasingType ==
    ASSUME TypeOK, NEW a \in Approvals, Releasing(a)
    PROVE  TypeOK'
  <1>0. release \in [Approvals -> ReleaseRecords]
    BY DEF TypeOK, ReleaseRecords
  <1>p. Posting \subseteq ReleasePcs /\ Concluding \subseteq ReleasePcs /\ "off" \in ReleasePcs
    BY DEF ReleasePcs
  <1>r. \A pc \in Posting : AfterRaised(pc, took[a] # 0) \subseteq ReleasePcs /\ AfterAccepted(pc) \subseteq ReleasePcs
    BY DEF AfterRaised, AfterAccepted, ReleasePcs, Posting, Concluding
  <1>g. ASSUME Accepts(a)
        PROVE  /\ posts' \in [Approvals -> Nat]
               /\ UNCHANGED <<head, pr, mergedBy>>
    <2>1. posts[a] + 1 \in Nat
      BY DEF TypeOK
    <2>2. posts' \in [Approvals -> Nat]
      BY <1>g, <2>1 DEF Accepts, TypeOK
    <2> QED
      BY <1>g, <2>2 DEF Accepts
  <1>l. ASSUME lost[a] < MaxLost, lost' = [lost EXCEPT ![a] = @ + 1]
        PROVE  lost' \in [Approvals -> 0 .. MaxLost]
    <2>1. lost[a] + 1 \in 0 .. MaxLost
      BY <1>l DEF TypeOK
    <2> QED
      BY <1>l, <2>1 DEF TypeOK
  <1>1. CASE ReleaseStarts(a)
    <2>1. release' \in [Approvals -> ReleaseRecords]
      BY <1>0, <1>1, PhaseMoves DEF ReleaseStarts, ReleasePcs, Posting
    <2>2. took' \in [Approvals -> Nat] /\ staged' \in [RunIds -> Nat]
      <3>1. release[a].run \in RunIds \cup {NoRun}
        BY <1>0 DEF ReleaseRecords
      <3>2. CASE release[a].run = NoRun
        BY <1>1, <3>2 DEF ReleaseStarts, Pop, TypeOK
      <3>3. CASE release[a].run \in RunIds
        <4>1. staged[release[a].run] \in Nat
          BY <3>3 DEF TypeOK
        <4>2. /\ took' = [took EXCEPT ![a] = staged[release[a].run]]
              /\ staged' = [staged EXCEPT ![release[a].run] = 0]
          BY <1>1, <3>3, ReleaseAssumption DEF ReleaseStarts, Pop
        <4> QED
          BY <3>3, <4>1, <4>2 DEF TypeOK
      <3> QED
        BY <3>1, <3>2, <3>3
    <2> QED
      BY <1>1, <2>1, <2>2 DEF ReleaseStarts, TypeOK, ReleaseRecords, github, slack, table, history
  <1>2. CASE Posted(a)
    <2>1. release' \in [Approvals -> ReleaseRecords]
      BY <1>0, <1>2, <1>r, PhaseMoves DEF Posted, Accepts
    <2>2. Accepts(a) /\ UNCHANGED <<slack, table, up, exec, staged, took, history>>
      BY <1>2 DEF Posted
    <2> QED
      BY <1>g, <2>1, <2>2 DEF TypeOK, ReleaseRecords, slack, table, history
  <1>3. CASE PostLost(a)
    <2>1. release' \in [Approvals -> ReleaseRecords]
      BY <1>0, <1>3, <1>r, PhaseMoves DEF PostLost, Accepts
    <2>2. lost' \in [Approvals -> 0 .. MaxLost]
      BY <1>3, <1>l DEF PostLost
    <2>3. Accepts(a) /\ UNCHANGED <<slack, table, up, exec, staged, took, stagings, crashes>>
      BY <1>3 DEF PostLost
    <2> QED
      BY <1>g, <2>1, <2>2, <2>3 DEF TypeOK, ReleaseRecords, slack, table
  <1>4. CASE PostRefused(a)
    <2>1. release' \in [Approvals -> ReleaseRecords]
      BY <1>0, <1>4, <1>r, PhaseMoves DEF PostRefused
    <2> QED
      BY <1>4, <2>1 DEF PostRefused, TypeOK, ReleaseRecords, github, slack, table, history
  <1>5. CASE Promote(a)
    <2>1. release' \in [Approvals -> ReleaseRecords]
      BY <1>0, <1>5, PhaseMoves DEF Promote, ReleasePcs, Concluding
    <2> QED
      BY <1>5, <2>1 DEF Promote, TypeOK, ReleaseRecords, github, slack, table, history
  <1>6. CASE Merged(a)
    <2>1. release' \in [Approvals -> ReleaseRecords]
      BY <1>0, <1>6, MergeMoves DEF Merged
    <2> QED
      BY <1>6, <2>1 DEF Merged, Merges, TypeOK, ReleaseRecords, slack, table, history
  <1>7. CASE MergeLost(a)
    <2>1. release' \in [Approvals -> ReleaseRecords]
      BY <1>0, <1>7, <1>p, PhaseMoves DEF MergeLost, AfterMergeRaised, Concluding
    <2>2. lost' \in [Approvals -> 0 .. MaxLost]
      BY <1>7, <1>l DEF MergeLost
    <2> QED
      BY <1>7, <2>1, <2>2 DEF MergeLost, Merges, TypeOK, ReleaseRecords, slack, table
  <1>8. CASE MergeRefused(a)
    <2>1. release' \in [Approvals -> ReleaseRecords]
      BY <1>0, <1>8, <1>p, PhaseMoves DEF MergeRefused, AfterMergeRaised, Concluding
    <2> QED
      BY <1>8, <2>1 DEF MergeRefused, TypeOK, ReleaseRecords, github, slack, table, history
  <1>9. CASE Tell(a)
    <2>1. release' \in [Approvals -> ReleaseRecords]
      BY <1>0, <1>9, <1>p, PhaseMoves DEF Tell
    <2> QED
      BY <1>9, <2>1 DEF Tell, TypeOK, ReleaseRecords, github, table, history
  <1> QED
    BY <1>1, <1>2, <1>3, <1>4, <1>5, <1>6, <1>7, <1>8, <1>9 DEF Releasing

\* Every step keeps every variable in its type.
LEMMA TypeStep == TypeOK /\ [Next]_vars => TypeOK'
  <1> SUFFICES ASSUME TypeOK, [Next]_vars PROVE TypeOK'
    OBVIOUS
  <1>1. CASE Push
    <2>1. head' \in 0 .. MaxPushes
      BY <1>1 DEF Push, TypeOK
    <2> QED
      BY <1>1, <2>1 DEF Push, TypeOK, slack, table, history
  <1>2. CASE Close
    BY <1>2 DEF Close, TypeOK, slack, table, history
  <1>3. ASSUME NEW r \in RunIds, Request(r) PROVE TypeOK'
    <2>1. rowHead' \in [RunIds -> {NoHead} \cup 0 .. MaxPushes]
      BY <1>3 DEF Request, TypeOK
    <2> QED
      BY <1>3, <2>1 DEF Request, TypeOK, Statuses, github, slack, history
  <1>4. ASSUME NEW r \in RunIds, Comment(r) PROVE TypeOK'
    <2>1. row' \in [RunIds -> Statuses] /\ rowHead' \in [RunIds -> {NoHead} \cup 0 .. MaxPushes]
      BY <1>4 DEF Comment, TypeOK, Statuses
    <2> QED
      BY <1>4, <2>1 DEF Comment, TypeOK, Statuses, github, slack, history
  <1>5. ASSUME NEW r \in RunIds, Executing(r) PROVE TypeOK'
    BY <1>5, ExecutingType
  <1>6. ASSUME NEW a \in Approvals, Approve(a) PROVE TypeOK'
    BY <1>6, ApproveType
  <1>7. ASSUME NEW a \in Approvals, Releasing(a) PROVE TypeOK'
    BY <1>7, ReleasingType
  <1>8. CASE Crash
    <2>1. release' \in [Approvals -> ReleaseRecords]
      BY <1>8, CrashMoves DEF TypeOK, ReleaseRecords
    <2>2. crashes' \in 0 .. MaxCrashes
      BY <1>8 DEF Crash, TypeOK
    <2> QED
      BY <1>8, <2>1, <2>2 DEF Crash, TypeOK, ReleaseRecords, github, slack, table
  <1>9. CASE Boot
    BY <1>9 DEF Boot, TypeOK, Statuses, github, slack, history
  <1>10. CASE UNCHANGED vars
    BY <1>10 DEF vars, TypeOK, github, slack, table, history
  <1> QED
    BY <1>1, <1>2, <1>3, <1>4, <1>5, <1>6, <1>7, <1>8, <1>9, <1>10 DEF Next

-----------------------------------------------------------------------------
(* What GitHub and Slack were told *)

\* A step that neither releases nor reopens a merged pull request disturbs none of it.
LEMMA QuietDeliveries ==
    ASSUME Deliveries, UNCHANGED <<posts, release, took, told, lost, mergedBy>>, pr = "merged" => pr' = "merged"
    PROVE  Deliveries'
  BY DEF Deliveries, OnePostPerApproval, MergeFollowsPost, ConfirmationIsTrue, PhaseFitsPosts, MergerIsUnique

\* A release that moves on, without telling or merging, into a phase that fits what
\* it has posted.
LEMMA MovedDeliveries ==
    ASSUME TypeOK, Deliveries, NEW a \in Approvals,
           UNCHANGED <<told, mergedBy, pr>>,
           release' \in [Approvals -> ReleaseRecords],
           \A b \in Approvals : release'[b].merged => release[b].merged,
           \A b \in Approvals : b # a =>
               release'[b] = release[b] /\ took'[b] = took[b] /\ posts'[b] = posts[b] /\ lost'[b] = lost[b],
           posts[a] \in Nat, posts'[a] \in Nat, posts[a] <= posts'[a],
           posts'[a] <= 1 + lost'[a],
           release'[a].pc \in {"unused", "created"} => took'[a] = 0 /\ posts'[a] = 0,
           release'[a].pc \in Posting => posts'[a] <= lost'[a],
           release'[a].pc \in Concluding => posts'[a] > 0,
           took'[a] # 0 => release'[a].run \in RunIds
    PROVE  Deliveries'
  <1>1. OnePostPerApproval'
    BY DEF Deliveries, OnePostPerApproval
  <1>2. \A b \in Approvals : posts[b] > 0 => posts'[b] > 0
    OBVIOUS
  <1>3. MergeFollowsPost'
    BY <1>2 DEF Deliveries, MergeFollowsPost, TypeOK
  <1>4. ConfirmationIsTrue'
    BY <1>2 DEF Deliveries, ConfirmationIsTrue
  <1>5. PhaseFitsPosts'
    BY DEF Deliveries, PhaseFitsPosts
  <1>6. MergerIsUnique'
    BY DEF Deliveries, MergerIsUnique
  <1> QED
    BY <1>1, <1>3, <1>4, <1>5, <1>6 DEF Deliveries

\* The steps of a release keep its account with GitHub and Slack.
LEMMA ReleasingDeliveries ==
    ASSUME TypeOK, Deliveries, NEW a \in Approvals, Releasing(a)
    PROVE  Deliveries'
  <1>0. release \in [Approvals -> ReleaseRecords] /\ posts[a] \in Nat /\ lost[a] \in Nat /\ took[a] \in Nat
    BY DEF TypeOK, ReleaseRecords
  <1>p. PhaseFitsPosts /\ OnePostPerApproval
    BY DEF Deliveries
  <1>r. \A pc \in Posting : AfterRaised(pc, took[a] # 0) \subseteq Posting \cup {"off"}
    BY DEF AfterRaised, Posting
  <1>c. Posting \subseteq ReleasePcs /\ Concluding \subseteq ReleasePcs /\ "off" \in ReleasePcs
    BY DEF ReleasePcs
  <1>d. /\ \A pc \in Posting : pc \notin {"unused", "created", "off"} \cup Concluding
        /\ \A pc \in Concluding : pc \notin {"unused", "created", "off"} \cup Posting
    BY DEF Posting, Concluding
  <1>g. ASSUME Accepts(a)
        PROVE  /\ posts'[a] = posts[a] + 1
               /\ \A b \in Approvals : b # a => posts'[b] = posts[b]
               /\ UNCHANGED <<pr, mergedBy>>
               /\ posts[a] <= lost[a]
               /\ took[a] # 0 => release[a].run \in RunIds
    BY <1>g, <1>p DEF Accepts, TypeOK, PhaseFitsPosts
  <1>l. ASSUME lost' = [lost EXCEPT ![a] = @ + 1]
        PROVE  lost'[a] = lost[a] + 1 /\ \A b \in Approvals : b # a => lost'[b] = lost[b]
    BY <1>l DEF TypeOK
  <1>1. CASE ReleaseStarts(a)
    <2>1. /\ release' \in [Approvals -> ReleaseRecords]
          /\ \A b \in Approvals : b # a => release'[b] = release[b]
          /\ release'[a].pc = "submitting"
          /\ \A b \in Approvals : release'[b].run = release[b].run /\ release'[b].merged = release[b].merged
      BY <1>0, <1>1, PhaseMoves DEF ReleaseStarts, ReleasePcs, Posting
    <2>2. posts[a] = 0 /\ took[a] = 0
      BY <1>1, <1>p DEF ReleaseStarts, PhaseFitsPosts
    <2>3. /\ \A b \in Approvals : b # a => took'[b] = took[b]
          /\ took'[a] # 0 => release[a].run \in RunIds
      <3>1. release[a].run \in RunIds \cup {NoRun}
        BY <1>0 DEF ReleaseRecords
      <3> QED
        BY <1>1, <2>2, <3>1 DEF ReleaseStarts, Pop, TypeOK
    <2>4. UNCHANGED <<pr, mergedBy, told, posts, lost>>
      BY <1>1 DEF ReleaseStarts, github, slack, history
    <2>5. "submitting" \notin Concluding \cup {"unused", "created"}
      BY DEF Concluding
    <2>6. took'[a] # 0 => release'[a].run \in RunIds
      BY <2>1, <2>3
    <2>7. posts'[a] = 0 /\ lost'[a] = lost[a]
      BY <2>2, <2>4
    <2> QED
      BY <1>0, <2>1, <2>2, <2>3, <2>4, <2>5, <2>6, <2>7, MovedDeliveries
  <1>2. CASE Posted(a)
    <2>1. PICK p \in {"promoting"} : release' = [release EXCEPT ![a].pc = p]
      BY <1>2 DEF Posted, AfterAccepted
    <2>2. /\ release' \in [Approvals -> ReleaseRecords]
          /\ \A b \in Approvals : b # a => release'[b] = release[b]
          /\ release'[a].pc = "promoting"
          /\ \A b \in Approvals : release'[b].run = release[b].run /\ release'[b].merged = release[b].merged
      BY <1>0, <2>1, PhaseMoves DEF ReleasePcs, Concluding
    <2>3. UNCHANGED <<told, took, lost>> /\ Accepts(a)
      BY <1>2 DEF Posted, slack, history
    <2>4. "promoting" \notin Posting \cup {"unused", "created"}
      BY DEF Posting
    <2> QED
      BY <1>0, <1>g, <2>2, <2>3, <2>4, MovedDeliveries
  <1>3. CASE PostLost(a)
    <2>1. PICK p \in Posting \cup {"off"} : release' = [release EXCEPT ![a].pc = p]
      BY <1>3, <1>r DEF PostLost, Accepts
    <2>2. /\ release' \in [Approvals -> ReleaseRecords]
          /\ \A b \in Approvals : b # a => release'[b] = release[b]
          /\ release'[a].pc = p
          /\ \A b \in Approvals : release'[b].run = release[b].run /\ release'[b].merged = release[b].merged
      BY <1>0, <1>c, <2>1, PhaseMoves
    <2>3. UNCHANGED <<told, took>> /\ Accepts(a) /\ lost' = [lost EXCEPT ![a] = @ + 1]
      BY <1>3 DEF PostLost, slack
    <2>4. p \notin {"unused", "created"} \cup Concluding
      BY <1>d, <2>1 DEF Concluding
    <2> QED
      BY <1>0, <1>g, <1>l, <2>2, <2>3, <2>4, MovedDeliveries
  <1>4. CASE PostRefused(a)
    <2>1. PICK p \in Posting \cup {"off"} : release' = [release EXCEPT ![a].pc = p]
      BY <1>4, <1>r DEF PostRefused
    <2>2. /\ release' \in [Approvals -> ReleaseRecords]
          /\ \A b \in Approvals : b # a => release'[b] = release[b]
          /\ release'[a].pc = p
          /\ \A b \in Approvals : release'[b].run = release[b].run /\ release'[b].merged = release[b].merged
      BY <1>0, <1>c, <2>1, PhaseMoves
    <2>3. UNCHANGED <<told, took, posts, lost, pr, mergedBy>>
      BY <1>4 DEF PostRefused, slack, github, history
    <2>4. p \notin {"unused", "created"} \cup Concluding
      BY <1>d, <2>1 DEF Concluding
    <2>5. posts[a] <= lost[a] /\ (took[a] # 0 => release[a].run \in RunIds)
      BY <1>4, <1>p DEF PostRefused, PhaseFitsPosts
    <2> QED
      BY <1>0, <2>2, <2>3, <2>4, <2>5, MovedDeliveries
  <1>5. ASSUME NEW p \in Concluding, release[a].pc \in Concluding,
               release' = [release EXCEPT ![a].pc = p],
               UNCHANGED <<told, took, posts, pr, mergedBy>>,
               lost' = lost \/ lost' = [lost EXCEPT ![a] = @ + 1]
        PROVE  Deliveries'
    <2>1. /\ release' \in [Approvals -> ReleaseRecords]
          /\ \A b \in Approvals : b # a => release'[b] = release[b]
          /\ release'[a].pc = p
          /\ \A b \in Approvals : release'[b].run = release[b].run /\ release'[b].merged = release[b].merged
      BY <1>0, <1>c, <1>5, PhaseMoves
    <2>2. lost[a] <= lost'[a] /\ lost'[a] \in Nat /\ \A b \in Approvals : b # a => lost'[b] = lost[b]
      BY <1>0, <1>5, <1>l
    <2>3. posts[a] > 0 /\ posts[a] <= 1 + lost[a] /\ (took[a] # 0 => release[a].run \in RunIds)
      BY <1>5, <1>p DEF PhaseFitsPosts, OnePostPerApproval
    <2> QED
      BY <1>0, <1>d, <1>5, <2>1, <2>2, <2>3, MovedDeliveries
  <1>6. CASE Promote(a)
    <2>1. PICK p \in Concluding : release' = [release EXCEPT ![a].pc = p]
      BY <1>6 DEF Promote, Concluding
    <2> QED
      BY <1>5, <1>6, <2>1 DEF Promote, Concluding, github, slack, history
  <1>7. CASE MergeRefused(a)
    BY <1>5, <1>7 DEF MergeRefused, AfterMergeRaised, Concluding, github, slack, history
  <1>8. ASSUME Merges(a), UNCHANGED <<told, took>>,
               release' \in [Approvals -> ReleaseRecords],
               \A b \in Approvals : b # a => release'[b] = release[b],
               release'[a].pc = "telling",
               \A b \in Approvals : release'[b].run = release[b].run,
               lost' = lost \/ lost' = [lost EXCEPT ![a] = @ + 1]
        PROVE  Deliveries'
    <2>1. /\ mergedBy = Nobody /\ mergedBy' = a /\ pr' = "merged" /\ UNCHANGED posts
          /\ release[a].pc = "merging"
      BY <1>8 DEF Merges, Deliveries, MergerIsUnique
    <2>2. \A b \in Approvals : ~release[b].merged /\ told[b] # "merged"
      BY <2>1 DEF Deliveries, MergerIsUnique, ConfirmationIsTrue
    <2>3. posts[a] > 0
      BY <1>p, <2>1 DEF PhaseFitsPosts, Concluding
    <2>4. \A b \in Approvals : lost[b] <= lost'[b] /\ lost[b] \in Nat /\ lost'[b] \in Nat /\ posts[b] \in Nat
      BY <1>8 DEF TypeOK
    <2>5. \A b \in Approvals : b # a => lost'[b] = lost[b]
      BY <1>8, <1>l
    <2>6. OnePostPerApproval'
      BY <1>p, <2>1, <2>4 DEF OnePostPerApproval
    <2>7. MergeFollowsPost' /\ ConfirmationIsTrue' /\ MergerIsUnique'
      BY <1>8, <2>1, <2>2, <2>3 DEF Deliveries, MergeFollowsPost, ConfirmationIsTrue, MergerIsUnique
    <2>8. PhaseFitsPosts'
      <3> SUFFICES ASSUME NEW b \in Approvals
                   PROVE  /\ release'[b].pc \in {"unused", "created"} => took[b] = 0 /\ posts[b] = 0
                          /\ release'[b].pc \in Posting => posts[b] <= lost'[b]
                          /\ release'[b].pc \in Concluding => posts[b] > 0
                          /\ took[b] # 0 => release'[b].run \in RunIds
        BY <1>8, <2>1 DEF PhaseFitsPosts
      <3>1. CASE b = a
        BY <1>8, <1>p, <2>3, <3>1 DEF PhaseFitsPosts, Posting
      <3>2. CASE b # a
        BY <1>8, <1>p, <2>5, <3>2 DEF PhaseFitsPosts
      <3> QED
        BY <3>1, <3>2
    <2> QED
      BY <2>6, <2>7, <2>8 DEF Deliveries
  <1>9. CASE Merged(a)
    <2>1. /\ release' \in [Approvals -> ReleaseRecords]
          /\ \A b \in Approvals : b # a => release'[b] = release[b]
          /\ release'[a].pc = "telling"
          /\ \A b \in Approvals : release'[b].run = release[b].run
      BY <1>0, <1>9, MergeMoves DEF Merged
    <2> QED
      BY <1>8, <1>9, <2>1 DEF Merged, slack, history
  <1>10. CASE MergeLost(a)
    <2>1. /\ release' \in [Approvals -> ReleaseRecords]
          /\ \A b \in Approvals : b # a => release'[b] = release[b]
          /\ release'[a].pc = "telling"
          /\ \A b \in Approvals : release'[b].run = release[b].run
      BY <1>0, <1>c, <1>10, PhaseMoves DEF MergeLost, AfterMergeRaised, Concluding
    <2> QED
      BY <1>8, <1>10, <2>1 DEF MergeLost, slack
  <1>11. CASE Tell(a)
    <2>1. /\ release' \in [Approvals -> ReleaseRecords]
          /\ \A b \in Approvals : b # a => release'[b] = release[b]
          /\ release'[a].pc = "off"
          /\ \A b \in Approvals : release'[b].run = release[b].run /\ release'[b].merged = release[b].merged
      BY <1>0, <1>c, <1>11, PhaseMoves DEF Tell
    <2>2. UNCHANGED <<pr, mergedBy, posts, lost, took>>
      BY <1>11 DEF Tell, github, history
    <2>3. posts[a] > 0
      BY <1>11, <1>p DEF Tell, PhaseFitsPosts, Concluding
    <2>4. ConfirmationIsTrue'
      <3>1. \A b \in Approvals : b # a => told'[b] = told[b]
        BY <1>11 DEF Tell, TypeOK
      <3>2. told'[a] \in {told[a], IF release[a].merged THEN "merged" ELSE "approved"}
        BY <1>11 DEF Tell, TypeOK
      <3>3. release[a].merged => mergedBy = a
        BY DEF Deliveries, MergerIsUnique
      <3> QED
        BY <2>2, <2>3, <3>1, <3>2, <3>3 DEF Deliveries, ConfirmationIsTrue
    <2>5. OnePostPerApproval' /\ MergeFollowsPost' /\ MergerIsUnique'
      BY <2>1, <2>2 DEF Deliveries, OnePostPerApproval, MergeFollowsPost, MergerIsUnique
    <2>6. PhaseFitsPosts'
      BY <1>p, <2>1, <2>2 DEF PhaseFitsPosts, Posting, Concluding
    <2> QED
      BY <2>4, <2>5, <2>6 DEF Deliveries
  <1> QED
    BY <1>1, <1>2, <1>3, <1>4, <1>6, <1>7, <1>9, <1>10, <1>11 DEF Releasing

\* Approving creates a release that has told nobody anything.
LEMMA ApproveMoves ==
    ASSUME TypeOK, NEW a \in Approvals, Approve(a)
    PROVE  /\ release[a].pc = "unused"
           /\ release' \in [Approvals -> ReleaseRecords]
           /\ \A b \in Approvals : b # a => release'[b] = release[b]
           /\ release'[a].pc = "created"
           /\ ~release'[a].merged
           /\ UNCHANGED <<github, slack, table, up, exec, staged, took, history>>
  <1>1. release \in [Approvals -> ReleaseRecords]
    BY DEF TypeOK, ReleaseRecords
  <1>2. /\ release[a].pc = "unused"
        /\ UNCHANGED <<github, slack, table, up, exec, staged, took, history>>
    BY DEF Approve, ApproveByApi, ApproveByButton, ApproveByMention
  <1>3. \E r \in RunIds \cup {NoRun}, ok \in BOOLEAN : Created(a, r, ok)
    BY DEF Approve, ApproveByApi, ApproveByButton, ApproveByMention
  <1> QED
    BY <1>1, <1>2, <1>3, CreatedMoves

\* Every step keeps the account of the releases with GitHub and Slack.
LEMMA DeliveriesStep == TypeOK /\ Deliveries /\ [Next]_vars => Deliveries'
  <1> SUFFICES ASSUME TypeOK, Deliveries, [Next]_vars PROVE Deliveries'
    OBVIOUS
  <1>1. CASE Push \/ Close
    <2>1. UNCHANGED <<posts, release, took, told, lost, mergedBy>> /\ pr # "merged"
      BY <1>1 DEF Push, Close, slack, history
    <2> QED
      BY <2>1, QuietDeliveries
  <1>2. ASSUME NEW r \in RunIds, Request(r) \/ Comment(r) \/ Executing(r) PROVE Deliveries'
    <2>1. UNCHANGED <<posts, release, took, told, lost, mergedBy, pr>>
      BY <1>2 DEF Request, Comment, Executing, Begin, Fetched, Fail, Stage, Preview, Finish,
                  github, slack, history
    <2> QED
      BY <2>1, QuietDeliveries
  <1>3. ASSUME NEW a \in Approvals, Approve(a) PROVE Deliveries'
    <2>1. /\ release[a].pc = "unused"
          /\ release' \in [Approvals -> ReleaseRecords]
          /\ \A b \in Approvals : b # a => release'[b] = release[b]
          /\ release'[a].pc = "created"
          /\ ~release'[a].merged
          /\ UNCHANGED <<posts, took, told, lost, mergedBy, pr>>
      BY <1>3, ApproveMoves DEF github, slack, history
    <2>2. took[a] = 0 /\ posts[a] = 0 /\ lost[a] \in Nat
      BY <2>1 DEF Deliveries, PhaseFitsPosts, TypeOK
    <2>3. "created" \notin Posting \cup Concluding
      BY DEF Posting, Concluding
    <2>4. /\ posts[a] \in Nat /\ posts'[a] = posts[a] /\ posts'[a] <= 1 + lost'[a]
      BY <2>1, <2>2
    <2> QED
      BY <2>1, <2>2, <2>3, <2>4, MovedDeliveries
  <1>4. ASSUME NEW a \in Approvals, Releasing(a) PROVE Deliveries'
    BY <1>4, ReleasingDeliveries
  <1>5. CASE Crash
    <2>1. \A a \in Approvals :
            /\ release'[a].pc = IF release[a].pc = "unused" THEN "unused" ELSE "off"
            /\ release'[a].run = release[a].run
            /\ release'[a].merged = release[a].merged
      BY <1>5, CrashMoves DEF TypeOK, ReleaseRecords
    <2>2. UNCHANGED <<posts, took, told, lost, mergedBy, pr>>
      BY <1>5 DEF Crash, github, slack
    <2>3. {"unused", "off"} \cap (Posting \cup Concluding) = {}
      BY DEF Posting, Concluding
    <2>4. PhaseFitsPosts'
      BY <2>1, <2>2, <2>3 DEF Deliveries, PhaseFitsPosts
    <2>5. OnePostPerApproval' /\ MergeFollowsPost' /\ ConfirmationIsTrue' /\ MergerIsUnique'
      BY <2>1, <2>2 DEF Deliveries, OnePostPerApproval, MergeFollowsPost, ConfirmationIsTrue, MergerIsUnique
    <2> QED
      BY <2>4, <2>5 DEF Deliveries
  <1>6. CASE Boot
    <2>1. UNCHANGED <<posts, release, took, told, lost, mergedBy, pr>>
      BY <1>6 DEF Boot, github, slack, history
    <2> QED
      BY <2>1, QuietDeliveries
  <1>7. CASE UNCHANGED vars
    <2>1. UNCHANGED <<posts, release, took, told, lost, mergedBy, pr>>
      BY <1>7 DEF vars, github, slack, history
    <2> QED
      BY <2>1, QuietDeliveries
  <1> QED
    BY <1>1, <1>2, <1>3, <1>4, <1>5, <1>6, <1>7 DEF Next

-----------------------------------------------------------------------------
(* The copies of the staged reviews *)

\* Only the start of a release takes a copy; its later steps do not turn to another run.
LEMMA ReleasingKeepsCopies ==
    ASSUME TypeOK, NEW a \in Approvals, Releasing(a), ~ReleaseStarts(a)
    PROVE  /\ UNCHANGED <<took, staged, stagings>>
           /\ \A b \in Approvals : release'[b].run = release[b].run
  <1>0. release \in [Approvals -> ReleaseRecords]
    BY DEF TypeOK, ReleaseRecords
  <1>1. UNCHANGED <<took, staged, stagings>>
    BY DEF Releasing, Posted, PostLost, PostRefused, Promote, Merged, MergeLost, MergeRefused, Tell, history
  <1>2. \/ \E p : release' = [release EXCEPT ![a].pc = p]
        \/ release' = [release EXCEPT ![a].pc = "telling", ![a].merged = TRUE]
    BY DEF Releasing, Posted, PostLost, PostRefused, Promote, Merged, MergeLost, MergeRefused, Tell, AfterMergeRaised
  <1>3. ASSUME NEW p, release' = [release EXCEPT ![a].pc = p]
        PROVE  \A b \in Approvals : release'[b].run = release[b].run
    BY <1>0, <1>3 DEF ReleaseRecords
  <1> QED
    BY <1>0, <1>1, <1>2, <1>3, MergeMoves

\* Copies stay where they are when nothing is staged, taken or newly approved.
LEMMA QuietCopies ==
    ASSUME Copies, UNCHANGED <<took, staged, stagings>>,
           \A b \in Approvals : release'[b].run = release[b].run \/ took[b] = 0
    PROVE  Copies'
  <1>1. ReviewIsReleasedOnce'
    BY DEF Copies, ReviewIsReleasedOnce
  <1>2. CopiesAreDistinct'
    BY DEF Copies, CopiesAreDistinct
  <1> QED
    BY <1>1, <1>2 DEF Copies

\* Every step keeps each copy in one place: staged, or taken by one release.
LEMMA CopiesStep == TypeOK /\ PhaseFitsPosts /\ Copies /\ [Next]_vars => Copies'
  <1> SUFFICES ASSUME TypeOK, PhaseFitsPosts, Copies, [Next]_vars PROVE Copies'
    OBVIOUS
  <1>1. CASE Push \/ Close \/ Boot \/ UNCHANGED vars
    <2>1. UNCHANGED <<took, staged, stagings, release>>
      BY <1>1 DEF Push, Close, Boot, vars, history
    <2> QED
      BY <2>1, QuietCopies
  <1>2. ASSUME NEW r \in RunIds, Request(r) \/ Comment(r) \/ Begin(r) \/ Fetched(r) \/ Fail(r) \/ Preview(r) \/ Finish(r)
        PROVE  Copies'
    <2>1. UNCHANGED <<took, staged, stagings, release>>
      BY <1>2 DEF Request, Comment, Begin, Fetched, Fail, Preview, Finish, history
    <2> QED
      BY <2>1, QuietCopies
  <1>3. ASSUME NEW r \in RunIds, Stage(r) PROVE Copies'
    <2>1. UNCHANGED <<took, release>>
      BY <1>3 DEF Stage
    <2>2. /\ stagings[r] \in Nat /\ staged'[r] = stagings[r] + 1 /\ stagings'[r] = stagings[r] + 1
          /\ \A q \in RunIds : q # r => staged'[q] = staged[q] /\ stagings'[q] = stagings[q]
      BY <1>3 DEF Stage, TypeOK
    <2>3. ReviewIsReleasedOnce'
      BY <2>1 DEF Copies, ReviewIsReleasedOnce
    <2>4. \A q \in RunIds : (staged[q] <= stagings[q])'
      BY <2>2 DEF Copies, CopiesAreDistinct
    <2>5. ASSUME NEW a \in Approvals, NEW q \in RunIds, took[a] # 0, release[a].run = q
          PROVE  took[a] <= stagings'[q] /\ took[a] # staged'[q]
      <3>1. took[a] \in Nat /\ took[a] <= stagings[q] /\ took[a] # staged[q]
        BY <2>5 DEF Copies, CopiesAreDistinct, TypeOK
      <3> QED
        BY <2>2, <3>1
    <2>6. CopiesAreDistinct'
      BY <2>1, <2>4, <2>5 DEF CopiesAreDistinct
    <2> QED
      BY <2>3, <2>6 DEF Copies
  <1>4. ASSUME NEW a \in Approvals, Approve(a) PROVE Copies'
    <2>1. /\ UNCHANGED <<took, staged, stagings>>
          /\ \A b \in Approvals : b # a => release'[b] = release[b]
          /\ release[a].pc = "unused"
      BY <1>4, ApproveMoves DEF history
    <2>2. took[a] = 0
      BY <2>1 DEF PhaseFitsPosts
    <2> QED
      BY <2>1, <2>2, QuietCopies
  <1>5. ASSUME NEW a \in Approvals, ReleaseStarts(a) PROVE Copies'
    <2>0. release \in [Approvals -> ReleaseRecords]
      BY DEF TypeOK, ReleaseRecords
    <2>1. /\ \A b \in Approvals : release'[b].run = release[b].run
          /\ UNCHANGED stagings
          /\ took[a] = 0
      BY <1>5, <2>0, PhaseMoves DEF ReleaseStarts, PhaseFitsPosts, ReleasePcs, Posting, history
    <2>2. CASE release[a].run = NoRun
      <3>1. UNCHANGED <<took, staged>>
        BY <1>5, <2>2 DEF ReleaseStarts, Pop
      <3> QED
        BY <2>1, <3>1, QuietCopies
    <2>3. CASE release[a].run \in RunIds
      <3> DEFINE r == release[a].run
      <3>1. /\ took' = [took EXCEPT ![a] = staged[r]]
            /\ staged' = [staged EXCEPT ![r] = 0]
            /\ r \in RunIds
        BY <1>5, <2>3 DEF ReleaseStarts, Pop
      <3>2. /\ took'[a] = staged[r]
            /\ \A b \in Approvals : b # a => took'[b] = took[b]
            /\ staged'[r] = 0
            /\ \A q \in RunIds : q # r => staged'[q] = staged[q]
            /\ \A q \in RunIds : staged[q] \in Nat /\ stagings[q] \in Nat
        BY <3>1 DEF TypeOK
      <3>3. ReviewIsReleasedOnce'
        BY <2>1, <3>1, <3>2 DEF Copies, ReviewIsReleasedOnce, CopiesAreDistinct
      <3>4. CopiesAreDistinct'
        BY <2>1, <3>1, <3>2 DEF Copies, CopiesAreDistinct
      <3> QED
        BY <3>3, <3>4 DEF Copies
    <2> QED
      BY <2>0, <2>2, <2>3 DEF ReleaseRecords
  <1>6. ASSUME NEW a \in Approvals, Releasing(a), ~ReleaseStarts(a) PROVE Copies'
    BY <1>6, ReleasingKeepsCopies, QuietCopies
  <1>7. CASE Crash
    <2>1. \A a \in Approvals : release'[a].run = release[a].run
      BY <1>7, CrashMoves DEF TypeOK, ReleaseRecords
    <2>2. UNCHANGED <<took, stagings>> /\ \A r \in RunIds : staged'[r] = 0 /\ stagings[r] \in Nat
      BY <1>7 DEF Crash, TypeOK
    <2>3. ReviewIsReleasedOnce'
      BY <2>1, <2>2 DEF Copies, ReviewIsReleasedOnce
    <2>4. CopiesAreDistinct'
      BY <2>1, <2>2 DEF Copies, CopiesAreDistinct
    <2> QED
      BY <2>3, <2>4 DEF Copies
  <1> QED
    BY <1>1, <1>2, <1>3, <1>4, <1>5, <1>6, <1>7 DEF Next, Executing

-----------------------------------------------------------------------------
(* The executions and their rows *)

\* A step of GitHub or of a release executes nothing.
LEMMA QuietExecutions ==
    ASSUME Executions, UNCHANGED <<exec, row, up, stagings, crashes>>
    PROVE  Executions'
  BY DEF Executions, StagedOncePerLife, ExecutionFitsRow, StagedEarlier

\* The steps of an execution go on from its row, and stage it once.
LEMMA ExecutingExecutions ==
    ASSUME TypeOK, Executions, NEW r \in RunIds, Executing(r)
    PROVE  Executions'
  <1>0. /\ StagedOncePerLife /\ ExecutionFitsRow /\ StagedEarlier
        /\ \A q \in RunIds : stagings[q] \in Nat
        /\ crashes \in Nat
    BY DEF Executions, TypeOK
  <1>u. exec[r] # "off" => up
    BY <1>0 DEF ExecutionFitsRow
  <1>1. CASE Begin(r)
    <2>1. up /\ row[r] = "open" /\ UNCHANGED <<up, stagings, crashes>>
      BY <1>1 DEF Begin, Claimable, history
    <2>2. /\ row'[r] = "running" /\ exec'[r] = "fetching"
          /\ \A q \in RunIds : q # r => row'[q] = row[q] /\ exec'[q] = exec[q]
      BY <1>1, <2>1 DEF Begin, SetStatus, TypeOK, Statuses
    <2> QED
      BY <1>0, <2>1, <2>2 DEF Executions, StagedOncePerLife, ExecutionFitsRow, StagedEarlier
  <1>2. CASE Fetched(r)
    <2>1. exec[r] = "fetching" /\ UNCHANGED <<up, stagings, crashes>>
      BY <1>2 DEF Fetched, history
    <2>2. CASE exec'[r] = "off"
      <3>1. /\ row'[r] \in {"gone", "skipped"}
            /\ \A q \in RunIds : q # r => row'[q] = row[q] /\ exec'[q] = exec[q]
        BY <1>2, <2>1, <2>2 DEF Fetched, SetStatus, TypeOK, Statuses
      <3> QED
        BY <1>0, <2>1, <2>2, <3>1 DEF Executions, StagedOncePerLife, ExecutionFitsRow, StagedEarlier
    <2>3. CASE exec'[r] = "reviewing" /\ UNCHANGED row
      <3>1. \A q \in RunIds : q # r => exec'[q] = exec[q]
        BY <1>2 DEF Fetched, TypeOK
      <3> QED
        BY <1>0, <2>1, <2>3, <3>1 DEF Executions, StagedOncePerLife, ExecutionFitsRow, StagedEarlier
    <2> QED
      BY <1>2, <2>2, <2>3 DEF Fetched, TypeOK
  <1>3. CASE Fail(r)
    <2>1. exec[r] = "reviewing" /\ UNCHANGED <<up, stagings, crashes>>
      BY <1>3 DEF Fail, history
    <2>2. /\ row'[r] \in {"gone", "open", "failed"} /\ exec'[r] = "off"
          /\ \A q \in RunIds : q # r => row'[q] = row[q] /\ exec'[q] = exec[q]
      BY <1>3 DEF Fail, SetStatus, TypeOK, Statuses
    <2> QED
      BY <1>0, <2>1, <2>2 DEF Executions, StagedOncePerLife, ExecutionFitsRow, StagedEarlier
  <1>4. CASE Stage(r)
    <2>1. /\ exec[r] = "reviewing" /\ UNCHANGED <<up, row, crashes>>
          /\ stagings'[r] = stagings[r] + 1
          /\ \A q \in RunIds : q # r => stagings'[q] = stagings[q]
          /\ exec'[r] = "notifying"
          /\ \A q \in RunIds : q # r => exec'[q] = exec[q]
      BY <1>4 DEF Stage, TypeOK, table
    <2>2. row[r] \in {"running", "gone"} /\ up /\ stagings[r] <= crashes
      BY <1>0, <1>u, <2>1 DEF ExecutionFitsRow, StagedEarlier
    <2>3. StagedOncePerLife'
      BY <1>0, <2>1, <2>2 DEF StagedOncePerLife
    <2>4. ExecutionFitsRow'
      BY <1>0, <2>1, <2>2 DEF ExecutionFitsRow
    <2>5. StagedEarlier'
      BY <1>0, <2>1, <2>2 DEF StagedEarlier
    <2> QED
      BY <2>3, <2>4, <2>5 DEF Executions
  <1>5. CASE Preview(r)
    BY <1>5, QuietExecutions DEF Preview, table, history
  <1>6. CASE Finish(r)
    <2>1. exec[r] = "notifying" /\ UNCHANGED <<up, stagings, crashes>>
      BY <1>6 DEF Finish, history
    <2>2. /\ row'[r] \in {"gone", "pending_approval"} /\ exec'[r] = "off"
          /\ \A q \in RunIds : q # r => row'[q] = row[q] /\ exec'[q] = exec[q]
      BY <1>6 DEF Finish, SetStatus, TypeOK, Statuses
    <2> QED
      BY <1>0, <1>u, <2>1, <2>2 DEF Executions, StagedOncePerLife, ExecutionFitsRow, StagedEarlier
  <1> QED
    BY <1>1, <1>2, <1>3, <1>4, <1>5, <1>6 DEF Executing

\* Every step keeps executions and rows in agreement.
LEMMA ExecutionsStep == TypeOK /\ Executions /\ [Next]_vars => Executions'
  <1> SUFFICES ASSUME TypeOK, Executions, [Next]_vars PROVE Executions'
    OBVIOUS
  <1>0. /\ StagedOncePerLife /\ ExecutionFitsRow /\ StagedEarlier
        /\ \A q \in RunIds : stagings[q] \in Nat
        /\ crashes \in Nat
    BY DEF Executions, TypeOK
  <1>1. CASE Push \/ Close \/ UNCHANGED vars
    <2>1. UNCHANGED <<exec, row, up, stagings, crashes>>
      BY <1>1 DEF Push, Close, vars, table, history
    <2> QED
      BY <2>1, QuietExecutions
  <1>2. ASSUME NEW a \in Approvals, Approve(a) \/ Releasing(a) PROVE Executions'
    <2>1. UNCHANGED <<exec, row, up, stagings, crashes>>
      BY <1>2 DEF Approve, ApproveByApi, ApproveByButton, ApproveByMention, Releasing, ReleaseStarts, Posted,
                  PostLost, PostRefused, Promote, Merged, MergeLost, MergeRefused, Tell, table, history
    <2> QED
      BY <2>1, QuietExecutions
  <1>3. ASSUME NEW r \in RunIds, Request(r) PROVE Executions'
    <2>1. row[r] = "none" /\ UNCHANGED <<exec, up, stagings, crashes>>
      BY <1>3 DEF Request, history
    <2>2. row'[r] = "open" /\ \A q \in RunIds : q # r => row'[q] = row[q]
      BY <1>3 DEF Request, TypeOK
    <2> QED
      BY <1>0, <2>1, <2>2 DEF Executions, StagedOncePerLife, ExecutionFitsRow, StagedEarlier
  <1>4. ASSUME NEW r \in RunIds, Comment(r) PROVE Executions'
    <2>1. row[r] = "none" /\ UNCHANGED <<exec, up, stagings, crashes>>
      BY <1>4 DEF Comment, history
    <2>2. \A q \in RunIds : row'[q] = IF q = r THEN "open" ELSE IF row[q] = "none" THEN "none" ELSE "gone"
      BY <1>4 DEF Comment
    <2> QED
      BY <1>0, <2>1, <2>2 DEF Executions, StagedOncePerLife, ExecutionFitsRow, StagedEarlier
  <1>5. ASSUME NEW r \in RunIds, Executing(r) PROVE Executions'
    BY <1>5, ExecutingExecutions
  <1>6. CASE Crash
    <2>1. /\ ~up' /\ UNCHANGED <<row, stagings>> /\ crashes' = crashes + 1
          /\ \A q \in RunIds : exec'[q] = "off"
      BY <1>6 DEF Crash, table
    <2> QED
      BY <1>0, <2>1 DEF Executions, StagedOncePerLife, ExecutionFitsRow, StagedEarlier
  <1>7. CASE Boot
    <2>1. /\ ~up /\ up' /\ UNCHANGED <<exec, stagings, crashes>>
          /\ \A q \in RunIds : row'[q] = IF row[q] = "running" THEN "open" ELSE row[q]
      BY <1>7 DEF Boot, history
    <2> QED
      BY <1>0, <2>1 DEF Executions, StagedOncePerLife, ExecutionFitsRow, StagedEarlier
  <1> QED
    BY <1>1, <1>2, <1>3, <1>4, <1>5, <1>6, <1>7 DEF Next

-----------------------------------------------------------------------------
(* Reviews are kept until a release takes them *)

\* Only a stop of the process loses a review that was staged.
LEMMA HeldStays ==
    ASSUME TypeOK, PhaseFitsPosts, NEW r \in RunIds, Held(r), [Next]_vars, ~Crash
    PROVE  Held(r)'
  <1>0. release \in [Approvals -> ReleaseRecords]
    BY DEF TypeOK, ReleaseRecords
  <1>1. CASE UNCHANGED <<staged, took, release>>
    BY <1>1 DEF Held
  <1>2. ASSUME NEW q \in RunIds, Stage(q) PROVE Held(r)'
    <2>1. stagings[q] \in Nat /\ staged' = [staged EXCEPT ![q] = stagings[q] + 1] /\ UNCHANGED <<took, release>>
      BY <1>2 DEF Stage, TypeOK
    <2>2. staged[r] # 0 => staged'[r] # 0
      BY <2>1 DEF TypeOK
    <2> QED
      BY <2>1, <2>2 DEF Held
  <1>3. ASSUME NEW a \in Approvals, Approve(a) PROVE Held(r)'
    <2>1. /\ UNCHANGED <<took, staged>>
          /\ \A b \in Approvals : b # a => release'[b] = release[b]
          /\ release[a].pc = "unused"
      BY <1>3, ApproveMoves
    <2>2. took[a] = 0
      BY <2>1 DEF PhaseFitsPosts
    <2> QED
      BY <2>1, <2>2 DEF Held
  <1>4. ASSUME NEW a \in Approvals, ReleaseStarts(a) PROVE Held(r)'
    <2>1. /\ \A b \in Approvals : release'[b].run = release[b].run
          /\ took[a] = 0
      BY <1>0, <1>4, PhaseMoves DEF ReleaseStarts, PhaseFitsPosts, ReleasePcs, Posting
    <2>2. CASE release[a].run = NoRun
      <3>1. UNCHANGED <<took, staged>>
        BY <1>4, <2>2 DEF ReleaseStarts, Pop
      <3> QED
        BY <2>1, <3>1 DEF Held
    <2>3. CASE release[a].run \in RunIds
      <3> DEFINE q == release[a].run
      <3>1. /\ took' = [took EXCEPT ![a] = staged[q]]
            /\ staged' = [staged EXCEPT ![q] = 0]
        BY <1>4, <2>3 DEF ReleaseStarts, Pop
      <3>2. /\ took'[a] = staged[q]
            /\ \A b \in Approvals : b # a => took'[b] = took[b]
            /\ r # q => staged'[r] = staged[r]
        BY <2>3, <3>1 DEF TypeOK
      <3>3. CASE staged[r] # 0
        BY <2>1, <3>2, <3>3 DEF Held
      <3>4. CASE \E b \in Approvals : release[b].run = r /\ took[b] # 0
        BY <2>1, <3>2, <3>4 DEF Held
      <3> QED
        BY <3>3, <3>4 DEF Held
    <2> QED
      BY <1>0, <2>2, <2>3 DEF ReleaseRecords
  <1>5. ASSUME NEW a \in Approvals, Releasing(a), ~ReleaseStarts(a) PROVE Held(r)'
    <2>1. UNCHANGED <<took, staged>> /\ \A b \in Approvals : release'[b].run = release[b].run
      BY <1>5, ReleasingKeepsCopies
    <2> QED
      BY <2>1 DEF Held
  <1>6. CASE \/ Push \/ Close \/ Boot \/ UNCHANGED vars
             \/ \E q \in RunIds : \/ Request(q) \/ Comment(q) \/ Begin(q) \/ Fetched(q)
                                  \/ Fail(q) \/ Preview(q) \/ Finish(q)
    BY <1>1, <1>6 DEF Push, Close, Boot, vars, Request, Comment, Begin, Fetched, Fail, Preview, Finish
  <1> QED
    BY <1>2, <1>3, <1>4, <1>5, <1>6 DEF Next, Executing

\* Every step but a stop keeps the reviews of the runs that wait for an approval.
LEMMA KeepingStep == TypeOK /\ PhaseFitsPosts /\ Keeping /\ [Next]_vars => Keeping'
  <1> SUFFICES ASSUME TypeOK, PhaseFitsPosts, Keeping, [Next]_vars PROVE Keeping'
    OBVIOUS
  <1>1. CASE Crash
    <2>1. crashes' # 0
      BY <1>1 DEF Crash, TypeOK
    <2> QED
      BY <2>1 DEF Keeping, ReviewIsKept, NotifiedIsKept
  <1>2. CASE ~Crash
    <2>1. UNCHANGED crashes
      BY <1>2 DEF Next, vars, Push, Close, Request, Comment, Executing, Begin, Fetched, Fail, Stage, Preview, Finish,
                  Approve, ApproveByApi, ApproveByButton, ApproveByMention, Releasing, ReleaseStarts, Posted,
                  PostLost, PostRefused, Promote, Merged, MergeLost, MergeRefused, Tell, Boot, history
    <2>2. ASSUME NEW r \in RunIds, crashes = 0, row'[r] = "pending_approval" \/ exec'[r] = "notifying",
                 ~(row[r] = "pending_approval" \/ exec[r] = "notifying")
          PROVE  Stage(r)
      <3>1. CASE UNCHANGED <<row, exec>>
        BY <2>2, <3>1
      <3>2. ASSUME NEW q \in RunIds, Executing(q), ~Stage(q)
            PROVE  FALSE
        <4>1. q # r => row'[r] = row[r] /\ exec'[r] = exec[r]
          BY <3>2 DEF Executing, Begin, Fetched, Fail, Preview, Finish, SetStatus, TypeOK, table
        <4>2. q = r => row'[r] # "pending_approval" /\ exec'[r] # "notifying"
          BY <2>2, <3>2 DEF Executing, Begin, Fetched, Fail, Preview, Finish, SetStatus, TypeOK, table
        <4> QED
          BY <2>2, <4>1, <4>2
      <3>3. ASSUME NEW q \in RunIds, Stage(q), q # r PROVE FALSE
        BY <2>2, <3>3 DEF Stage, TypeOK, table
      <3>4. ASSUME NEW q \in RunIds, Request(q) \/ Comment(q) PROVE FALSE
        BY <2>2, <3>4 DEF Request, Comment, TypeOK
      <3>5. CASE Boot
        BY <2>2, <3>5 DEF Boot, TypeOK
      <3>6. CASE Push \/ Close \/ UNCHANGED vars
        BY <3>1, <3>6 DEF Push, Close, vars, table
      <3>7. ASSUME NEW a \in Approvals, Approve(a) \/ Releasing(a) PROVE UNCHANGED <<row, exec>>
        BY <3>7 DEF Approve, ApproveByApi, ApproveByButton, ApproveByMention, Releasing, ReleaseStarts, Posted,
                    PostLost, PostRefused, Promote, Merged, MergeLost, MergeRefused, Tell, table
      <3> QED
        BY <1>2, <3>1, <3>2, <3>3, <3>4, <3>5, <3>6, <3>7 DEF Next
    <2>3. ASSUME NEW r \in RunIds, crashes = 0, row'[r] = "pending_approval" \/ exec'[r] = "notifying"
          PROVE  Held(r)'
      <3>1. CASE row[r] = "pending_approval" \/ exec[r] = "notifying"
        <4>1. Held(r)
          BY <2>3, <3>1 DEF Keeping, ReviewIsKept, NotifiedIsKept, Held
        <4> QED
          BY <1>2, <4>1, HeldStays
      <3>2. CASE Stage(r)
        <4>1. staged'[r] = stagings[r] + 1 /\ stagings[r] \in Nat
          BY <3>2 DEF Stage, TypeOK
        <4> QED
          BY <4>1 DEF Held
      <3> QED
        BY <2>2, <2>3, <3>1, <3>2
    <2> QED
      BY <2>1, <2>3 DEF Keeping, ReviewIsKept, NotifiedIsKept, Held
  <1> QED
    BY <1>1, <1>2

-----------------------------------------------------------------------------
(* What is not there yet, and what comes last *)

\* Nothing is staged, and no execution comes nearer to staging.
LEMMA QuietSlots ==
    ASSUME UnstagedUntilReviewed, UNCHANGED <<row, exec, up>>,
           \A r \in RunIds : staged'[r] \in {staged[r], 0}
    PROVE  UnstagedUntilReviewed'
  BY DEF UnstagedUntilReviewed

\* The execution of a run stages it after it was reviewed, and then is past that.
LEMMA ExecutingSlots ==
    ASSUME TypeOK, Executions, UnstagedUntilReviewed, NEW r \in RunIds, Executing(r)
    PROVE  UnstagedUntilReviewed'
  <1>1. ExecutionFitsRow
    BY DEF Executions
  <1>2. CASE Begin(r)
    <2>1. row[r] = "open" /\ UNCHANGED <<up, staged>>
      BY <1>2 DEF Begin, Claimable
    <2>2. \A q \in RunIds : q # r => row'[q] = row[q] /\ exec'[q] = exec[q]
      BY <1>2 DEF Begin, SetStatus, TypeOK
    <2> QED
      BY <2>1, <2>2 DEF UnstagedUntilReviewed
  <1>3. CASE Fetched(r) \/ Fail(r)
    <2>1. exec[r] \in {"fetching", "reviewing"} /\ UNCHANGED <<up, staged>>
      BY <1>3 DEF Fetched, Fail
    <2>2. \A q \in RunIds : q # r => row'[q] = row[q] /\ exec'[q] = exec[q]
      BY <1>3 DEF Fetched, Fail, SetStatus, TypeOK
    <2> QED
      BY <2>1, <2>2 DEF UnstagedUntilReviewed
  <1>4. CASE Stage(r)
    <2>1. exec[r] = "reviewing" /\ exec'[r] = "notifying" /\ UNCHANGED <<up, row>>
      BY <1>4 DEF Stage, TypeOK, table
    <2>2. \A q \in RunIds : q # r => exec'[q] = exec[q] /\ staged'[q] = staged[q]
      BY <1>4 DEF Stage, TypeOK
    <2>3. up /\ row[r] \in {"running", "gone"}
      BY <1>1, <2>1 DEF ExecutionFitsRow
    <2> QED
      BY <2>1, <2>2, <2>3 DEF UnstagedUntilReviewed
  <1>5. CASE Preview(r)
    BY <1>5, QuietSlots DEF Preview, table
  <1>6. CASE Finish(r)
    <2>1. exec[r] = "notifying" /\ exec'[r] = "off" /\ UNCHANGED <<up, staged>>
      BY <1>6 DEF Finish, TypeOK
    <2>2. \A q \in RunIds : q # r => row'[q] = row[q] /\ exec'[q] = exec[q]
      BY <1>6 DEF Finish, SetStatus, TypeOK
    <2>3. up /\ row'[r] \in {"gone", "pending_approval"}
      BY <1>1, <1>6, <2>1 DEF ExecutionFitsRow, Finish, SetStatus, TypeOK
    <2> QED
      BY <2>1, <2>2, <2>3 DEF UnstagedUntilReviewed
  <1> QED
    BY <1>2, <1>3, <1>4, <1>5, <1>6 DEF Executing

\* Every step leaves a run that is still to be staged without a staged review.
LEMMA SlotsStep == TypeOK /\ Executions /\ UnstagedUntilReviewed /\ [Next]_vars => UnstagedUntilReviewed'
  <1> SUFFICES ASSUME TypeOK, Executions, UnstagedUntilReviewed, [Next]_vars
               PROVE  UnstagedUntilReviewed'
    OBVIOUS
  <1>1. CASE Push \/ Close \/ UNCHANGED vars
    <2>1. UNCHANGED <<row, exec, up, staged>>
      BY <1>1 DEF Push, Close, vars, table
    <2> QED
      BY <2>1, QuietSlots
  <1>2. ASSUME NEW a \in Approvals, Approve(a) \/ Releasing(a) PROVE UnstagedUntilReviewed'
    <2>1. UNCHANGED <<row, exec, up>>
      BY <1>2 DEF Approve, ApproveByApi, ApproveByButton, ApproveByMention, Releasing, ReleaseStarts, Posted,
                  PostLost, PostRefused, Promote, Merged, MergeLost, MergeRefused, Tell, table
    <2>2. UNCHANGED staged \/ ReleaseStarts(a)
      BY <1>2 DEF Approve, ApproveByApi, ApproveByButton, ApproveByMention, Releasing, Posted,
                  PostLost, PostRefused, Promote, Merged, MergeLost, MergeRefused, Tell
    <2>3. \A r \in RunIds : staged'[r] \in {staged[r], 0}
      BY <2>2 DEF ReleaseStarts, Pop, TypeOK
    <2> QED
      BY <2>1, <2>3, QuietSlots
  <1>3. ASSUME NEW r \in RunIds, Request(r) \/ Comment(r) PROVE UnstagedUntilReviewed'
    <2>1. row[r] = "none" /\ UNCHANGED <<exec, up, staged>>
      BY <1>3 DEF Request, Comment
    <2>2. \A q \in RunIds : q # r => row'[q] \in {row[q], "gone"}
      BY <1>3 DEF Request, Comment, TypeOK
    <2> QED
      BY <2>1, <2>2 DEF UnstagedUntilReviewed
  <1>4. ASSUME NEW r \in RunIds, Executing(r) PROVE UnstagedUntilReviewed'
    BY <1>4, ExecutingSlots
  <1>5. CASE Crash
    BY <1>5 DEF Crash, UnstagedUntilReviewed
  <1>6. CASE Boot
    BY <1>6 DEF Boot, UnstagedUntilReviewed
  <1> QED
    BY <1>1, <1>2, <1>3, <1>4, <1>5, <1>6 DEF Next

\* A step of a release leaves the others alone, and comes before its confirmation.
LEMMA ReleasingMoves ==
    ASSUME TypeOK, NEW a \in Approvals, Releasing(a)
    PROVE  /\ release[a].pc \notin {"unused", "off"}
           /\ \A b \in Approvals \ {a} : release'[b] = release[b] /\ told'[b] = told[b]
           /\ UNCHANGED told \/ release'[a].pc = "off"
  <1>1. release \in [Approvals -> ReleaseRecords] /\ told \in [Approvals -> {"nothing", "approved", "merged"}]
    BY DEF TypeOK, ReleaseRecords
  <1>2. release[a].pc \notin {"unused", "off"}
    BY DEF Releasing, ReleaseStarts, Posted, PostLost, PostRefused, Accepts, Promote, Merged, MergeLost,
           MergeRefused, Merges, Tell, Posting
  <1>3. \/ \E p : release' = [release EXCEPT ![a].pc = p]
        \/ release' = [release EXCEPT ![a].pc = "telling", ![a].merged = TRUE]
    BY DEF Releasing, ReleaseStarts, Posted, PostLost, PostRefused, Promote, Merged, MergeLost, MergeRefused,
           Tell, AfterMergeRaised
  <1>4. \A b \in Approvals \ {a} : release'[b] = release[b]
    BY <1>1, <1>3
  <1>5. CASE Tell(a)
    <2>1. release' = [release EXCEPT ![a].pc = "off"]
      BY <1>5 DEF Tell
    <2>2. release'[a].pc = "off"
      BY <1>1, <2>1 DEF ReleaseRecords
    <2>3. \A b \in Approvals \ {a} : told'[b] = told[b]
      BY <1>1, <1>5 DEF Tell
    <2> QED
      BY <1>2, <1>4, <2>2, <2>3
  <1>6. CASE ~Tell(a)
    <2>1. UNCHANGED told
      BY <1>6 DEF Releasing, ReleaseStarts, Posted, PostLost, PostRefused, Promote, Merged, MergeLost,
                  MergeRefused, slack
    <2> QED
      BY <1>2, <1>4, <2>1
  <1> QED
    BY <1>5, <1>6

\* No step follows the confirmation of a release.
LEMMA ConfirmationStep == TypeOK /\ ConfirmationIsLast /\ [Next]_vars => ConfirmationIsLast'
  <1> SUFFICES ASSUME TypeOK, ConfirmationIsLast, [Next]_vars PROVE ConfirmationIsLast'
    OBVIOUS
  <1>1. CASE UNCHANGED <<release, told>>
    BY <1>1 DEF ConfirmationIsLast
  <1>2. ASSUME NEW a \in Approvals, Approve(a) PROVE ConfirmationIsLast'
    <2>1. /\ release[a].pc = "unused" /\ UNCHANGED told
          /\ \A b \in Approvals : b # a => release'[b] = release[b]
      BY <1>2, ApproveMoves DEF slack
    <2> QED
      BY <2>1 DEF ConfirmationIsLast
  <1>3. ASSUME NEW a \in Approvals, Releasing(a) PROVE ConfirmationIsLast'
    BY <1>3, ReleasingMoves DEF ConfirmationIsLast
  <1>4. CASE Crash
    <2>1. \A a \in Approvals : release'[a].pc = IF release[a].pc = "unused" THEN "unused" ELSE "off"
      BY <1>4, CrashMoves DEF TypeOK, ReleaseRecords
    <2>2. UNCHANGED told
      BY <1>4 DEF Crash, slack
    <2> QED
      BY <2>1, <2>2 DEF ConfirmationIsLast
  <1>5. ASSUME NEW r \in RunIds, Request(r) \/ Comment(r) \/ Executing(r) PROVE ConfirmationIsLast'
    <2>1. UNCHANGED <<release, told>>
      BY <1>5 DEF Request, Comment, Executing, Begin, Fetched, Fail, Stage, Preview, Finish, slack
    <2> QED
      BY <1>1, <2>1
  <1> QED
    BY <1>1, <1>2, <1>3, <1>4, <1>5 DEF Next, Push, Close, Boot, vars, slack

-----------------------------------------------------------------------------
(* The theorems *)

\* Before anything is reviewed or approved, all of it holds.
LEMMA InitInv == Init => IInv
  <1> SUFFICES ASSUME Init PROVE IInv
    OBVIOUS
  <1>1. TypeOK
    <2>1. /\ head \in 0 .. MaxPushes /\ crashes \in 0 .. MaxCrashes
          /\ lost \in [Approvals -> 0 .. MaxLost]
      BY DEF Init
    <2>2. release \in [Approvals -> ReleaseRecords]
      BY DEF Init, ReleaseRecords, ReleasePcs
    <2>3. /\ posts \in [Approvals -> Nat] /\ took \in [Approvals -> Nat]
          /\ staged \in [RunIds -> Nat] /\ stagings \in [RunIds -> Nat]
          /\ told \in [Approvals -> {"nothing", "approved", "merged"}]
          /\ exec \in [RunIds -> {"off", "fetching", "reviewing", "notifying"}]
      BY DEF Init
    <2>4. /\ row \in [RunIds -> Statuses]
          /\ rowHead \in [RunIds -> {NoHead} \cup 0 .. MaxPushes]
      BY DEF Init, Statuses
    <2> QED
      BY <2>1, <2>2, <2>3, <2>4 DEF Init, TypeOK, ReleaseRecords
  <1>2. OnePostPerApproval /\ MergeFollowsPost /\ ConfirmationIsTrue
    BY DEF Init, OnePostPerApproval, MergeFollowsPost, ConfirmationIsTrue
  <1>3. PhaseFitsPosts
    BY DEF Init, PhaseFitsPosts, Posting, Concluding
  <1>4. MergerIsUnique
    BY DEF Init, MergerIsUnique
  <1>5. ReviewIsReleasedOnce /\ CopiesAreDistinct
    BY DEF Init, ReviewIsReleasedOnce, CopiesAreDistinct
  <1>6. StagedOncePerLife /\ ExecutionFitsRow /\ StagedEarlier
    BY DEF Init, StagedOncePerLife, ExecutionFitsRow, StagedEarlier
  <1>7. ReviewIsKept /\ NotifiedIsKept
    BY DEF Init, ReviewIsKept, NotifiedIsKept
  <1>8. UnstagedUntilReviewed /\ ConfirmationIsLast
    BY DEF Init, UnstagedUntilReviewed, ConfirmationIsLast
  <1> QED
    BY <1>1, <1>2, <1>3, <1>4, <1>5, <1>6, <1>7, <1>8 DEF IInv

\* The invariant that the others follow from: copies, executions, releases and what
\* GitHub and Slack were told fit together after every step.
THEOREM InductiveInvariant == Spec => []IInv
  <1>1. ASSUME IInv, [Next]_vars PROVE IInv'
    <2>1. /\ TypeOK /\ PhaseFitsPosts /\ Deliveries /\ Copies /\ Executions /\ Keeping
          /\ UnstagedUntilReviewed /\ ConfirmationIsLast
      BY <1>1 DEF IInv, Deliveries, Copies, Executions, Keeping
    <2>2. TypeOK'
      BY <1>1, <2>1, TypeStep
    <2>3. Deliveries'
      BY <1>1, <2>1, DeliveriesStep
    <2>4. Copies'
      BY <1>1, <2>1, CopiesStep
    <2>5. Executions'
      BY <1>1, <2>1, ExecutionsStep
    <2>6. Keeping'
      BY <1>1, <2>1, KeepingStep
    <2>7. UnstagedUntilReviewed' /\ ConfirmationIsLast'
      BY <1>1, <2>1, SlotsStep, ConfirmationStep
    <2> QED
      BY <2>2, <2>3, <2>4, <2>5, <2>6, <2>7 DEF IInv, Deliveries, Copies, Executions, Keeping
  <1> QED
    BY <1>1, InitInv, PTL DEF Spec

\* Every variable keeps its type; no more responses are lost than the bound allows.
THEOREM TypeCorrect == Spec => []TypeOK
  <1>1. IInv => TypeOK
    BY DEF IInv
  <1> QED
    BY <1>1, InductiveInvariant, PTL

\* However many approvals of one run come in, by Slack and by the API, and however
\* they interleave with executions, restarts and comments, one of them pops its review.
THEOREM ReleasedOnce == Spec => []ReviewIsReleasedOnce
  <1>1. IInv => ReviewIsReleasedOnce
    BY DEF IInv
  <1> QED
    BY <1>1, InductiveInvariant, PTL

\* The three ways submit_review has to post do not repeat one another: each post
\* beyond the first is the price of a response that was lost.
THEOREM OnePost == Spec => []OnePostPerApproval
  <1>1. IInv => OnePostPerApproval
    BY DEF IInv
  <1> QED
    BY <1>1, InductiveInvariant, PTL

\* A run that waits for its approval is not executed again, and one that is cut off
\* is executed once more per restart at most.
THEOREM StagedOnce == Spec => []StagedOncePerLife
  <1>1. IInv => StagedOncePerLife
    BY DEF IInv
  <1> QED
    BY <1>1, InductiveInvariant, PTL

\* While the process runs, the review of a waiting run is staged or was taken, also
\* where the approval overtakes the worker's write of the status.
THEOREM ReviewsAreKept == Spec => []ReviewIsKept
  <1>1. IInv => ReviewIsKept
    BY DEF IInv
  <1> QED
    BY <1>1, InductiveInvariant, PTL

\* merge_pr comes after a post of the same release, whatever was refused or lost.
THEOREM MergesFollowPosts == Spec => []MergeFollowsPost
  <1>1. IInv => MergeFollowsPost
    BY DEF IInv
  <1> QED
    BY <1>1, InductiveInvariant, PTL

\* The confirmation in Slack says "merged" for the release that merged, and nothing
\* is confirmed that was not posted.
THEOREM ConfirmationsAreTrue == Spec => []ConfirmationIsTrue
  <1>1. IInv => ConfirmationIsTrue
    BY DEF IInv
  <1> QED
    BY <1>1, InductiveInvariant, PTL

-----------------------------------------------------------------------------
(* Executions and releases implement the life cycle *)

\* The life-cycle status of a run, case by case.
StatusOf(s) ==
    IF s = "none" THEN "unsubmitted"
    ELSE IF s = "open" THEN "queued"
    ELSE IF s = "gone" THEN "withdrawn"
    ELSE s

LEMMA StatusMap == /\ LifecycleStatus = [r \in RunIds |-> StatusOf(row[r])]
                   /\ LifecycleStatus' = [r \in RunIds |-> StatusOf(row'[r])]
  <1>1. \A r \in RunIds : LifecycleStatus[r] = StatusOf(row[r])
    BY DEF LifecycleStatus, StatusOf
  <1>2. \A r \in RunIds : LifecycleStatus'[r] = StatusOf(row'[r])
    BY DEF LifecycleStatus, StatusOf
  <1> QED
    BY <1>1, <1>2 DEF LifecycleStatus

\* A status write is one change of the run's life, none if the run is withdrawn.
LEMMA SetStatusMap ==
    ASSUME TypeOK, NEW r \in RunIds, row[r] # "none", NEW s \in Statuses, SetStatus(r, s)
    PROVE  /\ LifecycleStatus' = Lifecycle!Change(LifecycleStatus, r, StatusOf(s))
           /\ LifecycleStatus[r] = StatusOf(row[r])
  <1>1. CASE row[r] = "gone"
    <2>1. LifecycleStatus' = LifecycleStatus /\ LifecycleStatus[r] = "withdrawn"
      BY <1>1, StatusMap DEF SetStatus, StatusOf
    <2> QED
      BY <1>1, <2>1, StatusMap DEF Lifecycle!Change, Lifecycle!WITHDRAWN
  <1>2. CASE row[r] # "gone"
    <2>1. \A q \in RunIds : row'[q] = IF q = r THEN s ELSE row[q]
      BY <1>2, StatusMoves DEF SetStatus
    <2>2. LifecycleStatus' = [LifecycleStatus EXCEPT ![r] = StatusOf(s)]
      BY <2>1, StatusMap
    <2>3. LifecycleStatus[r] = StatusOf(row[r]) /\ LifecycleStatus[r] # "withdrawn"
      BY <1>2, StatusMap DEF StatusOf, TypeOK, Statuses
    <2> QED
      BY <2>2, <2>3 DEF Lifecycle!Change, Lifecycle!WITHDRAWN
  <1> QED
    BY <1>1, <1>2

\* Begin starts the execution of a run.
LEMMA BeginMaps ==
    ASSUME TypeOK, Executions, NEW r \in RunIds, Begin(r)
    PROVE  Lifecycle!Start(r, r)
  <1>1. row[r] = "open" /\ SetStatus(r, "running") /\ exec' = [exec EXCEPT ![r] = "fetching"]
    BY DEF Begin, Claimable
  <1>2. exec[r] = "off"
    BY <1>1 DEF Executions, ExecutionFitsRow
  <1>3. LifecycleStatus[r] = "queued" /\ LifecycleStatus' = [LifecycleStatus EXCEPT ![r] = "running"]
    <2>1. /\ LifecycleStatus' = Lifecycle!Change(LifecycleStatus, r, StatusOf("running"))
          /\ LifecycleStatus[r] = StatusOf(row[r])
      BY <1>1, SetStatusMap DEF Statuses
    <2> QED
      BY <1>1, <2>1 DEF StatusOf, Lifecycle!Change, Lifecycle!WITHDRAWN
  <1>4. Executed[r] = NoRun /\ \A q \in RunIds : Executed[q] # r
    BY <1>2 DEF Executed
  <1>5. Executed' = [Executed EXCEPT ![r] = r]
    <2>1. \A q \in RunIds : exec'[q] = IF q = r THEN "fetching" ELSE exec[q]
      BY <1>1 DEF TypeOK
    <2> QED
      BY <2>1 DEF Executed
  <1> QED
    BY <1>3, <1>4, <1>5 DEF Lifecycle!Start

\* The end of an execution.
LEMMA ExecutionEnds ==
    ASSUME TypeOK, Executions, NEW r \in RunIds, exec[r] # "off",
           NEW s \in {"open", "failed", "skipped", "pending_approval"}, SetStatus(r, s),
           exec' = [exec EXCEPT ![r] = "off"]
    PROVE  Lifecycle!End(r)
  <1>1. row[r] # "none" /\ s \in Statuses
    BY DEF Executions, ExecutionFitsRow, Statuses
  <1>2. LifecycleStatus' = Lifecycle!Change(LifecycleStatus, r, StatusOf(s))
    BY <1>1, SetStatusMap
  <1>3. StatusOf(s) \in {"queued", "failed", "skipped", "pending_approval"}
    BY DEF StatusOf
  <1>4. Executed[r] = r /\ Executed[r] # NoRun
    BY DEF Executed
  <1>5. Executed' = [Executed EXCEPT ![r] = NoRun]
    <2>1. \A q \in RunIds : exec'[q] = IF q = r THEN "off" ELSE exec[q]
      BY DEF TypeOK
    <2> QED
      BY <2>1 DEF Executed
  <1> QED
    BY <1>2, <1>3, <1>4, <1>5 DEF Lifecycle!End

\* Every step of an execution starts it, ends it, or is not seen.
LEMMA ExecutingMaps ==
    ASSUME TypeOK, Executions, NEW r \in RunIds, Executing(r)
    PROVE  Lifecycle!ANext \/ UNCHANGED Lifecycle!avars
  <1>1. CASE Begin(r)
    BY <1>1, BeginMaps DEF Lifecycle!ANext
  <1>2. ASSUME UNCHANGED row, NEW p, p # "off", exec[r] # "off", exec' = [exec EXCEPT ![r] = p]
        PROVE  UNCHANGED Lifecycle!avars
    <2>1. \A q \in RunIds : exec'[q] = "off" <=> exec[q] = "off"
      BY <1>2 DEF TypeOK
    <2>2. Executed' = Executed
      BY <2>1 DEF Executed
    <2> QED
      BY <1>2, <2>2 DEF Lifecycle!avars, LifecycleStatus
  <1>3. CASE Fetched(r)
    <2>1. \/ SetStatus(r, "skipped") /\ exec' = [exec EXCEPT ![r] = "off"]
          \/ exec' = [exec EXCEPT ![r] = "reviewing"] /\ UNCHANGED row
      BY <1>3 DEF Fetched
    <2>2. exec[r] # "off"
      BY <1>3 DEF Fetched
    <2> QED
      BY <1>2, <2>1, <2>2, ExecutionEnds DEF Lifecycle!ANext
  <1>4. CASE Fail(r)
    <2>1. Lifecycle!End(r)
      BY <1>4, ExecutionEnds DEF Fail
    <2> QED
      BY <2>1 DEF Lifecycle!ANext
  <1>5. CASE Stage(r)
    BY <1>2, <1>5 DEF Stage, table
  <1>6. CASE Preview(r)
    BY <1>6 DEF Preview, table, Lifecycle!avars, LifecycleStatus, Executed
  <1>7. CASE Finish(r)
    <2>1. Lifecycle!End(r)
      BY <1>7, ExecutionEnds DEF Finish
    <2> QED
      BY <2>1 DEF Lifecycle!ANext
  <1> QED
    BY <1>1, <1>3, <1>4, <1>5, <1>6, <1>7 DEF Executing

\* A request submits its run; a comment withdraws the others that were submitted.
LEMMA RequestMaps ==
    ASSUME TypeOK, NEW r \in RunIds, Request(r) \/ Comment(r)
    PROVE  Lifecycle!Submit(r)
  <1> DEFINE W == {q \in RunIds \ {r} : row[q] # "none" /\ row'[q] = "gone" /\ row[q] # "gone"}
  <1>1. /\ row[r] = "none" /\ row'[r] = "open" /\ UNCHANGED exec
        /\ \A q \in RunIds \ {r} : row'[q] = row[q] \/ (row[q] # "none" /\ row'[q] = "gone")
    BY DEF Request, Comment, TypeOK
  <1>2. \A q \in RunIds : StatusOf(row'[q]) = IF q = r THEN "queued"
                                              ELSE IF q \in W THEN "withdrawn"
                                              ELSE StatusOf(row[q])
    BY <1>1 DEF StatusOf
  <1>3. LifecycleStatus' = [q \in RunIds |-> IF q = r THEN "queued"
                                             ELSE IF q \in W THEN "withdrawn"
                                             ELSE LifecycleStatus[q]]
    BY <1>2, StatusMap
  <1>4. LifecycleStatus[r] = "unsubmitted"
    BY <1>1, StatusMap DEF StatusOf
  <1>5. W \in SUBSET {q \in RunIds : LifecycleStatus[q] # "unsubmitted"}
    <2>1. \A q \in RunIds : row[q] # "none" => LifecycleStatus[q] # "unsubmitted"
      BY StatusMap DEF StatusOf, TypeOK, Statuses
    <2> QED
      BY <2>1
  <1>6. UNCHANGED Executed
    BY <1>1 DEF Executed
  <1> QED
    BY <1>3, <1>4, <1>5, <1>6 DEF Lifecycle!Submit, Lifecycle!UNSUBMITTED, Lifecycle!WITHDRAWN

\* Whatever approvals, releases and merges do, a run is executed by one execution at a
\* time, settles once, and is withdrawn only by a comment.
THEOREM ReleaseImplementsLifecycle == Spec => ImplementsLifecycle
  <1>1. Init => Lifecycle!AInit
    <2> SUFFICES ASSUME Init PROVE Lifecycle!AInit
      OBVIOUS
    <2>1. LifecycleStatus = [r \in RunIds |-> "unsubmitted"]
      BY StatusMap DEF Init, StatusOf
    <2>2. Executed = [r \in RunIds |-> NoRun]
      BY DEF Init, Executed
    <2> QED
      BY <2>1, <2>2 DEF Lifecycle!AInit, Lifecycle!UNSUBMITTED
  <1>2. IInv /\ [Next]_vars => [Lifecycle!ANext]_(Lifecycle!avars)
    <2> SUFFICES ASSUME IInv, [Next]_vars
                 PROVE  Lifecycle!ANext \/ UNCHANGED Lifecycle!avars
      OBVIOUS
    <2>1. TypeOK /\ Executions
      BY DEF IInv, Executions
    <2>2. CASE UNCHANGED <<row, exec>>
      BY <2>2 DEF Lifecycle!avars, LifecycleStatus, Executed
    <2>3. ASSUME NEW r \in RunIds, Request(r) \/ Comment(r) \/ Executing(r)
          PROVE  Lifecycle!ANext \/ UNCHANGED Lifecycle!avars
      BY <2>1, <2>3, RequestMaps, ExecutingMaps DEF Lifecycle!ANext
    <2>4. CASE Crash
      <3>1. Executed' = [r \in RunIds |-> NoRun] /\ UNCHANGED LifecycleStatus
        BY <2>4 DEF Crash, Executed, LifecycleStatus, table
      <3> QED
        BY <3>1 DEF Lifecycle!Stop, Lifecycle!ANext
    <2>5. CASE Boot
      <3>1. \A r \in RunIds : StatusOf(row'[r]) = IF StatusOf(row[r]) = "running" THEN "queued"
                                                  ELSE StatusOf(row[r])
        BY <2>5 DEF Boot, StatusOf
      <3>2. LifecycleStatus' = [r \in RunIds |-> IF LifecycleStatus[r] = "running" THEN "queued"
                                                 ELSE LifecycleStatus[r]]
        BY <3>1, StatusMap
      <3>3. Executed' = [r \in RunIds |-> NoRun]
        BY <2>1, <2>5 DEF Boot, Executed, Executions, ExecutionFitsRow
      <3> QED
        BY <3>2, <3>3 DEF Lifecycle!Recover, Lifecycle!ANext
    <2>6. ASSUME NEW a \in Approvals, Approve(a) \/ Releasing(a) PROVE UNCHANGED <<row, exec>>
      BY <2>6 DEF Approve, ApproveByMention, ApproveByApi, ApproveByButton, Releasing, ReleaseStarts,
                  Posted, PostLost, PostRefused, Promote, Merged, MergeLost, MergeRefused, Tell, table
    <2> QED
      BY <2>2, <2>3, <2>4, <2>5, <2>6 DEF Next, Push, Close, vars, table
  <1> QED
    BY <1>1, <1>2, InductiveInvariant, PTL DEF Spec, ImplementsLifecycle, Lifecycle!ASpec

-----------------------------------------------------------------------------
(* The releases keep what is promised to the users *)

\* A step that stages, takes, says and merges nothing is not seen.
LEMMA Unseen ==
    ASSUME UNCHANGED <<staged, took, told, posts, pr, mergedBy>>
    PROVE  UNCHANGED Publication!pvars
  BY DEF Publication!pvars, Voice

\* What a release that is not over has said.
LEMMA VoiceOf ==
    ASSUME TypeOK, ConfirmationIsLast, NEW a \in Approvals, release[a].pc # "off"
    PROVE  /\ told[a] = "nothing" /\ posts[a] \in Nat
           /\ Voice[a] = IF posts[a] > 0 THEN "posted" ELSE "silent"
  <1>1. told[a] = "nothing" /\ posts[a] \in Nat
    BY DEF ConfirmationIsLast, TypeOK
  <1> QED
    BY <1>1 DEF Voice

\* Staging a review is writing it, for a run that has none in hand.
LEMMA StageWrites ==
    ASSUME IInv, NEW r \in RunIds, Stage(r)
    PROVE  Publication!Write(r)
  <1>1. /\ exec[r] = "reviewing" /\ staged' = [staged EXCEPT ![r] = stagings[r] + 1]
        /\ UNCHANGED <<took, told, posts, pr, mergedBy>>
    BY DEF Stage, github, slack
  <1>2. staged \in [RunIds -> Nat] /\ stagings[r] \in Nat
    BY DEF IInv, TypeOK
  <1>3. staged[r] = 0
    BY <1>1 DEF IInv, UnstagedUntilReviewed
  <1>4. staged'[r] # 0 /\ \A q \in RunIds : q # r => staged'[q] = staged[q]
    BY <1>1, <1>2
  <1>5. {q \in RunIds : staged'[q] # 0} = {q \in RunIds : staged[q] # 0} \cup {r}
    BY <1>4
  <1>6. UNCHANGED Voice
    BY <1>1 DEF Voice
  <1> QED
    BY <1>1, <1>3, <1>5, <1>6 DEF Publication!Write

\* The start of a release takes the review that is staged for its run, if there is one.
LEMMA StartTakes ==
    ASSUME IInv, NEW a \in Approvals, ReleaseStarts(a)
    PROVE  Publication!PNext \/ UNCHANGED Publication!pvars
  <1> DEFINE r == release[a].run
  <1>1. /\ release[a].pc = "created" /\ Pop(a)
        /\ UNCHANGED <<told, posts, pr, mergedBy>>
    BY DEF ReleaseStarts, github, slack
  <1>2. /\ took \in [Approvals -> Nat] /\ staged \in [RunIds -> Nat]
        /\ r \in RunIds \cup {NoRun}
        /\ took[a] = 0 /\ posts[a] = 0
    BY <1>1 DEF IInv, TypeOK, PhaseFitsPosts
  <1>3. Voice[a] = "silent" /\ UNCHANGED Voice
    <2>1. told[a] = "nothing"
      BY <1>1 DEF IInv, ConfirmationIsLast
    <2> QED
      BY <1>1, <1>2, <2>1 DEF Voice
  <1>4. CASE r = NoRun
    BY <1>1, <1>4, Unseen DEF Pop
  <1>5. CASE r \in RunIds /\ staged[r] = 0
    <2>1. UNCHANGED <<staged, took>>
      <3>1. took' = [took EXCEPT ![a] = staged[r]] /\ staged' = [staged EXCEPT ![r] = 0]
        BY <1>1, <1>5 DEF Pop
      <3> QED
        BY <1>2, <1>5, <3>1
    <2> QED
      BY <1>1, <2>1, Unseen
  <1>6. CASE r \in RunIds /\ staged[r] # 0
    <2>1. PICK q \in RunIds : q = r
      BY <1>6
    <2>2. /\ took'[a] # 0 /\ \A b \in Approvals : b # a => took'[b] = took[b]
          /\ staged'[q] = 0 /\ \A x \in RunIds : x # q => staged'[x] = staged[x]
      BY <1>1, <1>2, <1>6, <2>1 DEF Pop
    <2>3. {b \in Approvals : took'[b] # 0} = {b \in Approvals : took[b] # 0} \cup {a}
      BY <2>2
    <2>4. {x \in RunIds : staged'[x] # 0} = {x \in RunIds : staged[x] # 0} \ {q}
      BY <2>2
    <2>5. Publication!Take(a, q)
      BY <1>1, <1>2, <1>3, <1>6, <2>1, <2>3, <2>4 DEF Publication!Take
    <2> QED
      BY <2>5 DEF Publication!PNext
  <1> QED
    BY <1>2, <1>4, <1>5, <1>6

\* A post that GitHub accepts is the comment, the second of two is not heard.
LEMMA PostComments ==
    ASSUME IInv, NEW a \in Approvals, Accepts(a), UNCHANGED <<staged, took, told>>
    PROVE  Publication!PNext \/ UNCHANGED Publication!pvars
  <1>1. /\ release[a].pc # "off" /\ posts' = [posts EXCEPT ![a] = @ + 1]
        /\ UNCHANGED <<pr, mergedBy>>
    BY DEF Accepts, Posting
  <1>2. /\ told[a] = "nothing" /\ posts[a] \in Nat
        /\ Voice[a] = IF posts[a] > 0 THEN "posted" ELSE "silent"
    BY <1>1, VoiceOf DEF IInv
  <1>3. posts'[a] = posts[a] + 1 /\ \A b \in Approvals : b # a => posts'[b] = posts[b]
    BY <1>1 DEF IInv, TypeOK
  <1>4. Voice' = [Voice EXCEPT ![a] = "posted"]
    <2>1. \A b \in Approvals : Voice'[b] = IF b = a THEN "posted" ELSE Voice[b]
      BY <1>2, <1>3 DEF Voice
    <2>2. Voice' = [b \in Approvals |-> Voice'[b]]
      BY DEF Voice
    <2>3. Voice = [b \in Approvals |-> Voice[b]]
      BY DEF Voice
    <2> QED
      BY <2>1, <2>2, <2>3
  <1>5. CASE posts[a] > 0
    <2>1. Voice[a] = "posted"
      BY <1>2, <1>5
    <2>2. Voice = [b \in Approvals |-> Voice[b]]
      BY DEF Voice
    <2>3. UNCHANGED Voice
      BY <1>4, <2>1, <2>2
    <2> QED
      BY <1>1, <2>3 DEF Publication!pvars
  <1>6. CASE ~(posts[a] > 0)
    <2>1. Voice[a] = "silent"
      BY <1>2, <1>6
    <2>2. Publication!Comment(a)
      BY <1>1, <1>4, <2>1 DEF Publication!Comment
    <2> QED
      BY <2>2 DEF Publication!PNext
  <1> QED
    BY <1>5, <1>6

\* GitHub merges for a release that has commented.
LEMMA MergeMerges ==
    ASSUME IInv, NEW a \in Approvals, Merges(a), UNCHANGED <<staged, took, told>>
    PROVE  Publication!Merge(a)
  <1>1. /\ release[a].pc = "merging" /\ pr = "open" /\ pr' = "merged" /\ mergedBy' = a
        /\ UNCHANGED posts
    BY DEF Merges
  <1>2. posts[a] > 0
    BY <1>1 DEF IInv, PhaseFitsPosts, Concluding
  <1>3. Voice[a] = "posted"
    BY <1>1, <1>2, VoiceOf DEF IInv
  <1>4. UNCHANGED Voice
    BY <1>1 DEF Voice
  <1> QED
    BY <1>1, <1>3, <1>4 DEF Publication!Merge

\* The confirmation says what was done.
LEMMA TellConfirms ==
    ASSUME IInv, NEW a \in Approvals, Tell(a)
    PROVE  Publication!PNext \/ UNCHANGED Publication!pvars
  <1> DEFINE v == IF release[a].merged THEN "merged" ELSE "approved"
  <1>1. /\ release[a].pc = "telling" /\ UNCHANGED <<staged, took, posts, pr, mergedBy>>
        /\ told' = [told EXCEPT ![a] = v] \/ UNCHANGED told
    BY DEF Tell, github
  <1>2. Voice[a] = "posted"
    <2>1. posts[a] > 0
      BY <1>1 DEF IInv, PhaseFitsPosts, Concluding
    <2> QED
      BY <1>1, <2>1, VoiceOf DEF IInv
  <1>3. CASE UNCHANGED told
    BY <1>1, <1>3, Unseen
  <1>4. CASE told' = [told EXCEPT ![a] = v]
    <2>1. \A b \in Approvals : told'[b] = IF b = a THEN v ELSE told[b]
      BY <1>4 DEF IInv, TypeOK
    <2>2. \A b \in Approvals : Voice'[b] = IF b = a THEN v ELSE Voice[b]
      BY <1>1, <2>1 DEF Voice
    <2>3. Voice' = [Voice EXCEPT ![a] = v]
      BY <2>2 DEF Voice
    <2>4. v = "merged" => mergedBy = a
      BY DEF IInv, MergerIsUnique
    <2>5. Publication!Confirm(a)
      BY <1>1, <1>2, <2>3, <2>4 DEF Publication!Confirm
    <2> QED
      BY <2>5 DEF Publication!PNext
  <1> QED
    BY <1>1, <1>3, <1>4

\* What a user who approves may rely on, for every number of runs, approvals, lost
\* responses and stops: a review that waits is taken by one approval and never replaced,
\* and an approval comments, merges and confirms in this order, each once.
THEOREM ReleasesKeepTheirPromise == Spec => ImplementsPublication
  <1>1. Init => Publication!PInit
    BY DEF Init, Publication!PInit, Voice
  <1>2. IInv /\ [Next]_vars => [Publication!PNext]_(Publication!pvars)
    <2> SUFFICES ASSUME IInv, [Next]_vars
                 PROVE  Publication!PNext \/ UNCHANGED Publication!pvars
      OBVIOUS
    <2>1. CASE Push \/ Boot \/ UNCHANGED vars
      BY <2>1, Unseen DEF Push, Boot, vars, github, slack
    <2>2. CASE Close
      <3>1. UNCHANGED Voice
        BY <2>2 DEF Close, Voice, slack
      <3> QED
        BY <2>2, <3>1 DEF Close, Publication!Close, Publication!PNext
    <2>3. ASSUME NEW r \in RunIds, Request(r) \/ Comment(r) \/ Executing(r)
          PROVE  Publication!PNext \/ UNCHANGED Publication!pvars
      <3>1. CASE Stage(r)
        BY <3>1, StageWrites DEF Publication!PNext
      <3>2. CASE ~Stage(r)
        BY <2>3, <3>2, Unseen
           DEF Request, Comment, Executing, Begin, Fetched, Fail, Preview, Finish, github, slack
      <3> QED
        BY <3>1, <3>2
    <2>4. ASSUME NEW a \in Approvals, Approve(a) \/ Releasing(a)
          PROVE  Publication!PNext \/ UNCHANGED Publication!pvars
      <3>1. CASE ReleaseStarts(a)
        BY <3>1, StartTakes
      <3>2. CASE Posted(a) \/ PostLost(a)
        BY <3>2, PostComments DEF Posted, PostLost, slack
      <3>3. CASE Merged(a) \/ MergeLost(a)
        BY <3>3, MergeMerges DEF Merged, MergeLost, slack, Publication!PNext
      <3>4. CASE Tell(a)
        BY <3>4, TellConfirms
      <3>5. CASE Approve(a) \/ PostRefused(a) \/ Promote(a) \/ MergeRefused(a)
        BY <3>5, Unseen DEF Approve, ApproveByApi, ApproveByButton, ApproveByMention, PostRefused, Promote,
                            MergeRefused, github, slack
      <3> QED
        BY <2>4, <3>1, <3>2, <3>3, <3>4, <3>5 DEF Releasing
    <2>5. CASE Crash
      <3>1. {r \in RunIds : staged'[r] # 0} = {}
        BY <2>5 DEF Crash
      <3>2. UNCHANGED Voice
        BY <2>5 DEF Crash, Voice, github, slack
      <3> QED
        BY <2>5, <3>1, <3>2 DEF Crash, github, Publication!Stop, Publication!PNext
    <2> QED
      BY <2>1, <2>2, <2>3, <2>4, <2>5 DEF Next
  <1> QED
    BY <1>1, <1>2, InductiveInvariant, PTL DEF Spec, ImplementsPublication, Publication!PSpec
=============================================================================
