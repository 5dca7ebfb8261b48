---------------------------- MODULE CiGateProofs ----------------------------
(***************************************************************************)
(* The comments and the waits of CiGate, proved for every number of check *)
(* runs, every cap and every number of failed polls and restarts.          *)
(***************************************************************************)
EXTENDS CiGate, TLAPS

\* The conjuncts of IInv about what the gate says, without the account of the wait.
Speech ==
    /\ CommentMatchesVerdict
    /\ OneComment
    /\ AnnouncedIsPosted
    /\ TaskMatchesRow
    /\ SilentUntilPosted
    /\ VerdictIsOnItsWay

USE GateAssumption

\* The counters of the comments are natural numbers, so their sum is one.
LEMMA CommentsAreCounted ==
    ASSUME TypeOK
    PROVE  /\ posted["diagnosis"] \in Nat /\ posted["fallback"] \in Nat /\ posted["timeout"] \in Nat
           /\ Comments \in Nat
  BY DEF TypeOK, Kinds, Comments

\* Every step keeps every variable in its type.
LEMMA TypeStep == TypeOK /\ [Next]_vars => TypeOK'
  <1> SUFFICES ASSUME TypeOK, [Next]_vars PROVE TypeOK'
    OBVIOUS
  <1>0. Nothing \in [Checks -> CheckStates]
    BY DEF Nothing, CheckStates
  <1>a. ASSUME NEW n \in Nat, LoopHead(n)
        PROVE  /\ status' \in Verdicts \cup {"pending_ci", "deleted"}
               /\ pc' \in Pcs /\ seen' \in [Checks -> CheckStates] /\ elapsed' \in Nat
    <2>1. elapsed' \in Nat /\ seen' = Nothing /\ pc' \in {"off", "polling"}
      BY <1>a DEF LoopHead, Ends
    <2>2. status' \in {status, "queued"}
      BY <1>a DEF LoopHead, SetStatus
    <2> QED
      BY <1>0, <2>1, <2>2 DEF TypeOK, Pcs, Verdicts
  <1>b. ASSUME GiveUp
        PROVE  /\ status' \in Verdicts \cup {"pending_ci", "deleted"}
               /\ pc' \in Pcs /\ seen' \in [Checks -> CheckStates]
    BY <1>0, <1>b DEF GiveUp, SetStatus, TypeOK, Pcs, Posting, Verdicts
  <1>1. CASE Start
    BY <1>1, <1>a DEF Start, TypeOK, world, history
  <1>2. CASE PollAnswered
    BY <1>2 DEF PollAnswered, TypeOK, Pcs, world, history
  <1>3. CASE PollFails
    <2>1. errors' \in 0 .. MaxErrors
      BY <1>3 DEF PollFails, TypeOK
    <2> QED
      BY <1>3, <2>1 DEF PollFails, TypeOK, Pcs, world
  <1>4. CASE BackoffEnds
    <2>1. waited' \in Nat /\ elapsed + 1 \in Nat
      BY <1>4 DEF BackoffEnds, TypeOK
    <2> QED
      BY <1>4, <1>a, <2>1 DEF BackoffEnds, TypeOK, world
  <1>5. CASE Pass
    BY <1>0, <1>5 DEF Pass, Ends, SetStatus, TypeOK, Pcs, Verdicts, world, history
  <1>6. CASE Reject
    BY <1>0, <1>6 DEF Reject, SetStatus, TypeOK, Pcs, Verdicts, world, history
  <1>7. CASE StillRunning
    <2>1. CASE GiveUp
      BY <1>7, <1>b, <2>1 DEF StillRunning, TypeOK, world, history
    <2>2. CASE pc' = "waiting" /\ UNCHANGED <<status, seen>>
      BY <1>7, <2>2 DEF StillRunning, TypeOK, Pcs, world, history
    <2> QED
      BY <1>7, <2>1, <2>2 DEF StillRunning
  <1>8. CASE Wakes
    <2>1. waited' \in Nat /\ elapsed + 1 \in Nat
      BY <1>8 DEF Wakes, TypeOK
    <2>2. CASE GiveUp /\ elapsed' = elapsed + 1
      BY <1>8, <1>b, <2>1, <2>2 DEF Wakes, TypeOK, world
    <2>3. CASE LoopHead(elapsed + 1)
      BY <1>8, <1>a, <2>1, <2>3 DEF Wakes, TypeOK, world
    <2> QED
      BY <1>8, <2>2, <2>3 DEF Wakes
  <1>9. CASE LogsRead
    BY <1>9 DEF LogsRead, TypeOK, Pcs, Posting, world, history
  <1>c. AfterPost \in Pcs /\ AfterError \in Pcs /\ Kind \in Kinds
    BY DEF AfterPost, AfterError, Kind, Pcs, Posting, Kinds
  <1>d. [posted EXCEPT ![Kind] = @ + 1] \in [Kinds -> Nat]
    BY <1>c DEF TypeOK
  <1>10. CASE CommentDelivered
    BY <1>10, <1>c, <1>d DEF CommentDelivered, TypeOK, world, history
  <1>11. CASE CommentRefused
    <2>1. refused' \in Nat
      BY <1>11 DEF CommentRefused, TypeOK
    <2> QED
      BY <1>11, <1>c, <2>1 DEF CommentRefused, TypeOK, world
  <1>12. CASE CommentLost
    <2>1. lost' \in Nat
      BY <1>12 DEF CommentLost, TypeOK
    <2> QED
      BY <1>12, <1>c, <1>d, <2>1 DEF CommentLost, TypeOK, world
  <1>13. CASE Announce
    BY <1>0, <1>13 DEF Announce, Ends, TypeOK, Pcs, world, history
  <1>14. CASE CheckMoves
    BY <1>14 DEF CheckMoves, TypeOK, history
  <1>15. CASE Withdraw
    BY <1>15 DEF Withdraw, TypeOK, world, history
  <1>16. CASE Crash
    <2>1. crashes' \in 0 .. MaxCrashes
      BY <1>16 DEF Crash, TypeOK
    <2> QED
      BY <1>0, <1>16, <2>1 DEF Crash, Ends, TypeOK, Pcs, world
  <1>17. CASE Boot
    BY <1>17 DEF Boot, TypeOK, Pcs, world, history
  <1>18. CASE UNCHANGED vars
    BY <1>18 DEF vars, TypeOK, history
  <1> QED
    BY <1>1, <1>2, <1>3, <1>4, <1>5, <1>6, <1>7, <1>8, <1>9, <1>10, <1>11, <1>12, <1>13,
       <1>14, <1>15, <1>16, <1>17, <1>18 DEF Next, Polling, Deciding, Telling

-----------------------------------------------------------------------------
(* What the gate says *)

\* A step that posts nothing leaves the number of comments alone.
LEMMA NothingPosted == UNCHANGED posted => Comments' = Comments
  BY DEF Comments

\* A comment is counted once, under its kind.
LEMMA OnePosted ==
    ASSUME TypeOK, pc \in Posting, posted' = [posted EXCEPT ![Kind] = @ + 1]
    PROVE  /\ Comments' = Comments + 1
           /\ pc = "giving up" => /\ posted'["diagnosis"] = posted["diagnosis"]
                                  /\ posted'["fallback"] = posted["fallback"]
           /\ pc # "giving up" => posted'["timeout"] = posted["timeout"]
  <1>0. posted["diagnosis"] \in Nat /\ posted["fallback"] \in Nat /\ posted["timeout"] \in Nat
    BY CommentsAreCounted
  <1>1. posted \in [Kinds -> Nat]
    BY DEF TypeOK
  <1>2. CASE pc = "diagnosing"
    <2>1. Kind = "diagnosis"
      BY <1>2 DEF Kind
    <2>2. posted' = [posted EXCEPT !["diagnosis"] = posted["diagnosis"] + 1]
      BY <2>1
    <2>3. /\ posted'["diagnosis"] = posted["diagnosis"] + 1
          /\ posted'["fallback"] = posted["fallback"]
          /\ posted'["timeout"] = posted["timeout"]
      BY <1>1, <2>2 DEF Kinds
    <2>4. Comments' = Comments + 1
      BY <1>0, <2>3 DEF Comments
    <2> QED
      BY <1>2, <2>3, <2>4
  <1>3. CASE pc = "falling back"
    <2>1. Kind = "fallback"
      BY <1>3 DEF Kind
    <2>2. posted' = [posted EXCEPT !["fallback"] = posted["fallback"] + 1]
      BY <2>1
    <2>3. /\ posted'["fallback"] = posted["fallback"] + 1
          /\ posted'["diagnosis"] = posted["diagnosis"]
          /\ posted'["timeout"] = posted["timeout"]
      BY <1>1, <2>2 DEF Kinds
    <2>4. Comments' = Comments + 1
      BY <1>0, <2>3 DEF Comments
    <2> QED
      BY <1>3, <2>3, <2>4
  <1>4. CASE pc = "giving up"
    <2>1. Kind = "timeout"
      BY <1>4 DEF Kind
    <2>2. posted' = [posted EXCEPT !["timeout"] = posted["timeout"] + 1]
      BY <2>1
    <2>3. /\ posted'["timeout"] = posted["timeout"] + 1
          /\ posted'["diagnosis"] = posted["diagnosis"]
          /\ posted'["fallback"] = posted["fallback"]
      BY <1>1, <2>2 DEF Kinds
    <2>4. Comments' = Comments + 1
      BY <1>0, <2>3 DEF Comments
    <2> QED
      BY <1>4, <2>3, <2>4
  <1> QED
    BY <1>2, <1>3, <1>4 DEF Posting

\* The part of the invariant about comments survives a step that posts nothing,
\* when the new phase of the task fits the old comments and the new row.
LEMMA QuietStep ==
    ASSUME TypeOK, Speech, UNCHANGED posted, lost' = lost, TaskMatchesRow', SilentUntilPosted',
           VerdictIsOnItsWay',
           status' \in {status, "deleted"} \/ status = "pending_ci",
           announced' = announced \/ Comments > 0
    PROVE  Speech'
  <1>1. Comments' = Comments /\ Comments \in Nat
    BY NothingPosted, CommentsAreCounted
  <1>2. CommentMatchesVerdict'
    <2>1. CASE status' \in {status, "deleted"}
      BY <2>1 DEF Speech, CommentMatchesVerdict
    <2>2. CASE status = "pending_ci"
      <3>1. Comments = 0
        BY <2>2 DEF Speech, SilentUntilPosted
      <3> QED
        BY <3>1, CommentsAreCounted DEF CommentMatchesVerdict, Comments
    <2> QED
      BY <2>1, <2>2
  <1>3. OneComment'
    BY <1>1 DEF Speech, OneComment
  <1>4. AnnouncedIsPosted'
    BY <1>1 DEF Speech, AnnouncedIsPosted
  <1> QED
    BY <1>2, <1>3, <1>4 DEF Speech

\* Every step keeps what the gate says in line with the row.
LEMMA SpeechStep == TypeOK /\ Speech /\ [Next]_vars => Speech'
  <1> SUFFICES ASSUME TypeOK, Speech, [Next]_vars PROVE Speech'
    OBVIOUS
  <1>0. TaskMatchesRow /\ SilentUntilPosted /\ VerdictIsOnItsWay
    BY DEF Speech
  <1>p. UNCHANGED posted => Comments' = Comments
    BY NothingPosted
  <1>l. ASSUME NEW n, LoopHead(n)
        PROVE  \/ status # "pending_ci" /\ status' = status /\ pc' = "off"
               \/ status = "pending_ci" /\ status' = "queued" /\ pc' = "off"
               \/ status = "pending_ci" /\ status' = status /\ pc' = "polling"
    BY <1>l DEF LoopHead, Ends, SetStatus
  <1>g. ASSUME GiveUp, pc \in Deliberating
        PROVE  /\ pc' = "giving up"
               /\ status' \in {"skipped", "deleted"}
               /\ status' = "deleted" <=> status = "deleted"
    BY <1>0, <1>g DEF GiveUp, SetStatus, TaskMatchesRow
  <1>1. CASE Start
    <2>1. UNCHANGED <<posted, lost>> /\ announced' = announced
      BY <1>1 DEF Start, history
    <2>2. /\ \/ status # "pending_ci" /\ status' = status /\ pc' = "off"
             \/ status = "pending_ci" /\ status' = "queued" /\ pc' = "off"
             \/ status = "pending_ci" /\ status' = status /\ pc' = "polling"
          /\ pc \in Deliberating
          /\ UNCHANGED <<up, crashes, refused>>
      BY <1>1, <1>l DEF Start, Deliberating, history
    <2>3. TaskMatchesRow' /\ SilentUntilPosted' /\ VerdictIsOnItsWay'
      BY <1>0, <1>p, <2>1, <2>2 DEF TaskMatchesRow, SilentUntilPosted, VerdictIsOnItsWay, Deliberating, Explaining
    <2>4. status' \in {status, "deleted"} \/ status = "pending_ci"
      BY <1>0, <2>2 DEF TaskMatchesRow, SilentUntilPosted, VerdictIsOnItsWay, Deliberating, Explaining
    <2> QED
      BY <2>1, <2>3, <2>4, QuietStep
  <1>2. CASE PollAnswered
    <2>1. UNCHANGED <<posted, lost>> /\ announced' = announced
      BY <1>2 DEF PollAnswered, history
    <2>2. pc' = "answered" /\ pc = "polling" /\ UNCHANGED <<status, up, crashes, refused>>
      BY <1>2 DEF PollAnswered, history
    <2>3. TaskMatchesRow' /\ SilentUntilPosted' /\ VerdictIsOnItsWay'
      BY <1>0, <1>p, <2>1, <2>2 DEF TaskMatchesRow, SilentUntilPosted, VerdictIsOnItsWay, Deliberating, Explaining
    <2>4. status' \in {status, "deleted"} \/ status = "pending_ci"
      BY <1>0, <2>2 DEF TaskMatchesRow, SilentUntilPosted, VerdictIsOnItsWay, Deliberating, Explaining
    <2> QED
      BY <2>1, <2>3, <2>4, QuietStep
  <1>3. CASE PollFails
    <2>1. UNCHANGED <<posted, lost>> /\ announced' = announced
      BY <1>3 DEF PollFails, history
    <2>2. pc' = "backoff" /\ pc = "polling" /\ UNCHANGED <<status, up, crashes, refused>>
      BY <1>3 DEF PollFails
    <2>3. TaskMatchesRow' /\ SilentUntilPosted' /\ VerdictIsOnItsWay'
      BY <1>0, <1>p, <2>1, <2>2 DEF TaskMatchesRow, SilentUntilPosted, VerdictIsOnItsWay, Deliberating, Explaining
    <2>4. status' \in {status, "deleted"} \/ status = "pending_ci"
      BY <1>0, <2>2 DEF TaskMatchesRow, SilentUntilPosted, VerdictIsOnItsWay, Deliberating, Explaining
    <2> QED
      BY <2>1, <2>3, <2>4, QuietStep
  <1>4. CASE BackoffEnds
    <2>1. UNCHANGED <<posted, lost>> /\ announced' = announced
      BY <1>4 DEF BackoffEnds, history
    <2>2. /\ \/ status # "pending_ci" /\ status' = status /\ pc' = "off"
             \/ status = "pending_ci" /\ status' = "queued" /\ pc' = "off"
             \/ status = "pending_ci" /\ status' = status /\ pc' = "polling"
          /\ pc \in Deliberating
          /\ UNCHANGED <<up, crashes, refused>>
      BY <1>4, <1>l DEF BackoffEnds, Deliberating
    <2>3. TaskMatchesRow' /\ SilentUntilPosted' /\ VerdictIsOnItsWay'
      BY <1>0, <1>p, <2>1, <2>2 DEF TaskMatchesRow, SilentUntilPosted, VerdictIsOnItsWay, Deliberating, Explaining
    <2>4. status' \in {status, "deleted"} \/ status = "pending_ci"
      BY <1>0, <2>2 DEF TaskMatchesRow, SilentUntilPosted, VerdictIsOnItsWay, Deliberating, Explaining
    <2> QED
      BY <2>1, <2>3, <2>4, QuietStep
  <1>5. CASE Pass
    <2>1. UNCHANGED <<posted, lost>> /\ announced' = announced
      BY <1>5 DEF Pass, history
    <2>2. /\ pc = "answered" /\ pc' = "off" /\ UNCHANGED <<up, crashes, refused>>
          /\ status' = IF status = "deleted" THEN status ELSE "queued"
      BY <1>5 DEF Pass, Ends, SetStatus, history
    <2>3. TaskMatchesRow' /\ SilentUntilPosted' /\ VerdictIsOnItsWay'
      BY <1>0, <1>p, <2>1, <2>2 DEF TaskMatchesRow, SilentUntilPosted, VerdictIsOnItsWay, Deliberating, Explaining
    <2>4. status' \in {status, "deleted"} \/ status = "pending_ci"
      BY <1>0, <2>2 DEF TaskMatchesRow, SilentUntilPosted, VerdictIsOnItsWay, Deliberating, Explaining
    <2> QED
      BY <2>1, <2>3, <2>4, QuietStep
  <1>6. CASE Reject
    <2>1. UNCHANGED <<posted, lost>> /\ announced' = announced
      BY <1>6 DEF Reject, history
    <2>2. /\ pc = "answered" /\ pc' = "logs" /\ UNCHANGED <<up, crashes, refused>>
          /\ status' = IF status = "deleted" THEN status ELSE "ci-failed"
      BY <1>6 DEF Reject, SetStatus, history
    <2>3. TaskMatchesRow' /\ SilentUntilPosted' /\ VerdictIsOnItsWay'
      BY <1>0, <1>p, <2>1, <2>2 DEF TaskMatchesRow, SilentUntilPosted, VerdictIsOnItsWay, Deliberating, Explaining
    <2>4. status' \in {status, "deleted"} \/ status = "pending_ci"
      BY <1>0, <2>2 DEF TaskMatchesRow, SilentUntilPosted, VerdictIsOnItsWay, Deliberating, Explaining
    <2> QED
      BY <2>1, <2>3, <2>4, QuietStep
  <1>7. CASE StillRunning
    <2>1. UNCHANGED <<posted, lost>> /\ announced' = announced
      BY <1>7 DEF StillRunning, history
    <2>2. /\ pc = "answered" /\ UNCHANGED <<up, crashes, refused>>
          /\ \/ pc' = "waiting" /\ status' = status
             \/ pc' = "giving up" /\ status' \in {"skipped", "deleted"} /\ (status' = "deleted" <=> status = "deleted")
      BY <1>7, <1>g DEF StillRunning, Deliberating, history
    <2>3. TaskMatchesRow' /\ SilentUntilPosted' /\ VerdictIsOnItsWay'
      BY <1>0, <1>p, <2>1, <2>2 DEF TaskMatchesRow, SilentUntilPosted, VerdictIsOnItsWay, Deliberating, Explaining
    <2>4. status' \in {status, "deleted"} \/ status = "pending_ci"
      BY <1>0, <2>2 DEF TaskMatchesRow, SilentUntilPosted, VerdictIsOnItsWay, Deliberating, Explaining
    <2> QED
      BY <2>1, <2>3, <2>4, QuietStep
  <1>8. CASE Wakes
    <2>1. UNCHANGED <<posted, lost>> /\ announced' = announced
      BY <1>8 DEF Wakes, history
    <2>2. /\ pc = "waiting" /\ UNCHANGED <<up, crashes, refused>>
          /\ \/ status # "pending_ci" /\ status' = status /\ pc' = "off"
             \/ status = "pending_ci" /\ status' = "queued" /\ pc' = "off"
             \/ status = "pending_ci" /\ status' = status /\ pc' = "polling"
             \/ pc' = "giving up" /\ status' \in {"skipped", "deleted"} /\ (status' = "deleted" <=> status = "deleted")
      BY <1>8, <1>l, <1>g DEF Wakes, Deliberating
    <2>3. TaskMatchesRow' /\ SilentUntilPosted' /\ VerdictIsOnItsWay'
      BY <1>0, <1>p, <2>1, <2>2 DEF TaskMatchesRow, SilentUntilPosted, VerdictIsOnItsWay, Deliberating, Explaining
    <2>4. status' \in {status, "deleted"} \/ status = "pending_ci"
      BY <1>0, <2>2 DEF TaskMatchesRow, SilentUntilPosted, VerdictIsOnItsWay, Deliberating, Explaining
    <2> QED
      BY <2>1, <2>3, <2>4, QuietStep
  <1>9. CASE LogsRead
    <2>1. /\ pc = "logs" /\ pc' \in {"diagnosing", "falling back"}
          /\ UNCHANGED <<posted, lost, announced, status, up, crashes, refused>>
      BY <1>9 DEF LogsRead, history
    <2>2. Comments = 0 /\ lost \in Nat
      BY <1>0, <2>1 DEF SilentUntilPosted, TypeOK
    <2>3. Comments' = 0 /\ Comments' <= lost'
      <3>1. Comments' = 0
        BY <1>p, <2>1, <2>2
      <3>2. lost' \in Nat
        BY <2>1, <2>2
      <3> QED
        BY <3>1, <3>2
    <2>4. SilentUntilPosted'
      BY <2>1, <2>3 DEF SilentUntilPosted
    <2>5. TaskMatchesRow' /\ VerdictIsOnItsWay'
      BY <1>0, <1>p, <2>1 DEF TaskMatchesRow, VerdictIsOnItsWay, Deliberating, Explaining
    <2> QED
      BY <2>1, <2>4, <2>5, QuietStep
  <1>10. CASE CommentDelivered
    <2>1. /\ pc \in Posting /\ Comments' = Comments + 1
          /\ pc' = (IF pc = "giving up" THEN "off" ELSE "announcing")
          /\ UNCHANGED <<status, announced, up, crashes, refused, lost>>
      BY <1>10, OnePosted DEF CommentDelivered, AfterPost, history
    <2>2. Comments \in Nat /\ lost \in Nat /\ Comments <= lost
      <3>1. Comments \in Nat /\ lost \in Nat
        BY CommentsAreCounted DEF TypeOK
      <3>2. Comments = 0 \/ Comments <= lost
        BY <1>0, <2>1 DEF SilentUntilPosted, Posting
      <3> QED
        BY <3>1, <3>2
    <2>3. CommentMatchesVerdict'
      <3>1. CASE pc = "giving up"
        BY <1>0, <1>10, <2>1, <3>1, OnePosted DEF Speech, CommentMatchesVerdict, CommentDelivered, TaskMatchesRow
      <3>2. CASE pc # "giving up"
        BY <1>0, <1>10, <2>1, <3>2, OnePosted DEF Speech, CommentMatchesVerdict, CommentDelivered, TaskMatchesRow, Posting, Explaining
      <3> QED
        BY <3>1, <3>2
    <2>4. OneComment' /\ Comments' > 0
      <3>1. Comments' = Comments + 1 /\ lost' = lost
        BY <2>1
      <3> QED
        BY <2>2, <3>1 DEF OneComment
    <2>5. AnnouncedIsPosted'
      BY <2>4 DEF AnnouncedIsPosted
    <2>6. TaskMatchesRow'
      BY <1>0, <2>1 DEF TaskMatchesRow, Posting, Deliberating, Explaining
    <2>7. SilentUntilPosted'
      <3>1. status # "pending_ci"
        BY <1>0, <2>1 DEF TaskMatchesRow, Posting, Explaining
      <3> QED
        BY <2>1, <2>4, <3>1 DEF SilentUntilPosted, Deliberating
    <2>8. VerdictIsOnItsWay'
      BY <2>4 DEF VerdictIsOnItsWay
    <2> QED
      BY <2>3, <2>4, <2>5, <2>6, <2>7, <2>8 DEF Speech
  <1>11. CASE CommentRefused
    <2>1. /\ UNCHANGED <<posted, status, announced, up, crashes, lost>>
          /\ refused' = refused + 1
          /\ pc \in Posting
          /\ pc' = (IF pc = "diagnosing" THEN "falling back" ELSE "off")
      BY <1>11 DEF CommentRefused, AfterError
    <2>2. TaskMatchesRow'
      BY <1>0, <2>1 DEF TaskMatchesRow, Posting, Deliberating, Explaining
    <2>3. SilentUntilPosted'
      <3>1. lost \in Nat /\ (pc = "diagnosing" => Comments = 0) /\ status # "pending_ci"
        BY <1>0, <2>1 DEF TypeOK, SilentUntilPosted, TaskMatchesRow, Posting, Explaining
      <3>2. Comments' = Comments /\ lost' = lost /\ pc' \in {"falling back", "off"}
        BY <1>p, <2>1
      <3>a. (pc' = "falling back") => pc = "diagnosing"
        BY <2>1
      <3>3. (pc' = "falling back") => Comments' <= lost'
        <4> SUFFICES ASSUME pc' = "falling back" PROVE Comments' <= lost'
          OBVIOUS
        <4>1. Comments' = 0
          BY <3>1, <3>2, <3>a
        <4>2. 0 <= lost'
          <5>1. lost' \in Nat
            BY <3>1, <3>2
          <5> QED
            BY ONLY <5>1
        <4> QED
          BY <4>1, <4>2
      <3>4. status' # "pending_ci"
        BY <2>1, <3>1
      <3> QED
        BY <3>2, <3>3, <3>4 DEF SilentUntilPosted, Deliberating
    <2>4. VerdictIsOnItsWay'
      <3>1. refused \in Nat /\ refused' = refused + 1
        BY <2>1 DEF TypeOK
      <3>2. refused' > 0
        BY <3>1
      <3> QED
        BY <3>2 DEF VerdictIsOnItsWay
    <2> QED
      BY <2>1, <2>2, <2>3, <2>4, QuietStep
  <1>12. CASE CommentLost
    <2>1. /\ pc \in Posting /\ Comments' = Comments + 1
          /\ pc' = (IF pc = "diagnosing" THEN "falling back" ELSE "off")
          /\ lost' = lost + 1
          /\ UNCHANGED <<status, announced, up, crashes, refused>>
      BY <1>12, OnePosted DEF CommentLost, AfterError
    <2>2. Comments \in Nat /\ lost \in Nat /\ Comments <= lost
      <3>1. Comments \in Nat /\ lost \in Nat
        BY CommentsAreCounted DEF TypeOK
      <3>2. Comments = 0 \/ Comments <= lost
        BY <1>0, <2>1 DEF SilentUntilPosted, Posting
      <3> QED
        BY <3>1, <3>2
    <2>3. CommentMatchesVerdict'
      <3>1. CASE pc = "giving up"
        BY <1>0, <1>12, <2>1, <3>1, OnePosted DEF Speech, CommentMatchesVerdict, CommentLost, TaskMatchesRow
      <3>2. CASE pc # "giving up"
        BY <1>0, <1>12, <2>1, <3>2, OnePosted DEF Speech, CommentMatchesVerdict, CommentLost, TaskMatchesRow, Posting, Explaining
      <3> QED
        BY <3>1, <3>2
    <2>4. OneComment' /\ Comments' > 0 /\ Comments' <= lost'
      <3>1. Comments' = Comments + 1 /\ lost' = lost + 1
        BY <2>1
      <3> QED
        BY <2>2, <3>1 DEF OneComment
    <2>5. AnnouncedIsPosted'
      BY <2>4 DEF AnnouncedIsPosted
    <2>6. TaskMatchesRow'
      BY <1>0, <2>1 DEF TaskMatchesRow, Posting, Deliberating, Explaining
    <2>7. SilentUntilPosted'
      <3>1. status # "pending_ci"
        BY <1>0, <2>1 DEF TaskMatchesRow, Posting, Explaining
      <3> QED
        BY <2>1, <2>4, <3>1 DEF SilentUntilPosted, Deliberating
    <2>8. VerdictIsOnItsWay'
      BY <2>4 DEF VerdictIsOnItsWay
    <2> QED
      BY <2>3, <2>4, <2>5, <2>6, <2>7, <2>8 DEF Speech
  <1>13. CASE Announce
    <2>1. /\ UNCHANGED <<posted, lost, status, up, crashes, refused>>
          /\ pc = "announcing" /\ pc' = "off"
      BY <1>13 DEF Announce, Ends, history
    <2>2. Comments > 0 /\ status # "pending_ci"
      BY <1>0, <2>1 DEF SilentUntilPosted, TaskMatchesRow, Explaining
    <2>3. TaskMatchesRow' /\ SilentUntilPosted' /\ VerdictIsOnItsWay'
      BY <1>0, <1>p, <2>1, <2>2 DEF TaskMatchesRow, SilentUntilPosted, VerdictIsOnItsWay, Deliberating, Explaining
    <2> QED
      BY <2>1, <2>2, <2>3, QuietStep
  <1>14. CASE CheckMoves
    <2>1. UNCHANGED <<posted, lost>> /\ announced' = announced
      BY <1>14 DEF CheckMoves, history
    <2>2. UNCHANGED <<status, pc, up, crashes, refused>>
      BY <1>14 DEF CheckMoves, history
    <2>3. TaskMatchesRow' /\ SilentUntilPosted' /\ VerdictIsOnItsWay'
      BY <1>0, <1>p, <2>1, <2>2 DEF TaskMatchesRow, SilentUntilPosted, VerdictIsOnItsWay, Deliberating, Explaining
    <2>4. status' \in {status, "deleted"} \/ status = "pending_ci"
      BY <1>0, <2>2 DEF TaskMatchesRow, SilentUntilPosted, VerdictIsOnItsWay, Deliberating, Explaining
    <2> QED
      BY <2>1, <2>3, <2>4, QuietStep
  <1>15. CASE Withdraw
    <2>1. UNCHANGED <<posted, lost>> /\ announced' = announced
      BY <1>15 DEF Withdraw, history
    <2>2. status' = "deleted" /\ status # "deleted" /\ UNCHANGED <<pc, up, crashes, refused>>
      BY <1>15 DEF Withdraw, history
    <2>3. TaskMatchesRow' /\ SilentUntilPosted' /\ VerdictIsOnItsWay'
      BY <1>0, <1>p, <2>1, <2>2 DEF TaskMatchesRow, SilentUntilPosted, VerdictIsOnItsWay, Deliberating, Explaining
    <2>4. status' \in {status, "deleted"} \/ status = "pending_ci"
      BY <1>0, <2>2 DEF TaskMatchesRow, SilentUntilPosted, VerdictIsOnItsWay, Deliberating, Explaining
    <2> QED
      BY <2>1, <2>3, <2>4, QuietStep
  <1>16. CASE Crash
    <2>1. UNCHANGED <<posted, lost>> /\ announced' = announced
      BY <1>16 DEF Crash, history
    <2>2. pc' = "off" /\ crashes' > 0 /\ status' = status
      BY <1>16 DEF Crash, Ends, TypeOK
    <2>3. TaskMatchesRow' /\ SilentUntilPosted' /\ VerdictIsOnItsWay'
      BY <1>0, <1>p, <2>1, <2>2 DEF TaskMatchesRow, SilentUntilPosted, VerdictIsOnItsWay, Deliberating, Explaining
    <2>4. status' \in {status, "deleted"} \/ status = "pending_ci"
      BY <1>0, <2>2 DEF TaskMatchesRow, SilentUntilPosted, VerdictIsOnItsWay, Deliberating, Explaining
    <2> QED
      BY <2>1, <2>3, <2>4, QuietStep
  <1>17. CASE Boot
    <2>1. UNCHANGED <<posted, lost>> /\ announced' = announced
      BY <1>17 DEF Boot, history
    <2>2. /\ UNCHANGED <<status, crashes, refused>> /\ pc = "off" /\ crashes > 0 /\ up'
          /\ pc' = (IF status = "pending_ci" THEN "top" ELSE "off")
      BY <1>17, <1>0 DEF Boot, history, TaskMatchesRow
    <2>3. TaskMatchesRow' /\ SilentUntilPosted' /\ VerdictIsOnItsWay'
      BY <1>0, <1>p, <2>1, <2>2 DEF TaskMatchesRow, SilentUntilPosted, VerdictIsOnItsWay, Deliberating, Explaining
    <2>4. status' \in {status, "deleted"} \/ status = "pending_ci"
      BY <1>0, <2>2 DEF TaskMatchesRow, SilentUntilPosted, VerdictIsOnItsWay, Deliberating, Explaining
    <2> QED
      BY <2>1, <2>3, <2>4, QuietStep
  <1>18. CASE UNCHANGED vars
    <2>1. UNCHANGED <<posted, lost>> /\ announced' = announced
      BY <1>18 DEF vars, history
    <2>2. UNCHANGED <<status, pc, up, crashes, refused>>
      BY <1>18 DEF vars, history
    <2>3. TaskMatchesRow' /\ SilentUntilPosted' /\ VerdictIsOnItsWay'
      BY <1>0, <1>p, <2>1, <2>2 DEF TaskMatchesRow, SilentUntilPosted, VerdictIsOnItsWay, Deliberating, Explaining
    <2>4. status' \in {status, "deleted"} \/ status = "pending_ci"
      BY <1>0, <2>2 DEF TaskMatchesRow, SilentUntilPosted, VerdictIsOnItsWay, Deliberating, Explaining
    <2> QED
      BY <2>1, <2>3, <2>4, QuietStep
  <1> QED
    BY <1>1, <1>2, <1>3, <1>4, <1>5, <1>6, <1>7, <1>8, <1>9, <1>10, <1>11, <1>12, <1>13,
       <1>14, <1>15, <1>16, <1>17, <1>18 DEF Next, Polling, Deciding, Telling

-----------------------------------------------------------------------------
(* How long the gate waits *)

\* Bookings grow with the waits, by one below the cap, and end at the cap.
LEMMA BookedFacts ==
    \A n \in Nat : /\ Booked(n) \in Int /\ Booked(n) >= 0 /\ Booked(n) <= Cap
                   /\ Booked(n) <= Booked(n + 1)
                   /\ ~CapReached(n) => Booked(n) + 1 <= Booked(n + 1)
  BY DEF Booked, CapReached

\* The account over a step that neither waits nor fails: the allowance may grow.
LEMMA QuietBalance ==
    \A w, past, e, a, b \in Int : w <= past + e + a /\ a <= b => w <= past + e + b
  OBVIOUS

\* ... over a failed poll: one more error, one interval announced.
LEMMA FailedPollBalance ==
    \A w, past, e, a \in Int : w <= past + e + a => w <= past + (e + 1) + (a - 1)
  OBVIOUS

\* ... over a sleep: one more interval, booked for this life.
LEMMA SleepBalance ==
    \A w, past, e, a, b \in Int : w <= past + e + a /\ a + 1 <= b => w + 1 <= past + e + b
  OBVIOUS

\* ... over a stop: what was left for this life is at most one cap.
LEMMA StopBalance ==
    \A w, e, a \in Int, k \in Nat : w <= k * Cap + e + a /\ a <= Cap => w <= (k + 1) * Cap + e + 0
  <1> SUFFICES ASSUME NEW w \in Int, NEW e \in Int, NEW a \in Int, NEW k \in Nat,
                      w <= k * Cap + e + a, a <= Cap
               PROVE  w <= (k + 1) * Cap + e + 0
    OBVIOUS
  <1>1. k * Cap \in Int /\ (k + 1) * Cap = k * Cap + Cap
    OBVIOUS
  <1> QED
    BY <1>1

\* Every step keeps the account of the waits.
LEMMA WaitStep ==
    TypeOK /\ TaskMatchesRow /\ WaitAccount /\ TypeOK' /\ [Next]_vars => WaitAccount'
  <1> SUFFICES ASSUME TypeOK, TaskMatchesRow, WaitAccount, TypeOK', [Next]_vars
               PROVE  WaitAccount'
    OBVIOUS
  <1> DEFINE past == crashes * Cap
  <1>1. waited <= past + errors + Allowance
    BY DEF WaitAccount
  <1>2. /\ waited \in Int /\ errors \in Int /\ crashes \in Nat /\ past \in Int
        /\ elapsed \in Nat /\ waited' \in Int /\ errors' \in Int /\ elapsed' \in Nat
    <2>1. /\ waited \in Nat /\ errors \in 0 .. MaxErrors /\ crashes \in 0 .. MaxCrashes
          /\ elapsed \in Nat /\ waited' \in Nat /\ errors' \in 0 .. MaxErrors /\ elapsed' \in Nat
      BY DEF TypeOK
    <2>2. crashes \in Nat
      BY <2>1
    <2>3. past \in Int
      BY <2>2
    <2> QED
      BY <2>1, <2>2, <2>3
  <1>3. Allowance \in Int /\ Allowance <= Cap
    BY <1>2, BookedFacts DEF Allowance
  <1>4. Allowance' \in Int
    BY <1>2, BookedFacts DEF Allowance
  <1> HIDE DEF past
  <1>q. ASSUME waited' = waited, errors' = errors, crashes' = crashes, Allowance <= Allowance',
               pc' = "waiting" => ~CapReached(elapsed')
        PROVE  WaitAccount'
    <2>1. waited <= past + errors + Allowance'
      BY <1>q, <1>1, <1>2, <1>3, <1>4, QuietBalance, Zenon
    <2> QED
      BY <1>q, <2>1 DEF WaitAccount, past, CapReached
  <1>s. ASSUME waited' = waited + 1, errors' = errors, crashes' = crashes,
               Allowance + 1 <= Allowance', pc' # "waiting"
        PROVE  WaitAccount'
    <2>1. waited + 1 <= past + errors + Allowance'
      BY <1>s, <1>1, <1>2, <1>3, <1>4, SleepBalance, Zenon
    <2> QED
      BY <1>s, <2>1 DEF WaitAccount, past
  <1> USE DEF history
  <1>11. CASE Start
    <2>1. /\ up /\ up' /\ pc = "top"
          /\ pc' = "off" \/ (pc' = "polling" /\ elapsed' = elapsed)
      BY <1>11 DEF Start, LoopHead, Ends, TaskMatchesRow
    <2>2. Allowance <= Allowance'
      BY <1>2, <2>1, BookedFacts DEF Allowance
    <2> QED
      BY <1>11, <1>q, <2>1, <2>2 DEF Start, LoopHead, Ends
  <1>12. CASE PollAnswered
    <2>1. up /\ up' /\ pc = "polling" /\ pc' = "answered" /\ elapsed' = elapsed
      BY <1>12 DEF PollAnswered, TaskMatchesRow
    <2>2. Allowance <= Allowance'
      BY <1>2, <2>1, BookedFacts DEF Allowance
    <2> QED
      BY <1>12, <1>q, <2>1, <2>2 DEF PollAnswered
  <1>13. CASE PollFails
    <2>1. /\ up /\ up' /\ pc = "polling" /\ pc' = "backoff"
          /\ elapsed' = elapsed /\ waited' = waited /\ errors' = errors + 1 /\ crashes' = crashes
      BY <1>13 DEF PollFails, TaskMatchesRow
    <2>2. Allowance' = Allowance - 1
      BY <2>1 DEF Allowance, Booked, CapReached
    <2>3. waited <= past + (errors + 1) + (Allowance - 1)
      BY <1>1, <1>2, <1>3, FailedPollBalance, Zenon
    <2> QED
      BY <2>1, <2>2, <2>3 DEF WaitAccount, past
  <1>14. CASE BackoffEnds
    <2>1. /\ up /\ up' /\ pc = "backoff"
          /\ pc' = "off" \/ (pc' = "polling" /\ elapsed' = elapsed + 1)
          /\ waited' = waited + 1 /\ errors' = errors /\ crashes' = crashes
      BY <1>14 DEF BackoffEnds, LoopHead, Ends, TaskMatchesRow
    <2>2. \A a, b \in Int : a <= b => (a - 1) + 1 <= b
      OBVIOUS
    <2>3. Allowance = Booked(elapsed) - 1
      BY <2>1 DEF Allowance
    <2>4. Allowance' \in {Cap, Booked(elapsed + 1)}
      BY <2>1 DEF Allowance, Booked, CapReached
    <2>5. Allowance + 1 <= Allowance'
      BY <1>2, <1>4, <2>2, <2>3, <2>4, BookedFacts
    <2> QED
      BY <1>s, <2>1, <2>5
  <1>15. CASE Pass
    <2>1. up /\ up' /\ pc = "answered" /\ pc' = "off"
      BY <1>15 DEF Pass, Ends, TaskMatchesRow
    <2>2. Allowance <= Allowance'
      BY <1>2, <2>1, BookedFacts DEF Allowance
    <2> QED
      BY <1>15, <1>q, <2>1, <2>2 DEF Pass, Ends
  <1>16. CASE Reject
    <2>1. up /\ up' /\ pc = "answered" /\ pc' = "logs" /\ elapsed' = elapsed
      BY <1>16 DEF Reject, TaskMatchesRow
    <2>2. Allowance <= Allowance'
      BY <1>2, <2>1, BookedFacts DEF Allowance
    <2> QED
      BY <1>16, <1>q, <2>1, <2>2 DEF Reject
  <1>17. CASE StillRunning
    <2>1. /\ up /\ up' /\ pc = "answered" /\ elapsed' = elapsed
          /\ pc' = "giving up" \/ (pc' = "waiting" /\ ~CapReached(elapsed))
      BY <1>17 DEF StillRunning, GiveUp, TaskMatchesRow
    <2>2. Allowance <= Allowance'
      <3>1. Allowance = Booked(elapsed)
        BY <2>1 DEF Allowance, Posting
      <3>2. Allowance' \in {Cap, Booked(elapsed)}
        BY <2>1 DEF Allowance, Booked, CapReached
      <3>3. Booked(elapsed) <= Booked(elapsed) /\ Booked(elapsed) <= Cap
        BY <1>2, BookedFacts
      <3> QED
        BY <3>1, <3>2, <3>3
    <2> QED
      BY <1>17, <1>q, <2>1, <2>2 DEF StillRunning, GiveUp
  <1>18. CASE Wakes
    <2>1. /\ up /\ up' /\ pc = "waiting" /\ ~CapReached(elapsed)
          /\ waited' = waited + 1 /\ errors' = errors /\ crashes' = crashes
          /\ \/ pc' = "off"
             \/ pc' \in {"polling", "giving up"} /\ elapsed' = elapsed + 1
      BY <1>18 DEF Wakes, GiveUp, LoopHead, Ends, TaskMatchesRow, WaitAccount
    <2>2. Allowance = Booked(elapsed)
      BY <2>1 DEF Allowance
    <2>3. Allowance' \in {Cap, Booked(elapsed + 1)}
      BY <2>1 DEF Allowance, Booked, CapReached
    <2>4. Booked(elapsed) + 1 <= Booked(elapsed + 1) /\ Booked(elapsed) + 1 <= Cap
      <3>1. \A n \in Nat : ~CapReached(n) => Booked(n) + 1 <= Booked(n + 1) /\ Booked(n) + 1 <= Cap
        BY DEF Booked, CapReached
      <3> QED
        BY <1>2, <2>1, <3>1
    <2>5. Allowance + 1 <= Allowance'
      BY <2>2, <2>3, <2>4
    <2> QED
      BY <1>s, <2>1, <2>5
  <1>19. CASE LogsRead
    <2>1. up /\ up' /\ pc = "logs" /\ pc' \in {"diagnosing", "falling back"} /\ elapsed' = elapsed
      BY <1>19 DEF LogsRead, TaskMatchesRow
    <2>2. Allowance <= Allowance'
      <3>1. Allowance = Booked(elapsed)
        BY <2>1 DEF Allowance, Posting
      <3>2. Allowance' \in {Cap, Booked(elapsed)}
        BY <2>1 DEF Allowance, Booked, CapReached
      <3>3. Booked(elapsed) <= Booked(elapsed) /\ Booked(elapsed) <= Cap
        BY <1>2, BookedFacts
      <3> QED
        BY <3>1, <3>2, <3>3
    <2> QED
      BY <1>19, <1>q, <2>1, <2>2 DEF LogsRead
  <1>20. CASE CommentDelivered
    <2>1. /\ up /\ up' /\ pc \in Posting /\ pc' \in {"off", "announcing", "falling back"}
          /\ elapsed' = elapsed
      BY <1>20 DEF CommentDelivered, AfterPost, AfterError, Posting, TaskMatchesRow
    <2>2. Allowance <= Allowance'
      <3>1. Allowance = Booked(elapsed)
        BY <2>1 DEF Allowance, Posting
      <3>2. Allowance' \in {Cap, Booked(elapsed)}
        BY <2>1 DEF Allowance, Booked, CapReached
      <3>3. Booked(elapsed) <= Booked(elapsed) /\ Booked(elapsed) <= Cap
        BY <1>2, BookedFacts
      <3> QED
        BY <3>1, <3>2, <3>3
    <2> QED
      BY <1>20, <1>q, <2>1, <2>2 DEF CommentDelivered, AfterPost, AfterError, Posting
  <1>21. CASE CommentRefused
    <2>1. /\ up /\ up' /\ pc \in Posting /\ pc' \in {"off", "announcing", "falling back"}
          /\ elapsed' = elapsed
      BY <1>21 DEF CommentRefused, AfterPost, AfterError, Posting, TaskMatchesRow
    <2>2. Allowance <= Allowance'
      <3>1. Allowance = Booked(elapsed)
        BY <2>1 DEF Allowance, Posting
      <3>2. Allowance' \in {Cap, Booked(elapsed)}
        BY <2>1 DEF Allowance, Booked, CapReached
      <3>3. Booked(elapsed) <= Booked(elapsed) /\ Booked(elapsed) <= Cap
        BY <1>2, BookedFacts
      <3> QED
        BY <3>1, <3>2, <3>3
    <2> QED
      BY <1>21, <1>q, <2>1, <2>2 DEF CommentRefused, AfterPost, AfterError, Posting
  <1>22. CASE CommentLost
    <2>1. /\ up /\ up' /\ pc \in Posting /\ pc' \in {"off", "announcing", "falling back"}
          /\ elapsed' = elapsed
      BY <1>22 DEF CommentLost, AfterPost, AfterError, Posting, TaskMatchesRow
    <2>2. Allowance <= Allowance'
      <3>1. Allowance = Booked(elapsed)
        BY <2>1 DEF Allowance, Posting
      <3>2. Allowance' \in {Cap, Booked(elapsed)}
        BY <2>1 DEF Allowance, Booked, CapReached
      <3>3. Booked(elapsed) <= Booked(elapsed) /\ Booked(elapsed) <= Cap
        BY <1>2, BookedFacts
      <3> QED
        BY <3>1, <3>2, <3>3
    <2> QED
      BY <1>22, <1>q, <2>1, <2>2 DEF CommentLost, AfterPost, AfterError, Posting
  <1>23. CASE Announce
    <2>1. up /\ up' /\ pc = "announcing" /\ pc' = "off"
      BY <1>23 DEF Announce, Ends, TaskMatchesRow
    <2>2. Allowance <= Allowance'
      BY <1>2, <2>1, BookedFacts DEF Allowance
    <2> QED
      BY <1>23, <1>q, <2>1, <2>2 DEF Announce, Ends
  <1>24. CASE CheckMoves
    <2>1. UNCHANGED <<up, pc, elapsed, waited, errors, crashes>>
      BY <1>24 DEF CheckMoves
    <2> QED
      BY <2>1 DEF WaitAccount, Allowance, Booked, CapReached
  <1>25. CASE Withdraw
    <2>1. UNCHANGED <<up, pc, elapsed, waited, errors, crashes>>
      BY <1>25 DEF Withdraw
    <2> QED
      BY <2>1 DEF WaitAccount, Allowance, Booked, CapReached
  <1>26. CASE Crash
    <2>1. ~up' /\ pc' = "off" /\ waited' = waited /\ errors' = errors /\ crashes' = crashes + 1
      BY <1>26 DEF Crash, Ends
    <2>2. waited <= (crashes + 1) * Cap + errors + 0
      BY <1>1, <1>2, <1>3, StopBalance, Zenon DEF past
    <2> QED
      BY <2>1, <2>2 DEF WaitAccount, Allowance
  <1>27. CASE Boot
    <2>1. /\ ~up /\ up' /\ pc' \in {"off", "top"}
          /\ waited' = waited /\ errors' = errors /\ crashes' = crashes
      BY <1>27 DEF Boot
    <2>2. 0 <= Allowance'
      BY <1>2, <2>1, BookedFacts DEF Allowance
    <2>3. Allowance = 0
      BY <2>1 DEF Allowance
    <2> QED
      BY <1>q, <2>1, <2>2, <2>3
  <1>28. CASE UNCHANGED vars
    BY <1>28 DEF vars, WaitAccount, Allowance, Booked, CapReached
  <1> QED
    BY <1>11, <1>12, <1>13, <1>14, <1>15, <1>16, <1>17, <1>18, <1>19, <1>20, <1>21, <1>22, <1>23,
       <1>24, <1>25, <1>26, <1>27, <1>28 DEF Next, Polling, Deciding, Telling

-----------------------------------------------------------------------------
(* The answer a task decides on *)

\* The head of the loop keeps no answer, and polls for a run with a head only.
LEMMA LoopHeadAnswer ==
    ASSUME NEW n, LoopHead(n), hasHead' = hasHead, up' = up, up
    PROVE  AnswerIsKept'
  BY DEF LoopHead, Ends, AnswerIsKept

\* Every step keeps what AnswerIsKept says of it.
LEMMA AnswerStep == TaskMatchesRow /\ AnswerIsKept /\ [Next]_vars => AnswerIsKept'
  <1> SUFFICES ASSUME TaskMatchesRow, AnswerIsKept, [Next]_vars PROVE AnswerIsKept'
    OBVIOUS
  <1> USE DEF world, history
  <1>1. CASE Start
    BY <1>1, LoopHeadAnswer DEF Start, TaskMatchesRow
  <1>2. CASE BackoffEnds
    BY <1>2, LoopHeadAnswer DEF BackoffEnds, TaskMatchesRow
  <1>3. CASE Wakes
    <2>1. CASE LoopHead(elapsed + 1)
      BY <1>3, <2>1, LoopHeadAnswer DEF Wakes, TaskMatchesRow
    <2>2. CASE GiveUp
      BY <1>3, <2>2 DEF Wakes, GiveUp, AnswerIsKept, TaskMatchesRow
    <2> QED
      BY <1>3, <2>1, <2>2 DEF Wakes
  <1>4. CASE PollAnswered \/ PollFails \/ Pass \/ Reject
    BY <1>4 DEF PollAnswered, PollFails, Pass, Reject, Ends, AnswerIsKept, TaskMatchesRow
  <1>5. CASE StillRunning
    BY <1>5 DEF StillRunning, GiveUp, AnswerIsKept, AllCompleted, Completed, Present, TaskMatchesRow
  <1>6. CASE Telling
    BY <1>6 DEF Telling, LogsRead, CommentDelivered, CommentRefused, CommentLost, Announce, AfterPost, AfterError,
                Posting, Ends, AnswerIsKept, TaskMatchesRow
  <1>7. CASE CheckMoves \/ Withdraw \/ UNCHANGED vars
    BY <1>7 DEF CheckMoves, Withdraw, vars, AnswerIsKept, AllCompleted, Completed, Present
  <1>8. CASE Crash \/ Boot
    BY <1>8 DEF Crash, Boot, Ends, AnswerIsKept, TaskMatchesRow
  <1> QED
    BY <1>1, <1>2, <1>3, <1>4, <1>5, <1>6, <1>7, <1>8 DEF Next, Polling, Deciding

-----------------------------------------------------------------------------
(* The theorems *)

\* A gate that has just been started has said nothing and waited for nothing.
LEMMA InitInv == Init => IInv
  <1> SUFFICES ASSUME Init PROVE IInv
    OBVIOUS
  <1>1. Comments = 0
    BY DEF Init, Comments, Kinds
  <1>2. TypeOK
    <2>1. checks \in [Checks -> CheckStates] /\ seen \in [Checks -> CheckStates]
      BY DEF Init, Nothing, CheckStates
    <2>2. posted \in [Kinds -> Nat]
      BY DEF Init
    <2>3. errors \in 0 .. MaxErrors /\ crashes \in 0 .. MaxCrashes
      BY DEF Init
    <2>4. pc \in Pcs
      BY DEF Init, Pcs
    <2> QED
      BY <2>1, <2>2, <2>3, <2>4 DEF Init, TypeOK
  <1>3. CommentMatchesVerdict
    BY DEF Init, CommentMatchesVerdict, Kinds
  <1>4. OneComment /\ AnnouncedIsPosted
    BY <1>1 DEF Init, OneComment, AnnouncedIsPosted
  <1>5. TaskMatchesRow /\ SilentUntilPosted /\ VerdictIsOnItsWay
    BY <1>1 DEF Init, TaskMatchesRow, SilentUntilPosted, VerdictIsOnItsWay, Deliberating, Explaining
  <1>6. WaitAccount
    <2>1. 0 * Cap = 0
      OBVIOUS
    <2>2. Allowance >= 0
      <3>1. Allowance = Booked(0)
        BY DEF Init, Allowance
      <3> QED
        BY <3>1, BookedFacts
    <2>3. /\ waited = 0 /\ crashes = 0 /\ errors = 0 /\ pc = "top" /\ Allowance \in Int
      BY BookedFacts DEF Init, Allowance
    <2>4. 0 <= 0 * Cap + 0 + Allowance
      BY <2>1, <2>2, <2>3
    <2> QED
      BY <2>3, <2>4 DEF WaitAccount
  <1>7. AnswerIsKept
    BY DEF Init, AnswerIsKept
  <1> QED
    BY <1>2, <1>3, <1>4, <1>5, <1>6, <1>7 DEF IInv

\* The invariant that all the others follow from: what the gate says is in line with
\* the row at every phase of the task, and its waits are accounted for.
THEOREM InductiveInvariant == Spec => []IInv
  <1>1. IInv /\ [Next]_vars => IInv'
    BY TypeStep, SpeechStep, WaitStep, AnswerStep DEF IInv, Speech
  <1> QED
    BY <1>1, InitInv, PTL DEF Spec

\* Every variable of the gate keeps its type, whatever GitHub answers.
THEOREM TypeCorrect == Spec => []TypeOK
  <1>1. IInv => TypeOK
    BY DEF IInv
  <1> QED
    BY <1>1, InductiveInvariant, PTL

\* A pull request is told of no verdict that its run does not have, wherever the
\* process stops between the write of the status and the comment.
THEOREM CommentsAreTrue == Spec => []CommentMatchesVerdict
  <1>1. IInv => CommentMatchesVerdict
    BY DEF IInv
  <1> QED
    BY <1>1, InductiveInvariant, PTL

\* One verdict, one comment: any second one is a fallback for a lost response.
THEOREM OneCommentPerVerdict == Spec => []OneComment
  <1>1. IInv => OneComment
    BY DEF IInv
  <1> QED
    BY <1>1, InductiveInvariant, PTL

\* The Slack message that a diagnosis was posted is never sent without one.
THEOREM SlackIsTruthful == Spec => []AnnouncedIsPosted
  <1>1. IInv => AnnouncedIsPosted
    BY DEF IInv
  <1> QED
    BY <1>1, InductiveInvariant, PTL

\* Only a stop of the process or a refused comment can keep a verdict silent.
THEOREM SilenceHasACause == Spec => []NoSilentVerdict
  <1>1. IInv => NoSilentVerdict
    BY DEF IInv, NoSilentVerdict, VerdictIsOnItsWay
  <1> QED
    BY <1>1, InductiveInvariant, PTL

\* The gate waits at most the cap in each life of the process, and one interval
\* for each failed poll, for every cap.
THEOREM WaitsAreBounded == Spec => []WaitIsBounded
  <1>1. IInv => WaitIsBounded
    <2> SUFFICES ASSUME IInv PROVE WaitIsBounded
      OBVIOUS
    <2> DEFINE past == crashes * Cap
    <2>1. waited <= past + errors + Allowance
      BY DEF IInv, WaitAccount
    <2>2. /\ waited \in Int /\ errors \in Int /\ crashes \in Nat /\ elapsed \in Nat
      <3>1. waited \in Nat /\ errors \in 0 .. MaxErrors /\ crashes \in 0 .. MaxCrashes /\ elapsed \in Nat
        BY DEF IInv, TypeOK
      <3> QED
        BY <3>1
    <2>3. Allowance \in Int /\ Allowance <= Cap
      BY <2>2, BookedFacts DEF Allowance
    <2>4. \A w, e, m, n \in Int : w <= m + e + 0 /\ m = n => w <= n + e
      OBVIOUS
    <2>5. waited <= (crashes + 1) * Cap + errors + 0
      BY <2>1, <2>2, <2>3, StopBalance, Zenon
    <2>6. (crashes + 1) * Cap \in Int
      BY <2>2
    <2> QED
      BY <2>2, <2>4, <2>5, <2>6, Zenon DEF WaitIsBounded
  <1> QED
    BY <1>1, InductiveInvariant, PTL

-----------------------------------------------------------------------------
(* The decisions *)

\* What resolve_gate says of an answer with check runs.
LEMMA Resolution ==
    ASSUME NEW runs, NEW n, Present(runs) # {}
    PROVE  /\ AllCompleted(runs) /\ Failed(runs) # {} => StatusOf(ResolveGate(runs, n)) = "ci-failed"
           /\ AllCompleted(runs) /\ Failed(runs) = {} => StatusOf(ResolveGate(runs, n)) = "queued"
           /\ ~AllCompleted(runs) /\ CapReached(n) => StatusOf(ResolveGate(runs, n)) = "skipped"
           /\ ~AllCompleted(runs) /\ ~CapReached(n) => StatusOf(ResolveGate(runs, n)) = "pending_ci"
  BY DEF ResolveGate, StatusOf, CapReached

\* A decision, as AgreesWithResolveGate has it.
Agrees ==
    status = "pending_ci" /\ Present(seen) # {} /\ pc' # pc /\ up'
       => /\ (pc = "answered") => (status' = StatusOf(ResolveGate(seen, elapsed)))
          /\ (pc = "waiting") => (status' = StatusOf(ResolveGate(seen, elapsed + 1)))

\* The two statements of the decision agree, for every number of check runs and every cap.
THEOREM DecidesAsResolved == Spec => AgreesWithResolveGate
  <1>1. IInv /\ [Next]_vars => [Agrees]_vars
    <2> SUFFICES ASSUME IInv, Next, status = "pending_ci", Present(seen) # {}, pc' # pc, up'
                 PROVE  /\ (pc = "answered") => (status' = StatusOf(ResolveGate(seen, elapsed)))
                        /\ (pc = "waiting") => (status' = StatusOf(ResolveGate(seen, elapsed + 1)))
      BY DEF Agrees
    <2>1. CASE pc = "answered"
      <3>1. Pass \/ Reject \/ StillRunning
        BY <2>1 DEF Next, Polling, Deciding, Telling, Start, PollAnswered, PollFails, BackoffEnds, Wakes, LogsRead,
             CommentDelivered, CommentRefused, CommentLost, Announce, CheckMoves, Withdraw, Crash, Boot, IInv,
             TaskMatchesRow, Posting
      <3>2. CASE Pass
        BY <2>1, <3>2, Resolution DEF Pass, SetStatus
      <3>3. CASE Reject
        BY <2>1, <3>3, Resolution DEF Reject, SetStatus
      <3>4. CASE StillRunning
        BY <2>1, <3>4, Resolution DEF StillRunning, GiveUp, SetStatus
      <3> QED
        BY <2>1, <3>1, <3>2, <3>3, <3>4
    <2>2. CASE pc = "waiting"
      <3>1. Wakes
        BY <2>2 DEF Next, Polling, Deciding, Telling, Start, PollAnswered, PollFails, BackoffEnds, Pass, Reject,
             StillRunning, LogsRead, CommentDelivered, CommentRefused, CommentLost, Announce, CheckMoves, Withdraw,
             Crash, Boot, IInv, TaskMatchesRow, Posting
      <3>2. ~AllCompleted(seen) /\ hasHead
        BY <2>2 DEF IInv, AnswerIsKept
      <3>3. CASE CapReached(elapsed + 1)
        BY <2>2, <3>1, <3>2, <3>3, Resolution DEF Wakes, GiveUp, SetStatus
      <3>4. CASE ~CapReached(elapsed + 1)
        BY <2>2, <3>1, <3>2, <3>4, Resolution DEF Wakes, LoopHead
      <3> QED
        BY <3>3, <3>4
    <2> QED
      BY <2>1, <2>2
  <1> QED
    BY <1>1, InductiveInvariant, PTL DEF Spec, AgreesWithResolveGate, Agrees

-----------------------------------------------------------------------------
(* The gate keeps to GateWatch *)

\* The clock of the gate goes on where that of the contract stands at the cap.
LEMMA ClockFacts ==
    ASSUME NEW n \in Nat
    PROVE  /\ Watch!Tick(Booked(n)) = Booked(n + 1)
           /\ CapReached(n) <=> Booked(n) >= Cap
           /\ n = 0 => Booked(n) = 0
  BY DEF Watch!Tick, Booked, CapReached

LEMMA LoopHeadMaps ==
    ASSUME NEW n \in Nat, LoopHead(n), hasHead' = hasHead, up' = up
    PROVE  /\ Watch!LoopHead(Booked(n))
           /\ UNCHANGED <<status # "deleted" /\ hasHead, up>>
  <1> USE DEF WatchedRow, WatchPhase, WatchElapsed, Watch!LoopHead, Watch!Gone, Watch!PENDING
  <1>1. CASE status # "pending_ci" /\ Ends /\ UNCHANGED status
    BY <1>1 DEF Ends
  <1>2. CASE status = "pending_ci" /\ ~hasHead /\ Ends /\ SetStatus("queued")
    BY <1>2 DEF Ends, SetStatus
  <1>3. CASE status = "pending_ci" /\ hasHead /\ pc' = "polling" /\ elapsed' = n /\ UNCHANGED status
    BY <1>3 DEF Booked
  <1> QED
    BY <1>1, <1>2, <1>3 DEF LoopHead

\* A verdict leaves a deleted row as it is, in both.
LEMMA VerdictMaps ==
    ASSUME NEW s \in {"queued", "ci-failed", "skipped"}, status \in {"pending_ci", "deleted"}, SetStatus(s),
           pc' \notin Deliberating, hasHead' = hasHead
    PROVE  /\ Watch!Gone /\ Watch!Verdict(s)
           /\ UNCHANGED (status # "deleted" /\ hasHead)
  BY DEF SetStatus, Watch!Gone, Watch!Verdict, WatchedRow, WatchPhase, WatchElapsed, Watch!PENDING, Deliberating

LEMMA StepMaps ==
    ASSUME IInv, [Next]_vars
    PROVE  Watch!WNext \/ UNCHANGED Watch!wvars
  <1>0. /\ elapsed \in Nat /\ elapsed + 1 \in Nat /\ Cap \in Nat
        /\ pc \in Deliberating => status \in {"pending_ci", "deleted"} /\ up
        /\ pc = "top" => elapsed = 0
    <2>1. elapsed \in Nat /\ Cap \in Nat
      BY DEF IInv, TypeOK, GateAssumption
    <2>2. pc = "top" => elapsed = 0
      BY DEF IInv, AnswerIsKept
    <2>3. pc \in Deliberating => status \in {"pending_ci", "deleted"} /\ up
      BY DEF IInv, TaskMatchesRow, Deliberating
    <2> QED
      BY <2>1, <2>2, <2>3
  <1>a. ASSUME WatchPhase' = WatchPhase, WatchElapsed' = WatchElapsed, status' = status, hasHead' = hasHead, up' = up
        PROVE  UNCHANGED Watch!wvars
    BY <1>a DEF Watch!wvars, WatchedRow
  <1> USE DEF world, history
  <1>1. CASE Start
    <2>1. Watch!LoopHead(0) /\ UNCHANGED <<status # "deleted" /\ hasHead, up>>
      BY <1>0, <1>1, LoopHeadMaps, ClockFacts DEF Start
    <2>2. WatchPhase = "top" /\ up
      BY <1>0, <1>1 DEF Start, WatchPhase, Deliberating
    <2> QED
      BY <2>1, <2>2 DEF Watch!WNext, Watch!Watches, Watch!Begins
  <1>2. CASE BackoffEnds
    <2>1. Watch!LoopHead(Booked(elapsed + 1)) /\ UNCHANGED <<status # "deleted" /\ hasHead, up>>
      BY <1>0, <1>2, LoopHeadMaps DEF BackoffEnds
    <2>2. WatchPhase = "backoff" /\ up /\ WatchElapsed = Booked(elapsed)
      BY <1>0, <1>2 DEF BackoffEnds, WatchPhase, WatchElapsed, Deliberating
    <2> QED
      BY <1>0, <2>1, <2>2, ClockFacts DEF Watch!WNext, Watch!Watches, Watch!Retries
  <1>3. CASE PollAnswered
    BY <1>3, <1>a DEF PollAnswered, WatchPhase, WatchElapsed
  <1>4. CASE PollFails
    <2>1. /\ WatchPhase = "polling" /\ WatchPhase' = "backoff" /\ up
          /\ UNCHANGED <<WatchedRow, WatchElapsed, status # "deleted" /\ hasHead, up>>
      BY <1>0, <1>4 DEF PollFails, WatchPhase, WatchElapsed, WatchedRow, Booked, CapReached, Deliberating
    <2> QED
      BY <2>1 DEF Watch!WNext, Watch!Watches, Watch!PollFails
  <1>5. CASE Pass \/ Reject
    <2>1. WatchPhase = "polling" /\ up /\ up' = up
      BY <1>0, <1>5 DEF Pass, Reject, WatchPhase, Deliberating
    <2>2. CASE Pass
      <3>1. Watch!Gone /\ Watch!Verdict("queued") /\ UNCHANGED (status # "deleted" /\ hasHead)
        BY <1>0, <2>2, VerdictMaps DEF Pass, Ends, Deliberating
      <3> QED
        BY <2>1, <3>1 DEF Watch!WNext, Watch!Watches, Watch!Passes
    <2>3. CASE Reject
      <3>1. Watch!Gone /\ Watch!Verdict("ci-failed") /\ UNCHANGED (status # "deleted" /\ hasHead)
        BY <1>0, <2>3, VerdictMaps DEF Reject, Deliberating
      <3> QED
        BY <2>1, <3>1 DEF Watch!WNext, Watch!Watches, Watch!Rejects
    <2> QED
      BY <1>5, <2>2, <2>3
  <1>6. CASE StillRunning
    <2>1. WatchPhase = "polling" /\ up /\ up' = up /\ WatchElapsed = Booked(elapsed) /\ hasHead' = hasHead
      BY <1>0, <1>6 DEF StillRunning, WatchPhase, WatchElapsed, Deliberating
    <2>2. CASE CapReached(elapsed) /\ GiveUp
      <3>1. Watch!Gone /\ Watch!Verdict("skipped") /\ UNCHANGED (status # "deleted" /\ hasHead)
        BY <1>0, <1>6, <2>1, <2>2, VerdictMaps DEF StillRunning, GiveUp, Deliberating
      <3> QED
        BY <1>0, <2>1, <2>2, <3>1, ClockFacts DEF Watch!WNext, Watch!Watches, Watch!GivesUp
    <2>3. CASE ~CapReached(elapsed) /\ pc' = "waiting" /\ UNCHANGED <<status, seen>>
      <3>1. /\ WatchPhase' = "waiting" /\ WatchElapsed < Cap
            /\ UNCHANGED <<WatchedRow, WatchElapsed, status # "deleted" /\ hasHead>>
        BY <1>0, <1>6, <2>1, <2>3 DEF StillRunning, WatchPhase, WatchElapsed, WatchedRow, Booked, CapReached
      <3> QED
        BY <2>1, <3>1 DEF Watch!WNext, Watch!Watches, Watch!Sleeps
    <2> QED
      BY <1>6, <2>2, <2>3 DEF StillRunning
  <1>7. CASE Wakes
    <2>1. /\ WatchPhase = "waiting" /\ up /\ up' = up /\ hasHead' = hasHead
          /\ Watch!Tick(WatchElapsed) = Booked(elapsed + 1)
      BY <1>0, <1>7, ClockFacts DEF Wakes, WatchPhase, WatchElapsed, Deliberating
    <2>2. CASE CapReached(elapsed + 1) /\ GiveUp
      <3>1. Watch!Gone /\ Watch!Verdict("skipped") /\ UNCHANGED (status # "deleted" /\ hasHead)
        BY <1>0, <1>7, <2>1, <2>2, VerdictMaps DEF Wakes, GiveUp, Deliberating
      <3> QED
        BY <1>0, <2>1, <2>2, <3>1, ClockFacts DEF Watch!WNext, Watch!Watches, Watch!GivesUp
    <2>3. CASE ~CapReached(elapsed + 1) /\ LoopHead(elapsed + 1)
      <3>1. Watch!LoopHead(Booked(elapsed + 1)) /\ UNCHANGED <<status # "deleted" /\ hasHead, up>>
        BY <1>0, <2>1, <2>3, LoopHeadMaps
      <3>2. Booked(elapsed + 1) < Cap
        BY <1>0, <2>3 DEF Booked, CapReached
      <3> QED
        BY <2>1, <3>1, <3>2 DEF Watch!WNext, Watch!Watches, Watch!Wakes
    <2> QED
      BY <1>7, <2>2, <2>3 DEF Wakes
  <1>8. CASE Telling
    <2>1. WatchPhase = "off" /\ WatchPhase' = "off" /\ UNCHANGED <<status, hasHead, up>>
      BY <1>8 DEF Telling, LogsRead, CommentDelivered, CommentRefused, CommentLost, Announce, AfterPost, AfterError,
                  Posting, Ends, WatchPhase
    <2> QED
      BY <1>a, <2>1 DEF WatchElapsed
  <1>9. CASE Withdraw
    <2>1. /\ up /\ WatchedRow # "unsubmitted" /\ WatchedRow' = "withdrawn"
          /\ (status # "deleted" /\ hasHead)' = FALSE
      BY <1>9 DEF Withdraw, WatchedRow, IInv, TypeOK, Verdicts
    <2>2. UNCHANGED <<WatchPhase, WatchElapsed, up>>
      BY <1>9 DEF Withdraw, WatchPhase, WatchElapsed, Booked, CapReached
    <2> QED
      BY <2>1, <2>2 DEF Watch!WNext, Watch!Withdrawn, Watch!UNSUBMITTED, Watch!WITHDRAWN
  <1>10. CASE Crash
    <2>1. /\ up' = FALSE /\ WatchPhase' = "off" /\ WatchElapsed' = 0
          /\ UNCHANGED <<WatchedRow, status # "deleted" /\ hasHead>>
      BY <1>10 DEF Crash, Ends, WatchPhase, WatchElapsed, WatchedRow
    <2> QED
      BY <2>1 DEF Watch!WNext, Watch!Stops, Watch!Gone
  <1>11. CASE Boot
    <2>1. /\ ~up /\ up' = TRUE /\ WatchElapsed' = 0
          /\ WatchPhase' = IF WatchedRow = "pending_ci" THEN "top" ELSE "off"
          /\ UNCHANGED <<WatchedRow, status # "deleted" /\ hasHead>>
      BY <1>11 DEF Boot, WatchPhase, WatchElapsed, WatchedRow
    <2>2. WatchedRow # "running"
      BY DEF WatchedRow, IInv, TypeOK, Verdicts
    <2> QED
      BY <2>1, <2>2 DEF Watch!WNext, Watch!Starts, Watch!PENDING
  <1>12. CASE CheckMoves \/ UNCHANGED vars
    BY <1>12, <1>a DEF CheckMoves, vars, WatchPhase, WatchElapsed, Booked, CapReached
  <1> QED
    BY <1>1, <1>2, <1>3, <1>4, <1>5, <1>6, <1>7, <1>8, <1>9, <1>10, <1>11, <1>12
    DEF Next, Polling, Deciding, Telling

\* The gate, with all it is told and all it posts, is a watcher as ReviewQueue has one for
\* each run: it writes the verdicts GateWatch allows when GateWatch allows them.
THEOREM GateIsAWatch == Spec => ImplementsWatch
  <1>1. Init => Watch!WInit
    BY DEF Init, Watch!WInit, WatchedRow, WatchPhase, WatchElapsed, Watch!PENDING
  <1>2. IInv /\ [Next]_vars => [Watch!WNext]_(Watch!wvars)
    BY StepMaps
  <1> QED
    BY <1>1, <1>2, InductiveInvariant, PTL DEF Spec, ImplementsWatch, Watch!WSpec
=============================================================================
