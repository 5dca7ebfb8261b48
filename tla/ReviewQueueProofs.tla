-------------------------- MODULE ReviewQueueProofs --------------------------
(* Theorems about ReviewQueue, for every value of its constants. *)
EXTENDS ReviewQueue, FiniteSetTheorems, SequenceTheorems, TLAPS

(***************************************************************************)
(* Sequences                                                               *)
(***************************************************************************)

\* An appended queue is the old one and the new entry behind it.
LEMMA AppendEntries ==
    ASSUME NEW S, NEW q \in Seq(S), NEW e \in S
    PROVE  /\ Append(q, e) \in Seq(S)
           /\ Len(Append(q, e)) = Len(q) + 1
           /\ \A i \in 1 .. Len(q) : Append(q, e)[i] = q[i]
           /\ Append(q, e)[Len(q) + 1] = e
  BY AppendProperties

\* Taking k entries off the front shifts the others by k.
LEMMA DropEntries ==
    ASSUME NEW S, NEW q \in Seq(S), NEW k \in 0 .. Len(q)
    PROVE  /\ SubSeq(q, k + 1, Len(q)) \in Seq(S)
           /\ Len(SubSeq(q, k + 1, Len(q))) = Len(q) - k
           /\ \A i \in 1 .. Len(q) - k : SubSeq(q, k + 1, Len(q))[i] = q[i + k]
  <1>1. /\ Len(q) \in Nat
        /\ \A i \in 1 .. Len(q) : q[i] \in S
    BY LenProperties, ElementOfSeq
  <1>2. \A i \in (k + 1) .. Len(q) : q[i] \in S
    BY <1>1
  <1>3. /\ SubSeq(q, k + 1, Len(q)) \in Seq(S)
        /\ Len(SubSeq(q, k + 1, Len(q))) =
             IF k + 1 <= Len(q) THEN Len(q) - (k + 1) + 1 ELSE 0
        /\ \A i \in 1 .. Len(q) - (k + 1) + 1 :
             SubSeq(q, k + 1, Len(q))[i] = q[(k + 1) + i - 1]
    BY <1>1, <1>2, SubSeqProperties
  <1> QED BY <1>1, <1>3

(***************************************************************************)
(* The table                                                               *)
(***************************************************************************)

\* set_status touches one existing row, and of it only the status.
LEMMA SetStatusEffect ==
    ASSUME TypeOK, NEW r \in RunIds, NEW s \in Statuses, SetStatus(r, s)
    PROVE  /\ runs' \in [RunIds -> Rows \cup {NoRow}]
           /\ \A q \in RunIds : q # r => runs'[q] = runs[q]
           /\ \A q \in RunIds : runs'[q] = NoRow <=> runs[q] = NoRow
           /\ runs[r] # NoRow => /\ runs'[r].status = s
                                 /\ runs'[r].pr = runs[r].pr
                                 /\ runs'[r].head = runs[r].head
  <1>1. CASE runs[r] = NoRow
    BY <1>1 DEF TypeOK, SetStatus
  <1>2. CASE runs[r] # NoRow
    <2>1. runs' = [runs EXCEPT ![r].status = s]
      BY <1>2 DEF SetStatus
    <2>2. runs[r] \in Rows
      BY <1>2 DEF TypeOK
    <2>3. [runs[r] EXCEPT !.status = s] \in Rows
      BY <2>2 DEF Rows
    <2>4. [runs[r] EXCEPT !.status = s] # NoRow
      BY <2>3, NoRowAssumption
    <2> QED BY <1>2, <2>1, <2>2, <2>3, <2>4 DEF TypeOK, Rows
  <1> QED BY <1>1, <1>2

(***************************************************************************)
(* The watchers                                                            *)
(***************************************************************************)

\* A watcher that only moves on, or ends when its run is not pending any more or
\* because the database is locked.
LEMMA WatcherMoves ==
    ASSUME IInv, up, NEW r \in RunIds, watch[r].pc # "off",
           NEW x \in [pc : WatchPcs, elapsed : 0 .. CapPolls],
           watch' = [watch EXCEPT ![r] = x],
           struck' \in SUBSET RunIds, struck \subseteq struck',
           x.pc = "off" => r \in struck' \/ ~Is(r, PENDING_CI),
           UNCHANGED <<runs, issued, up, queue, queued, attempts, worker, crashes>>
    PROVE  IInv'
  <1> USE DEF IInv
  <1>1. TypeOK'
    BY DEF TypeOK
  <1>2. watch'[r] = x /\ \A q \in RunIds : q # r => watch'[q] = watch[q]
    BY DEF TypeOK
  <1>3. r \in issued
    BY DEF UnissuedIsUnknown
  <1>4. \A i \in 1 .. Len(queue) : queue[i] \in RunIds
    BY DEF TypeOK
  <1>5. \A w \in Workers : worker[w].pc = "executing" => worker[w].run \in RunIds \ {r}
    BY DEF TypeOK, ExecutedIsHeldOnce, JobWhileExecuting
  <1>6. QueuedSetIsInQueue' /\ QueueHasNoDuplicates' /\ JobWhileExecuting'
    BY DEF QueuedSetIsInQueue, QueueHasNoDuplicates, JobWhileExecuting
  <1>7. ExecutionIsExclusive' /\ ExecutedIsHeldOnce'
    BY <1>2, <1>5 DEF ExecutionIsExclusive, ExecutedIsHeldOnce, Is
  <1>8. PastQueuedIsUnwatched'
    BY <1>2, <1>4 DEF PastQueuedIsUnwatched
  <1>9. WatchedIsPending'
    BY <1>2 DEF WatchedIsPending, Is
  <1>10. UnissuedIsUnknown'
    BY <1>2, <1>3 DEF UnissuedIsUnknown
  <1>11. DownIsEmpty' /\ NoLostWakeup' /\ OneRunPerHead'
    BY DEF DownIsEmpty, NoLostWakeup, OneRunPerHead
  <1>12. NoRunIsStranded'
    BY <1>2 DEF NoRunIsStranded, Is
  <1> QED
    BY <1>1, <1>6, <1>7, <1>8, <1>9, <1>10, <1>11, <1>12

\* A watcher that turns its run away.
LEMMA WatcherRejects ==
    ASSUME IInv, up, NEW r \in RunIds, watch[r].pc # "off",
           NEW s \in Settled, SetStatus(r, s),
           watch' = [watch EXCEPT ![r] = NotWatched],
           UNCHANGED <<issued, up, queue, queued, attempts, worker, crashes, struck>>
    PROVE  IInv'
  <1> USE DEF IInv
  <1>0. s \in Statuses /\ s \notin OpenStatuses
    BY DEF Settled
  <1>1. /\ runs' \in [RunIds -> Rows \cup {NoRow}]
        /\ \A q \in RunIds : q # r => runs'[q] = runs[q]
        /\ \A q \in RunIds : runs'[q] = NoRow <=> runs[q] = NoRow
        /\ runs[r] # NoRow => /\ runs'[r].status = s
                              /\ runs'[r].pr = runs[r].pr
                              /\ runs'[r].head = runs[r].head
    BY <1>0, SetStatusEffect
  <1>2. /\ watch'[r] = NotWatched
        /\ \A q \in RunIds : q # r => watch'[q] = watch[q]
        /\ watch' \in [RunIds -> [pc : WatchPcs, elapsed : 0 .. CapPolls]]
    BY ConstantsAssumption DEF TypeOK, NotWatched, WatchPcs
  <1>3. TypeOK'
    BY <1>1, <1>2 DEF TypeOK
  <1>4. r \in issued
    BY DEF UnissuedIsUnknown
  <1>5. \A i \in 1 .. Len(queue) : queue[i] \in RunIds
    BY DEF TypeOK
  <1>6. \A w \in Workers : worker[w].pc = "executing" => worker[w].run \in RunIds \ {r}
    BY DEF TypeOK, ExecutedIsHeldOnce, JobWhileExecuting
  <1>7. QueuedSetIsInQueue' /\ QueueHasNoDuplicates' /\ JobWhileExecuting'
    BY DEF QueuedSetIsInQueue, QueueHasNoDuplicates, JobWhileExecuting
  <1>8. ExecutionIsExclusive' /\ ExecutedIsHeldOnce'
    BY <1>1, <1>2, <1>6 DEF ExecutionIsExclusive, ExecutedIsHeldOnce, Is
  <1>9. PastQueuedIsUnwatched'
    BY <1>2, <1>5 DEF PastQueuedIsUnwatched, NotWatched
  <1>10. WatchedIsPending'
    BY <1>1, <1>2 DEF WatchedIsPending, Is, NotWatched
  <1>11. UnissuedIsUnknown'
    BY <1>1, <1>2, <1>4 DEF UnissuedIsUnknown
  <1>12. DownIsEmpty' /\ NoLostWakeup'
    BY DEF DownIsEmpty, NoLostWakeup
  <1>13. OneRunPerHead'
    BY <1>1 DEF OneRunPerHead
  <1>14. NoRunIsStranded'
    BY <1>0, <1>1, <1>2
       DEF NoRunIsStranded, Is, OpenStatuses, PENDING_CI, QUEUED, RUNNING
  <1> QED
    BY <1>3, <1>7, <1>8, <1>9, <1>10, <1>11, <1>12, <1>13, <1>14

\* _queued.add, put_nowait, _waker.set
LEMMA PutEffect ==
    ASSUME TypeOK, JobWhileExecuting, NEW r \in RunIds, Put(r)
    PROVE  /\ queued' = queued \cup {r}
           /\ queue' \in Seq(RunIds)
           /\ Len(queue') = Len(queue) + 1
           /\ \A i \in 1 .. Len(queue) : queue'[i] = queue[i]
           /\ queue'[Len(queue) + 1] = r
           /\ worker' \in [Workers -> [pc : WorkerPcs, run : RunIds \cup {NoRun}]]
           /\ \A w \in Workers : /\ worker'[w].pc # "waiting"
                                 /\ worker'[w].run = worker[w].run
                                 /\ worker'[w].pc = "executing" <=> worker[w].pc = "executing"
  <1>1. queued' = queued \cup {r} /\ queue' = Append(queue, r) /\ worker' = Woken
    BY DEF Put
  <1>2. queue \in Seq(RunIds)
    BY DEF TypeOK
  <1>3. /\ queue' \in Seq(RunIds)
        /\ Len(queue') = Len(queue) + 1
        /\ \A i \in 1 .. Len(queue) : queue'[i] = queue[i]
        /\ queue'[Len(queue) + 1] = r
    BY <1>1, <1>2, AppendEntries
  <1>4. AtTop \in [pc : WorkerPcs, run : RunIds \cup {NoRun}]
    BY DEF AtTop, WorkerPcs
  <1>5. worker' \in [Workers -> [pc : WorkerPcs, run : RunIds \cup {NoRun}]]
    BY <1>1, <1>4 DEF Woken, TypeOK
  <1>6. \A w \in Workers : /\ worker'[w].pc # "waiting"
                           /\ worker'[w].run = worker[w].run
                           /\ worker'[w].pc = "executing" <=> worker[w].pc = "executing"
    BY <1>1 DEF Woken, AtTop, JobWhileExecuting
  <1> QED
    BY <1>1, <1>3, <1>5, <1>6

\* put_back never strands a run: afterwards the run is in the queue and in _queued,
\* once, and nothing else has moved.
LEMMA PutBackEffect ==
    ASSUME IInv, NEW r \in RunIds, watch[r].pc # "off", PutBack(r)
    PROVE  /\ queued' = queued \cup {r}
           /\ queue' \in Seq(RunIds)
           /\ Len(queue') \in Nat /\ Len(queue') >= Len(queue)
           /\ \A i \in 1 .. Len(queue) : queue'[i] = queue[i]
           /\ \A i \in 1 .. Len(queue') : i <= Len(queue) \/ queue'[i] = r
           /\ \E i \in 1 .. Len(queue') : queue'[i] = r
           /\ QueueHasNoDuplicates'
           /\ worker' \in [Workers -> [pc : WorkerPcs, run : RunIds \cup {NoRun}]]
           /\ \A w \in Workers : /\ worker'[w].run = worker[w].run
                                 /\ worker'[w].pc = "executing" <=> worker[w].pc = "executing"
           /\ up /\ queue' # <<>> => \E w \in Workers : worker'[w].pc # "waiting"
  <1> USE DEF IInv
  <1>0. queue \in Seq(RunIds) /\ Len(queue) \in Nat
    BY LenProperties DEF TypeOK
  <1>1. CASE r \in queued
    <2>1. UNCHANGED <<queued, queue, worker>>
      BY <1>1 DEF PutBack
    <2>2. \E i \in 1 .. Len(queue) : queue[i] = r
      BY <1>1 DEF QueuedSetIsInQueue
    <2> QED
      BY <1>0, <1>1, <2>1, <2>2 DEF TypeOK, QueueHasNoDuplicates, NoLostWakeup
  <1>2. CASE r \notin queued
    <2>1. Put(r)
      BY <1>2 DEF PutBack
    <2>2. /\ queued' = queued \cup {r}
          /\ queue' \in Seq(RunIds)
          /\ Len(queue') = Len(queue) + 1
          /\ \A i \in 1 .. Len(queue) : queue'[i] = queue[i]
          /\ queue'[Len(queue) + 1] = r
          /\ worker' \in [Workers -> [pc : WorkerPcs, run : RunIds \cup {NoRun}]]
          /\ \A w \in Workers : /\ worker'[w].pc # "waiting"
                                /\ worker'[w].run = worker[w].run
                                /\ worker'[w].pc = "executing" <=> worker[w].pc = "executing"
      BY <2>1, PutEffect
    <2>3. \A i \in 1 .. Len(queue) : queue[i] # r
      BY <1>2 DEF PastQueuedIsUnwatched
    <2>4. QueueHasNoDuplicates'
      BY <1>0, <2>2, <2>3 DEF QueueHasNoDuplicates
    <2>5. \E w \in Workers : worker'[w].pc # "waiting"
      BY <2>2, ConstantsAssumption
    <2>6. /\ Len(queue') \in Nat /\ Len(queue') >= Len(queue)
          /\ \A i \in 1 .. Len(queue') : i <= Len(queue) \/ queue'[i] = r
          /\ \E i \in 1 .. Len(queue') : queue'[i] = r
      BY <1>0, <2>2
    <2> QED
      BY <2>2, <2>4, <2>5, <2>6
  <1> QED
    BY <1>1, <1>2

\* A watcher that lets its run pass.
LEMMA WatcherPasses ==
    ASSUME IInv, up, NEW r \in RunIds, watch[r].pc # "off",
           SetStatus(r, QUEUED), PutBack(r),
           watch' = [watch EXCEPT ![r] = NotWatched],
           UNCHANGED <<issued, up, attempts, crashes, struck>>
    PROVE  IInv'
  <1> USE DEF IInv
  <1>1. /\ runs' \in [RunIds -> Rows \cup {NoRow}]
        /\ \A q \in RunIds : q # r => runs'[q] = runs[q]
        /\ \A q \in RunIds : runs'[q] = NoRow <=> runs[q] = NoRow
        /\ runs[r] # NoRow => /\ runs'[r].status = QUEUED
                              /\ runs'[r].pr = runs[r].pr
                              /\ runs'[r].head = runs[r].head
    BY SetStatusEffect DEF QUEUED, Statuses
  <1>2. /\ watch'[r] = NotWatched
        /\ \A q \in RunIds : q # r => watch'[q] = watch[q]
        /\ watch' \in [RunIds -> [pc : WatchPcs, elapsed : 0 .. CapPolls]]
    BY ConstantsAssumption DEF TypeOK, NotWatched, WatchPcs
  <1>3. /\ queued' = queued \cup {r}
        /\ queue' \in Seq(RunIds)
        /\ Len(queue') \in Nat /\ Len(queue') >= Len(queue)
        /\ \A i \in 1 .. Len(queue) : queue'[i] = queue[i]
        /\ \A i \in 1 .. Len(queue') : i <= Len(queue) \/ queue'[i] = r
        /\ \E i \in 1 .. Len(queue') : queue'[i] = r
        /\ QueueHasNoDuplicates'
        /\ worker' \in [Workers -> [pc : WorkerPcs, run : RunIds \cup {NoRun}]]
        /\ \A w \in Workers : /\ worker'[w].run = worker[w].run
                              /\ worker'[w].pc = "executing" <=> worker[w].pc = "executing"
        /\ NoLostWakeup'
    BY PutBackEffect DEF NoLostWakeup
  <1>4. TypeOK'
    BY <1>1, <1>2, <1>3 DEF TypeOK
  <1>5. r \in issued
    BY DEF UnissuedIsUnknown
  <1>6. /\ \A i \in 1 .. Len(queue) : queue[i] \in RunIds
        /\ Len(queue) \in Nat
    BY LenProperties DEF TypeOK
  <1>7. \A w \in Workers : worker[w].pc = "executing" => worker[w].run \in RunIds \ {r}
    BY DEF TypeOK, ExecutedIsHeldOnce, JobWhileExecuting
  <1>8. QueuedSetIsInQueue'
    BY <1>3, <1>6 DEF QueuedSetIsInQueue
  <1>9. JobWhileExecuting'
    BY <1>3 DEF JobWhileExecuting
  <1>10. ExecutionIsExclusive'
    BY <1>1, <1>3, <1>7 DEF ExecutionIsExclusive, Is
  <1>11. ExecutedIsHeldOnce'
    BY <1>2, <1>3, <1>6, <1>7 DEF ExecutedIsHeldOnce
  <1>12. PastQueuedIsUnwatched'
    BY <1>2, <1>3, <1>6 DEF PastQueuedIsUnwatched, NotWatched
  <1>13. WatchedIsPending'
    BY <1>1, <1>2 DEF WatchedIsPending, Is, NotWatched
  <1>14. UnissuedIsUnknown'
    BY <1>1, <1>2, <1>3, <1>5, <1>6 DEF UnissuedIsUnknown
  <1>15. DownIsEmpty'
    BY DEF DownIsEmpty
  <1>16. OneRunPerHead'
    BY <1>1 DEF OneRunPerHead
  <1>17. NoRunIsStranded'
    BY <1>1, <1>2, <1>3, <1>6
       DEF NoRunIsStranded, Is, PENDING_CI, QUEUED, RUNNING
  <1> QED
    BY <1>3, <1>4, <1>8, <1>9, <1>10, <1>11, <1>12, <1>13, <1>14, <1>15, <1>16, <1>17

\* elapsed never passes the cap.
LEMMA TickBound == ASSUME NEW n \in 0 .. CapPolls PROVE Tick(n) \in 0 .. CapPolls
  BY ConstantsAssumption DEF Tick

\* The head of _watch's loop, reached on starting and after each sleep.
LEMMA LoopHeadInv ==
    ASSUME IInv, up, NEW r \in RunIds, watch[r].pc # "off",
           NEW n \in 0 .. CapPolls, LoopHead(r, n),
           UNCHANGED <<issued, up, attempts, crashes, struck>>
    PROVE  IInv'
  <1> USE DEF LoopHead
  <1>0. struck' \in SUBSET RunIds /\ NotWatched \in [pc : WatchPcs, elapsed : 0 .. CapPolls]
    BY ConstantsAssumption DEF IInv, TypeOK, NotWatched, WatchPcs
  <1>1. CASE /\ ~Is(r, PENDING_CI)
             /\ watch' = [watch EXCEPT ![r] = NotWatched]
             /\ UNCHANGED <<runs, queued, queue, worker>>
    BY <1>0, <1>1, WatcherMoves
  <1>2. CASE /\ watch' = [watch EXCEPT ![r] = NotWatched]
             /\ SetStatus(r, QUEUED)
             /\ PutBack(r)
    BY <1>2, WatcherPasses
  <1>3. CASE /\ watch' = [watch EXCEPT ![r] = [pc |-> "polling", elapsed |-> n]]
             /\ UNCHANGED <<runs, queued, queue, worker>>
    <2>1. [pc |-> "polling", elapsed |-> n] \in [pc : WatchPcs, elapsed : 0 .. CapPolls]
      BY DEF WatchPcs
    <2> QED
      BY <1>0, <1>3, <2>1, WatcherMoves
  <1> QED
    BY <1>1, <1>2, <1>3

\* Every step of a watcher keeps the invariant.
LEMMA WatchingInv ==
    ASSUME IInv, up, NEW r \in RunIds, Watching(r)
    PROVE  IInv'
  <1> USE DEF IInv
  <1>0. /\ watch[r].elapsed \in 0 .. CapPolls
        /\ watch[r] \in [pc : WatchPcs, elapsed : 0 .. CapPolls]
        /\ Tick(watch[r].elapsed) \in 0 .. CapPolls
        /\ 0 \in 0 .. CapPolls
        /\ struck \in SUBSET RunIds
        /\ NotWatched \in [pc : WatchPcs, elapsed : 0 .. CapPolls]
    BY TickBound, ConstantsAssumption DEF TypeOK, NotWatched, WatchPcs
  <1>1. CASE WatchStart(r)
    BY <1>0, <1>1, LoopHeadInv DEF WatchStart
  <1>2. CASE WatchRetry(r)
    BY <1>0, <1>2, LoopHeadInv DEF WatchRetry
  <1>3. CASE WatchWakes(r)
    <2>1. CASE /\ SetStatus(r, SKIPPED)
               /\ watch' = [watch EXCEPT ![r] = NotWatched]
               /\ UNCHANGED <<queued, queue, worker>>
      BY <1>3, <2>1, WatcherRejects
         DEF WatchWakes, Settled, Statuses, OpenStatuses, SKIPPED, PENDING_CI, QUEUED, RUNNING
    <2>2. CASE LoopHead(r, Tick(watch[r].elapsed))
      BY <1>0, <1>3, <2>2, LoopHeadInv DEF WatchWakes
    <2> QED
      BY <1>3, <2>1, <2>2 DEF WatchWakes
  <1>4. CASE WatchLocked(r)
    <2>1. struck' \in SUBSET RunIds /\ struck \subseteq struck' /\ r \in struck'
      BY <1>0, <1>4 DEF WatchLocked, Locked
    <2>2. watch[r].pc # "off"
      BY <1>4 DEF WatchLocked
    <2> QED
      BY <1>0, <1>4, <2>1, <2>2, WatcherMoves DEF WatchLocked
  <1>5. CASE PollFails(r)
    <2>1. [watch[r] EXCEPT !.pc = "backoff"] \in [pc : WatchPcs, elapsed : 0 .. CapPolls]
      BY <1>0 DEF WatchPcs
    <2>2. [watch[r] EXCEPT !.pc = "backoff"].pc = "backoff"
      BY <1>0
    <2> QED
      BY <1>0, <1>5, <2>1, <2>2, WatcherMoves DEF PollFails
  <1>6. CASE PollPasses(r)
    BY <1>6, WatcherPasses DEF PollPasses
  <1>7. CASE PollRejects(r)
    BY <1>7, WatcherRejects
       DEF PollRejects, Settled, Statuses, OpenStatuses, CI_FAILED, PENDING_CI, QUEUED, RUNNING
  <1>8. CASE PollPending(r)
    <2>1. CASE SetStatus(r, SKIPPED) /\ watch' = [watch EXCEPT ![r] = NotWatched]
      BY <1>8, <2>1, WatcherRejects
         DEF PollPending, Settled, Statuses, OpenStatuses, SKIPPED, PENDING_CI, QUEUED, RUNNING
    <2>2. CASE watch' = [watch EXCEPT ![r].pc = "waiting"] /\ UNCHANGED runs
      <3>1. [watch[r] EXCEPT !.pc = "waiting"] \in [pc : WatchPcs, elapsed : 0 .. CapPolls]
        BY <1>0 DEF WatchPcs
      <3>2. [watch[r] EXCEPT !.pc = "waiting"].pc = "waiting"
        BY <1>0
      <3> QED
        BY <1>0, <1>8, <2>2, <3>1, <3>2, WatcherMoves DEF PollPending
    <2> QED
      BY <1>8, <2>1, <2>2 DEF PollPending
  <1> QED
    BY <1>1, <1>2, <1>3, <1>4, <1>5, <1>6, <1>7, <1>8 DEF Watching

(***************************************************************************)
(* The worker loops                                                        *)
(***************************************************************************)

\* Taking entries off the queue.
LEMMA PopEffect ==
    ASSUME IInv, NEW k \in 0 .. Len(queue), Pop(k)
    PROVE  /\ queue' \in Seq(RunIds)
           /\ Len(queue) \in Nat
           /\ Len(queue') = Len(queue) - k
           /\ \A i \in 1 .. Len(queue') : queue'[i] = queue[i + k]
           /\ queued' = queued \ {queue[i] : i \in 1 .. k}
           /\ QueuedSetIsInQueue' /\ QueueHasNoDuplicates'
           /\ \A i \in 1 .. Len(queue') : queue[i + k] \in queued' <=> queue[i + k] \in queued
  <1> USE DEF IInv
  <1>1. queue \in Seq(RunIds) /\ Len(queue) \in Nat
    BY LenProperties DEF TypeOK
  <1>2. /\ queue' = SubSeq(queue, k + 1, Len(queue))
        /\ queued' = queued \ {queue[i] : i \in 1 .. k}
    BY DEF Pop
  <1>3. /\ queue' \in Seq(RunIds)
        /\ Len(queue') = Len(queue) - k
        /\ \A i \in 1 .. Len(queue) - k : queue'[i] = queue[i + k]
    BY <1>1, <1>2, DropEntries
  <1>4. QueueHasNoDuplicates'
    BY <1>1, <1>3 DEF QueueHasNoDuplicates
  <1>5. QueuedSetIsInQueue'
    <2> SUFFICES ASSUME NEW r \in queued' PROVE \E i \in 1 .. Len(queue') : queue'[i] = r
      BY DEF QueuedSetIsInQueue
    <2>1. PICK j \in 1 .. Len(queue) : queue[j] = r
      BY <1>2 DEF QueuedSetIsInQueue
    <2>2. j > k
      BY <1>1, <1>2, <2>1
    <2>3. j - k \in 1 .. Len(queue') /\ queue'[j - k] = r
      BY <1>1, <1>3, <2>1, <2>2
    <2> QED
      BY <2>3
  <1>6. \A i \in 1 .. Len(queue') : queue[i + k] \in queued' <=> queue[i + k] \in queued
    BY <1>1, <1>2, <1>3 DEF QueueHasNoDuplicates
  <1> QED
    BY <1>1, <1>2, <1>3, <1>4, <1>5, <1>6

\* A loop that is not executing takes entries nobody can claim, or stops at a locked
\* claim; it does not start to execute.
LEMMA PopWithoutClaim ==
    ASSUME IInv, up, NEW w \in Workers, worker[w].pc = "top",
           NEW k \in 0 .. Len(queue), UnclaimableBefore(k), Pop(k),
           NEW x \in {"waiting", "dead"},
           worker' = [worker EXCEPT ![w].pc = x],
           struck' \in SUBSET RunIds, struck \subseteq struck',
           \/ x = "waiting" /\ k = Len(queue) /\ UnclaimableBefore(Len(queue) + 1)
           \/ x = "dead" /\ k > 0 /\ queue[k] \in struck',
           UNCHANGED <<runs, issued, up, attempts, watch, crashes>>
    PROVE  IInv'
  <1> USE DEF IInv
  <1>1. /\ queue' \in Seq(RunIds)
        /\ Len(queue) \in Nat
        /\ Len(queue') = Len(queue) - k
        /\ \A i \in 1 .. Len(queue') : queue'[i] = queue[i + k]
        /\ queued' = queued \ {queue[i] : i \in 1 .. k}
        /\ QueuedSetIsInQueue' /\ QueueHasNoDuplicates'
        /\ \A i \in 1 .. Len(queue') : queue[i + k] \in queued' <=> queue[i + k] \in queued
    BY PopEffect
  <1>2. /\ worker' \in [Workers -> [pc : WorkerPcs, run : RunIds \cup {NoRun}]]
        /\ worker'[w].pc = x
        /\ \A v \in Workers : worker'[v].run = worker[v].run
        /\ \A v \in Workers : v # w => worker'[v] = worker[v]
    BY DEF TypeOK, WorkerPcs
  <1>3. \A v \in Workers : worker'[v].pc = "executing" <=> worker[v].pc = "executing"
    BY <1>2
  <1>4. TypeOK'
    BY <1>1, <1>2 DEF TypeOK
  <1>5. JobWhileExecuting' /\ ExecutionIsExclusive'
    BY <1>2, <1>3 DEF JobWhileExecuting, ExecutionIsExclusive, Is
  <1>6. \A i \in 1 .. Len(queue') : i + k \in 1 .. Len(queue)
    BY <1>1
  <1>7. ExecutedIsHeldOnce'
    <2> SUFFICES ASSUME NEW v \in Workers, worker[v].pc = "executing"
                 PROVE /\ watch[worker[v].run].pc = "off"
                       /\ worker[v].run \notin queued'
                       /\ \A i \in 1 .. Len(queue') : queue'[i] # worker[v].run
      BY <1>2, <1>3 DEF ExecutedIsHeldOnce
    <2>1. /\ watch[worker[v].run].pc = "off"
          /\ worker[v].run \notin queued
          /\ \A i \in 1 .. Len(queue) : queue[i] # worker[v].run
      BY DEF ExecutedIsHeldOnce
    <2> QED
      BY <1>1, <1>6, <2>1
  <1>8. PastQueuedIsUnwatched'
    BY <1>1, <1>6 DEF PastQueuedIsUnwatched
  <1>9. WatchedIsPending' /\ OneRunPerHead' /\ DownIsEmpty'
    BY DEF WatchedIsPending, OneRunPerHead, DownIsEmpty, Is
  <1>10. UnissuedIsUnknown'
    <2> SUFFICES ASSUME NEW r \in RunIds \ issued
                 PROVE /\ runs[r] = NoRow
                       /\ watch[r].pc = "off"
                       /\ \A v \in Workers : worker'[v].run # r
                       /\ \A i \in 1 .. Len(queue') : queue'[i] # r
      BY DEF UnissuedIsUnknown
    <2>1. /\ runs[r] = NoRow
          /\ watch[r].pc = "off"
          /\ \A v \in Workers : worker[v].run # r
          /\ \A i \in 1 .. Len(queue) : queue[i] # r
      BY DEF UnissuedIsUnknown
    <2> QED
      BY <1>1, <1>2, <1>6, <2>1
  <1>11. NoLostWakeup'
    <2>1. CASE x = "waiting"
      <3>1. Len(queue') = 0
        BY <1>1, <2>1
      <3>2. queue' = <<>>
        BY <1>1, <3>1, EmptySeq
      <3> QED
        BY <3>2 DEF NoLostWakeup
    <2>2. CASE x = "dead"
      BY <1>2, <2>2 DEF NoLostWakeup
    <2> QED
      BY <2>1, <2>2
  <1>12. NoRunIsStranded'
    <2>1. CASE x = "waiting"
      <3>1. \A r \in RunIds : Is(r, QUEUED) => \A i \in 1 .. Len(queue) : queue[i] # r
        BY <1>1, <2>1 DEF UnclaimableBefore, Claimable
      <3> QED
        BY <1>2, <1>3, <2>1, <3>1 DEF NoRunIsStranded, Is
    <2>2. CASE x = "dead"
      <3> SUFFICES ASSUME NEW q \in RunIds \ struck'
                   PROVE /\ Is(q, PENDING_CI)' => watch'[q].pc # "off"
                         /\ Is(q, QUEUED)' => \E i \in 1 .. Len(queue') : queue'[i] = q
                         /\ Is(q, RUNNING)' =>
                              \E v \in Workers : worker'[v].pc = "executing" /\ worker'[v].run = q
        BY DEF NoRunIsStranded
      <3>1. q \in RunIds \ struck /\ q # queue[k]
        BY <2>2
      <3>2. Is(q, PENDING_CI)' => watch'[q].pc # "off"
        BY <3>1 DEF NoRunIsStranded, Is
      <3>3. Is(q, RUNNING)' =>
              \E v \in Workers : worker'[v].pc = "executing" /\ worker'[v].run = q
        BY <1>2, <1>3, <3>1 DEF NoRunIsStranded, Is
      <3>4. ASSUME Is(q, QUEUED)' PROVE \E i \in 1 .. Len(queue') : queue'[i] = q
        <4>1. Is(q, QUEUED)
          BY <3>4 DEF Is
        <4>2. PICK j \in 1 .. Len(queue) : queue[j] = q
          BY <3>1, <4>1 DEF NoRunIsStranded
        <4>3. j > k
          <5>1. \A i \in 1 .. k - 1 : queue[i] # q
            BY <4>1 DEF UnclaimableBefore, Claimable
          <5>2. j # k /\ ~(j \in 1 .. k - 1)
            BY <3>1, <4>2, <5>1
          <5> QED
            BY <1>1, <2>2, <4>2, <5>2
        <4>4. j - k \in 1 .. Len(queue') /\ queue'[j - k] = q
          BY <1>1, <4>2, <4>3
        <4> QED
          BY <4>4
      <3> QED
        BY <3>2, <3>3, <3>4
    <2> QED
      BY <2>1, <2>2
  <1> QED
    BY <1>1, <1>4, <1>5, <1>7, <1>8, <1>9, <1>10, <1>11, <1>12

\* A loop claims the first run that can be claimed.
LEMMA ClaimInv ==
    ASSUME IInv, up, NEW w \in Workers, Claim(w)
    PROVE  IInv'
  <1> USE DEF IInv
  <1>1. PICK k \in 1 .. Len(queue) :
            /\ UnclaimableBefore(k)
            /\ Claimable(queue[k])
            /\ Pop(k)
            /\ SetStatus(queue[k], RUNNING)
            /\ worker' = [worker EXCEPT ![w] = [pc |-> "executing", run |-> queue[k]]]
    BY DEF Claim
  <1> DEFINE r == queue[k]
  <1>2. /\ worker[w].pc = "top"
        /\ UNCHANGED <<issued, up, attempts, watch, crashes, struck>>
    BY DEF Claim
  <1>3. /\ r \in RunIds
        /\ \A i \in 1 .. Len(queue) : queue[i] \in RunIds
        /\ Len(queue) \in Nat
        /\ k \in 0 .. Len(queue)
    BY LenProperties DEF TypeOK
  <1>4. /\ queue' \in Seq(RunIds)
        /\ Len(queue') = Len(queue) - k
        /\ \A i \in 1 .. Len(queue') : queue'[i] = queue[i + k]
        /\ queued' = queued \ {queue[i] : i \in 1 .. k}
        /\ QueuedSetIsInQueue' /\ QueueHasNoDuplicates'
        /\ \A i \in 1 .. Len(queue') : queue[i + k] \in queued' <=> queue[i + k] \in queued
    BY <1>1, <1>3, PopEffect
  <1>5. \A i \in 1 .. Len(queue') : i + k \in 1 .. Len(queue) /\ i + k # k
    BY <1>3, <1>4
  <1>6. /\ runs' \in [RunIds -> Rows \cup {NoRow}]
        /\ \A q \in RunIds : q # r => runs'[q] = runs[q]
        /\ \A q \in RunIds : runs'[q] = NoRow <=> runs[q] = NoRow
        /\ runs[r] # NoRow => /\ runs'[r].status = RUNNING
                              /\ runs'[r].pr = runs[r].pr
                              /\ runs'[r].head = runs[r].head
    BY <1>1, <1>3, SetStatusEffect DEF RUNNING, Statuses
  <1>7. runs[r] # NoRow /\ runs[r].status = QUEUED
    BY <1>1 DEF Claimable, Is
  <1>8. watch[r].pc = "off"
    BY <1>3, <1>7 DEF WatchedIsPending, Is, QUEUED, PENDING_CI
  <1>9. \A v \in Workers : worker[v].run # r
    BY <1>3, <1>7, ConstantsAssumption
       DEF ExecutionIsExclusive, JobWhileExecuting, Is, QUEUED, RUNNING
  <1>10. /\ worker' \in [Workers -> [pc : WorkerPcs, run : RunIds \cup {NoRun}]]
         /\ worker'[w].pc = "executing" /\ worker'[w].run = r
         /\ \A v \in Workers : v # w => worker'[v] = worker[v]
    BY <1>1, <1>3 DEF TypeOK, WorkerPcs
  <1>11. TypeOK'
    BY <1>2, <1>4, <1>6, <1>10 DEF TypeOK
  <1>12. JobWhileExecuting'
    BY <1>3, <1>10, ConstantsAssumption DEF JobWhileExecuting
  <1>13. \A v \in Workers : worker[v].pc = "executing" => worker[v].run \in RunIds
    BY DEF TypeOK, JobWhileExecuting
  <1>14. ExecutionIsExclusive'
    BY <1>6, <1>7, <1>9, <1>10, <1>13 DEF ExecutionIsExclusive, Is
  <1>15. ExecutedIsHeldOnce'
    <2>1. r \notin queued'
      BY <1>3, <1>4
    <2>2. \A i \in 1 .. Len(queue') : queue'[i] # r
      BY <1>3, <1>4, <1>5 DEF QueueHasNoDuplicates
    <2> QED
      BY <1>2, <1>4, <1>5, <1>8, <1>10, <2>1, <2>2 DEF ExecutedIsHeldOnce
  <1>16. PastQueuedIsUnwatched'
    BY <1>2, <1>4, <1>5 DEF PastQueuedIsUnwatched
  <1>17. WatchedIsPending'
    BY <1>2, <1>6, <1>8 DEF WatchedIsPending, Is
  <1>18. UnissuedIsUnknown'
    BY <1>2, <1>3, <1>4, <1>5, <1>6, <1>7, <1>10 DEF UnissuedIsUnknown
  <1>19. DownIsEmpty' /\ NoLostWakeup'
    BY <1>2, <1>10 DEF DownIsEmpty, NoLostWakeup
  <1>20. OneRunPerHead'
    BY <1>6 DEF OneRunPerHead
  <1>21. NoRunIsStranded'
    <2> SUFFICES ASSUME NEW q \in RunIds \ struck
                 PROVE /\ Is(q, PENDING_CI)' => watch'[q].pc # "off"
                       /\ Is(q, QUEUED)' => \E i \in 1 .. Len(queue') : queue'[i] = q
                       /\ Is(q, RUNNING)' =>
                            \E v \in Workers : worker'[v].pc = "executing" /\ worker'[v].run = q
      BY <1>2 DEF NoRunIsStranded
    <2>1. CASE q = r
      BY <1>6, <1>7, <1>10, <2>1 DEF Is, PENDING_CI, QUEUED, RUNNING
    <2>2. CASE q # r
      <3>1. Is(q, PENDING_CI)' => watch'[q].pc # "off"
        BY <1>2, <1>6, <2>2 DEF NoRunIsStranded, Is
      <3>2. Is(q, RUNNING)' =>
              \E v \in Workers : worker'[v].pc = "executing" /\ worker'[v].run = q
        BY <1>2, <1>6, <1>10, <2>2 DEF NoRunIsStranded, Is
      <3>3. ASSUME Is(q, QUEUED)' PROVE \E i \in 1 .. Len(queue') : queue'[i] = q
        <4>1. Is(q, QUEUED)
          BY <1>6, <2>2, <3>3 DEF Is
        <4>2. PICK j \in 1 .. Len(queue) : queue[j] = q
          BY <4>1 DEF NoRunIsStranded
        <4>3. j > k
          BY <1>1, <1>3, <2>2, <4>1, <4>2 DEF UnclaimableBefore, Claimable
        <4>4. j - k \in 1 .. Len(queue') /\ queue'[j - k] = q
          BY <1>3, <1>4, <4>2, <4>3
        <4> QED
          BY <4>4
      <3> QED
        BY <3>1, <3>2, <3>3
    <2> QED
      BY <2>1, <2>2
  <1> QED
    BY <1>4, <1>11, <1>12, <1>14, <1>15, <1>16, <1>17, <1>18, <1>19, <1>20, <1>21

\* A loop that waits or sleeps moves on without a job.
LEMMA LoopMoves ==
    ASSUME IInv, up, NEW w \in Workers, worker[w].pc # "executing",
           NEW x \in {"idle", "top"},
           worker' = [worker EXCEPT ![w].pc = x],
           UNCHANGED <<runs, issued, up, queue, queued, attempts, watch, crashes, struck>>
    PROVE  IInv'
  <1> USE DEF IInv
  <1>1. /\ worker' \in [Workers -> [pc : WorkerPcs, run : RunIds \cup {NoRun}]]
        /\ worker'[w].pc = x
        /\ \A v \in Workers : worker'[v].run = worker[v].run
        /\ \A v \in Workers : v # w => worker'[v] = worker[v]
    BY DEF TypeOK, WorkerPcs
  <1>2. \A v \in Workers : worker'[v].pc = "executing" <=> worker[v].pc = "executing"
    BY <1>1
  <1>3. TypeOK'
    BY <1>1 DEF TypeOK
  <1>4. QueuedSetIsInQueue' /\ QueueHasNoDuplicates' /\ PastQueuedIsUnwatched'
    BY DEF QueuedSetIsInQueue, QueueHasNoDuplicates, PastQueuedIsUnwatched
  <1>5. JobWhileExecuting' /\ ExecutionIsExclusive' /\ ExecutedIsHeldOnce'
    BY <1>1, <1>2 DEF JobWhileExecuting, ExecutionIsExclusive, ExecutedIsHeldOnce, Is
  <1>6. WatchedIsPending' /\ OneRunPerHead' /\ DownIsEmpty'
    BY DEF WatchedIsPending, OneRunPerHead, DownIsEmpty, Is
  <1>7. UnissuedIsUnknown' /\ NoLostWakeup'
    BY <1>1 DEF UnissuedIsUnknown, NoLostWakeup
  <1>8. NoRunIsStranded'
    BY <1>1, <1>2 DEF NoRunIsStranded, Is
  <1> QED
    BY <1>3, <1>4, <1>5, <1>6, <1>7, <1>8

\* An execution ends, and its run settles.
LEMMA ExecutionSettles ==
    ASSUME IInv, up, NEW w \in Workers, worker[w].pc = "executing",
           NEW s \in Settled, SetStatus(worker[w].run, s),
           worker' = [worker EXCEPT ![w] = AtTop],
           UNCHANGED <<issued, up, queue, queued, attempts, watch, crashes, struck>>
    PROVE  IInv'
  <1> USE DEF IInv
  <1> DEFINE r == worker[w].run
  <1>0. s \in Statuses /\ s \notin OpenStatuses /\ r \in RunIds
    BY DEF Settled, TypeOK, JobWhileExecuting
  <1>1. /\ runs' \in [RunIds -> Rows \cup {NoRow}]
        /\ \A q \in RunIds : q # r => runs'[q] = runs[q]
        /\ \A q \in RunIds : runs'[q] = NoRow <=> runs[q] = NoRow
        /\ runs[r] # NoRow => /\ runs'[r].status = s
                              /\ runs'[r].pr = runs[r].pr
                              /\ runs'[r].head = runs[r].head
    BY <1>0, SetStatusEffect
  <1>2. /\ worker' \in [Workers -> [pc : WorkerPcs, run : RunIds \cup {NoRun}]]
        /\ worker'[w] = AtTop /\ AtTop.pc = "top" /\ AtTop.run = NoRun
        /\ \A v \in Workers : v # w => worker'[v] = worker[v]
    BY DEF TypeOK, WorkerPcs, AtTop
  <1>3. watch[r].pc = "off"
    BY DEF ExecutedIsHeldOnce
  <1>4. \A v \in Workers : v # w => worker[v].run # r
    BY DEF ExecutionIsExclusive
  <1>5. TypeOK'
    BY <1>1, <1>2 DEF TypeOK
  <1>6. QueuedSetIsInQueue' /\ QueueHasNoDuplicates' /\ PastQueuedIsUnwatched'
    BY DEF QueuedSetIsInQueue, QueueHasNoDuplicates, PastQueuedIsUnwatched
  <1>7. JobWhileExecuting'
    BY <1>2 DEF JobWhileExecuting
  <1>8. \A v \in Workers : worker[v].pc = "executing" => worker[v].run \in RunIds
    BY DEF TypeOK, JobWhileExecuting
  <1>9. ExecutionIsExclusive'
    BY <1>0, <1>1, <1>2, <1>4, <1>8, ConstantsAssumption DEF ExecutionIsExclusive, Is
  <1>10. ExecutedIsHeldOnce'
    BY <1>2 DEF ExecutedIsHeldOnce
  <1>11. WatchedIsPending'
    BY <1>1, <1>3 DEF WatchedIsPending, Is
  <1>12. UnissuedIsUnknown'
    BY <1>0, <1>1, <1>2, ConstantsAssumption DEF UnissuedIsUnknown
  <1>13. DownIsEmpty' /\ NoLostWakeup'
    BY <1>2 DEF DownIsEmpty, NoLostWakeup
  <1>14. OneRunPerHead'
    BY <1>1 DEF OneRunPerHead
  <1>15. NoRunIsStranded'
    <2>1. \A q \in RunIds : q = r => ~Is(q, PENDING_CI)' /\ ~Is(q, QUEUED)' /\ ~Is(q, RUNNING)'
      BY <1>0, <1>1 DEF Is, OpenStatuses
    <2>2. \A q \in RunIds \ {r} :
            (\E v \in Workers : worker[v].pc = "executing" /\ worker[v].run = q)
              => \E v \in Workers : worker'[v].pc = "executing" /\ worker'[v].run = q
      BY <1>2
    <2> QED
      BY <1>1, <2>1, <2>2 DEF NoRunIsStranded, Is
  <1> QED
    BY <1>5, <1>6, <1>7, <1>9, <1>10, <1>11, <1>12, <1>13, <1>14, <1>15

\* A loop dies with its run still marked running.
LEMMA FinishLockedInv ==
    ASSUME IInv, up, NEW w \in Workers, FinishLocked(w)
    PROVE  IInv'
  <1> USE DEF IInv, FinishLocked
  <1>1. /\ worker' \in [Workers -> [pc : WorkerPcs, run : RunIds \cup {NoRun}]]
        /\ worker'[w].pc = "dead" /\ worker'[w].run = NoRun
        /\ \A v \in Workers : v # w => worker'[v] = worker[v]
    BY DEF TypeOK, WorkerPcs
  <1>2. struck' = struck \cup {worker[w].run} /\ worker[w].run \in RunIds
    BY DEF Locked, TypeOK, JobWhileExecuting
  <1>3. TypeOK'
    BY <1>1, <1>2 DEF TypeOK
  <1>4. QueuedSetIsInQueue' /\ QueueHasNoDuplicates' /\ PastQueuedIsUnwatched'
    BY DEF QueuedSetIsInQueue, QueueHasNoDuplicates, PastQueuedIsUnwatched
  <1>5. JobWhileExecuting'
    BY <1>1 DEF JobWhileExecuting
  <1>6. \A v \in Workers : worker[v].pc = "executing" => worker[v].run \in RunIds
    BY DEF TypeOK, JobWhileExecuting
  <1>7. ExecutionIsExclusive' /\ ExecutedIsHeldOnce'
    BY <1>1, <1>6, ConstantsAssumption DEF ExecutionIsExclusive, ExecutedIsHeldOnce, Is
  <1>8. WatchedIsPending' /\ OneRunPerHead' /\ DownIsEmpty'
    BY DEF WatchedIsPending, OneRunPerHead, DownIsEmpty, Is
  <1>9. UnissuedIsUnknown' /\ NoLostWakeup'
    BY <1>1, ConstantsAssumption DEF UnissuedIsUnknown, NoLostWakeup
  <1>10. NoRunIsStranded'
    BY <1>1, <1>2 DEF NoRunIsStranded, Is
  <1> QED
    BY <1>3, <1>4, <1>5, <1>7, <1>8, <1>9, <1>10

\* A retried run goes from its loop to the end of the queue.
LEMMA RetryInv ==
    ASSUME IInv, up, NEW w \in Workers, Retry(w)
    PROVE  IInv'
  <1> USE DEF IInv
  <1> DEFINE r == worker[w].run
  <1>0. /\ worker[w].pc = "executing"
        /\ attempts[r] < MaxAttempts
        /\ attempts' = [attempts EXCEPT ![r] = @ + 1]
        /\ SetStatus(r, QUEUED)
        /\ queue' = Append(queue, r)
        /\ worker' = [worker EXCEPT ![w] = AtTop]
        /\ UNCHANGED <<issued, up, queued, watch, crashes, struck>>
    BY DEF Retry
  <1>1. r \in RunIds /\ r \in issued
    BY <1>0 DEF TypeOK, JobWhileExecuting, UnissuedIsUnknown
  <1>2. /\ runs' \in [RunIds -> Rows \cup {NoRow}]
        /\ \A q \in RunIds : q # r => runs'[q] = runs[q]
        /\ \A q \in RunIds : runs'[q] = NoRow <=> runs[q] = NoRow
        /\ runs[r] # NoRow => /\ runs'[r].status = QUEUED
                              /\ runs'[r].pr = runs[r].pr
                              /\ runs'[r].head = runs[r].head
    BY <1>0, <1>1, SetStatusEffect DEF QUEUED, Statuses
  <1>3. /\ queue' \in Seq(RunIds)
        /\ Len(queue) \in Nat
        /\ Len(queue') = Len(queue) + 1
        /\ \A i \in 1 .. Len(queue) : queue'[i] = queue[i]
        /\ queue'[Len(queue) + 1] = r
    BY <1>0, <1>1, AppendEntries, LenProperties DEF TypeOK
  <1>4. /\ worker' \in [Workers -> [pc : WorkerPcs, run : RunIds \cup {NoRun}]]
        /\ worker'[w] = AtTop /\ AtTop.pc = "top" /\ AtTop.run = NoRun
        /\ \A v \in Workers : v # w => worker'[v] = worker[v]
    BY <1>0 DEF TypeOK, WorkerPcs, AtTop
  <1>5. /\ watch[r].pc = "off"
        /\ r \notin queued
        /\ \A i \in 1 .. Len(queue) : queue[i] # r
    BY <1>0 DEF ExecutedIsHeldOnce
  <1>6. \A v \in Workers : v # w => worker[v].run # r
    BY <1>0 DEF ExecutionIsExclusive
  <1>7. attempts' \in [RunIds -> 0 .. MaxAttempts]
    BY <1>0, <1>1, ConstantsAssumption DEF TypeOK
  <1>8. TypeOK'
    BY <1>0, <1>2, <1>3, <1>4, <1>7 DEF TypeOK
  <1>9. QueuedSetIsInQueue' /\ QueueHasNoDuplicates'
    BY <1>0, <1>3, <1>5 DEF QueuedSetIsInQueue, QueueHasNoDuplicates
  <1>10. PastQueuedIsUnwatched'
    BY <1>0, <1>3, <1>5 DEF PastQueuedIsUnwatched
  <1>11. JobWhileExecuting'
    BY <1>4 DEF JobWhileExecuting
  <1>12. \A v \in Workers : worker[v].pc = "executing" => worker[v].run \in RunIds
    BY DEF TypeOK, JobWhileExecuting
  <1>13. ExecutionIsExclusive'
    BY <1>1, <1>2, <1>4, <1>6, <1>12, ConstantsAssumption DEF ExecutionIsExclusive, Is
  <1>14. ExecutedIsHeldOnce'
    BY <1>0, <1>3, <1>4, <1>6 DEF ExecutedIsHeldOnce
  <1>15. WatchedIsPending'
    BY <1>0, <1>2, <1>5 DEF WatchedIsPending, Is
  <1>16. UnissuedIsUnknown'
    BY <1>0, <1>1, <1>2, <1>3, <1>4, ConstantsAssumption DEF UnissuedIsUnknown
  <1>17. DownIsEmpty' /\ NoLostWakeup'
    BY <1>0, <1>4 DEF DownIsEmpty, NoLostWakeup
  <1>18. OneRunPerHead'
    BY <1>2 DEF OneRunPerHead
  <1>19. NoRunIsStranded'
    <2>1. \E i \in 1 .. Len(queue') : queue'[i] = r
      BY <1>3
    <2>2. \A q \in RunIds : q = r => ~Is(q, PENDING_CI)' /\ ~Is(q, RUNNING)'
      BY <1>2 DEF Is, PENDING_CI, QUEUED, RUNNING
    <2>3. \A q \in RunIds \ {r} :
            (\E v \in Workers : worker[v].pc = "executing" /\ worker[v].run = q)
              => \E v \in Workers : worker'[v].pc = "executing" /\ worker'[v].run = q
      BY <1>4
    <2>4. \A q \in RunIds \ {r} :
            (\E i \in 1 .. Len(queue) : queue[i] = q)
              => \E i \in 1 .. Len(queue') : queue'[i] = q
      BY <1>3
    <2> QED
      BY <1>0, <1>2, <2>1, <2>2, <2>3, <2>4 DEF NoRunIsStranded, Is
  <1> QED
    BY <1>8, <1>9, <1>10, <1>11, <1>13, <1>14, <1>15, <1>16, <1>17, <1>18, <1>19

\* Every step of a worker loop keeps the invariant.
LEMMA WorkingInv ==
    ASSUME IInv, up, NEW w \in Workers, Working(w)
    PROVE  IInv'
  <1> USE DEF IInv
  <1>0. /\ struck \in SUBSET RunIds /\ Len(queue) \in Nat
        /\ {SKIPPED, PENDING_APPROVAL, FAILED} \subseteq Settled
    BY LenProperties, ConstantsAssumption
       DEF TypeOK, Settled, Statuses, OpenStatuses, SKIPPED, PENDING_APPROVAL, FAILED,
           PENDING_CI, QUEUED, RUNNING
  <1>1. CASE Claim(w)
    BY <1>1, ClaimInv
  <1>2. CASE DequeueNothing(w)
    <2>1. Len(queue) \in 0 .. Len(queue) /\ UnclaimableBefore(Len(queue))
      BY <1>0, <1>2 DEF DequeueNothing, UnclaimableBefore
    <2>2. struck' \in SUBSET RunIds /\ struck' = struck
      BY <1>0, <1>2 DEF DequeueNothing
    <2> QED
      BY <1>2, <2>1, <2>2, PopWithoutClaim DEF DequeueNothing
  <1>3. CASE ClaimLocked(w)
    <2>1. PICK k \in 1 .. Len(queue) : UnclaimableBefore(k) /\ Pop(k) /\ Locked(queue[k])
      BY <1>3 DEF ClaimLocked
    <2>2. k \in 0 .. Len(queue)
      BY <1>0
    <2>3. struck' \in SUBSET RunIds /\ struck \subseteq struck' /\ queue[k] \in struck' /\ k > 0
      BY <1>0, <2>1 DEF Locked, TypeOK
    <2> QED
      BY <1>3, <2>1, <2>2, <2>3, PopWithoutClaim DEF ClaimLocked
  <1>4. CASE WaitTimesOut(w)
    BY <1>4, LoopMoves DEF WaitTimesOut
  <1>5. CASE IdleEnds(w)
    BY <1>5, LoopMoves DEF IdleEnds
  <1>6. CASE Finish(w)
    BY <1>0, <1>6, ExecutionSettles DEF Finish
  <1>7. CASE Retry(w)
    BY <1>7, RetryInv
  <1>8. CASE Exhaust(w)
    BY <1>0, <1>8, ExecutionSettles DEF Exhaust
  <1>9. CASE FinishLocked(w)
    BY <1>9, FinishLockedInv
  <1> QED
    BY <1>1, <1>2, <1>3, <1>4, <1>5, <1>6, <1>7, <1>8, <1>9 DEF Working

(***************************************************************************)
(* Requests                                                                *)
(***************************************************************************)

\* A new row, put in place of no row or of the rows of its pull request, keeps the
\* table typed and one run per head.
LEMMA NewRowEffect ==
    ASSUME IInv, NEW r \in RunIds \ issued, NEW p \in PRs, NEW h \in Heads \cup {NoHead},
           runs' = [q \in RunIds |-> runs'[q]],
           runs'[r] = NewRow(p, h),
           \A q \in RunIds : q # r => runs'[q] \in {runs[q], NoRow},
           \A q \in RunIds : q # r /\ runs'[q] # NoRow => ~(runs'[q].pr = p /\ runs'[q].head = h)
    PROVE  /\ runs' \in [RunIds -> Rows \cup {NoRow}]
           /\ runs'[r] # NoRow /\ runs'[r].status = PENDING_CI
           /\ \A q \in RunIds : q # r => runs'[q] \in {runs[q], NoRow}
           /\ OneRunPerHead'
  <1>1. NewRow(p, h) \in Rows
    BY DEF NewRow, Rows, Statuses, PENDING_CI
  <1>2. NewRow(p, h) # NoRow
    BY <1>1, NoRowAssumption
  <1>3. runs' \in [RunIds -> Rows \cup {NoRow}]
    BY <1>1 DEF IInv, TypeOK
  <1>4. runs'[r].status = PENDING_CI /\ runs'[r].pr = p /\ runs'[r].head = h
    BY DEF NewRow
  <1>5. OneRunPerHead'
    BY <1>2, <1>4 DEF OneRunPerHead, IInv
  <1> QED
    BY <1>2, <1>3, <1>4, <1>5

\* A run that is taken on: watched, and put on the queue.
LEMMA EnqueueInv ==
    ASSUME IInv, up, NEW r \in RunIds \ issued,
           runs' \in [RunIds -> Rows \cup {NoRow}],
           runs'[r] # NoRow, runs'[r].status = PENDING_CI,
           \A q \in RunIds : q # r => runs'[q] \in {runs[q], NoRow},
           OneRunPerHead',
           issued' = issued \cup {r},
           watch' = [watch EXCEPT ![r] = FreshWatch],
           Put(r),
           UNCHANGED <<up, attempts, crashes, struck>>
    PROVE  IInv'
  <1> USE DEF IInv
  <1>1. /\ queued' = queued \cup {r}
        /\ queue' \in Seq(RunIds)
        /\ Len(queue') = Len(queue) + 1
        /\ \A i \in 1 .. Len(queue) : queue'[i] = queue[i]
        /\ queue'[Len(queue) + 1] = r
        /\ worker' \in [Workers -> [pc : WorkerPcs, run : RunIds \cup {NoRun}]]
        /\ \A w \in Workers : /\ worker'[w].pc # "waiting"
                              /\ worker'[w].run = worker[w].run
                              /\ worker'[w].pc = "executing" <=> worker[w].pc = "executing"
    BY PutEffect
  <1>2. /\ watch'[r] = FreshWatch /\ FreshWatch.pc = "top"
        /\ \A q \in RunIds : q # r => watch'[q] = watch[q]
        /\ watch' \in [RunIds -> [pc : WatchPcs, elapsed : 0 .. CapPolls]]
    BY ConstantsAssumption DEF TypeOK, FreshWatch, WatchPcs
  <1>3. /\ \A w \in Workers : worker[w].run # r
        /\ \A i \in 1 .. Len(queue) : queue[i] # r
        /\ Len(queue) \in Nat
        /\ \A i \in 1 .. Len(queue) : queue[i] \in RunIds
    BY LenProperties DEF UnissuedIsUnknown, TypeOK
  <1>4. TypeOK'
    BY <1>1, <1>2 DEF TypeOK
  <1>5. QueuedSetIsInQueue' /\ QueueHasNoDuplicates'
    BY <1>1, <1>3 DEF QueuedSetIsInQueue, QueueHasNoDuplicates
  <1>6. JobWhileExecuting'
    BY <1>1 DEF JobWhileExecuting
  <1>7. \A w \in Workers : worker[w].pc = "executing" => worker[w].run \in RunIds \ {r}
    BY <1>3 DEF TypeOK, JobWhileExecuting
  <1>8. ExecutionIsExclusive'
    BY <1>1, <1>7 DEF ExecutionIsExclusive, Is
  <1>9. ExecutedIsHeldOnce'
    BY <1>1, <1>2, <1>3, <1>7 DEF ExecutedIsHeldOnce
  <1>10. PastQueuedIsUnwatched'
    BY <1>1, <1>2, <1>3 DEF PastQueuedIsUnwatched
  <1>11. WatchedIsPending'
    BY <1>2 DEF WatchedIsPending, Is
  <1>12. UnissuedIsUnknown'
    BY <1>1, <1>2, <1>3 DEF UnissuedIsUnknown
  <1>13. DownIsEmpty' /\ NoLostWakeup'
    BY <1>1, ConstantsAssumption DEF DownIsEmpty, NoLostWakeup
  <1>14. NoRunIsStranded'
    <2>1. \A q \in RunIds : q = r => watch'[q].pc # "off" /\ ~Is(q, QUEUED)' /\ ~Is(q, RUNNING)'
      BY <1>2 DEF Is, PENDING_CI, QUEUED, RUNNING
    <2>2. \A q \in RunIds :
            /\ (\E i \in 1 .. Len(queue) : queue[i] = q)
                 => \E i \in 1 .. Len(queue') : queue'[i] = q
            /\ (\E w \in Workers : worker[w].pc = "executing" /\ worker[w].run = q)
                 => \E w \in Workers : worker'[w].pc = "executing" /\ worker'[w].run = q
      BY <1>1, <1>3
    <2>3. \A q \in RunIds : q # r => (runs'[q] # NoRow => runs'[q] = runs[q])
      OBVIOUS
    <2> QED
      BY <1>2, <2>1, <2>2, <2>3 DEF NoRunIsStranded, Is
  <1> QED
    BY <1>4, <1>5, <1>6, <1>8, <1>9, <1>10, <1>11, <1>12, <1>13, <1>14

\* A run whose row is inserted past a locked database, and not taken on.
LEMMA EnqueueLockedInv ==
    ASSUME IInv, NEW r \in RunIds, NEW p \in PRs, NEW h \in Heads, EnqueueLocked(r, p, h)
    PROVE  IInv'
  <1>1. /\ r \in RunIds \ issued /\ up
        /\ ~Duplicate(p, h)
        /\ issued' = issued \cup {r}
        /\ runs' = [runs EXCEPT ![r] = NewRow(p, h)]
        /\ struck' = struck \cup {r}
        /\ UNCHANGED <<up, queue, queued, attempts, watch, worker, crashes>>
    BY DEF EnqueueLocked, Locked, volatile
  <1>2. /\ runs' \in [RunIds -> Rows \cup {NoRow}]
        /\ runs'[r] # NoRow /\ runs'[r].status = PENDING_CI
        /\ \A q \in RunIds : q # r => runs'[q] \in {runs[q], NoRow}
        /\ OneRunPerHead'
    <2>1. \A q \in RunIds : runs[q] # NoRow => ~(runs[q].pr = p /\ runs[q].head = h)
      BY <1>1 DEF Duplicate
    <2>2. /\ runs' = [q \in RunIds |-> runs'[q]]
          /\ runs'[r] = NewRow(p, h)
          /\ \A q \in RunIds : q # r => runs'[q] = runs[q]
          /\ h \in Heads \cup {NoHead} /\ r \in RunIds \ issued
      BY <1>1 DEF IInv, TypeOK
    <2> QED
      BY <2>1, <2>2, NewRowEffect
  <1> USE DEF IInv
  <1>3. struck' \in SUBSET RunIds /\ r \in struck' /\ struck \subseteq struck'
    BY <1>1 DEF TypeOK
  <1>4. /\ \A w \in Workers : worker[w].run # r
        /\ watch[r].pc = "off"
    BY <1>1 DEF UnissuedIsUnknown
  <1>5. TypeOK'
    BY <1>1, <1>3, <1>2 DEF TypeOK
  <1>6. /\ QueuedSetIsInQueue' /\ QueueHasNoDuplicates' /\ JobWhileExecuting'
        /\ ExecutedIsHeldOnce' /\ PastQueuedIsUnwatched' /\ DownIsEmpty' /\ NoLostWakeup'
    BY <1>1
       DEF QueuedSetIsInQueue, QueueHasNoDuplicates, JobWhileExecuting,
           ExecutedIsHeldOnce, PastQueuedIsUnwatched, DownIsEmpty, NoLostWakeup
  <1>7. \A w \in Workers : worker[w].pc = "executing" => worker[w].run \in RunIds \ {r}
    BY <1>4 DEF TypeOK, JobWhileExecuting
  <1>8. ExecutionIsExclusive'
    BY <1>1, <1>2, <1>7 DEF ExecutionIsExclusive, Is
  <1>9. WatchedIsPending'
    BY <1>1, <1>2, <1>4 DEF WatchedIsPending, Is
  <1>10. UnissuedIsUnknown'
    BY <1>1, <1>2 DEF UnissuedIsUnknown
  <1>11. NoRunIsStranded'
    BY <1>1, <1>2, <1>3 DEF NoRunIsStranded, Is
  <1> QED
    BY <1>2, <1>5, <1>6, <1>8, <1>9, <1>10, <1>11

\* Every request keeps the invariant.
LEMMA RequestInv ==
    ASSUME IInv, Request
    PROVE  IInv'
  <1>1. PICK r \in RunIds, p \in PRs :
            \/ \E h \in Heads : Enqueue(r, p, h) \/ EnqueueLocked(r, p, h)
            \/ EnqueueComment(r, p)
    BY DEF Request
  <1>2. ASSUME NEW h \in Heads, Enqueue(r, p, h) PROVE IInv'
    <2>1. \A q \in RunIds : runs[q] # NoRow => ~(runs[q].pr = p /\ runs[q].head = h)
      BY <1>2 DEF Enqueue, Duplicate
    <2>2. r \in RunIds \ issued /\ h \in Heads \cup {NoHead}
      BY <1>2 DEF Enqueue
    <2>3. /\ runs' = [q \in RunIds |-> runs'[q]]
          /\ runs'[r] = NewRow(p, h)
          /\ \A q \in RunIds : q # r => runs'[q] = runs[q]
      BY <1>2 DEF Enqueue, IInv, TypeOK
    <2>4. /\ runs' \in [RunIds -> Rows \cup {NoRow}]
          /\ runs'[r] # NoRow /\ runs'[r].status = PENDING_CI
          /\ \A q \in RunIds : q # r => runs'[q] \in {runs[q], NoRow}
          /\ OneRunPerHead'
      BY <2>1, <2>2, <2>3, NewRowEffect
    <2> QED
      BY <1>2, <2>2, <2>4, EnqueueInv DEF Enqueue
  <1>3. ASSUME NEW h \in Heads, EnqueueLocked(r, p, h) PROVE IInv'
    BY <1>3, EnqueueLockedInv
  <1>4. CASE EnqueueComment(r, p)
    <2>1. r \in RunIds \ issued /\ NoHead \in Heads \cup {NoHead}
      BY <1>4 DEF EnqueueComment
    <2>2. runs' = [WithoutPR(p) EXCEPT ![r] = NewRow(p, NoHead)]
      BY <1>4 DEF EnqueueComment
    <2>3. /\ runs' = [q \in RunIds |-> runs'[q]]
          /\ runs'[r] = NewRow(p, NoHead)
          /\ \A q \in RunIds : q # r => runs'[q] \in {runs[q], NoRow}
          /\ \A q \in RunIds : q # r /\ runs'[q] # NoRow => runs'[q].pr # p
      BY <2>2 DEF WithoutPR
    <2>4. /\ runs' \in [RunIds -> Rows \cup {NoRow}]
          /\ runs'[r] # NoRow /\ runs'[r].status = PENDING_CI
          /\ \A q \in RunIds : q # r => runs'[q] \in {runs[q], NoRow}
          /\ OneRunPerHead'
      BY <2>1, <2>3, NewRowEffect
    <2> QED
      BY <1>4, <2>1, <2>4, EnqueueInv DEF EnqueueComment
  <1> QED
    BY <1>1, <1>2, <1>3, <1>4

(***************************************************************************)
(* Stop and start                                                          *)
(***************************************************************************)

\* A process that starts on an empty table holds nothing and strands nothing.
LEMMA InitInv == ASSUME Init PROVE IInv
  <1> USE DEF Init
  <1>1. NotWatched \in [pc : WatchPcs, elapsed : 0 .. CapPolls]
    BY ConstantsAssumption DEF NotWatched, WatchPcs
  <1>2. AtTop \in [pc : WorkerPcs, run : RunIds \cup {NoRun}]
    BY DEF AtTop, WorkerPcs
  <1>3. queue \in Seq(RunIds) /\ Len(queue) = 0
    BY EmptySeq
  <1>4. TypeOK
    BY <1>1, <1>2, <1>3, ConstantsAssumption DEF TypeOK
  <1>5. /\ QueuedSetIsInQueue /\ QueueHasNoDuplicates /\ PastQueuedIsUnwatched
        /\ ExecutionIsExclusive /\ ExecutedIsHeldOnce /\ JobWhileExecuting
    BY <1>3 DEF QueuedSetIsInQueue, QueueHasNoDuplicates, PastQueuedIsUnwatched,
                ExecutionIsExclusive, ExecutedIsHeldOnce, JobWhileExecuting, AtTop
  <1>6. WatchedIsPending /\ NoRunIsStranded /\ OneRunPerHead
    BY DEF WatchedIsPending, NoRunIsStranded, OneRunPerHead, Is
  <1>7. UnissuedIsUnknown
    BY <1>3, ConstantsAssumption DEF UnissuedIsUnknown, AtTop, NotWatched
  <1>8. DownIsEmpty /\ NoLostWakeup
    BY DEF DownIsEmpty, NoLostWakeup
  <1> QED
    BY <1>4, <1>5, <1>6, <1>7, <1>8 DEF IInv

\* A stop empties the queue, the watchers and the loops together, and leaves the table.
LEMMA CrashInv == ASSUME IInv, Crash PROVE IInv'
  <1> USE DEF IInv, Crash
  <1>1. NotWatched \in [pc : WatchPcs, elapsed : 0 .. CapPolls]
    BY ConstantsAssumption DEF NotWatched, WatchPcs
  <1>2. AtTop \in [pc : WorkerPcs, run : RunIds \cup {NoRun}]
    BY DEF AtTop, WorkerPcs
  <1>3. queue' \in Seq(RunIds) /\ Len(queue') = 0
    BY EmptySeq
  <1>4. TypeOK'
    <2>1. crashes' \in 0 .. MaxCrashes
      BY ConstantsAssumption DEF TypeOK
    <2>2. attempts' \in [RunIds -> 0 .. MaxAttempts]
      BY ConstantsAssumption
    <2>3. /\ watch' \in [RunIds -> [pc : WatchPcs, elapsed : 0 .. CapPolls]]
          /\ worker' \in [Workers -> [pc : WorkerPcs, run : RunIds \cup {NoRun}]]
      BY <1>1, <1>2
    <2> QED
      BY <1>3, <2>1, <2>2, <2>3 DEF TypeOK
  <1>5. /\ QueuedSetIsInQueue' /\ QueueHasNoDuplicates' /\ PastQueuedIsUnwatched'
        /\ ExecutionIsExclusive' /\ ExecutedIsHeldOnce' /\ JobWhileExecuting'
    BY <1>3 DEF QueuedSetIsInQueue, QueueHasNoDuplicates, PastQueuedIsUnwatched,
                ExecutionIsExclusive, ExecutedIsHeldOnce, JobWhileExecuting, AtTop
  <1>6. WatchedIsPending' /\ NoRunIsStranded' /\ OneRunPerHead'
    BY DEF WatchedIsPending, NoRunIsStranded, OneRunPerHead, Is, NotWatched
  <1>7. UnissuedIsUnknown'
    BY <1>3, ConstantsAssumption DEF UnissuedIsUnknown, AtTop, NotWatched
  <1>8. DownIsEmpty' /\ NoLostWakeup'
    BY DEF DownIsEmpty, NoLostWakeup
  <1> QED
    BY <1>4, <1>5, <1>6, <1>7, <1>8

\* The order in which the start-up sweep reads the open rows is a sequence that
\* holds each of them once.
LEMMA OrderOfRows ==
    ASSUME NEW S \in SUBSET RunIds, NEW q \in Orders(S)
    PROVE  /\ q \in Seq(RunIds)
           /\ \A i \in 1 .. Len(q) : q[i] \in S
           /\ \A r \in S : \E i \in 1 .. Len(q) : q[i] = r
           /\ \A i, j \in 1 .. Len(q) : q[i] = q[j] => i = j
  <1>1. Cardinality(S) \in Nat
    BY ConstantsAssumption, FS_Subset, FS_CardinalityType
  <1>2. q \in [1 .. Cardinality(S) -> S]
    BY DEF Orders
  <1>3. q \in Seq(RunIds) /\ Len(q) = Cardinality(S)
    BY <1>1, <1>2
  <1> QED
    BY <1>2, <1>3 DEF Orders

\* The start-up sweep of reconcile puts every open row back into the hands its status
\* names.
LEMMA BootInv == ASSUME IInv, Boot PROVE IInv'
  <1> USE DEF IInv
  <1>0. /\ ~up /\ up'
        /\ runs' = Recovered
        /\ queue' \in Orders(Open)
        /\ queued' = Open
        /\ watch' = [r \in RunIds |-> IF Is(r, PENDING_CI) THEN FreshWatch ELSE NotWatched]
        /\ UNCHANGED <<issued, attempts, worker, crashes, struck>>
    BY DEF Boot
  <1>1. Open \in SUBSET RunIds
    BY DEF Open
  <1>2. /\ queue' \in Seq(RunIds)
        /\ \A i \in 1 .. Len(queue') : queue'[i] \in Open
        /\ \A r \in Open : \E i \in 1 .. Len(queue') : queue'[i] = r
        /\ \A i, j \in 1 .. Len(queue') : queue'[i] = queue'[j] => i = j
    BY <1>0, <1>1, OrderOfRows
  <1>3. \A w \in Workers : worker[w] = AtTop /\ AtTop.pc = "top" /\ AtTop.run = NoRun
    BY <1>0 DEF DownIsEmpty, AtTop
  <1>4. /\ FreshWatch \in [pc : WatchPcs, elapsed : 0 .. CapPolls] /\ FreshWatch.pc = "top"
        /\ NotWatched \in [pc : WatchPcs, elapsed : 0 .. CapPolls] /\ NotWatched.pc = "off"
    BY ConstantsAssumption DEF NotWatched, FreshWatch, WatchPcs
  <1>5. \A r \in RunIds : watch'[r].pc # "off" <=> Is(r, PENDING_CI)
    BY <1>0, <1>4
  <1>6. \A r \in RunIds : /\ ~Is(r, RUNNING) => runs'[r] = runs[r]
                          /\ Is(r, RUNNING) => runs'[r] = [runs[r] EXCEPT !.status = QUEUED]
    BY <1>0 DEF Recovered
  <1>7. \A r \in RunIds : Is(r, RUNNING) =>
            /\ runs'[r] \in Rows /\ runs'[r] # NoRow
            /\ runs'[r].status = QUEUED
            /\ runs'[r].pr = runs[r].pr /\ runs'[r].head = runs[r].head
    <2> SUFFICES ASSUME NEW r \in RunIds, Is(r, RUNNING)
                 PROVE /\ runs'[r] \in Rows /\ runs'[r] # NoRow
                       /\ runs'[r].status = QUEUED
                       /\ runs'[r].pr = runs[r].pr /\ runs'[r].head = runs[r].head
      OBVIOUS
    <2>1. runs[r] \in Rows
      BY DEF TypeOK, Is
    <2>2. runs'[r] = [runs[r] EXCEPT !.status = QUEUED]
      BY <1>6
    <2>3. runs'[r] \in Rows
      BY <2>1, <2>2 DEF Rows, QUEUED, Statuses
    <2> QED
      BY <2>1, <2>2, <2>3, NoRowAssumption DEF Rows
  <1>8. runs' \in [RunIds -> Rows \cup {NoRow}]
    <2>1. \A r \in RunIds : runs'[r] \in Rows \cup {NoRow}
      BY <1>6, <1>7 DEF TypeOK
    <2>2. runs' = [r \in RunIds |-> runs'[r]]
      BY <1>0 DEF Recovered
    <2> QED
      BY <2>1, <2>2
  <1>9. watch' \in [RunIds -> [pc : WatchPcs, elapsed : 0 .. CapPolls]]
    BY <1>0, <1>4
  <1>10. TypeOK'
    BY <1>0, <1>1, <1>2, <1>8, <1>9 DEF TypeOK
  <1>11. QueuedSetIsInQueue' /\ QueueHasNoDuplicates' /\ PastQueuedIsUnwatched'
    BY <1>0, <1>2 DEF QueuedSetIsInQueue, QueueHasNoDuplicates, PastQueuedIsUnwatched
  <1>12. JobWhileExecuting' /\ ExecutionIsExclusive' /\ ExecutedIsHeldOnce'
    BY <1>0, <1>3 DEF JobWhileExecuting, ExecutionIsExclusive, ExecutedIsHeldOnce
  <1>13. WatchedIsPending'
    BY <1>5, <1>6 DEF WatchedIsPending, Is, PENDING_CI, RUNNING
  <1>14. UnissuedIsUnknown'
    <2> SUFFICES ASSUME NEW r \in RunIds \ issued
                 PROVE /\ runs'[r] = NoRow
                       /\ watch'[r].pc = "off"
                       /\ \A w \in Workers : worker'[w].run # r
                       /\ \A i \in 1 .. Len(queue') : queue'[i] # r
      BY <1>0 DEF UnissuedIsUnknown
    <2>1. runs[r] = NoRow
      BY DEF UnissuedIsUnknown
    <2>2. r \notin Open /\ ~Is(r, PENDING_CI) /\ ~Is(r, RUNNING)
      BY <2>1 DEF Open, Is
    <2>3. runs'[r] = NoRow /\ watch'[r].pc = "off"
      BY <1>5, <1>6, <2>1, <2>2
    <2>4. \A w \in Workers : worker'[w].run # r
      BY <1>0, <1>3, ConstantsAssumption
    <2>5. \A i \in 1 .. Len(queue') : queue'[i] # r
      BY <1>2, <2>2
    <2> QED
      BY <2>3, <2>4, <2>5
  <1>15. DownIsEmpty' /\ NoLostWakeup'
    BY <1>0, <1>3, ConstantsAssumption DEF DownIsEmpty, NoLostWakeup
  <1>16. OneRunPerHead'
    <2>1. \A r \in RunIds : runs'[r] # NoRow =>
            /\ runs[r] # NoRow
            /\ runs'[r].pr = runs[r].pr /\ runs'[r].head = runs[r].head
      BY <1>6, <1>7 DEF Is
    <2> QED
      BY <2>1 DEF OneRunPerHead
  <1>17. NoRunIsStranded'
    <2> SUFFICES ASSUME NEW r \in RunIds
                 PROVE /\ Is(r, PENDING_CI)' => watch'[r].pc # "off"
                       /\ Is(r, QUEUED)' => \E i \in 1 .. Len(queue') : queue'[i] = r
                       /\ ~Is(r, RUNNING)'
      BY DEF NoRunIsStranded
    <2>1. CASE Is(r, RUNNING)
      <3>1. r \in Open
        BY <2>1 DEF Open, Is, OpenStatuses
      <3> QED
        BY <1>2, <1>7, <2>1, <3>1 DEF Is, PENDING_CI, QUEUED, RUNNING
    <2>2. CASE ~Is(r, RUNNING)
      <3>1. Is(r, QUEUED) => r \in Open
        BY DEF Open, Is, OpenStatuses
      <3> QED
        BY <1>2, <1>5, <1>6, <2>2, <3>1 DEF Is
    <2> QED
      BY <2>1, <2>2
  <1> QED
    BY <1>10, <1>11, <1>12, <1>13, <1>14, <1>15, <1>16, <1>17

(***************************************************************************)
(* The invariant                                                           *)
(***************************************************************************)

\* Every step keeps the invariant.
LEMMA NextInv == ASSUME IInv, [Next]_vars PROVE IInv'
  <1>1. CASE Request
    BY <1>1, RequestInv
  <1>2. CASE up /\ \E r \in RunIds : Watching(r)
    BY <1>2, WatchingInv
  <1>3. CASE up /\ \E w \in Workers : Working(w)
    BY <1>3, WorkingInv
  <1>4. CASE Crash
    BY <1>4, CrashInv
  <1>5. CASE Boot
    BY <1>5, BootInv
  <1>6. CASE UNCHANGED vars
    BY <1>6
       DEF vars, IInv, TypeOK, QueuedSetIsInQueue, QueueHasNoDuplicates, JobWhileExecuting,
           ExecutionIsExclusive, ExecutedIsHeldOnce, PastQueuedIsUnwatched, WatchedIsPending,
           UnissuedIsUnknown, DownIsEmpty, NoRunIsStranded, NoLostWakeup, OneRunPerHead, Is
  <1> QED
    BY <1>1, <1>2, <1>3, <1>4, <1>5, <1>6 DEF Next

\* The invariant that all the others follow from: where each run is in memory fits
\* what the table says of it, after every step of every task, stop and start.
THEOREM InductiveInvariant == Spec => []IInv
  <1>1. Init => IInv
    BY InitInv
  <1>2. IInv /\ [Next]_vars => IInv'
    BY NextInv
  <1> QED
    BY <1>1, <1>2, PTL DEF Spec

\* Every variable keeps its type: no attempt counter passes its limit, no status
\* outside the table's set is ever written.
THEOREM TypeCorrect == Spec => []TypeOK
  <1>1. IInv => TypeOK
    BY DEF IInv
  <1> QED
    BY <1>1, InductiveInvariant, PTL

\* While the process runs, every open run that no locked database has hit is in the
\* hands its status names, whatever the interleaving of requests, watchers, workers,
\* stops and starts.
THEOREM NothingStranded == Spec => []NoRunIsStranded
  <1>1. IInv => NoRunIsStranded
    BY DEF IInv
  <1> QED
    BY <1>1, InductiveInvariant, PTL

\* No two workers execute one run, and nobody else moves a run that is executed.
THEOREM Exclusive == Spec => []ExecutionIsExclusive
  <1>1. IInv => ExecutionIsExclusive
    BY DEF IInv
  <1> QED
    BY <1>1, InductiveInvariant, PTL

\* A run in _queued is in the queue: put_back never takes a run that is gone for one
\* that still waits, and enqueue never skips one.
THEOREM QueueConsistent == Spec => []QueuedSetIsInQueue
  <1>1. IInv => QueuedSetIsInQueue
    BY DEF IInv
  <1> QED
    BY <1>1, InductiveInvariant, PTL

\* A run is in the queue at most once, whichever of enqueue, the gate's put_back, a
\* retry and the sweep at start-up put it there.
THEOREM NoDuplicates == Spec => []QueueHasNoDuplicates
  <1>1. IInv => QueueHasNoDuplicates
    BY DEF IInv
  <1> QED
    BY <1>1, InductiveInvariant, PTL

\* Entries in the queue never wait for loops that all wait for the event.
THEOREM WakeupsArrive == Spec => []NoLostWakeup
  <1>1. IInv => NoLostWakeup
    BY DEF IInv
  <1> QED
    BY <1>1, InductiveInvariant, PTL

\* A live watcher's run is pending: nothing but the gate takes a run out of the gate.
THEOREM GateIsAlone == Spec => []WatchedIsPending
  <1>1. IInv => WatchedIsPending
    BY DEF IInv
  <1> QED
    BY <1>1, InductiveInvariant, PTL

\* One run for one head of a pull request.
THEOREM Deduplicated == Spec => []OneRunPerHead
  <1>1. IInv => OneRunPerHead
    BY DEF IInv
  <1> QED
    BY <1>1, InductiveInvariant, PTL

(***************************************************************************)
(* What a step may do to a run                                             *)
(***************************************************************************)

\* Everything a step may do to the table, seen from one run.  Both action properties
\* follow from it.
RowStep(r) ==
    \/ runs'[r] = runs[r]
    \/ runs'[r] = NoRow
    \/ r \notin issued
    \/ runs[r] # NoRow /\ runs[r].status \in OpenStatuses /\ runs'[r] # NoRow

\* A write of a watcher touches one row, and only one that is pending.
LEMMA WatcherRowStep ==
    ASSUME IInv, NEW r \in RunIds, watch[r].pc # "off",
           NEW s \in Statuses, SetStatus(r, s)
    PROVE  \A q \in RunIds : RowStep(q)
  <1>1. /\ \A q \in RunIds : q # r => runs'[q] = runs[q]
        /\ \A q \in RunIds : runs'[q] = NoRow <=> runs[q] = NoRow
    BY SetStatusEffect DEF IInv
  <1>2. runs[r] = NoRow \/ runs[r].status \in OpenStatuses
    BY DEF IInv, WatchedIsPending, Is, OpenStatuses
  <1> QED
    BY <1>1, <1>2 DEF RowStep

\* A write of a worker loop touches one row, and only one that is open.
LEMMA WorkerRowStep ==
    ASSUME IInv, NEW w \in Workers, worker[w].pc = "executing",
           NEW s \in Statuses, SetStatus(worker[w].run, s)
    PROVE  \A q \in RunIds : RowStep(q)
  <1>0. worker[w].run \in RunIds
    BY DEF IInv, TypeOK, JobWhileExecuting
  <1>1. /\ \A q \in RunIds : q # worker[w].run => runs'[q] = runs[q]
        /\ \A q \in RunIds : runs'[q] = NoRow <=> runs[q] = NoRow
    BY <1>0, SetStatusEffect DEF IInv
  <1>2. runs[worker[w].run] = NoRow \/ runs[worker[w].run].status \in OpenStatuses
    BY DEF IInv, ExecutionIsExclusive, Is, OpenStatuses
  <1> QED
    BY <1>1, <1>2 DEF RowStep

\* The head of _watch's loop writes only a row that is pending.
LEMMA LoopHeadRowStep ==
    ASSUME IInv, NEW r \in RunIds, watch[r].pc # "off", NEW n, LoopHead(r, n)
    PROVE  \A q \in RunIds : RowStep(q)
  <1>1. UNCHANGED runs \/ SetStatus(r, QUEUED)
    BY DEF LoopHead
  <1> QED
    BY <1>1, WatcherRowStep DEF RowStep, QUEUED, Statuses

\* Every step keeps settled rows and deleted rows as they are.
LEMMA NextRowStep ==
    ASSUME IInv, [Next]_vars
    PROVE  \A q \in RunIds : RowStep(q)
  <1>1. CASE Request
    BY <1>1 DEF Request, Enqueue, EnqueueComment, EnqueueLocked, WithoutPR, RowStep, IInv, TypeOK
  <1>2. ASSUME NEW r \in RunIds, Watching(r) PROVE \A q \in RunIds : RowStep(q)
    <2>1. CASE WatchStart(r)
      BY <2>1, LoopHeadRowStep DEF WatchStart
    <2>2. CASE WatchRetry(r)
      BY <2>2, LoopHeadRowStep DEF WatchRetry
    <2>3. CASE WatchWakes(r)
      <3>1. SetStatus(r, SKIPPED) \/ LoopHead(r, Tick(watch[r].elapsed))
        BY <2>3 DEF WatchWakes
      <3> QED
        BY <2>3, <3>1, LoopHeadRowStep, WatcherRowStep DEF WatchWakes, SKIPPED, Statuses
    <2>4. CASE UNCHANGED runs
      BY <2>4 DEF RowStep
    <2>5. CASE PollPasses(r)
      BY <2>5, WatcherRowStep DEF PollPasses, QUEUED, Statuses
    <2>6. CASE PollRejects(r)
      BY <2>6, WatcherRowStep DEF PollRejects, CI_FAILED, Statuses
    <2>7. CASE PollPending(r)
      <3>1. UNCHANGED runs \/ SetStatus(r, SKIPPED)
        BY <2>7 DEF PollPending
      <3> QED
        BY <2>4, <2>7, <3>1, WatcherRowStep DEF PollPending, SKIPPED, Statuses
    <2> QED
      BY <1>2, <2>1, <2>2, <2>3, <2>4, <2>5, <2>6, <2>7 DEF Watching, WatchLocked, PollFails
  <1>3. ASSUME NEW w \in Workers, Working(w) PROVE \A q \in RunIds : RowStep(q)
    <2>1. CASE Claim(w)
      <3>1. PICK k \in 1 .. Len(queue) : Claimable(queue[k]) /\ SetStatus(queue[k], RUNNING)
        BY <2>1 DEF Claim
      <3>2. queue[k] \in RunIds
        BY DEF IInv, TypeOK
      <3>3. /\ \A q \in RunIds : q # queue[k] => runs'[q] = runs[q]
            /\ \A q \in RunIds : runs'[q] = NoRow <=> runs[q] = NoRow
        BY <3>1, <3>2, SetStatusEffect DEF IInv, RUNNING, Statuses
      <3>4. runs[queue[k]] # NoRow /\ runs[queue[k]].status \in OpenStatuses
        BY <3>1 DEF Claimable, Is, OpenStatuses
      <3> QED
        BY <3>3, <3>4 DEF RowStep
    <2>2. CASE UNCHANGED runs
      BY <2>2 DEF RowStep
    <2>3. CASE Finish(w)
      BY <2>3, WorkerRowStep DEF Finish, SKIPPED, PENDING_APPROVAL, FAILED, Statuses
    <2>4. CASE Retry(w)
      BY <2>4, WorkerRowStep DEF Retry, QUEUED, Statuses
    <2>5. CASE Exhaust(w)
      BY <2>5, WorkerRowStep DEF Exhaust, FAILED, Statuses
    <2> QED
      BY <1>3, <2>1, <2>2, <2>3, <2>4, <2>5
         DEF Working, DequeueNothing, ClaimLocked, WaitTimesOut, IdleEnds, FinishLocked
  <1>4. CASE Boot
    <2>1. \A q \in RunIds : runs'[q] = runs[q] \/ Is(q, RUNNING)
      BY <1>4 DEF Boot, Recovered
    <2>2. \A q \in RunIds : Is(q, RUNNING) => runs'[q] = [runs[q] EXCEPT !.status = QUEUED]
      BY <1>4 DEF Boot, Recovered
    <2>3. ASSUME NEW q \in RunIds, Is(q, RUNNING) PROVE runs'[q] # NoRow
      <3>1. runs[q] \in Rows
        BY <2>3 DEF IInv, TypeOK, Is
      <3>2. runs'[q] \in Rows
        BY <2>2, <2>3, <3>1 DEF Rows, QUEUED, Statuses
      <3> QED
        BY <3>2, NoRowAssumption
    <2> QED
      BY <2>1, <2>3 DEF RowStep, Is, OpenStatuses
  <1>5. CASE Crash \/ UNCHANGED vars
    BY <1>5 DEF Crash, vars, RowStep
  <1> QED
    BY <1>1, <1>2, <1>3, <1>4, <1>5 DEF Next

\* A verdict is final, and a run that a comment deleted does not come back.
THEOREM VerdictsAreFinal == Spec => SettledIsFinal /\ DeletedStaysDeleted
  <1>1. IInv /\ [Next]_vars =>
          [\A r \in RunIds :
             runs[r] # NoRow /\ runs[r].status \in Settled => runs'[r] \in {runs[r], NoRow}]_vars
    <2> SUFFICES ASSUME IInv, [Next]_vars, NEW r \in RunIds,
                        runs[r] # NoRow, runs[r].status \in Settled
                 PROVE  runs'[r] \in {runs[r], NoRow}
      OBVIOUS
    <2>1. RowStep(r)
      BY NextRowStep
    <2>2. r \in issued
      BY DEF IInv, UnissuedIsUnknown
    <2> QED
      BY <2>1, <2>2 DEF RowStep, Settled
  <1>2. IInv /\ [Next]_vars => [\A r \in issued : runs[r] = NoRow => runs'[r] = NoRow]_vars
    <2> SUFFICES ASSUME IInv, [Next]_vars, NEW r \in issued, runs[r] = NoRow
                 PROVE  runs'[r] = NoRow
      OBVIOUS
    <2>1. RowStep(r)
      BY NextRowStep DEF IInv, TypeOK
    <2> QED
      BY <2>1 DEF RowStep
  <1> QED
    BY <1>1, <1>2, InductiveInvariant, PTL DEF Spec, SettledIsFinal, DeletedStaysDeleted

(***************************************************************************)
(* The queue implements the life cycle                                     *)
(***************************************************************************)

\* The life-cycle status of a run, case by case.
LEMMA StatusMap ==
    ASSUME IInv
    PROVE  /\ \A r \in RunIds : runs[r] # NoRow =>
                /\ LifecycleStatus[r] = runs[r].status
                /\ LifecycleStatus[r] \notin {"withdrawn", "unsubmitted"}
                /\ r \in issued
           /\ \A r \in RunIds : runs[r] = NoRow /\ r \in issued => LifecycleStatus[r] = "withdrawn"
           /\ \A r \in RunIds : r \notin issued => LifecycleStatus[r] = "unsubmitted"
  <1>1. \A r \in RunIds : runs[r] # NoRow =>
          runs[r].status \in Statuses /\ r \in issued
    BY DEF IInv, TypeOK, UnissuedIsUnknown, Rows
  <1>2. \A r \in RunIds : r \notin issued => runs[r] = NoRow
    BY DEF IInv, UnissuedIsUnknown
  <1> QED
    BY <1>1, <1>2 DEF LifecycleStatus, Statuses

\* A status write is one change of the run's life-cycle status, none if the run is
\* withdrawn.
LEMMA SetStatusMap ==
    ASSUME IInv, NEW r \in issued, NEW s \in Statuses, SetStatus(r, s), UNCHANGED issued
    PROVE  /\ runs[r] = NoRow => /\ LifecycleStatus' = LifecycleStatus
                                 /\ LifecycleStatus[r] = "withdrawn"
           /\ runs[r] # NoRow => /\ LifecycleStatus' = [LifecycleStatus EXCEPT ![r] = s]
                                 /\ LifecycleStatus[r] = runs[r].status
                                 /\ LifecycleStatus[r] # "withdrawn"
  <1>0. r \in RunIds
    BY DEF IInv, TypeOK
  <1>1. CASE runs[r] = NoRow
    <2>1. runs' = runs
      BY <1>1 DEF SetStatus
    <2> QED
      BY <1>0, <1>1, <2>1, StatusMap DEF LifecycleStatus
  <1>2. CASE runs[r] # NoRow
    <2>1. /\ \A q \in RunIds : q # r => runs'[q] = runs[q]
          /\ runs'[r] # NoRow /\ runs'[r].status = s
      BY <1>0, <1>2, SetStatusEffect DEF IInv
    <2>2. \A q \in RunIds : LifecycleStatus'[q] = IF q = r THEN s ELSE LifecycleStatus[q]
      BY <1>0, <2>1 DEF LifecycleStatus
    <2>3. LifecycleStatus' = [LifecycleStatus EXCEPT ![r] = s]
      BY <2>2 DEF LifecycleStatus
    <2> QED
      BY <1>0, <1>2, <2>3, StatusMap
  <1> QED
    BY <1>1, <1>2

\* A gate's verdict is a decision of the life cycle, or a stutter.
LEMMA VerdictDecides ==
    ASSUME IInv, NEW r \in RunIds, watch[r].pc # "off",
           NEW s \in {"queued", "skipped", "ci-failed"}, SetStatus(r, s),
           UNCHANGED <<issued, Executing>>
    PROVE  Lifecycle!Decide(r) \/ UNCHANGED Lifecycle!avars
  <1>1. r \in issued /\ s \in Statuses
    BY DEF IInv, UnissuedIsUnknown, Statuses
  <1>2. CASE runs[r] = NoRow
    BY <1>1, <1>2, SetStatusMap DEF Lifecycle!avars
  <1>3. CASE runs[r] # NoRow
    <2>1. runs[r].status = "pending_ci"
      BY <1>3 DEF IInv, WatchedIsPending, Is, PENDING_CI
    <2> QED
      BY <1>1, <1>3, <2>1, SetStatusMap DEF Lifecycle!Decide
  <1> QED
    BY <1>2, <1>3

\* set wakes loops that wait; it gives none of them a job and takes none away.
LEMMA PutKeepsExecuting ==
    ASSUME IInv, NEW r \in RunIds, watch[r].pc # "off", PutBack(r) \/ UNCHANGED worker
    PROVE  UNCHANGED Executing
  <1>1. \A w \in Workers : worker'[w].run = worker[w].run
    BY PutBackEffect
  <1> QED
    BY <1>1 DEF Executing

\* The head of _watch's loop decides a run, or changes nothing the life cycle sees.
LEMMA LoopHeadMaps ==
    ASSUME IInv, NEW r \in RunIds, watch[r].pc # "off", NEW n, LoopHead(r, n), UNCHANGED issued
    PROVE  Lifecycle!Decide(r) \/ UNCHANGED Lifecycle!avars
  <1>1. UNCHANGED Executing
    BY PutKeepsExecuting DEF LoopHead
  <1>2. CASE UNCHANGED runs
    BY <1>1, <1>2 DEF Lifecycle!avars, LifecycleStatus
  <1>3. CASE SetStatus(r, QUEUED)
    BY <1>1, <1>3, VerdictDecides DEF QUEUED
  <1> QED
    BY <1>2, <1>3 DEF LoopHead

\* Every step of a watcher is a decision of the life cycle, or a stutter.
LEMMA WatchingMaps ==
    ASSUME IInv, NEW r \in RunIds, Watching(r)
    PROVE  Lifecycle!Decide(r) \/ UNCHANGED Lifecycle!avars
  <1>0. /\ UNCHANGED issued /\ watch[r].pc # "off"
        /\ PutBack(r) \/ UNCHANGED worker
    BY DEF Watching, WatchStart, WatchRetry, WatchWakes, WatchLocked, PollFails, PollPasses,
           PollRejects, PollPending, LoopHead
  <1>1. UNCHANGED Executing
    BY <1>0, PutKeepsExecuting
  <1>2. CASE UNCHANGED runs
    BY <1>0, <1>1, <1>2 DEF Lifecycle!avars, LifecycleStatus
  <1>3. ASSUME NEW s \in {"queued", "skipped", "ci-failed"}, SetStatus(r, s)
        PROVE Lifecycle!Decide(r) \/ UNCHANGED Lifecycle!avars
    BY <1>0, <1>1, <1>3, VerdictDecides
  <1>4. \/ UNCHANGED runs
        \/ SetStatus(r, "queued") \/ SetStatus(r, "skipped") \/ SetStatus(r, "ci-failed")
    BY DEF Watching, WatchStart, WatchRetry, WatchWakes, WatchLocked, PollFails, PollPasses,
           PollRejects, PollPending, LoopHead, QUEUED, SKIPPED, CI_FAILED
  <1> QED
    BY <1>2, <1>3, <1>4

\* A new row is a submission; the rows a comment deletes are the runs it withdraws.
LEMMA RequestMaps ==
    ASSUME IInv, Request
    PROVE  \E r \in RunIds : Lifecycle!Submit(r)
  <1>1. PICK r \in RunIds, p \in PRs :
            \/ \E h \in Heads : Enqueue(r, p, h) \/ EnqueueLocked(r, p, h)
            \/ EnqueueComment(r, p)
    BY DEF Request
  <1>2. /\ r \notin issued /\ issued' = issued \cup {r}
        /\ Put(r) \/ UNCHANGED worker
    BY <1>1 DEF Enqueue, EnqueueLocked, EnqueueComment, volatile
  <1>3. \E h \in Heads \cup {NoHead} : runs'[r] = NewRow(p, h)
    BY <1>1 DEF Enqueue, EnqueueLocked, EnqueueComment, WithoutPR, IInv, TypeOK
  <1>4. \A q \in RunIds : q # r => runs'[q] \in {runs[q], NoRow}
    BY <1>1 DEF Enqueue, EnqueueLocked, EnqueueComment, WithoutPR, IInv, TypeOK
  <1>5. UNCHANGED Executing
    <2>1. \A w \in Workers : worker'[w].run = worker[w].run
      BY <1>2, PutEffect DEF IInv
    <2> QED
      BY <2>1 DEF Executing
  <1>6. runs'[r] # NoRow /\ runs'[r].status = "pending_ci"
    <2>1. PICK h \in Heads \cup {NoHead} : runs'[r] = NewRow(p, h)
      BY <1>3
    <2>2. NewRow(p, h) \in Rows
      BY DEF NewRow, Rows, Statuses, PENDING_CI
    <2> QED
      BY <2>1, <2>2, NoRowAssumption DEF NewRow, PENDING_CI
  <1> DEFINE W == {q \in RunIds \ {r} : runs[q] # NoRow /\ runs'[q] = NoRow}
  <1>7. \A q \in RunIds : LifecycleStatus'[q] = IF q = r THEN "pending_ci"
                                                ELSE IF q \in W THEN "withdrawn"
                                                ELSE LifecycleStatus[q]
    <2> SUFFICES ASSUME NEW q \in RunIds
                 PROVE LifecycleStatus'[q] = IF q = r THEN "pending_ci"
                                             ELSE IF q \in W THEN "withdrawn"
                                             ELSE LifecycleStatus[q]
      OBVIOUS
    <2>1. CASE q = r
      BY <1>6, <2>1 DEF LifecycleStatus
    <2>2. CASE q # r /\ runs'[q] = runs[q]
      <3>1. q \in issued' <=> q \in issued
        BY <1>2, <2>2
      <3> QED
        BY <2>2, <3>1 DEF LifecycleStatus
    <2>3. CASE q # r /\ runs'[q] # runs[q]
      <3>1. runs'[q] = NoRow /\ runs[q] # NoRow /\ q \in issued
        BY <1>4, <2>3, StatusMap
      <3> QED
        BY <1>2, <2>3, <3>1 DEF LifecycleStatus
    <2> QED
      BY <2>1, <2>2, <2>3
  <1>8. LifecycleStatus' = [q \in RunIds |-> IF q = r THEN "pending_ci"
                                             ELSE IF q \in W THEN "withdrawn"
                                             ELSE LifecycleStatus[q]]
    <2>1. LifecycleStatus' = [q \in RunIds |-> LifecycleStatus'[q]]
      BY DEF LifecycleStatus
    <2> QED
      BY <1>7, <2>1
  <1>9. W \in SUBSET {q \in RunIds : LifecycleStatus[q] # "unsubmitted"}
    BY StatusMap
  <1>10. LifecycleStatus[r] = "unsubmitted"
    BY <1>2, StatusMap
  <1>11. Lifecycle!Submit(r)
    BY <1>5, <1>8, <1>9, <1>10
       DEF Lifecycle!Submit, Lifecycle!UNSUBMITTED, Lifecycle!WITHDRAWN, PENDING_CI
  <1> QED
    BY <1>11

\* An execution's end.
LEMMA ExecutionEnds ==
    ASSUME IInv, NEW w \in Workers, worker[w].pc = "executing",
           NEW s \in {"queued", "failed", "skipped", "pending_approval"},
           SetStatus(worker[w].run, s),
           worker' = [worker EXCEPT ![w] = AtTop],
           UNCHANGED issued
    PROVE  Lifecycle!End(w)
  <1>1. /\ worker[w].run \in issued /\ worker[w].run \in RunIds /\ s \in Statuses
        /\ Executing[w] = worker[w].run /\ Executing[w] # NoRun
    BY DEF IInv, TypeOK, JobWhileExecuting, UnissuedIsUnknown, Executing, Statuses
  <1>2. Executing' = [Executing EXCEPT ![w] = NoRun]
    <2>1. \A v \in Workers : worker'[v].run = IF v = w THEN NoRun ELSE worker[v].run
      BY DEF AtTop, IInv, TypeOK
    <2> QED
      BY <2>1 DEF Executing
  <1>3. LifecycleStatus' = IF LifecycleStatus[Executing[w]] = "withdrawn" THEN LifecycleStatus
                           ELSE [LifecycleStatus EXCEPT ![Executing[w]] = s]
    BY <1>1, SetStatusMap
  <1> QED
    BY <1>1, <1>2, <1>3 DEF Lifecycle!End, Lifecycle!Change, Lifecycle!WITHDRAWN

\* Every step of a worker loop is a start, an end or an abandoned execution, or a
\* stutter.
LEMMA WorkingMaps ==
    ASSUME IInv, NEW w \in Workers, Working(w)
    PROVE  Lifecycle!ANext \/ UNCHANGED Lifecycle!avars
  <1>1. CASE Claim(w)
    <2>1. PICK k \in 1 .. Len(queue) :
              /\ Claimable(queue[k])
              /\ SetStatus(queue[k], RUNNING)
              /\ worker' = [worker EXCEPT ![w] = [pc |-> "executing", run |-> queue[k]]]
      BY <1>1 DEF Claim
    <2> DEFINE r == queue[k]
    <2>2. /\ r \in RunIds /\ r \in issued
          /\ runs[r] # NoRow /\ runs[r].status = "queued"
          /\ worker[w].pc = "top" /\ UNCHANGED issued
      BY <1>1, <2>1, StatusMap DEF IInv, TypeOK, Claimable, Is, QUEUED, Claim
    <2>3. /\ LifecycleStatus' = [LifecycleStatus EXCEPT ![r] = "running"]
          /\ LifecycleStatus[r] = "queued"
      BY <2>1, <2>2, SetStatusMap DEF RUNNING, Statuses
    <2>4. Executing[w] = NoRun
      BY <2>2 DEF IInv, JobWhileExecuting, Executing
    <2>5. \A v \in Workers : Executing[v] # r
      BY <2>2, ConstantsAssumption
         DEF IInv, JobWhileExecuting, ExecutionIsExclusive, Executing, Is, RUNNING
    <2>6. Executing' = [Executing EXCEPT ![w] = r]
      <3>1. \A v \in Workers : worker'[v].run = IF v = w THEN r ELSE worker[v].run
        BY <2>1 DEF IInv, TypeOK
      <3> QED
        BY <3>1 DEF Executing
    <2>7. Lifecycle!Start(w, r)
      BY <2>3, <2>4, <2>5, <2>6 DEF Lifecycle!Start
    <2> QED
      BY <2>2, <2>7 DEF Lifecycle!ANext
  <1>2. CASE DequeueNothing(w) \/ ClaimLocked(w) \/ WaitTimesOut(w) \/ IdleEnds(w)
    <2>1. /\ UNCHANGED <<runs, issued>>
          /\ \E x \in {"waiting", "dead", "idle", "top"} : worker' = [worker EXCEPT ![w].pc = x]
      BY <1>2 DEF DequeueNothing, ClaimLocked, WaitTimesOut, IdleEnds
    <2>2. \A v \in Workers : worker'[v].run = worker[v].run
      BY <2>1 DEF IInv, TypeOK
    <2> QED
      BY <2>1, <2>2 DEF Lifecycle!avars, LifecycleStatus, Executing
  <1>3. CASE Finish(w)
    <2>1. Lifecycle!End(w)
      BY <1>3, ExecutionEnds DEF Finish, SKIPPED, PENDING_APPROVAL, FAILED
    <2> QED
      BY <2>1 DEF Lifecycle!ANext
  <1>4. CASE Retry(w)
    <2>1. Lifecycle!End(w)
      BY <1>4, ExecutionEnds DEF Retry, QUEUED
    <2> QED
      BY <2>1 DEF Lifecycle!ANext
  <1>5. CASE Exhaust(w)
    <2>1. Lifecycle!End(w)
      BY <1>5, ExecutionEnds DEF Exhaust, FAILED
    <2> QED
      BY <2>1 DEF Lifecycle!ANext
  <1>6. CASE FinishLocked(w)
    <2>1. Executing[w] # NoRun
      BY <1>6 DEF FinishLocked, IInv, JobWhileExecuting, Executing
    <2>2. \A v \in Workers : worker'[v].run = IF v = w THEN NoRun ELSE worker[v].run
      BY <1>6 DEF FinishLocked, IInv, TypeOK
    <2>3. Executing' = [Executing EXCEPT ![w] = NoRun]
      BY <2>2 DEF Executing
    <2>4. UNCHANGED LifecycleStatus
      BY <1>6 DEF FinishLocked, LifecycleStatus
    <2>5. Lifecycle!Abandon(w)
      BY <2>1, <2>3, <2>4 DEF Lifecycle!Abandon
    <2> QED
      BY <2>5 DEF Lifecycle!ANext
  <1> QED
    BY <1>1, <1>2, <1>3, <1>4, <1>5, <1>6 DEF Working

\* A stop cuts off every execution.
LEMMA CrashMaps == ASSUME Crash PROVE Lifecycle!Stop
  BY DEF Crash, Lifecycle!Stop, LifecycleStatus, Executing, AtTop

\* The start-up sweep requeues what a stop cut off.
LEMMA BootMaps == ASSUME IInv, Boot PROVE Lifecycle!Recover
  <1>1. UNCHANGED <<issued, worker>> /\ runs' = Recovered /\ ~up
    BY DEF Boot
  <1>2. \A w \in Workers : Executing[w] = NoRun
    BY <1>1 DEF IInv, DownIsEmpty, AtTop, Executing
  <1>3. \A r \in RunIds : /\ ~Is(r, RUNNING) => runs'[r] = runs[r]
                          /\ Is(r, RUNNING) => runs'[r] = [runs[r] EXCEPT !.status = QUEUED]
    BY <1>1 DEF Recovered
  <1>4. \A r \in RunIds : LifecycleStatus'[r] =
          IF LifecycleStatus[r] = "running" THEN "queued" ELSE LifecycleStatus[r]
    <2> SUFFICES ASSUME NEW r \in RunIds
                 PROVE LifecycleStatus'[r] =
                         IF LifecycleStatus[r] = "running" THEN "queued" ELSE LifecycleStatus[r]
      OBVIOUS
    <2>1. CASE Is(r, RUNNING)
      <3>1. runs[r] \in Rows
        BY <2>1 DEF IInv, TypeOK, Is
      <3>2. runs'[r] \in Rows /\ runs'[r].status = "queued"
        BY <1>3, <2>1, <3>1 DEF Rows, QUEUED, Statuses
      <3>3. runs'[r] # NoRow
        BY <3>2, NoRowAssumption
      <3> QED
        BY <2>1, <3>2, <3>3 DEF LifecycleStatus, Is, RUNNING
    <2>2. CASE ~Is(r, RUNNING)
      <3>1. runs'[r] = runs[r]
        BY <1>3, <2>2
      <3>2. LifecycleStatus[r] # "running"
        BY <2>2, StatusMap DEF LifecycleStatus, Is, RUNNING
      <3> QED
        BY <1>1, <3>1, <3>2 DEF LifecycleStatus
    <2> QED
      BY <2>1, <2>2
  <1>5. LifecycleStatus' = [r \in RunIds |-> IF LifecycleStatus[r] = "running" THEN "queued"
                                             ELSE LifecycleStatus[r]]
    <2>1. LifecycleStatus' = [r \in RunIds |-> LifecycleStatus'[r]]
      BY DEF LifecycleStatus
    <2> QED
      BY <1>4, <2>1
  <1>6. Executing' = [w \in Workers |-> NoRun]
    BY <1>1, <1>2 DEF Executing
  <1> QED
    BY <1>5, <1>6 DEF Lifecycle!Recover

\* Every behaviour of queue, gate and workers is, run by run, a behaviour of the life
\* cycle: a run is executed only after it was admitted, by one worker, and its row is
\* never moved backwards except by a retry or by the start-up sweep.
THEOREM QueueImplementsLifecycle == Spec => ImplementsLifecycle
  <1>1. Init => Lifecycle!AInit
    BY DEF Init, Lifecycle!AInit, LifecycleStatus, Executing, AtTop, Lifecycle!UNSUBMITTED
  <1>2. IInv /\ [Next]_vars => [Lifecycle!ANext]_(Lifecycle!avars)
    <2> SUFFICES ASSUME IInv, [Next]_vars
                 PROVE  Lifecycle!ANext \/ UNCHANGED Lifecycle!avars
      OBVIOUS
    <2>1. CASE Request
      BY <2>1, RequestMaps DEF Lifecycle!ANext
    <2>2. CASE \E r \in RunIds : Watching(r)
      BY <2>2, WatchingMaps DEF Lifecycle!ANext
    <2>3. CASE \E w \in Workers : Working(w)
      BY <2>3, WorkingMaps
    <2>4. CASE Crash
      BY <2>4, CrashMaps DEF Lifecycle!ANext
    <2>5. CASE Boot
      BY <2>5, BootMaps DEF Lifecycle!ANext
    <2>6. CASE UNCHANGED vars
      BY <2>6 DEF vars, Lifecycle!avars, LifecycleStatus, Executing
    <2> QED
      BY <2>1, <2>2, <2>3, <2>4, <2>5, <2>6 DEF Next
  <1> QED
    BY <1>1, <1>2, InductiveInvariant, PTL DEF Spec, ImplementsLifecycle, Lifecycle!ASpec

(***************************************************************************)
(* Each run is watched as the gate's contract says                         *)
(***************************************************************************)

\* A run whose row and watcher a step leaves alone sees nothing of it.
LEMMA Unseen ==
    ASSUME NEW r \in RunIds, runs'[r] = runs[r], watch'[r] = watch[r],
           r \in issued' <=> r \in issued, UNCHANGED up
    PROVE  UNCHANGED Watch(r)!wvars
  BY DEF Watch!wvars, LifecycleStatus, WatchElapsed

\* What the contract is told of a run that has a watcher.
LEMMA WatchedRowMap ==
    ASSUME IInv, NEW r \in RunIds, watch[r].pc # "off"
    PROVE  /\ r \in issued /\ watch[r] \in [pc : WatchPcs, elapsed : 0 .. CapPolls]
           /\ runs[r] = NoRow => LifecycleStatus[r] = "withdrawn"
           /\ runs[r] # NoRow => LifecycleStatus[r] = "pending_ci" /\ Is(r, PENDING_CI)
  <1>1. r \in issued
    BY DEF IInv, UnissuedIsUnknown
  <1>2. watch[r] \in [pc : WatchPcs, elapsed : 0 .. CapPolls]
    BY DEF IInv, TypeOK
  <1>3. runs[r] # NoRow => Is(r, PENDING_CI)
    BY DEF IInv, WatchedIsPending
  <1> QED
    BY <1>1, <1>2, <1>3, StatusMap DEF Is, PENDING_CI

\* A write that ends the watcher is a verdict of the contract: it moves a pending row
\* and leaves a deleted one alone.
LEMMA VerdictSeen ==
    ASSUME IInv, NEW r \in RunIds, watch[r].pc # "off", NEW s \in Statuses, SetStatus(r, s),
           watch' = [watch EXCEPT ![r] = NotWatched], UNCHANGED issued
    PROVE  /\ Watch(r)!Gone /\ Watch(r)!Verdict(s)
           /\ UNCHANGED (runs[r] # NoRow /\ runs[r].head # NoHead)
  <1>1. watch'[r] = NotWatched
    BY DEF IInv, TypeOK
  <1>2. Watch(r)!Gone
    BY <1>1 DEF Watch!Gone, WatchElapsed, NotWatched
  <1>3. /\ runs'[r] = NoRow <=> runs[r] = NoRow
        /\ runs[r] # NoRow => runs'[r].status = s /\ runs'[r].head = runs[r].head
    BY SetStatusEffect DEF IInv
  <1>4. CASE runs[r] = NoRow
    <2>1. LifecycleStatus[r] = "withdrawn" /\ LifecycleStatus'[r] = "withdrawn"
      BY <1>3, <1>4, WatchedRowMap DEF LifecycleStatus
    <2> QED
      BY <1>2, <1>3, <1>4, <2>1 DEF Watch!Verdict, Watch!PENDING
  <1>5. CASE runs[r] # NoRow
    <2>1. LifecycleStatus[r] = "pending_ci" /\ LifecycleStatus'[r] = s
      BY <1>3, <1>5, WatchedRowMap DEF LifecycleStatus
    <2> QED
      BY <1>2, <1>3, <1>5, <2>1 DEF Watch!Verdict, Watch!PENDING
  <1> QED
    BY <1>4, <1>5

\* The head of the loop is the contract's.
LEMMA LoopHeadSeen ==
    ASSUME IInv, NEW r \in RunIds, watch[r].pc # "off", NEW n \in 0 .. CapPolls,
           LoopHead(r, n), UNCHANGED issued
    PROVE  /\ Watch(r)!LoopHead(n)
           /\ UNCHANGED (runs[r] # NoRow /\ runs[r].head # NoHead)
  <1>1. CASE ~Is(r, PENDING_CI)
    <2>1. watch' = [watch EXCEPT ![r] = NotWatched] /\ UNCHANGED runs
      BY <1>1 DEF LoopHead
    <2>2. watch'[r] = NotWatched
      BY <2>1 DEF IInv, TypeOK
    <2>3. runs[r] = NoRow
      BY <1>1, WatchedRowMap
    <2>4. LifecycleStatus[r] = "withdrawn" /\ LifecycleStatus'[r] = "withdrawn"
      BY <2>1, <2>3, WatchedRowMap DEF LifecycleStatus
    <2> QED
      BY <2>1, <2>2, <2>4
         DEF Watch!LoopHead, Watch!Gone, Watch!PENDING, WatchElapsed, NotWatched
  <1>2. CASE Is(r, PENDING_CI) /\ runs[r].head = NoHead
    <2>1. watch' = [watch EXCEPT ![r] = NotWatched] /\ SetStatus(r, QUEUED)
      BY <1>2 DEF LoopHead
    <2>2. /\ Watch(r)!Gone /\ Watch(r)!Verdict("queued")
          /\ UNCHANGED (runs[r] # NoRow /\ runs[r].head # NoHead)
      BY <2>1, VerdictSeen DEF QUEUED, Statuses
    <2>3. LifecycleStatus[r] = "pending_ci" /\ ~(runs[r] # NoRow /\ runs[r].head # NoHead)
      BY <1>2, WatchedRowMap DEF Is
    <2> QED
      BY <2>2, <2>3 DEF Watch!LoopHead, Watch!Verdict, Watch!PENDING
  <1>3. CASE Is(r, PENDING_CI) /\ runs[r].head # NoHead
    <2>1. watch' = [watch EXCEPT ![r] = [pc |-> "polling", elapsed |-> n]] /\ UNCHANGED runs
      BY <1>3 DEF LoopHead
    <2>2. watch'[r] = [pc |-> "polling", elapsed |-> n]
      BY <2>1 DEF IInv, TypeOK
    <2>3. LifecycleStatus[r] = "pending_ci" /\ LifecycleStatus'[r] = "pending_ci"
      BY <1>3, <2>1, WatchedRowMap DEF LifecycleStatus, Is
    <2> QED
      BY <1>3, <2>1, <2>2, <2>3 DEF Watch!LoopHead, Watch!PENDING, WatchElapsed, Is
  <1> QED
    BY <1>1, <1>2, <1>3

\* Every step of a run's own watcher is the contract's step of the same name.
LEMMA OwnWatcherSeen ==
    ASSUME IInv, up, NEW r \in RunIds, Watching(r)
    PROVE  Watch(r)!Watches
  <1>0. watch[r].pc # "off" /\ UNCHANGED <<issued, up>>
    BY DEF Watching, WatchStart, WatchRetry, WatchWakes, WatchLocked, PollFails, PollPasses,
           PollRejects, PollPending, LoopHead
  <1>1. /\ watch[r].elapsed \in 0 .. CapPolls
        /\ Watch(r)!Tick(watch[r].elapsed) = Tick(watch[r].elapsed)
        /\ watch \in [RunIds -> [pc : WatchPcs, elapsed : 0 .. CapPolls]]
    BY <1>0, WatchedRowMap DEF Watch!Tick, Tick, IInv, TypeOK
  <1>2. watch[r].pc # "top" => WatchElapsed(r) = watch[r].elapsed
    BY <1>0 DEF WatchElapsed
  <1> USE DEF Watch!Watches
  <1>3. CASE WatchStart(r)
    <2>1. 0 \in 0 .. CapPolls
      BY ConstantsAssumption
    <2>2. /\ Watch(r)!LoopHead(0)
          /\ UNCHANGED (runs[r] # NoRow /\ runs[r].head # NoHead)
      BY <1>0, <1>3, <2>1, LoopHeadSeen DEF WatchStart
    <2> QED
      BY <1>0, <1>3, <2>2 DEF WatchStart, Watch!Begins
  <1>4. CASE WatchRetry(r)
    <2>1. Tick(watch[r].elapsed) \in 0 .. CapPolls
      BY <1>1, TickBound
    <2>2. /\ Watch(r)!LoopHead(Tick(watch[r].elapsed))
          /\ UNCHANGED (runs[r] # NoRow /\ runs[r].head # NoHead)
      BY <1>0, <1>4, <2>1, LoopHeadSeen DEF WatchRetry
    <2>3. watch[r].pc = "backoff" /\ WatchElapsed(r) = watch[r].elapsed
      BY <1>2, <1>4 DEF WatchRetry
    <2>4. Watch(r)!Retries
      BY <1>1, <2>2, <2>3 DEF Watch!Retries
    <2> QED
      BY <1>0, <2>2, <2>4
  <1>5. CASE WatchWakes(r)
    <2>1. watch[r].pc = "waiting" /\ WatchElapsed(r) = watch[r].elapsed
      BY <1>2, <1>5 DEF WatchWakes
    <2>2. CASE Tick(watch[r].elapsed) >= CapPolls /\ SetStatus(r, SKIPPED)
               /\ watch' = [watch EXCEPT ![r] = NotWatched]
      <3>1. /\ Watch(r)!Gone /\ Watch(r)!Verdict("skipped")
            /\ UNCHANGED (runs[r] # NoRow /\ runs[r].head # NoHead)
        BY <1>0, <2>2, VerdictSeen DEF SKIPPED, Statuses
      <3>2. Watch(r)!GivesUp
        BY <1>1, <2>1, <2>2, <3>1 DEF Watch!GivesUp
      <3> QED
        BY <1>0, <3>1, <3>2
    <2>3. CASE Tick(watch[r].elapsed) < CapPolls /\ LoopHead(r, Tick(watch[r].elapsed))
      <3>1. Tick(watch[r].elapsed) \in 0 .. CapPolls
        BY <1>1, TickBound
      <3>2. /\ Watch(r)!LoopHead(Tick(watch[r].elapsed))
            /\ UNCHANGED (runs[r] # NoRow /\ runs[r].head # NoHead)
        BY <1>0, <2>3, <3>1, LoopHeadSeen
      <3>3. Watch(r)!Wakes
        BY <1>1, <2>1, <2>3, <3>2 DEF Watch!Wakes
      <3> QED
        BY <1>0, <3>2, <3>3
    <2> QED
      BY <1>5, <2>2, <2>3 DEF WatchWakes
  <1>6. CASE WatchLocked(r)
    <2>1. watch'[r] = NotWatched /\ UNCHANGED runs
      BY <1>1, <1>6 DEF WatchLocked
    <2>2. Watch(r)!Dies
      BY <1>0, <2>1 DEF Watch!Dies, Watch!Gone, WatchElapsed, NotWatched, LifecycleStatus
    <2> QED
      BY <1>0, <2>1, <2>2
  <1>7. CASE PollFails(r)
    <2>1. /\ watch[r].pc = "polling" /\ UNCHANGED runs
          /\ watch'[r].pc = "backoff" /\ watch'[r].elapsed = watch[r].elapsed
      BY <1>1, <1>7 DEF PollFails
    <2>2. Watch(r)!PollFails
      BY <1>0, <2>1 DEF Watch!PollFails, WatchElapsed, LifecycleStatus
    <2> QED
      BY <1>0, <2>1, <2>2
  <1>8. CASE PollPasses(r)
    <2>1. /\ Watch(r)!Gone /\ Watch(r)!Verdict("queued")
          /\ UNCHANGED (runs[r] # NoRow /\ runs[r].head # NoHead)
      BY <1>0, <1>8, VerdictSeen DEF PollPasses, QUEUED, Statuses
    <2>2. Watch(r)!Passes
      BY <1>8, <2>1 DEF PollPasses, Watch!Passes
    <2> QED
      BY <1>0, <2>1, <2>2
  <1>9. CASE PollRejects(r)
    <2>1. /\ Watch(r)!Gone /\ Watch(r)!Verdict("ci-failed")
          /\ UNCHANGED (runs[r] # NoRow /\ runs[r].head # NoHead)
      BY <1>0, <1>9, VerdictSeen DEF PollRejects, CI_FAILED, Statuses
    <2>2. Watch(r)!Rejects
      BY <1>9, <2>1 DEF PollRejects, Watch!Rejects
    <2> QED
      BY <1>0, <2>1, <2>2
  <1>10. CASE PollPending(r)
    <2>1. watch[r].pc = "polling" /\ WatchElapsed(r) = watch[r].elapsed
      BY <1>2, <1>10 DEF PollPending
    <2>2. CASE watch[r].elapsed >= CapPolls /\ SetStatus(r, SKIPPED)
               /\ watch' = [watch EXCEPT ![r] = NotWatched]
      <3>1. /\ Watch(r)!Gone /\ Watch(r)!Verdict("skipped")
            /\ UNCHANGED (runs[r] # NoRow /\ runs[r].head # NoHead)
        BY <1>0, <2>2, VerdictSeen DEF SKIPPED, Statuses
      <3>2. Watch(r)!GivesUp
        BY <2>1, <2>2, <3>1 DEF Watch!GivesUp
      <3> QED
        BY <1>0, <3>1, <3>2
    <2>3. CASE watch[r].elapsed < CapPolls /\ watch' = [watch EXCEPT ![r].pc = "waiting"]
               /\ UNCHANGED runs
      <3>1. watch'[r].pc = "waiting" /\ watch'[r].elapsed = watch[r].elapsed
        BY <1>1, <2>3
      <3>2. Watch(r)!Sleeps
        BY <1>0, <2>1, <2>3, <3>1 DEF Watch!Sleeps, WatchElapsed, LifecycleStatus
      <3> QED
        BY <1>0, <2>3, <3>2
    <2> QED
      BY <1>10, <2>2, <2>3 DEF PollPending
  <1> QED
    BY <1>3, <1>4, <1>5, <1>6, <1>7, <1>8, <1>9, <1>10 DEF Watching

\* A watcher touches the row and the task of its own run only.
LEMMA OtherWatcherUnseen ==
    ASSUME IInv, NEW q \in RunIds, Watching(q), NEW r \in RunIds \ {q}
    PROVE  UNCHANGED Watch(r)!wvars
  <1>1. UNCHANGED <<issued, up>>
    BY DEF Watching, WatchStart, WatchRetry, WatchWakes, WatchLocked, PollFails, PollPasses,
           PollRejects, PollPending
  <1>2. watch'[r] = watch[r]
    BY DEF Watching, WatchStart, WatchRetry, WatchWakes, WatchLocked, PollFails, PollPasses,
           PollRejects, PollPending, LoopHead, IInv, TypeOK
  <1>3. \/ UNCHANGED runs
        \/ \E s \in Statuses : SetStatus(q, s)
    BY DEF Watching, WatchStart, WatchRetry, WatchWakes, WatchLocked, PollFails, PollPasses,
           PollRejects, PollPending, LoopHead, QUEUED, SKIPPED, CI_FAILED, Statuses
  <1>4. runs'[r] = runs[r]
    BY <1>3, SetStatusEffect DEF IInv
  <1> QED
    BY <1>1, <1>2, <1>4, Unseen

\* A request submits one run, withdraws those a comment deletes, and is not seen by
\* the others.
LEMMA RequestSeen ==
    ASSUME IInv, Request, NEW r \in RunIds
    PROVE  Watch(r)!WNext \/ UNCHANGED Watch(r)!wvars
  <1>1. PICK q \in RunIds, p \in PRs :
            \/ \E h \in Heads : Enqueue(q, p, h) \/ EnqueueLocked(q, p, h)
            \/ EnqueueComment(q, p)
    BY DEF Request
  <1>2. q \notin issued /\ issued' = issued \cup {q} /\ up /\ UNCHANGED up
    BY <1>1 DEF Enqueue, EnqueueLocked, EnqueueComment
  <1>3. \E h \in Heads \cup {NoHead} : runs'[q] = NewRow(p, h)
    BY <1>1 DEF Enqueue, EnqueueLocked, EnqueueComment, WithoutPR, IInv, TypeOK
  <1>4. /\ watch'[q] = FreshWatch \/ watch'[q] = watch[q]
        /\ \A x \in RunIds : x # q => watch'[x] = watch[x]
    BY <1>1 DEF Enqueue, EnqueueLocked, EnqueueComment, IInv, TypeOK, volatile
  <1>5. \A x \in RunIds : x # q => runs'[x] \in {runs[x], NoRow}
    BY <1>1 DEF Enqueue, EnqueueLocked, EnqueueComment, WithoutPR, IInv, TypeOK
  <1>6. CASE r = q
    <2>1. runs'[r] # NoRow /\ runs'[r].status = "pending_ci"
      <3>1. PICK h \in Heads \cup {NoHead} : runs'[r] = NewRow(p, h)
        BY <1>3, <1>6
      <3>2. NewRow(p, h) \in Rows
        BY DEF NewRow, Rows, Statuses, PENDING_CI
      <3> QED
        BY <3>1, <3>2, NoRowAssumption DEF NewRow, PENDING_CI
    <2>2. LifecycleStatus[r] = "unsubmitted" /\ LifecycleStatus'[r] = "pending_ci"
      BY <1>2, <1>6, <2>1, StatusMap DEF LifecycleStatus
    <2>3. watch[r].pc = "off"
      BY <1>2, <1>6 DEF IInv, UnissuedIsUnknown
    <2>4. watch'[r].pc \in {"top", "off"} /\ WatchElapsed(r)' = 0
      BY <1>4, <1>6, <2>3 DEF FreshWatch, WatchElapsed
    <2>5. (runs[r] # NoRow /\ runs[r].head # NoHead)' \in BOOLEAN
      OBVIOUS
    <2>6. Watch(r)!Submitted
      BY <1>2, <2>2, <2>4, <2>5 DEF Watch!Submitted, Watch!UNSUBMITTED, Watch!PENDING
    <2> QED
      BY <2>6 DEF Watch!WNext
  <1>7. CASE r # q /\ runs'[r] = runs[r]
    <2>1. r \in issued' <=> r \in issued
      BY <1>2, <1>7
    <2> QED
      BY <1>2, <1>4, <1>7, <2>1, Unseen
  <1>8. CASE r # q /\ runs'[r] # runs[r]
    <2>1. runs'[r] = NoRow /\ runs[r] # NoRow
      BY <1>5, <1>8
    <2>2. LifecycleStatus[r] # "unsubmitted" /\ LifecycleStatus'[r] = "withdrawn"
      BY <1>2, <2>1, StatusMap DEF LifecycleStatus
    <2>3. watch'[r].pc = watch[r].pc /\ WatchElapsed(r)' = WatchElapsed(r)
      BY <1>4, <1>8 DEF WatchElapsed
    <2>4. (runs[r] # NoRow /\ runs[r].head # NoHead)' = FALSE
      BY <2>1
    <2>5. Watch(r)!Withdrawn
      BY <1>2, <2>2, <2>3, <2>4 DEF Watch!Withdrawn, Watch!UNSUBMITTED, Watch!WITHDRAWN
    <2> QED
      BY <2>5 DEF Watch!WNext
  <1> QED
    BY <1>6, <1>7, <1>8

\* A loop's write moves a run that is past the gate and has no watcher.
LEMMA LoopWriteSeen ==
    ASSUME IInv, NEW q \in RunIds, watch[q].pc = "off",
           runs[q] = NoRow \/ Is(q, QUEUED) \/ Is(q, RUNNING),
           NEW s \in Statuses \ {PENDING_CI}, SetStatus(q, s),
           UNCHANGED <<issued, up, watch>>, NEW r \in RunIds
    PROVE  Watch(r)!MovesOn \/ UNCHANGED Watch(r)!wvars
  <1>1. /\ \A x \in RunIds : x # q => runs'[x] = runs[x]
        /\ runs'[q] = NoRow <=> runs[q] = NoRow
        /\ runs[q] # NoRow => runs'[q].status = s /\ runs'[q].head = runs[q].head
    BY SetStatusEffect DEF IInv
  <1>2. CASE r # q \/ runs'[r] = runs[r]
    BY <1>1, <1>2, Unseen
  <1>3. CASE r = q /\ runs'[r] # runs[r]
    <2>1. runs[r] # NoRow
      BY <1>3 DEF SetStatus
    <2>2. /\ LifecycleStatus[r] \in {"queued", "running"}
          /\ LifecycleStatus'[r] = s
      BY <1>1, <1>3, <2>1 DEF LifecycleStatus, Is, QUEUED, RUNNING
    <2>3. s \notin {"unsubmitted", "withdrawn", "pending_ci"}
      BY DEF Statuses, PENDING_CI
    <2>4. UNCHANGED (runs[r] # NoRow /\ runs[r].head # NoHead) /\ UNCHANGED WatchElapsed(r)
      BY <1>1, <1>3, <2>1 DEF WatchElapsed
    <2> QED
      BY <1>3, <2>2, <2>3, <2>4
         DEF Watch!MovesOn, Watch!UNSUBMITTED, Watch!PENDING, Watch!WITHDRAWN
  <1> QED
    BY <1>2, <1>3

\* No step of a worker loop touches a row that waits at the gate.
LEMMA WorkingSeen ==
    ASSUME IInv, NEW w \in Workers, Working(w), NEW r \in RunIds
    PROVE  Watch(r)!MovesOn \/ UNCHANGED Watch(r)!wvars
  <1>0. UNCHANGED <<issued, up, watch>>
    BY DEF Working, Claim, DequeueNothing, ClaimLocked, WaitTimesOut, IdleEnds, Finish, Retry,
           Exhaust, FinishLocked
  <1>1. CASE Claim(w)
    <2>1. PICK k \in 1 .. Len(queue) : Claimable(queue[k]) /\ SetStatus(queue[k], RUNNING)
      BY <1>1 DEF Claim
    <2>2. queue[k] \in RunIds /\ Is(queue[k], QUEUED)
      BY <2>1 DEF IInv, TypeOK, Claimable
    <2>3. watch[queue[k]].pc = "off"
      BY <2>2 DEF IInv, WatchedIsPending, Is, QUEUED, PENDING_CI
    <2>4. RUNNING \in Statuses \ {PENDING_CI}
      BY DEF RUNNING, Statuses, PENDING_CI
    <2> QED
      BY <1>0, <2>1, <2>2, <2>3, <2>4, LoopWriteSeen
  <1>2. CASE UNCHANGED runs
    BY <1>0, <1>2, Unseen
  <1>3. ASSUME worker[w].pc = "executing",
               NEW s \in Statuses \ {PENDING_CI}, SetStatus(worker[w].run, s)
        PROVE  Watch(r)!MovesOn \/ UNCHANGED Watch(r)!wvars
    <2>1. worker[w].run \in RunIds /\ watch[worker[w].run].pc = "off"
      BY <1>3 DEF IInv, TypeOK, JobWhileExecuting, ExecutedIsHeldOnce
    <2>2. runs[worker[w].run] = NoRow \/ Is(worker[w].run, RUNNING)
      BY <1>3 DEF IInv, ExecutionIsExclusive
    <2> QED
      BY <1>0, <1>3, <2>1, <2>2, LoopWriteSeen
  <1>4. CASE Finish(w) \/ Retry(w) \/ Exhaust(w)
    <2>1. /\ worker[w].pc = "executing"
          /\ \E s \in Statuses \ {PENDING_CI} : SetStatus(worker[w].run, s)
      BY <1>4 DEF Finish, Retry, Exhaust, SKIPPED, PENDING_APPROVAL, FAILED, QUEUED, Statuses,
                  PENDING_CI
    <2> QED
      BY <1>3, <2>1
  <1> QED
    BY <1>1, <1>2, <1>4
       DEF Working, DequeueNothing, ClaimLocked, WaitTimesOut, IdleEnds, FinishLocked

\* A stop ends every watcher and touches no row.
LEMMA CrashSeen ==
    ASSUME Crash, NEW r \in RunIds
    PROVE  Watch(r)!Stops
  <1>1. watch'[r] = NotWatched /\ up' = FALSE /\ UNCHANGED <<runs, issued>>
    BY DEF Crash
  <1> QED
    BY <1>1 DEF Watch!Stops, Watch!Gone, WatchElapsed, NotWatched, LifecycleStatus

\* The start-up sweep gives every pending run a new watcher and requeues what was
\* running.
LEMMA BootSeen ==
    ASSUME IInv, Boot, NEW r \in RunIds
    PROVE  Watch(r)!Starts
  <1>1. /\ ~up /\ up' = TRUE /\ UNCHANGED issued
        /\ watch'[r] = IF Is(r, PENDING_CI) THEN FreshWatch ELSE NotWatched
        /\ ~Is(r, RUNNING) => runs'[r] = runs[r]
        /\ Is(r, RUNNING) => runs'[r] = [runs[r] EXCEPT !.status = QUEUED]
    BY DEF Boot, Recovered
  <1>2. CASE Is(r, RUNNING)
    <2>1. runs[r] \in Rows
      BY <1>2 DEF IInv, TypeOK, Is
    <2>2. runs'[r] \in Rows /\ runs'[r].status = "queued" /\ runs'[r].head = runs[r].head
      BY <1>1, <1>2, <2>1 DEF Rows, QUEUED, Statuses
    <2>3. runs'[r] # NoRow /\ runs[r] # NoRow
      BY <1>2, <2>2, NoRowAssumption DEF Is
    <2>4. LifecycleStatus[r] = "running" /\ LifecycleStatus'[r] = "queued"
      BY <1>2, <2>2, <2>3 DEF LifecycleStatus, Is, RUNNING
    <2>5. watch'[r] = NotWatched
      BY <1>1, <1>2 DEF Is, RUNNING, PENDING_CI
    <2> QED
      BY <1>1, <2>2, <2>3, <2>4, <2>5 DEF Watch!Starts, Watch!PENDING, WatchElapsed, NotWatched
  <1>3. CASE ~Is(r, RUNNING)
    <2>1. LifecycleStatus[r] # "running" /\ LifecycleStatus'[r] = LifecycleStatus[r]
      BY <1>1, <1>3, StatusMap DEF LifecycleStatus, Is, RUNNING
    <2>2. Is(r, PENDING_CI) <=> LifecycleStatus[r] = "pending_ci"
      BY StatusMap DEF LifecycleStatus, Is, PENDING_CI
    <2> QED
      BY <1>1, <1>3, <2>1, <2>2
         DEF Watch!Starts, Watch!PENDING, WatchElapsed, NotWatched, FreshWatch
  <1> QED
    BY <1>2, <1>3

\* Whatever the other runs, the queue, the loops and the database do, each run is
\* watched as CiGate describes it: what is proved there of one gate holds of every run
\* of the table.
THEOREM RunsAreWatched == Spec => EachRunIsWatched
  <1>1. Init => \A r \in RunIds : Watch(r)!WInit
    BY DEF Init, Watch!WInit, LifecycleStatus, WatchElapsed, NotWatched, Watch!UNSUBMITTED
  <1>2. IInv /\ [Next]_vars => [\A r \in RunIds : [Watch(r)!WNext]_(Watch(r)!wvars)]_vars
    <2> SUFFICES ASSUME IInv, [Next]_vars, NEW r \in RunIds
                 PROVE  Watch(r)!WNext \/ UNCHANGED Watch(r)!wvars
      OBVIOUS
    <2>1. CASE Request
      BY <2>1, RequestSeen
    <2>2. CASE up /\ \E q \in RunIds : Watching(q)
      <3>1. PICK q \in RunIds : Watching(q)
        BY <2>2
      <3> QED
        BY <2>2, <3>1, OwnWatcherSeen, OtherWatcherUnseen DEF Watch!WNext
    <2>3. CASE \E w \in Workers : Working(w)
      BY <2>3, WorkingSeen DEF Watch!WNext
    <2>4. CASE Crash
      BY <2>4, CrashSeen DEF Watch!WNext
    <2>5. CASE Boot
      BY <2>5, BootSeen DEF Watch!WNext
    <2>6. CASE UNCHANGED vars
      BY <2>6, Unseen DEF vars
    <2> QED
      BY <2>1, <2>2, <2>3, <2>4, <2>5, <2>6 DEF Next
  <1> QED
    BY <1>1, <1>2, InductiveInvariant, PTL DEF Spec, EachRunIsWatched

=============================================================================
