-------------------------- MODULE CloneCacheProofs --------------------------
(***************************************************************************)
(* The clone cache, proved for any number of loops, repositories and heads *)
(* and every cap on the disk.                                              *)
(***************************************************************************)
EXTENDS CloneCache, TLAPS

\* One ensure at a time blocks the event loop.
OneAtATime == \A v, w \in Workers : task[v].pc \in Blocking /\ task[w].pc \in Blocking => v = w

\* A loop that is in ensure, or has its checkout, has a repository and a head.
TasksAreNamed == \A w \in Workers : task[w].pc # "idle" => task[w].repo \in Repos /\ task[w].head \in Heads

\* What the steps of ensure have found or made of the repository of loop w.
Fits(w) ==
    /\ task[w].pc \in {"cloning", "registering"} => rows[task[w].repo] = NoRow
    /\ task[w].pc = "registering" => disk[task[w].repo] = "default"
    /\ task[w].pc \in Blocking \ {"cloning", "registering"} => rows[task[w].repo] # NoRow
    /\ task[w].pc \in {"touching", "checkout"} => disk[task[w].repo] \notin {"absent", "broken"}
    /\ task[w].pc \in {"measuring", "dropping"} => disk[task[w].repo] = task[w].head

\* The entry whose directory loop w removed is the oldest, and the disk was full with it.
VictimIsDue(w) ==
    task[w].pc = "dropping" =>
        /\ victim \in Evictable(w)
        /\ \A s \in Evictable(w) : rows[victim] <= rows[s]
        /\ Present \cup {victim} \notin Fitting

CacheInv ==
    /\ CacheTypeOK
    /\ OneAtATime
    /\ TasksAreNamed
    /\ \A w \in Workers : Fits(w)
    /\ \A w \in Workers : VictimIsDue(w)
    /\ RowsHaveClones
    /\ UndisturbedReadsItsHead

-----------------------------------------------------------------------------
(* What the helpers change *)

\* The repository and the head are kept from one phase to the next.
LEMMA GoesFacts ==
    ASSUME CacheTypeOK, NEW w \in Workers, NEW s, Goes(w, s)
    PROVE  /\ task'[w] = [pc |-> s, repo |-> task[w].repo, head |-> task[w].head]
           /\ \A v \in Workers \ {w} : task'[v] = task[v]
  BY DEF CacheTypeOK, Goes

LEMMA RaisesFacts ==
    ASSUME CacheTypeOK, NEW w \in Workers, Raises(w)
    PROVE  task'[w] = Idle /\ \A v \in Workers \ {w} : task'[v] = task[v]
  BY DEF CacheTypeOK, Raises

\* One directory changes, under the loops that are noted in moved.
LEMMA BecomesFacts ==
    ASSUME CacheTypeOK, NEW w \in Workers, NEW r \in Repos, NEW d \in Heads \cup Tracks, Becomes(w, r, d)
    PROVE  /\ disk' \in [Repos -> Heads \cup Tracks]
           /\ disk'[r] = d
           /\ \A s \in Repos \ {r} : disk'[s] = disk[s]
           /\ moved' \in SUBSET Workers
           /\ moved \subseteq moved'
           /\ \A v \in Workers \ {w} : task[v].repo = r /\ v \notin moved' => task[v].head = d
  BY DEF CacheTypeOK, Becomes

LEMMA StampFacts ==
    ASSUME CacheTypeOK, NEW r \in Repos, Stamp(r)
    PROVE  /\ rows' \in [Repos -> {NoRow} \cup 0 .. MaxTime]
           /\ clock' \in 0 .. MaxTime
           /\ rows'[r] # NoRow
           /\ \A s \in Repos \ {r} : rows'[s] = rows[s]
  BY CacheAssumption DEF CacheTypeOK, Stamp, NoRow

\* While one loop is in ensure, the others are idle or have their checkout.
LEMMA OthersWait ==
    ASSUME CacheTypeOK, OneAtATime, NEW w \in Workers, task[w].pc \in Blocking
    PROVE  \A v \in Workers \ {w} : task[v].pc \in {"idle", "ready"}
  BY DEF CacheTypeOK, OneAtATime

\* The phases between the first and the last, and those outside of ensure.
LEMMA PhaseFacts ==
    /\ Idle.pc = "idle"
    /\ "idle" \notin Blocking /\ "ready" \notin Blocking
    /\ {"cloning", "registering", "fetching", "touching", "checkout", "measuring", "dropping"} = Blocking
  BY DEF Idle, Blocking

\* A task with another phase, and the idle one, are tasks.
LEMMA TaskTypes ==
    ASSUME CacheTypeOK, NEW w \in Workers
    PROVE  /\ \A s \in Blocking \cup {"idle", "ready"} : Goes(w, s) =>
                task' \in [Workers -> [pc : Blocking \cup {"idle", "ready"}, repo : Repos \cup {NoRepo},
                                       head : Heads \cup {NoHead}]]
           /\ Raises(w) =>
                task' \in [Workers -> [pc : Blocking \cup {"idle", "ready"}, repo : Repos \cup {NoRepo},
                                       head : Heads \cup {NoHead}]]
  BY DEF CacheTypeOK, Goes, Raises, Idle

-----------------------------------------------------------------------------
(* What every step of an ensure keeps *)

\* The others of a loop in ensure have nothing to keep but their checkouts.
LEMMA OthersFit ==
    ASSUME CacheInv, NEW w \in Workers, task[w].pc \in Blocking,
           \A v \in Workers \ {w} : task'[v] = task[v]
    PROVE  /\ OneAtATime'
           /\ \A v \in Workers \ {w} : Fits(v)' /\ VictimIsDue(v)'
           /\ (task'[w].pc # "idle" => task'[w].repo \in Repos /\ task'[w].head \in Heads) => TasksAreNamed'
  <1>1. \A v \in Workers \ {w} : task'[v].pc \in {"idle", "ready"}
    BY OthersWait DEF CacheInv
  <1>2. OneAtATime'
    BY <1>1, PhaseFacts DEF OneAtATime
  <1>3. ASSUME NEW v \in Workers \ {w} PROVE Fits(v)' /\ VictimIsDue(v)'
    BY <1>1, <1>3, PhaseFacts DEF Fits, VictimIsDue
  <1>4. ASSUME task'[w].pc # "idle" => task'[w].repo \in Repos /\ task'[w].head \in Heads
        PROVE  TasksAreNamed'
    BY <1>4 DEF CacheInv, TasksAreNamed
  <1> QED
    BY <1>2, <1>3, <1>4

\* The checkouts of the others are undisturbed, or noted.
LEMMA OthersRead ==
    ASSUME CacheInv, NEW w \in Workers, \A v \in Workers \ {w} : task'[v] = task[v],
           \/ UNCHANGED <<disk, moved>>
           \/ \E r \in Repos, d \in Heads \cup Tracks : Becomes(w, r, d),
           task'[w].pc = "ready" => disk'[task'[w].repo] = task'[w].head
    PROVE  UndisturbedReadsItsHead'
  <1> SUFFICES ASSUME NEW v \in Workers, task'[v].pc = "ready", v \notin moved'
               PROVE  disk'[task'[v].repo] = task'[v].head
    BY DEF UndisturbedReadsItsHead
  <1>1. CASE v = w
    BY <1>1
  <1>2. CASE v # w /\ UNCHANGED <<disk, moved>>
    BY <1>2 DEF CacheInv, UndisturbedReadsItsHead
  <1>3. ASSUME v # w, NEW r \in Repos, NEW d \in Heads \cup Tracks, Becomes(w, r, d)
        PROVE  disk'[task'[v].repo] = task'[v].head
    <2>1. task'[v] = task[v] /\ task[v].repo \in Repos
      BY <1>3 DEF CacheInv, TasksAreNamed
    <2>2. /\ disk'[r] = d
          /\ \A s \in Repos \ {r} : disk'[s] = disk[s]
          /\ moved \subseteq moved'
          /\ task[v].repo = r => task[v].head = d
      BY <1>3, BecomesFacts DEF CacheInv
    <2> QED
      BY <2>1, <2>2 DEF CacheInv, UndisturbedReadsItsHead
  <1> QED
    BY <1>1, <1>2, <1>3

-----------------------------------------------------------------------------
(* The steps of ensure *)

LEMMA LookKeeps ==
    ASSUME CacheInv, NEW w \in Workers, NEW r \in Repos, NEW h \in Heads, Look(w, r, h)
    PROVE  CacheInv'
  <1>0. CacheTypeOK /\ ~Blocked
    BY DEF CacheInv, Look
  <1>1. /\ task'[w] = [pc |-> IF rows[r] = NoRow THEN "cloning" ELSE "fetching", repo |-> r, head |-> h]
        /\ \A v \in Workers \ {w} : task'[v] = task[v] /\ task[v].pc \notin Blocking
    BY <1>0 DEF Look, CacheTypeOK, Blocked
  <1>2. task'[w].pc \in {"cloning", "fetching"} /\ task'[w].repo = r /\ task'[w].head = h
    BY <1>1
  <1>3. CacheTypeOK'
    <2>1. task' = [task EXCEPT ![w] = [pc |-> IF rows[r] = NoRow THEN "cloning" ELSE "fetching",
                                       repo |-> r, head |-> h]]
      BY DEF Look
    <2>2. [pc |-> IF rows[r] = NoRow THEN "cloning" ELSE "fetching", repo |-> r, head |-> h]
            \in [pc : Blocking \cup {"idle", "ready"}, repo : Repos \cup {NoRepo},
                 head : Heads \cup {NoHead}]
      BY DEF Blocking
    <2>3. moved' \in SUBSET Workers
      BY <1>0 DEF Look, CacheTypeOK
    <2> QED
      BY <1>0, <2>1, <2>2, <2>3 DEF Look, CacheTypeOK
  <1>4. OneAtATime'
    BY <1>1, PhaseFacts DEF OneAtATime
  <1>5. TasksAreNamed'
    BY <1>1, <1>2 DEF CacheInv, TasksAreNamed
  <1>6. ASSUME NEW v \in Workers PROVE Fits(v)' /\ VictimIsDue(v)'
    <2>1. CASE v = w
      <3>1. rows' = rows
        BY DEF Look
      <3>2. CASE rows[r] = NoRow /\ task'[w].pc = "cloning"
        BY <1>2, <2>1, <3>1, <3>2 DEF Fits, VictimIsDue
      <3>3. CASE rows[r] # NoRow /\ task'[w].pc = "fetching"
        BY <1>2, <2>1, <3>1, <3>3 DEF Fits, VictimIsDue
      <3> QED
        BY <1>1, <3>2, <3>3
    <2>2. CASE v # w
      <3>1. task'[v].pc \notin Blocking
        BY <1>1, <2>2
      <3> QED
        BY <3>1, PhaseFacts DEF Fits, VictimIsDue
    <2> QED
      BY <2>1, <2>2
  <1>7. RowsHaveClones'
    <2>1. \A s \in Known \ torn : Whole(s)
      BY <1>0, PhaseFacts DEF CacheInv, RowsHaveClones, Blocked
    <2> QED
      BY <2>1 DEF Look, RowsHaveClones, Known, Whole
  <1>8. UndisturbedReadsItsHead'
    BY <1>1, <1>2 DEF Look, CacheInv, UndisturbedReadsItsHead
  <1> QED
    BY <1>3, <1>4, <1>5, <1>6, <1>7, <1>8 DEF CacheInv

\* A step of ensure of loop w keeps the invariant if it keeps what is left to show.
LEMMA StepKeeps ==
    ASSUME CacheInv, NEW w \in Workers, task[w].pc \in Blocking,
           \A v \in Workers \ {w} : task'[v] = task[v],
           task'[w] = Idle
              \/ (task'[w].repo = task[w].repo /\ task'[w].head = task[w].head),
           \/ UNCHANGED <<disk, moved>>
           \/ \E r \in Repos, d \in Heads \cup Tracks : Becomes(w, r, d),
           task'[w].pc = "ready" => disk'[task'[w].repo] = task'[w].head,
           CacheTypeOK', Fits(w)', VictimIsDue(w)', RowsHaveClones'
    PROVE  CacheInv'
  <1>1. task'[w].pc # "idle" => task'[w].repo \in Repos /\ task'[w].head \in Heads
    BY PhaseFacts DEF CacheInv, TasksAreNamed
  <1>2. OneAtATime' /\ TasksAreNamed' /\ \A v \in Workers \ {w} : Fits(v)' /\ VictimIsDue(v)'
    BY <1>1, OthersFit
  <1>3. UndisturbedReadsItsHead'
    BY OthersRead
  <1>4. \A v \in Workers : Fits(v)'
    BY <1>2
  <1>5. \A v \in Workers : VictimIsDue(v)'
    BY <1>2
  <1> QED
    BY <1>2, <1>3, <1>4, <1>5 DEF CacheInv

\* As long as no row is about to go, every row that was not torn has a clone.
LEMMA RowsAreWhole ==
    ASSUME CacheInv, \A w \in Workers : task[w].pc # "dropping"
    PROVE  \A s \in Known \ torn : Whole(s)
  BY DEF CacheInv, RowsHaveClones

\* What holds of the task of a loop in ensure.
LEMMA TaskFacts ==
    ASSUME CacheInv, NEW w \in Workers, task[w].pc \in Blocking
    PROVE  /\ task[w].repo \in Repos /\ task[w].head \in Heads
           /\ CacheTypeOK
           /\ Fits(w) /\ VictimIsDue(w)
           /\ \A v \in Workers \ {w} : task[v].pc \in {"idle", "ready"}
           /\ task[w].pc # "dropping" => \A s \in Known \ torn : Whole(s)
  <1>1. \A v \in Workers \ {w} : task[v].pc \in {"idle", "ready"}
    BY OthersWait DEF CacheInv
  <1>2. task[w].pc # "idle"
    BY PhaseFacts
  <1>3. task[w].pc # "dropping" => \A s \in Known \ torn : Whole(s)
    BY <1>1, RowsAreWhole
  <1> QED
    BY <1>1, <1>2, <1>3 DEF CacheInv, TasksAreNamed

LEMMA CloneDoneKeeps ==
    ASSUME CacheInv, NEW w \in Workers, CloneDone(w)
    PROVE  CacheInv'
  <1> DEFINE r == task[w].repo
  <1>1. task[w].pc = "cloning" /\ task[w].pc \in Blocking
    BY PhaseFacts DEF CloneDone
  <1>2. /\ r \in Repos /\ CacheTypeOK /\ rows[r] = NoRow
        /\ \A s \in Known \ torn : Whole(s)
    BY <1>1, TaskFacts DEF Fits
  <1>3. /\ task'[w] = [pc |-> "registering", repo |-> r, head |-> task[w].head]
        /\ \A v \in Workers \ {w} : task'[v] = task[v]
    BY <1>2, GoesFacts DEF CloneDone
  <1>4. "default" \in Heads \cup Tracks /\ Becomes(w, r, "default")
    BY DEF CloneDone, Tracks
  <1>5. /\ disk' \in [Repos -> Heads \cup Tracks] /\ disk'[r] = "default"
        /\ \A s \in Repos \ {r} : disk'[s] = disk[s]
        /\ moved' \in SUBSET Workers
    BY <1>2, <1>4, BecomesFacts
  <1>6. CacheTypeOK'
    BY <1>1, <1>2, <1>5, PhaseFacts, TaskTypes DEF CloneDone, CacheTypeOK
  <1>7. Fits(w)' /\ VictimIsDue(w)'
    BY <1>2, <1>3, <1>5 DEF CloneDone, Fits, VictimIsDue
  <1>8. RowsHaveClones'
    BY <1>2, <1>5 DEF CloneDone, RowsHaveClones, Known, Whole
  <1> QED
    BY <1>1, <1>2, <1>3, <1>4, <1>6, <1>7, <1>8, StepKeeps

LEMMA CloneFailsKeeps ==
    ASSUME CacheInv, NEW w \in Workers, CloneFails(w)
    PROVE  CacheInv'
  <1> DEFINE r == task[w].repo
  <1>1. task[w].pc = "cloning" /\ task[w].pc \in Blocking
    BY PhaseFacts DEF CloneFails
  <1>2. /\ r \in Repos /\ CacheTypeOK /\ rows[r] = NoRow
        /\ \A s \in Known \ torn : Whole(s)
    BY <1>1, TaskFacts DEF Fits
  <1>3. task'[w] = Idle /\ \A v \in Workers \ {w} : task'[v] = task[v]
    BY <1>2, RaisesFacts DEF CloneFails
  <1>4. PICK d \in Heads \cup Tracks : Becomes(w, r, d)
    BY DEF CloneFails, Tracks
  <1>5. /\ disk' \in [Repos -> Heads \cup Tracks]
        /\ \A s \in Repos \ {r} : disk'[s] = disk[s]
        /\ moved' \in SUBSET Workers
    BY <1>2, <1>4, BecomesFacts
  <1>6. CacheTypeOK'
    BY <1>2, <1>5, TaskTypes DEF CloneFails, CacheTypeOK
  <1>7. task'[w].pc = "idle"
    BY <1>3, PhaseFacts
  <1>8. Fits(w)' /\ VictimIsDue(w)'
    BY <1>7, PhaseFacts DEF Fits, VictimIsDue
  <1>9. RowsHaveClones'
    BY <1>2, <1>5 DEF CloneFails, RowsHaveClones, Known, Whole
  <1> QED
    BY <1>1, <1>2, <1>3, <1>4, <1>6, <1>7, <1>8, <1>9, StepKeeps

LEMMA PutRowKeeps ==
    ASSUME CacheInv, NEW w \in Workers, PutRow(w)
    PROVE  CacheInv'
  <1> DEFINE r == task[w].repo
  <1>1. task[w].pc = "registering" /\ task[w].pc \in Blocking
    BY PhaseFacts DEF PutRow
  <1>2. /\ r \in Repos /\ CacheTypeOK /\ disk[r] = "default"
        /\ \A s \in Known \ torn : Whole(s)
    BY <1>1, TaskFacts DEF Fits
  <1>3. /\ task'[w] = [pc |-> "checkout", repo |-> r, head |-> task[w].head]
        /\ \A v \in Workers \ {w} : task'[v] = task[v]
    BY <1>2, GoesFacts DEF PutRow
  <1>4. /\ rows' \in [Repos -> {NoRow} \cup 0 .. MaxTime] /\ clock' \in 0 .. MaxTime
        /\ rows'[r] # NoRow /\ \A s \in Repos \ {r} : rows'[s] = rows[s]
    BY <1>2, StampFacts DEF PutRow
  <1>5. CacheTypeOK'
    BY <1>2, <1>4, PhaseFacts, TaskTypes DEF PutRow, CacheTypeOK
  <1>6. Fits(w)' /\ VictimIsDue(w)'
    BY <1>2, <1>3, <1>4 DEF PutRow, Fits, VictimIsDue
  <1>7. RowsHaveClones'
    BY <1>2, <1>4 DEF PutRow, RowsHaveClones, Known, Whole
  <1>8. UNCHANGED <<disk, moved>>
    BY DEF PutRow
  <1> QED
    BY <1>1, <1>3, <1>5, <1>6, <1>7, <1>8, StepKeeps

LEMMA FetchDoneKeeps ==
    ASSUME CacheInv, NEW w \in Workers, FetchDone(w)
    PROVE  CacheInv'
  <1> DEFINE r == task[w].repo
  <1>1. task[w].pc = "fetching" /\ task[w].pc \in Blocking
    BY PhaseFacts DEF FetchDone
  <1>2. /\ r \in Repos /\ CacheTypeOK /\ rows[r] # NoRow
        /\ \A s \in Known \ torn : Whole(s)
    BY <1>1, TaskFacts DEF Fits
  <1>3. /\ task'[w] = [pc |-> "touching", repo |-> r, head |-> task[w].head]
        /\ \A v \in Workers \ {w} : task'[v] = task[v]
    BY <1>2, GoesFacts DEF FetchDone
  <1>4. CacheTypeOK'
    BY <1>2, PhaseFacts, TaskTypes DEF FetchDone, CacheTypeOK
  <1>5. Fits(w)' /\ VictimIsDue(w)'
    BY <1>2, <1>3 DEF FetchDone, Fits, VictimIsDue
  <1>6. RowsHaveClones'
    BY <1>2 DEF FetchDone, RowsHaveClones, Known, Whole
  <1>7. UNCHANGED <<disk, moved>>
    BY DEF FetchDone
  <1> QED
    BY <1>1, <1>3, <1>4, <1>5, <1>6, <1>7, StepKeeps

LEMMA TouchKeeps ==
    ASSUME CacheInv, NEW w \in Workers, Touch(w)
    PROVE  CacheInv'
  <1> DEFINE r == task[w].repo
  <1>1. task[w].pc = "touching" /\ task[w].pc \in Blocking
    BY PhaseFacts DEF Touch
  <1>2. /\ r \in Repos /\ CacheTypeOK /\ rows[r] # NoRow /\ disk[r] \notin {"absent", "broken"}
        /\ \A s \in Known \ torn : Whole(s)
    BY <1>1, TaskFacts DEF Fits
  <1>3. /\ task'[w] = [pc |-> "checkout", repo |-> r, head |-> task[w].head]
        /\ \A v \in Workers \ {w} : task'[v] = task[v]
    BY <1>2, GoesFacts DEF Touch
  <1>4. /\ rows' \in [Repos -> {NoRow} \cup 0 .. MaxTime] /\ clock' \in 0 .. MaxTime
        /\ rows'[r] # NoRow /\ \A s \in Repos \ {r} : rows'[s] = rows[s]
    BY <1>2, StampFacts DEF Touch
  <1>5. CacheTypeOK'
    BY <1>2, <1>4, PhaseFacts, TaskTypes DEF Touch, CacheTypeOK
  <1>6. Fits(w)' /\ VictimIsDue(w)'
    BY <1>2, <1>3, <1>4 DEF Touch, Fits, VictimIsDue
  <1>7. RowsHaveClones'
    BY <1>2, <1>4 DEF Touch, RowsHaveClones, Known, Whole
  <1>8. UNCHANGED <<disk, moved>>
    BY DEF Touch
  <1> QED
    BY <1>1, <1>3, <1>5, <1>6, <1>7, <1>8, StepKeeps

LEMMA CheckoutDoneKeeps ==
    ASSUME CacheInv, NEW w \in Workers, CheckoutDone(w)
    PROVE  CacheInv'
  <1> DEFINE r == task[w].repo
             h == task[w].head
  <1>1. task[w].pc = "checkout" /\ task[w].pc \in Blocking
    BY PhaseFacts DEF CheckoutDone
  <1>2. /\ r \in Repos /\ h \in Heads /\ CacheTypeOK /\ rows[r] # NoRow
        /\ \A s \in Known \ torn : Whole(s)
    BY <1>1, TaskFacts, PhaseFacts DEF Fits
  <1>3. /\ task'[w] = [pc |-> "measuring", repo |-> r, head |-> h]
        /\ \A v \in Workers \ {w} : task'[v] = task[v]
    BY <1>2, GoesFacts DEF CheckoutDone
  <1>4. Becomes(w, r, h)
    BY DEF CheckoutDone
  <1>5. /\ disk' \in [Repos -> Heads \cup Tracks] /\ disk'[r] = h
        /\ \A s \in Repos \ {r} : disk'[s] = disk[s]
        /\ moved' \in SUBSET Workers
    BY <1>2, <1>4, BecomesFacts
  <1>6. CacheTypeOK'
    BY <1>2, <1>5, PhaseFacts, TaskTypes DEF CheckoutDone, CacheTypeOK
  <1>7. Fits(w)' /\ VictimIsDue(w)'
    BY <1>2, <1>3, <1>5 DEF CheckoutDone, Fits, VictimIsDue
  <1>8. h \notin Tracks
    BY <1>2, CacheAssumption
  <1>9. RowsHaveClones'
    BY <1>2, <1>5, <1>8 DEF CheckoutDone, RowsHaveClones, Known, Whole, Tracks
  <1> QED
    BY <1>1, <1>2, <1>3, <1>4, <1>6, <1>7, <1>9, StepKeeps

\* The failures that change nothing but the task, and the end of ensure.
LEMMA QuietStepsKeep ==
    ASSUME CacheInv, NEW w \in Workers,
           FetchFails(w) \/ CheckoutFails(w) \/ MeasureFails(w) \/ EnsureReturns(w)
    PROVE  CacheInv'
  <1>1. /\ task[w].pc \in Blocking /\ task[w].pc # "dropping"
        /\ UNCHANGED <<rows, disk, clock, victim, moved, torn>>
    BY PhaseFacts DEF FetchFails, CheckoutFails, MeasureFails, EnsureReturns
  <1>2. /\ task[w].repo \in Repos /\ CacheTypeOK
        /\ task[w].pc = "measuring" => disk[task[w].repo] = task[w].head
        /\ \A s \in Known \ torn : Whole(s)
    BY <1>1, TaskFacts DEF Fits
  <1>3. \/ Raises(w)
        \/ Goes(w, "ready") /\ task[w].pc = "measuring"
    BY DEF FetchFails, CheckoutFails, MeasureFails, EnsureReturns
  <1>4. /\ \/ task'[w] = Idle
           \/ task'[w] = [pc |-> "ready", repo |-> task[w].repo, head |-> task[w].head]
        /\ \A v \in Workers \ {w} : task'[v] = task[v]
    BY <1>2, <1>3, RaisesFacts, GoesFacts
  <1>5. CacheTypeOK'
    BY <1>1, <1>2, <1>3, TaskTypes DEF CacheTypeOK
  <1>6. task'[w].pc \in {"idle", "ready"}
    BY <1>4, PhaseFacts
  <1>7. Fits(w)' /\ VictimIsDue(w)'
    BY <1>6, PhaseFacts DEF Fits, VictimIsDue
  <1>8. RowsHaveClones'
    BY <1>1, <1>2 DEF RowsHaveClones, Known, Whole
  <1>9. task'[w].pc = "ready" => disk'[task'[w].repo] = task'[w].head
    <2>1. CASE Raises(w)
      <3>1. task'[w] = Idle
        BY <1>2, <2>1, RaisesFacts
      <3> QED
        BY <3>1 DEF Idle
    <2>2. CASE Goes(w, "ready") /\ task[w].pc = "measuring"
      <3>1. task'[w] = [pc |-> "ready", repo |-> task[w].repo, head |-> task[w].head]
        BY <1>2, <2>2, GoesFacts
      <3> QED
        BY <1>1, <1>2, <2>2, <3>1
    <2> QED
      BY <1>3, <2>1, <2>2
  <1> QED
    BY <1>1, <1>4, <1>5, <1>7, <1>8, <1>9, StepKeeps

LEMMA RemoveDirKeeps ==
    ASSUME CacheInv, NEW w \in Workers, RemoveDir(w)
    PROVE  CacheInv'
  <1> DEFINE r == task[w].repo
  <1>1. task[w].pc = "measuring" /\ task[w].pc \in Blocking
    BY PhaseFacts DEF RemoveDir
  <1>2. /\ r \in Repos /\ CacheTypeOK /\ rows[r] # NoRow /\ disk[r] = task[w].head
        /\ \A s \in Known \ torn : Whole(s)
    BY <1>1, TaskFacts DEF Fits
  <1>3. /\ task'[w] = [pc |-> "dropping", repo |-> r, head |-> task[w].head]
        /\ \A v \in Workers \ {w} : task'[v] = task[v]
    BY <1>2, GoesFacts DEF RemoveDir
  <1>4. PICK q \in Evictable(w), d \in {"absent", "broken"} :
           /\ \A s \in Evictable(w) : rows[q] <= rows[s]
           /\ Becomes(w, q, d)
           /\ victim' = q
    BY DEF RemoveDir, Oldest
  <1>5. q \in Repos /\ q # r /\ rows[q] # NoRow /\ d \in Heads \cup Tracks
    BY DEF Evictable, Known, Tracks
  <1>6. /\ disk' \in [Repos -> Heads \cup Tracks] /\ disk'[q] = d
        /\ \A s \in Repos \ {q} : disk'[s] = disk[s]
        /\ moved' \in SUBSET Workers
    BY <1>2, <1>4, <1>5, BecomesFacts
  <1>7. CacheTypeOK'
    BY <1>2, <1>4, <1>5, <1>6, PhaseFacts, TaskTypes DEF RemoveDir, CacheTypeOK
  <1>8. Fits(w)'
    BY <1>2, <1>3, <1>5, <1>6 DEF RemoveDir, Fits
  <1>9. VictimIsDue(w)'
    <2>1. rows' = rows /\ task'[w].repo = r
      BY <1>3 DEF RemoveDir
    <2>2. Evictable(w)' = Evictable(w)
      BY <2>1 DEF Evictable, Known
    <2>3. Present \notin Fitting /\ Present \subseteq Repos
      BY DEF RemoveDir, UnderCap, Present
    <2>4. Present \subseteq Present' \cup {q}
      BY <1>6 DEF Present
    <2>5. Present' \cup {q} \notin Fitting
      BY <2>3, <2>4, CacheAssumption
    <2> QED
      BY <1>4, <2>1, <2>2, <2>5 DEF VictimIsDue
  <1>10. RowsHaveClones'
    <2> SUFFICES ASSUME NEW s \in Known' \ torn', s # q
                 PROVE  Whole(s)'
      BY <1>3, <1>4 DEF RowsHaveClones
    <2>1. s \in Known \ torn /\ s \in Repos
      BY DEF RemoveDir, Known
    <2> QED
      BY <1>2, <1>6, <2>1 DEF Whole
  <1> QED
    BY <1>1, <1>2, <1>3, <1>4, <1>5, <1>7, <1>8, <1>9, <1>10, StepKeeps

\* Between the directory and its row every other row has its clone.
LEMMA OnlyTheVictimIsGone ==
    ASSUME CacheInv, NEW w \in Workers, task[w].pc \in Blocking
    PROVE  \A s \in Known \ torn : Whole(s) \/ (task[w].pc = "dropping" /\ s = victim)
  <1>1. \A v \in Workers : task[v].pc = "dropping" => v = w
    BY TaskFacts
  <1> QED
    BY <1>1 DEF CacheInv, RowsHaveClones

LEMMA DropRowKeeps ==
    ASSUME CacheInv, NEW w \in Workers, DropRow(w)
    PROVE  CacheInv'
  <1> DEFINE r == task[w].repo
  <1>1. task[w].pc = "dropping" /\ task[w].pc \in Blocking
    BY PhaseFacts DEF DropRow
  <1>2. /\ r \in Repos /\ CacheTypeOK /\ rows[r] # NoRow /\ disk[r] = task[w].head
        /\ victim \in Repos /\ victim # r
    BY <1>1, TaskFacts, PhaseFacts DEF Fits, VictimIsDue, Evictable, Known
  <1>3. /\ task'[w] = [pc |-> "measuring", repo |-> r, head |-> task[w].head]
        /\ \A v \in Workers \ {w} : task'[v] = task[v]
    BY <1>2, GoesFacts DEF DropRow
  <1>4. /\ rows' \in [Repos -> {NoRow} \cup 0 .. MaxTime] /\ rows'[victim] = NoRow
        /\ \A s \in Repos \ {victim} : rows'[s] = rows[s]
    BY <1>2 DEF DropRow, CacheTypeOK
  <1>5. CacheTypeOK'
    BY <1>2, <1>4, PhaseFacts, TaskTypes DEF DropRow, CacheTypeOK
  <1>6. Fits(w)' /\ VictimIsDue(w)'
    BY <1>2, <1>3, <1>4 DEF DropRow, Fits, VictimIsDue
  <1>7. RowsHaveClones'
    <2> SUFFICES ASSUME NEW s \in Known' \ torn'
                 PROVE  Whole(s)'
      BY DEF RowsHaveClones
    <2>1. s \in Known \ torn /\ s # victim
      BY <1>2, <1>4 DEF DropRow, Known
    <2> QED
      BY <1>1, <2>1, OnlyTheVictimIsGone DEF DropRow, Whole
  <1>8. UNCHANGED <<disk, moved>>
    BY DEF DropRow
  <1> QED
    BY <1>1, <1>3, <1>5, <1>6, <1>7, <1>8, StepKeeps

LEMMA LockedKeeps ==
    ASSUME CacheInv, NEW w \in Workers, Locked(w)
    PROVE  CacheInv'
  <1>1. task[w].pc \in Blocking
    BY PhaseFacts DEF Locked
  <1>2. CacheTypeOK /\ (task[w].pc = "dropping" => victim \in Repos)
    BY <1>1, TaskFacts DEF VictimIsDue, Evictable, Known
  <1>3. task'[w] = Idle /\ \A v \in Workers \ {w} : task'[v] = task[v]
    BY <1>2, RaisesFacts DEF Locked
  <1>4. torn' \in SUBSET Repos /\ torn \subseteq torn' /\ (task[w].pc = "dropping" => victim \in torn')
    BY <1>2 DEF Locked, CacheTypeOK
  <1>5. CacheTypeOK'
    BY <1>2, <1>4, TaskTypes DEF Locked, CacheTypeOK
  <1>6. task'[w].pc = "idle"
    BY <1>3, PhaseFacts
  <1>7. Fits(w)' /\ VictimIsDue(w)'
    BY <1>6, PhaseFacts DEF Fits, VictimIsDue
  <1>8. RowsHaveClones'
    <2> SUFFICES ASSUME NEW s \in Known' \ torn'
                 PROVE  Whole(s)'
      BY DEF RowsHaveClones
    <2>1. s \in Known \ torn /\ (task[w].pc = "dropping" => s # victim)
      BY <1>4 DEF Locked, Known
    <2> QED
      BY <1>1, <2>1, OnlyTheVictimIsGone DEF Locked, Whole
  <1>9. UNCHANGED <<disk, moved>>
    BY DEF Locked
  <1> QED
    BY <1>1, <1>3, <1>5, <1>6, <1>7, <1>8, <1>9, StepKeeps

-----------------------------------------------------------------------------
(* The steps outside of ensure *)

LEMMA LeaveKeeps ==
    ASSUME CacheInv, NEW w \in Workers, Leave(w)
    PROVE  CacheInv'
  <1>0. /\ CacheTypeOK /\ \A v \in Workers : task[v].pc \notin Blocking
        /\ UNCHANGED <<rows, disk, clock, victim, moved, torn>>
    BY DEF CacheInv, Leave, Blocked
  <1>1. task'[w] = Idle /\ \A v \in Workers \ {w} : task'[v] = task[v]
    BY <1>0 DEF Leave, CacheTypeOK
  <1>2. CacheTypeOK'
    BY <1>0 DEF Leave, CacheTypeOK, Idle
  <1>3. \A v \in Workers : task'[v].pc \notin Blocking
    BY <1>0, <1>1, PhaseFacts
  <1>4. OneAtATime' /\ \A v \in Workers : Fits(v)' /\ VictimIsDue(v)'
    BY <1>3, PhaseFacts DEF OneAtATime, Fits, VictimIsDue
  <1>5. TasksAreNamed'
    BY <1>1, PhaseFacts DEF CacheInv, TasksAreNamed
  <1>6. RowsHaveClones'
    <2>1. \A s \in Known \ torn : Whole(s)
      BY <1>0, PhaseFacts, RowsAreWhole
    <2> QED
      BY <1>0, <2>1 DEF RowsHaveClones, Known, Whole
  <1>7. UndisturbedReadsItsHead'
    <2>1. task'[w].pc = "idle"
      BY <1>1, PhaseFacts
    <2> QED
      BY <1>0, <1>1, <2>1 DEF CacheInv, UndisturbedReadsItsHead
  <1> QED
    BY <1>2, <1>4, <1>5, <1>6, <1>7 DEF CacheInv

\* A stop leaves nothing worse than a row that it notes.
LEMMA StopTears ==
    ASSUME CacheInv, CacheStops
    PROVE  /\ disk' \in [Repos -> Heads \cup Tracks]
           /\ torn' \in SUBSET Repos
           /\ \A s \in Known \ torn' : disk'[s] \notin {"absent", "broken", "stuck"}
  <1>1. CASE ~Blocked /\ UNCHANGED <<disk, torn>>
    <2>1. \A s \in Known \ torn : Whole(s)
      BY <1>1, PhaseFacts, RowsAreWhole DEF Blocked
    <2> QED
      BY <1>1, <2>1 DEF CacheInv, CacheTypeOK, Whole
  <1>2. ASSUME NEW w \in Workers, task[w].pc \in Blocking, NEW d \in CutOff(w),
               disk' = [disk EXCEPT ![task[w].repo] = d], torn' = torn \cup TornBy(w, d)
        PROVE  /\ disk' \in [Repos -> Heads \cup Tracks]
               /\ torn' \in SUBSET Repos
               /\ \A s \in Known \ torn' : disk'[s] \notin {"absent", "broken", "stuck"}
    <2> DEFINE r == task[w].repo
    <2>1. /\ r \in Repos /\ task[w].head \in Heads /\ CacheTypeOK
          /\ task[w].pc = "cloning" => rows[r] = NoRow
          /\ task[w].pc = "dropping" => victim \in Repos
          /\ \A s \in Known \ torn : Whole(s) \/ (task[w].pc = "dropping" /\ s = victim)
      BY <1>2, TaskFacts, OnlyTheVictimIsGone DEF Fits, VictimIsDue, Evictable, Known
    <2>2. disk \in [Repos -> Heads \cup Tracks] /\ torn \in SUBSET Repos
      BY <2>1 DEF CacheTypeOK
    <2>3. /\ d \in Heads \cup Tracks
          /\ d \in {disk[r], "stuck", task[w].head} \/ task[w].pc = "cloning"
      BY <1>2, <2>1, <2>2 DEF CutOff, Tracks
    <2>4. /\ torn \subseteq torn' /\ torn' \in SUBSET Repos
          /\ task[w].pc = "dropping" => victim \in torn'
          /\ d = "stuck" => r \in torn'
      BY <1>2, <2>1, <2>2 DEF TornBy
    <2>5. /\ disk' \in [Repos -> Heads \cup Tracks] /\ disk'[r] = d
          /\ \A s \in Repos \ {r} : disk'[s] = disk[s]
      BY <1>2, <2>1, <2>2, <2>3
    <2>6. task[w].head \notin Tracks
      BY <2>1, CacheAssumption
    <2>7. ASSUME NEW s \in Known \ torn'
          PROVE  disk'[s] \notin {"absent", "broken", "stuck"}
      <3>1. s \in Repos /\ rows[s] # NoRow /\ Whole(s)
        BY <2>1, <2>4, <2>7 DEF Known
      <3>2. CASE s # r
        BY <2>5, <3>1, <3>2 DEF Whole
      <3>3. CASE s = r
        <4>1. d \in {disk[r], task[w].head}
          BY <2>1, <2>3, <2>4, <2>7, <3>1, <3>3
        <4> QED
          BY <2>5, <2>6, <3>1, <3>3, <4>1 DEF Whole, Tracks
      <3> QED
        BY <3>2, <3>3
    <2> QED
      BY <2>4, <2>5, <2>7
  <1> QED
    BY <1>1, <1>2 DEF CacheStops

LEMMA CacheStopsKeeps ==
    ASSUME CacheInv, CacheStops
    PROVE  CacheInv'
  <1>1. /\ CacheTypeOK
        /\ task' = [w \in Workers |-> Idle] /\ victim' = NoRepo /\ moved' = {}
        /\ UNCHANGED <<rows, clock>>
    BY DEF CacheInv, CacheStops
  <1>2. /\ disk' \in [Repos -> Heads \cup Tracks]
        /\ torn' \in SUBSET Repos
        /\ \A s \in Known \ torn' : disk'[s] \notin {"absent", "broken", "stuck"}
    BY StopTears
  <1>3. CacheTypeOK'
    BY <1>1, <1>2 DEF CacheTypeOK, Idle
  <1>4. \A w \in Workers : task'[w].pc = "idle"
    BY <1>1, PhaseFacts
  <1>5. RowsHaveClones'
    BY <1>1, <1>2 DEF RowsHaveClones, Known, Whole
  <1> QED
    BY <1>3, <1>4, <1>5, PhaseFacts
    DEF CacheInv, OneAtATime, TasksAreNamed, Fits, VictimIsDue, UndisturbedReadsItsHead

\* Whatever clones of earlier days there are, the invariant holds at first.
LEMMA CacheBegins == CacheInit => CacheInv
  <1> SUFFICES ASSUME CacheInit PROVE CacheInv
    OBVIOUS
  <1>1. CacheTypeOK
    BY CacheAssumption DEF CacheInit, CacheTypeOK, Idle, Tracks, NoRow
  <1>2. \A w \in Workers : task[w].pc = "idle"
    BY PhaseFacts DEF CacheInit
  <1>3. RowsHaveClones
    BY DEF CacheInit, RowsHaveClones, Known, Whole
  <1> QED
    BY <1>1, <1>2, <1>3, PhaseFacts
    DEF CacheInv, OneAtATime, TasksAreNamed, Fits, VictimIsDue, UndisturbedReadsItsHead

LEMMA CacheStutters == CacheInv /\ UNCHANGED cache => CacheInv'
  <1> SUFFICES ASSUME CacheInv, UNCHANGED cache PROVE CacheInv'
    OBVIOUS
  <1>1. UNCHANGED <<rows, disk, clock, task, victim, moved, torn>>
    BY DEF cache
  <1>2. CacheTypeOK' /\ OneAtATime' /\ TasksAreNamed'
    BY <1>1 DEF CacheInv, CacheTypeOK, OneAtATime, TasksAreNamed
  <1>3. \A w \in Workers : Fits(w)' /\ VictimIsDue(w)'
    BY <1>1 DEF CacheInv, Fits, VictimIsDue, Evictable, Known, Present
  <1>4. RowsHaveClones' /\ UndisturbedReadsItsHead'
    BY <1>1 DEF CacheInv, RowsHaveClones, UndisturbedReadsItsHead, Known, Whole
  <1> QED
    BY <1>2, <1>3, <1>4 DEF CacheInv

\* Every step keeps the invariant.
LEMMA CacheKeeps == CacheInv /\ [CacheNext]_cache => CacheInv'
  <1> SUFFICES ASSUME CacheInv, CacheNext PROVE CacheInv'
    BY CacheStutters
  <1>1. ASSUME NEW w \in Workers, NEW r \in Repos, NEW h \in Heads, Look(w, r, h) PROVE CacheInv'
    BY <1>1, LookKeeps
  <1>2. ASSUME NEW w \in Workers, EnsureStep(w) PROVE CacheInv'
    BY <1>2, CloneDoneKeeps, PutRowKeeps, FetchDoneKeeps, TouchKeeps, CheckoutDoneKeeps,
       RemoveDirKeeps, DropRowKeeps DEF EnsureStep
  <1>3. ASSUME NEW w \in Workers, EnsureFails(w) \/ EnsureReturns(w) PROVE CacheInv'
    BY <1>3, CloneFailsKeeps, QuietStepsKeep, LockedKeeps DEF EnsureFails
  <1>4. ASSUME NEW w \in Workers, Leave(w) PROVE CacheInv'
    BY <1>4, LeaveKeeps
  <1> QED
    BY <1>1, <1>2, <1>3, <1>4, CacheStopsKeeps DEF CacheNext

THEOREM CacheInvariant == CacheSpec => []CacheInv
  BY CacheBegins, CacheKeeps, PTL DEF CacheSpec

-----------------------------------------------------------------------------
(* Theorems *)

\* Every variable of the cache keeps its type.
THEOREM CacheTypeCorrect == CacheSpec => []CacheTypeOK
  <1>1. CacheInv => CacheTypeOK
    BY DEF CacheInv
  <1> QED
    BY <1>1, CacheInvariant, PTL

\* A row without a usable clone is the work of a stop or a locked database, for every
\* number of repositories and whatever git does.
THEOREM ClonesAreThere == CacheSpec => []RowsHaveClones
  <1>1. CacheInv => RowsHaveClones
    BY DEF CacheInv
  <1> QED
    BY <1>1, CacheInvariant, PTL

\* An execution reads the head it asked for unless another one moved its checkout.
THEOREM UndisturbedReadsAreRight == CacheSpec => []UndisturbedReadsItsHead
  <1>1. CacheInv => UndisturbedReadsItsHead
    BY DEF CacheInv
  <1> QED
    BY <1>1, CacheInvariant, PTL

\* A step that gives an entry up is the end of an eviction that was due.
EvictsNow ==
    \A q \in Known : rows'[q] = NoRow =>
      /\ Present \cup {q} \notin Fitting
      /\ \A s \in Known : rows[s] < rows[q] =>
           \E w \in Workers : task[w].pc = "dropping" /\ task[w].repo = s

LEMMA OnlyDropRowDrops ==
    ASSUME CacheInv, CacheNext, NEW q \in Known, rows'[q] = NoRow
    PROVE  \E w \in Workers : DropRow(w) /\ q = victim
  <1>0. CacheTypeOK /\ q \in Repos /\ rows[q] # NoRow
    BY DEF CacheInv, Known
  <1>1. CASE UNCHANGED rows
    BY <1>0, <1>1
  <1>2. ASSUME NEW r \in Repos, Stamp(r) PROVE FALSE
    BY <1>0, <1>2, StampFacts
  <1>3. ASSUME NEW w \in Workers, PutRow(w) \/ Touch(w) PROVE FALSE
    <2>1. task[w].pc \in Blocking /\ Stamp(task[w].repo)
      BY <1>3, PhaseFacts DEF PutRow, Touch
    <2> QED
      BY <1>2, <2>1, TaskFacts
  <1>4. ASSUME NEW w \in Workers, DropRow(w) PROVE q = victim
    <2>1. rows' = [rows EXCEPT ![victim] = NoRow]
      BY <1>4 DEF DropRow
    <2> QED
      BY <1>0, <2>1 DEF CacheTypeOK
  <1>5. UNCHANGED rows \/ \E w \in Workers : PutRow(w) \/ Touch(w) \/ DropRow(w)
    BY DEF CacheNext, EnsureStep, EnsureFails, Look, CloneDone, FetchDone, CheckoutDone, RemoveDir,
           CloneFails, FetchFails, CheckoutFails, MeasureFails, Locked, EnsureReturns, Leave, CacheStops
  <1> QED
    BY <1>1, <1>3, <1>4, <1>5

\* An entry is given up only for want of room, and only the one used least recently, for
\* every cap and every order of uses.
THEOREM EvictionIsDue == CacheSpec => EvictsWhatItMust
  <1>1. CacheInv /\ [CacheNext]_cache => [EvictsNow]_cache
    <2> SUFFICES ASSUME CacheInv, CacheNext, NEW q \in Known, rows'[q] = NoRow
                 PROVE  /\ Present \cup {q} \notin Fitting
                        /\ \A s \in Known : rows[s] < rows[q] =>
                             \E w \in Workers : task[w].pc = "dropping" /\ task[w].repo = s
      BY DEF EvictsNow
    <2>1. PICK w \in Workers : DropRow(w) /\ q = victim
      BY OnlyDropRowDrops
    <2>2. task[w].pc = "dropping" /\ task[w].pc \in Blocking
      BY <2>1, PhaseFacts DEF DropRow
    <2>3. /\ \A s \in Known \ {task[w].repo} : rows[q] <= rows[s]
          /\ Present \cup {q} \notin Fitting
      BY <2>1, <2>2, TaskFacts DEF VictimIsDue, Evictable
    <2>4. ASSUME NEW s \in Known, rows[s] < rows[q] PROVE task[w].repo = s
      <3>1. rows[s] \in Int /\ rows[q] \in Int
        BY CacheAssumption DEF CacheInv, CacheTypeOK, Known, NoRow
      <3> QED
        BY <2>3, <2>4, <3>1
    <2> QED
      BY <2>2, <2>3, <2>4
  <1> QED
    BY <1>1, CacheInvariant, PTL DEF CacheSpec, EvictsWhatItMust, EvictsNow

-----------------------------------------------------------------------------
(* With one loop *)

NothingMoved == moved = {}

\* With one worker loop, every execution reads the head it asked for: it takes
\* two loops to move a checkout that is being read.
THEOREM AloneReadsItsHead ==
    ASSUME \A v, w \in Workers : v = w
    PROVE  CacheSpec => []ReadsItsHead
  <1>1. CacheInit => NothingMoved
    BY DEF CacheInit, NothingMoved
  <1>2. NothingMoved /\ [CacheNext]_cache => NothingMoved'
    <2> SUFFICES ASSUME moved = {}, [CacheNext]_cache PROVE moved' = {}
      BY DEF NothingMoved
    <2>1. ASSUME NEW w \in Workers, NEW r, NEW d, Becomes(w, r, d) PROVE moved' = {}
      BY <2>1 DEF Becomes
    <2> QED
      BY <2>1 DEF CacheNext, cache, EnsureStep, EnsureFails, Look, CloneDone, PutRow, FetchDone, Touch,
           CheckoutDone, RemoveDir, DropRow, CloneFails, FetchFails, CheckoutFails, MeasureFails, Locked,
           EnsureReturns, Leave, CacheStops
  <1>3. CacheInv /\ NothingMoved => ReadsItsHead
    BY DEF CacheInv, NothingMoved, UndisturbedReadsItsHead, ReadsItsHead
  <1> QED
    BY <1>1, <1>2, <1>3, CacheInvariant, PTL DEF CacheSpec
=============================================================================
