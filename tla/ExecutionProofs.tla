-------------------------- MODULE ExecutionProofs --------------------------
(***************************************************************************)
(* The executions of Execution, proved for any number of loops and runs,   *)
(* every number of attempts and any number of stops: they use the cache    *)
(* only as CloneCache says, so that what is proved there holds of them,    *)
(* and their retries end.                                                  *)
(***************************************************************************)
EXTENDS Execution, CloneCacheProofs

\* Where execute is says where ensure is.
PhaseFitsTask ==
    \A w \in Workers :
        /\ phase[w] = "ensuring" <=> task[w].pc \in Blocking
        /\ phase[w] \in {"diffing", "running"} <=> task[w].pc = "ready"

\* A loop has a run exactly while it is not off, and the run is running.
JobIsRunning ==
    \A w \in Workers :
        /\ phase[w] = "off" => job[w] = NoRun
        /\ phase[w] # "off" => job[w] \in Runs /\ status[job[w]] = "running"

\* No two loops have the same one.
JobsDiffer ==
    \A v, w \in Workers : phase[v] # "off" /\ phase[w] # "off" /\ job[v] = job[w] => v = w

\* The executions a run may have had in earlier lives of the process.
Past == crashes * (MaxAttempts + 1)

Current(j) == IF status[j] = "queued" THEN 0 ELSE 1

\* Each execution is one of an earlier life, an attempt that was counted, or the current
\* one, as long as the run is not queued again.
TriesAccount == \A j \in Runs : tries[j] <= Past + attempts[j] + Current(j)

ExecInv ==
    /\ CacheInv
    /\ JobsTypeOK
    /\ PhaseFitsTask
    /\ JobIsRunning
    /\ JobsDiffer
    /\ TriesAccount

-----------------------------------------------------------------------------
(* What the steps do to the tasks of the cache *)

LEMMA EnsureMoves ==
    ASSUME CacheTypeOK, NEW w \in Workers, EnsureStep(w) \/ EnsureFails(w) \/ EnsureReturns(w)
    PROVE  /\ task[w].pc \in Blocking
           /\ \A v \in Workers \ {w} : task'[v] = task[v]
           /\ EnsureStep(w) => task'[w].pc \in Blocking
           /\ EnsureFails(w) => task'[w].pc = "idle"
           /\ EnsureReturns(w) => task'[w].pc = "ready"
  <1>1. task[w].pc \in Blocking
    BY PhaseFacts DEF EnsureStep, EnsureFails, EnsureReturns, CloneDone, PutRow, FetchDone, Touch,
           CheckoutDone, RemoveDir, DropRow, CloneFails, FetchFails, CheckoutFails, MeasureFails, Locked
  <1>2. EnsureStep(w) => \E s \in Blocking : Goes(w, s)
    BY PhaseFacts DEF EnsureStep, CloneDone, PutRow, FetchDone, Touch, CheckoutDone, RemoveDir, DropRow
  <1>3. EnsureFails(w) => Raises(w)
    BY DEF EnsureFails, CloneFails, FetchFails, CheckoutFails, MeasureFails, Locked
  <1>4. EnsureReturns(w) => Goes(w, "ready")
    BY DEF EnsureReturns
  <1>5. ASSUME NEW s, Goes(w, s)
        PROVE  task'[w].pc = s /\ \A v \in Workers \ {w} : task'[v] = task[v]
    <2>1. /\ task'[w] = [pc |-> s, repo |-> task[w].repo, head |-> task[w].head]
          /\ \A v \in Workers \ {w} : task'[v] = task[v]
      BY <1>5, GoesFacts
    <2> QED
      BY <2>1
  <1>6. Raises(w) => task'[w].pc = "idle" /\ \A v \in Workers \ {w} : task'[v] = task[v]
    BY RaisesFacts, PhaseFacts
  <1>7. EnsureStep(w) => task'[w].pc \in Blocking /\ \A v \in Workers \ {w} : task'[v] = task[v]
    BY <1>2, <1>5
  <1>8. EnsureReturns(w) => task'[w].pc = "ready" /\ \A v \in Workers \ {w} : task'[v] = task[v]
    BY <1>4, <1>5
  <1> QED
    BY <1>1, <1>3, <1>6, <1>7, <1>8

LEMMA LookMoves ==
    ASSUME CacheTypeOK, NEW w \in Workers, NEW r, NEW h, Look(w, r, h)
    PROVE  task'[w].pc \in Blocking /\ \A v \in Workers \ {w} : task'[v] = task[v]
  <1>1. /\ task'[w] = [pc |-> IF rows[r] = NoRow THEN "cloning" ELSE "fetching", repo |-> r, head |-> h]
        /\ \A v \in Workers \ {w} : task'[v] = task[v]
    BY DEF CacheTypeOK, Look
  <1>2. task'[w].pc = IF rows[r] = NoRow THEN "cloning" ELSE "fetching"
    BY <1>1
  <1> QED
    BY <1>1, <1>2, PhaseFacts

LEMMA LeaveMoves ==
    ASSUME CacheTypeOK, NEW w \in Workers, Leave(w)
    PROVE  task'[w].pc = "idle" /\ \A v \in Workers \ {w} : task'[v] = task[v]
  BY PhaseFacts DEF CacheTypeOK, Leave

LEMMA StopMoves ==
    ASSUME CacheStops, NEW w \in Workers
    PROVE  task'[w].pc = "idle"
  BY PhaseFacts DEF CacheStops

-----------------------------------------------------------------------------
(* What the steps do to the jobs *)

\* Loop w goes on with its run.
Advances(w, p) ==
    /\ phase[w] # "off" /\ p # "off"
    /\ phase' = [phase EXCEPT ![w] = p]
    /\ UNCHANGED <<wants, status, attempts, job, tries, crashes>>

\* Loop w is through with it.
Concludes(w) ==
    /\ phase[w] # "off"
    /\ TriesAgain(w) \/ \E s \in {"pending_approval", "skipped", "failed"} : Settles(w, s)

JobsInv == JobsTypeOK /\ JobIsRunning /\ JobsDiffer /\ TriesAccount

LEMMA PastIsNatural ==
    ASSUME NEW c \in Nat
    PROVE  /\ c * (MaxAttempts + 1) \in Nat
           /\ (c + 1) * (MaxAttempts + 1) = c * (MaxAttempts + 1) + MaxAttempts + 1
  BY ExecutionAssumption

LEMMA AdvancesKeeps ==
    ASSUME JobsInv, NEW w \in Workers,
           NEW p \in {"fetching", "ensuring", "diffing", "running"}, Advances(w, p)
    PROVE  JobsInv'
  <1>1. /\ phase' = [phase EXCEPT ![w] = p] /\ phase \in [Workers -> {"off", "fetching", "ensuring", "diffing", "running"}]
        /\ UNCHANGED <<wants, status, attempts, job, tries, crashes>>
    BY DEF Advances, JobsInv, JobsTypeOK
  <1>2. \A v \in Workers : phase'[v] # "off" <=> phase[v] # "off"
    BY <1>1 DEF Advances
  <1>3. JobsTypeOK'
    BY <1>1 DEF JobsInv, JobsTypeOK
  <1>4. JobIsRunning' /\ JobsDiffer'
    BY <1>1, <1>2 DEF JobsInv, JobIsRunning, JobsDiffer
  <1>5. TriesAccount'
    BY <1>1 DEF JobsInv, TriesAccount, Past, Current
  <1> QED
    BY <1>3, <1>4, <1>5 DEF JobsInv

\* What the end of an execution leaves.
LEMMA ConcludesFacts ==
    ASSUME JobsInv, NEW w \in Workers, Concludes(w)
    PROVE  /\ job[w] \in Runs /\ status[job[w]] = "running"
           /\ job' = [job EXCEPT ![w] = NoRun] /\ phase' = [phase EXCEPT ![w] = "off"]
           /\ \E s \in {"queued", "pending_approval", "skipped", "failed"} :
                status' = [status EXCEPT ![job[w]] = s]
           /\ status'[job[w]] = "queued" =>
                attempts[job[w]] < MaxAttempts /\ attempts' = [attempts EXCEPT ![job[w]] = @ + 1]
           /\ status'[job[w]] # "queued" => attempts' = attempts
           /\ UNCHANGED <<wants, tries, crashes>>
  <1>1. job[w] \in Runs /\ status[job[w]] = "running"
    BY DEF Concludes, JobsInv, JobIsRunning
  <1>2. ASSUME NEW s \in {"queued", "pending_approval", "skipped", "failed"}, Ends(w, s)
        PROVE  status' = [status EXCEPT ![job[w]] = s] /\ status'[job[w]] = s
    BY <1>1, <1>2 DEF Ends, JobsInv, JobsTypeOK
  <1>3. CASE TriesAgain(w)
    BY <1>1, <1>2, <1>3 DEF TriesAgain, Ends
  <1>4. ASSUME NEW s \in {"pending_approval", "skipped", "failed"}, Settles(w, s)
        PROVE  /\ status' = [status EXCEPT ![job[w]] = s] /\ status'[job[w]] = s
               /\ UNCHANGED attempts
               /\ Ends(w, s)
    BY <1>2, <1>4 DEF Settles
  <1>5. CASE \E s \in {"pending_approval", "skipped", "failed"} : Settles(w, s)
    BY <1>1, <1>4, <1>5 DEF Ends
  <1> QED
    BY <1>1, <1>3, <1>5 DEF Concludes

LEMMA ConcludesKeeps ==
    ASSUME JobsInv, NEW w \in Workers, Concludes(w)
    PROVE  JobsInv'
  <1> DEFINE j == job[w]
  <1>1. /\ j \in Runs /\ status[j] = "running"
        /\ job' = [job EXCEPT ![w] = NoRun] /\ phase' = [phase EXCEPT ![w] = "off"]
        /\ \E s \in {"queued", "pending_approval", "skipped", "failed"} : status' = [status EXCEPT ![j] = s]
        /\ status'[j] = "queued" =>
             attempts[j] < MaxAttempts /\ attempts' = [attempts EXCEPT ![j] = @ + 1]
        /\ status'[j] # "queued" => attempts' = attempts
        /\ UNCHANGED <<wants, tries, crashes>>
    BY ConcludesFacts
  <1>2. JobsTypeOK /\ MaxAttempts \in Nat
    BY ExecutionAssumption DEF JobsInv
  <1>3. /\ \A k \in Runs \ {j} : status'[k] = status[k] /\ attempts'[k] = attempts[k]
        /\ attempts' \in [Runs -> 0 .. MaxAttempts]
        /\ status'[j] = "queued" => attempts'[j] = attempts[j] + 1
        /\ status'[j] # "queued" => attempts'[j] = attempts[j]
    BY <1>1, <1>2 DEF JobsTypeOK
  <1>4. JobsTypeOK'
    BY <1>1, <1>2, <1>3 DEF JobsTypeOK
  <1>5. /\ phase'[w] = "off"
        /\ \A v \in Workers \ {w} : phase'[v] = phase[v] /\ job'[v] = job[v]
    BY <1>1, <1>2 DEF JobsTypeOK
  <1>6. JobsDiffer'
    BY <1>5 DEF JobsInv, JobsDiffer
  <1>7. JobIsRunning'
    <2>1. job'[w] = NoRun
      BY <1>1, <1>2 DEF JobsTypeOK
    <2>2. \A v \in Workers \ {w} : phase[v] = "off" => job[v] = NoRun
      BY DEF JobsInv, JobIsRunning
    <2>3. \A v \in Workers \ {w} : phase[v] # "off" =>
            job[v] \in Runs /\ status[job[v]] = "running" /\ job[v] # j
      BY DEF Concludes, JobsInv, JobIsRunning, JobsDiffer
    <2> QED
      BY <1>3, <1>5, <2>1, <2>2, <2>3 DEF JobIsRunning
  <1>8. TriesAccount'
    <2> SUFFICES ASSUME NEW k \in Runs PROVE tries'[k] <= Past' + attempts'[k] + Current(k)'
      BY DEF TriesAccount
    <2>1. tries[k] <= Past + attempts[k] + Current(k) /\ Past' = Past /\ tries'[k] = tries[k]
      BY <1>1 DEF JobsInv, TriesAccount, Past
    <2>2. Past \in Nat /\ attempts[k] \in Nat /\ tries[k] \in Nat
      BY <1>2, PastIsNatural, ExecutionAssumption DEF JobsTypeOK, Past
    <2>3. CASE k # j
      BY <1>3, <2>1, <2>3 DEF Current
    <2>4. CASE k = j
      BY <1>1, <1>3, <2>1, <2>2, <2>4 DEF Current
    <2> QED
      BY <2>3, <2>4
  <1> QED
    BY <1>4, <1>6, <1>7, <1>8 DEF JobsInv

LEMMA ClaimKeeps ==
    ASSUME JobsInv, NEW w \in Workers, NEW j \in Runs, Claim(w, j)
    PROVE  JobsInv'
  <1>1. /\ phase[w] = "off" /\ status[j] = "queued"
        /\ status' = [status EXCEPT ![j] = "running"]
        /\ job' = [job EXCEPT ![w] = j] /\ phase' = [phase EXCEPT ![w] = "fetching"]
        /\ tries' = [tries EXCEPT ![j] = @ + 1]
        /\ UNCHANGED <<wants, attempts, crashes>>
    BY DEF Claim, Claimable, At
  <1>2. JobsTypeOK
    BY DEF JobsInv
  <1>3. /\ status'[j] = "running" /\ tries'[j] = tries[j] + 1
        /\ \A k \in Runs \ {j} : status'[k] = status[k] /\ tries'[k] = tries[k]
        /\ phase'[w] = "fetching" /\ job'[w] = j
        /\ \A v \in Workers \ {w} : phase'[v] = phase[v] /\ job'[v] = job[v]
    BY <1>1, <1>2 DEF JobsTypeOK
  <1>4. JobsTypeOK'
    BY <1>1, <1>2 DEF JobsTypeOK
  <1>5. \A v \in Workers : phase[v] # "off" => job[v] \in Runs /\ status[job[v]] = "running" /\ job[v] # j
    BY <1>1 DEF JobsInv, JobIsRunning
  <1>6. JobIsRunning' /\ JobsDiffer'
    BY <1>3, <1>5 DEF JobsInv, JobIsRunning, JobsDiffer
  <1>7. TriesAccount'
    <2> SUFFICES ASSUME NEW k \in Runs PROVE tries'[k] <= Past' + attempts'[k] + Current(k)'
      BY DEF TriesAccount
    <2>1. /\ tries[k] <= Past + attempts[k] + Current(k)
          /\ Past' = Past /\ attempts'[k] = attempts[k]
      BY <1>1 DEF JobsInv, TriesAccount, Past
    <2>2. Past \in Nat /\ attempts[k] \in Nat /\ tries[k] \in Nat
      BY <1>2, PastIsNatural, ExecutionAssumption DEF JobsTypeOK, Past
    <2>3. CASE k # j
      BY <1>3, <2>1, <2>3 DEF Current
    <2>4. CASE k = j
      BY <1>1, <1>3, <2>1, <2>2, <2>4 DEF Current
    <2> QED
      BY <2>3, <2>4
  <1> QED
    BY <1>4, <1>6, <1>7 DEF JobsInv

\* A stop ends every execution; those of its life move to the past.
LEMMA RestartKeeps ==
    ASSUME JobsInv, Restart
    PROVE  JobsInv'
  <1>1. /\ crashes < MaxCrashes /\ crashes' = crashes + 1
        /\ status' = [j \in Runs |-> IF status[j] = "running" THEN "queued" ELSE status[j]]
        /\ attempts' = [j \in Runs |-> 0]
        /\ job' = [w \in Workers |-> NoRun] /\ phase' = [w \in Workers |-> "off"]
        /\ UNCHANGED <<wants, tries>>
    BY DEF Restart
  <1>2. JobsTypeOK /\ crashes \in Nat /\ MaxAttempts \in Nat /\ MaxCrashes \in Nat
    BY ExecutionAssumption DEF JobsInv, JobsTypeOK
  <1>3. JobsTypeOK'
    BY <1>1, <1>2 DEF JobsTypeOK
  <1>4. JobIsRunning' /\ JobsDiffer'
    BY <1>1 DEF JobIsRunning, JobsDiffer
  <1>5. TriesAccount'
    <2> SUFFICES ASSUME NEW k \in Runs PROVE tries'[k] <= Past' + attempts'[k] + Current(k)'
      BY DEF TriesAccount
    <2>1. tries[k] <= Past + attempts[k] + Current(k) /\ tries'[k] = tries[k] /\ attempts'[k] = 0
      BY <1>1 DEF JobsInv, TriesAccount
    <2>2. Past \in Nat /\ Past' = Past + MaxAttempts + 1
      BY <1>1, <1>2, PastIsNatural DEF Past
    <2>3. attempts[k] \in 0 .. MaxAttempts /\ tries[k] \in Nat
      BY <1>2 DEF JobsTypeOK
    <2>4. Current(k) \in 0 .. 1 /\ Current(k)' \in 0 .. 1
      BY DEF Current
    <2> QED
      BY <1>2, <2>1, <2>2, <2>3, <2>4
  <1> QED
    BY <1>3, <1>4, <1>5 DEF JobsInv

-----------------------------------------------------------------------------
(* The steps of a loop *)

\* A step of a loop is a step of the cache, or leaves it alone.
LEMMA LoopUsesCache ==
    ASSUME ExecInv, NEW w \in Workers, LoopStep(w)
    PROVE  [CacheNext]_cache
  <1>1. ASSUME Ensure(w) PROVE CacheNext
    <2>1. job[w] \in Runs
      BY <1>1 DEF ExecInv, JobIsRunning, Ensure, At
    <2>2. wants[job[w]].repo \in Repos /\ wants[job[w]].head \in Heads
      BY <2>1 DEF ExecInv, JobsTypeOK
    <2> QED
      BY <1>1, <2>2 DEF Ensure, CacheNext
  <1> QED
    BY <1>1 DEF LoopStep, Claim, Closed, EnsureGoesOn, EnsureEnds, EnsureRaises, DiffArrives, DiffFails,
           RunReturns, CacheNext

LEMMA LoopMovesJobs ==
    ASSUME ExecInv, NEW w \in Workers, LoopStep(w)
    PROVE  \/ \E j \in Runs : Claim(w, j)
           \/ \E p \in {"fetching", "ensuring", "diffing", "running"} : Advances(w, p)
           \/ Concludes(w)
           \/ UNCHANGED jobs
  <1>1. ASSUME EnsureEnds(w) \/ EnsureRaises(w) PROVE phase[w] = "ensuring"
    <2>1. task[w].pc \in Blocking
      BY <1>1, EnsureMoves DEF ExecInv, CacheInv, EnsureEnds, EnsureRaises
    <2> QED
      BY <2>1 DEF ExecInv, PhaseFitsTask
  <1> QED
    BY <1>1 DEF LoopStep, Closed, Ensure, EnsureGoesOn, EnsureEnds, EnsureRaises, DiffArrives, DiffFails,
           RunReturns, Advances, Concludes, At

\* The phases of the loop and of its task keep step.
LEMMA LoopKeepsStep ==
    ASSUME ExecInv, NEW w \in Workers, LoopStep(w)
    PROVE  PhaseFitsTask'
  <1>0. CacheTypeOK /\ phase \in [Workers -> {"off", "fetching", "ensuring", "diffing", "running"}]
    BY DEF ExecInv, CacheInv, JobsTypeOK
  <1>a. ASSUME \A v \in Workers \ {w} : task'[v] = task[v] /\ phase'[v] = phase[v],
               phase'[w] = "ensuring" <=> task'[w].pc \in Blocking,
               phase'[w] \in {"diffing", "running"} <=> task'[w].pc = "ready"
        PROVE  PhaseFitsTask'
    BY <1>a DEF ExecInv, PhaseFitsTask
  <1>b. ASSUME NEW p, phase' = [phase EXCEPT ![w] = p]
        PROVE  phase'[w] = p /\ \A v \in Workers \ {w} : phase'[v] = phase[v]
    BY <1>0, <1>b
  <1>c. /\ phase[w] \in {"off", "fetching"} => task[w].pc \notin Blocking /\ task[w].pc # "ready"
        /\ phase[w] = "diffing" => task[w].pc \notin Blocking /\ task[w].pc = "ready"
        /\ task[w].pc \in Blocking => phase[w] = "ensuring"
    BY DEF ExecInv, PhaseFitsTask
  <1>1. CASE \E j \in Runs : Claim(w, j)
    BY <1>1, <1>a, <1>b, <1>c DEF Claim, At, cache
  <1>2. CASE Closed(w)
    BY <1>2, <1>a, <1>b, <1>c DEF Closed, Settles, Ends, At, cache
  <1>3. CASE Ensure(w)
    <2>1. task'[w].pc \in Blocking /\ \A v \in Workers \ {w} : task'[v] = task[v]
      BY <1>0, <1>3, LookMoves DEF Ensure
    <2>2. phase'[w] = "ensuring" /\ \A v \in Workers \ {w} : phase'[v] = phase[v]
      BY <1>3, <1>b DEF Ensure
    <2> QED
      BY <1>a, <2>1, <2>2, PhaseFacts
  <1>4. CASE EnsureGoesOn(w)
    BY <1>0, <1>4, <1>a, <1>c, EnsureMoves, PhaseFacts DEF EnsureGoesOn, jobs
  <1>5. CASE EnsureEnds(w)
    BY <1>0, <1>5, <1>a, <1>b, EnsureMoves, PhaseFacts DEF EnsureEnds
  <1>6. CASE EnsureRaises(w)
    BY <1>0, <1>6, <1>a, <1>b, EnsureMoves, PhaseFacts DEF EnsureRaises, TriesAgain, Ends
  <1>7. CASE DiffArrives(w)
    BY <1>7, <1>a, <1>b, <1>c, PhaseFacts DEF DiffArrives, At, cache
  <1>8. CASE DiffFails(w)
    BY <1>0, <1>8, <1>a, <1>b, LeaveMoves, PhaseFacts DEF DiffFails, TriesAgain, Ends
  <1>9. CASE RunReturns(w)
    BY <1>0, <1>9, <1>a, <1>b, LeaveMoves, PhaseFacts DEF RunReturns, TriesAgain, Settles, Ends
  <1> QED
    BY <1>1, <1>2, <1>3, <1>4, <1>5, <1>6, <1>7, <1>8, <1>9 DEF LoopStep

-----------------------------------------------------------------------------

\* Every step of an execution is one of the cache, or leaves it alone.
LEMMA UsesCache ==
    ASSUME ExecInv, [Next]_vars
    PROVE  [CacheNext]_cache
  BY LoopUsesCache DEF Next, Restart, CacheNext, vars

LEMMA ExecBegins == Init => ExecInv
  <1> SUFFICES ASSUME Init PROVE ExecInv
    OBVIOUS
  <1>1. CacheInv
    BY CacheBegins DEF Init
  <1>2. JobsTypeOK
    BY ExecutionAssumption DEF Init, JobsTypeOK
  <1>3. PhaseFitsTask
    BY PhaseFacts DEF Init, CacheInit, PhaseFitsTask
  <1>4. JobIsRunning /\ JobsDiffer
    BY DEF Init, JobIsRunning, JobsDiffer
  <1>5. TriesAccount
    <2>1. Past = 0
      BY ExecutionAssumption DEF Init, Past
    <2> QED
      BY <2>1 DEF Init, TriesAccount, Current
  <1> QED
    BY <1>1, <1>2, <1>3, <1>4, <1>5 DEF ExecInv

LEMMA ExecKeeps == ExecInv /\ [Next]_vars => ExecInv'
  <1> SUFFICES ASSUME ExecInv, [Next]_vars PROVE ExecInv'
    OBVIOUS
  <1>1. CacheInv'
    BY UsesCache, CacheKeeps DEF ExecInv
  <1>2. JobsInv
    BY DEF ExecInv, JobsInv
  <1>3. ASSUME UNCHANGED jobs PROVE JobsInv'
    BY <1>2, <1>3 DEF jobs, JobsInv, JobsTypeOK, JobIsRunning, JobsDiffer, TriesAccount, Past, Current
  <1>4. ASSUME NEW w \in Workers, LoopStep(w) PROVE JobsInv' /\ PhaseFitsTask'
    BY <1>2, <1>3, <1>4, LoopMovesJobs, LoopKeepsStep, ClaimKeeps, AdvancesKeeps, ConcludesKeeps
  <1>5. CASE Restart
    <2>1. PhaseFitsTask'
      BY <1>5, StopMoves, PhaseFacts DEF Restart, PhaseFitsTask
    <2> QED
      BY <1>1, <1>2, <1>5, <2>1, RestartKeeps DEF ExecInv, JobsInv
  <1>6. CASE UNCHANGED vars
    BY <1>1, <1>3, <1>6 DEF vars, jobs, cache, ExecInv, JobsInv, PhaseFitsTask
  <1> QED
    BY <1>1, <1>4, <1>5, <1>6 DEF Next, ExecInv, JobsInv

THEOREM ExecInvariant == Spec => []ExecInv
  BY ExecBegins, ExecKeeps, PTL DEF Spec

-----------------------------------------------------------------------------
(* Theorems *)

\* The executions use the cache as CloneCache says: what is proved of it there holds
\* of every interleaving of the loops, with retries and stops.
THEOREM ExecutionsUseTheCache == Spec => CacheSpec
  <1>1. Init => CacheInit
    BY DEF Init
  <1>2. ExecInv /\ [Next]_vars => [CacheNext]_cache
    BY UsesCache
  <1> QED
    BY <1>1, <1>2, ExecInvariant, PTL DEF Spec, CacheSpec

\* Every variable keeps its type.
THEOREM TypeCorrect == Spec => []TypeOK
  <1>1. ExecInv => TypeOK
    BY DEF ExecInv, CacheInv, TypeOK
  <1> QED
    BY <1>1, ExecInvariant, PTL

\* The parts of the cache's contract that the runs check, for every execution.
THEOREM ClonesStayThere == Spec => []RowsHaveClones
  BY ExecutionsUseTheCache, ClonesAreThere, PTL

THEOREM ReviewsReadTheirHead == Spec => []UndisturbedReadsItsHead
  BY ExecutionsUseTheCache, UndisturbedReadsAreRight, PTL

THEOREM EvictionsAreDue == Spec => EvictsWhatItMust
  BY ExecutionsUseTheCache, EvictionIsDue, PTL

\* With one worker loop no execution reads another head than its own.
THEOREM OneLoopReadsItsHead ==
    ASSUME \A v, w \in Workers : v = w
    PROVE  Spec => []ReadsItsHead
  BY ExecutionsUseTheCache, AloneReadsItsHead, PTL

\* Retries end, whatever fails, for every number of attempts and of stops.
THEOREM RetriesEnd == Spec => []TriesAreBounded
  <1>1. ExecInv => TriesAreBounded
    <2> SUFFICES ASSUME ExecInv, NEW j \in Runs
                 PROVE  tries[j] <= (MaxAttempts + 1) * (crashes + 1)
      BY DEF TriesAreBounded
    <2>1. tries[j] <= Past + attempts[j] + Current(j)
      BY DEF ExecInv, TriesAccount
    <2>2. crashes \in Nat /\ attempts[j] \in 0 .. MaxAttempts /\ tries[j] \in Nat /\ MaxAttempts \in Nat
      BY ExecutionAssumption DEF ExecInv, JobsTypeOK
    <2>3. Past \in Nat /\ (MaxAttempts + 1) * (crashes + 1) = Past + MaxAttempts + 1
      BY <2>2, PastIsNatural DEF Past
    <2>4. Current(j) \in 0 .. 1
      BY DEF Current
    <2> QED
      BY <2>1, <2>2, <2>3, <2>4
  <1> QED
    BY <1>1, ExecInvariant, PTL

-----------------------------------------------------------------------------
(* The executions implement the life cycle *)

\* A claim starts an execution, of a run nobody executes.
LEMMA ClaimMaps ==
    ASSUME ExecInv, NEW w \in Workers, NEW j \in Runs, Claim(w, j)
    PROVE  Lifecycle!Start(w, j)
  <1>1. /\ phase[w] = "off" /\ status[j] = "queued"
        /\ status' = [status EXCEPT ![j] = "running"]
        /\ job' = [job EXCEPT ![w] = j]
    BY DEF Claim, Claimable, At
  <1>2. job[w] = NoRun /\ \A v \in Workers : job[v] # j
    BY <1>1, ExecutionAssumption DEF ExecInv, JobIsRunning
  <1> QED
    BY <1>1, <1>2 DEF Lifecycle!Start

\* The end of an execution ends it there as well.
LEMMA ConcludesMaps ==
    ASSUME ExecInv, NEW w \in Workers, Concludes(w)
    PROVE  Lifecycle!End(w)
  <1>1. job[w] \in Runs /\ job[w] # NoRun /\ status[job[w]] = "running"
    BY ExecutionAssumption DEF Concludes, ExecInv, JobIsRunning
  <1>2. \E s \in {"queued", "failed", "skipped", "pending_approval"} : Ends(w, s)
    BY DEF Concludes, TriesAgain, Settles
  <1> QED
    BY <1>1, <1>2 DEF Ends, Lifecycle!End, Lifecycle!Change, Lifecycle!WITHDRAWN

\* A run is executed by one loop at a time, starts only when it is queued and settles
\* once, for any number of loops, runs and stops.
THEOREM ExecutionsImplementLifecycle == Spec => ImplementsLifecycle
  <1>1. Init => Lifecycle!AInit
    BY DEF Init, Lifecycle!AInit
  <1>2. ExecInv /\ [Next]_vars => [Lifecycle!ANext]_(Lifecycle!avars)
    <2> SUFFICES ASSUME ExecInv, [Next]_vars
                 PROVE  Lifecycle!ANext \/ UNCHANGED Lifecycle!avars
      OBVIOUS
    <2>1. ASSUME NEW w \in Workers, LoopStep(w)
          PROVE  Lifecycle!ANext \/ UNCHANGED Lifecycle!avars
      <3>1. CASE \E j \in Runs : Claim(w, j)
        BY <3>1, ClaimMaps DEF Lifecycle!ANext
      <3>2. CASE Concludes(w)
        BY <3>2, ConcludesMaps DEF Lifecycle!ANext
      <3>3. CASE \/ \E p \in {"fetching", "ensuring", "diffing", "running"} : Advances(w, p)
                 \/ UNCHANGED jobs
        BY <3>3 DEF Advances, jobs, Lifecycle!avars
      <3> QED
        BY <2>1, <3>1, <3>2, <3>3, LoopMovesJobs
    <2>2. CASE Restart
      BY <2>2 DEF Restart, Lifecycle!Recover, Lifecycle!ANext
    <2>3. CASE UNCHANGED vars
      BY <2>3 DEF vars, jobs, Lifecycle!avars
    <2> QED
      BY <2>1, <2>2, <2>3 DEF Next
  <1> QED
    BY <1>1, <1>2, ExecInvariant, PTL DEF Spec, ImplementsLifecycle, Lifecycle!ASpec
=============================================================================
