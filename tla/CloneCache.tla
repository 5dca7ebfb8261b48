----------------------------- MODULE CloneCache -----------------------------
(***************************************************************************)
(* The clone cache (cache/clone.py) with its rows in the table repos       *)
(* (state/db.py): one directory per repository, shared by every execution  *)
(* of a pull request of it.                                                *)
(*                                                                         *)
(* ensure runs on the event loop and waits for git without yielding, so    *)
(* no two of them interleave; it is cut into steps all the same, for a     *)
(* stop of the process or a locked database may end it between any two.    *)
(* Executions that have their checkout go on reading it meanwhile.  Which  *)
(* executions ask for what, and for how long they read, is in Execution.   *)
(***************************************************************************)
EXTENDS Integers, FiniteSets

CONSTANTS
    Workers,     \* worker loops, at most one execution each
    Repos,       \* repositories
    NoRepo,      \* not a repository
    Heads,       \* commits
    NoHead,      \* not a commit
    Fitting,     \* the sets of clones that are within disk_cap_bytes together
    MaxTime      \* bound: seconds that pass

\* What a directory may hold when it does not have a commit checked out: nothing at
\* all, a part of a clone, a clone whose index a killed git left locked, and a fresh
\* clone with its default branch.
Tracks == {"absent", "broken", "stuck", "default"}

ASSUME CacheAssumption ==
    /\ NoRepo \notin Repos
    /\ Heads \cap Tracks = {}
    /\ NoHead \notin Heads \cup Tracks
    /\ Fitting \subseteq SUBSET Repos
    /\ \A S \in Fitting : SUBSET S \subseteq Fitting
    /\ MaxTime \in Nat

VARIABLES
    rows,      \* repos: last_used of each repository, NoRow without a row
    disk,      \* what is in the directory of each repository
    clock,     \* int(time.time()), when it was read last
    task,      \* where each loop is in ensure, with the repository and the head
    victim,    \* the entry eviction is at
    moved,     \* history: loops whose checkout another one changed since
    torn       \* history: repositories a removal or checkout was cut off in

cache == <<rows, disk, clock, task, victim, moved, torn>>

NoRow == -1

\* Phases of ensure; "ready" is after it, while the checkout is read.
Blocking == {"cloning", "registering", "fetching", "touching", "checkout",
             "measuring", "dropping"}

Idle == [pc |-> "idle", repo |-> NoRepo, head |-> NoHead]

CacheTypeOK ==
    /\ rows \in [Repos -> {NoRow} \cup 0 .. MaxTime]
    /\ disk \in [Repos -> Heads \cup Tracks]
    /\ clock \in 0 .. MaxTime
    /\ task \in [Workers -> [pc : Blocking \cup {"idle", "ready"}, repo : Repos \cup {NoRepo},
                             head : Heads \cup {NoHead}]]
    /\ victim \in Repos \cup {NoRepo}
    /\ moved \in SUBSET Workers
    /\ torn \in SUBSET Repos

\* Clones of earlier days may be there.
CacheInit ==
    /\ rows \in [Repos -> {NoRow, 0}]
    /\ disk = [r \in Repos |-> IF rows[r] = NoRow THEN "absent" ELSE "default"]
    /\ clock = 0
    /\ task = [w \in Workers |-> Idle]
    /\ victim = NoRepo
    /\ moved = {}
    /\ torn = {}

-----------------------------------------------------------------------------

\* The event loop waits for the git or the file system of an ensure.
Blocked == \E w \in Workers : task[w].pc \in Blocking

Known == {r \in Repos : rows[r] # NoRow}
Whole(r) == disk[r] \notin {"absent", "broken", "stuck"}

\* The check of usage against the cap: every directory counts, with a row or without.
Present == {r \in Repos : disk[r] # "absent"}
UnderCap == Present \in Fitting

\* Mutant: the entry to keep is not left out.
EvictableAll(w) == Known

\* list_repos without the entry to keep.
Evictable(w) == Known \ {task[w].repo}

\* Mutant: DESC.
Newest(w) == {q \in Evictable(w) : \A s \in Evictable(w) : rows[q] >= rows[s]}

\* ORDER BY last_used ASC; entries of one second come in any order.
Oldest(w) == {q \in Evictable(w) : \A s \in Evictable(w) : rows[q] <= rows[s]}

Goes(w, s) == task' = [task EXCEPT ![w].pc = s]

\* ensure raises: the execution has no checkout.
Raises(w) == task' = [task EXCEPT ![w] = Idle]

\* A directory changes under those that read it.
Becomes(w, r, d) ==
    /\ disk' = [disk EXCEPT ![r] = d]
    /\ moved' = moved \cup {v \in Workers \ {w} : task[v].repo = r /\ task[v].head # d}

\* last_used is now; some seconds may have passed since the clock was read last.
Stamp(r) ==
    \E t \in clock .. MaxTime :
        /\ clock' = t
        /\ rows' = [rows EXCEPT ![r] = t]

-----------------------------------------------------------------------------
(* ensure *)

\* get_repo decides between a clone and a fetch.
Look(w, r, h) ==
    /\ ~Blocked
    /\ task[w].pc = "idle"
    /\ task' = [task EXCEPT ![w] = [pc |-> IF rows[r] = NoRow THEN "cloning" ELSE "fetching",
                                    repo |-> r, head |-> h]]
    /\ moved' = moved \ {w}
    /\ UNCHANGED <<rows, disk, clock, victim, torn>>

\* _git_clone removes what is there and clones the default branch.
CloneDone(w) ==
    /\ task[w].pc = "cloning"
    /\ Becomes(w, task[w].repo, "default")
    /\ Goes(w, "registering")
    /\ UNCHANGED <<rows, clock, victim, torn>>

\* Mutant: the exit code of git is not checked.
CloneFailsSilently(w) ==
    /\ task[w].pc = "cloning"
    /\ \E d \in {"absent", "broken"} : Becomes(w, task[w].repo, d)
    /\ Goes(w, "registering")
    /\ UNCHANGED <<rows, clock, victim, torn>>

CloneFails(w) ==
    /\ task[w].pc = "cloning"
    /\ \E d \in {"absent", "broken"} : Becomes(w, task[w].repo, d)
    /\ Raises(w)
    /\ UNCHANGED <<rows, clock, victim, torn>>

\* put_repo, after the clone.
PutRow(w) ==
    /\ task[w].pc = "registering"
    /\ Stamp(task[w].repo)
    /\ Goes(w, "checkout")
    /\ UNCHANGED <<disk, victim, moved, torn>>

\* _git_fetch, of the head or else of everything, needs a repository in the directory.
FetchDone(w) ==
    /\ task[w].pc = "fetching"
    /\ disk[task[w].repo] \notin {"absent", "broken"}
    /\ Goes(w, "touching")
    /\ UNCHANGED <<rows, disk, clock, victim, moved, torn>>

FetchFails(w) ==
    /\ task[w].pc = "fetching"
    /\ Raises(w)
    /\ UNCHANGED <<rows, disk, clock, victim, moved, torn>>

\* touch_repo, before the checkout.
Touch(w) ==
    /\ task[w].pc = "touching"
    /\ Stamp(task[w].repo)
    /\ Goes(w, "checkout")
    /\ UNCHANGED <<disk, victim, moved, torn>>

\* _git_checkout; it needs the index, and fails for a head the clone does not have.
CheckoutDone(w) ==
    /\ task[w].pc = "checkout"
    /\ Whole(task[w].repo)
    /\ Becomes(w, task[w].repo, task[w].head)
    /\ Goes(w, "measuring")
    /\ UNCHANGED <<rows, clock, victim, torn>>

CheckoutFails(w) ==
    /\ task[w].pc = "checkout"
    /\ Raises(w)
    /\ UNCHANGED <<rows, disk, clock, victim, moved, torn>>

\* _evict_if_over_cap ends: within the cap, or nothing left to evict.
EnsureReturns(w) ==
    /\ task[w].pc = "measuring"
    /\ UnderCap \/ Evictable(w) = {}
    /\ Goes(w, "ready")
    /\ UNCHANGED <<rows, disk, clock, victim, moved, torn>>

\* A file an agent deletes between the listing and its getsize.
MeasureFails(w) ==
    /\ task[w].pc = "measuring"
    /\ Raises(w)
    /\ UNCHANGED <<rows, disk, clock, victim, moved, torn>>

\* rmtree of the entry used least recently; what it cannot remove it leaves.
RemoveDir(w) ==
    /\ task[w].pc = "measuring"
    /\ ~UnderCap
    /\ \E q \in Oldest(w), d \in {"absent", "broken"} :
         /\ disk[q] = "absent" => d = "absent"
         /\ Becomes(w, q, d)
         /\ victim' = q
    /\ Goes(w, "dropping")
    /\ UNCHANGED <<rows, clock, torn>>

\* remove_repo of the same entry; then the usage again.
DropRow(w) ==
    /\ task[w].pc = "dropping"
    /\ rows' = [rows EXCEPT ![victim] = NoRow]
    /\ victim' = NoRepo
    /\ torn' = torn \ {victim}
    /\ Goes(w, "measuring")
    /\ UNCHANGED <<disk, clock, moved>>

\* The database is locked when ensure writes to it.
Locked(w) ==
    /\ task[w].pc \in {"registering", "touching", "dropping"}
    /\ torn' = IF task[w].pc = "dropping" THEN torn \cup {victim} ELSE torn
    /\ victim' = NoRepo
    /\ Raises(w)
    /\ UNCHANGED <<rows, disk, clock, moved>>

-----------------------------------------------------------------------------

\* The execution has read what it needs of the checkout.
Leave(w) ==
    /\ ~Blocked
    /\ task[w].pc = "ready"
    /\ task' = [task EXCEPT ![w] = Idle]
    /\ UNCHANGED <<rows, disk, clock, victim, moved, torn>>

\* What a stop may leave in the directory loop w was at: a clone or a checkout is cut
\* off anywhere, and a checkout that is cut off may leave its index locked.
CutOff(w) ==
    CASE task[w].pc = "cloning" -> {disk[task[w].repo], "absent", "broken", "default"}
      [] task[w].pc = "checkout" /\ Whole(task[w].repo) ->
            {disk[task[w].repo], "stuck", task[w].head}
      [] OTHER -> {disk[task[w].repo]}

\* Repositories whose row outlives a usable directory because of the stop.
TornBy(w, d) ==
    (IF task[w].pc = "dropping" THEN {victim} ELSE {})
        \cup (IF d = "stuck" THEN {task[w].repo} ELSE {})

\* The process is killed, with the git it started; directories and rows stay.
CacheStops ==
    /\ \/ /\ ~Blocked
          /\ UNCHANGED <<disk, torn>>
       \/ \E w \in Workers :
            /\ task[w].pc \in Blocking
            /\ \E d \in CutOff(w) :
                 /\ disk' = [disk EXCEPT ![task[w].repo] = d]
                 /\ torn' = torn \cup TornBy(w, d)
    /\ task' = [w \in Workers |-> Idle]
    /\ victim' = NoRepo
    /\ moved' = {}
    /\ UNCHANGED <<rows, clock>>

-----------------------------------------------------------------------------

\* ensure goes on, ends with a checkout, or raises.
EnsureStep(w) ==
    CloneDone(w) \/ PutRow(w) \/ FetchDone(w) \/ Touch(w) \/ CheckoutDone(w)
        \/ RemoveDir(w) \/ DropRow(w)
EnsureFails(w) ==
    CloneFails(w) \/ FetchFails(w) \/ CheckoutFails(w) \/ MeasureFails(w) \/ Locked(w)

CacheNext ==
    \/ \E w \in Workers :
         \/ \E r \in Repos, h \in Heads : Look(w, r, h)
         \/ EnsureStep(w) \/ EnsureFails(w) \/ EnsureReturns(w) \/ Leave(w)
    \/ CacheStops

CacheSpec == CacheInit /\ [][CacheNext]_cache

-----------------------------------------------------------------------------
(* Properties *)

\* A repository with a row has a clone that can be fetched and checked out, at every
\* moment: the row is written after the clone and removed after the directory.  The
\* exceptions are the moment between the two, and what a stop or a locked database in
\* that moment, or in a checkout, left behind.
RowsHaveClones ==
    \A r \in Known \ torn :
        Whole(r) \/ \E w \in Workers : task[w].pc = "dropping" /\ victim = r

\* What an execution reads is the head it asked for, as long as no other execution
\* checks out or evicts the same repository meanwhile.
UndisturbedReadsItsHead ==
    \A w \in Workers : task[w].pc = "ready" /\ w \notin moved => disk[task[w].repo] = task[w].head

\* An entry goes only when the disk is over its cap with it, and no other entry but the
\* one to keep was used less recently.
EvictsWhatItMust ==
    [][\A q \in Known : rows'[q] = NoRow =>
         /\ Present \cup {q} \notin Fitting
         /\ \A s \in Known : rows[s] < rows[q] =>
              \E w \in Workers : task[w].pc = "dropping" /\ task[w].repo = s]_cache

\* What an execution reads is the head it asked for.
ReadsItsHead ==
    \A w \in Workers : task[w].pc = "ready" => disk[task[w].repo] = task[w].head
=============================================================================
