------------------------------ MODULE GateWatch ------------------------------
(***************************************************************************)
(* The watcher of one run, as the rest of the system may rely on it: which *)
(* verdicts it writes, when, and what it does about a row that others move *)
(* meanwhile.  CiGate has the watcher itself, with what it is told and     *)
(* what it says; ReviewQueue has the table, the queue and the loops around *)
(* any number of watchers.  Both keep to this.                             *)
(***************************************************************************)
EXTENDS Integers

CONSTANT Cap  \* the wait cap, in poll intervals

VARIABLES
    row,      \* where the run stands
    named,    \* its row names a head
    phase,    \* where the watcher is
    elapsed,  \* poll intervals it has counted, Cap for all from there on
    up        \* the process is running

wvars == <<row, named, phase, elapsed, up>>

PENDING == "pending_ci"
UNSUBMITTED == "unsubmitted"
WITHDRAWN == "withdrawn"

\* A run that is pending has its watcher; others may come later.
WInit ==
    /\ \/ row = UNSUBMITTED /\ phase = "off" /\ named = FALSE
       \/ row = PENDING /\ phase = "top" /\ named \in BOOLEAN
    /\ elapsed = 0
    /\ up = TRUE

Gone == phase' = "off" /\ elapsed' = 0

-----------------------------------------------------------------------------
(* The watcher *)

Tick(n) == IF n < Cap THEN n + 1 ELSE n

\* A watcher leaves a row alone that is not pending any more.
Verdict(s) == row' = IF row = PENDING THEN s ELSE row

\* A run without a head passes without a poll.
LoopHead(n) ==
    \/ row # PENDING /\ Gone /\ UNCHANGED row
    \/ row = PENDING /\ ~named /\ Gone /\ row' = "queued"
    \/ row = PENDING /\ named /\ phase' = "polling" /\ elapsed' = n /\ UNCHANGED row

Begins == phase = "top" /\ LoopHead(0)

PollFails == phase = "polling" /\ phase' = "backoff" /\ UNCHANGED <<row, elapsed>>
Retries == phase = "backoff" /\ LoopHead(Tick(elapsed))

\* What CI says, as GitHub tells it.
Passes == phase = "polling" /\ Gone /\ Verdict("queued")
Rejects == phase = "polling" /\ Gone /\ Verdict("ci-failed")

\* The cap is looked at after a poll and after a sleep, and not after a failed poll.
Sleeps ==
    /\ phase = "polling"
    /\ elapsed < Cap
    /\ phase' = "waiting"
    /\ UNCHANGED <<row, elapsed>>

Wakes == phase = "waiting" /\ Tick(elapsed) < Cap /\ LoopHead(Tick(elapsed))

GivesUp ==
    /\ \/ phase = "polling" /\ elapsed >= Cap
       \/ phase = "waiting" /\ Tick(elapsed) >= Cap
    /\ Gone
    /\ Verdict("skipped")

\* A locked database ends the task, and the run stays as it is.
Dies == phase # "off" /\ Gone /\ UNCHANGED row

Watches ==
    /\ up
    /\ Begins \/ PollFails \/ Retries \/ Passes \/ Rejects \/ Sleeps \/ Wakes \/ GivesUp \/ Dies
    /\ UNCHANGED <<named, up>>

-----------------------------------------------------------------------------
(* Around the watcher *)

\* The run is inserted, and watched unless the database was locked.
Submitted ==
    /\ up
    /\ row = UNSUBMITTED
    /\ row' = PENDING
    /\ named' \in BOOLEAN
    /\ phase' \in {"top", "off"}
    /\ elapsed' = 0
    /\ UNCHANGED up

\* A comment deletes the row, whatever the watcher is about to do.
Withdrawn ==
    /\ up
    /\ row # UNSUBMITTED
    /\ row' = WITHDRAWN
    /\ named' = FALSE
    /\ UNCHANGED <<phase, elapsed, up>>

\* Nobody else moves a row that is watched, and none goes back to the gate.
MovesOn ==
    /\ phase = "off"
    /\ {row, row'} \cap {UNSUBMITTED, PENDING, WITHDRAWN} = {}
    /\ UNCHANGED <<named, phase, elapsed, up>>

Stops ==
    /\ up' = FALSE
    /\ Gone
    /\ UNCHANGED <<row, named>>

\* A pending run is watched anew, from the beginning.
Starts ==
    /\ ~up
    /\ up' = TRUE
    /\ row' = IF row = "running" THEN "queued" ELSE row
    /\ phase' = IF row = PENDING THEN "top" ELSE "off"
    /\ elapsed' = 0
    /\ UNCHANGED named

WNext == Watches \/ Submitted \/ Withdrawn \/ MovesOn \/ Stops \/ Starts

WSpec == WInit /\ [][WNext]_wvars
=============================================================================
