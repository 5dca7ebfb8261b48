---------------------------- MODULE SlackSocket ----------------------------
(***************************************************************************)
(* The Slack socket client (webhook/slack_socket.py): a loop that asks for *)
(* a connection, receives envelopes over it, acknowledges each and starts  *)
(* a task for its payload, and connects again when the connection is gone. *)
(*                                                                         *)
(* Slack sends an envelope until an acknowledgement of it arrives.  One    *)
(* action is what runs between two awaits; ws.send is two, for the         *)
(* acknowledgement may have left when it raises.  What a task does with    *)
(* its payload, any number of times, is in Release and Intake.  The client *)
(* is configured, and every envelope is of a type that it dispatches.      *)
(***************************************************************************)
EXTENDS Integers

CONSTANTS
    Envelopes,   \* what users do in Slack, each an envelope
    NoEnvelope,  \* not an envelope
    MaxBreaks,   \* bound: how often the connection is closed
    MaxCrashes   \* bound: how often the process stops

ASSUME SocketAssumption ==
    /\ NoEnvelope \notin Envelopes
    /\ MaxBreaks \in Nat
    /\ MaxCrashes \in Nat

VARIABLES
    slack,      \* Slack: what it knows of each envelope
    link,       \* the connection
    wire,       \* envelopes that were sent and not received yet
    acks,       \* acknowledgements that were sent and have not arrived
    pc,         \* where _loop is
    current,    \* the envelope _loop has received
    tasks,      \* payloads whose task has not run yet
    handled,    \* history: envelopes whose payload was handled
    forgotten,  \* history: envelopes a stop or a closed connection cut off from their task
    breaks,     \* history: connections that were closed
    crashes     \* history: stops

network == <<slack, link, wire, acks>>
loop == <<pc, current>>
history == <<handled, forgotten, breaks, crashes>>
vars == <<network, loop, tasks, history>>

TypeOK ==
    /\ slack \in [Envelopes -> {"unraised", "open", "acknowledged"}]
    /\ link \in {"up", "down"}
    /\ wire \in SUBSET Envelopes
    /\ acks \in SUBSET Envelopes
    /\ pc \in {"connecting", "backing off", "receiving", "sending", "sent"}
    /\ current \in Envelopes \cup {NoEnvelope}
    /\ tasks \in SUBSET Envelopes
    /\ handled \in SUBSET Envelopes
    /\ forgotten \in SUBSET Envelopes
    /\ breaks \in 0 .. MaxBreaks
    /\ crashes \in 0 .. MaxCrashes

Init ==
    /\ slack = [e \in Envelopes |-> "unraised"]
    /\ link = "down"
    /\ wire = {}
    /\ acks = {}
    /\ pc = "connecting"
    /\ current = NoEnvelope
    /\ tasks = {}
    /\ handled = {}
    /\ forgotten = {}
    /\ breaks = 0
    /\ crashes = 0

-----------------------------------------------------------------------------
(* Slack and the connection *)

Raise(e) ==
    /\ slack[e] = "unraised"
    /\ slack' = [slack EXCEPT ![e] = "open"]
    /\ UNCHANGED <<link, wire, acks, loop, tasks, history>>

\* Slack sends what is not acknowledged, and sends it again.
Sends(e) ==
    /\ link = "up"
    /\ slack[e] = "open"
    /\ wire' = wire \cup {e}
    /\ UNCHANGED <<slack, link, acks, loop, tasks, history>>

AckArrives(e) ==
    /\ e \in acks
    /\ acks' = acks \ {e}
    /\ slack' = [slack EXCEPT ![e] = "acknowledged"]
    /\ UNCHANGED <<link, wire, loop, tasks, history>>

\* The connection is closed, by Slack or by the network; what is under way in either
\* direction arrives or is lost.
Breaks ==
    /\ link = "up"
    /\ breaks < MaxBreaks
    /\ breaks' = breaks + 1
    /\ link' = "down"
    /\ wire' \in SUBSET wire
    /\ acks' \in SUBSET acks
    /\ UNCHANGED <<slack, loop, tasks, handled, forgotten, crashes>>

-----------------------------------------------------------------------------
(* _loop *)

\* apps.connections.open answers with a URL, and the connection is there.
Connects ==
    /\ pc = "connecting"
    /\ link' = "up"
    /\ pc' = "receiving"
    /\ UNCHANGED <<slack, wire, acks, current, tasks, history>>

\* Mutant: the exception ends the loop.
ConnectFailsForGood ==
    /\ pc = "connecting"
    /\ pc' = "off"
    /\ UNCHANGED <<network, current, tasks, history>>

\* Either of the two raises.
ConnectFails ==
    /\ pc = "connecting"
    /\ pc' = "backing off"
    /\ UNCHANGED <<network, current, tasks, history>>

BackoffEnds ==
    /\ pc = "backing off"
    /\ pc' = "connecting"
    /\ UNCHANGED <<network, current, tasks, history>>

\* recv, also of what came before the connection was closed.
Receive(e) ==
    /\ pc = "receiving"
    /\ e \in wire
    /\ wire' = wire \ {e}
    /\ current' = e
    /\ pc' = "sending"
    /\ UNCHANGED <<slack, link, acks, tasks, history>>

\* ConnectionClosed: the loop connects again at once.
Leaves ==
    /\ link = "down"
    /\ wire' = {}
    /\ current' = NoEnvelope
    /\ pc' = "connecting"
    /\ UNCHANGED <<slack, link, acks, tasks, handled, breaks, crashes>>

ReceiveRaises == pc = "receiving" /\ wire = {} /\ Leaves /\ UNCHANGED forgotten

\* The acknowledgement leaves before the payload has its task.
Ack ==
    /\ pc = "sending"
    /\ link = "up"
    /\ acks' = acks \cup {current}
    /\ pc' = "sent"
    /\ UNCHANGED <<slack, link, wire, current, tasks, history>>

\* send raises: nothing has left, and Slack will send the envelope again.
AckRaises == pc = "sending" /\ Leaves /\ UNCHANGED forgotten

\* send raises when the acknowledgement has left.
AckRaisesLate == pc = "sent" /\ Leaves /\ forgotten' = forgotten \cup {current}

\* Mutant: one task at a time, and no queue.
DispatchWhenIdle ==
    /\ pc = "sent"
    /\ tasks' = IF tasks = {} THEN {current} ELSE tasks
    /\ current' = NoEnvelope
    /\ pc' = "receiving"
    /\ UNCHANGED <<network, history>>

Dispatch ==
    /\ pc = "sent"
    /\ tasks' = tasks \cup {current}
    /\ current' = NoEnvelope
    /\ pc' = "receiving"
    /\ UNCHANGED <<network, history>>

\* The event handler of the application.
Handle(e) ==
    /\ e \in tasks
    /\ tasks' = tasks \ {e}
    /\ handled' = handled \cup {e}
    /\ UNCHANGED <<network, loop, forgotten, breaks, crashes>>

-----------------------------------------------------------------------------

\* The process stops, with its tasks, and starts again.
Restart ==
    /\ crashes < MaxCrashes
    /\ crashes' = crashes + 1
    /\ forgotten' = forgotten \cup tasks \cup (IF pc = "sent" THEN {current} ELSE {})
    /\ tasks' = {}
    /\ link' = "down"
    /\ wire' = {}
    /\ acks' \in SUBSET acks
    /\ pc' = "connecting"
    /\ current' = NoEnvelope
    /\ UNCHANGED <<slack, handled, breaks>>

Loops ==
    \/ ConnectFails \/ BackoffEnds
    \/ (\E e \in Envelopes : Receive(e)) \/ ReceiveRaises
    \/ Ack \/ AckRaises \/ AckRaisesLate \/ Dispatch

Next ==
    \/ \E e \in Envelopes : Raise(e) \/ Sends(e) \/ AckArrives(e) \/ Handle(e)
    \/ Breaks
    \/ Connects \/ Loops
    \/ Restart

Spec == Init /\ [][Next]_vars

\* The loop and its tasks go on, Slack sends what is open, what was sent on a connection
\* that lasts arrives, and of connections that are asked for again and again one is there.
Fairness ==
    /\ WF_vars(Loops)
    /\ SF_vars(Connects)
    /\ \A e \in Envelopes :
         WF_vars(Sends(e)) /\ WF_vars(AckArrives(e)) /\ WF_vars(Handle(e))

FairSpec == Spec /\ Fairness

-----------------------------------------------------------------------------
(* Properties *)

\* What Slack will not send again is on its way to its handler or was there, though the
\* acknowledgement leaves before there is a task: but for a stop, or a connection that
\* was closed, in between.
AcknowledgedIsHandled ==
    \A e \in Envelopes : slack[e] = "acknowledged" =>
        e \in handled \cup tasks \cup forgotten \/ (pc = "sent" /\ current = e)

\* What a user does in Slack is handled, unless a stop or a closed connection cuts it off
\* from its task, through any number of refused and broken connections.
EveryEnvelopeArrives ==
    \A e \in Envelopes : slack[e] = "open" ~> e \in handled \cup forgotten
=============================================================================
