------------------------- MODULE SlackSocketProofs -------------------------
(* Theorems about SlackSocket, for any number of envelopes, breaks and stops. *)
EXTENDS SlackSocket, TLAPS

\* On its way to its handler or there, or cut off from it.
Covered(e) == e \in handled \cup tasks \cup forgotten \/ (pc = "sent" /\ current = e)

\* Not only what Slack knows to be acknowledged is covered: so is what an
\* acknowledgement under way will make it take for that.
AcksAreCovered ==
    \A e \in Envelopes : slack[e] = "acknowledged" \/ e \in acks => Covered(e)

\* There is an envelope to acknowledge whenever the loop is at it.
CurrentIsThere == pc \in {"sending", "sent"} => current \in Envelopes

IInv == TypeOK /\ CurrentIsThere /\ AcksAreCovered

-----------------------------------------------------------------------------

LEMMA InitHolds == Init => IInv
  BY SocketAssumption DEF SocketAssumption, Init, IInv, TypeOK, CurrentIsThere, AcksAreCovered, Covered

\* What no step of Slack or of the loop takes away.
LEMMA CoverIsKept ==
    ASSUME IInv,
           slack' = slack, acks' \subseteq acks,
           \A e \in Envelopes : Covered(e) => Covered(e)'
    PROVE  AcksAreCovered'
  BY DEF IInv, AcksAreCovered

\* Slack moves, or an acknowledgement arrives: the loop stays where it is.
LEMMA NetworkStep ==
    ASSUME IInv, NEW e \in Envelopes, Raise(e) \/ Sends(e) \/ AckArrives(e)
    PROVE  IInv'
  <1>1. UNCHANGED <<loop, tasks, history>>
    BY DEF Raise, Sends, AckArrives
  <1>2. \A f \in Envelopes : Covered(f) => Covered(f)'
    BY <1>1 DEF Covered, loop, history
  <1>3. CurrentIsThere'
    BY <1>1 DEF IInv, CurrentIsThere, loop
  <1>4. TypeOK'
    <2>1. CASE Raise(e)
      BY <1>1, <2>1 DEF IInv, TypeOK, Raise, loop, history
    <2>2. CASE Sends(e)
      BY <1>1, <2>2 DEF IInv, TypeOK, Sends, loop, history
    <2>3. CASE AckArrives(e)
      BY <1>1, <2>3 DEF IInv, TypeOK, AckArrives, loop, history
    <2> QED
      BY <2>1, <2>2, <2>3
  <1>5. AcksAreCovered'
    <2>1. CASE Raise(e)
      BY <1>2, <2>1 DEF Raise, IInv, AcksAreCovered, TypeOK
    <2>2. CASE Sends(e)
      BY <1>2, <2>2, CoverIsKept DEF Sends
    <2>3. CASE AckArrives(e)
      BY <1>2, <2>3 DEF AckArrives, IInv, AcksAreCovered, TypeOK
    <2> QED
      BY <2>1, <2>2, <2>3
  <1> QED
    BY <1>3, <1>4, <1>5 DEF IInv

\* The connection is closed: what is under way only gets less.
LEMMA BreakStep ==
    ASSUME IInv, Breaks
    PROVE  IInv'
  <1>1. UNCHANGED <<slack, pc, current, tasks, handled, forgotten, crashes>> /\ acks' \subseteq acks
    BY DEF Breaks, loop
  <1>2. breaks' \in 0 .. MaxBreaks
    <2>1. breaks \in 0 .. MaxBreaks
      BY DEF IInv, TypeOK
    <2>2. breaks < MaxBreaks /\ breaks' = breaks + 1
      BY DEF Breaks
    <2> QED
      BY <2>1, <2>2, SocketAssumption DEF SocketAssumption
  <1>3. wire' \in SUBSET Envelopes /\ acks' \in SUBSET Envelopes /\ link' = "down"
    BY DEF IInv, TypeOK, Breaks
  <1>4. TypeOK'
    BY <1>1, <1>2, <1>3 DEF IInv, TypeOK
  <1>5. CurrentIsThere'
    BY <1>1 DEF IInv, CurrentIsThere
  <1>6. AcksAreCovered'
    BY <1>1, CoverIsKept DEF Covered
  <1> QED
    BY <1>4, <1>5, <1>6 DEF IInv

\* The loop asks for a connection, or receives: nothing is under way for a handler.
LEMMA ConnectionStep ==
    ASSUME IInv,
           \/ Connects \/ ConnectFails \/ BackoffEnds
           \/ (\E e \in Envelopes : Receive(e))
    PROVE  IInv'
  <1>1. TypeOK'
    BY DEF IInv, TypeOK, Connects, ConnectFails, BackoffEnds, Receive, network, history
  <1>2. CurrentIsThere'
    BY DEF IInv, CurrentIsThere, Connects, ConnectFails, BackoffEnds, Receive
  <1>3. UNCHANGED <<slack, acks, tasks, handled, forgotten>> /\ pc # "sent"
    BY DEF Connects, ConnectFails, BackoffEnds, Receive, network, history
  <1>4. AcksAreCovered'
    BY <1>3, CoverIsKept DEF Covered
  <1> QED
    BY <1>1, <1>2, <1>4 DEF IInv

\* The loop loses its connection, before or after the acknowledgement left.
LEMMA LeavingStep ==
    ASSUME IInv, ReceiveRaises \/ AckRaises \/ AckRaisesLate
    PROVE  IInv'
  <1>1. TypeOK'
    BY DEF IInv, TypeOK, CurrentIsThere, ReceiveRaises, AckRaises, AckRaisesLate, Leaves
  <1>2. CurrentIsThere'
    BY DEF CurrentIsThere, ReceiveRaises, AckRaises, AckRaisesLate, Leaves
  <1>3. \A e \in Envelopes : Covered(e) => Covered(e)'
    BY DEF Covered, ReceiveRaises, AckRaises, AckRaisesLate, Leaves
  <1>4. AcksAreCovered'
    BY <1>3, CoverIsKept DEF ReceiveRaises, AckRaises, AckRaisesLate, Leaves
  <1> QED
    BY <1>1, <1>2, <1>4 DEF IInv

\* The acknowledgement leaves: from here on the loop owes the payload a task.
LEMMA AckStep ==
    ASSUME IInv, Ack
    PROVE  IInv'
  <1>1. TypeOK' /\ CurrentIsThere'
    BY DEF IInv, TypeOK, CurrentIsThere, Ack, history
  <1>2. \A e \in Envelopes : Covered(e) => Covered(e)'
    BY DEF Covered, Ack, history
  <1>3. AcksAreCovered'
    BY <1>2 DEF Ack, IInv, AcksAreCovered, Covered
  <1> QED
    BY <1>1, <1>3 DEF IInv

\* The payload gets its task, or the task runs.
LEMMA TaskStep ==
    ASSUME IInv, Dispatch \/ (\E e \in Envelopes : Handle(e))
    PROVE  IInv'
  <1>1. TypeOK'
    BY DEF IInv, TypeOK, CurrentIsThere, Dispatch, Handle, network, loop, history
  <1>2. CurrentIsThere'
    BY DEF IInv, CurrentIsThere, Dispatch, Handle, loop
  <1>3. \A e \in Envelopes : Covered(e) => Covered(e)'
    BY DEF Covered, Dispatch, Handle, loop, history
  <1>4. AcksAreCovered'
    BY <1>3, CoverIsKept DEF Dispatch, Handle, network
  <1> QED
    BY <1>1, <1>2, <1>4 DEF IInv

\* A stop cuts off what has a task, and what is owed one.
LEMMA RestartStep ==
    ASSUME IInv, Restart
    PROVE  IInv'
  <1>1. TypeOK' /\ CurrentIsThere'
    <2>1. crashes' \in 0 .. MaxCrashes
      <3>1. crashes \in 0 .. MaxCrashes
        BY DEF IInv, TypeOK
      <3>2. crashes < MaxCrashes /\ crashes' = crashes + 1
        BY DEF Restart
      <3> QED
        BY <3>1, <3>2, SocketAssumption DEF SocketAssumption
    <2>2. forgotten' \in SUBSET Envelopes
      BY DEF IInv, TypeOK, CurrentIsThere, Restart
    <2>3. acks' \in SUBSET Envelopes /\ wire' \in SUBSET Envelopes /\ tasks' \in SUBSET Envelopes
      BY DEF IInv, TypeOK, Restart
    <2> QED
      BY <2>1, <2>2, <2>3 DEF IInv, TypeOK, CurrentIsThere, Restart
  <1>2. \A e \in Envelopes : Covered(e) => Covered(e)'
    BY DEF Covered, Restart
  <1>3. AcksAreCovered'
    BY <1>2, CoverIsKept DEF Restart
  <1> QED
    BY <1>1, <1>3 DEF IInv

LEMMA StepHolds == IInv /\ [Next]_vars => IInv'
  <1> SUFFICES ASSUME IInv, [Next]_vars PROVE IInv'
    OBVIOUS
  <1>1. CASE Next
    <2>1. CASE \E e \in Envelopes : Raise(e) \/ Sends(e) \/ AckArrives(e) \/ Handle(e)
      BY <2>1, NetworkStep, TaskStep
    <2>2. CASE Breaks \/ Restart
      BY <2>2, BreakStep, RestartStep
    <2>3. CASE Connects \/ Loops
      BY <2>3, ConnectionStep, LeavingStep, AckStep, TaskStep DEF Loops
    <2> QED
      BY <1>1, <2>1, <2>2, <2>3 DEF Next
  <1>2. CASE UNCHANGED vars
    BY <1>2 DEF vars, network, loop, history, IInv, TypeOK, CurrentIsThere, AcksAreCovered, Covered
  <1> QED
    BY <1>1, <1>2

\* What an acknowledgement under way promises is kept, after every step.
THEOREM SocketInvariant == Spec => []IInv
  BY InitHolds, StepHolds, PTL DEF Spec

\* Every variable of the socket client keeps its type: the loop never ends while the
\* process runs.
THEOREM TypeCorrect == Spec => []TypeOK
  <1>1. IInv => TypeOK
    BY DEF IInv
  <1> QED
    BY <1>1, SocketInvariant, PTL

\* Slack is never told to forget an envelope that is not handled, on its way to its
\* handler, or cut off by a stop or a closed connection.
THEOREM AcknowledgementsAreKept == Spec => []AcknowledgedIsHandled
  <1>1. IInv => AcknowledgedIsHandled
    BY DEF IInv, AcksAreCovered, Covered, AcknowledgedIsHandled
  <1> QED
    BY <1>1, SocketInvariant, PTL

\* Without stops and closed connections nothing is cut off: every acknowledged envelope
\* is handled or on its way to its handler.
Unbroken == breaks = 0 /\ crashes = 0

THEOREM UnbrokenForgetsNothing == Spec => [](Unbroken => forgotten = {})
  <1> DEFINE J == (Unbroken => forgotten = {} /\ (link = "down" => pc \notin {"receiving", "sending", "sent"}))
  <1>1. Init => J
    BY DEF Init
  <1>2. IInv /\ J /\ [Next]_vars => J'
    <2> SUFFICES ASSUME IInv, J, [Next]_vars PROVE J'
      OBVIOUS
    <2>1. breaks \in Nat /\ crashes \in Nat
      <3>1. breaks \in 0 .. MaxBreaks /\ crashes \in 0 .. MaxCrashes
        BY DEF IInv, TypeOK
      <3> QED
        BY <3>1, SocketAssumption DEF SocketAssumption
    <2>2. CASE Restart \/ Breaks
      BY <2>1, <2>2 DEF Restart, Breaks, Unbroken
    <2>3. CASE \E e \in Envelopes : Raise(e) \/ Sends(e) \/ AckArrives(e) \/ Handle(e)
      BY <2>3 DEF Raise, Sends, AckArrives, Handle, network, loop, history, Unbroken
    <2>4. CASE Connects \/ ConnectFails \/ BackoffEnds \/ (\E e \in Envelopes : Receive(e))
      BY <2>4 DEF Connects, ConnectFails, BackoffEnds, Receive, network, history, Unbroken
    <2>5. CASE ReceiveRaises \/ AckRaises \/ AckRaisesLate
      BY <2>5 DEF ReceiveRaises, AckRaises, AckRaisesLate, Leaves, Unbroken
    <2>6. CASE Ack \/ Dispatch
      BY <2>6 DEF Ack, Dispatch, network, history, Unbroken
    <2>7. CASE UNCHANGED vars
      BY <2>7 DEF vars, network, loop, history, Unbroken
    <2> QED
      BY <2>2, <2>3, <2>4, <2>5, <2>6, <2>7 DEF Next, Loops
  <1>3. J => (Unbroken => forgotten = {})
    OBVIOUS
  <1> QED
    BY <1>1, <1>2, <1>3, SocketInvariant, PTL DEF Spec
=============================================================================
