----------------------------- MODULE Publication -----------------------------
(***************************************************************************)
(* What is promised to the users of one pull request, who approve reviews  *)
(* and read what comes of it: a review that waits is taken by one          *)
(* approval, is never replaced by another and is lost only in a stop; an   *)
(* approval speaks on GitHub, then merges, then confirms in Slack, each at *)
(* most once and in this order.                                            *)
(***************************************************************************)
CONSTANTS
    RunIds,
    Approvals,
    Nobody  \* not an approval

VARIABLES
    inHand,  \* runs whose review waits for an approval
    has,     \* approvals that have taken a review
    voice,   \* what each approval has said last
    pr,      \* the pull request
    merger   \* the approval that merged it

pvars == <<inHand, has, voice, pr, merger>>

PInit ==
    /\ inHand = {}
    /\ has = {}
    /\ voice = [a \in Approvals |-> "silent"]
    /\ pr = "open"
    /\ merger = Nobody

\* Somebody else closes the pull request.
Close ==
    /\ pr = "open"
    /\ pr' = "closed"
    /\ UNCHANGED <<inHand, has, voice, merger>>

\* A review is written for a run that has none in hand.
Write(r) ==
    /\ r \notin inHand
    /\ inHand' = inHand \cup {r}
    /\ UNCHANGED <<has, voice, pr, merger>>

\* An approval takes a review out of hand, before it says anything.
Take(a, r) ==
    /\ r \in inHand
    /\ a \notin has
    /\ voice[a] = "silent"
    /\ inHand' = inHand \ {r}
    /\ has' = has \cup {a}
    /\ UNCHANGED <<voice, pr, merger>>

\* It comments on the pull request, with the review or with a text of its own.
Comment(a) ==
    /\ voice[a] = "silent"
    /\ voice' = [voice EXCEPT ![a] = "posted"]
    /\ UNCHANGED <<inHand, has, pr, merger>>

\* It merges only what it has commented on.
Merge(a) ==
    /\ voice[a] = "posted"
    /\ pr = "open"
    /\ pr' = "merged"
    /\ merger' = a
    /\ UNCHANGED <<inHand, has, voice>>

\* It confirms what it did; that it merged is not always known to it.
Confirm(a) ==
    /\ voice[a] = "posted"
    /\ \E v \in {"approved", "merged"} :
         /\ v = "merged" => merger = a
         /\ voice' = [voice EXCEPT ![a] = v]
    /\ UNCHANGED <<inHand, has, pr, merger>>

\* A stop loses every review in hand.
Stop ==
    /\ inHand' = {}
    /\ UNCHANGED <<has, voice, pr, merger>>

PNext ==
    \/ Close
    \/ \E r \in RunIds : Write(r) \/ \E a \in Approvals : Take(a, r)
    \/ \E a \in Approvals : Comment(a) \/ Merge(a) \/ Confirm(a)
    \/ Stop

PSpec == PInit /\ [][PNext]_pvars
=============================================================================
