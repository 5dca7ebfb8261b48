----------------------------- MODULE Registrar -----------------------------
(***************************************************************************)
(* The webhook registrar (webhook/registrar.py): a loop that reads the     *)
(* public URL of the tunnel and then, one managed repository after the     *)
(* other, lists the hooks, creates the one that is missing and re-points   *)
(* the one that has another URL, through GitHubClient and its retries      *)
(* (github/client.py).                                                     *)
(*                                                                         *)
(* The tunnel moves, people delete hooks, and the process stops, between   *)
(* any two calls; a call that GitHub carried out may lose its answer.      *)
(* A call that was cut off has its effect at once or never.  The hooks of  *)
(* other services, whose path is another one, are left out.                *)
(***************************************************************************)
EXTENDS Integers, Sequences

CONSTANTS
    Repos,       \* repositories
    Order,       \* the enabled ones, as the configuration lists them
    Reachable,   \* those whose hooks GitHub lets the token read and write
    MaxTries,    \* calls until a rate limit is an error
    MaxMoves,    \* bound: URLs of the tunnel after the first
    MaxDeleted,  \* bound: how often somebody deletes a hook
    MaxCrashes   \* bound: how often the process stops

ASSUME RegistrarAssumption ==
    /\ Order \in Seq(Repos)
    /\ Reachable \subseteq Repos
    /\ MaxTries \in Nat \ {0}
    /\ MaxMoves \in Nat
    /\ MaxDeleted \in Nat
    /\ MaxCrashes \in Nat

VARIABLES
    url,       \* the public URL of the tunnel: how often it moved
    secret,    \* the secret of this life of the process
    hooks,     \* the hooks at GitHub with the path of the app, oldest first
    desired,   \* the URL of this round
    todo,      \* the repositories of this round, the current one first
    call,      \* what is awaited
    attempt,   \* which try of the call it is
    boot,      \* history: the URL when this life began
    deleted,   \* history: hooks somebody deleted
    crashes    \* history: stops

vars == <<url, secret, hooks, desired, todo, call, attempt, boot, deleted, crashes>>

NoSecret == 0
Urls == 0 .. MaxMoves
Secrets == 1 .. MaxCrashes + 1
Hooks == [url : Urls, secret : Secrets \cup {NoSecret}]

TypeOK ==
    /\ url \in Urls
    /\ secret \in Secrets
    /\ hooks \in [Repos -> Seq(Hooks)]
    /\ desired \in Urls
    /\ todo \in Seq(Repos)
    /\ call \in {"none", "list", "create", "update"}
    /\ attempt \in 1 .. MaxTries
    /\ boot \in Urls
    /\ deleted \in 0 .. MaxDeleted
    /\ crashes \in 0 .. MaxCrashes

\* Hooks of earlier days may be there, for the URL of that day.
Init ==
    /\ url \in 0 .. (IF MaxMoves = 0 THEN 0 ELSE 1)
    /\ secret = 1
    /\ hooks \in [Repos -> {<<>>, <<[url |-> 0, secret |-> 1]>>}]
    /\ desired = 0
    /\ todo = <<>>
    /\ call = "none"
    /\ attempt = 1
    /\ boot = url
    /\ deleted = 0
    /\ crashes = 0

-----------------------------------------------------------------------------
(* reconcile *)

Repo == Head(todo)

Calls(c) == call' = c /\ attempt' = 1

\* The next repository, or the sleep until the next round.
GoesOn ==
    /\ todo' = Tail(todo)
    /\ Calls(IF Tail(todo) = <<>> THEN "none" ELSE "list")

\* tunnel_public_url answers; as long as it does not, rounds end here.
RoundBegins ==
    /\ call = "none"
    /\ Order # <<>>
    /\ desired' = url
    /\ todo' = Order
    /\ Calls("list")
    /\ UNCHANGED <<url, secret, hooks, boot, deleted, crashes>>

(* _ensure *)

\* list_webhooks; the first hook with the path is the app's.
Listed ==
    /\ call = "list"
    /\ \/ /\ hooks[Repo] = <<>>
          /\ Calls("create")
          /\ UNCHANGED todo
       \/ /\ hooks[Repo] # <<>>
          /\ hooks[Repo][1].url = desired
          /\ GoesOn
       \/ /\ hooks[Repo] # <<>>
          /\ hooks[Repo][1].url # desired
          /\ Calls("update")
          /\ UNCHANGED todo
    /\ UNCHANGED <<url, secret, hooks, desired, boot, deleted, crashes>>

NewHook == [url |-> desired, secret |-> secret]

\* create_webhook, as GitHub carries it out.
Creates == call = "create" /\ hooks' = [hooks EXCEPT ![Repo] = Append(@, NewHook)]

\* Mutant: only the URL is sent.
RepointsUnsigned ==
    /\ call = "update"
    /\ hooks[Repo] # <<>>
    /\ hooks' = [hooks EXCEPT ![Repo][1] = [url |-> desired, secret |-> NoSecret]]

\* update_webhook, of the hook that was listed, if it is still there.  The secret is
\* sent again, for the fields that are not sent are lost.
Repoints ==
    /\ call = "update"
    /\ hooks[Repo] # <<>>
    /\ hooks' = [hooks EXCEPT ![Repo][1] = NewHook]

\* GitHub does what was asked.  Whether its answer arrives or the exception does is
\* the same: reconcile goes on with the next repository.
Written ==
    /\ Creates \/ Repoints
    /\ GoesOn
    /\ UNCHANGED <<url, secret, desired, boot, deleted, crashes>>

\* 403 and 429: the same call again, after a delay.
Refused ==
    /\ call # "none"
    /\ attempt < MaxTries
    /\ attempt' = attempt + 1
    /\ UNCHANGED <<url, secret, hooks, desired, todo, call, boot, deleted, crashes>>

\* Mutant: the exception ends the round.
FailsForAll ==
    /\ call # "none"
    /\ todo' = <<>>
    /\ Calls("none")
    /\ UNCHANGED <<url, secret, hooks, desired, boot, deleted, crashes>>

\* Mutant: a list that fails is an empty one, as it is for list_open_prs.
FailsEmpty ==
    /\ call # "none"
    /\ \/ call = "list" /\ Calls("create") /\ UNCHANGED todo
       \/ call # "list" /\ GoesOn
    /\ UNCHANGED <<url, secret, hooks, desired, boot, deleted, crashes>>

\* Another status, a refusal of the last try, no connection: the exception ends the
\* repository's turn.
Fails ==
    /\ call # "none"
    /\ GoesOn
    /\ UNCHANGED <<url, secret, hooks, desired, boot, deleted, crashes>>

-----------------------------------------------------------------------------
(* The world *)

TunnelMoves ==
    /\ url < MaxMoves
    /\ url' = url + 1
    /\ UNCHANGED <<secret, hooks, desired, todo, call, attempt, boot, deleted, crashes>>

HookDeleted(r) ==
    /\ deleted < MaxDeleted
    /\ deleted' = deleted + 1
    /\ hooks[r] # <<>>
    /\ hooks' = [hooks EXCEPT ![r] = <<>>]
    /\ UNCHANGED <<url, secret, desired, todo, call, attempt, boot, crashes>>

\* The process stops, a call that was under way done or not, and starts again, with the
\* secret it had or with another one; the first round begins at once.
Restart ==
    /\ crashes < MaxCrashes
    /\ crashes' = crashes + 1
    /\ Creates \/ Repoints \/ UNCHANGED hooks
    /\ secret' \in {secret, secret + 1}
    /\ boot' = url
    /\ todo' = <<>>
    /\ Calls("none")
    /\ UNCHANGED <<url, desired, deleted>>

Registers == RoundBegins \/ Listed \/ Written \/ Refused \/ Fails

Next ==
    \/ Registers
    \/ TunnelMoves
    \/ \E r \in Repos : HookDeleted(r)
    \/ Restart

Spec == Init /\ [][Next]_vars

\* The loop goes on, and a repository that can be reached answers now and then.
Fairness ==
    /\ WF_vars(Registers)
    /\ SF_vars(RoundBegins)
    /\ \A r \in Reachable :
         SF_vars(call = "list" /\ Repo = r /\ Listed) /\ SF_vars(call # "none" /\ Repo = r /\ Written)

FairSpec == Spec /\ Fairness

-----------------------------------------------------------------------------
(* Properties *)

\* A repository never gets a second hook of the app, whatever calls fail or lose their
\* answer: reconcile re-points the first one only, and a second would go on delivering
\* to a tunnel that is gone.
OneHookEach == \A r \in Repos : Len(hooks[r]) <= 1

\* A hook that points to a URL the tunnel got in this life of the process is signed with
\* the secret the process verifies, after whatever restarts and half-done rounds.
SignedSinceBoot ==
    \A r \in Repos : \A n \in DOMAIN hooks[r] :
        hooks[r][n].url > boot => hooks[r][n].secret = secret

\* Once the tunnel rests, the hook of every repository that can be reached points to it
\* for good, though the tunnel moves within a round, calls fail, hooks are deleted, the
\* process is restarted, and the calls for another repository never succeed.
HooksFollowTheTunnel ==
    \A r \in Reachable : <>[](hooks[r] # <<>> /\ hooks[r][1].url = url)
=============================================================================
