-------------------------- MODULE RegistrarProofs --------------------------
(***************************************************************************)
(* The hooks of Registrar, proved for every list of repositories, every    *)
(* number of tries and any number of moves, deletions and restarts.        *)
(***************************************************************************)
EXTENDS Registrar, TLAPS

\* A call is awaited exactly as long as the round has a repository.
RoundGoesOn == (call = "none") <=> (todo = <<>>)

\* No URL is ahead of the tunnel, and no hook ahead of the round.
NothingIsAhead ==
    /\ boot <= url
    /\ desired <= url
    /\ \A r \in Repos : \A n \in DOMAIN hooks[r] : hooks[r][n].url <= desired

\* Only a restart changes the secret.
SecretsAreCounted == secret <= crashes + 1

\* What is about to be created is not there.
CreatesTheFirst == call = "create" => hooks[Repo] = <<>>

IInv ==
    /\ TypeOK
    /\ RoundGoesOn
    /\ NothingIsAhead
    /\ SecretsAreCounted
    /\ CreatesTheFirst
    /\ OneHookEach
    /\ SignedSinceBoot

-----------------------------------------------------------------------------

\* The rest of a round is a round.
LEMMA RestOfTheRound ==
    ASSUME TypeOK, RoundGoesOn, call # "none"
    PROVE  Repo \in Repos /\ Tail(todo) \in Seq(Repos)
  BY DEF TypeOK, RoundGoesOn, Repo

\* A turn that ends leaves a round or the sleep, with the first try of the next call.
LEMMA TurnEnds ==
    ASSUME TypeOK, RoundGoesOn, call # "none", GoesOn
    PROVE  /\ todo' \in Seq(Repos)
           /\ call' \in {"none", "list"}
           /\ attempt' \in 1 .. MaxTries
           /\ RoundGoesOn'
  BY RestOfTheRound, RegistrarAssumption DEF GoesOn, Calls, RoundGoesOn

\* What is written is a hook for the URL of the round with the secret of the process,
\* the only one of its repository.
LEMMA WrittenHook ==
    ASSUME IInv, Creates \/ Repoints
    PROVE  /\ Repo \in Repos
           /\ NewHook \in Hooks
           /\ hooks' = [hooks EXCEPT ![Repo] = <<NewHook>>]
  <1>1. /\ call # "none" /\ hooks \in [Repos -> Seq(Hooks)]
        /\ desired \in Urls /\ secret \in Secrets
    BY DEF Creates, Repoints, IInv, TypeOK
  <1>2. Repo \in Repos
    BY <1>1, RestOfTheRound DEF IInv
  <1>3. NewHook \in Hooks
    BY <1>1 DEF NewHook, Hooks
  <1>4. CASE Creates
    <2>1. hooks[Repo] = <<>>
      BY <1>4 DEF Creates, IInv, CreatesTheFirst
    <2>2. Append(hooks[Repo], NewHook) = <<NewHook>>
      BY <1>3, <2>1
    <2> QED
      BY <1>2, <1>3, <1>4, <2>2 DEF Creates
  <1>5. CASE Repoints
    <2>1. hooks[Repo] \in Seq(Hooks) /\ hooks[Repo] # <<>> /\ Len(hooks[Repo]) <= 1
      BY <1>1, <1>2, <1>5 DEF Repoints, IInv, OneHookEach
    <2>2. [hooks[Repo] EXCEPT ![1] = NewHook] = <<NewHook>>
      BY <1>3, <2>1
    <2>3. hooks' = [hooks EXCEPT ![Repo] = [hooks[Repo] EXCEPT ![1] = NewHook]]
      BY <1>5 DEF Repoints
    <2> QED
      BY <1>2, <1>3, <2>2, <2>3
  <1> QED
    BY <1>2, <1>3, <1>4, <1>5

\* A written hook keeps the invariant's parts about the hooks.
LEMMA WriteKeepsHooks ==
    ASSUME IInv, Creates \/ Repoints
    PROVE  /\ hooks' \in [Repos -> Seq(Hooks)]
           /\ \A r \in Repos : Len(hooks'[r]) <= 1
           /\ \A r \in Repos : \A n \in DOMAIN hooks'[r] :
                /\ hooks'[r][n].url <= desired
                /\ hooks'[r][n].url > boot => hooks'[r][n].secret = secret
  <1>0. Repo \in Repos /\ NewHook \in Hooks /\ hooks' = [hooks EXCEPT ![Repo] = <<NewHook>>]
    BY WrittenHook
  <1>1. hooks \in [Repos -> Seq(Hooks)] /\ desired \in Int
    BY DEF IInv, TypeOK, Urls
  <1>2. hooks' \in [Repos -> Seq(Hooks)]
    BY <1>0, <1>1
  <1>3. ASSUME NEW r \in Repos, r # Repo
        PROVE  hooks'[r] = hooks[r]
    BY <1>0, <1>1, <1>3
  <1>4. hooks'[Repo] = <<NewHook>>
    BY <1>0, <1>1
  <1>5. NewHook.url = desired /\ NewHook.secret = secret
    BY DEF NewHook
  <1>6. ASSUME NEW r \in Repos PROVE Len(hooks'[r]) <= 1
    <2>1. Len(<<NewHook>>) = 1
      OBVIOUS
    <2>2. CASE r = Repo
      <3>1. hooks'[r] = <<NewHook>>
        BY <1>4, <2>2
      <3>2. Len(hooks'[r]) = 1
        BY <2>1, <3>1
      <3> QED
        BY <3>2
    <2>3. CASE r # Repo
      <3>1. Len(hooks[r]) <= 1
        BY DEF IInv, OneHookEach
      <3> QED
        BY <1>3, <1>6, <2>3, <3>1
    <2> QED
      BY <2>2, <2>3
  <1>7. ASSUME NEW r \in Repos, NEW n \in DOMAIN hooks'[r]
        PROVE  /\ hooks'[r][n].url <= desired
               /\ hooks'[r][n].url > boot => hooks'[r][n].secret = secret
    <2>1. CASE r = Repo
      <3>1. hooks'[r][n] = NewHook
        BY <1>4, <1>7, <2>1
      <3> QED
        BY <1>1, <1>5, <3>1
    <2>2. CASE r # Repo
      BY <1>3, <1>7, <2>2 DEF IInv, NothingIsAhead, SignedSinceBoot
    <2> QED
      BY <2>1, <2>2
  <1> QED
    BY <1>2, <1>6, <1>7

\* The first round begins with nothing done.
LEMMA Begins == Init => IInv
  <1> SUFFICES ASSUME Init PROVE IInv
    OBVIOUS
  <1>0. \A r \in Repos : hooks[r] \in {<<>>, <<[url |-> 0, secret |-> 1]>>}
    BY DEF Init
  <1>1. [url |-> 0, secret |-> 1] \in Hooks /\ url \in Urls /\ 0 \in Urls
    BY RegistrarAssumption DEF Init, Hooks, Urls, Secrets
  <1>2. TypeOK
    <2>1. \A h \in Hooks : <<h>> \in Seq(Hooks)
      OBVIOUS
    <2>2. {<<>>, <<[url |-> 0, secret |-> 1]>>} \subseteq Seq(Hooks)
      BY <1>1, <2>1
    <2>3. hooks \in [Repos -> Seq(Hooks)]
      BY <2>2 DEF Init
    <2> QED
      BY <1>1, <2>3, RegistrarAssumption DEF Init, TypeOK, Secrets
  <1>3. \A r \in Repos : \A n \in DOMAIN hooks[r] : hooks[r][n].url = 0
    BY <1>0
  <1>4. NothingIsAhead /\ SignedSinceBoot
    BY <1>1, <1>3 DEF Init, NothingIsAhead, SignedSinceBoot, Urls
  <1>5. OneHookEach
    <2> SUFFICES ASSUME NEW r \in Repos PROVE Len(hooks[r]) <= 1
      BY DEF OneHookEach
    <2>1. CASE hooks[r] = <<>>
      BY <2>1
    <2>2. CASE hooks[r] = <<[url |-> 0, secret |-> 1]>>
      BY <2>2
    <2> QED
      BY <1>0, <2>1, <2>2
  <1> QED
    BY <1>2, <1>4, <1>5 DEF Init, IInv, RoundGoesOn, SecretsAreCounted, CreatesTheFirst

\* Every step keeps the invariant.
LEMMA Keeps == IInv /\ [Next]_vars => IInv'
  <1> SUFFICES ASSUME IInv, [Next]_vars PROVE IInv'
    OBVIOUS
  <1>0. TypeOK /\ RoundGoesOn /\ NothingIsAhead /\ SecretsAreCounted
        /\ CreatesTheFirst /\ OneHookEach /\ SignedSinceBoot
    BY DEF IInv
  <1>a. /\ url \in Nat /\ boot \in Nat /\ desired \in Nat /\ MaxTries \in Nat \ {0}
        /\ \A r \in Repos : \A n \in DOMAIN hooks[r] : hooks[r][n].url \in Nat
    <2>1. \A r \in Repos : \A n \in DOMAIN hooks[r] : hooks[r][n] \in Hooks
      BY <1>0 DEF TypeOK
    <2> QED
      BY <1>0, <2>1, RegistrarAssumption DEF TypeOK, Hooks, Urls
  <1>1. CASE RoundBegins
    <2>1. TypeOK'
      BY <1>0, <1>1, RegistrarAssumption DEF RoundBegins, Calls, TypeOK
    <2>2. NothingIsAhead'
      BY <1>0, <1>1, <1>a DEF RoundBegins, NothingIsAhead
    <2> QED
      BY <1>0, <1>1, <2>1, <2>2
      DEF RoundBegins, Calls, IInv, RoundGoesOn, SecretsAreCounted, CreatesTheFirst, OneHookEach, SignedSinceBoot
  <1>2. CASE Listed
    <2>1. /\ todo' \in Seq(Repos) /\ call' \in {"none", "list", "create", "update"}
          /\ attempt' \in 1 .. MaxTries /\ RoundGoesOn' /\ CreatesTheFirst'
      <3>1. CASE GoesOn
        BY <1>0, <1>2, <3>1, TurnEnds DEF Listed, CreatesTheFirst
      <3>2. CASE Calls("create") /\ UNCHANGED todo /\ hooks[Repo] = <<>>
        BY <1>0, <1>2, <1>a, <3>2 DEF Listed, Calls, CreatesTheFirst, RoundGoesOn, TypeOK, Repo
      <3>3. CASE Calls("update") /\ UNCHANGED todo
        BY <1>0, <1>2, <1>a, <3>3 DEF Listed, Calls, CreatesTheFirst, RoundGoesOn, TypeOK
      <3> QED
        BY <1>2, <3>1, <3>2, <3>3 DEF Listed
    <2> QED
      BY <1>0, <1>2, <2>1
      DEF Listed, IInv, TypeOK, NothingIsAhead, SecretsAreCounted, OneHookEach, SignedSinceBoot
  <1>3. CASE Written
    <2>1. call # "none" /\ GoesOn
      BY <1>3 DEF Written, Creates, Repoints
    <2>2. CreatesTheFirst'
      BY <1>0, <2>1, TurnEnds DEF CreatesTheFirst
    <2>3. Creates \/ Repoints
      BY <1>3 DEF Written
    <2>4. OneHookEach' /\ NothingIsAhead' /\ SignedSinceBoot'
      BY <1>0, <1>3, <2>3, WriteKeepsHooks DEF Written, OneHookEach, NothingIsAhead, SignedSinceBoot
    <2>5. TypeOK'
      BY <1>0, <1>3, <2>1, <2>3, TurnEnds, WriteKeepsHooks DEF Written, TypeOK
    <2> QED
      BY <1>0, <1>3, <2>1, <2>2, <2>4, <2>5, TurnEnds DEF Written, IInv, SecretsAreCounted
  <1>4. CASE Refused
    <2>1. attempt' \in 1 .. MaxTries
      BY <1>0, <1>4, <1>a DEF Refused, TypeOK
    <2> QED
      BY <1>0, <1>4, <2>1 DEF Refused, IInv, TypeOK, RoundGoesOn, NothingIsAhead, CreatesTheFirst,
                              SecretsAreCounted, OneHookEach, SignedSinceBoot, Repo
  <1>5. CASE Fails
    <2>1. call # "none" /\ GoesOn
      BY <1>5 DEF Fails
    <2> QED
      BY <1>0, <1>5, <2>1, TurnEnds DEF Fails, IInv, TypeOK, NothingIsAhead, CreatesTheFirst,
                                        SecretsAreCounted, OneHookEach, SignedSinceBoot
  <1>6. CASE TunnelMoves
    <2>1. url' \in Urls /\ url' = url + 1
      BY <1>6, <1>a, RegistrarAssumption DEF TunnelMoves, Urls
    <2>2. NothingIsAhead'
      BY <1>0, <1>6, <1>a, <2>1 DEF TunnelMoves, NothingIsAhead
    <2> QED
      BY <1>0, <1>6, <2>1, <2>2 DEF TunnelMoves, IInv, TypeOK, RoundGoesOn, CreatesTheFirst,
                                    SecretsAreCounted, OneHookEach, SignedSinceBoot, Repo
  <1>7. ASSUME NEW r \in Repos, HookDeleted(r)
        PROVE  IInv'
    <2>1. deleted' \in 0 .. MaxDeleted
      BY <1>0, <1>7, RegistrarAssumption DEF HookDeleted, TypeOK
    <2>2. hooks' = [hooks EXCEPT ![r] = <<>>] /\ hooks \in [Repos -> Seq(Hooks)]
      BY <1>0, <1>7 DEF HookDeleted, TypeOK
    <2>3. hooks' \in [Repos -> Seq(Hooks)] /\ \A s \in Repos : hooks'[s] \in {<<>>, hooks[s]}
      BY <2>2
    <2>4. TypeOK'
      BY <1>0, <1>7, <2>1, <2>3 DEF HookDeleted, TypeOK
    <2>5. OneHookEach'
      BY <1>0, <2>2 DEF OneHookEach
    <2>6. \A s \in Repos : \A n \in DOMAIN hooks'[s] : n \in DOMAIN hooks[s] /\ hooks'[s] = hooks[s]
      BY <2>3
    <2>7. NothingIsAhead' /\ SignedSinceBoot'
      BY <1>0, <1>7, <2>6 DEF HookDeleted, NothingIsAhead, SignedSinceBoot
    <2>8. CreatesTheFirst'
      <3>1. call = "create" => Repo \in Repos
        BY <1>0, RestOfTheRound
      <3> QED
        BY <1>0, <1>7, <2>3, <3>1 DEF HookDeleted, CreatesTheFirst, Repo
    <2> QED
      BY <1>0, <1>7, <2>4, <2>5, <2>7, <2>8 DEF HookDeleted, IInv, RoundGoesOn, SecretsAreCounted
  <1>8. CASE Restart
    <2>1. /\ hooks' \in [Repos -> Seq(Hooks)]
          /\ \A r \in Repos : Len(hooks'[r]) <= 1
          /\ \A r \in Repos : \A n \in DOMAIN hooks'[r] : hooks'[r][n].url <= desired
      <3>1. CASE UNCHANGED hooks
        BY <1>0, <3>1 DEF TypeOK, OneHookEach, NothingIsAhead
      <3>2. CASE Creates \/ Repoints
        BY <3>2, WriteKeepsHooks
      <3> QED
        BY <1>8, <3>1, <3>2 DEF Restart
    <2>2. crashes' \in 0 .. MaxCrashes /\ secret' \in Secrets /\ secret' <= crashes' + 1
      <3>1. /\ crashes \in Nat /\ secret \in Nat \ {0} /\ secret <= crashes + 1
            /\ crashes < MaxCrashes /\ crashes' = crashes + 1 /\ secret' \in {secret, secret + 1}
        BY <1>0, <1>8, RegistrarAssumption DEF Restart, TypeOK, Secrets, SecretsAreCounted
      <3> QED
        BY <3>1, RegistrarAssumption DEF Secrets
    <2>3. TypeOK' /\ SecretsAreCounted'
      BY <1>0, <1>8, <1>a, <2>1, <2>2 DEF Restart, Calls, TypeOK, SecretsAreCounted
    <2>6. OneHookEach'
      BY <2>1 DEF OneHookEach
    <2>4. NothingIsAhead'
      <3>1. boot' <= url' /\ desired' <= url'
        BY <1>0, <1>8, <1>a DEF Restart, NothingIsAhead
      <3> QED
        BY <1>8, <2>1, <3>1 DEF Restart, NothingIsAhead
    <2>5. SignedSinceBoot'
      <3> SUFFICES ASSUME NEW r \in Repos, NEW n \in DOMAIN hooks'[r]
                   PROVE  ~(hooks'[r][n].url > boot')
        BY DEF SignedSinceBoot
      <3>1. hooks'[r][n].url <= desired /\ hooks'[r][n] \in Hooks
        BY <2>1
      <3>2. hooks'[r][n].url \in Nat
        BY <3>1, RegistrarAssumption DEF Hooks, Urls
      <3>3. desired <= boot' /\ boot' \in Nat
        BY <1>0, <1>8, <1>a DEF Restart, NothingIsAhead
      <3> QED
        BY <1>a, <3>1, <3>2, <3>3
    <2> QED
      BY <1>8, <2>3, <2>4, <2>5, <2>6 DEF Restart, Calls, IInv, RoundGoesOn, CreatesTheFirst
  <1>9. CASE UNCHANGED vars
    BY <1>0, <1>9 DEF vars, IInv, TypeOK, RoundGoesOn, NothingIsAhead, CreatesTheFirst,
                      SecretsAreCounted, OneHookEach, SignedSinceBoot, Repo
  <1> QED
    BY <1>1, <1>2, <1>3, <1>4, <1>5, <1>6, <1>7, <1>8, <1>9 DEF Next, Registers

THEOREM Invariant == Spec => []IInv
  BY Begins, Keeps, PTL DEF Spec

-----------------------------------------------------------------------------
(* Theorems *)

\* Every variable keeps its type: no call is tried more often than MaxTries.
THEOREM TypeCorrect == Spec => []TypeOK
  <1>1. IInv => TypeOK
    BY DEF IInv
  <1> QED
    BY <1>1, Invariant, PTL

\* No repository ever gets a second hook.
THEOREM HooksAreSingle == Spec => []OneHookEach
  <1>1. IInv => OneHookEach
    BY DEF IInv
  <1> QED
    BY <1>1, Invariant, PTL

\* A hook for a URL of this life has the secret of this life.
THEOREM HooksAreSigned == Spec => []SignedSinceBoot
  <1>1. IInv => SignedSinceBoot
    BY DEF IInv
  <1> QED
    BY <1>1, Invariant, PTL

\* A step that leaves a repository with a hook does not give it an older URL.
HookMovesOn ==
    \A r \in Repos : hooks[r] # <<>> /\ hooks'[r] # <<>> => hooks[r][1].url <= hooks'[r][1].url

\* A round that is late, for the tunnel moved after it had read the URL, never sets a
\* hook back, for every number of moves and restarts.
THEOREM HooksNeverGoBack == Spec => [][HookMovesOn]_vars
  <1>1. IInv /\ [Next]_vars => [HookMovesOn]_vars
    <2> SUFFICES ASSUME IInv, Next, NEW r \in Repos, hooks[r] # <<>>, hooks'[r] # <<>>
                 PROVE  hooks[r][1].url <= hooks'[r][1].url
      BY DEF HookMovesOn
    <2>1. /\ hooks \in [Repos -> Seq(Hooks)] /\ desired \in Nat
          /\ hooks[r][1].url <= desired /\ hooks[r][1].url \in Nat
      <3>1. hooks[r] \in Seq(Hooks) /\ 1 \in DOMAIN hooks[r]
        BY DEF IInv, TypeOK
      <3>2. hooks[r][1] \in Hooks
        BY <3>1
      <3> QED
        BY <3>1, <3>2, RegistrarAssumption DEF IInv, TypeOK, NothingIsAhead, Hooks, Urls
    <2>2. CASE hooks'[r] = hooks[r]
      BY <2>1, <2>2
    <2>3. CASE Creates \/ Repoints
      <3>1. Repo \in Repos /\ hooks' = [hooks EXCEPT ![Repo] = <<NewHook>>]
        BY <2>3, WrittenHook
      <3>2. r = Repo => hooks'[r] = <<NewHook>>
        BY <2>1, <3>1
      <3>3. r # Repo => hooks'[r] = hooks[r]
        BY <2>1, <3>1
      <3>4. NewHook.url = desired
        BY DEF NewHook
      <3> QED
        BY <2>1, <3>2, <3>3, <3>4
    <2>4. CASE \E s \in Repos : HookDeleted(s)
      BY <2>1, <2>2, <2>4 DEF HookDeleted
    <2>5. UNCHANGED hooks \/ Creates \/ Repoints \/ \E s \in Repos : HookDeleted(s)
      BY DEF Next, Registers, RoundBegins, Listed, Written, Refused, Fails, TunnelMoves, Restart
    <2> QED
      BY <2>2, <2>3, <2>4, <2>5
  <1> QED
    BY <1>1, Invariant, PTL DEF Spec
=============================================================================
