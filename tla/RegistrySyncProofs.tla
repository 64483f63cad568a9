-------------------------- MODULE RegistrySyncProofs --------------------------
(***************************************************************************)
(* For any number of hosted apps and of registries: the types of           *)
(* RegistrySync, the guard of the endpoint on Cloud Run, and that the      *)
(* synchronisation implements RegistryView.                                *)
(***************************************************************************)
EXTENDS RegistrySync, TLAPS

(* Whatever is served, on its way, or cached was published; a fetch is     *)
(* under way only in a process that runs.                                  *)
PublishedInv ==
  /\ newest \in serving
  /\ \A rev \in serving : rev.apps <= newest.apps
  /\ \A c \in Consumers : fetch[c].pc # "idle" => up[c]
  /\ \A c \in Consumers : fetch[c].pc = "answered" => fetch[c].body \in 0..newest.apps

(* No revision that takes traffic on Cloud Run has the bypass. *)
NoBypassInv == cloud => \A rev \in serving : ~rev.settings.bypass

IInv == TypeOK /\ PublishedInv /\ NoBypassInv /\ GuardedOnCloud

-----------------------------------------------------------------------------

LEMMA EnvTyped == DeployedEnv \in Settings /\ LauncherEnv \in Settings
BY DEF DeployedEnv, LauncherEnv, Settings

(* An answer 200 without the bypass is to the platform's own token. *)
LEMMA VerdictFacts ==
  ASSUME NEW s \in Settings, NEW t \in Tokens, NEW b \in BOOLEAN
  PROVE  /\ Verdict(s, t, b) \in Statuses
         /\ ~s.bypass /\ Verdict(s, t, b) = "ok" => t = "platform"
BY DEF Verdict, Statuses, Bypassed, Configured, Tokens, Minted

LEMMA TokenSentTyped ==
  ASSUME TypeOK, NEW c \in Consumers
  PROVE  TokenSent(c) \in Tokens
BY SyncAssumption DEF TokenSent, Tokens, Minted

LEMMA InitInv == Init => IInv
<1> SUFFICES ASSUME Init PROVE IInv
  OBVIOUS
<1>1. newest \in Revision
  BY EnvTyped, SyncAssumption DEF Init, Revision, Settings, Wired, Versions
<1>2. TypeOK
  BY <1>1, SyncAssumption DEF Init, TypeOK, Versions, Fetch, Resting, Silence, Tokens
<1>3. PublishedInv
  BY DEF Init, PublishedInv, Resting
<1>4. NoBypassInv
  BY DEF Init, NoBypassInv, DeployedEnv, Wired
<1>5. GuardedOnCloud
  BY DEF Init, GuardedOnCloud, Silence
<1> QED BY <1>2, <1>3, <1>4, <1>5 DEF IInv

(* What a step that answers nobody leaves of the guard. *)
LEMMA SilentGuard ==
  ASSUME reply' = Silence
  PROVE  GuardedOnCloud' /\ reply' \in [token : Tokens, status : Statuses \cup {"none"}]
BY DEF GuardedOnCloud, Silence, Tokens, Statuses

LEMMA DeployInv ==
  ASSUME IInv, NEW s \in {DeployedEnv, LauncherEnv}, Deploy(s)
  PROVE  IInv'
<1> PICK v \in {newest.apps, newest.apps + 1} \cap Versions :
      newest' = [apps |-> v, settings |-> s]
  BY DEF Deploy
<1>1. newest' \in Revision
  BY EnvTyped DEF Revision
<1>2. TypeOK'
  BY <1>1, SilentGuard DEF IInv, TypeOK, Deploy
<1>3. PublishedInv'
  <2>1. /\ newest.apps \in Nat /\ v \in Nat /\ newest'.apps = v /\ newest.apps <= v
        /\ \A rev \in serving : rev.apps \in Nat
    BY SyncAssumption DEF IInv, TypeOK, Revision, Versions
  <2>2. newest' \in serving' /\ \A rev \in serving' : rev.apps <= newest'.apps
    BY <2>1 DEF IInv, PublishedInv, Deploy
  <2>3. \A c \in Consumers : fetch[c].pc = "answered" => fetch[c].body \in 0..newest'.apps
    BY <2>1 DEF IInv, PublishedInv
  <2> QED BY <2>2, <2>3 DEF IInv, PublishedInv, Deploy
<1>4. NoBypassInv'
  BY DEF IInv, NoBypassInv, Deploy, Starts
<1> QED BY <1>2, <1>3, <1>4, SilentGuard DEF IInv, Deploy

LEMMA WireInv ==
  ASSUME IInv, Wire
  PROVE  IInv'
<1>1. newest' = [apps |-> newest.apps, settings |-> Wired(newest.settings)]
  BY DEF Wire, WiredSettings
<1>2. /\ newest' \in Revision /\ newest'.apps = newest.apps
      /\ newest'.settings.bypass = newest.settings.bypass
  BY <1>1 DEF IInv, TypeOK, Revision, Settings, Wired
<1>3. TypeOK'
  BY <1>2, SilentGuard DEF IInv, TypeOK, Wire
<1>4. PublishedInv'
  BY <1>2 DEF IInv, PublishedInv, Wire
<1>5. NoBypassInv'
  BY <1>2 DEF IInv, PublishedInv, NoBypassInv, Wire
<1> QED BY <1>3, <1>4, <1>5, SilentGuard DEF IInv, Wire

LEMMA HostInv ==
  ASSUME IInv, HostStep
  PROVE  IInv'
<1>1. CASE \E s \in {DeployedEnv, LauncherEnv} : Deploy(s)
  BY <1>1, DeployInv
<1>2. CASE Wire
  BY <1>2, WireInv
<1>3. CASE WireFails
  BY <1>3, SilentGuard
     DEF IInv, TypeOK, PublishedInv, NoBypassInv, WireFails
<1>4. CASE Shift
  BY <1>4, SilentGuard DEF IInv, TypeOK, PublishedInv, NoBypassInv, Shift
<1>5. CASE AnonymousRequest
  <2> PICK rev \in serving :
        reply' = [token |-> "absent", status |-> Verdict(rev.settings, "absent", TRUE)]
    BY <1>5 DEF AnonymousRequest
  <2>1. rev.settings \in Settings /\ "absent" \in Tokens
    BY DEF IInv, TypeOK, Revision, Tokens
  <2>2. /\ reply' \in [token : Tokens, status : Statuses \cup {"none"}]
        /\ ~rev.settings.bypass => reply'.status # "ok"
    BY <2>1, VerdictFacts DEF Tokens
  <2>3. UNCHANGED <<up, cache, hostVars, fetch>>
    BY <1>5 DEF AnonymousRequest
  <2> QED BY <2>2, <2>3
        DEF IInv, TypeOK, PublishedInv, NoBypassInv, GuardedOnCloud, hostVars
<1> QED BY <1>1, <1>2, <1>3, <1>4, <1>5 DEF HostStep

LEMMA AnswerInv ==
  ASSUME IInv, NEW c \in Consumers, NEW rev \in serving, NEW certs \in BOOLEAN,
         Answer(c, rev, certs)
  PROVE  IInv'
<1>1. rev \in Revision /\ rev.settings \in Settings
  BY DEF IInv, TypeOK, Revision
<1>2. reply' \in [token : Tokens, status : Statuses \cup {"none"}]
  BY <1>1, VerdictFacts, TokenSentTyped DEF IInv, Answer
<1>3. fetch' \in [Consumers -> Fetch]
  BY <1>1 DEF IInv, TypeOK, Answer, Fetch, Resting, Revision
<1>4. TypeOK'
  BY <1>2, <1>3 DEF IInv, TypeOK, Answer, hostVars
<1>5. PublishedInv'
  <2>1. rev.apps \in 0..newest.apps
    BY <1>1, SyncAssumption DEF IInv, TypeOK, PublishedInv, Revision, Versions
  <2> QED BY <2>1 DEF IInv, TypeOK, PublishedInv, Answer, Resting, hostVars
<1>6. NoBypassInv' /\ GuardedOnCloud'
  BY <1>1, VerdictFacts, TokenSentTyped
     DEF IInv, NoBypassInv, GuardedOnCloud, Answer, hostVars
<1> QED BY <1>4, <1>5, <1>6 DEF IInv

LEMMA ConsumerInv ==
  ASSUME IInv, NEW c \in Consumers, Consume(c)
  PROVE  IInv'
<1>1. CASE StartConsumer(c)
  <2>1. TypeOK' /\ PublishedInv'
    BY <1>1, SilentGuard DEF IInv, TypeOK, PublishedInv, StartConsumer, hostVars
  <2> QED BY <1>1, <2>1, SilentGuard DEF IInv, NoBypassInv, StartConsumer, hostVars
<1>2. CASE StopConsumer(c)
  <2>1. TypeOK'
    BY <1>2, SilentGuard, SyncAssumption
       DEF IInv, TypeOK, StopConsumer, hostVars, Fetch, Resting
  <2>2. PublishedInv'
    BY <1>2 DEF IInv, TypeOK, PublishedInv, StopConsumer, hostVars, Resting
  <2> QED BY <1>2, <2>1, <2>2, SilentGuard DEF IInv, NoBypassInv, StopConsumer, hostVars
<1>3. CASE Mint(c)
  <2>1. fetch'[c].pc = "minted" /\ fetch'[c] \in Fetch
    BY <1>3 DEF IInv, TypeOK, Mint, Fetch
  <2>2. TypeOK'
    BY <1>3, <2>1, SilentGuard DEF IInv, TypeOK, Mint, hostVars
  <2>3. PublishedInv'
    BY <1>3, <2>1 DEF IInv, TypeOK, PublishedInv, Mint, hostVars
  <2> QED BY <1>3, <2>2, <2>3, SilentGuard DEF IInv, NoBypassInv, Mint, hostVars
<1>4. CASE \E rev \in serving, certs \in BOOLEAN : Answer(c, rev, certs)
  BY <1>4, AnswerInv
<1>5. CASE Update(c)
  <2>1. fetch[c].body \in Versions
    BY <1>5, SyncAssumption DEF IInv, TypeOK, PublishedInv, Update, Revision, Versions
  <2>2. TypeOK'
    BY <1>5, <2>1, SilentGuard, SyncAssumption
       DEF IInv, TypeOK, Update, ParsedApps, hostVars, Fetch, Resting
  <2>3. PublishedInv'
    BY <1>5 DEF IInv, TypeOK, PublishedInv, Update, hostVars, Resting
  <2> QED BY <1>5, <2>2, <2>3, SilentGuard DEF IInv, NoBypassInv, Update, hostVars
<1>6. CASE FetchFails(c)
  <2>1. TypeOK'
    BY <1>6, SilentGuard, SyncAssumption
       DEF IInv, TypeOK, FetchFails, KeptCache, hostVars, Fetch, Resting
  <2>2. PublishedInv'
    BY <1>6 DEF IInv, TypeOK, PublishedInv, FetchFails, hostVars, Resting
  <2> QED BY <1>6, <2>1, <2>2, SilentGuard DEF IInv, NoBypassInv, FetchFails, hostVars
<1> QED BY <1>1, <1>2, <1>3, <1>4, <1>5, <1>6 DEF Consume

LEMMA NextInv == IInv /\ [Next]_vars => IInv'
<1> SUFFICES ASSUME IInv, [Next]_vars PROVE IInv'
  OBVIOUS
<1>1. CASE UNCHANGED vars
  BY <1>1 DEF vars, hostVars, IInv, TypeOK, PublishedInv, NoBypassInv, GuardedOnCloud
<1>2. CASE Next
  BY <1>2, HostInv, ConsumerInv DEF Next
<1> QED BY <1>1, <1>2

LEMMA Invariant == Spec => []IInv
<1> QED BY InitInv, NextInv, PTL DEF Spec

-----------------------------------------------------------------------------

(* Revisions, fetches in flight, caches and answers are well formed in     *)
(* every run.                                                              *)
THEOREM TypeCorrect == Spec => []TypeOK
<1>1. IInv => TypeOK
  BY DEF IInv
<1> QED BY <1>1, Invariant, PTL

(* On Cloud Run nobody but the platform's service account reads the        *)
(* registry, for every order of deploys, failed wirings and roll-outs.     *)
THEOREM Guarded == Spec => []GuardedOnCloud
<1>1. IInv => GuardedOnCloud
  BY DEF IInv
<1> QED BY <1>1, Invariant, PTL

LEMMA ViewInit == Init => View!Init
BY DEF Init, View!Init

LEMMA ViewStep == IInv /\ [Next]_vars => [View!Next]_(View!viewVars)
<1> SUFFICES ASSUME IInv, [Next]_vars PROVE [View!Next]_(View!viewVars)
  OBVIOUS
<1> USE DEF View!viewVars, hostVars
<1>1. ASSUME NEW s \in {DeployedEnv, LauncherEnv}, Deploy(s)
      PROVE  View!Next
  <2> PICK v \in {newest.apps, newest.apps + 1} \cap Versions :
        newest' = [apps |-> v, settings |-> s]
    BY <1>1 DEF Deploy
  <2>1. newest.apps \in Nat /\ v \in Nat /\ newest'.apps = v
    BY SyncAssumption DEF IInv, TypeOK, Revision, Versions
  <2>2. 0..newest'.apps = (0..newest.apps) \cup {v}
    BY <2>1
  <2>3. View!Publish(v)
    BY <1>1, <2>2 DEF Deploy, View!Publish
  <2> QED BY <2>3 DEF View!Next, View!Versions, Versions
<1>2. CASE Wire \/ WireFails \/ Shift \/ AnonymousRequest
  <2>1. newest'.apps = newest.apps
    <3>1. CASE Wire
      BY <3>1 DEF Wire
    <3>2. CASE WireFails \/ Shift \/ AnonymousRequest
      <4>1. newest' = newest
        BY <3>2 DEF WireFails, Shift, AnonymousRequest
      <4> QED BY <4>1
    <3> QED BY <1>2, <3>1, <3>2
  <2>2. UNCHANGED View!viewVars
    BY <1>2, <2>1 DEF Wire, WireFails, Shift, AnonymousRequest
  <2> QED BY <2>2
<1>3. ASSUME NEW c \in Consumers, Consume(c)
      PROVE  [View!Next]_(View!viewVars)
  <2>1. CASE StartConsumer(c)
    BY <2>1 DEF StartConsumer, View!Next, View!Start
  <2>2. CASE StopConsumer(c)
    BY <2>2 DEF StopConsumer, View!Next, View!Stop
  <2>3. CASE Mint(c) \/ \E rev \in serving, certs \in BOOLEAN : Answer(c, rev, certs)
    BY <2>3 DEF Mint, Answer
  <2>4. CASE Update(c)
    <3>1. up[c] /\ fetch[c].body \in 0..newest.apps
      BY <2>4 DEF IInv, PublishedInv, Update
    <3>2. View!Refresh(c)
      BY <2>4, <3>1 DEF Update, ParsedApps, hostVars, View!Refresh
    <3> QED BY <3>2 DEF View!Next
  <2>5. CASE FetchFails(c)
    <3>1. cache' = cache
      BY <2>5 DEF IInv, TypeOK, FetchFails, KeptCache
    <3> QED BY <2>5, <3>1 DEF FetchFails
  <2> QED BY <1>3, <2>1, <2>2, <2>3, <2>4, <2>5 DEF Consume
<1>4. CASE UNCHANGED vars
  BY <1>4 DEF vars
<1> QED BY <1>1, <1>2, <1>3, <1>4 DEF Next, HostStep

(* A hosted app's view of the registry changes only as RegistryView        *)
(* allows: once it has fetched, it always shows a whole registry the Host  *)
(* has served, through every failure of the fetches that follow.           *)
THEOREM Implements == Spec => ImplementsView
<1>1. Init => View!Init
  BY ViewInit
<1>2. IInv /\ [Next]_vars => [View!Next]_(View!viewVars)
  BY ViewStep
<1> QED BY <1>1, <1>2, Invariant, PTL DEF Spec, ImplementsView, View!Spec
=============================================================================
