----------------------------- MODULE RegistrySync -----------------------------
(***************************************************************************)
(* The app registry on its way from the Host to the hosted apps:           *)
(* GET /internal/app-registry.json and its token check, the roll-out of    *)
(* Host revisions (deploy.yml first deploys, then wires the service's own  *)
(* URL into a second revision), and the refresh loop each hosted app runs  *)
(* around fetch_registry_once() and FetchedRegistrySource.  The same code  *)
(* runs on a developer's machine with the token check bypassed.            *)
(***************************************************************************)
EXTENDS Naturals

CONSTANTS
  Consumers,  \* processes of hosted apps
  MaxVersion, \* registries the Host ever publishes are 0..MaxVersion (bound)
  SelfOnly,   \* the list that holds just the consumer's own AppEntry
  TokenOf,    \* TokenOf[c]: what c's token_provider mints on Cloud Run
  None        \* absence of an answer

(* Right audience and the shared service account, or not quite. *)
Minted == {"platform", "wrong_audience", "wrong_account"}

Tokens == Minted \cup {"placeholder", "absent"}

Versions == 0..MaxVersion

ASSUME SyncAssumption ==
  /\ MaxVersion \in Nat /\ SelfOnly \notin Versions
  /\ TokenOf \in [Consumers -> Minted]
  /\ None \notin Versions

VARIABLES
  up,         \* which consumers run
  cache,      \* FetchedRegistrySource._apps in each of them
  cloud,      \* on Cloud Run (K_SERVICE is set), or a developer's machine
  newest,     \* the latest Host revision that started: its registry and settings
  serving,    \* the revisions requests may still reach
  stage,      \* the deploy job: "idle", "wire" between its two steps, or "failed"
  fetch,      \* per consumer: how far its refresh loop is, and the answer
  reply       \* the last answer of the endpoint: to which token, which status

hostVars == <<cloud, newest, serving, stage>>

vars == <<up, cache, hostVars, fetch, reply>>

Settings == [bypass : BOOLEAN, url : BOOLEAN, account : BOOLEAN]

Revision == [apps : Versions, settings : Settings]

Statuses == {"ok", "missing_token", "not_configured", "invalid_token", "wrong_identity"}

Fetch == [pc : {"idle", "minted", "answered"}, body : Versions \cup {None}]

Resting == [pc |-> "idle", body |-> None]

TypeOK ==
  /\ up \in [Consumers -> BOOLEAN]
  /\ cache \in [Consumers -> Versions \cup {SelfOnly}]
  /\ cloud \in BOOLEAN
  /\ newest \in Revision
  /\ serving \subseteq Revision
  /\ stage \in {"idle", "wire", "failed"}
  /\ fetch \in [Consumers -> Fetch]
  /\ reply \in [token : Tokens, status : Statuses \cup {"none"}]

Silence == [token |-> "absent", status |-> "none"]

(* The env file of deploy.yml, which names the account and never the URL;  *)
(* what the local launcher passes; and that environment deployed by        *)
(* mistake.                                                                *)
DeployedEnv == [bypass |-> FALSE, url |-> FALSE, account |-> TRUE]
LauncherEnv == [bypass |-> TRUE, url |-> FALSE, account |-> FALSE]

Wired(s) == [bypass |-> s.bypass, url |-> TRUE, account |-> s.account]

Init ==
  /\ up = [c \in Consumers |-> FALSE]
  /\ cache = [c \in Consumers |-> SelfOnly]
  /\ cloud \in BOOLEAN
  /\ newest = [apps |-> 0, settings |-> IF cloud THEN Wired(DeployedEnv) ELSE LauncherEnv]
  /\ serving = {newest}
  /\ stage = "idle"
  /\ fetch = [c \in Consumers |-> Resting]
  /\ reply = Silence

-----------------------------------------------------------------------------
(* The Host                                                                *)

UnguardedStart(s) == TRUE             \* mutant: lifespan starts with any settings

(* _reject_registry_bypass_on_cloud_run: the process does not start. *)
Starts(s) == ~(s.bypass /\ cloud)

Bypassed(s) == s.bypass /\ ~(s.url \/ s.account)

Configured(s) == s.url /\ s.account

(* _verify_registry_read_token and the 200 of get_app_registry; certs says *)
(* whether Google's certificates could be read.                            *)
Verdict(s, token, certs) ==
  IF Bypassed(s) THEN "ok"
  ELSE IF token = "absent" THEN "missing_token"
  ELSE IF ~Configured(s) THEN "not_configured"
  ELSE IF ~certs \/ token \in {"wrong_audience", "placeholder"} THEN "invalid_token"
  ELSE IF token = "wrong_account" THEN "wrong_identity"
  ELSE "ok"

(* gcloud run deploy, or the launcher run again: a revision with the next  *)
(* registry or the same one.  One that does not start takes no traffic and *)
(* ends the job.                                                           *)
Deploy(s) ==
  /\ stage # "wire"
  /\ s \in IF cloud THEN {DeployedEnv, LauncherEnv} ELSE {LauncherEnv}
  /\ Starts(s)
  /\ \E v \in {newest.apps, newest.apps + 1} \cap Versions : newest' = [apps |-> v, settings |-> s]
  /\ serving' = serving \cup {newest'}
  /\ stage' = IF cloud THEN "wire" ELSE "idle"
  /\ reply' = Silence
  /\ UNCHANGED <<up, cache, cloud, fetch>>

ForgottenUrl == newest.settings       \* mutant: the variable has another name

WiredSettings == Wired(newest.settings)

(* gcloud run services update --update-env-vars=REGISTRY_ENDPOINT_URL=...  *)
Wire ==
  /\ stage = "wire"
  /\ newest' = [apps |-> newest.apps, settings |-> WiredSettings]
  /\ serving' = serving \cup {newest'}
  /\ stage' = "idle"
  /\ reply' = Silence
  /\ UNCHANGED <<up, cache, cloud, fetch>>

(* The second step of the job fails; nothing runs it again. *)
WireFails ==
  /\ stage = "wire"
  /\ stage' = "failed"
  /\ reply' = Silence
  /\ UNCHANGED <<up, cache, cloud, newest, serving, fetch>>

(* Traffic has moved to the newest revision. *)
Shift ==
  /\ serving # {newest}
  /\ serving' = {newest}
  /\ reply' = Silence
  /\ UNCHANGED <<up, cache, cloud, newest, stage, fetch>>

(* A request that carries no bearer token. *)
AnonymousRequest ==
  /\ \E rev \in serving :
       reply' = [token |-> "absent", status |-> Verdict(rev.settings, "absent", TRUE)]
  /\ UNCHANGED <<up, cache, hostVars, fetch>>

-----------------------------------------------------------------------------
(* The hosted apps                                                         *)

(* FetchedRegistrySource(self_only_default), and the loop's task. *)
StartConsumer(c) ==
  /\ ~up[c]
  /\ up' = [up EXCEPT ![c] = TRUE]
  /\ cache' = [cache EXCEPT ![c] = SelfOnly]
  /\ reply' = Silence
  /\ UNCHANGED <<hostVars, fetch>>

(* Shutdown cancels the task; a crash ends it. *)
StopConsumer(c) ==
  /\ up[c]
  /\ up' = [up EXCEPT ![c] = FALSE]
  /\ fetch' = [fetch EXCEPT ![c] = Resting]
  /\ reply' = Silence
  /\ UNCHANGED <<cache, hostVars>>

(* build_default_token_provider, or build_local_dev_token_provider. *)
TokenSent(c) == IF cloud THEN TokenOf[c] ELSE "placeholder"

(* await token_provider(). *)
Mint(c) ==
  /\ up[c] /\ fetch[c].pc = "idle"
  /\ fetch' = [fetch EXCEPT ![c].pc = "minted"]
  /\ reply' = Silence
  /\ UNCHANGED <<up, cache, hostVars>>

(* The Host answers the GET; an answer other than 200 raises in the        *)
(* consumer, which sleeps and tries again.                                 *)
Answer(c, rev, certs) ==
  LET status == Verdict(rev.settings, TokenSent(c), certs) IN
  /\ fetch[c].pc = "minted"
  /\ rev \in serving
  /\ fetch' = [fetch EXCEPT ![c] = IF status = "ok"
                                  THEN [pc |-> "answered", body |-> rev.apps]
                                  ELSE Resting]
  /\ reply' = [token |-> TokenSent(c), status |-> status]
  /\ UNCHANGED <<up, cache, hostVars>>

(* What a failed fetch, or a body _parse_apps does not accept, leaves in   *)
(* the cache.                                                              *)
ClearedCache(c) == SelfOnly           \* mutant: fall back to the own entry

KeptCache(c) == cache[c]

(* _parse_apps of a whole body. *)
ParsedApps(c) == fetch[c].body

(* update(): one assignment, atomic under the GIL. *)
Update(c) ==
  /\ fetch[c].pc = "answered"
  /\ cache' = [cache EXCEPT ![c] = ParsedApps(c)]
  /\ fetch' = [fetch EXCEPT ![c] = Resting]
  /\ reply' = Silence
  /\ UNCHANGED <<up, hostVars>>

(* No token, no connection, a timeout, a body cut short or malformed: the  *)
(* exception ends in the loop's log.                                       *)
FetchFails(c) ==
  /\ up[c]
  /\ fetch' = [fetch EXCEPT ![c] = Resting]
  /\ cache' = [cache EXCEPT ![c] = KeptCache(c)]
  /\ reply' = Silence
  /\ UNCHANGED <<up, hostVars>>

Consume(c) ==
  \/ StartConsumer(c) \/ StopConsumer(c)
  \/ Mint(c)
  \/ \E rev \in serving, certs \in BOOLEAN : Answer(c, rev, certs)
  \/ Update(c)
  \/ FetchFails(c)

HostStep ==
  \/ \E s \in {DeployedEnv, LauncherEnv} : Deploy(s)
  \/ Wire \/ WireFails \/ Shift \/ AnonymousRequest

Next == HostStep \/ \E c \in Consumers : Consume(c)

Spec == Init /\ [][Next]_vars

(* Roll-outs finish.  A hosted app is started again after it stops, its    *)
(* loop keeps trying, and a network that fails again and again does not    *)
(* fail every time at the same place.                                      *)
Fairness ==
  /\ WF_vars(Shift)
  /\ WF_vars(Wire \/ WireFails)
  /\ \A c \in Consumers :
       /\ WF_vars(StartConsumer(c))
       /\ SF_vars(Mint(c))
       /\ SF_vars(\E rev \in serving : Answer(c, rev, TRUE))
       /\ SF_vars(Update(c))

FairSpec == Spec /\ Fairness

-----------------------------------------------------------------------------

(* Through lost requests, refusals, restarts, roll-outs and revisions side *)
(* by side, a hosted app shows its own entry alone until its first fetch   *)
(* and a whole published registry from then on.  Every registry up to that *)
(* of the newest revision has been published.                              *)
View == INSTANCE RegistryView
  WITH Consumers <- Consumers, MaxVersion <- MaxVersion, SelfOnly <- SelfOnly,
       published <- 0..newest.apps, up <- up, cache <- cache

ImplementsView == View!Spec

(* On Cloud Run the registry is only ever handed to the platform's own     *)
(* service account, whatever environment a revision was deployed with and  *)
(* whichever of deploy.yml's two steps ran.                                *)
GuardedOnCloud == cloud /\ reply.status = "ok" => reply.token = "platform"

Settled == stage = "idle" /\ serving = {newest}

(* Once roll-outs are over and the last job succeeded, every hosted app    *)
(* with a good token gets to the newest registry, again after every        *)
(* restart, however many fetches fail on the way.                          *)
EventuallyCurrent ==
  <>[]Settled =>
    \A c \in Consumers :
      TokenSent(c) \in {"platform", "placeholder"} => []<>(cache[c] = newest.apps)
=============================================================================
