# Verification of organize-me

organize-me is the *Host* of a small platform: a FastAPI service that owns the accounts, the login
cookie, the registry of hosted apps and the chrome (sidebar, settings shell) those apps share, and
the scripts that route requests to them, in production and on a developer's machine. This directory
holds TLA+ models of the parts in which the order of steps matters, TLC runs that check them on
small instances, and TLAPS proofs of the properties that matter most for instances of any size.

`PROJECT.json` lists the components, the runs, the source lines every definition stands for, the
hazards and the theorems. All paths below are relative to the repository.

## 1. Inventory

| Component | State it keeps | Operations | What is hard about it | What makes it correct |
|---|---|---|---|---|
| **Account endpoints and tables** `app/api/v1/auth.py`, `users.py`, `app/models/` | tables `users`, `oauth_accounts` | register, PATCH and DELETE `/users/me`, Google callback | every handler reads, awaits and writes on what it read, on several instances, READ COMMITTED; two commits in a first Google sign-in | unique addresses whatever their case, no orphan link, a verified mark only for an address Google vouched for, responses that are true |
| **Password credentials** `auth.py`, `app/auth/users.py` | `hashed_password`; reset tokens are stateless | login (with rehash), forgot-password, reset-password | a token dies only because the hash changes; check and UPDATE are apart; the email may fail | a spent link is refused, a reset retires all links, forgot-password answers every address alike |
| **Sessions and OAuth handshake** `auth.py`, `backend.py`, `jwt_verify.py` | per browser: JWT cookie and CSRF cookie; the state JWT in the callback URL | login/logout, `verify_token` in hosted apps, `GET /auth/google`, callback | no server-side session; one CSRF cookie per browser, shared by its tabs; callback URLs opened again, elsewhere or late | a sign-in stays with the browser that asked, refusals have a cause and lead back, an ended account is out from the next request on |
| **App registry and its consumers** `app/api/internal/registry.py`, `registry_client.py`, `deploy.yml` | `APPS` per Host revision, settings per revision, `_apps` per hosted app | token check, fetch, cache, cold start, deploy and wire | two revisions serve at once; every deploy drops `REGISTRY_ENDPOINT_URL` for a while; lost and refused fetches | the view is never half a registry nor falls back; only the platform's account reads it on Cloud Run; consumers catch up |
| **Sidebar** `nav_groups.py`, `core/nav.py`, `chrome_authenticated_base.html`, PATCH | `users.nav_collapsed_groups`, two maps per page | render, click, PATCH of the whole map | stale tabs, unawaited and reordered PATCHes, pages that list only their own group, forced-open group | preferences of unclicked groups stay; nothing collapses unasked; the own nav is shown |
| **Path rules** `infra/path_rules.py`, `generate_url_map.py`, `generate_caddyfile.py` | the registry | generate rules or refuse, URL map, Caddyfile | nested prefixes, bare path against wildcard, apps without QA or port, two proxies with different matching | a request reaches the app whose entry covers it; QA and local agree with prod |
| **Local launcher** `scripts/local_dev.py`, `dev.py` | list `managed`, process groups, ports | start, wait, watch, terminate | Ctrl-C anywhere, crashing children, ports taken, groups that outlive their leader | nothing started is forgotten, a busy port skips only its own child, shutdown ends |
| **Migrations and deployment** `migrations/`, `deploy.yml` | database catalogue, `alembic_version`, the serving revision, `REGISTRY_ENDPOINT_URL` | `alembic upgrade`/`downgrade`, test, deploy, wire | pipelines of two pushes side by side, failure between steps, downgrades nobody tests, settings moved under traffic | the catalogue is that of its revision, serving code has its schema, users' settings survive, outages end |
| **Static assets and their probe** `assets.py`, `static_paths.py`, `verify_static_routing.py` | mounts of a revision, URL map in force, caches | render the versioned link, fetch; probe an app or a canary | roll-outs and imports between the page and its stylesheet, or between the two fetches a verdict compares | a page gets its own stylesheet; a verdict of the probe means what it says |
| Issue automation, test-only endpoints, start-up and static pages, chrome helpers | none that outlives a call | one-shot | - | not modelled, see section 7 |

How they interact. The account endpoints and the credentials share the table `users`; `Credentials`
looks at one row of it and leaves out what `HostAccounts` covers. The sidebar's PATCH is the same
endpoint as the address PATCH, on another column; since an UPDATE names only columns that changed,
the two do not disturb each other. The registry is published by the Host (`InProcessRegistrySource`),
fetched by hosted apps (`FetchedRegistrySource`), rendered into the sidebar by both, and turned into
path rules for the load balancer and Caddy, on which the static assets of hosted apps depend. The
deploy pipeline migrates the tables the account endpoints use, replaces the revision and leaves the
registry endpoint without its URL for a while: `Rollout` says when, `RegistrySync` what consumers make
of it. `Sessions` is told by `HostAccounts` and `Credentials` only that some user signs in. The
launcher starts the Host with the registry's token check bypassed, the setting that `app/main.py`
refuses on Cloud Run.

## 2. Plan and status

In order of importance. Every invariant and action property of the passing runs is checked by TLC and
stated by a theorem; what is left to TLC alone is liveness (section 7).

1. `AccountTables`, `AccountDirectory` (abstract), `HostAccounts` (detailed) - refinement, tables and
   responses proved in `HostAccountsProofs`.
2. `Credentials` - proved in `CredentialsProofs`.
3. `RegistryView` (abstract), `RegistrySync` (detailed) - guard and refinement proved in
   `RegistrySyncProofs`.
4. `SidebarNav`, composed with `RegistryView` - proved in `SidebarNavProofs`.
5. `PathRules` - proved in `RoutingProofs`.
6. `LocalDev` - all but `RunEnds` proved in `LocalDevProofs`.
7. `Sessions` - proved in `SessionsProofs`.
8. `Migrations` (pure: statements and revisions), `Rollout` (pipelines), `RolloutFacts` (what one
   migration does) - all but `OutageEnds` proved in `RolloutProofs`.
9. `StaticAssets` - proved in `RoutingProofs`.

## 3. Modules

`MC...` modules hold the values a configuration cannot write, and nothing else; a definition with
the comment *mutant* is a plausible bug of the code, never used by the specification, which shows
that some property would notice it.

### AccountTables, AccountDirectory, HostAccounts

`users` maps every primary key the database may hand out to `Fresh` (not yet used), `Gone` (row
deleted) or a row with the columns the rules read: address, `is_verified`, `is_active`. `links` is
`oauth_accounts` without the stored Google tokens. Addresses are model values with a case-folding
function `Lower`; lookups and the index `ix_users_email_lower` compare folded spellings.
`vouched` is a history variable: what Google's answers have asserted.

`AccountDirectory` is the promise: rows enrolled, renamed, removed, linked, one row-level change at a
time; `HostAccounts` INSTANCEs it as `Dir`, its tables mapped to the directory's. `HostAccounts` is
the code: one process per request, one action per stretch between two awaits on the database
(`req[r].pc` names the await), what the handler keeps in local variables in `req[r]`, and the response
in `reply`.

| Action | Code |
|---|---|
| `RegisterCheck`, `RegisterInsert` | `register`: password rules, `get_by_email`, hash; then INSERT and commit, or `IntegrityError` |
| `PatchLoad`, `PatchCheck`, `PatchWrite` | `update_current_user`: dependency loads the user; `_update` looks the address up; UPDATE of the columns that differ from the loaded copy (`snap`) |
| `DeleteLoad`, `DeleteWrite` | `delete_current_user`, with the cascade of the foreign key |
| `GoogleLookup`, `GoogleByEmail`, `GoogleCreate`, `GoogleLink`, `GoogleTouch` | `google_callback` after the token exchange: by OAuth account, by address, create with `is_verified`, link in a second commit, or refresh of an existing link |
| `Crash`, `SetActive` | the instance is stopped; an operator's UPDATE |

Folded together: `COMMIT` with the statement before it and with the `refresh` after it (no handler
acts on what the refresh reads, except that a row deleted in that window raises, which
`PatchWrite` and `GoogleLink` have as an outcome). Relied on and external: fastapi-users 15.0.5, its SQLAlchemy
adapter 7.0.0 and SQLAlchemy's change tracking, modelled from the calls `src/` makes and the
behaviour its tests show.

### Credentials

One account. A hash is `[pw, salt, legacy]`: bcrypt salts make every hash unlike every other, so a
fingerprint of a hash is its salt's number. `legacy` is a hash whose cost parameters the hasher has
since raised, which makes `verify_and_update` ask for a new one. A link in the mailbox is a
fingerprint, an expiry flag and (history) its uses. Bcrypt 5 raises `ValueError` on more than 72
bytes, no handler catches it: status `unhashable`. Actions: `LoginCheck`/`LoginRehash`,
`ForgotLoad`/`ForgotSend`, `ResetCheck`/`ResetWrite`, split at the awaits as above, with deletion,
an operator, expiry and crashes between them.

### RegistryView, RegistrySync

`RegistryView` promises what a hosted app believes: its own entry alone until its first refresh, and
from then on, while its process lives, always one whole published registry. `RegistrySync` is the
path there (`View == INSTANCE RegistryView WITH published <- 0..newest.apps`, since registries are
published in order; the consumers' views are their caches): Host revisions with their settings (`bypass`, `url`, `account`), those that still
`serve`, the deploy job's `stage`, each consumer's refresh loop (`fetch`) and the endpoint's last
answer. `Verdict` is `_verify_registry_read_token` in the order of its checks; `Starts` is the guard
of `app/main.py`; `Deploy`/`Wire`/`WireFails` are the two gcloud steps of `deploy.yml`; `Mint`,
`Answer`, `Update`, `FetchFails` are the loop around `fetch_registry_once()`. The loop itself lives in the
hosted apps' repositories: it is modelled as `registry_client.py` describes it (try, log, sleep, try
again). A restart starts a new `FetchedRegistrySource`.

### SidebarNav

INSTANCEs `RegistryView` as `Registry`, so its pages are rendered from exactly the views the registry
component was proved to have. `stored` is the column, `tab[t]` the page in tab `t` with the two maps of its
Alpine.js state (`shown` = `collapsed`, `held` = `storedCollapsed`), `patch[s]` a PATCH in flight.
A map gives each group `"shut"` (true), `"open"` (false) or `"unset"` (no key). `OpenHostPage` and
`OpenAppPage` render, `Toggle` is a click with the PATCH it sends and does not await, `PatchLoad`,
`PatchWrite` and `PatchLost` are the PATCH's life. Rendering is one step: the page is built from one
load of the user and one call of `list_apps()`, with no await between them and the response.
`before`, `clicks`, `clicked` and `unlisted` are history variables or bounds.

### Sessions

Browsers with one cookie `jar` each (`organizeme_auth`, `organizeme_oauth_csrf`) and tabs that share
it; which tab is whose (`home`) is chosen at the start, so that two tabs of one browser and of two are
both covered. Sessions are not stored anywhere: the token in the jar, live or expired, is all there
is. A `flow` is what a state JWT says, one per CSRF token, with Google's answer to it. A
request carries the cookies of the moment it was sent (`sent`), and a response's cookies count from the
moment it lands, so `Callback` and `LandSignedIn` are apart.

| Action | Code |
|---|---|
| `Authorize` | `google_authorize`: a fresh CSRF token in the state and in the cookie, which arrives over any other tab's |
| `Answer`, `Revisit` | Google's redirect to the callback URL; that URL opened again, in any tab |
| `Callback` | `google_callback` in the order of its checks: error or no code, state, CSRF cookie, exchange, then the user it loads. `Origin` is read from the state before all of them |
| `Login`, `LoginCheck` | the form is sent; `login` loads the user and tests the password and `is_active` of that copy |
| `SignedIn` | the end of either handler: the writes it waited for are done, the copy loaded before gets its token |
| `Logout`, `Delete`, `OpenPage` | the endpoints and pages that need a user, by `HostUser`: one load, on which the answer rests |
| `LandRefused`, `LandSignedIn`, `LandSignedOut` | what the response does to the cookies and the page |
| `Lose`, `...Expires`, `Deactivate`, `Reactivate` | network or an exception, seven days, ten minutes, an operator |

`verify_token`, by which hosted apps decide on the token alone, keeps no state and is left out. `browser`
and `touched` of a flow and `due` of a tab are history: `due` holds the users who were active at some
moment since the request was sent, so that `NoEntryAfterEnd` can tell a sign-in that was under way when an
account ended, which the code lets through, from one that was begun afterwards. A CSRF token that no tab and no cookie holds is forgotten and
may be minted again, which keeps the space finite without limiting the number of handshakes.

### Migrations, Rollout, RolloutFacts

`Migrations` has the twelve revisions as sequences of statements over a catalogue, a set of objects that
rest on others: tables, types, columns, indexes, keys, roles, grants, default privileges. `Exec` is one
statement: it fails when something it needs is missing, when it creates what is there already, or when
something would be left resting on nothing, as PostgreSQL refuses `DROP ROLE` while grants
are left. Columns that no revision treats differently are one column, `settings` for all of
`_MOVED_COLUMNS`; the grants on sequences go with those on tables. `Fresh(p)` is the catalogue of a
fresh database brought to the `p`-th revision.

`Rollout` runs it. A runner is a commit's pipeline or an operator with `alembic downgrade`.

| Action | Code |
|---|---|
| `Upgrade` (`Begin`) | `alembic upgrade head`: read `alembic_version`, look up the way; a tree that lacks the database's revision fails |
| `Execute`, `Commit` | `env.py`'s one transaction: all statements with the backfill, then a downgrade's closing `DROP TABLE` and the commit. The version row is updated where it still has the revision read |
| `Test`, `Deploy`, `Wire`, `Break` | the steps of the two jobs, each of which may fail; `--env-vars-file` replaces all variables, hence `wired' = FALSE` |
| `Downgrade` | an operator starts one |
| `ChooseInHost`, `ChooseInEventCreator` | users write their settings, where the transaction's locks let them |

What production runs today is `head[c]` for the commit `c` in `serving`; `Needs` is what that
revision's models select, so `Down` is a schema its queries fail on. `landed`, `undone`, `chosen` and
`racing` are history.

`RolloutFacts` states, as assumptions without a constant or variable in them, what a single migration
does to the database it was written for. There are finitely many ways between twelve revisions, so
TLC decides each of them by evaluating it; the proofs take it from there.

### StaticAssets

Revisions of hosted apps with the content of their stylesheet and their mounts (bare, both, prefixed), the
registry against the URL map imported last, canaries and traffic splits, a cache by URL that may keep or drop any
answer, one page and one run of `verify_static_routing`. A page fetches its stylesheet some time after it was
rendered, and the probe's two fetches are apart; anything may be rolled out in between. `Version` stands
for the first twelve digits of the hash, taken to differ whenever the contents do. The mounts of hosted apps live in
their repositories and are modelled from what `static_paths.py` and the probe say of them.

### PathRules

The state is the registry, the steps are edits of `APPS`. A path is the sequence of its segments.
`Claims(env)` is what `generate_path_rules` claims, `Accepted(env)` that no claim raised; `UrlMap`
and `Caddy` say which service answers a request. Google's longest-match and Caddy's
first-match-in-file-order are external; so is Caddy's treatment of letter case, which is left out.
The reference the two are measured against, `Owners`, is written from the entries: the app
that covers the request with its longest path. The behaviours are `RegistryEdits`, not `Spec`, so that
`RoutingProofs` can speak of `PathRules` and `StaticAssets` at once.

### LocalDev

Several runs of `scripts/local_dev.py`, because what one run leaves behind is what the next one
meets. `stage` is where `main()` is, `todo` the children yet to be started, `managed` the list of
that name, `popen` the child that exists but is not in the list yet. A child is a process group: a
`leader`, which `poll()` and `wait()` see, and its `workers`, which hold the port. The module is
about macOS and Linux; the `taskkill` branch for Windows, the choice of apps from the command line
and a child that survives SIGKILL are left out. All time is abstract: any timeout may expire at any
moment after it was armed.

## 4. Runs

| Run | Bounds | What it shows |
|---|---|---|
| `accounts` | 3 users, addresses `a`, `A`, `b`, one Google account, 2 requests of any kind, operator, crashes | the table invariants, the truth of every response, refinement of `AccountDirectory` |
| `google_sign_in` | the same without PATCH and operator, under fairness | a Google account never belongs to two users; a retried sign-in converges |
| `credentials` | 2 requests, 4 passwords (old, new, too short, too long), 2 links, 5 hashes | spent and foreign links are refused, forgot-password tells nothing, exceptions have one cause |
| `registry_sync` | 2 consumers (one with a wrong token), 3 registries, cloud and laptop | refinement of `RegistryView`, the guard, and catching up under fairness |
| `sidebar` | 2 groups, 2 tabs, 2 PATCHes in flight, 3 clicks, one registry | the stored preference survives |
| `path_rules` | 3 services in every order, nav and prefixes that nest, collide or end in a slash | routing, over all 24576 registries |
| `local_dev` | the Host, one app, Caddy, 2 runs | shutdown, skipped ports, and that a shutdown ends |
| `sessions` | two tabs of one browser or of two, one user, two CSRF tokens in circulation, `next` a form or not | who is signed in where, refusals and their causes, the end of an account |
| `rollout` | 3 commits whose trees end at revision 2, 10, 11 or 12, one downgrade to 1, 10 or 11 | the catalogue, the schema under the serving revision, users' settings, outages end; at its start, the facts about single migrations |
| `static_assets` | 2 apps, one of them rolled out, 2 stylesheets, 2 deployments | which stylesheet a page gets, what a verdict of the probe is worth |
| `repeat_sign_in`, `reset_sticks` | - | what a document or test says and the code does not do: section 6 |

Why these bounds are enough to be interesting. Two requests suffice for every lost-update, check-then-act
and write-after-delete race between two handlers; three users let an address move on while a third
key is still unused; two spellings of one address tell the case-insensitive index from the plain one. Five
hashes allow a rehash and resets through both links in any order. Three registries make "the newest" different from "a later
one", and revisions with all settings serve side by side. Three clicks in two tabs let a stale tab
overwrite a map that was itself written by the other. Two tabs with two CSRF tokens are enough for one to replace
or delete the other's cookie and for a callback URL to be opened where it does not belong. Three commits
let two pipelines overtake each other above the one in production; the trees end on either side of
the separation of the schemas (10) and of the move of the settings (11), where the revisions differ in what they
lock, drop and copy, and the downgrades undo one of these steps or, with 1, go back through nearly all of
them, after which a pipeline may climb them again. In `StaticAssets` two deployments are a canary and its
successor, or a roll-out and the one after it; the second app is judged in the same run of
the probe. `UserIds`, `MaxSalt`, `TokenIds`, `MaxClicks`, `MaxRuns`,
`MaxVersion`, `MaxDowngrades`, `Rolled`, `CachedPaths` and `MaxDeploys` cap what is unbounded in the code; an action that would pass them is not enabled, and
where a liveness property could be met by exhaustion (`SignInConverges`) it says so.
`CHECK_DEADLOCK FALSE` is set where the system really may stop: `LocalDev` after the last run, with every
process gone; `Rollout` when every pipeline has ended and the catalogue has no table to write settings to;
`StaticAssets` when the deployments are used up and nothing is open. Symmetry is used in runs of invariants and of the
refinement of `AccountDirectory`, whose definitions treat the permuted values alike; never with liveness.

## 5. Fairness

- `HostAccounts.FairSpec` (used by `SignInConverges`): a person turned away tries again, and crashes do
  not hit every attempt at the same await (strong fairness per await, for each Google account); statements
  that were sent are answered (weak fairness). The request is driven by uvicorn's loop once it is accepted;
  nothing is assumed about PATCH.
- `RegistrySync.FairSpec`: a roll-out's traffic shift and the deploy job end (weak); a hosted app is
  started again; its loop keeps minting, asking and updating, and the network does not fail each
  time at the same place (strong). `EventuallyCurrent` speaks only of behaviours in which
  roll-outs stop and the last wire step succeeded, for a failed one is not repeated by anybody.
- `LocalDev.FairSpec`: `main()` is a sequential program whose waits all have timeouts, so its own
  steps are weakly fair. Nothing is assumed of children: `RunEnds` holds for one that ignores SIGTERM.
- `Rollout.Spec`: a workflow run and a transaction end, one way or the other (weak fairness per runner,
  written out with `Ready` for ENABLED, which TLC would evaluate by running the migrations again).
  Nothing is due from users or operators, and no step is assumed to succeed.
- `Sessions` and `StaticAssets` assume none and state no liveness: nobody has to come back from
  Google's page, and no cache has to forget.

## 6. Where the code departs from its documents

- `repeat_sign_in`: a user registers with a password; a callback finds it by address, and before it
  inserts the link the user's PATCH commits another address. A second callback of the same Google account
  then finds neither link nor address and creates a second user; both links are inserted, and from then on
  every sign-in by that Google account raises. The run takes the behaviours of `SessionSpec`, in which only
  users who registered or have signed in send a PATCH; a user whom Google's sign-in has created but not yet
  answered could do so too, after a password reset, and `HostAccounts` lets it.
- `reset_sticks`: a login that rehashes an outdated hash and is overtaken by a reset writes
  the old password back.

Met while modelling, and not runs of their own:

- Linking Google to an existing password account leaves it unverified (`auth.py:301`), where the technical
  approach says it is marked verified.
- Expanding a group in a stale tab collapses again what another tab expanded, where the PRD says groups are
  fully independent. What does hold is `NothingCollapsesUnasked` and `UnclickedKept`.
- A server that finishes an open request after SIGTERM outlives the launcher and holds its port, where the
  documentation says the second run meets no leftover process.
- Logout asks for an active user (`auth.py:194`): a deactivated user's cookie stays, and hosted
  apps accept it until it expires.
- `is_active` is tested on a copy loaded before the last writes of `login` and `google_callback`, so a
  request under way when its account is deactivated or deleted may still sign in; `NoEntryAfterEnd` says
  that none sent later does. The token it gets is worth nothing to the Host, but to hosted apps, until it expires.
- The downgrade of `e6f7a8b9c0d1` is documented to carry the settings back; a write to `user_settings`
  between its UPDATE and its DROP TABLE is acknowledged and lost. `ChoiceKept` holds of every other.
- A reset link carries no record of use, so two requests that carry one link and
  both pass the check before either writes both reset the password; a later request is refused
  (`SpentTokenRefused`), which is what the test for single use exercises.

## 7. Proofs

Checked by TLAPS for all values of the constants, from the `ASSUME`s of the modules (well-formed
constants: `Lower` maps addresses to addresses, markers differ from data, bounds are naturals), which TLC
evaluates in the runs, and nothing else; `OwnersSole` alone has hypotheses of its own.

**Accounts.** `HostAccountsProofs` proves first that the directory keeps its tables typed, addresses
unique, links owned and verified marks vouched (`DirSafe`): one lemma per action. Then it carries this to
the handlers. The four table invariants are not inductive over handler steps: a write depends on what
was read some awaits earlier. `HeldInv` states how far that memory may have aged: a key once used
stays used, what Google asserted stays asserted, a link goes only with its user, and a row is never
verified while the copy a PATCH holds is not, which is why skipping the reset of `is_verified` is
harmless. With it each handler step is a step of the directory or leaves the tables alone (`...Step`
lemmas); `NextInv` combines them. Theorems: `TypeCorrect`, `EmailsUnique`, `LinksHaveUsers`,
`VerifiedProved`, `Implements` (`Spec => ImplementsDirectory`), and on the responses `RefusalsTrue`
(`RefusalNamesHolder`), `SuccessStored` (`SuccessIsStored`) and `ServerErrorExplained`
(`ServerErrorHasCause`).

`OwnersSole` (`SoleOwner`: a Google account signs in to one user) has two hypotheses: no PATCH of the
address, and one address, in whatever case, that Google reports for an account. They are the run
`google_sign_in`'s, and neither can be dropped: no index makes a link unique, and the run
`repeat_sign_in` is what happens with PATCH. What the proof shows is that, under them, the index on the
address does the work: `AddressInv` keeps every link, and every callback about to insert one, with the
user that holds the account's address.

**Credentials.** `CredentialsProofs`: nothing in the state says that a link is spent. `TokensInv` takes
the place of such a record: the fingerprint of every link is of the present hash or an earlier one, that of a used
link of an earlier one; `HeldInv` says the same of what a request carries between its
check and its write. Salts only grow, so a dead link stays dead whoever stores the next hash.
Theorems: `TypeCorrect`, `SpentIsRefused` (`SpentTokenRefused`), `LinksRetired`
(`ResetRetiresLinks`), `AnswersAlike` (`ForgotAnswersAlike`), `ErrorExplained` (`ErrorMeansDeleted`).

**Registry.** `RegistrySyncProofs`: what is served, on its way or cached has been published
(`PublishedInv`); no revision that takes traffic on Cloud Run has the bypass (`NoBypassInv`, from
`Starts`). Theorems: `TypeCorrect`, `Guarded`, `Implements` (refinement of `RegistryView`).

**Sidebar.** `SidebarNavProofs`: a property of the stored map is not inductive, because every copy of
it (two maps per tab, one body per PATCH) is written back sooner or later. `IInv` states it of each
copy; clicks and unlisted groups only ever weaken what has to be kept (`Carried`). Theorems: `TypeCorrect`,
`PreferenceKept`, `CollapsedOnRequest`, `OwnNavShown`.

**Sessions.** `SessionsProofs`: whether a sign-in belongs to the browser cannot be seen from one state, for
the cookie that proved it is gone when the response lands. `CookieInv` says that the CSRF token in a jar was minted
for that browser; `FlowInv`, that a live handshake without its cookie was touched by another answer;
`TabInv`, what a request in flight carries of both, that a refusal's origin is that of its own state, and
that whoever is active while a request waits is among its `due`, so that the user it takes up was.
One lemma per action. Theorems: `TypeCorrect`, `OnlyWhoAsked` (`SignInAtHome`), `RefusedWithCause`
(`CsrfRefusalHasCause`), `RefusedAndBack` (`RefusalGoesBack`),
`EndedStaysOut` (`NoEntryAfterEnd`).

**Roll-outs.** `RolloutProofs`: that the serving revision has its schema does not follow from the order of one
pipeline's steps, since others run in between. `MigratedInv` says it of every pipeline past its migration,
deployed or not; it is kept because only one transaction is open at a time and starts from the revision
the database is at (`LockInv`), and a pipeline's leads upwards, to its own head (`PlanInv`); `ServingInv` and
`LandedInv` tie traffic and history to the pipelines. Theorems: `TypeCorrect`, `SchemaIsThere`
(`SchemaKeepsUp`), `UnwiredExplained` (`UnwiredHasCause`).

What is in the database needs more. That a migration leads from one revision's catalogue to the
other's is a fact about given scripts, which TLC decides (`RolloutFacts`). What is proved is that pipelines and
downgrades, each with a plan made some steps before, run it only on the database it was made for, and
that a user's settings are in one place or the other, or on their way in the copy of a transaction
(`SettingsInv`). Theorems: `MigrationsLead` (`MigrationsReverse`), `RolesApartAlways`
(`RolesKeepApart`), `ChoiceSurvives` (`ChoiceKept`).

**Launcher.** `LocalDevProofs`: `Known` and `ToBeClosed` follow every living child from its Popen into `managed` and from
there through `finally`; `StageInv` ties the child under construction to the head of `todo`; `Covered` says
that `main()` is through with exactly the labels no longer in `todo`. Theorems: `TypeCorrect`,
`NobodyForgotten` (`NothingForgotten`), `AllTried` (`EachTried`).

**Routing.** `RoutingProofs`, path rules: "the longest claim" and "the first rule" are the minimum or
maximum of a set of numbers, which exist by well-foundedness (`MinExists`, `MaxExists`). All that
matches a request is a prefix of it (`MatchIsPrefix`), so two claims of one length that match are of one
pattern, and an accepted registry has one claim of each (`LengthTells`): the longest names one app.
What the entries cover and what is claimed are the same paths (`MatchIsCovered`, `CoveredIsMatch`).
Theorems: `OwnersServe` (`OwnerServes`), `QaLikeProd` (`QaFollowsProd`), `LocalLikeProd`
(`LocalFollowsProd`).

Static assets: an action property about a page or a verdict needs to know what was true when its first half
was done. `AssetsInv` keeps it: a page that has not outlived its revision links what that revision answers
(`PageInv`); the copy kept for a versioned link is that version, but for links a page too old has
filled (`CacheInv`); what an undisturbed probe has found out of its app is still so (`ProbeInv`). Theorems:
`StylesMatch` (`StyleMatches`), `PassesAreServed` (`PassMeansServed`), `MismatchesCaused`
(`MismatchHasCause`). `StaticAssets` takes for granted that the load balancer sends the static path of an app with a
rule to that app; `StaticRouted` derives it from `PathRules`, where no entry claims a longer path that matches.

Most type invariants, and `NeverStranded` of the sidebar, are proved and therefore not among the
properties of the runs; that of `Credentials` is both.

**Only model-checked.** Liveness (`SignInConverges`, `EventuallyCurrent`, `RunEnds`, `OutageEnds`): out of the
prover's reach, as is anything about `ENABLED`. The assumptions of `RolloutFacts`: they are about
twelve given lists of statements, which TLC evaluates.

**Not modelled.** The profile form and dark-mode switch: single-column last-writer-wins writes. The CSS
build and its check, and the issue automation: sequential scripts over files and external tools
without a state that two steps share. The QA pipeline (`ci.yml`, the same steps against
another database), the release of the chrome package, and Alembic's offline mode. Test-only endpoints: off in production, and they write nothing. Configuration,
wiring, landing page, the chrome's Tailwind class lists and other helpers: computed once, or pure
formatting. The taskkill branch of the launcher: Windows only. All of these remain as they are because
nothing in them interleaves, fails halfway with state left behind, or is read again later.
