------------------------------ MODULE StaticAssets -----------------------------
(***************************************************************************)
(* The stylesheet of a hosted app on its way to a page: the app's          *)
(* revisions mount it and link it with a content hash, the load balancer   *)
(* has the URL map an operator imported last, a cache between keeps        *)
(* answers by URL, and verify_static_routing compares what the shared      *)
(* domain and the app itself answer.                                       *)
(***************************************************************************)
EXTENDS Integers, Sequences, FiniteSets

CONSTANTS
  Apps,       \* hosted apps
  Rolled,     \* bound: those that are registered, rolled out and opened
  Styles,     \* contents of their app.css
  CachedPaths, \* bound: the paths whose answers the cache may keep
  MaxDeploys, \* bound: deployments, canaries included
  None        \* nothing

Bare == "/static"           \* the path of the Host's mount and of an app's old one
NoQuery == "no ?v="         \* the URL the probe fetches
HostStyle == "host's"
Missing == "404"

ASSUME StaticAssumption ==
  /\ Apps \cap {Bare, None} = {} /\ Rolled \subseteq Apps
  /\ CachedPaths \subseteq Apps \cup {Bare}
  /\ MaxDeploys \in Nat
  /\ Styles \cap {HostStyle, Missing, NoQuery, None} = {}

VARIABLES
  registered, \* the apps in the registry
  routed,     \* the apps with a static rule in the URL map imported last
  rev,        \* rev[a]: the revision of a that has the traffic
  canary,     \* canary[a]: a tagged revision without traffic, or None
  split,      \* split[a]: does the canary get some of the traffic?
  deploys,
  cache,      \* cache[url]: the answer kept for a URL, or None
  page,       \* a page in a browser: of which app, its link and what came
  probe,      \* verify_static_routing at work
  late        \* history: URLs cached for a page that had outlived its revision

platform == <<registered, routed, rev, canary, split, deploys>>
vars == <<platform, cache, page, probe, late>>

(* The mounts of a revision: the bare one before its app migrated, both    *)
(* for one release, the prefixed one since. Its pages link the prefixed    *)
(* one when there is one.                                                  *)
Revisions ==
  {r \in [css : Styles, bare : BOOLEAN, prefixed : BOOLEAN] : r.bare \/ r.prefixed}

FixedVersion(css) == <<"dev">>             \* mutant: the hash of no file

Version(css) == <<"sha256", css>>

Paths == Apps \cup {Bare}
Queries == {Version(c) : c \in Styles} \cup {<<NoQuery>>}
Urls == [path : Paths, query : Queries]

Link(a, r) == [path |-> IF r.prefixed THEN a ELSE Bare, query |-> Version(r.css)]

NoPage == [app |-> None, css |-> None, url |-> None, got |-> None, old |-> FALSE]

Idle == [pc |-> "idle", todo |-> <<>>, shared |-> None, failures |-> {}, ok |-> {},
         cached |-> FALSE, disturbed |-> FALSE]

Init ==
  /\ registered \in {Apps, Apps \ Rolled} /\ routed = {}
  /\ rev \in [Apps -> {r \in Revisions : r.bare # r.prefixed}]
  /\ \A a \in Rolled : ~rev[a].prefixed
  /\ canary = [a \in Apps |-> None] /\ split = [a \in Apps |-> FALSE] /\ deploys = 0
  /\ cache = [u \in Urls |-> None]
  /\ page = NoPage /\ probe = Idle /\ late = {}

-----------------------------------------------------------------------------
(* Roll-outs and imports                                                   *)

(* Something of a changed while a page of it was open or it was probed.    *)
Disturb(a) ==
  /\ page' = [page EXCEPT !.old = @ \/ page.app = a]
  /\ probe' = [probe EXCEPT !.disturbed = @ \/ (probe.pc # "idle" /\ Head(probe.todo) = a)]

Deploy(a) ==
  /\ deploys < MaxDeploys /\ deploys' = deploys + 1
  /\ \E r \in Revisions : rev' = [rev EXCEPT ![a] = r]
  /\ split' = [split EXCEPT ![a] = FALSE]
  /\ Disturb(a)
  /\ UNCHANGED <<registered, routed, canary, cache, late>>

DeployCanary(a) ==
  /\ deploys < MaxDeploys /\ deploys' = deploys + 1
  /\ \E r \in Revisions : canary' = [canary EXCEPT ![a] = r]
  /\ Disturb(a)
  /\ UNCHANGED <<registered, routed, rev, split, cache, late>>

SplitTraffic(a) ==
  /\ canary[a] # None /\ ~split[a]
  /\ split' = [split EXCEPT ![a] = TRUE]
  /\ Disturb(a)
  /\ UNCHANGED <<registered, routed, rev, canary, deploys, cache, late>>

FlipTraffic(a) ==
  /\ canary[a] # None
  /\ rev' = [rev EXCEPT ![a] = canary[a]] /\ canary' = [canary EXCEPT ![a] = None]
  /\ split' = [split EXCEPT ![a] = FALSE]
  /\ Disturb(a)
  /\ UNCHANGED <<registered, routed, deploys, cache, late>>

Register(a) ==
  /\ a \notin registered
  /\ registered' = registered \cup {a}
  /\ UNCHANGED <<routed, rev, canary, split, deploys, cache, page, probe, late>>

(* An operator generates the URL map from the registry and imports it.     *)
Import ==
  /\ routed # registered
  /\ routed' = registered
  /\ probe' = [probe EXCEPT !.disturbed = @ \/ probe.pc # "idle"]
  /\ UNCHANGED <<registered, rev, canary, split, deploys, cache, page, late>>

-----------------------------------------------------------------------------
(* Requests                                                                *)

Answering(a) == {rev[a]} \cup (IF split[a] THEN {canary[a]} ELSE {})

(* A revision of a asked for a path below its own URL.                     *)
Answer(a, r, path) ==
  IF (path = a /\ r.prefixed) \/ (path = Bare /\ r.bare) THEN r.css ELSE Missing

HostAnswer(path) == IF path = Bare THEN HostStyle ELSE Missing

(* Through the load balancer: a static rule's backend, else the Host.      *)
Origin(path) ==
  IF path \in routed THEN {Answer(path, r, path) : r \in Answering(path)} ELSE {HostAnswer(path)}

(* What the shared domain answers: the copy the cache keeps, or the        *)
(* origin's answer, which the cache may keep if there is one.              *)
Shared(url, content, kept) ==
  IF cache[url] # None
  THEN content = cache[url] /\ kept = FALSE
  ELSE content \in Origin(url.path) /\ (kept => content # Missing /\ url.path \in CachedPaths)

Open(a) ==
  /\ page = NoPage
  /\ \E r \in Answering(a) :
       page' = [NoPage EXCEPT !.app = a, !.css = r.css, !.url = Link(a, r)]
  /\ UNCHANGED <<platform, cache, probe, late>>

OutlivedBy(p) == p.old \/ split[p.app]

Load ==
  /\ page # NoPage /\ page.got = None
  /\ \E content \in Styles \cup {HostStyle, Missing}, kept \in BOOLEAN :
       /\ Shared(page.url, content, kept)
       /\ page' = [page EXCEPT !.got = content]
       /\ cache' = IF kept THEN [cache EXCEPT ![page.url] = content] ELSE cache
       /\ late' = IF kept /\ OutlivedBy(page) THEN late \cup {page.url} ELSE late
  /\ UNCHANGED <<platform, probe>>

Close ==
  /\ page.got # None
  /\ page' = NoPage
  /\ UNCHANGED <<platform, cache, probe, late>>

Expire(url) ==
  /\ cache[url] # None
  /\ cache' = [cache EXCEPT ![url] = None] /\ late' = late \ {url}
  /\ UNCHANGED <<platform, page, probe>>

-----------------------------------------------------------------------------
(* verify_static_routing                                                   *)

Orders == {s \in UNION {[1..n -> Apps] : n \in 1..Cardinality(Apps)} :
             \A i, j \in DOMAIN s : s[i] = s[j] => i = j}

Start ==
  /\ probe = Idle
  /\ \E todo \in Orders : probe' = [Idle EXCEPT !.pc = "describe", !.todo = todo]
  /\ UNCHANGED <<platform, cache, page, late>>

(* With --direct-url, for one app and its canary.                          *)
StartDirect(a) ==
  /\ probe = Idle /\ canary[a] # None
  /\ probe' = [Idle EXCEPT !.pc = "bare", !.todo = <<a>>]
  /\ UNCHANGED <<platform, cache, page, late>>

NextApp == [probe EXCEPT !.pc = IF Len(probe.todo) = 1 THEN "report" ELSE "describe",
                         !.todo = IF Len(probe.todo) = 1 THEN @ ELSE Tail(@),
                         !.shared = None, !.cached = FALSE, !.disturbed = FALSE]

(* main() keeps the failure and goes on with the next app.                 *)
FailApp(a) == [NextApp EXCEPT !.failures = @ \cup {a}]

PassApp(a) == [NextApp EXCEPT !.ok = @ \cup {a}]

(* mutant: a split is not looked for *)
AnyTraffic(a) == TRUE

SingleRevision(a) == ~split[a]

(* gcloud may fail or time out, here and for the service's URL.            *)
Describe(a) ==
  /\ probe.pc = "describe"
  /\ \/ SingleRevision(a) /\ probe' = [probe EXCEPT !.pc = "shared"]
     \/ probe' = FailApp(a)
  /\ UNCHANGED <<platform, cache, page, late>>

FetchShared(a) ==
  /\ probe.pc = "shared"
  /\ \E content \in Styles \cup {HostStyle, Missing}, kept \in BOOLEAN :
       LET url == [path |-> a, query |-> <<NoQuery>>] IN
       /\ Shared(url, content, kept)
       /\ cache' = IF kept THEN [cache EXCEPT ![url] = content] ELSE cache
       /\ probe' = IF content = Missing THEN FailApp(a)
                   ELSE [probe EXCEPT !.pc = "direct", !.shared = content,
                                      !.cached = cache[url] # None]
  /\ UNCHANGED <<platform, page, late>>

(* mutant: a reference that cannot be fetched passes *)
SameOrMissing(content) == content \in {probe.shared, Missing}

Same(content) == content # Missing /\ content = probe.shared

FetchDirect(a) ==
  /\ probe.pc = "direct"
  /\ \E r \in Answering(a) :
       probe' = IF Same(Answer(a, r, a)) THEN PassApp(a) ELSE FailApp(a)
  /\ UNCHANGED <<platform, cache, page, late>>

(* A canary that was flipped or replaced answers under its tag no more:    *)
(* the request fails.                                                      *)
Tagged(a, path) == IF canary[a] = None THEN Missing ELSE Answer(a, canary[a], path)

FetchBare(a) ==
  /\ probe.pc = "bare"
  /\ probe' = IF Tagged(a, Bare) = Missing THEN FailApp(a)
              ELSE [probe EXCEPT !.pc = "prefixed", !.shared = Tagged(a, Bare)]
  /\ UNCHANGED <<platform, cache, page, late>>

FetchPrefixed(a) ==
  /\ probe.pc = "prefixed"
  /\ probe' = IF Same(Tagged(a, a)) THEN PassApp(a) ELSE FailApp(a)
  /\ UNCHANGED <<platform, cache, page, late>>

(* HTTP errors of the server's own and network trouble are VerificationErrors. *)
FetchFails(a) ==
  /\ probe.pc \in {"shared", "direct", "bare", "prefixed"}
  /\ probe' = FailApp(a)
  /\ UNCHANGED <<platform, cache, page, late>>

Report ==
  /\ probe.pc = "report"
  /\ probe' = Idle
  /\ UNCHANGED <<platform, cache, page, late>>

-----------------------------------------------------------------------------

Probe(a) ==
  /\ probe.todo # <<>> /\ a = Head(probe.todo)
  /\ \/ Describe(a) \/ FetchShared(a) \/ FetchDirect(a)
     \/ FetchBare(a) \/ FetchPrefixed(a) \/ FetchFails(a)

Next ==
  \/ \E a \in Rolled : Deploy(a) \/ DeployCanary(a) \/ SplitTraffic(a) \/ FlipTraffic(a)
                       \/ Register(a) \/ Open(a)
  \/ \E a \in Apps : StartDirect(a) \/ Probe(a)
  \/ Import \/ Load \/ Close \/ Start \/ Report
  \/ \E u \in Urls : Expire(u)

Spec == Init /\ [][Next]_vars

-----------------------------------------------------------------------------

(* A page that links the prefixed path gets the stylesheet it was rendered *)
(* for, whatever earlier deployments left in the cache, unless it outlived *)
(* its revision, such a page filled the cache for its URL, or the URL map  *)
(* in force is older than the registry entry.                              *)
StyleMatches ==
  [][page.got = None /\ page'.got \notin {None, page.css} /\ page.url.path # Bare =>
       \/ OutlivedBy(page) \/ page.url \in late
       \/ page.app \notin routed]_vars

(* An app passes only if the shared domain sends its static path to its    *)
(* own backend, which serves it there, unless it was rolled out, or routed *)
(* anew, under the probe, or the cache answered; a canary only if it       *)
(* serves both paths.                                                      *)
PassMeansServed ==
  [][\A a \in Apps : a \in probe'.ok \ probe.ok =>
       \/ probe.disturbed
       \/ /\ probe.pc = "prefixed"
          /\ canary[a].bare /\ canary[a].prefixed
       \/ /\ probe.pc = "direct"
          /\ rev[a].prefixed /\ (a \in routed \/ probe.cached)]_vars

(* An app whose answers fail the comparison has no rule, serves nothing    *)
(* there, was rolled out under the probe, or has an old copy in the cache. *)
MismatchHasCause ==
  [][\A a \in Apps : a \in probe'.failures \ probe.failures /\ (FetchShared(a) \/ FetchDirect(a)) =>
       \/ a \notin routed \/ ~rev[a].prefixed
       \/ probe.disturbed \/ probe.cached]_vars
=============================================================================
