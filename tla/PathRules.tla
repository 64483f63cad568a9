------------------------------ MODULE PathRules -------------------------------
(***************************************************************************)
(* From the app registry to the service that answers a request.            *)
(* generate_path_rules turns the registry into path rules or raises; the   *)
(* Google load balancer (URL map, per environment) and Caddy (on a         *)
(* developer's machine) each match requests against them in their own way. *)
(* The registry changes one edit at a time, as commits change APPS.        *)
(*                                                                         *)
(* A path is the sequence of its segments; a trailing slash is an empty    *)
(* last segment.                                                           *)
(***************************************************************************)
EXTENDS Integers, Sequences, FiniteSets, SequencesExt

CONSTANTS
  Names,      \* service names of AppEntries
  HostName,   \* the Host's own among them ("organizeme")
  HostPaths,  \* HOST_PATHS
  HostNav,    \* nav of the Host's own entry, which no edit changes
  NavPaths,   \* paths of AppNavItems that edits add and remove
  ApiPrefixes, \* api_prefixes that edits add and remove
  Static,     \* the segment of static_mount_path
  Ported,     \* services that have a port in infra/local_dev/ports.py
  Requests    \* request paths

Host == "host-backend"

ASSUME RulesAssumption ==
  /\ IsFiniteSet(Names) /\ HostName \in Names
  /\ HostName \in Ported /\ Ported \subseteq Names
  /\ Host \notin Names
  /\ Names \subseteq STRING /\ Static \in STRING
  /\ HostPaths \cup HostNav \cup NavPaths \cup ApiPrefixes \cup Requests \subseteq Seq(STRING)
  /\ <<>> \notin HostPaths \cup Requests

VARIABLES
  apps,       \* APPS: the order of its entries
  nav,        \* nav[a], api_prefixes[a], qa_available[a] of a's entry
  prefixes,
  qa

registryVars == <<apps, nav, prefixes, qa>>

Environments == {"qa", "prod", "local"}

RegistryInit ==
  /\ apps \in {s \in [1..Cardinality(Names) -> Names] : Range(s) = Names}
  /\ nav = [a \in Names |-> IF a = HostName THEN HostNav ELSE {}]
  /\ prefixes = [a \in Names |-> {}]
  /\ qa = [a \in Names |-> TRUE]

-----------------------------------------------------------------------------
(* Edits of app/core/registry.py                                           *)

EditNav(a) ==
  /\ \E p \in NavPaths :
       \/ nav' = [nav EXCEPT ![a] = @ \cup {p}]
       \/ nav' = [nav EXCEPT ![a] = @ \ {p}]
  /\ UNCHANGED <<apps, prefixes, qa>>

EditPrefixes(a) ==
  /\ \E p \in ApiPrefixes :
       \/ prefixes' = [prefixes EXCEPT ![a] = @ \cup {p}]
       \/ prefixes' = [prefixes EXCEPT ![a] = @ \ {p}]
  /\ UNCHANGED <<apps, nav, qa>>

EditQa(a) ==
  /\ qa' = [qa EXCEPT ![a] = ~@]
  /\ UNCHANGED <<apps, nav, prefixes>>

RegistryEdit == \E a \in Names \ {HostName} : EditNav(a) \/ EditPrefixes(a) \/ EditQa(a)

RegistryEdits == RegistryInit /\ [][RegistryEdit]_registryVars

-----------------------------------------------------------------------------
(* generate_path_rules                                                     *)

EveryApp(env) == Names                     \* mutant: apps without QA are not skipped

FilteredLocally(env) == {a \in Names : env = "prod" \/ qa[a]}   \* mutant: apply_qa_filter=True

(* QA has no backend for an app without qa_available; the filter is off    *)
(* for Caddy.                                                              *)
Generated(env) == {a \in Names : env # "qa" \/ qa[a]}

(* prefix.rstrip("/") *)
Stripped(prefix) == SubSeq(prefix, 1, Max({0} \cup {i \in DOMAIN prefix : prefix[i] # ""}))

Claim(a, source, path, wild) == [app |-> a, source |-> source, path |-> path, wild |-> wild]

HostClaims == {Claim(Host, p, p, FALSE) : p \in HostPaths}

NavClaims(a) == {Claim(a, <<"nav", p>>, p, FALSE) : p \in nav[a] \ HostPaths}

WildcardOnly(a) ==                         \* mutant: "/*" is taken to match the bare path
  {Claim(a, <<"prefix", p>>, Stripped(p), TRUE) : p \in prefixes[a]}

(* _prefix_patterns: the bare path and everything below it. *)
PrefixClaims(a) ==
  {Claim(a, <<"prefix", p>>, Stripped(p), wild) : p \in prefixes[a], wild \in BOOLEAN}

StaticClaims(a) == {Claim(a, <<"static">>, <<a, Static>>, TRUE)}

Claims(env) ==
  HostClaims \cup UNION {NavClaims(a) \cup PrefixClaims(a) \cup StaticClaims(a) : a \in Generated(env)}

SamePattern(c, d) == c.path = d.path /\ c.wild = d.wild

AlwaysAccepted(env) == TRUE                \* mutant: the last claim of a path wins

(* _claim_path raised for no path: HOST_PATHS are seen from the start. *)
Accepted(env) == \A c, d \in Claims(env) : SamePattern(c, d) => c = d

-----------------------------------------------------------------------------
(* Matching                                                                *)

Below(path, request) == IsStrictPrefix(path, request)

Matches(c, request) == IF c.wild THEN Below(c.path, request) ELSE request = c.path

Matching(env, request) == {c \in Claims(env) : Matches(c, request)}

(* The URL map: an exact path first, then the longest wildcard, else       *)
(* defaultService.                                                         *)
UrlMap(env, request) ==
  LET found == Matching(env, request) IN
  IF found = {} THEN Host
  ELSE (CHOOSE c \in found : \A d \in found : Len(d.path) <= Len(c.path)).app

(* _local_service_name: the Host's rule and its own entry's rule name one  *)
(* process.                                                                *)
Process(service) == IF service = Host THEN HostName ELSE service

NoFallback(request) == Host                  \* mutant: no bare handle block, a 404

Fallback(request) == HostName

(* Caddy: handle blocks exclude each other in the order of the rules, the  *)
(* Host's first; a service without a port has none; a bare one comes last. *)
Caddy(request) ==
  LET rules == <<Host>> \o apps
      hits == {i \in DOMAIN rules : /\ Process(rules[i]) \in Ported
                                   /\ \E c \in Matching("local", request) : c.app = rules[i]}
  IN IF hits = {} THEN Fallback(request) ELSE Process(rules[Min(hits)])

-----------------------------------------------------------------------------

(* The paths in the entry of a that cover the request. *)
Covering(a, request) ==
  IF a = Host
  THEN HostPaths \cap {request}
  ELSE ((nav[a] \ HostPaths) \cap {request})
       \cup {p \in {Stripped(q) : q \in prefixes[a]} : IsPrefix(p, request)}
       \cup {m \in {<<a, Static>>} : Below(m, request)}

Depth(a, request) == Max({0} \cup {Len(p) : p \in Covering(a, request)})

(* The apps that run in env. *)
Deployed(env) == {Host} \cup {a \in Names : env = "prod" \/ qa[a]}

(* The apps of env whose entry covers the request most specifically. *)
Owners(env, request) ==
  {a \in Deployed(env) :
     /\ Covering(a, request) # {}
     /\ \A b \in Deployed(env) : Depth(b, request) <= Depth(a, request)}

(* Every request reaches the one app whose entry covers it most            *)
(* specifically, nested and neighbouring prefixes of several apps, bare    *)
(* paths and the Host's own pages included, and the Host if there is none, *)
(* in every environment whose rules the generator accepts.                 *)
OwnerServes ==
  \A env \in {"qa", "prod"}, request \in Requests :
    Accepted(env) =>
      \/ Owners(env, request) = {UrlMap(env, request)}
      \/ Owners(env, request) = {} /\ UrlMap(env, request) = Host

(* A registry that prod takes, QA takes too; QA sends every request of an  *)
(* app it has where prod sends it, and none to an app it has not.          *)
QaFollowsProd ==
  Accepted("prod") =>
    /\ Accepted("qa")
    /\ \A request \in Requests :
         LET inProd == UrlMap("prod", request)
             inQa == UrlMap("qa", request)
         IN inQa \in Deployed("qa") /\ (inProd \in Deployed("qa") => inQa = inProd)

(* A developer's machine sends a request to the process that prod sends it *)
(* to, QA or not, wherever the paths of different apps do not overlap      *)
(* (where they do, Caddy takes the first rule and the URL map the longest  *)
(* path); without a port for that process, to the Host.                    *)
LocalFollowsProd ==
  Accepted("prod") =>
    \A request \in Requests :
      LET inProd == Process(UrlMap("prod", request)) IN
      (\A c, d \in Matching("prod", request) : Process(c.app) = Process(d.app))
        => Caddy(request) = (IF inProd \in Ported THEN inProd ELSE HostName)
=============================================================================
