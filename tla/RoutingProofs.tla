----------------------------- MODULE RoutingProofs -----------------------------
(***************************************************************************)
(* Proofs about the two halves of the routing of hosted apps: PathRules,   *)
(* what reaches whom, and StaticAssets, what a static path then answers.   *)
(*                                                                         *)
(* PathRules, for any registry, any paths and any number of apps: all that *)
(* matches a request is a prefix of it, so that two claims of one length   *)
(* that match are claims of one pattern, and an accepted registry has one  *)
(* of each: "the longest claim" names one app.  The theorems relate it to  *)
(* what the entries say (Covering), and the rules of the environments to   *)
(* one another (Claims).                                                   *)
(*                                                                         *)
(* StaticAssets, for any apps, revisions and contents: AssetsInv says what *)
(* a page, the cache and the probe know of the revision that answers.      *)
(* StaticRouted ties it to PathRules.                                      *)
(***************************************************************************)
EXTENDS PathRules, StaticAssets, FiniteSetTheorems, SequenceTheorems,
        WellFoundedInduction, TLAPS

Segments == Seq(STRING)

-----------------------------------------------------------------------------
(* Least and greatest elements, prefixes                                   *)

(* A set of numbers has a least one. *)
LEMMA MinExists ==
  ASSUME NEW S \in SUBSET Nat, S # {}
  PROVE  Min(S) \in S /\ \A x \in S : Min(S) <= x
<1> DEFINE R == {ss \in Nat \X Nat : ss[1] < ss[2]}
<1>1. IsWellFoundedOn(R, Nat)
  BY NatLessThanWellFounded, Zenon DEF OpToRel
<1>2. PICK m \in S : \A x \in S : ~(<<x, m>> \in R)
  <2> HIDE DEF R
  <2> QED BY <1>1, WFMin, Zenon
<1>3. \A x \in S : m <= x
  <2> SUFFICES ASSUME NEW x \in S, x < m PROVE FALSE
    OBVIOUS
  <2>1. <<x, m>> \in R
    OBVIOUS
  <2> QED BY <1>2, <2>1, Zenon
<1> QED BY <1>3 DEF Min

(* And, when they are bounded, a greatest one. *)
LEMMA MaxExists ==
  ASSUME NEW n \in Nat, NEW S \in SUBSET (0..n), S # {}
  PROVE  Max(S) \in S /\ \A x \in S : x <= Max(S)
<1> DEFINE T == {n - x : x \in S}
<1>1. T \in SUBSET Nat /\ T # {}
  <2>1. \A x \in S : n - x \in Nat
    OBVIOUS
  <2>2. PICK x \in S : TRUE
    OBVIOUS
  <2>3. n - x \in T
    OBVIOUS
  <2> QED BY <2>1, <2>3
<1>2. Min(T) \in T /\ \A y \in T : Min(T) <= y
  BY <1>1, MinExists
<1>3. PICK m \in S : Min(T) = n - m
  BY <1>2
<1>4. \A x \in S : x <= m
  <2> TAKE x \in S
  <2>1. n - x \in T
    OBVIOUS
  <2>2. Min(T) <= n - x
    BY <1>2, <2>1, Zenon
  <2>3. n - m <= n - x
    BY <1>3, <2>2, Zenon
  <2> QED BY <2>3
<1> QED BY <1>4 DEF Max

(* Prefixes of one sequence that are of one length are one sequence. *)
LEMMA PrefixUnique ==
  ASSUME NEW s \in Segments, NEW t \in Segments, NEW r \in Segments,
         IsPrefix(s, r), IsPrefix(t, r), Len(s) = Len(t)
  PROVE  s = t
<1>1. SubSeq(s, 1, Len(s)) = s /\ SubSeq(t, 1, Len(t)) = t
  BY SubSeqFull DEF Segments
<1> QED BY <1>1 DEF IsPrefix

LEMMA PrefixSelf == \A r \in Segments : IsPrefix(r, r)
BY DEF IsPrefix, Segments

(* Stripping slashes leaves a path. *)
LEMMA BareIsPath ==
  ASSUME NEW p \in Segments
  PROVE  Stripped(p) \in Segments
<1> DEFINE S == {0} \cup {i \in DOMAIN p : p[i] # ""}
<1>1. Len(p) \in Nat /\ DOMAIN p = 1..Len(p) /\ \A i \in DOMAIN p : p[i] \in STRING
  BY DEF Segments
<1>2. S \in SUBSET (0..Len(p)) /\ S # {}
  <2>1. \A i \in S : i = 0 \/ i \in 1..Len(p)
    BY <1>1, Zenon
  <2>2. 0 \in S
    OBVIOUS
  <2> HIDE DEF S
  <2> QED BY <1>1, <2>1, <2>2
<1>3. PICK m \in 0..Len(p) : Max(S) = m
  <2> HIDE DEF S
  <2> QED BY <1>1, <1>2, MaxExists
<1>4. \A i \in 1..m : p[i] \in STRING
  BY <1>1
<1>5. SubSeq(p, 1, m) \in Seq(STRING)
  BY <1>4, SubSeqProperties
<1>6. Stripped(p) = SubSeq(p, 1, m)
  BY <1>3, Zenon DEF Stripped
<1> QED BY <1>5, <1>6 DEF Segments

-----------------------------------------------------------------------------
(* The registry is well formed                                             *)

TypeOK ==
  /\ apps \in [1..Cardinality(Names) -> Names] /\ Range(apps) = Names
  /\ nav \in [Names -> SUBSET Segments]
  /\ prefixes \in [Names -> SUBSET Segments]
  /\ qa \in [Names -> BOOLEAN]

LEMMA InitType == RegistryInit => TypeOK
BY RulesAssumption DEF RegistryInit, TypeOK, Segments

LEMMA NextType == TypeOK /\ [RegistryEdit]_registryVars => TypeOK'
<1> SUFFICES ASSUME TypeOK, [RegistryEdit]_registryVars PROVE TypeOK'
  OBVIOUS
<1>1. NavPaths \subseteq Segments /\ ApiPrefixes \subseteq Segments
  BY RulesAssumption DEF Segments
<1>2. ASSUME NEW a \in Names, EditNav(a) PROVE TypeOK'
  BY <1>1, <1>2 DEF EditNav, TypeOK
<1>3. ASSUME NEW a \in Names, EditPrefixes(a) PROVE TypeOK'
  BY <1>1, <1>3 DEF EditPrefixes, TypeOK
<1>4. ASSUME NEW a \in Names, EditQa(a) PROVE TypeOK'
  BY <1>4 DEF EditQa, TypeOK
<1>5. CASE UNCHANGED registryVars
  BY <1>5 DEF registryVars, TypeOK
<1> QED BY <1>2, <1>3, <1>4, <1>5 DEF RegistryEdit

LEMMA Typed == RegistryEdits => []TypeOK
BY InitType, NextType, PTL DEF RegistryEdits

-----------------------------------------------------------------------------
(* Claims and what they match                                              *)

(* A claim is of the Host or of an app whose entry the rules are generated *)
(* from, and its path is a path.                                           *)
LEMMA ClaimsTyped ==
  ASSUME TypeOK, NEW env, NEW c \in Claims(env)
  PROVE  c.path \in Segments /\ c.wild \in BOOLEAN /\ c.app \in {Host} \cup Generated(env)
<1>1. CASE c \in HostClaims
  <2>1. PICK p \in HostPaths : c = Claim(Host, p, p, FALSE)
    BY <1>1 DEF HostClaims
  <2> QED BY <2>1, RulesAssumption DEF Claim, Segments
<1>2. ASSUME NEW a \in Generated(env), c \in NavClaims(a)
      PROVE  c.path \in Segments /\ c.wild \in BOOLEAN /\ c.app = a
  <2>1. PICK p \in nav[a] \ HostPaths : c = Claim(a, <<"nav", p>>, p, FALSE)
    BY <1>2 DEF NavClaims
  <2>2. p \in Segments
    BY <2>1 DEF TypeOK, Generated
  <2> QED BY <2>1, <2>2 DEF Claim
<1>3. ASSUME NEW a \in Generated(env), c \in PrefixClaims(a)
      PROVE  c.path \in Segments /\ c.wild \in BOOLEAN /\ c.app = a
  <2>1. PICK p \in prefixes[a], w \in BOOLEAN : c = Claim(a, <<"prefix", p>>, Stripped(p), w)
    BY <1>3 DEF PrefixClaims
  <2>2. Stripped(p) \in Segments
    BY <2>1, BareIsPath DEF TypeOK, Generated
  <2> QED BY <2>1, <2>2 DEF Claim
<1>4. ASSUME NEW a \in Generated(env), c \in StaticClaims(a)
      PROVE  c.path \in Segments /\ c.wild \in BOOLEAN /\ c.app = a
  <2>1. <<a, Static>> \in Segments
    BY RulesAssumption DEF Segments, Generated
  <2>2. c = Claim(a, <<"static">>, <<a, Static>>, TRUE)
    BY <1>4 DEF StaticClaims
  <2>3. c.path = <<a, Static>> /\ c.wild = TRUE /\ c.app = a
    BY <2>2, Zenon DEF Claim
  <2> QED BY <2>1, <2>3
<1> QED BY <1>1, <1>2, <1>3, <1>4 DEF Claims, HostClaims, Claim

(* A path that matches is a prefix of the request; an exact one is all of  *)
(* it and a wildcard's is not.                                             *)
LEMMA MatchIsPrefix ==
  ASSUME NEW c, NEW request \in Segments, c.wild \in BOOLEAN, Matches(c, request)
  PROVE  /\ IsPrefix(c.path, request)
         /\ c.wild <=> c.path # request
BY PrefixSelf DEF Matches, Below, IsStrictPrefix

(* Two claims of one length that match the same request are the same.      *)
LEMMA LengthTells ==
  ASSUME TypeOK, NEW env, Accepted(env), NEW request \in Segments,
         NEW c \in Matching(env, request), NEW d \in Matching(env, request),
         Len(c.path) = Len(d.path)
  PROVE  c = d
<1>1. /\ c \in Claims(env) /\ Matches(c, request) /\ c.path \in Segments /\ c.wild \in BOOLEAN
      /\ d \in Claims(env) /\ Matches(d, request) /\ d.path \in Segments /\ d.wild \in BOOLEAN
  BY ClaimsTyped DEF Matching
<1>2. /\ IsPrefix(c.path, request) /\ IsPrefix(d.path, request)
      /\ c.wild <=> c.path # request
      /\ d.wild <=> d.path # request
  BY <1>1, MatchIsPrefix
<1>3. c.path = d.path
  BY <1>1, <1>2, PrefixUnique
<1>4. c.wild = d.wild
  BY <1>1, <1>2, <1>3
<1> QED BY <1>1, <1>3, <1>4 DEF Accepted, SamePattern

(* Among the claims that match there is a longest.                         *)
LEMMA LongestExists ==
  ASSUME TypeOK, NEW env, NEW request \in Segments, Matching(env, request) # {}
  PROVE  \E c \in Matching(env, request) :
           \A d \in Matching(env, request) : Len(d.path) <= Len(c.path)
<1> DEFINE S == {Len(d.path) : d \in Matching(env, request)}
<1>1. Len(request) \in Nat
  BY DEF Segments
<1>2. \A d \in Matching(env, request) : Len(d.path) \in 0..Len(request)
  <2> TAKE d \in Matching(env, request)
  <2>1. d \in Claims(env) /\ Matches(d, request)
    BY DEF Matching
  <2>2. d.path \in Segments /\ IsPrefix(d.path, request)
    BY <2>1, ClaimsTyped, MatchIsPrefix
  <2> QED BY <1>1, <2>2 DEF IsPrefix, Segments
<1>3. S \in SUBSET (0..Len(request)) /\ S # {}
  BY <1>2
<1>4. Max(S) \in S /\ \A x \in S : x <= Max(S)
  <2> HIDE DEF S
  <2> QED BY <1>1, <1>3, MaxExists
<1>5. PICK c \in Matching(env, request) : Max(S) = Len(c.path)
  BY <1>4
<1>6. \A d \in Matching(env, request) : Len(d.path) \in S
  OBVIOUS
<1> QED BY <1>4, <1>5, <1>6

(* The URL map's answer is the app of the one longest claim.               *)
LEMMA UrlMapLongest ==
  ASSUME TypeOK, NEW env, Accepted(env), NEW request \in Segments,
         NEW c \in Matching(env, request),
         \A d \in Matching(env, request) : Len(d.path) <= Len(c.path)
  PROVE  UrlMap(env, request) = c.app
<1> DEFINE longest == CHOOSE x \in Matching(env, request) :
                        \A d \in Matching(env, request) : Len(d.path) <= Len(x.path)
<1>1. /\ longest \in Matching(env, request)
      /\ \A d \in Matching(env, request) : Len(d.path) <= Len(longest.path)
  OBVIOUS
<1>2. UrlMap(env, request) = longest.app
  BY Zenon DEF UrlMap
<1> HIDE DEF longest
<1>3. c.path \in Segments /\ longest.path \in Segments
  BY <1>1, ClaimsTyped DEF Matching
<1>4. Len(c.path) = Len(longest.path)
  <2>1. Len(c.path) <= Len(longest.path) /\ Len(longest.path) <= Len(c.path)
    BY <1>1
  <2> QED BY <1>3, <2>1 DEF Segments
<1> QED BY <1>1, <1>2, <1>4, LengthTells

LEMMA UrlMapElse ==
  ASSUME NEW env, NEW request, Matching(env, request) = {}
  PROVE  UrlMap(env, request) = Host
BY DEF UrlMap

-----------------------------------------------------------------------------
(* What the entries cover and what is claimed are the same                 *)

(* On the load balancer the rules are generated for whoever is deployed.   *)
LEMMA DeployedGenerated ==
  ASSUME NEW env \in {"qa", "prod"}
  PROVE  Deployed(env) = {Host} \cup Generated(env)
BY DEF Deployed, Generated

LEMMA MatchIsCovered ==
  ASSUME TypeOK, NEW env, NEW request \in Segments, NEW c \in Matching(env, request)
  PROVE  c.path \in Covering(c.app, request)
<1>1. c \in Claims(env) /\ Matches(c, request)
  BY DEF Matching
<1>2. IsPrefix(c.path, request)
  BY <1>1, ClaimsTyped, MatchIsPrefix
<1>3. CASE c \in HostClaims
  <2>1. PICK p \in HostPaths : c = Claim(Host, p, p, FALSE)
    BY <1>3 DEF HostClaims
  <2>2. c.app = Host /\ c.path = p /\ ~c.wild
    BY <2>1 DEF Claim
  <2> QED BY <1>1, <2>2 DEF Covering, Matches
<1>4. ASSUME NEW a \in Generated(env), c \in NavClaims(a)
      PROVE  c.path \in Covering(c.app, request)
  <2>1. PICK p \in nav[a] \ HostPaths : c = Claim(a, <<"nav", p>>, p, FALSE)
    BY <1>4 DEF NavClaims
  <2>2. c.app = a /\ c.path = p /\ ~c.wild /\ a # Host
    BY <2>1, RulesAssumption DEF Claim, Generated
  <2> QED BY <1>1, <2>2 DEF Covering, Matches
<1>5. ASSUME NEW a \in Generated(env), c \in PrefixClaims(a)
      PROVE  c.path \in Covering(c.app, request)
  <2>1. PICK p \in prefixes[a], w \in BOOLEAN : c = Claim(a, <<"prefix", p>>, Stripped(p), w)
    BY <1>5 DEF PrefixClaims
  <2>2. c.app = a /\ c.path = Stripped(p) /\ a # Host
    BY <2>1, RulesAssumption DEF Claim, Generated
  <2> QED BY <1>2, <2>2, Zenon DEF Covering
<1>6. ASSUME NEW a \in Generated(env), c \in StaticClaims(a)
      PROVE  c.path \in Covering(c.app, request)
  <2>1. c = Claim(a, <<"static">>, <<a, Static>>, TRUE)
    BY <1>6 DEF StaticClaims
  <2>2. c.app = a /\ c.path = <<a, Static>> /\ c.wild = TRUE
    BY <2>1, Zenon DEF Claim
  <2>3. a # Host
    BY RulesAssumption DEF Generated
  <2>4. Below(c.path, request)
    BY <1>1, <2>2, Zenon DEF Matches
  <2> QED BY <2>2, <2>3, <2>4, Zenon DEF Covering
<1> QED BY <1>1, <1>3, <1>4, <1>5, <1>6 DEF Claims

LEMMA CoveredIsMatch ==
  ASSUME TypeOK, NEW env, NEW request \in Segments,
         NEW a \in {Host} \cup Generated(env), NEW p \in Covering(a, request)
  PROVE  \E c \in Matching(env, request) : c.app = a /\ c.path = p
<1>1. SUFFICES ASSUME TRUE
               PROVE  \E c \in Claims(env) : Matches(c, request) /\ c.app = a /\ c.path = p
  BY DEF Matching
<1>2. CASE a = Host
  <2>1. p \in HostPaths /\ p = request
    BY <1>2 DEF Covering
  <2> DEFINE c == Claim(Host, p, p, FALSE)
  <2>2. c \in Claims(env)
    BY <2>1 DEF Claims, HostClaims
  <2>3. c.app = a /\ c.path = p /\ c.wild = FALSE
    BY <1>2 DEF Claim
  <2> HIDE DEF c
  <2>4. Matches(c, request)
    BY <2>1, <2>3 DEF Matches
  <2> QED BY <2>2, <2>3, <2>4
<1>3. CASE a # Host
  <2>1. a \in Generated(env)
    BY <1>3
  <2>2. NavClaims(a) \cup PrefixClaims(a) \cup StaticClaims(a) \subseteq Claims(env)
    BY <2>1 DEF Claims
  <2>3. CASE p \in (nav[a] \ HostPaths) \cap {request}
    <3> DEFINE c == Claim(a, <<"nav", p>>, p, FALSE)
    <3>1. c \in Claims(env)
      BY <2>2, <2>3 DEF NavClaims
    <3>2. c.app = a /\ c.path = p /\ c.wild = FALSE
      BY DEF Claim
    <3> HIDE DEF c
    <3>3. Matches(c, request)
      BY <2>3, <3>2 DEF Matches
    <3> QED BY <3>1, <3>2, <3>3
  <2>4. ASSUME NEW q \in prefixes[a], p = Stripped(q), IsPrefix(p, request)
        PROVE  \E c \in Claims(env) : Matches(c, request) /\ c.app = a /\ c.path = p
    <3>1. PICK w \in BOOLEAN : w <=> p # request
      OBVIOUS
    <3> DEFINE c == Claim(a, <<"prefix", q>>, Stripped(q), w)
    <3>2. c \in Claims(env)
      BY <2>2 DEF PrefixClaims
    <3>3. c.app = a /\ c.path = p /\ c.wild = w
      BY <2>4, Zenon DEF Claim
    <3> HIDE DEF c
    <3>4. Matches(c, request)
      BY <2>4, <3>1, <3>3, Zenon DEF Matches, Below, IsStrictPrefix
    <3> QED BY <3>2, <3>3, <3>4
  <2>5. CASE p = <<a, Static>> /\ Below(p, request)
    <3> DEFINE c == Claim(a, <<"static">>, <<a, Static>>, TRUE)
    <3>1. c \in Claims(env)
      BY <2>2 DEF StaticClaims
    <3>2. c.app = a /\ c.path = p /\ c.wild = TRUE
      BY <2>5, Zenon DEF Claim
    <3> HIDE DEF c
    <3>3. Matches(c, request)
      BY <2>5, <3>2, Zenon DEF Matches
    <3> QED BY <3>1, <3>2, <3>3
  <2>6. \/ p \in (nav[a] \ HostPaths) \cap {request}
        \/ \E q \in prefixes[a] : p = Stripped(q) /\ IsPrefix(p, request)
        \/ p = <<a, Static>> /\ Below(p, request)
    BY <1>3, Zenon DEF Covering
  <2> QED BY <2>3, <2>4, <2>5, <2>6
<1> QED BY <1>2, <1>3

(* The depth of a covering entry is the length of its longest path. *)
LEMMA DepthIsLongest ==
  ASSUME TypeOK, NEW env \in {"qa", "prod"}, NEW request \in Segments,
         NEW a \in Deployed(env)
  PROVE  /\ Depth(a, request) \in Nat
         /\ \A p \in Covering(a, request) : Len(p) <= Depth(a, request)
         /\ Depth(a, request) = 0 \/ \E p \in Covering(a, request) : Len(p) = Depth(a, request)
<1> DEFINE S == {0} \cup {Len(p) : p \in Covering(a, request)}
<1>1. Len(request) \in Nat
  BY DEF Segments
<1>2. \A p \in Covering(a, request) : Len(p) \in 0..Len(request)
  <2> TAKE p \in Covering(a, request)
  <2>1. PICK c \in Matching(env, request) : c.app = a /\ c.path = p
    BY CoveredIsMatch, DeployedGenerated
  <2>2. c \in Claims(env) /\ Matches(c, request)
    BY DEF Matching
  <2>3. p \in Segments /\ IsPrefix(p, request)
    BY <2>1, <2>2, ClaimsTyped, MatchIsPrefix
  <2> QED BY <1>1, <2>3 DEF IsPrefix, Segments
<1>3. S \in SUBSET (0..Len(request)) /\ S # {}
  BY <1>1, <1>2
<1>4. Max(S) \in S /\ \A x \in S : x <= Max(S)
  <2> HIDE DEF S
  <2> QED BY <1>1, <1>3, MaxExists
<1>5. Depth(a, request) = Max(S)
  BY Zenon DEF Depth
<1>6. \A p \in Covering(a, request) : Len(p) \in S
  OBVIOUS
<1>7. Depth(a, request) = 0 \/ \E p \in Covering(a, request) : Len(p) = Depth(a, request)
  BY <1>4, <1>5
<1> HIDE DEF S
<1> QED BY <1>1, <1>3, <1>4, <1>5, <1>6, <1>7

-----------------------------------------------------------------------------
(* The request goes to the app whose entry has the longest path.           *)

LEMMA OwnerIsLongest ==
  ASSUME TypeOK, NEW env \in {"qa", "prod"}, Accepted(env), NEW request \in Segments,
         NEW c \in Matching(env, request),
         \A d \in Matching(env, request) : Len(d.path) <= Len(c.path)
  PROVE  Owners(env, request) = {c.app}
<1>1. c \in Claims(env) /\ c.path \in Segments /\ c.app \in Deployed(env)
  BY ClaimsTyped, DeployedGenerated DEF Matching
<1>2. c.path \in Covering(c.app, request)
  BY MatchIsCovered
<1>3. Len(c.path) \in Nat
  BY <1>1 DEF Segments
<1>4. ASSUME NEW b \in Deployed(env)
      PROVE  Depth(b, request) \in Nat /\ Depth(b, request) <= Len(c.path)
  <2>1. CASE Depth(b, request) = 0
    BY <1>3, <2>1
  <2>2. ASSUME NEW p \in Covering(b, request), Len(p) = Depth(b, request)
        PROVE  Depth(b, request) <= Len(c.path)
    <3>1. PICK d \in Matching(env, request) : d.app = b /\ d.path = p
      BY CoveredIsMatch, DeployedGenerated
    <3> QED BY <2>2, <3>1
  <2> QED BY <2>1, <2>2, DepthIsLongest
<1>5. Depth(c.app, request) = Len(c.path)
  <2>1. Len(c.path) <= Depth(c.app, request)
    BY <1>1, <1>2, DepthIsLongest
  <2>2. Depth(c.app, request) \in Nat /\ Depth(c.app, request) <= Len(c.path)
    BY <1>1, <1>4
  <2> QED BY <1>3, <2>1, <2>2
<1>6. c.app \in Owners(env, request)
  BY <1>1, <1>2, <1>4, <1>5 DEF Owners
<1>7. ASSUME NEW a \in Owners(env, request) PROVE a = c.app
  <2>1. /\ a \in Deployed(env) /\ Covering(a, request) # {}
        /\ Depth(c.app, request) <= Depth(a, request)
    BY <1>1 DEF Owners
  <2>2. Depth(a, request) = Len(c.path)
    BY <1>3, <1>4, <1>5, <2>1
  <2>3. PICK p \in Covering(a, request) : Len(p) = Depth(a, request)
    <3>1. CASE Depth(a, request) = 0
      <4>1. PICK p \in Covering(a, request) : TRUE
        BY <2>1
      <4>2. Len(p) <= 0
        BY <2>1, <3>1, DepthIsLongest
      <4>3. PICK d \in Matching(env, request) : d.app = a /\ d.path = p
        BY <2>1, CoveredIsMatch, DeployedGenerated
      <4>4. p \in Segments
        BY <4>3, ClaimsTyped DEF Matching
      <4>5. Len(p) = 0
        BY <4>2, <4>4 DEF Segments
      <4> QED BY <3>1, <4>5
    <3> QED BY <2>1, <3>1, DepthIsLongest
  <2>4. PICK d \in Matching(env, request) : d.app = a /\ d.path = p
    BY <2>1, CoveredIsMatch, DeployedGenerated
  <2>5. d = c
    BY <2>2, <2>3, <2>4, LengthTells
  <2> QED BY <2>4, <2>5
<1> QED BY <1>6, <1>7

(* Every request reaches the one app whose entry covers it most            *)
(* specifically, and the Host if there is none: whatever the entries       *)
(* declare, as long as the generator accepts them.                         *)
THEOREM OwnersServe == RegistryEdits => []OwnerServes
<1>1. TypeOK => OwnerServes
  <2> SUFFICES ASSUME TypeOK, NEW env \in {"qa", "prod"}, NEW request \in Requests,
                      Accepted(env)
               PROVE  \/ Owners(env, request) = {UrlMap(env, request)}
                      \/ Owners(env, request) = {} /\ UrlMap(env, request) = Host
    BY DEF OwnerServes
  <2>1. request \in Segments
    BY RulesAssumption DEF Segments
  <2>2. CASE Matching(env, request) = {}
    <3>1. UrlMap(env, request) = Host
      BY <2>2, UrlMapElse
    <3>2. \A a \in Deployed(env) : Covering(a, request) = {}
      BY <2>1, <2>2, CoveredIsMatch, DeployedGenerated
    <3> QED BY <3>1, <3>2 DEF Owners
  <2>3. CASE Matching(env, request) # {}
    <3>1. PICK c \in Matching(env, request) :
                 \A d \in Matching(env, request) : Len(d.path) <= Len(c.path)
      BY <2>1, <2>3, LongestExists
    <3>2. UrlMap(env, request) = c.app
      BY <2>1, <3>1, UrlMapLongest
    <3>3. Owners(env, request) = {c.app}
      BY <2>1, <3>1, OwnerIsLongest
    <3> QED BY <3>2, <3>3
  <2> QED BY <2>2, <2>3
<1> QED BY <1>1, Typed, PTL

-----------------------------------------------------------------------------
(* The environments compared                                               *)

LEMMA ClaimsOfQa == Claims("qa") \subseteq Claims("prod") /\ Claims("local") = Claims("prod")
<1>1. Generated("qa") \subseteq Generated("prod") /\ Generated("local") = Generated("prod")
  BY DEF Generated
<1> QED BY <1>1 DEF Claims

(* QA has every claim of an app it runs. *)
LEMMA ClaimsKept ==
  ASSUME TypeOK, NEW c \in Claims("prod"), c.app \in Deployed("qa")
  PROVE  c \in Claims("qa")
<1>1. CASE c \in HostClaims
  BY <1>1 DEF Claims
<1>2. ASSUME NEW a \in Generated("prod"),
             c \in NavClaims(a) \cup PrefixClaims(a) \cup StaticClaims(a)
      PROVE  c \in Claims("qa")
  <2>1. c.app = a
    BY <1>2 DEF NavClaims, PrefixClaims, StaticClaims, Claim
  <2>2. a # Host
    BY RulesAssumption DEF Generated
  <2>3. a \in Generated("qa")
    BY <2>1, <2>2, DeployedGenerated
  <2> QED BY <1>2, <2>3 DEF Claims
<1> QED BY <1>1, <1>2 DEF Claims

(* A registry that prod takes, QA takes too, and sends every request of an *)
(* app it runs where prod sends it.                                        *)
THEOREM QaLikeProd == RegistryEdits => []QaFollowsProd
<1>1. TypeOK => QaFollowsProd
  <2> SUFFICES ASSUME TypeOK, Accepted("prod") PROVE QaFollowsProd
    BY DEF QaFollowsProd
  <2>1. Accepted("qa")
    BY ClaimsOfQa DEF Accepted
  <2>2. ASSUME NEW request \in Requests
        PROVE  /\ UrlMap("qa", request) \in Deployed("qa")
               /\ UrlMap("prod", request) \in Deployed("qa")
                    => UrlMap("qa", request) = UrlMap("prod", request)
    <3>1. request \in Segments
      BY RulesAssumption DEF Segments
    <3>2. Matching("qa", request) \subseteq Matching("prod", request)
      BY ClaimsOfQa DEF Matching
    <3>3. UrlMap("qa", request) \in Deployed("qa")
      <4>1. CASE Matching("qa", request) = {}
        BY <4>1, UrlMapElse DEF Deployed
      <4>2. CASE Matching("qa", request) # {}
        <5>1. PICK c \in Matching("qa", request) :
                     \A d \in Matching("qa", request) : Len(d.path) <= Len(c.path)
          BY <3>1, <4>2, LongestExists
        <5>2. UrlMap("qa", request) = c.app
          BY <2>1, <3>1, <5>1, UrlMapLongest
        <5> QED BY <5>2, ClaimsTyped, DeployedGenerated DEF Matching
      <4> QED BY <4>1, <4>2
    <3>4. ASSUME UrlMap("prod", request) \in Deployed("qa")
          PROVE  UrlMap("qa", request) = UrlMap("prod", request)
      <4>1. CASE Matching("prod", request) = {}
        BY <3>2, <4>1, UrlMapElse
      <4>2. CASE Matching("prod", request) # {}
        <5>1. PICK c \in Matching("prod", request) :
                     \A d \in Matching("prod", request) : Len(d.path) <= Len(c.path)
          BY <3>1, <4>2, LongestExists
        <5>2. UrlMap("prod", request) = c.app
          BY <3>1, <5>1, UrlMapLongest
        <5>3. c \in Matching("qa", request)
          BY <3>4, <5>2, ClaimsKept DEF Matching
        <5>4. \A d \in Matching("qa", request) : Len(d.path) <= Len(c.path)
          BY <3>2, <5>1
        <5>5. UrlMap("qa", request) = c.app
          BY <2>1, <3>1, <5>3, <5>4, UrlMapLongest
        <5> QED BY <5>2, <5>5
      <4> QED BY <4>1, <4>2
    <3> QED BY <3>3, <3>4
  <2> QED BY <2>1, <2>2, Zenon DEF QaFollowsProd
<1> QED BY <1>1, Typed, PTL

(* Where the matching claims are all of one process, the machine of a      *)
(* developer sends the request to it, or to the Host if it has no port.    *)
LEMMA CaddyAnswers ==
  ASSUME TypeOK, NEW request \in Segments, NEW c \in Matching("local", request),
         \A d \in Matching("local", request) : Process(d.app) = Process(c.app)
  PROVE  Caddy(request) = IF Process(c.app) \in Ported THEN Process(c.app) ELSE HostName
<1> DEFINE rules == <<Host>> \o apps
           hits == {i \in DOMAIN rules : /\ Process(rules[i]) \in Ported
                                         /\ \E d \in Matching("local", request) : d.app = rules[i]}
<1>1. Caddy(request) = IF hits = {} THEN HostName ELSE Process(rules[Min(hits)])
  BY Zenon DEF Caddy, Fallback
<1>2. rules \in Seq({Host} \cup Names) /\ DOMAIN rules \subseteq Nat
      /\ \A a \in {Host} \cup Names : \E i \in DOMAIN rules : rules[i] = a
  <2>1. Cardinality(Names) \in Nat
    BY RulesAssumption, FS_CardinalityType
  <2>2. apps \in Seq(Names) /\ Len(apps) = Cardinality(Names) /\ DOMAIN apps = 1..Len(apps)
    BY <2>1 DEF TypeOK
  <2>3. \A a \in Names : \E i \in 1..Len(apps) : apps[i] = a
    BY <2>2 DEF TypeOK, Range
  <2>4. /\ <<Host>> \in Seq({Host} \cup Names) /\ apps \in Seq({Host} \cup Names)
        /\ Len(<<Host>>) = 1 /\ <<Host>>[1] = Host
    BY <2>2
  <2>5. /\ rules \in Seq({Host} \cup Names) /\ DOMAIN rules = 1..(1 + Len(apps))
        /\ rules[1] = Host
        /\ \A i \in 1..Len(apps) : rules[1 + i] = apps[i]
    BY <2>2, <2>4
  <2> HIDE DEF rules
  <2>6. \A i \in 1..Len(apps) : 1 + i \in DOMAIN rules
    BY <2>2, <2>5
  <2>7. 1 \in DOMAIN rules
    BY <2>2, <2>5
  <2> QED BY <2>3, <2>5, <2>6, <2>7
<1>3. \A i \in hits : Process(rules[i]) = Process(c.app) /\ Process(c.app) \in Ported
  OBVIOUS
<1>4. CASE Process(c.app) \in Ported
  <2>1. c.app \in {Host} \cup Names
    BY ClaimsTyped DEF Matching, Generated
  <2>2. hits # {}
    BY <1>2, <1>4, <2>1
  <2>3. hits \in SUBSET Nat
    BY <1>2
  <2>4. Min(hits) \in hits
    <3> HIDE DEF hits
    <3> QED BY <2>2, <2>3, MinExists
  <2> HIDE DEF rules, hits
  <2> QED BY <1>1, <1>3, <1>4, <2>2, <2>4
<1>5. CASE Process(c.app) \notin Ported
  <2>1. hits = {}
    BY <1>3, <1>5
  <2> HIDE DEF rules, hits
  <2> QED BY <1>1, <1>5, <2>1
<1> QED BY <1>4, <1>5

(* A developer's machine serves a request from the process that prod       *)
(* serves it from, wherever paths of different apps do not overlap.        *)
THEOREM LocalLikeProd == RegistryEdits => []LocalFollowsProd
<1>1. TypeOK => LocalFollowsProd
  <2> SUFFICES ASSUME TypeOK, Accepted("prod"), NEW request \in Requests,
                      \A c, d \in Matching("prod", request) : Process(c.app) = Process(d.app)
               PROVE  Caddy(request) = IF Process(UrlMap("prod", request)) \in Ported
                                       THEN Process(UrlMap("prod", request)) ELSE HostName
    BY Zenon DEF LocalFollowsProd
  <2>1. request \in Segments
    BY RulesAssumption DEF Segments
  <2>2. Matching("local", request) = Matching("prod", request)
    BY ClaimsOfQa DEF Matching
  <2>3. CASE Matching("prod", request) = {}
    <3>1. Process(UrlMap("prod", request)) = HostName
      BY <2>3, UrlMapElse DEF Process
    <3>2. Caddy(request) = HostName
      BY <2>2, <2>3 DEF Caddy, Fallback
    <3> QED BY <3>1, <3>2
  <2>4. CASE Matching("prod", request) # {}
    <3>1. PICK c \in Matching("prod", request) :
                 \A d \in Matching("prod", request) : Len(d.path) <= Len(c.path)
      BY <2>1, <2>4, LongestExists
    <3>2. UrlMap("prod", request) = c.app
      BY <2>1, <3>1, UrlMapLongest
    <3>3. Caddy(request) = IF Process(c.app) \in Ported THEN Process(c.app) ELSE HostName
      BY <2>1, <2>2, CaddyAnswers
    <3> QED BY <3>2, <3>3
  <2> QED BY <2>3, <2>4
<1> QED BY <1>1, Typed, PTL

-----------------------------------------------------------------------------
(* The static path of an app: what StaticAssets takes for granted of a URL *)
(* map that has its rule, where no entry claims a longer path              *)

LEMMA StaticRouted ==
  ASSUME TypeOK, NEW env \in {"qa", "prod"}, Accepted(env),
         NEW a \in Generated(env), NEW request \in Segments, Below(<<a, Static>>, request),
         \A d \in Matching(env, request) : Len(d.path) <= 2
  PROVE  UrlMap(env, request) = a
<1> DEFINE c == Claim(a, <<"static">>, <<a, Static>>, TRUE)
<1>1. c \in Claims(env)
  <2>1. c \in StaticClaims(a)
    BY DEF StaticClaims
  <2>2. NavClaims(a) \cup PrefixClaims(a) \cup StaticClaims(a) \subseteq Claims(env)
    BY DEF Claims
  <2> HIDE DEF c
  <2> QED BY <2>1, <2>2
<1>2. c.app = a /\ c.path = <<a, Static>> /\ c.wild = TRUE
  BY DEF Claim
<1> HIDE DEF c
<1>3. c \in Matching(env, request)
  BY <1>1, <1>2 DEF Matching, Matches
<1>4. Len(c.path) = 2
  BY <1>2
<1> QED BY <1>2, <1>3, <1>4, UrlMapLongest

-----------------------------------------------------------------------------
(* The state of StaticAssets                                               *)

Contents == Styles \cup {HostStyle, Missing}

ProbeStates == {"idle", "describe", "shared", "direct", "bare", "prefixed", "report"}

PageType ==
  [app : Apps \cup {None}, css : Styles \cup {None}, url : Urls \cup {None},
   got : Contents \cup {None}, old : BOOLEAN]

ProbeType ==
  [pc : ProbeStates, todo : Seq(Apps), shared : Contents \cup {None},
   failures : SUBSET Apps, ok : SUBSET Apps, cached : BOOLEAN, disturbed : BOOLEAN]

AssetsType ==
  /\ registered \subseteq Apps /\ routed \subseteq Apps /\ late \subseteq Urls
  /\ rev \in [Apps -> Revisions] /\ canary \in [Apps -> Revisions \cup {None}]
  /\ split \in [Apps -> BOOLEAN] /\ \A a \in Apps : split[a] => canary[a] \in Revisions
  /\ cache \in [Urls -> Styles \cup {HostStyle, None}]
  /\ page \in PageType
  /\ probe \in ProbeType

(* The page in the browser links the stylesheet of its revision, which is  *)
(* the one that answers as long as the page has not outlived it.           *)
PageInv ==
  \/ page = NoPage
  \/ /\ page.app \in Apps /\ page.css \in Styles /\ page.url \in Urls
     /\ page.url.path \in {page.app, Bare} /\ page.url.query = Version(page.css)
     /\ ~OutlivedBy(page) =>
          /\ rev[page.app].css = page.css
          /\ page.url.path # Bare => rev[page.app].prefixed

(* What the cache keeps of a versioned link is that version.               *)
CacheInv ==
  \A u \in Urls, c \in Styles :
    cache[u] # None /\ u.path # Bare /\ u.query = Version(c) => u \in late \/ cache[u] = c

(* What the probe has found out of an app is still so.                     *)
ProbeInv ==
  LET a == Head(probe.todo) IN
  probe.todo # <<>> /\ ~probe.disturbed =>
    /\ probe.pc \in {"shared", "direct"} => ~split[a]
    /\ probe.pc = "direct" /\ ~probe.cached =>
         a \in routed /\ rev[a].prefixed /\ probe.shared = rev[a].css
    /\ probe.pc = "prefixed" => canary[a] \in Revisions /\ canary[a].bare

AssetsInv == AssetsType /\ PageInv /\ CacheInv /\ ProbeInv

LEMMA RevisionsTyped ==
  ASSUME NEW r \in Revisions
  PROVE  r.css \in Styles /\ r.bare \in BOOLEAN /\ r.prefixed \in BOOLEAN
BY DEF Revisions

LEMMA AppsApart ==
  \A a \in Apps : a # Bare /\ a # None
BY StaticAssumption

LEMMA AssetsInit ==
  Init => AssetsInv
<1> SUFFICES ASSUME Init PROVE AssetsInv
  OBVIOUS
<1>1. AssetsType
  <2>1. rev \in [Apps -> Revisions]
    BY DEF Init
  <2>2. registered \subseteq Apps /\ routed \subseteq Apps /\ late \subseteq Urls
    BY DEF Init
  <2>3. /\ canary \in [Apps -> Revisions \cup {None}] /\ split \in [Apps -> BOOLEAN]
        /\ \A a \in Apps : ~split[a]
        /\ cache \in [Urls -> Styles \cup {HostStyle, None}]
    BY DEF Init
  <2>4. page \in PageType
    BY DEF Init, NoPage, PageType
  <2>5. probe \in ProbeType
    BY DEF Init, Idle, ProbeStates, ProbeType
  <2> QED BY <2>1, <2>2, <2>3, <2>4, <2>5 DEF AssetsType
<1>2. PageInv /\ CacheInv
  BY DEF Init, PageInv, CacheInv
<1>3. ProbeInv
  BY DEF Init, ProbeInv, Idle
<1> QED BY <1>1, <1>2, <1>3 DEF AssetsInv

(* A deployment, a canary or a change of traffic: only one app's, and what *)
(* is open or probed of it is marked.                                      *)
RollOut(a) ==
  /\ rev' \in [Apps -> Revisions] /\ canary' \in [Apps -> Revisions \cup {None}]
  /\ split' \in [Apps -> BOOLEAN] /\ \A b \in Apps : split'[b] => canary'[b] \in Revisions
  /\ \A b \in Apps : b # a => rev'[b] = rev[b] /\ canary'[b] = canary[b] /\ split'[b] = split[b]
  /\ Disturb(a)
  /\ UNCHANGED <<registered, routed, cache, late>>

LEMMA RollOuts ==
  ASSUME AssetsInv, NEW a \in Apps,
         Deploy(a) \/ DeployCanary(a) \/ SplitTraffic(a) \/ FlipTraffic(a)
  PROVE  RollOut(a)
<1> USE DEF AssetsInv, AssetsType, PageType, ProbeType
<1>1. CASE Deploy(a)
  <2>1. PICK r \in Revisions : rev' = [rev EXCEPT ![a] = r]
    BY <1>1 DEF Deploy
  <2>2. split' = [split EXCEPT ![a] = FALSE] /\ canary' = canary
    BY <1>1 DEF Deploy
  <2>3. Disturb(a) /\ UNCHANGED <<registered, routed, cache, late>>
    BY <1>1 DEF Deploy
  <2> QED BY <2>1, <2>2, <2>3 DEF RollOut
<1>2. CASE DeployCanary(a)
  <2>1. PICK r \in Revisions : canary' = [canary EXCEPT ![a] = r]
    BY <1>2 DEF DeployCanary
  <2>2. split' = split /\ rev' = rev
    BY <1>2 DEF DeployCanary
  <2>3. Disturb(a) /\ UNCHANGED <<registered, routed, cache, late>>
    BY <1>2 DEF DeployCanary
  <2> QED BY <2>1, <2>2, <2>3 DEF RollOut
<1>3. CASE SplitTraffic(a)
  <2>1. canary[a] \in Revisions
    BY <1>3 DEF SplitTraffic
  <2>2. split' = [split EXCEPT ![a] = TRUE] /\ canary' = canary /\ rev' = rev
    BY <1>3 DEF SplitTraffic
  <2>3. Disturb(a) /\ UNCHANGED <<registered, routed, cache, late>>
    BY <1>3 DEF SplitTraffic
  <2> QED BY <2>1, <2>2, <2>3 DEF RollOut
<1>4. CASE FlipTraffic(a)
  <2>1. canary[a] \in Revisions
    BY <1>4 DEF FlipTraffic
  <2>2. /\ split' = [split EXCEPT ![a] = FALSE] /\ canary' = [canary EXCEPT ![a] = None]
        /\ rev' = [rev EXCEPT ![a] = canary[a]]
    BY <1>4 DEF FlipTraffic
  <2>3. Disturb(a) /\ UNCHANGED <<registered, routed, cache, late>>
    BY <1>4 DEF FlipTraffic
  <2> QED BY <2>1, <2>2, <2>3 DEF RollOut
<1> QED BY <1>1, <1>2, <1>3, <1>4

LEMMA RollOutInv ==
  ASSUME AssetsInv, NEW a \in Apps, RollOut(a)
  PROVE  AssetsInv'
<1>1. /\ page' = [page EXCEPT !.old = page.old \/ page.app = a]
      /\ probe' = [probe EXCEPT !.disturbed =
                     probe.disturbed \/ (probe.pc # "idle" /\ Head(probe.todo) = a)]
  BY DEF RollOut, Disturb
<1>2. AssetsType'
  BY <1>1 DEF RollOut, AssetsInv, AssetsType, PageType, ProbeType
<1>3. PageInv'
  <2>1. CASE page = NoPage
    <3>1. page.app = None /\ page.old = FALSE
      BY <2>1 DEF NoPage
    <3>2. page' = page
      BY <1>1, <3>1, AppsApart DEF AssetsInv, AssetsType, PageType, ProbeType
    <3> QED BY <2>1, <3>2 DEF PageInv
  <2>2. CASE page # NoPage
    <3>1. /\ page'.app = page.app /\ page'.css = page.css /\ page'.url = page.url
          /\ page'.old = (page.old \/ page.app = a)
      BY <1>1 DEF AssetsInv, AssetsType, PageType, ProbeType
    <3>2. ~OutlivedBy(page)' => page.app # a /\ ~OutlivedBy(page)
      BY <2>2, <3>1 DEF OutlivedBy, RollOut, AssetsInv, PageInv
    <3> QED BY <2>2, <3>1, <3>2 DEF RollOut, AssetsInv, PageInv
  <2> QED BY <2>1, <2>2
<1>4. CacheInv'
  BY DEF RollOut, AssetsInv, CacheInv
<1>5. ProbeInv'
  <2>1. /\ probe'.pc = probe.pc /\ probe'.todo = probe.todo /\ probe'.cached = probe.cached
        /\ probe'.shared = probe.shared
        /\ ~probe'.disturbed /\ probe.pc # "idle" => Head(probe.todo) # a /\ ~probe.disturbed
    BY <1>1 DEF AssetsInv, AssetsType, PageType, ProbeType
  <2>2. probe.todo # <<>> => Head(probe.todo) \in Apps
    BY DEF AssetsInv, AssetsType, PageType, ProbeType
  <2> QED BY <2>1, <2>2 DEF RollOut, AssetsInv, ProbeInv
<1> QED BY <1>2, <1>3, <1>4, <1>5 DEF AssetsInv

LEMMA RegistryInv ==
  ASSUME AssetsInv, (\E a \in Apps : Register(a)) \/ Import
  PROVE  AssetsInv'
<1>1. CASE \E a \in Apps : Register(a)
  <2>1. /\ registered' \subseteq Apps
        /\ UNCHANGED <<routed, rev, canary, split, cache, page, probe, late>>
    BY <1>1 DEF Register, AssetsInv, AssetsType, PageType, ProbeType
  <2> QED BY <2>1 DEF AssetsInv, AssetsType, PageInv, OutlivedBy, CacheInv, ProbeInv
<1>2. CASE Import
  <2>1. /\ routed' \subseteq Apps
        /\ probe' = [probe EXCEPT !.disturbed = probe.disturbed \/ probe.pc # "idle"]
        /\ UNCHANGED <<registered, rev, canary, split, cache, page, late>>
    BY <1>2 DEF Import, AssetsInv, AssetsType, PageType, ProbeType
  <2>2. AssetsType'
    BY <2>1 DEF AssetsInv, AssetsType, PageType, ProbeType
  <2>3. PageInv' /\ CacheInv'
    BY <2>1 DEF AssetsInv, PageInv, OutlivedBy, CacheInv
  <2>4. ~probe'.disturbed => probe'.pc = "idle"
    BY <2>1 DEF AssetsInv, AssetsType, PageType, ProbeType
  <2>5. ProbeInv'
    BY <2>4 DEF ProbeInv
  <2> QED BY <2>2, <2>3, <2>5 DEF AssetsInv
<1> QED BY <1>1, <1>2

LEMMA AnsweringTyped ==
  ASSUME AssetsInv, NEW a \in Apps, NEW r \in Answering(a)
  PROVE  r \in Revisions /\ (~split[a] => r = rev[a])
BY DEF AssetsInv, AssetsType, PageType, ProbeType, Answering

(* A new page links what the revision that rendered it serves.             *)
LEMMA OpenInv ==
  ASSUME AssetsInv, NEW a \in Apps, Open(a)
  PROVE  AssetsInv'
<1>1. PICK r \in Answering(a) :
             page' = [NoPage EXCEPT !.app = a, !.css = r.css, !.url = Link(a, r)]
  BY DEF Open
<1>2. /\ r \in Revisions /\ (~split[a] => r = rev[a])
      /\ r.css \in Styles /\ r.prefixed \in BOOLEAN
  BY AnsweringTyped, RevisionsTyped
<1>3. /\ Link(a, r) \in Urls /\ Link(a, r).path \in {a, Bare}
      /\ Link(a, r).query = Version(r.css)
      /\ Link(a, r).path # Bare => r.prefixed
  BY <1>2 DEF Link, Urls, Paths, Queries
<1>4. /\ page'.app = a /\ page'.css = r.css /\ page'.url = Link(a, r) /\ page'.got = None
      /\ page'.old = FALSE
      /\ page' \in PageType
  BY <1>1, <1>2, <1>3 DEF NoPage, PageType
<1>5. UNCHANGED <<registered, routed, rev, canary, split, deploys, cache, probe, late>>
  BY DEF Open, platform
<1>6. AssetsType'
  BY <1>4, <1>5 DEF AssetsInv, AssetsType, PageType, ProbeType
<1>7. PageInv'
  BY <1>2, <1>3, <1>4, <1>5 DEF PageInv, OutlivedBy
<1> QED BY <1>5, <1>6, <1>7 DEF AssetsInv, CacheInv, ProbeInv

(* What the load balancer has for the prefixed path of an app comes from   *)
(* its own backend.                                                        *)
LEMMA OriginOfApp ==
  ASSUME AssetsInv, NEW a \in Apps,
         NEW content \in Origin(a), content # Missing
  PROVE  a \in routed /\ \E r \in Answering(a) : r.prefixed /\ content = r.css
<1>1. a # Bare
  BY AppsApart
<1>2. a \in routed
  BY <1>1 DEF Origin, HostAnswer
<1>3. PICK r \in Answering(a) : content = Answer(a, r, a)
  BY <1>2 DEF Origin
<1> QED BY <1>1, <1>2, <1>3 DEF Answer

LEMMA SharedTyped ==
  ASSUME AssetsInv, NEW u \in Urls, NEW content \in Contents,
         NEW kept \in BOOLEAN,
         Shared(u, content, kept)
  PROVE  /\ cache[u] # None => content = cache[u] /\ content # Missing /\ ~kept
         /\ cache[u] = None => content \in Origin(u.path)
         /\ kept => cache[u] = None /\ content \in Styles \cup {HostStyle}
<1>1. /\ cache[u] \in Styles \cup {HostStyle, None}
      /\ Missing \notin Styles \cup {HostStyle}
  BY StaticAssumption DEF AssetsInv, AssetsType, Missing, HostStyle
<1> QED BY <1>1 DEF Shared, Contents

(* The origin answers a page that has not outlived its revision with the   *)
(* stylesheet it links, where it answers at all.                           *)
LEMMA FreshPage ==
  ASSUME AssetsInv, page # NoPage, ~OutlivedBy(page),
         page.url.path # Bare,
         NEW content \in Origin(page.url.path), content # Missing
  PROVE  page.app \in routed /\ content = page.css
<1>1. /\ page.app \in Apps /\ page.url.path = page.app
      /\ rev[page.app].css = page.css /\ ~split[page.app]
  BY DEF AssetsInv, PageInv, OutlivedBy
<1>2. page.app \in routed /\ \E r \in Answering(page.app) : r.prefixed /\ content = r.css
  BY <1>1, OriginOfApp
<1> QED BY <1>1, <1>2, AnsweringTyped

LEMMA VersionTells == \A c, d : Version(c) = Version(d) => c = d
BY DEF Version

LEMMA LoadInv ==
  ASSUME AssetsInv, Load
  PROVE  AssetsInv'
<1>1. PICK content \in Contents, kept \in BOOLEAN :
        /\ Shared(page.url, content, kept)
        /\ page' = [page EXCEPT !.got = content]
        /\ cache' = IF kept THEN [cache EXCEPT ![page.url] = content] ELSE cache
        /\ late' = IF kept /\ OutlivedBy(page) THEN late \cup {page.url} ELSE late
  BY DEF Load, Contents
<1>2. page # NoPage /\ UNCHANGED <<registered, routed, rev, canary, split, deploys, probe>>
  BY DEF Load, platform
<1>3. page.url \in Urls /\ page.css \in Styles /\ page.url.query = Version(page.css)
  BY <1>2 DEF AssetsInv, PageInv
<1>4. kept => cache[page.url] = None /\ content \in Styles \cup {HostStyle}
              /\ content \in Origin(page.url.path)
  <2>1. Shared(page.url, content, kept)
    BY <1>1
  <2>2. /\ cache[page.url] = None => content \in Origin(page.url.path)
        /\ kept => cache[page.url] = None /\ content \in Styles \cup {HostStyle}
    BY <1>3, <2>1, SharedTyped
  <2> QED BY <2>2
<1>5. AssetsType'
  <2>1. cache' \in [Urls -> Styles \cup {HostStyle, None}]
    BY <1>1, <1>4 DEF AssetsInv, AssetsType, PageType, ProbeType
  <2>2. late' \subseteq Urls
    BY <1>1, <1>3 DEF AssetsInv, AssetsType, PageType, ProbeType
  <2>3. page' \in PageType
    BY <1>1 DEF AssetsInv, AssetsType, PageType, ProbeType
  <2> QED BY <1>2, <2>1, <2>2, <2>3 DEF AssetsInv, AssetsType, PageType, ProbeType
<1>6. PageInv'
  <2>1. /\ page'.app = page.app /\ page'.css = page.css /\ page'.url = page.url
        /\ page'.old = page.old
    BY <1>1 DEF AssetsInv, AssetsType, PageType, ProbeType
  <2> QED BY <1>2, <2>1 DEF AssetsInv, PageInv, OutlivedBy
<1>7. CacheInv'
  <2> SUFFICES ASSUME NEW u \in Urls, NEW c \in Styles, cache'[u] # None, u.path # Bare,
                      u.query = Version(c), u \notin late'
               PROVE  cache'[u] = c
    BY DEF CacheInv
  <2>1. late \subseteq late'
    BY <1>1
  <2>2. CASE ~kept \/ u # page.url
    <3>1. cache'[u] = cache[u]
      BY <1>1, <2>2 DEF AssetsInv, AssetsType, PageType, ProbeType
    <3> QED BY <2>1, <3>1 DEF AssetsInv, CacheInv
  <2>3. CASE kept /\ u = page.url
    <3>1. cache'[u] = content /\ ~OutlivedBy(page)
      BY <1>1, <2>3 DEF AssetsInv, AssetsType, PageType, ProbeType
    <3>2. c = page.css
      BY <1>3, <2>3, VersionTells
    <3>3. content # Missing
      BY <1>4, <2>3, StaticAssumption DEF Missing, HostStyle
    <3> QED BY <1>2, <1>4, <2>3, <3>1, <3>2, <3>3, FreshPage
  <2> QED BY <2>2, <2>3
<1> QED BY <1>2, <1>5, <1>6, <1>7 DEF AssetsInv, ProbeInv

LEMMA CloseInv ==
  ASSUME AssetsInv, Close \/ \E u \in Urls : Expire(u)
  PROVE  AssetsInv'
<1>1. CASE Close
  <2>1. /\ page' = NoPage
        /\ UNCHANGED <<registered, routed, rev, canary, split, deploys, cache, probe, late>>
    BY <1>1 DEF Close, platform
  <2>2. NoPage \in PageType
    BY DEF NoPage, PageType
  <2> QED BY <2>1, <2>2 DEF AssetsInv, AssetsType, PageInv, CacheInv, ProbeInv
<1>2. ASSUME NEW x \in Urls, Expire(x) PROVE AssetsInv'
  <2>1. /\ cache' = [cache EXCEPT ![x] = None] /\ late' = late \ {x}
        /\ UNCHANGED <<registered, routed, rev, canary, split, deploys, page, probe>>
    BY <1>2 DEF Expire, platform
  <2>2. AssetsType'
    BY <2>1 DEF AssetsInv, AssetsType, PageType, ProbeType
  <2>3. CacheInv'
    <3> SUFFICES ASSUME NEW u \in Urls, NEW c \in Styles, cache'[u] # None, u.path # Bare,
                        u.query = Version(c), u \notin late'
                 PROVE  cache'[u] = c
      BY DEF CacheInv
    <3>1. u # x /\ cache'[u] = cache[u] /\ u \notin late
      BY <2>1 DEF AssetsInv, AssetsType, PageType, ProbeType
    <3> QED BY <3>1 DEF AssetsInv, CacheInv
  <2> QED BY <2>1, <2>2, <2>3 DEF AssetsInv, PageInv, OutlivedBy, ProbeInv
<1> QED BY <1>1, <1>2

(* Only the probe moves.                                                   *)
LEMMA ProbeMoves ==
  ASSUME AssetsInv, probe' \in ProbeType, ProbeInv',
         UNCHANGED <<platform, cache, page, late>>
  PROVE  AssetsInv'
BY DEF AssetsInv, AssetsType, PageType, ProbeType, PageInv, OutlivedBy, CacheInv, platform

(* Going on to the next app, whatever became of this one.                  *)
LEMMA NextAppTyped ==
  ASSUME AssetsInv, probe.todo # <<>>
  PROVE  /\ NextApp \in ProbeType /\ NextApp.pc \in {"report", "describe"}
         /\ NextApp.ok = probe.ok /\ NextApp.failures = probe.failures
<1>1. probe \in ProbeType
  BY DEF AssetsInv, AssetsType, PageType, ProbeType
<1>2. probe.todo \in Seq(Apps)
  BY <1>1 DEF ProbeType
<1>3. Tail(probe.todo) \in Seq(Apps)
  BY <1>2
<1>4. \E pc \in {"report", "describe"}, todo \in Seq(Apps) :
        NextApp = [probe EXCEPT !.pc = pc, !.todo = todo,
                                !.shared = None, !.cached = FALSE, !.disturbed = FALSE]
  <2>1. CASE Len(probe.todo) = 1
    <3>1. NextApp = [probe EXCEPT !.pc = "report", !.todo = probe.todo,
                                  !.shared = None, !.cached = FALSE, !.disturbed = FALSE]
      BY <2>1, Zenon DEF NextApp
    <3> QED BY <1>2, <3>1
  <2>2. CASE Len(probe.todo) # 1
    <3>1. NextApp = [probe EXCEPT !.pc = "describe", !.todo = Tail(probe.todo),
                                  !.shared = None, !.cached = FALSE, !.disturbed = FALSE]
      BY <2>2, Zenon DEF NextApp
    <3> QED BY <1>3, <3>1
  <2> QED BY <2>1, <2>2
<1>5. PICK pc \in {"report", "describe"}, todo \in Seq(Apps) :
        NextApp = [probe EXCEPT !.pc = pc, !.todo = todo,
                                !.shared = None, !.cached = FALSE, !.disturbed = FALSE]
  BY <1>4
<1> QED BY <1>1, <1>5 DEF ProbeType, ProbeStates

LEMMA Verdicts ==
  ASSUME AssetsInv, probe.todo # <<>>, NEW a \in Apps
  PROVE  /\ FailApp(a) \in ProbeType /\ PassApp(a) \in ProbeType
         /\ FailApp(a).pc \in {"report", "describe"}
         /\ PassApp(a).pc \in {"report", "describe"}
         /\ FailApp(a).ok = probe.ok /\ PassApp(a).ok = probe.ok \cup {a}
         /\ FailApp(a).failures = probe.failures \cup {a}
         /\ PassApp(a).failures = probe.failures
BY NextAppTyped DEF FailApp, PassApp, ProbeType

LEMMA VerdictInv ==
  ASSUME AssetsInv, probe.todo # <<>>, NEW a \in Apps,
         probe' = FailApp(a) \/ probe' = PassApp(a)
  PROVE  probe' \in ProbeType /\ ProbeInv'
BY Verdicts DEF ProbeInv

(* Fetching through the shared domain: the one step that fills the cache.  *)
LEMMA FetchSharedInv ==
  ASSUME AssetsInv, NEW a \in Apps, probe.todo # <<>>,
         a = Head(probe.todo), FetchShared(a)
  PROVE  AssetsInv'
<1> DEFINE url == [path |-> a, query |-> <<NoQuery>>]
<1>1. PICK content \in Contents, kept \in BOOLEAN :
        /\ Shared(url, content, kept)
        /\ cache' = IF kept THEN [cache EXCEPT ![url] = content] ELSE cache
        /\ probe' = IF content = Missing THEN FailApp(a)
                    ELSE [probe EXCEPT !.pc = "direct", !.shared = content,
                                       !.cached = cache[url] # None]
  BY DEF FetchShared, Contents
<1>2. url \in Urls /\ url.path = a
  BY DEF Urls, Paths, Queries
<1>3. probe.pc = "shared" /\ UNCHANGED <<platform, page, late>>
  BY DEF FetchShared
<1>4. \A c : url.query # Version(c)
  BY DEF Version
<1> HIDE DEF url
<1>5. /\ cache[url] = None => content \in Origin(a)
      /\ kept => content \in Styles \cup {HostStyle}
  BY <1>1, <1>2, SharedTyped
<1>6. /\ cache' \in [Urls -> Styles \cup {HostStyle, None}]
      /\ \A u \in Urls : u # url => cache'[u] = cache[u]
  BY <1>1, <1>5 DEF AssetsInv, AssetsType, PageType, ProbeType
<1>7. CacheInv'
  BY <1>3, <1>4, <1>6 DEF AssetsInv, CacheInv
<1>8. probe' \in ProbeType /\ ProbeInv'
  <2>1. CASE content = Missing
    BY <1>1, <2>1, VerdictInv
  <2>2. CASE content # Missing
    <3>1. /\ probe' \in ProbeType /\ probe'.pc = "direct" /\ probe'.todo = probe.todo
          /\ probe'.shared = content /\ probe'.cached = (cache[url] # None)
          /\ probe'.disturbed = probe.disturbed
      BY <1>1, <2>2 DEF AssetsInv, AssetsType, PageType, ProbeType, ProbeStates
    <3>2. ~probe.disturbed => ~split[a]
      BY <1>3 DEF AssetsInv, ProbeInv
    <3>3. ~probe'.cached =>
            a \in routed /\ \E r \in Answering(a) : r.prefixed /\ content = r.css
      BY <1>5, <2>2, <3>1, OriginOfApp
    <3>4. ~probe'.disturbed /\ ~probe'.cached =>
            a \in routed /\ rev[a].prefixed /\ content = rev[a].css
      BY <3>1, <3>2, <3>3, AnsweringTyped
    <3> QED BY <1>3, <3>1, <3>2, <3>4 DEF ProbeInv, platform
  <2> QED BY <2>1, <2>2
<1> QED BY <1>3, <1>6, <1>7, <1>8
           DEF AssetsInv, AssetsType, PageType, ProbeType, PageInv, OutlivedBy, platform

LEMMA ProbeStepInv ==
  ASSUME AssetsInv, NEW a \in Apps, Probe(a)
  PROVE  AssetsInv'
<1>1. probe.todo # <<>> /\ a = Head(probe.todo) /\ probe \in ProbeType
  BY DEF Probe, AssetsInv, AssetsType, PageType, ProbeType
<1>2. CASE FetchShared(a)
  BY <1>1, <1>2, FetchSharedInv
<1>3. CASE ~FetchShared(a)
  <2>1. UNCHANGED <<platform, cache, page, late>>
    BY <1>3
       DEF Probe, Describe, FetchDirect, FetchBare, FetchPrefixed,
           FetchFails
  <2>2. \/ probe' = FailApp(a) \/ probe' = PassApp(a)
        \/ SingleRevision(a) /\ probe' = [probe EXCEPT !.pc = "shared"]
        \/ /\ probe' = [probe EXCEPT !.pc = "prefixed", !.shared = Tagged(a, Bare)]
           /\ Tagged(a, Bare) # Missing
    BY <1>3
       DEF Probe, Describe, FetchDirect, FetchBare, FetchPrefixed,
           FetchFails
  <2>3. CASE probe' = FailApp(a) \/ probe' = PassApp(a)
    BY <1>1, <2>1, <2>3, VerdictInv, ProbeMoves
  <2>4. CASE SingleRevision(a) /\ probe' = [probe EXCEPT !.pc = "shared"]
    <3>1. probe' \in ProbeType /\ probe'.pc = "shared" /\ probe'.todo = probe.todo
      BY <1>1, <2>4 DEF ProbeType, ProbeStates
    <3>2. ProbeInv'
      BY <1>1, <2>1, <2>4, <3>1 DEF ProbeInv, SingleRevision, platform
    <3> QED BY <2>1, <3>1, <3>2, ProbeMoves
  <2>5. CASE /\ probe' = [probe EXCEPT !.pc = "prefixed", !.shared = Tagged(a, Bare)]
             /\ Tagged(a, Bare) # Missing
    <3>1. canary[a] \in Revisions /\ canary[a].bare /\ Tagged(a, Bare) = canary[a].css
      BY <2>5, AppsApart DEF Tagged, Answer, AssetsInv, AssetsType, PageType, ProbeType
    <3>2. Tagged(a, Bare) \in Contents
      BY <3>1, RevisionsTyped DEF Contents
    <3>3. probe' \in ProbeType /\ probe'.pc = "prefixed" /\ probe'.todo = probe.todo
      BY <1>1, <2>5, <3>2 DEF ProbeType, ProbeStates
    <3>4. ProbeInv'
      BY <1>1, <2>1, <3>1, <3>3 DEF ProbeInv, platform
    <3> QED BY <2>1, <3>3, <3>4, ProbeMoves
  <2> QED BY <2>2, <2>3, <2>4, <2>5
<1> QED BY <1>2, <1>3

LEMMA StartInv ==
  ASSUME AssetsInv,
         Start \/ Report \/ \E a \in Apps : StartDirect(a)
  PROVE  AssetsInv'
<1>1. UNCHANGED <<platform, cache, page, late>>
  BY DEF Start, Report, StartDirect
<1>2. Idle \in ProbeType /\ Idle.pc = "idle" /\ Idle.todo = <<>>
  BY DEF Idle, ProbeType, ProbeStates
<1>3. CASE Start
  <2>1. PICK todo \in Orders : probe' = [Idle EXCEPT !.pc = "describe", !.todo = todo]
    BY <1>3 DEF Start
  <2>2. todo \in Seq(Apps)
    <3>1. PICK n \in 1..Cardinality(Apps) : todo \in [1..n -> Apps]
      BY DEF Orders
    <3>2. n \in Nat
      OBVIOUS
    <3> QED BY <3>1, <3>2
  <2>3. probe' \in ProbeType /\ probe'.pc = "describe"
    BY <1>2, <2>1, <2>2 DEF ProbeType, ProbeStates
  <2>4. ProbeInv'
    BY <2>3 DEF ProbeInv
  <2> QED BY <1>1, <2>3, <2>4, ProbeMoves
<1>4. CASE Report
  <2>1. probe' = Idle
    BY <1>4 DEF Report
  <2>2. ProbeInv'
    BY <1>2, <2>1 DEF ProbeInv
  <2> QED BY <1>1, <1>2, <2>1, <2>2, ProbeMoves
<1>5. ASSUME NEW a \in Apps, StartDirect(a) PROVE AssetsInv'
  <2>1. probe' = [Idle EXCEPT !.pc = "bare", !.todo = <<a>>]
    BY <1>5 DEF StartDirect
  <2>2. probe' \in ProbeType /\ probe'.pc = "bare"
    <3>1. <<a>> \in Seq(Apps)
      OBVIOUS
    <3> QED BY <1>2, <2>1, <3>1 DEF ProbeType, ProbeStates
  <2>3. ProbeInv'
    BY <2>2 DEF ProbeInv
  <2> QED BY <1>1, <2>2, <2>3, ProbeMoves
<1> QED BY <1>3, <1>4, <1>5

LEMMA AssetsNext ==
  AssetsInv /\ [Next]_vars => AssetsInv'
<1> SUFFICES ASSUME AssetsInv, [Next]_vars PROVE AssetsInv'
  OBVIOUS
<1>1. Rolled \subseteq Apps
  BY StaticAssumption
<1>2. CASE UNCHANGED vars
  BY <1>2
      DEF vars, platform, AssetsInv, AssetsType, PageInv, OutlivedBy, CacheInv,
         ProbeInv
<1>3. ASSUME NEW a \in Apps,
             Deploy(a) \/ DeployCanary(a) \/ SplitTraffic(a) \/ FlipTraffic(a)
      PROVE  AssetsInv'
  BY <1>3, RollOuts, RollOutInv
<1>4. ASSUME NEW a \in Apps, Register(a) \/ Open(a) PROVE AssetsInv'
  BY <1>4, RegistryInv, OpenInv
<1>5. ASSUME NEW a \in Apps, StartDirect(a) \/ Probe(a) PROVE AssetsInv'
  BY <1>5, StartInv, ProbeStepInv
<1>6. CASE \/ Import \/ Load \/ Close \/ Start \/ Report
           \/ \E u \in Urls : Expire(u)
  BY <1>6, RegistryInv, LoadInv, CloseInv, StartInv
<1> QED BY <1>1, <1>2, <1>3, <1>4, <1>5, <1>6 DEF Next

LEMMA AssetsInvariant ==
  Spec => []AssetsInv
BY AssetsInit, AssetsNext, PTL DEF Spec
-----------------------------------------------------------------------------
(* A page gets its stylesheet                                              *)

LEMMA RoutedPage ==
  ASSUME AssetsInv, page # NoPage, ~OutlivedBy(page),
         page.url.path # Bare,
         page.app \in routed, NEW content \in Origin(page.url.path)
  PROVE  content = page.css
<1>1. /\ page.app \in Apps /\ page.url.path = page.app
      /\ rev[page.app].css = page.css /\ rev[page.app].prefixed /\ ~split[page.app]
  BY DEF AssetsInv, PageInv, OutlivedBy
<1> QED BY <1>1 DEF Origin, Answering, Answer

LEMMA GotByLoad ==
  ASSUME AssetsInv, [Next]_vars, page.got = None,
         page'.got # None
  PROVE  Load
<1>1. page' # page /\ vars' # vars
  BY DEF vars
<1>2. \A d : [page EXCEPT !.old = d].got = page.got
  BY DEF AssetsInv, AssetsType, PageType, ProbeType
<1>3. \A a : ~Deploy(a) /\ ~DeployCanary(a) /\ ~SplitTraffic(a) /\ ~FlipTraffic(a)
  BY <1>2 DEF Deploy, DeployCanary, SplitTraffic, FlipTraffic, Disturb
<1>4. \A a : ~Register(a) /\ ~StartDirect(a) /\ ~Probe(a) /\ ~Expire(a)
  BY <1>1
     DEF Register, StartDirect, Probe, Expire, Describe, FetchShared,
         FetchDirect, FetchBare,
              FetchPrefixed, FetchFails
<1>5. ~Import /\ ~Close /\ ~Start /\ ~Report
  BY <1>1 DEF Import, Close, Start, Report
<1>6. \A a : ~Open(a)
  BY DEF Open, NoPage
<1> QED BY <1>1, <1>3, <1>4, <1>5, <1>6 DEF Next

LEMMA LoadMatches ==
  ASSUME AssetsInv, Load, page'.got # page.css,
         page.url.path # Bare
  PROVE  OutlivedBy(page) \/ page.url \in late \/ page.app \notin routed
<1>1. PICK content \in Contents, kept \in BOOLEAN :
        Shared(page.url, content, kept) /\ page' = [page EXCEPT !.got = content]
  BY DEF Load, Contents
<1>2. page # NoPage
  BY DEF Load
<1>3. page.url \in Urls /\ page.css \in Styles /\ page.url.query = Version(page.css)
  BY <1>2 DEF AssetsInv, PageInv
<1>4. page'.got = content
  BY <1>1 DEF AssetsInv, AssetsType, PageType, ProbeType
<1>5. CASE cache[page.url] # None
  <2>1. content = cache[page.url]
    BY <1>1, <1>5 DEF Shared
  <2> QED BY <1>3, <1>4, <1>5, <2>1 DEF AssetsInv, CacheInv
<1>6. CASE cache[page.url] = None
  <2>1. content \in Origin(page.url.path)
    BY <1>1, <1>6 DEF Shared
  <2> QED BY <1>2, <1>4, <2>1, RoutedPage
<1> QED BY <1>5, <1>6

(* A page that links the prefixed path gets the stylesheet it was rendered *)
(* for, whatever earlier deployments left in the cache, unless it outlived *)
(* its revision, such a page filled the cache for its URL, or the URL map  *)
(* in force is older than the registry entry: the code behaviour           *)
(* StyleMatches is about.                                                  *)
THEOREM StylesMatch == Spec => StyleMatches
<1>1. ASSUME AssetsInv, [Next]_vars, page.got = None, page'.got \notin {None, page.css},
             page.url.path # Bare
      PROVE  OutlivedBy(page) \/ page.url \in late \/ page.app \notin routed
  <2>1. Load
    BY <1>1, GotByLoad
  <2> QED BY <1>1, <2>1, LoadMatches
<1>2. AssetsInv /\ [Next]_vars =>
        [page.got = None /\ page'.got \notin {None, page.css} /\ page.url.path # Bare =>
           OutlivedBy(page) \/ page.url \in late \/ page.app \notin routed]_vars
  BY <1>1
<1> QED BY <1>2, AssetsInvariant, PTL DEF Spec, StyleMatches

-----------------------------------------------------------------------------
(* The verdicts of verify_static_routing                                   *)

LEMMA VerdictOfHead ==
  ASSUME AssetsInv, [Next]_vars, NEW b \in Apps,
         b \in probe'.ok \ probe.ok \/ b \in probe'.failures \ probe.failures
  PROVE  Probe(b)
<1>1. ~(probe'.ok \subseteq probe.ok /\ probe'.failures \subseteq probe.failures)
  OBVIOUS
<1>2. probe' # probe
  BY <1>1
<1>3. Idle.ok = {} /\ Idle.failures = {}
  BY DEF Idle
<1>4. ASSUME NEW a \in Apps,
             \/ Deploy(a) \/ DeployCanary(a) \/ SplitTraffic(a)
             \/ FlipTraffic(a) \/ Import
      PROVE  FALSE
  <2>1. CASE Import
    <3>1. probe' = [probe EXCEPT !.disturbed = probe.disturbed \/ probe.pc # "idle"]
      BY <2>1 DEF Import
    <3> QED BY <1>1, <3>1 DEF AssetsInv, AssetsType, PageType, ProbeType
  <2>2. CASE ~Import
    <3>1. Disturb(a)
      BY <1>4, <2>2 DEF Deploy, DeployCanary, SplitTraffic, FlipTraffic
    <3> QED BY <1>1, <3>1 DEF Disturb, AssetsInv, AssetsType, PageType, ProbeType
  <2> QED BY <2>1, <2>2
<1>5. ASSUME NEW a \in Apps, Start \/ Report \/ StartDirect(a)
      PROVE  FALSE
  <2>1. \/ probe' = Idle \/ probe' = [Idle EXCEPT !.pc = "bare", !.todo = <<a>>]
        \/ \E todo : probe' = [Idle EXCEPT !.pc = "describe", !.todo = todo]
    BY <1>5 DEF Start, Report, StartDirect
  <2>2. \A pc, todo : /\ [Idle EXCEPT !.pc = pc, !.todo = todo].ok = {}
                      /\ [Idle EXCEPT !.pc = pc, !.todo = todo].failures = {}
    BY DEF Idle
  <2>3. probe'.ok = {} /\ probe'.failures = {}
    BY <1>3, <2>1, <2>2, Zenon
  <2> QED BY <1>1, <2>3
<1>6. ~Load /\ ~Close /\ \A a : ~Register(a) /\ ~Open(a) /\ ~Expire(a)
  BY <1>2 DEF Load, Close, Register, Open, Expire
<1>7. vars' # vars
  BY <1>2 DEF vars
<1>8. ASSUME NEW a \in Apps, Probe(a)
      PROVE  a = b
  <2>1. probe.todo # <<>>
    BY <1>8 DEF Probe
  <2>2. /\ FailApp(a).ok = probe.ok /\ PassApp(a).ok = probe.ok \cup {a}
        /\ FailApp(a).failures = probe.failures \cup {a}
        /\ PassApp(a).failures = probe.failures
    BY <2>1, Verdicts
  <2>3. \/ probe' = FailApp(a) \/ probe' = PassApp(a)
        \/ probe' = [probe EXCEPT !.pc = "shared"]
        \/ \E shared, cached :
             probe' = [probe EXCEPT !.pc = "direct", !.shared = shared, !.cached = cached]
        \/ probe' = [probe EXCEPT !.pc = "prefixed", !.shared = Tagged(a, Bare)]
    BY <1>8
       DEF Probe, Describe, FetchShared, FetchDirect, FetchBare,
           FetchPrefixed, FetchFails
  <2>4. probe' = FailApp(a) \/ probe' = PassApp(a)
    BY <1>1, <2>3 DEF AssetsInv, AssetsType, PageType, ProbeType
  <2> QED BY <2>2, <2>4
<1>9. \E a \in Apps : Probe(a)
  BY <1>4, <1>5, <1>6, <1>7, StaticAssumption DEF Next
<1> QED BY <1>8, <1>9

LEMMA PassServed ==
  ASSUME AssetsInv, NEW a \in Apps, Probe(a),
         a \in probe'.ok \ probe.ok, ~probe.disturbed
  PROVE  \/ probe.pc = "prefixed" /\ canary[a].bare /\ canary[a].prefixed
         \/ probe.pc = "direct" /\ rev[a].prefixed /\ (a \in routed \/ probe.cached)
<1>1. probe.todo # <<>> /\ a = Head(probe.todo)
  BY DEF Probe
<1>2. FailApp(a).ok = probe.ok
  BY <1>1, Verdicts
<1>3. probe' # FailApp(a)
  BY <1>2
<1>4. ~FetchFails(a)
  BY <1>3 DEF FetchFails
<1>5. ~Describe(a) /\ ~FetchShared(a) /\ ~FetchBare(a)
  <2>1. ASSUME Describe(a) PROVE FALSE
    <3>1. probe' = [probe EXCEPT !.pc = "shared"]
      BY <1>3, <2>1 DEF Describe
    <3> QED BY <3>1 DEF AssetsInv, AssetsType, PageType, ProbeType
  <2>2. ASSUME FetchShared(a) PROVE FALSE
    <3>1. \E content, old :
            probe' = [probe EXCEPT !.pc = "direct", !.shared = content, !.cached = old]
      BY <1>3, <2>2 DEF FetchShared
    <3> QED BY <3>1 DEF AssetsInv, AssetsType, PageType, ProbeType
  <2>3. ASSUME FetchBare(a) PROVE FALSE
    <3>1. probe' = [probe EXCEPT !.pc = "prefixed", !.shared = Tagged(a, Bare)]
      BY <1>3, <2>3 DEF FetchBare
    <3> QED BY <3>1 DEF AssetsInv, AssetsType, PageType, ProbeType
  <2> QED BY <2>1, <2>2, <2>3
<1>6. CASE FetchDirect(a)
  <2>1. probe.pc = "direct"
    BY <1>6 DEF FetchDirect
  <2>2. PICK r \in Answering(a) : Same(Answer(a, r, a))
    BY <1>3, <1>6 DEF FetchDirect
  <2>3. r.prefixed
    BY <2>2, AppsApart DEF Same, Answer
  <2>4. r = rev[a] /\ (~probe.cached => a \in routed)
    BY <1>1, <2>1 DEF AssetsInv, ProbeInv, Answering
  <2> QED BY <2>1, <2>3, <2>4 DEF AssetsInv, AssetsType, PageType, ProbeType
<1>7. CASE FetchPrefixed(a)
  <2>1. probe.pc = "prefixed" /\ Same(Tagged(a, a))
    BY <1>3, <1>7 DEF FetchPrefixed
  <2>2. canary[a].bare
    BY <1>1, <2>1 DEF AssetsInv, ProbeInv
  <2>3. canary[a].prefixed
    BY <2>1, AppsApart DEF Same, Tagged, Answer
  <2> QED BY <2>1, <2>2, <2>3
<1> QED BY <1>4, <1>5, <1>6, <1>7 DEF Probe

(* An app passes only if the shared domain sends its static path to its    *)
(* own backend, which serves it there, unless it was rolled out, or routed *)
(* anew, under the probe, or the cache answered; a canary only if it       *)
(* serves both paths: what PassMeansServed says of verify_static_routing.  *)
THEOREM PassesAreServed == Spec => PassMeansServed
<1>1. ASSUME AssetsInv, [Next]_vars
      PROVE  \A a \in Apps : a \in probe'.ok \ probe.ok =>
               \/ probe.disturbed
               \/ /\ probe.pc = "prefixed"
                  /\ canary[a].bare /\ canary[a].prefixed
               \/ /\ probe.pc = "direct"
                  /\ rev[a].prefixed /\ (a \in routed \/ probe.cached)
  <2> SUFFICES ASSUME NEW a \in Apps, a \in probe'.ok \ probe.ok, ~probe.disturbed
               PROVE  \/ probe.pc = "prefixed" /\ canary[a].bare /\ canary[a].prefixed
                      \/ probe.pc = "direct" /\ rev[a].prefixed /\ (a \in routed \/ probe.cached)
    OBVIOUS
  <2>1. Probe(a)
    BY <1>1, VerdictOfHead
  <2> QED BY <1>1, <2>1, PassServed
<1>2. AssetsInv /\ [Next]_vars =>
        [\A a \in Apps : a \in probe'.ok \ probe.ok =>
           \/ probe.disturbed
           \/ /\ probe.pc = "prefixed"
              /\ canary[a].bare /\ canary[a].prefixed
           \/ /\ probe.pc = "direct"
              /\ rev[a].prefixed /\ (a \in routed \/ probe.cached)]_vars
  BY <1>1
<1> QED BY <1>2, AssetsInvariant, PTL DEF Spec, PassMeansServed

LEMMA FailureCaused ==
  ASSUME AssetsInv, NEW a \in Apps, Probe(a),
         FetchShared(a) \/ FetchDirect(a),
         a \in probe'.failures \ probe.failures,
         a \in routed, rev[a].prefixed, ~probe.disturbed
  PROVE  probe.cached
<1>1. probe.todo # <<>> /\ a = Head(probe.todo)
  BY DEF Probe
<1>2. ~split[a]
  BY <1>1 DEF AssetsInv, ProbeInv, FetchShared, FetchDirect
<1>3. Answering(a) = {rev[a]} /\ Answer(a, rev[a], a) = rev[a].css
  BY <1>2 DEF Answering, Answer
<1>4. rev[a].css \in Styles /\ rev[a].css # Missing
  BY RevisionsTyped, StaticAssumption DEF AssetsInv, AssetsType, PageType, ProbeType
<1>5. CASE FetchShared(a)
  <2> DEFINE url == [path |-> a, query |-> <<NoQuery>>]
  <2>1. PICK content \in Contents, kept \in BOOLEAN :
          /\ Shared(url, content, kept)
          /\ probe' = IF content = Missing THEN FailApp(a)
                      ELSE [probe EXCEPT !.pc = "direct", !.shared = content,
                                         !.cached = cache[url] # None]
    BY <1>5 DEF FetchShared, Contents
  <2>2. url \in Urls /\ url.path = a
    BY DEF Urls, Paths, Queries
  <2> HIDE DEF url
  <2>3. content = Missing
    BY <2>1 DEF AssetsInv, AssetsType, PageType, ProbeType
  <2>4. Origin(a) = {rev[a].css}
    BY <1>3 DEF Origin
  <2>5. cache[url] \in Styles \cup {HostStyle, None}
    BY <2>2 DEF AssetsInv, AssetsType, PageType, ProbeType
  <2>6. cache[url] # None => cache[url] # Missing
    BY <2>5, StaticAssumption DEF HostStyle, Missing
  <2> QED BY <1>4, <2>1, <2>2, <2>3, <2>4, <2>6 DEF Shared
<1>6. CASE FetchDirect(a)
  <2>1. probe' = IF Same(rev[a].css) THEN PassApp(a) ELSE FailApp(a)
    BY <1>3, <1>6 DEF FetchDirect
  <2>2. PassApp(a).failures = probe.failures
    BY <1>1, Verdicts
  <2>3. ~Same(rev[a].css)
    BY <2>1, <2>2
  <2>4. probe.pc = "direct" /\ (~probe.cached => probe.shared = rev[a].css)
    BY <1>1, <1>6 DEF FetchDirect, AssetsInv, ProbeInv
  <2> QED BY <1>4, <2>3, <2>4 DEF Same
<1> QED BY <1>5, <1>6

(* An app whose answers fail the comparison has no rule, serves nothing    *)
(* there, was rolled out under the probe, or has an old copy in the cache: *)
(* what MismatchHasCause says of verify_static_routing.                    *)
THEOREM MismatchesCaused == Spec => MismatchHasCause
<1>1. ASSUME AssetsInv, [Next]_vars
      PROVE  \A a \in Apps :
               a \in probe'.failures \ probe.failures /\ (FetchShared(a) \/ FetchDirect(a)) =>
                 \/ a \notin routed \/ ~rev[a].prefixed
                 \/ probe.disturbed \/ probe.cached
  BY <1>1, VerdictOfHead, FailureCaused
<1>2. AssetsInv /\ [Next]_vars =>
        [\A a \in Apps :
           a \in probe'.failures \ probe.failures /\ (FetchShared(a) \/ FetchDirect(a)) =>
             \/ a \notin routed \/ ~rev[a].prefixed
             \/ probe.disturbed \/ probe.cached]_vars
  BY <1>1
<1> QED BY <1>2, AssetsInvariant, PTL DEF Spec, MismatchHasCause
=============================================================================
