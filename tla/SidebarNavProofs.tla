--------------------------- MODULE SidebarNavProofs ---------------------------
(***************************************************************************)
(* What PATCHes of whole maps can and cannot do to the stored preference,  *)
(* for any number of groups, hosted apps, tabs and PATCHes in flight.      *)
(*                                                                         *)
(* The invariants speak of the stored map, but every copy of it, in a tab  *)
(* or in a body on its way, is written back sooner or later: IInv says the *)
(* same of all of them.                                                    *)
(***************************************************************************)
EXTENDS SidebarNav, TLAPS

Unclicked(g) == \A v \in {"shut", "open"} : <<g, v>> \notin clicked

(* What map m says of a group every page listed and nobody clicked. *)
Keeps(m) ==
  \A g \in Groups \ unlisted :
    Unclicked(g) => (Collapsed(m, g) <=> Collapsed(before, g))

(* Map m collapses nothing unasked. *)
Asked(m) ==
  \A g \in Groups :
    Collapsed(m, g) => Collapsed(before, g) \/ <<g, "shut">> \in clicked

(* A tab without a page lists nothing. *)
TabsKeep ==
  \A t \in Tabs : (\A g \in Groups : tab[t].shown[g] = "unset") \/ Keeps(tab[t].held)

TabsAsked == \A t \in Tabs : Asked(tab[t].shown) /\ Asked(tab[t].held)

BodiesKeep == \A s \in Slots : patch[s].pc # "free" => Keeps(patch[s].body)

BodiesAsked == \A s \in Slots : patch[s].pc # "free" => Asked(patch[s].body)

IInv ==
  /\ TypeOK
  /\ Keeps(stored) /\ Asked(stored)
  /\ TabsKeep /\ TabsAsked
  /\ BodiesKeep /\ BodiesAsked
  /\ NeverStranded

(* The initial state has blank tabs and free slots. *)
LEMMA InitInv == Init => IInv
<1> SUFFICES ASSUME Init PROVE IInv
  OBVIOUS
<1>1. TypeOK
  BY NavAssumption DEF Init, Registry!Init, TypeOK, Blank, Free, Page, Patch, Unset, Maps, Values, Versions
<1>2. Keeps(stored) /\ Asked(stored)
  BY DEF Init, Keeps, Asked
<1>3. TabsKeep /\ TabsAsked /\ NeverStranded
  BY DEF Init, TabsKeep, TabsAsked, NeverStranded, Asked, Collapsed, Blank, Unset
<1>4. BodiesKeep /\ BodiesAsked
  BY DEF Init, BodiesKeep, BodiesAsked, Free
<1> QED
  BY <1>1, <1>2, <1>3, <1>4 DEF IInv

(* A map keeps what it kept when pages and clicks are added. *)
LEMMA Carried ==
  ASSUME UNCHANGED before, clicked \subseteq clicked', unlisted \subseteq unlisted'
  PROVE  \A m \in Maps : (Keeps(m) => Keeps(m)') /\ (Asked(m) => Asked(m)')
<1> SUFFICES ASSUME NEW m \in Maps PROVE (Keeps(m) => Keeps(m)') /\ (Asked(m) => Asked(m)')
  OBVIOUS
<1>1. \A g \in Groups \ unlisted' : Unclicked(g)' => g \in Groups \ unlisted /\ Unclicked(g)
  BY DEF Unclicked
<1>2. Keeps(m) => Keeps(m)'
  BY <1>1 DEF Keeps, Collapsed
<1>3. Asked(m) => Asked(m)'
  BY DEF Asked, Collapsed
<1> QED
  BY <1>2, <1>3

(* A step of the registry. *)
LEMMA RegistryKeeps == IInv /\ RegistryStep => IInv'
<1> SUFFICES ASSUME IInv, RegistryStep PROVE IInv'
  OBVIOUS
<1>1. TypeOK'
  <2>1. published' \subseteq Versions
    BY DEF IInv, TypeOK, RegistryStep, Registry!Next, Registry!Publish, Registry!Start,
           Registry!Stop, Registry!Refresh, Registry!Versions, Versions
  <2>2. up' \in [Consumers -> BOOLEAN]
    BY DEF IInv, TypeOK, RegistryStep, Registry!Next, Registry!Publish, Registry!Start,
           Registry!Stop, Registry!Refresh
  <2>3. cache' \in [Consumers -> Versions \cup {SelfOnly}]
    BY DEF IInv, TypeOK, RegistryStep, Registry!Next, Registry!Publish, Registry!Start,
           Registry!Stop, Registry!Refresh
  <2> QED
    BY <2>1, <2>2, <2>3 DEF IInv, TypeOK, RegistryStep
<1> QED
  BY <1>1 DEF IInv, RegistryStep, Keeps, Asked, Unclicked, TabsKeep, TabsAsked, BodiesKeep,
              BodiesAsked, NeverStranded, Collapsed

(* A page that lists every group outside unlisted', rendered from a map    *)
(* that keeps and asks, keeps and asks.                                    *)
LEMMA OpenKeeps ==
  ASSUME IInv, NEW t \in Tabs, NEW listed \in SUBSET Groups, NEW page \in Groups \cup {None},
         Open(t, listed, page)
  PROVE  IInv'
<1> DEFINE P == Rendered(listed, page)
<1>a. tab' = [tab EXCEPT ![t] = P] /\ tab \in [Tabs -> Page]
  BY DEF Open, IInv, TypeOK
<1>b. stored \in Maps /\ UNCHANGED <<registryVars, stored, patch, before, clicks, clicked>>
  BY DEF Open, IInv, TypeOK
<1>c. unlisted' = unlisted \cup (Groups \ listed)
  BY DEF Open
<1>d. P \in Page
  BY <1>b DEF Rendered, Page, Shown, StoredValue, Maps, Values
<1>e. tab'[t] = P /\ \A u \in Tabs \ {t} : tab'[u] = tab[u]
  BY <1>a
<1>1. TypeOK'
  BY <1>a, <1>b, <1>c, <1>d DEF IInv, TypeOK, registryVars
<1>f. \A m \in Maps : (Keeps(m) => Keeps(m)') /\ (Asked(m) => Asked(m)')
  BY <1>b, <1>c, Carried
<1>2. Keeps(stored)' /\ Asked(stored)'
  <2>1. stored' = stored /\ Keeps(stored) /\ Asked(stored)
    BY <1>b DEF IInv
  <2> QED
    BY <2>1, <1>b, <1>f DEF Keeps, Asked
<1>3. Keeps(tab[t].held)' /\ Asked(tab[t].held)' /\ Asked(tab[t].shown)'
  <2>1. \A g \in Groups : /\ Collapsed(P.held, g) => Collapsed(stored, g)
                          /\ Collapsed(P.shown, g) => Collapsed(stored, g)
                          /\ g \in listed => (Collapsed(P.held, g) <=> Collapsed(stored, g))
    BY DEF Rendered, Collapsed, Shown, StoredValue
  <2>2. \A g \in Groups \ unlisted' : g \in listed
    BY <1>c
  <2>3. Keeps(stored) /\ Asked(stored) /\ before' = before /\ clicked' = clicked
    BY <1>b DEF IInv
  <2>4. Keeps(tab[t].held)'
    BY <2>1, <2>2, <2>3, <1>c, <1>e DEF Keeps, Unclicked, Collapsed
  <2>5. Asked(tab[t].held)' /\ Asked(tab[t].shown)'
    BY <2>1, <2>3, <1>e DEF Asked, Collapsed
  <2> QED
    BY <2>4, <2>5
<1>4. TabsKeep' /\ TabsAsked'
  <2> SUFFICES ASSUME NEW u \in Tabs
               PROVE  /\ (\A g \in Groups : tab'[u].shown[g] = "unset") \/ Keeps(tab[u].held)'
                      /\ Asked(tab[u].shown)' /\ Asked(tab[u].held)'
    BY DEF TabsKeep, TabsAsked
  <2>1. CASE u = t
    BY <2>1, <1>3
  <2>2. CASE u # t
    <3>1. tab'[u] = tab[u] /\ tab[u].shown \in Maps /\ tab[u].held \in Maps
      BY <2>2, <1>a, <1>e DEF Page
    <3>2. /\ (\A g \in Groups : tab[u].shown[g] = "unset") \/ Keeps(tab[u].held)
          /\ Asked(tab[u].shown) /\ Asked(tab[u].held)
      BY DEF IInv, TabsKeep, TabsAsked
    <3> QED
      BY <3>1, <3>2, <1>f DEF Keeps, Asked
  <2> QED
    BY <2>1, <2>2
<1>5. BodiesKeep' /\ BodiesAsked'
  <2> SUFFICES ASSUME NEW s \in Slots, patch'[s].pc # "free"
               PROVE  Keeps(patch[s].body)' /\ Asked(patch[s].body)'
    BY DEF BodiesKeep, BodiesAsked
  <2>1. patch' = patch /\ patch[s].body \in Maps
    BY <1>b DEF IInv, TypeOK, Patch
  <2>2. Keeps(patch[s].body) /\ Asked(patch[s].body)
    BY <2>1 DEF IInv, BodiesKeep, BodiesAsked
  <2> QED
    BY <2>1, <2>2, <1>f DEF Keeps, Asked
<1>6. NeverStranded'
  <2>1. page \in Groups => ~ Collapsed(P.shown, page)
    BY DEF Rendered, Collapsed, Shown
  <2> QED
    BY <2>1, <1>e DEF IInv, NeverStranded, Rendered
<1> QED
  BY <1>1, <1>2, <1>4, <1>5, <1>6 DEF IInv

(* A click records what it asks for before it sends anything. *)
LEMMA ToggleKeeps ==
  ASSUME IInv, NEW t \in Tabs, NEW g \in Groups, NEW s \in Slots, Toggle(t, g, s)
  PROVE  IInv'
<1> DEFINE v == Opposite(tab[t].shown[g])
           P == Toggled(tab[t], g)
<1>a. /\ tab[t].shown[g] # "unset"
      /\ tab' = [tab EXCEPT ![t] = P]
      /\ UNCHANGED <<registryVars, stored, before, unlisted>>
  BY DEF Toggle
<1>b. tab \in [Tabs -> Page] /\ patch \in [Slots -> Patch] /\ tab[t] \in Page
  BY DEF IInv, TypeOK
<1>c. /\ P.group = tab[t].group /\ P.clicked = tab[t].clicked \cup {g}
      /\ P.shown = [tab[t].shown EXCEPT ![g] = v]
      /\ P.held = [tab[t].held EXCEPT ![g] = v]
  BY DEF Toggled
<1>d. P \in Page /\ v \in {"shut", "open"}
  BY <1>b DEF Toggled, Page, Maps, Values, Opposite
<1>e. tab'[t] = P /\ \A u \in Tabs \ {t} : tab'[u] = tab[u]
  BY <1>a, <1>b
<1>f. P.shown[g] = v /\ clicked' = clicked \cup {<<g, v>>}
  BY <1>b, <1>c, <1>e DEF Toggle, Page, Maps
<1>g. /\ patch'[s].pc = "sent" /\ patch'[s].body = P.held /\ patch'[s].group = g
      /\ patch'[s] \in Patch
      /\ patch' = [patch EXCEPT ![s] = patch'[s]]
  BY <1>b, <1>d, <1>e DEF Toggle, Sent, Patch, Page
<1>1. TypeOK'
  <2>1. clicks' \in 0..MaxClicks
    BY NavAssumption DEF Toggle, IInv, TypeOK
  <2>2. clicked' \subseteq Groups \X {"shut", "open"}
    BY <1>d, <1>f DEF IInv, TypeOK
  <2>3. tab' \in [Tabs -> Page] /\ patch' \in [Slots -> Patch]
    BY <1>a, <1>b, <1>d, <1>g
  <2> QED
    BY <2>1, <2>2, <2>3, <1>a DEF IInv, TypeOK, registryVars
<1>h. \A m \in Maps : (Keeps(m) => Keeps(m)') /\ (Asked(m) => Asked(m)')
  BY <1>a, <1>f, Carried
<1>2. Keeps(stored)' /\ Asked(stored)'
  <2>1. stored' = stored /\ stored \in Maps /\ Keeps(stored) /\ Asked(stored)
    BY <1>a DEF IInv, TypeOK
  <2> QED
    BY <2>1, <1>h DEF Keeps, Asked
<1>3. Keeps(tab[t].held) /\ Asked(tab[t].held) /\ Asked(tab[t].shown)
  BY <1>a DEF IInv, TabsKeep, TabsAsked
<1>4. Keeps(tab[t].held)' /\ Asked(tab[t].held)' /\ Asked(tab[t].shown)'
  <2>1. \A h \in Groups : h # g => P.held[h] = tab[t].held[h] /\ P.shown[h] = tab[t].shown[h]
    BY <1>b, <1>c DEF Page, Maps
  <2>2. P.held[g] = v /\ P.shown[g] = v
    BY <1>b, <1>c DEF Page, Maps
  <2>3. Keeps(tab[t].held)'
    <3>1. ~ Unclicked(g)'
      BY <1>d, <1>f DEF Unclicked
    <3>2. \A h \in Groups : Unclicked(h)' => Unclicked(h)
      BY <1>f DEF Unclicked
    <3> QED
      BY <2>1, <3>1, <3>2, <1>a, <1>e, <1>3 DEF Keeps, Collapsed
  <2>4. Asked(tab[t].held)' /\ Asked(tab[t].shown)'
    BY <2>1, <2>2, <1>a, <1>e, <1>f, <1>3 DEF Asked, Collapsed
  <2> QED
    BY <2>3, <2>4
<1>5. TabsKeep' /\ TabsAsked'
  <2> SUFFICES ASSUME NEW u \in Tabs
               PROVE  /\ (\A h \in Groups : tab'[u].shown[h] = "unset") \/ Keeps(tab[u].held)'
                      /\ Asked(tab[u].shown)' /\ Asked(tab[u].held)'
    BY DEF TabsKeep, TabsAsked
  <2>1. CASE u = t
    BY <2>1, <1>4
  <2>2. CASE u # t
    <3>1. tab'[u] = tab[u] /\ tab[u].shown \in Maps /\ tab[u].held \in Maps
      BY <2>2, <1>b, <1>e DEF Page
    <3>2. /\ (\A h \in Groups : tab[u].shown[h] = "unset") \/ Keeps(tab[u].held)
          /\ Asked(tab[u].shown) /\ Asked(tab[u].held)
      BY DEF IInv, TabsKeep, TabsAsked
    <3> QED
      BY <3>1, <3>2, <1>h DEF Keeps, Asked
  <2> QED
    BY <2>1, <2>2
<1>6. BodiesKeep' /\ BodiesAsked'
  <2> SUFFICES ASSUME NEW r \in Slots, patch'[r].pc # "free"
               PROVE  Keeps(patch[r].body)' /\ Asked(patch[r].body)'
    BY DEF BodiesKeep, BodiesAsked
  <2>1. CASE r = s
    BY <2>1, <1>e, <1>g, <1>4 DEF Keeps, Asked
  <2>2. CASE r # s
    <3>1. patch'[r] = patch[r] /\ patch[r].body \in Maps
      BY <2>2, <1>b, <1>g DEF Patch
    <3>2. Keeps(patch[r].body) /\ Asked(patch[r].body)
      BY <3>1 DEF IInv, BodiesKeep, BodiesAsked
    <3> QED
      BY <3>1, <3>2, <1>h DEF Keeps, Asked
  <2> QED
    BY <2>1, <2>2
<1>7. NeverStranded'
  <2> SUFFICES ASSUME NEW u \in Tabs, NEW h \in Groups,
                      h = tab'[u].group, Collapsed(tab'[u].shown, h)
               PROVE  h \in tab'[u].clicked
    BY DEF NeverStranded, Collapsed
  <2>1. CASE u # t
    BY <2>1, <1>e DEF IInv, NeverStranded
  <2>2. CASE u = t /\ h = g
    BY <2>2, <1>c, <1>e
  <2>3. CASE u = t /\ h # g
    <3>1. P.shown[h] = tab[t].shown[h]
      BY <2>3, <1>b, <1>c DEF Page, Maps
    <3>2. h = tab[t].group /\ Collapsed(tab[t].shown, h)
      BY <3>1, <2>3, <1>c, <1>e DEF Collapsed
    <3> QED
      BY <3>2, <2>3, <1>c, <1>e DEF IInv, NeverStranded
  <2> QED
    BY <2>1, <2>2, <2>3
<1> QED
  BY <1>1, <1>2, <1>5, <1>6, <1>7 DEF IInv

(* What a PATCH does to the row is keep it or store its body. *)
LEMMA PatchKeeps ==
  ASSUME IInv, NEW s \in Slots, PatchLoad(s) \/ PatchWrite(s) \/ PatchLost(s)
  PROVE  IInv'
<1>a. UNCHANGED <<registryVars, tab, before, clicks, clicked, unlisted>>
  BY DEF PatchLoad, PatchWrite, PatchLost
<1>b. patch \in [Slots -> Patch] /\ stored \in Maps
  BY DEF IInv, TypeOK
<1>c. stored' = stored \/ (patch[s].pc # "free" /\ stored' = patch[s].body)
  BY DEF PatchLoad, PatchWrite, PatchLost, Written
<1>d. /\ patch' \in [Slots -> Patch]
      /\ \A r \in Slots : patch'[r].pc # "free" => patch[r].pc # "free" /\ patch'[r].body = patch[r].body
  <2>1. CASE PatchLoad(s)
    BY <2>1, <1>b DEF PatchLoad, Patch
  <2>2. CASE PatchWrite(s) \/ PatchLost(s)
    <3>1. Free \in Patch /\ Free.pc = "free"
      BY DEF Free, Patch, Unset, Maps, Values
    <3> QED
      BY <2>2, <3>1, <1>b DEF PatchWrite, PatchLost
  <2> QED
    BY <2>1, <2>2
<1>e. \A r \in Slots : patch[r].pc # "free" => Keeps(patch[r].body) /\ Asked(patch[r].body)
  BY DEF IInv, BodiesKeep, BodiesAsked
<1>f. Keeps(stored) /\ Asked(stored)
  BY DEF IInv
<1>1. TypeOK'
  BY <1>a, <1>b, <1>c, <1>d DEF IInv, TypeOK, registryVars, Patch
<1>2. Keeps(stored)' /\ Asked(stored)'
  BY <1>a, <1>c, <1>e, <1>f DEF Keeps, Asked, Unclicked, Collapsed
<1>3. BodiesKeep' /\ BodiesAsked'
  BY <1>a, <1>d, <1>e DEF BodiesKeep, BodiesAsked, Keeps, Asked, Unclicked, Collapsed
<1>4. TabsKeep' /\ TabsAsked' /\ NeverStranded'
  BY <1>a DEF IInv, TabsKeep, TabsAsked, NeverStranded, Keeps, Asked, Unclicked, Collapsed
<1> QED
  BY <1>1, <1>2, <1>3, <1>4 DEF IInv

LEMMA Inductive == IInv /\ [Next]_vars => IInv'
<1> SUFFICES ASSUME IInv, [Next]_vars PROVE IInv'
  OBVIOUS
<1>1. CASE RegistryStep
  BY <1>1, RegistryKeeps
<1>2. ASSUME NEW t \in Tabs, OpenHostPage(t) PROVE IInv'
  <2>1. PICK listed \in HostLists : Open(t, listed, None)
    BY <1>2 DEF OpenHostPage
  <2>2. listed \in SUBSET Groups
    BY NavAssumption DEF HostLists, IInv, TypeOK
  <2> QED
    BY <2>1, <2>2, OpenKeeps
<1>3. ASSUME NEW t \in Tabs, NEW c \in Consumers, OpenAppPage(t, c) PROVE IInv'
  <2>1. PICK page \in {c, None} : Open(t, AppLists(c), page)
    BY <1>3 DEF OpenAppPage
  <2>2. AppLists(c) \in SUBSET Groups
    BY NavAssumption DEF AppLists, IInv, TypeOK
  <2>3. page \in Groups \cup {None}
    BY NavAssumption
  <2> QED
    BY <2>1, <2>2, <2>3, OpenKeeps
<1>4. ASSUME NEW t \in Tabs, NEW g \in Groups, NEW s \in Slots, Toggle(t, g, s) PROVE IInv'
  BY <1>4, ToggleKeeps
<1>5. ASSUME NEW s \in Slots, PatchLoad(s) \/ PatchWrite(s) \/ PatchLost(s) PROVE IInv'
  BY <1>5, PatchKeeps
<1>6. CASE UNCHANGED vars
  BY <1>6 DEF vars, registryVars, IInv, TypeOK, Keeps, Asked, Unclicked, TabsKeep, TabsAsked,
              BodiesKeep, BodiesAsked, NeverStranded, Collapsed
<1> QED
  BY <1>1, <1>2, <1>3, <1>4, <1>5, <1>6 DEF Next

LEMMA Invariance == Spec => []IInv
<1> QED
  BY InitInv, Inductive, PTL DEF Spec

(* Pages, bodies and the stored map are well formed. *)
THEOREM TypeCorrect == Spec => []TypeOK
<1>1. IInv => TypeOK
  BY DEF IInv
<1> QED
  BY <1>1, Invariance, PTL

(* However many tabs are open and PATCHes in flight, the preference of a   *)
(* group every page lists and nobody clicks is what it was.                *)
THEOREM PreferenceKept == Spec => []UnclickedKept
<1>1. IInv => UnclickedKept
  BY DEF IInv, Keeps, UnclickedKept, Unclicked
<1> QED
  BY <1>1, Invariance, PTL

(* What is collapsed was collapsed by somebody. *)
THEOREM CollapsedOnRequest == Spec => []NothingCollapsesUnasked
<1>1. IInv => NothingCollapsesUnasked
  BY DEF IInv, Asked, NothingCollapsesUnasked
<1> QED
  BY <1>1, Invariance, PTL

(* A page shows the nav of its own app until the user hides it there. *)
THEOREM OwnNavShown == Spec => []NeverStranded
<1>1. IInv => NeverStranded
  BY DEF IInv
<1> QED
  BY <1>1, Invariance, PTL
=============================================================================
