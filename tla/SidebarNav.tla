------------------------------ MODULE SidebarNav ------------------------------
(***************************************************************************)
(* The collapsible app groups of the sidebar, for one user.  The server    *)
(* renders two maps into every page (sidebar_nav_context, in the Host and  *)
(* in every hosted app, each from its own view of the app registry); a     *)
(* click flips one group and PATCHes the whole map of the tab it happened  *)
(* in, without waiting for the one before; update_current_user replaces    *)
(* the stored map as a whole.  The registry is that of RegistryView, which *)
(* RegistrySync implements.                                                *)
(***************************************************************************)
EXTENDS Naturals

CONSTANTS
  Groups,     \* service names of the apps that are rendered as a group
  Consumers,  \* hosted apps that render pages, each in a group of its name
  MaxVersion, SelfOnly,  \* of RegistryView
  Listed,     \* Listed[v]: the groups of registry v
  Tabs,       \* browser tabs of the user
  Slots,      \* PATCHes in flight at one time (bound)
  MaxClicks,  \* clicks of the user (bound)
  Earlier,    \* maps that earlier sessions may have stored
  None        \* absence of a page's group, of a PATCH

Versions == 0..MaxVersion

Values == {"shut", "open", "unset"}

Maps == [Groups -> Values]

ASSUME NavAssumption ==
  /\ MaxVersion \in Nat /\ MaxClicks \in Nat /\ SelfOnly \notin Versions
  /\ Consumers \subseteq Groups
  /\ Listed \in [Versions -> SUBSET Groups]
  /\ Earlier \subseteq Maps
  /\ None \notin Groups

VARIABLES
  published, up, cache,  \* of RegistryView
  stored,     \* User.nav_collapsed_groups
  tab,        \* the page each tab shows, with its Alpine.js state
  patch,      \* PATCH /api/v1/users/me requests in flight
  before,     \* history: stored at the start
  clicks,     \* clicks so far
  clicked,    \* history: <<group, value>> of every click
  unlisted    \* history: groups some page was rendered without

registryVars == <<published, up, cache>>

vars == <<registryVars, stored, tab, patch, before, clicks, clicked, unlisted>>

Registry == INSTANCE RegistryView
  WITH Consumers <- Consumers, MaxVersion <- MaxVersion, SelfOnly <- SelfOnly,
       published <- published, up <- up, cache <- cache

Unset == [g \in Groups |-> "unset"]

Page == [group : Groups \cup {None}, shown : Maps, held : Maps, clicked : SUBSET Groups]

Blank == [group |-> None, shown |-> Unset, held |-> Unset, clicked |-> {}]

(* A PATCH whose row is loaded remembers whether its body differs from it. *)
Patch == [pc : {"free", "sent", "same", "differs"}, group : Groups \cup {None}, body : Maps]

Free == [pc |-> "free", group |-> None, body |-> Unset]

TypeOK ==
  /\ published \subseteq Versions
  /\ up \in [Consumers -> BOOLEAN]
  /\ cache \in [Consumers -> Versions \cup {SelfOnly}]
  /\ stored \in Maps /\ before \in Maps
  /\ tab \in [Tabs -> Page]
  /\ patch \in [Slots -> Patch]
  /\ clicks \in 0..MaxClicks
  /\ clicked \subseteq Groups \X {"shut", "open"}
  /\ unlisted \subseteq Groups

Init ==
  /\ Registry!Init
  /\ stored \in Earlier
  /\ tab = [t \in Tabs |-> Blank]
  /\ patch = [s \in Slots |-> Free]
  /\ before = stored
  /\ clicks = 0 /\ clicked = {}
  /\ unlisted = {}

-----------------------------------------------------------------------------
(* Rendering                                                               *)

(* list_apps(): the groups the Host, or the hosted app c, lists. *)
HostLists == {Listed[v] : v \in published}

AppLists(c) == IF cache[c] = SelfOnly THEN {c} ELSE Listed[cache[c]]

DefaultShut(g) == IF stored[g] = "open" THEN "open" ELSE "shut"   \* mutant: get(name, True)

StoredValue(g) == IF stored[g] = "shut" THEN "shut" ELSE "open"

(* build_nav_groups opens the group that the page itself belongs to. *)
Shown(g, page) == IF g = page THEN "open" ELSE StoredValue(g)

(* sidebar_nav_context: nav_collapsed_json and nav_stored_collapsed_json. *)
Rendered(listed, page) ==
  [group   |-> page,
   shown   |-> [g \in Groups |-> IF g \in listed THEN Shown(g, page) ELSE "unset"],
   held    |-> [g \in Groups |-> IF g \in listed THEN StoredValue(g) ELSE "unset"],
   clicked |-> {}]

Open(t, listed, page) ==
  /\ tab' = [tab EXCEPT ![t] = Rendered(listed, page)]
  /\ unlisted' = unlisted \cup (Groups \ listed)
  /\ UNCHANGED <<registryVars, stored, patch, before, clicks, clicked>>

(* Settings and Profile are in no group. *)
OpenHostPage(t) == \E listed \in HostLists : Open(t, listed, None)

(* A page of c, one of its nav items or below. *)
OpenAppPage(t, c) ==
  /\ up[c]
  /\ \E page \in {c, None} : Open(t, AppLists(c), page)

-----------------------------------------------------------------------------
(* Clicking                                                                *)

Opposite(v) == IF v = "shut" THEN "open" ELSE "shut"

SentShown(page) == page.shown              \* mutant: PATCH what is displayed

(* The map the request's body is built from. *)
Sent(page) == page.held

(* toggle(): the page, and the PATCH it does not wait for. *)
Toggled(page, g) ==
  LET v == Opposite(page.shown[g]) IN
  [group   |-> page.group,
   shown   |-> [page.shown EXCEPT ![g] = v],
   held    |-> [page.held EXCEPT ![g] = v],
   clicked |-> page.clicked \cup {g}]

Toggle(t, g, s) ==
  /\ clicks < MaxClicks
  /\ tab[t].shown[g] # "unset"
  /\ patch[s] = Free
  /\ tab' = [tab EXCEPT ![t] = Toggled(tab[t], g)]
  /\ patch' = [patch EXCEPT ![s] =
       [pc |-> "sent", group |-> g, body |-> Sent(tab'[t])]]
  /\ clicks' = clicks + 1
  /\ clicked' = clicked \cup {<<g, tab'[t].shown[g]>>}
  /\ UNCHANGED <<registryVars, stored, before, unlisted>>

-----------------------------------------------------------------------------
(* update_current_user                                                     *)

(* current_active_user loads the row. *)
PatchLoad(s) ==
  /\ patch[s].pc = "sent"
  /\ patch' = [patch EXCEPT ![s].pc = IF patch[s].body = stored THEN "same" ELSE "differs"]
  /\ UNCHANGED <<registryVars, stored, tab, before, clicks, clicked, unlisted>>

Written(p) == IF p.pc = "same" THEN stored ELSE p.body

(* user_manager.update: the whole map, named in the UPDATE only when it    *)
(* differs from the row as it was loaded.                                  *)
PatchWrite(s) ==
  /\ patch[s].pc \in {"same", "differs"}
  /\ stored' = Written(patch[s])
  /\ patch' = [patch EXCEPT ![s] = Free]
  /\ UNCHANGED <<registryVars, tab, before, clicks, clicked, unlisted>>

(* The tab navigates away or the network fails; the session has ended; the *)
(* instance stops.  Nobody reads the answer of the fetch.                  *)
PatchLost(s) ==
  /\ patch[s] # Free
  /\ patch' = [patch EXCEPT ![s] = Free]
  /\ UNCHANGED <<registryVars, stored, tab, before, clicks, clicked, unlisted>>

RegistryStep ==
  /\ Registry!Next
  /\ UNCHANGED <<stored, tab, patch, before, clicks, clicked, unlisted>>

Next ==
  \/ RegistryStep
  \/ \E t \in Tabs :
       \/ OpenHostPage(t)
       \/ \E c \in Consumers : OpenAppPage(t, c)
       \/ \E g \in Groups, s \in Slots : Toggle(t, g, s)
  \/ \E s \in Slots : PatchLoad(s) \/ PatchWrite(s) \/ PatchLost(s)

Spec == Init /\ [][Next]_vars

-----------------------------------------------------------------------------

Collapsed(m, g) == m[g] = "shut"

(* Opening pages, whichever group they force open, and clicking other      *)
(* groups, in whatever tabs and order the PATCHes land, leaves the stored  *)
(* preference of a group alone as long as every page lists the group.      *)
UnclickedKept ==
  \A g \in Groups \ unlisted :
    (\A v \in {"shut", "open"} : <<g, v>> \notin clicked)
      => (Collapsed(stored, g) <=> Collapsed(before, g))

(* Lost, repeated and reordered PATCHes, and pages of apps that have yet   *)
(* to fetch the registry, may forget that a group was collapsed, but never *)
(* collapse one that nobody collapsed.                                     *)
NothingCollapsesUnasked ==
  \A g \in Groups :
    Collapsed(stored, g) => Collapsed(before, g) \/ <<g, "shut">> \in clicked

(* A page never hides the nav of the app it belongs to, however the stored *)
(* map reads, unless the user collapsed that group on that very page.      *)
NeverStranded ==
  \A t \in Tabs : \A g \in Groups :
    g = tab[t].group /\ Collapsed(tab[t].shown, g) => g \in tab[t].clicked
=============================================================================
