------------------------------- MODULE Sessions -------------------------------
(***************************************************************************)
(* Who is signed in where: the session cookie of the Host, which is a      *)
(* signed token that no server keeps a record of, and the handshake with   *)
(* Google that leads to one.  The cookies belong to a browser, the pages   *)
(* and the requests to its tabs: a request carries the cookies of the      *)
(* moment it was sent, and the cookies of a response count from the moment *)
(* it arrives, so the tabs of one browser interfere.                       *)
(*                                                                         *)
(* Which user a Google account leads to is HostAccounts' matter, whether a *)
(* password is right is Credentials': here either yields some user.        *)
(***************************************************************************)
EXTENDS Naturals

CONSTANTS
  Browsers,   \* browsers, each with one cookie jar
  Tabs,       \* their tabs
  Homes,      \* the ways the tabs may be spread over the browsers
  Users,      \* users there can ever be (bound)
  Pages,      \* the pages a link to the handshake may name as next
  Nonces,     \* csrf tokens; one is used again when nobody holds it any more (bound)
  None        \* absence of a field

ASSUME SessionsAssumption ==
  /\ Homes \subseteq [Tabs -> Browsers]
  /\ None \notin Users \cup Nonces \cup Tabs

VARIABLES
  home,       \* the browser of each tab, which does not change
  account,    \* the row of users: active, inactive, or deleted
  jar,        \* per browser: cookies organizeme_auth and organizeme_oauth_csrf
  flow,       \* per csrf token: the state minted with it and Google's answer
  tab         \* per tab: its page, or what its request in flight carries

vars == <<home, account, jar, flow, tab>>

Forms == {"/login", "/register"}   \* GOOGLE_OAUTH_ALLOWED_NEXT_PATHS

DefaultNext == "/login"            \* GOOGLE_OAUTH_DEFAULT_NEXT

SanitizedNext(next) == IF next \in Forms THEN next ELSE DefaultNext

(* What the token in the cookie says, live until its seven days are over.  *)
Session == [user : Users, live : BOOLEAN]

Jar == [auth : Session \cup {None}, csrf : Nonces \cup {None}]

(* The state JWT of a handshake, live for ten minutes, the page it was     *)
(* asked from, and the answer in its callback URL.  browser: who asked;    *)
(* touched: whether another answer of the handshake has arrived there      *)
(* since its cookie was set (both history).                                *)
Flow == [asked : Pages \cup {DefaultNext}, browser : Browsers \cup {None}, live : BOOLEAN,
         code : {"none", "fresh", "spent"}, touched : BOOLEAN]

Unused == [asked |-> DefaultNext, browser |-> None, live |-> FALSE,
           code |-> "none", touched |-> FALSE]

(* In "consent" the tab shows Google's page; in "login" and "callback" it  *)
(* has sent the request, in "admitted" the handler has loaded a user it    *)
(* will sign in; the others but "idle" are responses on their way to it.   *)
Steps == {"idle", "consent", "login", "callback", "admitted",
          "refused", "signed_in", "signed_out", "unauthorized"}

Causes == {"none", "denied", "state", "csrf", "exchange", "account"}

(* due: the users who have been active at some moment since the request    *)
(* was sent that waits, or brought the page (history).                     *)
Tab == [pc : Steps, origin : Forms, flow : Nonces \cup {None},
        sent : Nonces \cup {None}, user : Users \cup {None}, cause : Causes,
        due : SUBSET Users]

(* A tab at rest, on a page of the user or, without one, on a form.        *)
Idle(user) == [pc |-> "idle", origin |-> DefaultNext, flow |-> None, sent |-> None,
               user |-> user, cause |-> "none", due |-> {}]

TypeOK ==
  /\ home \in Homes
  /\ account \in [Users -> {"active", "inactive", "deleted"}]
  /\ jar \in [Browsers -> Jar]
  /\ flow \in [Nonces -> Flow]
  /\ tab \in [Tabs -> Tab]

Init ==
  /\ home \in Homes
  /\ account = [u \in Users |-> "active"]
  /\ jar = [b \in Browsers |-> [auth |-> None, csrf |-> None]]
  /\ flow = [n \in Nonces |-> Unused]
  /\ tab = [t \in Tabs |-> Idle(None)]

(* A csrf token that neither a tab nor a cookie holds is forgotten: its    *)
(* callback URL would be refused like one that never was.                  *)
Held(n) == (\E t \in Tabs : tab[t].flow = n) \/ (\E b \in Browsers : jar[b].csrf = n)

Flows(f) == flow' = [n \in Nonces |-> IF Held(n)' THEN f[n] ELSE Unused]

-----------------------------------------------------------------------------
(* Who a cookie stands for                                                 *)

Active == {u \in Users : account[u] = "active"}

(* current_user of the Host: the token is live, and the user it names is   *)
(* loaded and has to be there and active.                                  *)
HostUser(b) ==
  LET c == jar[b].auth IN
  IF c # None /\ c.live /\ account[c.user] = "active" THEN c.user ELSE None

-----------------------------------------------------------------------------
(* GET /api/v1/auth/google                                                 *)

(* An answer of the handshake arrives in browser b, that of n or, with     *)
(* None, one that ends a handshake: it touches all others begun there.     *)
Answered(b, f, n) ==
  Flows([m \in Nonces |->
          IF m # n /\ f[m].browser = b THEN [f[m] EXCEPT !.touched = TRUE] ELSE f[m]])

KeptCookie(b, n) ==   \* mutant: a cookie that is there already is kept
  IF jar[b].csrf # None THEN jar[b].csrf ELSE n

SetCookie(b, n) == n

(* A new csrf token, in the state sent to Google and in a cookie, which    *)
(* arrives with the redirect over that of any other tab.                   *)
Authorize(t, next) ==
  /\ tab[t].pc = "idle"
  /\ \E n \in Nonces :
       /\ ~Held(n)
       /\ tab' = [tab EXCEPT ![t] = [Idle(None) EXCEPT !.pc = "consent", !.flow = n]]
       /\ jar' = [jar EXCEPT ![home[t]].csrf = SetCookie(home[t], n)]
       /\ Answered(home[t], [flow EXCEPT ![n] = [asked |-> next, browser |-> home[t],
                                live |-> TRUE, code |-> "none", touched |-> FALSE]], n)
  /\ UNCHANGED <<home, account>>

(* Google sends the tab on to the callback URL, with a code or an error.   *)
Answer(t) ==
  /\ tab[t].pc = "consent"
  /\ \/ /\ tab' = [tab EXCEPT ![t].pc = "callback", ![t].sent = jar[home[t]].csrf,
                              ![t].due = Active]
        /\ flow' = [flow EXCEPT ![tab[t].flow].code = "fresh"]
     \/ /\ tab' = [tab EXCEPT ![t].pc = "callback", ![t].cause = "denied", ![t].due = Active]
        /\ UNCHANGED flow
  /\ UNCHANGED <<home, account, jar>>

(* A callback URL is opened once more, by reload or in some other browser. *)
Revisit(t, n) ==
  /\ tab[t].pc = "idle"
  /\ flow[n].code # "none"
  /\ tab' = [tab EXCEPT ![t] = [Idle(None) EXCEPT !.pc = "callback", !.flow = n,
                                                   !.sent = jar[home[t]].csrf, !.due = Active]]
  /\ UNCHANGED <<home, account, jar, flow>>

-----------------------------------------------------------------------------
(* GET /api/v1/auth/google/callback                                        *)

LateOrigin(t) ==     \* mutant: the state is decoded only once error and code are looked at
  IF tab[t].cause # "denied" /\ flow[tab[t].flow].live
  THEN SanitizedNext(flow[tab[t].flow].asked) ELSE DefaultNext

CookieOrigin(t) ==   \* mutant: the origin in a cookie of the browser, not in the state
  LET c == tab[t].sent IN IF c = None THEN DefaultNext ELSE SanitizedNext(flow[c].asked)

(* The page to go back to, known only while the state decodes.             *)
Origin(t) ==
  IF flow[tab[t].flow].live THEN SanitizedNext(flow[tab[t].flow].asked) ELSE DefaultNext

(* failure_redirect.                                                       *)
Refuse(t, cause) ==
  tab' = [tab EXCEPT ![t].pc = "refused", ![t].cause = cause, ![t].origin = Origin(t),
                     ![t].sent = None, ![t].due = {}]

(* The user is loaded and is_active of that copy tested; what the handler  *)
(* still writes, the new tokens or a new hash, it waits for.               *)
Admit(t, u) ==
  tab' = [tab EXCEPT ![t].pc = "admitted", ![t].user = u, ![t].sent = None]

Reply(t, status, u) ==
  tab' = [tab EXCEPT ![t].pc = status, ![t].user = u, ![t].sent = None]

NoCookieNeeded(t) == tab[t].sent \in {None, tab[t].flow}   \* mutant: compared only if sent

CookieMatches(t) == tab[t].sent = tab[t].flow

AnyAccount(u) == account[u] # "deleted"   \* mutant: is_active is not asked

MaySignIn(u) == account[u] = "active"

(* The checks before Google is asked, in their order; then the exchange,   *)
(* which Google grants once per code and may fail; then the user that      *)
(* oauth_callback loads: admitted, or refused because it is inactive or is *)
(* being written.  One step: what is read before the user is the request's *)
(* own, and a refusal depends on nothing that is read later.               *)
Callback(t) ==
  LET n == tab[t].flow
      f == flow[n]
      decodes == tab[t].cause # "denied" /\ f.live IN
  /\ tab[t].pc = "callback"
  /\ \/ /\ tab[t].cause = "denied" /\ Refuse(t, "denied")
        /\ UNCHANGED flow
     \/ /\ tab[t].cause # "denied" /\ ~f.live /\ Refuse(t, "state")
        /\ UNCHANGED flow
     \/ /\ decodes /\ ~CookieMatches(t) /\ Refuse(t, "csrf")
        /\ UNCHANGED flow
     \/ /\ decodes /\ CookieMatches(t) /\ Refuse(t, "exchange")
        /\ \E code \in {f.code, "spent"} : flow' = [flow EXCEPT ![n].code = code]
     \/ /\ decodes /\ CookieMatches(t) /\ f.code = "fresh"
        /\ \/ \E u \in Users : MaySignIn(u) /\ Admit(t, u)
           \/ (\E u \in Users : account[u] # "deleted") /\ Refuse(t, "account")
        /\ flow' = [flow EXCEPT ![n].code = "spent"]
  /\ UNCHANGED <<home, account, jar>>

(* auth_backend.login of the user loaded before, for Google's sign-in and  *)
(* for a password's, whatever has become of the row since.                 *)
SignedIn(t) ==
  /\ tab[t].pc = "admitted"
  /\ Reply(t, "signed_in", tab[t].user)
  /\ UNCHANGED <<home, account, jar, flow>>

-----------------------------------------------------------------------------
(* POST /auth/login and /auth/logout, DELETE /users/me, pages              *)

(* The form is posted for a user, who may be new, inactive or deleted.     *)
Login(t, u) ==
  /\ tab[t].pc = "idle"
  /\ tab' = [tab EXCEPT ![t] = [Idle(None) EXCEPT !.pc = "login", !.user = u, !.due = Active]]
  /\ UNCHANGED <<home, account, jar, flow>>

(* get_by_email, the password and is_active: 401 leaves the form as it is. *)
LoginCheck(t) ==
  /\ tab[t].pc = "login"
  /\ \/ MaySignIn(tab[t].user) /\ Admit(t, tab[t].user)
     \/ tab' = [tab EXCEPT ![t] = Idle(None)]
  /\ UNCHANGED <<home, account, jar, flow>>

(* Without an active user behind the cookie logout is refused, and the     *)
(* cookie stays.                                                           *)
Logout(t) ==
  /\ tab[t].pc = "idle" /\ tab[t].user # None
  /\ Reply(t, IF HostUser(home[t]) = None THEN "unauthorized" ELSE "signed_out", None)
  /\ UNCHANGED <<home, account, jar, flow>>

Delete(t) ==
  /\ tab[t].pc = "idle" /\ tab[t].user # None
  /\ HostUser(home[t]) # None
  /\ account' = [account EXCEPT ![HostUser(home[t])] = "deleted"]
  /\ Reply(t, "signed_out", None)
  /\ UNCHANGED <<home, jar, flow>>

(* /profile, /settings and the placeholder pages: the user's, or /login.   *)
OpenPage(t) ==
  LET u == HostUser(home[t]) IN
  /\ tab[t].pc = "idle"
  /\ tab' = [tab EXCEPT ![t] = [Idle(u) EXCEPT !.due = IF u = None THEN {} ELSE Active]]
  /\ UNCHANGED <<home, account, jar, flow>>

-----------------------------------------------------------------------------
(* Responses arrive, or are lost with their requests                       *)

LandRefused(t) ==
  /\ tab[t].pc = "refused"
  /\ jar' = [jar EXCEPT ![home[t]].csrf = None]
  /\ tab' = [tab EXCEPT ![t] = Idle(None)]
  /\ Answered(home[t], flow, None)
  /\ UNCHANGED <<home, account>>

(* After Google's sign-in the csrf cookie goes, after a password's it      *)
(* stays.                                                                  *)
LandSignedIn(t) ==
  /\ tab[t].pc = "signed_in"
  /\ jar' = [jar EXCEPT ![home[t]] =
                [auth |-> [user |-> tab[t].user, live |-> TRUE],
                 csrf |-> IF tab[t].flow = None THEN @.csrf ELSE None]]
  /\ tab' = [tab EXCEPT ![t] = Idle(None)]
  /\ IF tab[t].flow = None THEN UNCHANGED flow ELSE Answered(home[t], flow, None)
  /\ UNCHANGED <<home, account>>

LandSignedOut(t) ==
  /\ tab[t].pc \in {"signed_out", "unauthorized"}
  /\ jar' = [jar EXCEPT ![home[t]].auth =
               IF tab[t].pc = "signed_out" THEN None ELSE @]
  /\ tab' = [tab EXCEPT ![t] = Idle(None)]
  /\ UNCHANGED <<home, account, flow>>

(* The connection breaks, the instance is stopped, a statement of the      *)
(* handler finds its row deleted and raises; or the tab gives up.          *)
Lose(t) ==
  /\ tab[t].pc # "idle"
  /\ tab' = [tab EXCEPT ![t] = Idle(None)]
  /\ UNCHANGED <<home, account, jar>>
  /\ Flows(flow)

-----------------------------------------------------------------------------
(* Time, and an operator                                                   *)

SessionExpires(b) ==
  /\ jar[b].auth # None /\ jar[b].auth.live
  /\ jar' = [jar EXCEPT ![b].auth.live = FALSE]
  /\ UNCHANGED <<home, account, flow, tab>>

(* The token was made before its cookie arrived, and dies before it.       *)
SessionCookieExpires(b) ==
  /\ jar[b].auth # None /\ ~jar[b].auth.live
  /\ jar' = [jar EXCEPT ![b].auth = None]
  /\ UNCHANGED <<home, account, flow, tab>>

StateExpires(n) ==
  /\ flow[n].live
  /\ flow' = [flow EXCEPT ![n].live = FALSE]
  /\ UNCHANGED <<home, account, jar, tab>>

CsrfCookieExpires(b) ==
  /\ jar[b].csrf # None
  /\ ~flow[jar[b].csrf].live
  /\ jar' = [jar EXCEPT ![b].csrf = None]
  /\ UNCHANGED <<home, account, tab>>
  /\ Flows(flow)

Deactivate(u) ==
  /\ account[u] = "active"
  /\ account' = [account EXCEPT ![u] = "inactive"]
  /\ UNCHANGED <<home, jar, flow, tab>>

(* Requests that wait may load the user from now on. *)
Reactivate(u) ==
  /\ account[u] = "inactive"
  /\ account' = [account EXCEPT ![u] = "active"]
  /\ tab' = [t \in Tabs |-> IF tab[t].pc \in {"login", "callback"}
                            THEN [tab[t] EXCEPT !.due = @ \cup {u}] ELSE tab[t]]
  /\ UNCHANGED <<home, jar, flow>>

-----------------------------------------------------------------------------

SignIn(t) ==
  \/ \E next \in Pages : Authorize(t, next)
  \/ Answer(t)
  \/ \E n \in Nonces : Revisit(t, n)
  \/ Callback(t)
  \/ \E u \in Users : Login(t, u)
  \/ LoginCheck(t)
  \/ SignedIn(t)

Browse(t) == Logout(t) \/ Delete(t) \/ OpenPage(t)

Land(t) == LandRefused(t) \/ LandSignedIn(t) \/ LandSignedOut(t)

Environment ==
  \/ \E t \in Tabs : Lose(t)
  \/ \E b \in Browsers : SessionExpires(b) \/ SessionCookieExpires(b) \/ CsrfCookieExpires(b)
  \/ \E n \in Nonces : StateExpires(n)
  \/ \E u \in Users : Deactivate(u) \/ Reactivate(u)

Next == (\E t \in Tabs : SignIn(t) \/ Browse(t) \/ Land(t)) \/ Environment

Spec == Init /\ [][Next]_vars

-----------------------------------------------------------------------------

(* A sign-in with Google signs in the browser that asked for it, whatever  *)
(* callback URL is opened in which tab of which browser.                   *)
SignInAtHome ==
  \A t \in Tabs :
    tab[t].pc = "signed_in" /\ tab[t].flow # None => flow[tab[t].flow].browser = home[t]

(* The check of the csrf cookie turns a user away only where it has to:    *)
(* when the callback came to another browser than the one that asked, or   *)
(* when another answer of the handshake, in any tab, has replaced or       *)
(* deleted the one cookie there is.                                        *)
CsrfRefusalHasCause ==
  \A t \in Tabs :
    tab[t].pc = "refused" /\ tab[t].cause = "csrf" =>
      LET f == flow[tab[t].flow] IN f.browser # home[t] \/ f.touched

(* Whoever is turned away, or turns back at Google's page, is back on the  *)
(* form this very handshake was begun from, whatever other tabs have begun *)
(* since, or on /login when the page asked for is not one of the forms;    *)
(* only when the ten minutes of its state are over is everyone on /login.  *)
RefusalGoesBack ==
  \A t \in Tabs :
    tab[t].pc = "refused" =>
      LET f == flow[tab[t].flow] IN
      \/ tab[t].origin = (IF f.asked \in Forms THEN f.asked ELSE "/login")
      \/ tab[t].origin = "/login" /\ ~f.live

(* A deleted or deactivated account is out from the next request on: a     *)
(* sign-in, by password or Google, and a page are only ever for a user who *)
(* was active at some moment since that very request was sent, whatever    *)
(* cookies and handshakes are still about.  A request under way at the end *)
(* of the account may still sign in with the copy it had loaded.           *)
NoEntryAfterEnd ==
  \A t \in Tabs :
    tab[t].pc \in {"signed_in", "idle"} /\ tab[t].user # None => tab[t].user \in tab[t].due
=============================================================================
