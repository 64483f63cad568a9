---------------------------- MODULE SessionsProofs ----------------------------
(***************************************************************************)
(* The handshake with Google, for any number of browsers, tabs, users and  *)
(* csrf tokens: who is signed in is who asked, and a refusal has a cause   *)
(* and leads back.                                                         *)
(*                                                                         *)
(* The properties speak of the end of a handshake, the check that secures  *)
(* them compares two copies of a csrf token that were made earlier: the    *)
(* cookie a request carries and the state in its URL.  IInv says what each *)
(* copy is worth from the moment it is made: a browser only ever holds, and *)
(* sends, tokens of its own handshakes (CookieInv, TabInv), and it lacks   *)
(* the cookie of a live handshake only after another answer (FlowInv).     *)
(***************************************************************************)
EXTENDS Sessions, TLAPS

CookieInv == \A b \in Browsers : jar[b].csrf # None => flow[jar[b].csrf].browser = b

FlowInv ==
  \A n \in Nonces, b \in Browsers :
    flow[n].browser = b => jar[b].csrf = n \/ flow[n].touched \/ ~flow[n].live

GoesBack(q, f) ==
  \/ q.origin = (IF f.asked \in Forms THEN f.asked ELSE "/login")
  \/ q.origin = "/login" /\ ~f.live

TabInv(t) ==
  LET q == tab[t]
      f == flow[tab[t].flow] IN
  /\ q.pc = "idle" => q.flow = None
  /\ q.pc \in {"login", "admitted", "signed_in"} => q.user \in Users
  /\ q.pc = "login" => q.flow = None
  /\ q.pc \in {"login", "callback"} => Active \subseteq q.due
  /\ q.pc \in {"admitted", "signed_in", "idle"} /\ q.user # None => q.user \in q.due
  /\ q.pc \in {"consent", "callback", "refused"} => q.flow # None
  /\ q.sent # None /\ q.sent = q.flow => f.browser = home[t]
  /\ q.pc = "callback" /\ q.cause # "denied" =>
       q.sent = q.flow \/ f.browser # home[t] \/ f.touched \/ ~f.live
  /\ q.pc \in {"admitted", "signed_in"} /\ q.flow # None => f.browser = home[t]
  /\ q.pc = "refused" /\ q.cause = "csrf" => f.browser # home[t] \/ f.touched
  /\ q.pc = "refused" => GoesBack(q, f)

IInv == TypeOK /\ CookieInv /\ FlowInv /\ \A t \in Tabs : TabInv(t)

-----------------------------------------------------------------------------

USE SessionsAssumption

(* What may become of the state of a handshake that somebody still holds.  *)
Ages(n) ==
  /\ flow'[n].browser = flow[n].browser /\ flow'[n].asked = flow[n].asked
  /\ flow[n].touched => flow'[n].touched
  /\ flow'[n].live => flow[n].live

LEMMA HomeTyped ==
  ASSUME TypeOK, NEW t \in Tabs
  PROVE  home[t] \in Browsers
BY DEF TypeOK

LEMMA IdleTyped == \A u \in Users \cup {None} : Idle(u) \in Tab
BY DEF Idle, Tab, Steps, Causes, Forms, DefaultNext

LEMMA ActiveTyped == Active \subseteq Users
BY DEF Active

LEMMA ActiveSame == ASSUME UNCHANGED account PROVE Active' \subseteq Active
BY DEF Active

LEMMA UnusedTyped == Unused \in Flow
BY DEF Unused, Flow

LEMMA HostUserTyped ==
  ASSUME TypeOK, NEW b \in Browsers
  PROVE  HostUser(b) \in Users \cup {None}
BY DEF TypeOK, Jar, Session, HostUser

(* A tab at rest without a user promises nothing. *)
LEMMA IdleTab ==
  ASSUME NEW t \in Tabs, tab'[t] = Idle(None)
  PROVE  TabInv(t)'
BY DEF TabInv, Idle

(* A tab keeps its promises while its state ages and accounts end. *)
LEMMA SameTab ==
  ASSUME NEW t \in Tabs, TabInv(t), home' = home, tab'[t] = tab[t],
         Active' \subseteq Active, tab[t].flow # None => Ages(tab[t].flow)
  PROVE  TabInv(t)'
BY DEF TabInv, Ages, GoesBack

(* Forgetting what nobody holds leaves the rest as the step made it. *)
LEMMA FlowsFacts ==
  ASSUME NEW f \in [Nonces -> Flow], Flows(f)
  PROVE  /\ flow' \in [Nonces -> Flow]
         /\ \A n \in Nonces : Held(n)' => flow'[n] = f[n]
         /\ \A n \in Nonces : flow'[n] = f[n] \/ (flow'[n] = Unused /\ ~Held(n)')
BY UnusedTyped DEF Flows

(* Another answer touches the handshakes of its browser and ages no other. *)
LEMMA AnsweredFacts ==
  ASSUME NEW b \in Browsers, NEW f \in [Nonces -> Flow], NEW n, Answered(b, f, n)
  PROVE  /\ flow' \in [Nonces -> Flow]
         /\ \A m \in Nonces : m # n /\ f[m].browser = b /\ Held(m)' =>
              flow'[m] = [f[m] EXCEPT !.touched = TRUE]
         /\ \A m \in Nonces : ~(m # n /\ f[m].browser = b) /\ Held(m)' => flow'[m] = f[m]
         /\ \A m \in Nonces : ~Held(m)' => flow'[m] = Unused
<1> DEFINE g == [m \in Nonces |->
          IF m # n /\ f[m].browser = b THEN [f[m] EXCEPT !.touched = TRUE] ELSE f[m]]
<1>1. g \in [Nonces -> Flow]
  BY DEF Flow
<1>2. flow' = [m \in Nonces |-> IF Held(m)' THEN g[m] ELSE Unused]
  BY DEF Answered, Flows
<1> QED BY <1>1, <1>2, UnusedTyped

-----------------------------------------------------------------------------

LEMMA InitInv == Init => IInv
<1> SUFFICES ASSUME Init PROVE IInv
  OBVIOUS
<1>1. TypeOK
  BY IdleTyped, UnusedTyped DEF Init, TypeOK, Jar
<1>2. CookieInv /\ FlowInv
  BY DEF Init, CookieInv, FlowInv, Unused
<1>3. \A t \in Tabs : TabInv(t)
  BY DEF Init, TabInv, Idle
<1> QED BY <1>1, <1>2, <1>3 DEF IInv

(* The tabs that a step leaves alone keep their promises. *)
LEMMA OtherTabs ==
  ASSUME TypeOK, \A s \in Tabs : TabInv(s), home' = home, Active' \subseteq Active, NEW t,
         \A s \in Tabs : s # t => tab'[s] = tab[s],
         \A n \in Nonces : Held(n) /\ Held(n)' => Ages(n),
         t \in Tabs => TabInv(t)'
  PROVE  \A s \in Tabs : TabInv(s)'
<1> SUFFICES ASSUME NEW s \in Tabs, s # t PROVE TabInv(s)'
  OBVIOUS
<1>1. tab'[s] = tab[s] /\ tab[s].flow \in Nonces \cup {None}
  BY DEF TypeOK, Tab
<1>2. tab[s].flow # None => Held(tab[s].flow) /\ Held(tab[s].flow)'
  BY <1>1 DEF Held
<1>3. tab[s].flow # None => Ages(tab[s].flow)
  BY <1>1, <1>2
<1> QED BY <1>1, <1>3, SameTab

LEMMA AuthorizeInv ==
  ASSUME IInv, NEW t \in Tabs, NEW next \in Pages, Authorize(t, next)
  PROVE  IInv'
<1> DEFINE b == home[t]
<1>0. TypeOK /\ CookieInv /\ FlowInv /\ (\A s \in Tabs : TabInv(s)) /\ b \in Browsers
  BY HomeTyped DEF IInv
<1>1. PICK n \in Nonces :
        /\ ~Held(n)
        /\ tab' = [tab EXCEPT ![t] = [Idle(None) EXCEPT !.pc = "consent", !.flow = n]]
        /\ jar' = [jar EXCEPT ![b].csrf = n]
        /\ Answered(b, [flow EXCEPT ![n] = [asked |-> next, browser |-> b,
                          live |-> TRUE, code |-> "none", touched |-> FALSE]], n)
  BY DEF Authorize, SetCookie
<1> DEFINE g == [flow EXCEPT ![n] = [asked |-> next, browser |-> b,
                   live |-> TRUE, code |-> "none", touched |-> FALSE]]
<1>2. g \in [Nonces -> Flow]
  BY <1>0 DEF TypeOK, Flow
<1>3. /\ flow' \in [Nonces -> Flow]
      /\ \A m \in Nonces : m # n /\ g[m].browser = b /\ Held(m)' =>
           flow'[m] = [g[m] EXCEPT !.touched = TRUE]
      /\ \A m \in Nonces : ~(m # n /\ g[m].browser = b) /\ Held(m)' => flow'[m] = g[m]
      /\ \A m \in Nonces : ~Held(m)' => flow'[m] = Unused
  <2>1. Answered(b, g, n)
    BY <1>1
  <2> HIDE DEF g
  <2> QED BY <1>0, <1>2, <2>1, AnsweredFacts
<1>4. \A m \in Nonces : m # n => g[m] = flow[m]
  BY <1>0 DEF TypeOK
<1>5. g[n] = [asked |-> next, browser |-> b, live |-> TRUE, code |-> "none", touched |-> FALSE]
  BY <1>0 DEF TypeOK
<1>6. tab'[t] = [Idle(None) EXCEPT !.pc = "consent", !.flow = n] /\ tab'[t] \in Tab
  <2>1. tab'[t] = [Idle(None) EXCEPT !.pc = "consent", !.flow = n]
    BY <1>0, <1>1 DEF TypeOK
  <2>2. [Idle(None) EXCEPT !.pc = "consent", !.flow = n] \in Tab
    BY IdleTyped DEF Tab, Steps, Idle
  <2> QED BY <2>1, <2>2
<1>7. jar' \in [Browsers -> Jar] /\ jar'[b].csrf = n
      /\ \A c \in Browsers : c # b => jar'[c] = jar[c]
  BY <1>0, <1>1 DEF TypeOK, Jar
<1>8. Held(n)' /\ flow'[n] = g[n]
  BY <1>3, <1>6 DEF Idle, Held
<1>9. \A m \in Nonces : Held(m) /\ Held(m)' => Ages(m)
  <2> SUFFICES ASSUME NEW m \in Nonces, Held(m), Held(m)' PROVE Ages(m)
    OBVIOUS
  <2>1. m # n /\ g[m] = flow[m] /\ flow[m] \in Flow
    BY <1>0, <1>1, <1>4 DEF TypeOK
  <2> QED BY <1>3, <2>1 DEF Ages, Flow
<1>10. TypeOK'
  BY <1>0, <1>1, <1>3, <1>6, <1>7 DEF TypeOK, Authorize
<1>11. CookieInv'
  <2> SUFFICES ASSUME NEW c \in Browsers, jar'[c].csrf # None
               PROVE  flow'[jar'[c].csrf].browser = c
    BY DEF CookieInv
  <2>1. CASE c = b
    BY <2>1, <1>5, <1>7, <1>8
  <2>2. CASE c # b
    <3>1. jar'[c] = jar[c] /\ jar[c].csrf \in Nonces
      BY <2>2, <1>0, <1>7 DEF TypeOK, Jar
    <3>2. Held(jar[c].csrf) /\ Held(jar[c].csrf)'
      BY <3>1 DEF Held
    <3> QED BY <1>0, <1>9, <3>1, <3>2 DEF CookieInv, Ages
  <2> QED BY <2>1, <2>2
<1>12. FlowInv'
  <2> SUFFICES ASSUME NEW m \in Nonces, NEW c \in Browsers, flow'[m].browser = c,
                      flow'[m].live
               PROVE  jar'[c].csrf = m \/ flow'[m].touched
    BY DEF FlowInv
  <2>1. Held(m)'
    BY <1>3 DEF Unused
  <2>2. CASE m = n
    BY <2>2, <1>5, <1>7, <1>8
  <2>3. CASE m # n /\ g[m].browser = b
    BY <2>1, <2>3, <1>2, <1>3 DEF Flow
  <2>4. CASE m # n /\ g[m].browser # b
    <3>1. flow'[m] = flow[m]
      BY <2>1, <2>4, <1>3, <1>4
    <3> QED BY <1>0, <1>4, <1>7, <2>4, <3>1 DEF FlowInv
  <2> QED BY <2>2, <2>3, <2>4
<1>13. TabInv(t)'
  BY <1>6 DEF TabInv, Idle
<1>14. \A s \in Tabs : TabInv(s)'
  BY <1>0, <1>1, <1>9, <1>13, ActiveSame, OtherTabs DEF Authorize
<1> QED BY <1>10, <1>11, <1>12, <1>14 DEF IInv

(* A step of one tab that leaves the cookies alone, and the states except  *)
(* for their age.                                                          *)
LEMMA TabStep ==
  ASSUME IInv, NEW t \in Tabs, NEW q \in Tab, tab' = [tab EXCEPT ![t] = q],
         UNCHANGED <<home, jar>>,
         account' \in [Users -> {"active", "inactive", "deleted"}], Active' \subseteq Active,
         flow' \in [Nonces -> Flow], \A n \in Nonces : Ages(n),
         TabInv(t)'
  PROVE  IInv'
<1>1. TypeOK'
  BY DEF IInv, TypeOK
<1>2. CookieInv'
  <2>1. \A b \in Browsers : jar[b].csrf # None => jar[b].csrf \in Nonces
    BY DEF IInv, TypeOK, Jar
  <2> QED BY <2>1 DEF IInv, CookieInv, Ages
<1>3. FlowInv'
  BY DEF IInv, FlowInv, Ages, TypeOK, Flow
<1>4. \A s \in Tabs : s # t => tab'[s] = tab[s]
  BY DEF IInv, TypeOK
<1>5. \A s \in Tabs : TabInv(s)'
  BY <1>4, OtherTabs DEF IInv
<1> QED BY <1>1, <1>2, <1>3, <1>5 DEF IInv

LEMMA AgesSame ==
  ASSUME NEW n \in Nonces, flow'[n] = flow[n]
  PROVE  Ages(n)
BY DEF Ages

LEMMA AnswerInv ==
  ASSUME IInv, NEW t \in Tabs, Answer(t)
  PROVE  IInv'
<1> DEFINE n == tab[t].flow
           b == home[t]
<1>1. TypeOK /\ CookieInv /\ FlowInv /\ TabInv(t) /\ b \in Browsers
  BY HomeTyped DEF IInv
<1>2. tab[t] \in Tab /\ tab[t].pc = "consent" /\ n \in Nonces /\ flow[n] \in Flow
      /\ jar[b].csrf \in Nonces \cup {None}
  BY <1>1 DEF TypeOK, Tab, Jar, TabInv, Answer
<1>3. CASE /\ tab' = [tab EXCEPT ![t].pc = "callback", ![t].sent = jar[b].csrf,
                                 ![t].due = Active]
           /\ flow' = [flow EXCEPT ![n].code = "fresh"]
  <2> DEFINE q == [tab[t] EXCEPT !.pc = "callback", !.sent = jar[b].csrf, !.due = Active]
  <2>1. q \in Tab /\ tab' = [tab EXCEPT ![t] = q] /\ tab'[t] = q
    BY <1>1, <1>2, <1>3, ActiveTyped DEF TypeOK, Tab, Steps
  <2>2. flow' \in [Nonces -> Flow] /\ \A m \in Nonces : Ages(m)
    BY <1>1, <1>2, <1>3 DEF TypeOK, Flow, Ages
  <2>3. /\ q.sent # None /\ q.sent = n => flow[n].browser = b
        /\ q.sent = n \/ flow[n].browser # b \/ flow[n].touched \/ ~flow[n].live
    BY <1>1, <1>2 DEF CookieInv, FlowInv, Tab
  <2>4. q.pc = "callback" /\ q.flow = n /\ flow'[n].browser = flow[n].browser
        /\ flow'[n].touched = flow[n].touched /\ flow'[n].live = flow[n].live
    BY <1>1, <1>2, <1>3 DEF TypeOK, Flow, Tab
  <2>5. home' = home
    BY DEF Answer
  <2>6. TabInv(t)'
    <3>1. Active' \subseteq Active /\ q.due = Active
      BY <1>2, ActiveSame DEF Answer, Tab
    <3> HIDE DEF q
    <3> QED BY <1>2, <2>1, <2>3, <2>4, <2>5, <3>1 DEF TabInv
  <2> QED BY <1>1, <2>1, <2>2, <2>6, ActiveSame, TabStep DEF Answer, TypeOK
<1>4. CASE /\ tab' = [tab EXCEPT ![t].pc = "callback", ![t].cause = "denied",
                                 ![t].due = Active]
           /\ UNCHANGED flow
  <2> DEFINE q == [tab[t] EXCEPT !.pc = "callback", !.cause = "denied", !.due = Active]
  <2>1. q \in Tab /\ tab' = [tab EXCEPT ![t] = q] /\ tab'[t] = q
    BY <1>1, <1>2, <1>4, ActiveTyped DEF TypeOK, Tab, Steps, Causes
  <2>2. TabInv(t)'
    BY <1>1, <1>2, <1>4, <2>1, ActiveSame DEF TabInv, Tab, Answer
  <2> QED BY <1>1, <1>4, <2>1, <2>2, ActiveSame, AgesSame, TabStep DEF Answer, TypeOK
<1> QED BY <1>3, <1>4 DEF Answer

LEMMA RevisitInv ==
  ASSUME IInv, NEW t \in Tabs, NEW n \in Nonces, Revisit(t, n)
  PROVE  IInv'
<1> DEFINE b == home[t]
           q == [Idle(None) EXCEPT !.pc = "callback", !.flow = n, !.sent = jar[b].csrf,
                                   !.due = Active]
<1>1. TypeOK /\ CookieInv /\ FlowInv /\ b \in Browsers
  BY HomeTyped DEF IInv
<1>2. q \in Tab /\ tab' = [tab EXCEPT ![t] = q] /\ tab'[t] = q
  BY <1>1, IdleTyped, ActiveTyped DEF TypeOK, Tab, Steps, Jar, Idle, Revisit
<1>3. q.pc = "callback" /\ q.flow = n /\ q.sent = jar[b].csrf /\ q.due = Active
  BY DEF Idle
<1>4. /\ q.sent # None /\ q.sent = n => flow[n].browser = b
      /\ q.sent = n \/ flow[n].browser # b \/ flow[n].touched \/ ~flow[n].live
  BY <1>1, <1>3 DEF CookieInv, FlowInv
<1>5. TabInv(t)'
  <2>1. Active' \subseteq Active /\ UNCHANGED <<home, flow>>
    BY ActiveSame DEF Revisit
  <2> HIDE DEF q
  <2> QED BY <1>2, <1>3, <1>4, <2>1 DEF TabInv
<1> QED BY <1>1, <1>2, <1>5, ActiveSame, AgesSame, TabStep DEF Revisit, TypeOK

(* A refusal sends back to the form the state names, as far as it decodes. *)
LEMMA OriginFacts ==
  ASSUME TypeOK, NEW t \in Tabs, tab[t].flow \in Nonces
  PROVE  /\ Origin(t) \in Forms
         /\ flow[tab[t].flow].live =>
              Origin(t) = (IF flow[tab[t].flow].asked \in Forms
                           THEN flow[tab[t].flow].asked ELSE "/login")
         /\ ~flow[tab[t].flow].live => Origin(t) = "/login"
BY DEF Origin, SanitizedNext, DefaultNext, Forms

LEMMA RefuseInv ==
  ASSUME IInv, NEW t \in Tabs, tab[t].flow \in Nonces,
         NEW cause \in {"denied", "state", "csrf", "exchange", "account"}, Refuse(t, cause),
         UNCHANGED <<home, account, jar>>,
         flow' \in [Nonces -> Flow], \A m \in Nonces : Ages(m),
         cause = "csrf" => LET f == flow[tab[t].flow] IN f.browser # home[t] \/ f.touched
  PROVE  IInv'
<1> DEFINE n == tab[t].flow
           q == [tab[t] EXCEPT !.pc = "refused", !.cause = cause, !.origin = Origin(t),
                               !.sent = None, !.due = {}]
<1>1. TypeOK /\ tab[t] \in Tab /\ n \in Nonces
  BY DEF IInv, TypeOK
<1>2. q \in Tab /\ tab' = [tab EXCEPT ![t] = q] /\ tab'[t] = q
  BY <1>1, OriginFacts DEF TypeOK, Tab, Steps, Causes, Refuse
<1>3. q.pc = "refused" /\ q.flow = n /\ q.cause = cause /\ q.origin = Origin(t) /\ q.sent = None
  BY <1>1 DEF Tab
<1>4. GoesBack(q, flow'[n])
  <2>1. CASE flow[n].live
    BY <1>1, <1>3, <2>1, OriginFacts DEF GoesBack, Ages
  <2>2. CASE ~flow[n].live
    BY <1>1, <1>3, <2>2, OriginFacts DEF GoesBack, Ages
  <2> QED BY <2>1, <2>2
<1>5. cause = "csrf" => flow'[n].browser # home'[t] \/ flow'[n].touched
  BY <1>1 DEF Ages
<1>6. TabInv(t)'
  <2> HIDE DEF q
  <2> QED BY <1>1, <1>2, <1>3, <1>4, <1>5 DEF TabInv
<1> QED BY <1>1, <1>2, <1>6, ActiveSame, TabStep DEF TypeOK

(* A user is taken up who is active, by a request that may sign in here. *)
LEMMA AdmitInv ==
  ASSUME IInv, NEW t \in Tabs, NEW u \in Users, Admit(t, u), u \in tab[t].due,
         UNCHANGED <<home, account, jar>>,
         flow' \in [Nonces -> Flow], \A m \in Nonces : Ages(m),
         tab[t].flow # None =>
           tab[t].flow \in Nonces /\ flow[tab[t].flow].browser = home[t]
  PROVE  IInv'
<1> DEFINE q == [tab[t] EXCEPT !.pc = "admitted", !.user = u, !.sent = None]
<1>1. TypeOK /\ tab[t] \in Tab
  BY DEF IInv, TypeOK
<1>2. q \in Tab /\ tab' = [tab EXCEPT ![t] = q] /\ tab'[t] = q
  BY <1>1 DEF TypeOK, Tab, Steps, Admit
<1>3. q.pc = "admitted" /\ q.flow = tab[t].flow /\ q.sent = None /\ q.user = u
      /\ q.due = tab[t].due
  BY <1>1 DEF Tab
<1>4. q.flow # None => flow'[q.flow].browser = home'[t]
  BY <1>3 DEF Ages
<1>5. TabInv(t)'
  <2> HIDE DEF q
  <2> QED BY <1>2, <1>3, <1>4 DEF TabInv
<1> QED BY <1>1, <1>2, <1>5, ActiveSame, TabStep DEF TypeOK

LEMMA ReplyInv ==
  ASSUME IInv, NEW t \in Tabs, NEW u \in Users \cup {None},
         NEW status \in {"signed_in", "signed_out", "unauthorized"}, Reply(t, status, u),
         UNCHANGED <<home, jar>>,
         account' \in [Users -> {"active", "inactive", "deleted"}], Active' \subseteq Active,
         flow' \in [Nonces -> Flow], \A m \in Nonces : Ages(m),
         status = "signed_in" => tab[t].pc = "admitted" /\ tab[t].user = u
  PROVE  IInv'
<1> DEFINE q == [tab[t] EXCEPT !.pc = status, !.user = u, !.sent = None]
<1>1. TypeOK /\ tab[t] \in Tab /\ TabInv(t)
  BY DEF IInv, TypeOK
<1>2. q \in Tab /\ tab' = [tab EXCEPT ![t] = q] /\ tab'[t] = q
  BY <1>1 DEF TypeOK, Tab, Steps, Reply
<1>3. q.pc = status /\ q.flow = tab[t].flow /\ q.sent = None /\ q.user = u
      /\ q.due = tab[t].due
  BY <1>1 DEF Tab
<1>4. status = "signed_in" => u \in Users /\ u \in q.due
  BY <1>1, <1>3 DEF TabInv
<1>5. status = "signed_in" /\ q.flow # None => flow'[q.flow].browser = home'[t]
  BY <1>1, <1>3 DEF Ages, TabInv, Tab
<1>6. TabInv(t)'
  <2> HIDE DEF q
  <2> QED BY <1>2, <1>3, <1>4, <1>5 DEF TabInv
<1> QED BY <1>2, <1>6, TabStep

LEMMA CallbackInv ==
  ASSUME IInv, NEW t \in Tabs, Callback(t)
  PROVE  IInv'
<1> DEFINE n == tab[t].flow
           f == flow[n]
<1>1. TypeOK /\ TabInv(t) /\ tab[t].pc = "callback" /\ UNCHANGED <<home, account, jar>>
  BY DEF IInv, Callback
<1>2. tab[t] \in Tab /\ n \in Nonces /\ f \in Flow
  BY <1>1 DEF TypeOK, Tab, TabInv
<1>3. UNCHANGED flow => flow' \in [Nonces -> Flow] /\ \A m \in Nonces : Ages(m)
  BY <1>1 DEF TypeOK, Ages
<1>4. ASSUME NEW code \in {f.code, "spent"}, flow' = [flow EXCEPT ![n].code = code]
      PROVE  flow' \in [Nonces -> Flow] /\ \A m \in Nonces : Ages(m)
  BY <1>1, <1>2, <1>4 DEF TypeOK, Flow, Ages
<1>5. CASE tab[t].cause = "denied" /\ Refuse(t, "denied") /\ UNCHANGED flow
  BY <1>1, <1>2, <1>3, <1>5, RefuseInv
<1>6. CASE ~f.live /\ Refuse(t, "state") /\ UNCHANGED flow
  BY <1>1, <1>2, <1>3, <1>6, RefuseInv
<1>7. CASE /\ tab[t].cause # "denied" /\ f.live /\ ~CookieMatches(t)
           /\ Refuse(t, "csrf") /\ UNCHANGED flow
  <2>1. f.browser # home[t] \/ f.touched
    BY <1>1, <1>7 DEF TabInv, CookieMatches
  <2> QED BY <1>1, <1>2, <1>3, <1>7, <2>1, RefuseInv
<1>8. CASE /\ f.live /\ Refuse(t, "exchange")
           /\ \E code \in {f.code, "spent"} : flow' = [flow EXCEPT ![n].code = code]
  BY <1>1, <1>2, <1>4, <1>8, RefuseInv
<1>9. CASE f.live /\ Refuse(t, "account") /\ flow' = [flow EXCEPT ![n].code = "spent"]
  BY <1>1, <1>2, <1>4, <1>9, RefuseInv
<1>10. CASE /\ CookieMatches(t) /\ \E u \in Users : MaySignIn(u) /\ Admit(t, u)
            /\ flow' = [flow EXCEPT ![n].code = "spent"]
  <2>1. f.browser = home[t]
    BY <1>1, <1>2, <1>10 DEF TabInv, CookieMatches
  <2>2. \A u \in Users : MaySignIn(u) => u \in tab[t].due
    BY <1>1 DEF TabInv, MaySignIn, Active
  <2> QED BY <1>1, <1>2, <1>4, <1>10, <2>1, <2>2, AdmitInv
<1> QED BY <1>5, <1>6, <1>7, <1>8, <1>9, <1>10 DEF Callback

LEMMA BrowseInv ==
  ASSUME IInv, NEW t \in Tabs,
         (\E u \in Users : Login(t, u)) \/ LoginCheck(t) \/ SignedIn(t) \/ Browse(t)
  PROVE  IInv'
<1>1. TypeOK /\ tab[t] \in Tab /\ TabInv(t) /\ home[t] \in Browsers
  BY HomeTyped DEF IInv, TypeOK
<1>2. UNCHANGED flow => flow' \in [Nonces -> Flow] /\ \A m \in Nonces : Ages(m)
  BY <1>1 DEF TypeOK, Ages
<1>3. UNCHANGED account => account' \in [Users -> {"active", "inactive", "deleted"}]
  BY <1>1 DEF TypeOK
<1>4. ASSUME NEW u \in Users, Login(t, u) PROVE IInv'
  <2> DEFINE q == [Idle(None) EXCEPT !.pc = "login", !.user = u, !.due = Active]
  <2>1. q \in Tab /\ tab' = [tab EXCEPT ![t] = q] /\ tab'[t] = q
    BY <1>1, <1>4, IdleTyped, ActiveTyped DEF TypeOK, Tab, Steps, Idle, Login
  <2>2. UNCHANGED <<home, jar, flow, account>>
    BY <1>4 DEF Login
  <2>3. q.pc = "login" /\ q.user = u /\ q.flow = None /\ q.sent = None /\ q.due = Active
    BY DEF Idle
  <2>4. TabInv(t)'
    <3> HIDE DEF q
    <3> QED BY <2>1, <2>2, <2>3, ActiveSame DEF TabInv
  <2> QED BY <1>2, <1>3, <2>1, <2>2, <2>4, ActiveSame, TabStep
<1>5. CASE LoginCheck(t)
  <2>1. tab[t].pc = "login" /\ UNCHANGED <<home, account, jar, flow>>
    BY <1>5 DEF LoginCheck
  <2>2. CASE MaySignIn(tab[t].user) /\ Admit(t, tab[t].user)
    <3>1. tab[t].user \in Users /\ tab[t].flow = None /\ tab[t].user \in tab[t].due
      BY <1>1, <2>1, <2>2 DEF TabInv, MaySignIn, Active
    <3> QED BY <1>2, <2>1, <2>2, <3>1, AdmitInv
  <2>3. CASE tab' = [tab EXCEPT ![t] = Idle(None)]
    <3>1. Idle(None) \in Tab /\ tab'[t] = Idle(None)
      BY <1>1, <2>3, IdleTyped DEF TypeOK
    <3> QED BY <1>2, <1>3, <2>1, <2>3, <3>1, ActiveSame, IdleTab, TabStep
  <2> QED BY <1>5, <2>2, <2>3 DEF LoginCheck
<1>6. CASE SignedIn(t)
  <2>1. tab[t].pc = "admitted" /\ tab[t].user \in Users
    BY <1>1, <1>6 DEF SignedIn, TabInv
  <2> QED BY <1>2, <1>3, <1>6, <2>1, ActiveSame, ReplyInv DEF SignedIn
<1>7. CASE Logout(t)
  BY <1>2, <1>3, <1>7, ActiveSame, ReplyInv DEF Logout
<1>8. CASE Delete(t)
  <2>1. account' \in [Users -> {"active", "inactive", "deleted"}]
    BY <1>1, <1>8 DEF TypeOK, Delete
  <2>2. Active' \subseteq Active
    BY <1>1, <1>8 DEF TypeOK, Delete, Active
  <2> QED BY <1>2, <1>8, <2>1, <2>2, ReplyInv DEF Delete
<1>9. CASE OpenPage(t)
  <2> DEFINE u == HostUser(home[t])
             q == [Idle(u) EXCEPT !.due = IF u = None THEN {} ELSE Active]
  <2>1. u \in Users \cup {None} /\ (u # None => u \in Active)
    BY <1>1, HostUserTyped DEF HostUser, Active
  <2>2. q \in Tab
    <3> HIDE DEF u
    <3> QED BY <2>1, IdleTyped, ActiveTyped DEF Tab, Idle
  <2>3. q.pc = "idle" /\ q.flow = None /\ q.sent = None /\ q.user = u
        /\ (u # None => q.due = Active)
    BY DEF Idle
  <2>4. tab' = [tab EXCEPT ![t] = q] /\ tab'[t] = q
    BY <1>1, <1>9 DEF TypeOK, OpenPage
  <2>5. TabInv(t)'
    <3> HIDE DEF u, q
    <3> QED BY <2>1, <2>3, <2>4 DEF TabInv
  <2> QED BY <1>2, <1>3, <1>9, <2>2, <2>4, <2>5, ActiveSame, TabStep DEF OpenPage
<1> QED BY <1>4, <1>5, <1>6, <1>7, <1>8, <1>9 DEF Browse

(* An answer of the handshake lands: the browser's csrf cookie goes, and   *)
(* every handshake begun there is touched.                                 *)
LEMMA LandInv ==
  ASSUME IInv, NEW t \in Tabs, NEW auth \in Session \cup {None},
         tab' = [tab EXCEPT ![t] = Idle(None)],
         jar' = [jar EXCEPT ![home[t]] = [auth |-> auth, csrf |-> None]],
         Answered(home[t], flow, None), UNCHANGED <<home, account>>
  PROVE  IInv'
<1> DEFINE b == home[t]
<1>1. TypeOK /\ CookieInv /\ FlowInv /\ (\A s \in Tabs : TabInv(s)) /\ b \in Browsers
  BY HomeTyped DEF IInv
<1>2. /\ flow' \in [Nonces -> Flow]
      /\ \A m \in Nonces : m # None /\ flow[m].browser = b /\ Held(m)' =>
           flow'[m] = [flow[m] EXCEPT !.touched = TRUE]
      /\ \A m \in Nonces : ~(m # None /\ flow[m].browser = b) /\ Held(m)' => flow'[m] = flow[m]
      /\ \A m \in Nonces : ~Held(m)' => flow'[m] = Unused
  <2>1. flow \in [Nonces -> Flow]
    BY <1>1 DEF TypeOK
  <2> QED BY <1>1, <2>1, AnsweredFacts
<1>3. \A m \in Nonces : Held(m)' => Ages(m)
  BY <1>1, <1>2 DEF Ages, TypeOK, Flow
<1>4. tab'[t] = Idle(None) /\ Idle(None) \in Tab
  BY <1>1, IdleTyped DEF TypeOK
<1>5. /\ jar' \in [Browsers -> Jar] /\ jar'[b].csrf = None
      /\ \A c \in Browsers : c # b => jar'[c] = jar[c]
  BY <1>1 DEF TypeOK, Jar
<1>6. TypeOK'
  BY <1>1, <1>2, <1>4, <1>5 DEF TypeOK
<1>7. CookieInv'
  <2> SUFFICES ASSUME NEW c \in Browsers, jar'[c].csrf # None
               PROVE  flow'[jar'[c].csrf].browser = c
    BY DEF CookieInv
  <2>1. c # b /\ jar'[c] = jar[c] /\ jar[c].csrf \in Nonces
    BY <1>1, <1>5 DEF TypeOK, Jar
  <2>2. Held(jar[c].csrf)'
    BY <2>1 DEF Held
  <2> QED BY <1>1, <1>3, <2>1, <2>2 DEF CookieInv, Ages
<1>8. FlowInv'
  <2> SUFFICES ASSUME NEW m \in Nonces, NEW c \in Browsers, flow'[m].browser = c,
                      flow'[m].live
               PROVE  jar'[c].csrf = m \/ flow'[m].touched
    BY DEF FlowInv
  <2>1. Held(m)' /\ flow[m] \in Flow
    BY <1>1, <1>2 DEF Unused, TypeOK
  <2>2. CASE flow[m].browser = b
    BY <2>1, <2>2, <1>2 DEF Flow
  <2>3. CASE flow[m].browser # b
    BY <1>1, <1>2, <1>5, <2>1, <2>3 DEF FlowInv
  <2> QED BY <2>2, <2>3
<1>9. \A s \in Tabs : TabInv(s)'
  <2>1. \A s \in Tabs : s # t => tab'[s] = tab[s]
    BY <1>1 DEF TypeOK
  <2> QED BY <1>1, <1>3, <1>4, <2>1, ActiveSame, IdleTab, OtherTabs
<1> QED BY <1>6, <1>7, <1>8, <1>9 DEF IInv

(* The cookie of the session comes, goes or changes; tokens may be         *)
(* forgotten.                                                              *)
LEMMA AuthInv ==
  ASSUME IInv, jar' \in [Browsers -> Jar],
         \A b \in Browsers : jar'[b].csrf \in {jar[b].csrf, None},
         \A b \in Browsers : jar[b].csrf # None /\ jar'[b].csrf = None =>
           ~flow[jar[b].csrf].live,
         flow' \in [Nonces -> Flow],
         \A n \in Nonces : Held(n)' => Ages(n),
         \A n \in Nonces : ~Held(n)' => flow'[n] = Unused \/ flow'[n] = flow[n],
         home' = home, account' \in [Users -> {"active", "inactive", "deleted"}],
         Active' \subseteq Active, NEW t, tab' = tab \/ (t \in Tabs /\ tab' = [tab EXCEPT ![t] = Idle(None)])
  PROVE  IInv'
<1>1. TypeOK /\ CookieInv /\ FlowInv /\ (\A s \in Tabs : TabInv(s))
  BY DEF IInv
<1>2. tab' \in [Tabs -> Tab] /\ \A s \in Tabs : tab'[s] = tab[s] \/ tab'[s] = Idle(None)
  BY <1>1, IdleTyped DEF TypeOK
<1>3. TypeOK'
  BY <1>1, <1>2 DEF TypeOK
<1>4. CookieInv'
  <2> SUFFICES ASSUME NEW c \in Browsers, jar'[c].csrf # None
               PROVE  flow'[jar'[c].csrf].browser = c
    BY DEF CookieInv
  <2>1. jar'[c].csrf = jar[c].csrf /\ jar[c].csrf \in Nonces
    BY <1>1 DEF TypeOK, Jar
  <2>2. Held(jar[c].csrf)'
    BY <2>1 DEF Held
  <2> QED BY <1>1, <2>1, <2>2 DEF CookieInv, Ages
<1>5. FlowInv'
  <2> SUFFICES ASSUME NEW m \in Nonces, NEW c \in Browsers, flow'[m].browser = c,
                      flow'[m].live
               PROVE  jar'[c].csrf = m \/ flow'[m].touched
    BY DEF FlowInv
  <2>1. flow[m].browser = c /\ flow[m].live /\ (flow[m].touched => flow'[m].touched)
    BY DEF Ages, Unused
  <2>2. jar[c].csrf = m => jar'[c].csrf = m
    BY <1>1, <2>1 DEF TypeOK, Jar
  <2> QED BY <1>1, <2>1, <2>2 DEF FlowInv
<1>6. \A s \in Tabs : TabInv(s)'
  <2> SUFFICES ASSUME NEW s \in Tabs PROVE TabInv(s)'
    OBVIOUS
  <2>1. CASE tab'[s] = Idle(None)
    BY <2>1, IdleTab
  <2>2. CASE tab'[s] = tab[s]
    <3>1. tab[s].flow # None => Ages(tab[s].flow)
      <4> SUFFICES ASSUME tab[s].flow # None PROVE Ages(tab[s].flow)
        OBVIOUS
      <4>1. tab[s].flow \in Nonces
        BY <1>1 DEF TypeOK, Tab
      <4>2. Held(tab[s].flow)'
        BY <2>2 DEF Held
      <4> QED BY <2>2, <4>1, <4>2
    <3> QED BY <1>1, <2>2, <3>1, SameTab
  <2> QED BY <1>2, <2>1, <2>2
<1> QED BY <1>3, <1>4, <1>5, <1>6 DEF IInv

LEMMA LandsInv ==
  ASSUME IInv, NEW t \in Tabs, Land(t)
  PROVE  IInv'
<1> DEFINE b == home[t]
<1>1. TypeOK /\ tab[t] \in Tab /\ TabInv(t) /\ b \in Browsers /\ jar[b] \in Jar
  BY HomeTyped DEF IInv, TypeOK
<1>2. UNCHANGED <<flow, tab>> => flow' \in [Nonces -> Flow] /\ \A m \in Nonces : Ages(m)
  BY <1>1 DEF TypeOK, Ages
<1>3. UNCHANGED account => account' \in [Users -> {"active", "inactive", "deleted"}]
  BY <1>1 DEF TypeOK
<1>4. CASE LandRefused(t)
  <2>1. jar[b].auth \in Session \cup {None}
        /\ jar' = [jar EXCEPT ![b] = [auth |-> jar[b].auth, csrf |-> None]]
    <3>1. jar[b].auth \in Session \cup {None}
          /\ [jar[b] EXCEPT !.csrf = None] = [auth |-> jar[b].auth, csrf |-> None]
      BY <1>1 DEF Jar
    <3>2. jar' = [jar EXCEPT ![b] = [jar[b] EXCEPT !.csrf = None]]
      BY <1>4 DEF LandRefused
    <3> QED BY <3>1, <3>2
  <2> QED BY <1>4, <2>1, LandInv DEF LandRefused
<1>5. CASE LandSignedIn(t)
  <2> DEFINE a == [user |-> tab[t].user, live |-> TRUE]
  <2>1. tab[t].pc = "signed_in"
    BY <1>5 DEF LandSignedIn
  <2>2. a \in Session
    BY <1>1, <2>1 DEF Session, TabInv
  <2>3. CASE tab[t].flow = None
    <3>1. jar' = [jar EXCEPT ![b] = [auth |-> a, csrf |-> jar[b].csrf]]
          /\ tab' = [tab EXCEPT ![t] = Idle(None)] /\ UNCHANGED <<home, account, flow>>
      BY <1>1, <1>5, <2>3 DEF LandSignedIn, TypeOK
    <3>2. jar' \in [Browsers -> Jar] /\ \A c \in Browsers : jar'[c].csrf = jar[c].csrf
      BY <1>1, <2>2, <3>1 DEF TypeOK, Jar
    <3> QED BY <1>1, <1>3, <3>1, <3>2, ActiveSame, AuthInv DEF Ages, TypeOK
  <2>4. CASE tab[t].flow # None
    <3>1. jar' = [jar EXCEPT ![b] = [auth |-> a, csrf |-> None]]
          /\ tab' = [tab EXCEPT ![t] = Idle(None)] /\ UNCHANGED <<home, account>>
          /\ Answered(b, flow, None)
      BY <1>1, <1>5, <2>4 DEF LandSignedIn, TypeOK
    <3> QED BY <2>2, <3>1, LandInv
  <2> QED BY <2>3, <2>4
<1>6. CASE LandSignedOut(t)
  <2> DEFINE a == IF tab[t].pc = "signed_out" THEN None ELSE jar[b].auth
  <2>1. jar' = [jar EXCEPT ![b].auth = a]
        /\ tab' = [tab EXCEPT ![t] = Idle(None)] /\ UNCHANGED <<home, account, flow>>
    BY <1>1, <1>6 DEF LandSignedOut, TypeOK
  <2>2. jar' \in [Browsers -> Jar] /\ \A c \in Browsers : jar'[c].csrf = jar[c].csrf
    BY <1>1, <2>1 DEF TypeOK, Jar
  <2> QED BY <1>1, <1>3, <2>1, <2>2, ActiveSame, AuthInv DEF Ages, TypeOK
<1> QED BY <1>4, <1>5, <1>6 DEF Land

(* Requests that wait may from now on load a user who is active again. *)
LEMMA ReactivateInv ==
  ASSUME IInv, NEW u \in Users, Reactivate(u)
  PROVE  IInv'
<1> DEFINE waits(s) == tab[s].pc \in {"login", "callback"}
<1>1. TypeOK /\ tab \in [Tabs -> Tab] /\ UNCHANGED <<home, jar, flow>>
  BY DEF IInv, TypeOK, Reactivate
<1>2. \A s \in Tabs : tab'[s] = IF waits(s) THEN [tab[s] EXCEPT !.due = @ \cup {u}] ELSE tab[s]
  BY DEF Reactivate
<1>3. Active' \subseteq Active \cup {u}
  BY <1>1 DEF Reactivate, TypeOK, Active
<1>4. \A s \in Tabs : [tab[s] EXCEPT !.due = @ \cup {u}] \in Tab
  BY <1>1 DEF Tab
<1>5. tab' \in [Tabs -> Tab]
  BY <1>1, <1>4 DEF Reactivate
<1>6. account' \in [Users -> {"active", "inactive", "deleted"}]
  BY <1>1 DEF Reactivate, TypeOK
<1>7. TypeOK' /\ CookieInv' /\ FlowInv'
  BY <1>1, <1>5, <1>6 DEF IInv, TypeOK, CookieInv, FlowInv
<1>8. \A s \in Tabs : TabInv(s)'
  <2> SUFFICES ASSUME NEW s \in Tabs PROVE TabInv(s)'
    OBVIOUS
  <2>1. TabInv(s) /\ tab[s] \in Tab
    BY <1>1 DEF IInv
  <2>2. CASE waits(s)
    <3> DEFINE q == [tab[s] EXCEPT !.due = @ \cup {u}]
    <3>1. /\ q.pc = tab[s].pc /\ q.flow = tab[s].flow /\ q.sent = tab[s].sent
          /\ q.user = tab[s].user /\ q.cause = tab[s].cause
          /\ q.due = tab[s].due \cup {u}
      BY <2>1 DEF Tab
    <3>2. tab'[s] = q
      BY <1>2, <2>2
    <3>3. Active' \subseteq q.due
      BY <1>3, <2>1, <2>2, <3>1 DEF TabInv
    <3> HIDE DEF q
    <3> QED BY <1>1, <2>1, <2>2, <3>1, <3>2, <3>3 DEF TabInv
  <2>3. CASE ~waits(s)
    BY <1>1, <1>2, <2>1, <2>3 DEF TabInv, GoesBack
  <2> QED BY <2>2, <2>3
<1> QED BY <1>7, <1>8 DEF IInv

LEMMA EnvironmentInv ==
  ASSUME IInv, Environment
  PROVE  IInv'
<1>1. TypeOK /\ flow \in [Nonces -> Flow] /\ jar \in [Browsers -> Jar]
  BY DEF IInv, TypeOK
<1>2. ASSUME Flows(flow)
      PROVE  /\ flow' \in [Nonces -> Flow]
             /\ \A n \in Nonces : Held(n)' => Ages(n)
             /\ \A n \in Nonces : ~Held(n)' => flow'[n] = Unused \/ flow'[n] = flow[n]
  BY <1>1, <1>2, FlowsFacts DEF Ages
<1>3. ASSUME UNCHANGED flow
      PROVE  /\ flow' \in [Nonces -> Flow]
             /\ \A n \in Nonces : Held(n)' => Ages(n)
             /\ \A n \in Nonces : ~Held(n)' => flow'[n] = Unused \/ flow'[n] = flow[n]
  BY <1>1, <1>3 DEF Ages
<1>4. UNCHANGED account => account' \in [Users -> {"active", "inactive", "deleted"}]
  BY <1>1 DEF TypeOK
<1>5. ASSUME NEW t \in Tabs, Lose(t) PROVE IInv'
  BY <1>1, <1>2, <1>4, <1>5, ActiveSame, AuthInv DEF Lose
<1>6. ASSUME NEW b \in Browsers, SessionExpires(b) PROVE IInv'
  <2>1. jar' \in [Browsers -> Jar] /\ \A c \in Browsers : jar'[c].csrf = jar[c].csrf
    BY <1>1, <1>6 DEF SessionExpires, Jar, Session
  <2> QED BY <1>3, <1>4, <1>6, <2>1, ActiveSame, AuthInv DEF SessionExpires
<1>7. ASSUME NEW b \in Browsers, SessionCookieExpires(b) PROVE IInv'
  <2>1. jar' \in [Browsers -> Jar] /\ \A c \in Browsers : jar'[c].csrf = jar[c].csrf
    BY <1>1, <1>7 DEF SessionCookieExpires, Jar
  <2> QED BY <1>3, <1>4, <1>7, <2>1, ActiveSame, AuthInv DEF SessionCookieExpires
<1>8. ASSUME NEW b \in Browsers, CsrfCookieExpires(b) PROVE IInv'
  <2>1. /\ jar' \in [Browsers -> Jar] /\ jar'[b].csrf = None /\ ~flow[jar[b].csrf].live
        /\ \A c \in Browsers : c # b => jar'[c].csrf = jar[c].csrf
    BY <1>1, <1>8 DEF CsrfCookieExpires, Jar
  <2> QED BY <1>2, <1>4, <1>8, <2>1, ActiveSame, AuthInv DEF CsrfCookieExpires
<1>9. ASSUME NEW n \in Nonces, StateExpires(n) PROVE IInv'
  <2>1. flow' = [flow EXCEPT ![n].live = FALSE] /\ UNCHANGED <<home, account, jar, tab>>
    BY <1>9 DEF StateExpires
  <2>2. flow' \in [Nonces -> Flow] /\ \A m \in Nonces : Ages(m)
    <3>1. flow[n] \in Flow /\ [flow[n] EXCEPT !.live = FALSE] \in Flow
      BY <1>1 DEF Flow
    <3>2. flow' = [flow EXCEPT ![n] = [flow[n] EXCEPT !.live = FALSE]]
      BY <2>1
    <3>3. flow'[n] = [flow[n] EXCEPT !.live = FALSE] /\ \A m \in Nonces \ {n} : flow'[m] = flow[m]
      BY <1>1, <3>2
    <3>4. Ages(n)
      BY <3>1, <3>3 DEF Ages, Flow
    <3> QED BY <1>1, <3>1, <3>2, <3>3, <3>4 DEF Ages
  <2>3. TypeOK' /\ CookieInv'
    BY <1>1, <2>1, <2>2 DEF IInv, TypeOK, CookieInv, Ages, Jar
  <2>4. FlowInv'
    BY <2>1, <2>2 DEF IInv, FlowInv, Ages
  <2>5. \A t \in Tabs : TabInv(t)'
    BY <1>1, <2>1, <2>2, ActiveSame, SameTab DEF IInv, TypeOK, Tab
  <2> QED BY <2>3, <2>4, <2>5 DEF IInv
<1>10. ASSUME NEW u \in Users, Deactivate(u) PROVE IInv'
  <2>1. account' \in [Users -> {"active", "inactive", "deleted"}]
    BY <1>1, <1>10 DEF Deactivate, TypeOK
  <2>2. Active' \subseteq Active
    BY <1>1, <1>10 DEF Deactivate, TypeOK, Active
  <2> QED BY <1>1, <1>3, <1>10, <2>1, <2>2, AuthInv DEF Deactivate
<1>11. ASSUME NEW u \in Users, Reactivate(u) PROVE IInv'
  BY <1>11, ReactivateInv
<1> QED BY <1>5, <1>6, <1>7, <1>8, <1>9, <1>10, <1>11 DEF Environment

LEMMA NextInv == IInv /\ [Next]_vars => IInv'
<1> SUFFICES ASSUME IInv, [Next]_vars PROVE IInv'
  OBVIOUS
<1>1. CASE UNCHANGED vars
  BY <1>1 DEF vars, IInv, TypeOK, CookieInv, FlowInv, TabInv, Active, GoesBack
<1>2. ASSUME NEW t \in Tabs, SignIn(t) PROVE IInv'
  BY <1>2, AuthorizeInv, AnswerInv, RevisitInv, CallbackInv, BrowseInv DEF SignIn
<1>3. ASSUME NEW t \in Tabs, Browse(t) PROVE IInv'
  BY <1>3, BrowseInv
<1>4. ASSUME NEW t \in Tabs, Land(t) PROVE IInv'
  BY <1>4, LandsInv
<1>5. CASE Environment
  BY <1>5, EnvironmentInv
<1> QED BY <1>1, <1>2, <1>3, <1>4, <1>5 DEF Next

LEMMA Invariant == Spec => []IInv
<1> QED BY InitInv, NextInv, PTL DEF Spec

-----------------------------------------------------------------------------

(* Cookies, states and tabs are well formed in every run. *)
THEOREM TypeCorrect == Spec => []TypeOK
<1>1. IInv => TypeOK
  BY DEF IInv
<1> QED BY <1>1, Invariant, PTL

(* No callback URL, wherever it is opened, signs in another browser than   *)
(* the one whose tab asked Google.                                         *)
THEOREM OnlyWhoAsked == Spec => []SignInAtHome
<1>1. IInv => SignInAtHome
  BY DEF IInv, SignInAtHome, TabInv
<1> QED BY <1>1, Invariant, PTL

(* The check of the csrf cookie refuses nobody without one of the two      *)
(* causes it is there for or cannot avoid.                                 *)
THEOREM RefusedWithCause == Spec => []CsrfRefusalHasCause
<1>1. IInv => CsrfRefusalHasCause
  BY DEF IInv, CsrfRefusalHasCause, TabInv
<1> QED BY <1>1, Invariant, PTL

(* Every refusal leads back to where its own handshake began, unless the   *)
(* ten minutes of its state are over: whoever turns back at Google's page  *)
(* is on the form, too.                                                    *)
THEOREM RefusedAndBack == Spec => []RefusalGoesBack
<1>1. IInv => RefusalGoesBack
  BY DEF IInv, RefusalGoesBack, TabInv, GoesBack
<1> QED BY <1>1, Invariant, PTL

(* Nobody is signed in, and no page shown, as a user who was not active at *)
(* any moment of the very request, whatever else is under way.             *)
THEOREM EndedStaysOut == Spec => []NoEntryAfterEnd
<1>1. IInv => NoEntryAfterEnd
  BY DEF IInv, NoEntryAfterEnd, TabInv
<1> QED BY <1>1, Invariant, PTL
=============================================================================
