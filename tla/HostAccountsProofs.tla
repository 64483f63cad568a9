------------------------- MODULE HostAccountsProofs -------------------------
(***************************************************************************)
(* The account directory keeps its tables consistent; HostAccounts         *)
(* implements the directory, for any number of requests, addresses, users  *)
(* and Google accounts, and what its handlers answer is true.              *)
(*                                                                         *)
(* The tables' invariants are not inductive over the handlers' steps: what *)
(* a step writes depends on what its request read some awaits ago.  HeldInv *)
(* says how far that memory can have aged: a key once used stays used, an  *)
(* assertion of Google's stays made, a link goes only with its user, and a *)
(* row is never verified when the copy a PATCH loaded was not.             *)
(***************************************************************************)
EXTENDS HostAccounts, TLAPS

TablesInv == TablesTypeOK /\ UniqueEmail /\ NoOrphanLink /\ VerifiedIsVouched

(* What a request holds in memory, against the tables as they are now. *)
Held(q) ==
  /\ q.pc = "register_insert" => q.email \in Emails
  /\ q.pc \in {"patch_check", "patch_write"} =>
       /\ q.user \in UserIds /\ q.email \in Emails /\ q.snap \in Row
       /\ users[q.user] # Fresh
       /\ Live(q.user) /\ users[q.user].verified => q.snap.verified
  /\ q.pc = "delete_write" => q.user \in UserIds /\ users[q.user] # Fresh
  /\ q.pc \in {"google_email", "google_create", "google_link", "google_touch"} =>
       /\ q.email \in Emails /\ q.google \in GoogleIds
       /\ q.email \in AddressOf[q.google] /\ <<q.google, q.email>> \in vouched
  /\ q.pc \in {"google_link", "google_touch"} => q.user \in UserIds /\ users[q.user] # Fresh
  /\ q.pc = "google_touch" =>
       q.snap \in Row /\ (Live(q.user) => <<q.user, q.google>> \in links)

HeldInv == \A r \in Requests : Held(req[r])

ReplyInv == RefusalNamesHolder /\ SuccessIsStored /\ ServerErrorHasCause

IInv == TypeOK /\ TablesInv /\ HeldInv /\ ReplyInv

-----------------------------------------------------------------------------

USE TablesAssumption

(* The account directory, for every set of addresses, keys and Google      *)
(* accounts: its invariant is inductive as it stands.                      *)

(* The empty tables satisfy every invariant. *)
LEMMA DirInit == Dir!Init => TablesInv
BY DEF Dir!Init, TablesInv, TablesTypeOK, UniqueEmail, NoOrphanLink,
       VerifiedIsVouched, Live

(* A row in the table is a record; a live key is one that holds a row. *)
LEMMA LiveIsRow ==
  ASSUME TablesTypeOK, NEW u \in UserIds, Live(u)
  PROVE  users[u] \in Row
BY DEF TablesTypeOK, Live

LEMMA DirVouch ==
  ASSUME TablesInv, NEW g \in GoogleIds, NEW e \in Emails, Dir!Vouch(g, e)
  PROVE  TablesInv'
BY DEF Dir!Vouch, TablesInv, TablesTypeOK, UniqueEmail, NoOrphanLink,
       VerifiedIsVouched, Live

LEMMA DirEnrol ==
  ASSUME TablesInv, NEW u \in UserIds, NEW e \in Emails, NEW v \in BOOLEAN,
         Dir!Enrol(u, e, v)
  PROVE  TablesInv'
<1> DEFINE row == [email |-> e, verified |-> v, active |-> TRUE]
<1>1. /\ row \in Row /\ row.email = e /\ row.verified = v
      /\ users[u] = Fresh
      /\ users' = [users EXCEPT ![u] = row]
      /\ links' = links /\ vouched' = vouched
  BY DEF Dir!Enrol, Row, Dir!Live
<1>2. TablesTypeOK'
  BY <1>1 DEF TablesInv, TablesTypeOK
<1>3. \A w \in UserIds : w # u => users'[w] = users[w]
  BY <1>1 DEF TablesInv, TablesTypeOK
<1>4. users'[u] = row
  BY <1>1 DEF TablesInv, TablesTypeOK
<1>5. UniqueEmail'
  BY <1>1, <1>3, <1>4 DEF TablesInv, UniqueEmail, Live, Dir!Enrol, Holders, Dir!Holders,
     Dir!Live
<1>6. NoOrphanLink'
  BY <1>1, <1>3 DEF TablesInv, TablesTypeOK, NoOrphanLink, Live
<1>7. VerifiedIsVouched'
  BY <1>1, <1>3, <1>4 DEF TablesInv, VerifiedIsVouched, Live, Dir!Enrol, Dir!Live
<1> QED BY <1>2, <1>5, <1>6, <1>7 DEF TablesInv

LEMMA DirRename ==
  ASSUME TablesInv, NEW u \in UserIds, NEW e \in Emails, Dir!Rename(u, e)
  PROVE  TablesInv'
<1> DEFINE row == [users[u] EXCEPT !.email = e, !.verified = FALSE]
<1>1. users[u] \in Row /\ users[u] # Fresh /\ users[u] # Gone
  BY LiveIsRow DEF TablesInv, Dir!Rename, Live, Dir!Live
<1>2. row \in Row /\ row.email = e /\ row.verified = FALSE
  BY <1>1 DEF Row
<1>3. /\ users' = [users EXCEPT ![u] = row]
      /\ links' = links /\ vouched' = vouched
  BY DEF Dir!Rename, Dir!Live
<1>4. TablesTypeOK'
  BY <1>2, <1>3 DEF TablesInv, TablesTypeOK
<1>5. /\ \A w \in UserIds : w # u => users'[w] = users[w]
      /\ users'[u] = row
  BY <1>3 DEF TablesInv, TablesTypeOK
<1> HIDE DEF row
<1>6. UniqueEmail'
  <2>1. \A w \in UserIds : Live(w) /\ w # u => Lower[users[w].email] # Lower[e]
    BY DEF Dir!Rename, Holders, Dir!Holders, Live, Dir!Live
  <2>2. \A w \in UserIds : Live(w)' /\ w # u => Lower[users'[w].email] # Lower[e]
    BY <2>1, <1>5 DEF Live
  <2> QED BY <2>2, <1>2, <1>5 DEF TablesInv, UniqueEmail, Live
<1>7. NoOrphanLink'
  BY <1>2, <1>3, <1>5 DEF TablesInv, TablesTypeOK, NoOrphanLink, Live
<1>8. VerifiedIsVouched'
  BY <1>2, <1>3, <1>5 DEF TablesInv, VerifiedIsVouched, Live
<1> QED BY <1>4, <1>6, <1>7, <1>8 DEF TablesInv

LEMMA DirRemove ==
  ASSUME TablesInv, NEW u \in UserIds, Dir!Remove(u)
  PROVE  TablesInv'
<1>1. /\ users' = [users EXCEPT ![u] = Gone]
      /\ links' = {l \in links : l[1] # u}
      /\ vouched' = vouched
  BY DEF Dir!Remove, Dir!Live
<1>2. TablesTypeOK'
  BY <1>1 DEF TablesInv, TablesTypeOK
<1>3. /\ \A w \in UserIds : w # u => users'[w] = users[w]
      /\ users'[u] = Gone
  BY <1>1 DEF TablesInv, TablesTypeOK
<1>4. UniqueEmail'
  BY <1>3 DEF TablesInv, UniqueEmail, Live
<1>5. NoOrphanLink'
  BY <1>1, <1>3 DEF TablesInv, TablesTypeOK, NoOrphanLink, Live
<1>6. VerifiedIsVouched'
  BY <1>1, <1>3 DEF TablesInv, VerifiedIsVouched, Live
<1> QED BY <1>2, <1>4, <1>5, <1>6 DEF TablesInv

LEMMA DirLink ==
  ASSUME TablesInv, NEW u \in UserIds, NEW g \in GoogleIds, Dir!Link(u, g)
  PROVE  TablesInv'
<1>1. /\ links' = links \cup {<<u, g>>} /\ Live(u)
      /\ users' = users /\ vouched' = vouched
  BY DEF Dir!Link, Dir!Live, Live
<1>2. TablesTypeOK'
  BY <1>1 DEF TablesInv, TablesTypeOK
<1>3. UniqueEmail'
  BY <1>1 DEF TablesInv, UniqueEmail, Live
<1>4. VerifiedIsVouched'
  BY <1>1 DEF TablesInv, VerifiedIsVouched, Live
<1>5. NoOrphanLink'
  BY <1>1 DEF TablesInv, NoOrphanLink, Live
<1> QED BY <1>2, <1>3, <1>4, <1>5 DEF TablesInv

LEMMA DirSetActive ==
  ASSUME TablesInv, NEW u \in UserIds, NEW b \in BOOLEAN, Dir!SetActive(u, b)
  PROVE  TablesInv'
<1> DEFINE row == [users[u] EXCEPT !.active = b]
<1>1. users[u] \in Row
  BY LiveIsRow DEF TablesInv, Dir!SetActive, Dir!Live, Live
<1>2. row \in Row /\ row.email = users[u].email /\ row.verified = users[u].verified
  BY <1>1 DEF Row
<1>3. /\ users' = [users EXCEPT ![u] = row]
      /\ links' = links /\ vouched' = vouched /\ Live(u)
  BY DEF Dir!SetActive, Dir!Live, Live
<1>4. TablesTypeOK'
  BY <1>2, <1>3 DEF TablesInv, TablesTypeOK
<1>5. /\ \A w \in UserIds : w # u => users'[w] = users[w]
      /\ users'[u] = row
  BY <1>3 DEF TablesInv, TablesTypeOK
<1> HIDE DEF row
<1>6. UniqueEmail'
  BY <1>2, <1>3, <1>5 DEF TablesInv, UniqueEmail, Live
<1>7. NoOrphanLink'
  BY <1>2, <1>3, <1>5 DEF TablesInv, TablesTypeOK, NoOrphanLink, Live
<1>8. VerifiedIsVouched'
  BY <1>2, <1>3, <1>5 DEF TablesInv, VerifiedIsVouched, Live
<1> QED BY <1>4, <1>6, <1>7, <1>8 DEF TablesInv

(* Every change the directory allows keeps the tables consistent. *)
LEMMA DirStep == TablesInv /\ [Dir!Next]_(Dir!dirVars) => TablesInv'
<1>1. ASSUME TablesInv, Dir!Next PROVE TablesInv'
  BY <1>1, DirVouch, DirEnrol, DirRename, DirRemove, DirLink, DirSetActive DEF Dir!Next
<1>2. ASSUME TablesInv, UNCHANGED Dir!dirVars PROVE TablesInv'
  BY <1>2 DEF Dir!dirVars, TablesInv, TablesTypeOK, UniqueEmail, NoOrphanLink,
              VerifiedIsVouched, Live
<1> QED BY <1>1, <1>2

(* What a request may rely on however much later it writes: a key once     *)
(* used is never reused, an assertion of Google's is never forgotten, no   *)
(* account becomes verified after it was created, and a link goes only     *)
(* with its account.                                                       *)
LEMMA DirMonotone ==
  ASSUME TablesTypeOK, [Dir!Next]_(Dir!dirVars), NEW u \in UserIds, users[u] # Fresh
  PROVE  /\ users'[u] # Fresh
         /\ Live(u)' /\ users'[u].verified => Live(u) /\ users[u].verified
         /\ Live(u)' => Live(u)
         /\ Live(u)' => \A g \in GoogleIds : <<u, g>> \in links => <<u, g>> \in links'
         /\ vouched \subseteq vouched'
<1> DEFINE Goal ==
      /\ users'[u] # Fresh
      /\ Live(u)' /\ users'[u].verified => Live(u) /\ users[u].verified
      /\ Live(u)' => Live(u)
      /\ Live(u)' => \A g \in GoogleIds : <<u, g>> \in links => <<u, g>> \in links'
      /\ vouched \subseteq vouched'
<1>1. ASSUME UNCHANGED Dir!dirVars PROVE Goal
  BY <1>1 DEF Dir!dirVars, Live
<1>2. ASSUME NEW g \in GoogleIds, NEW e \in Emails, Dir!Vouch(g, e)
      PROVE  Goal
  BY <1>2 DEF Dir!Vouch, Live
<1>3. ASSUME NEW w \in UserIds, NEW e \in Emails, NEW v \in BOOLEAN, Dir!Enrol(w, e, v)
      PROVE  Goal
  <2>1. users'[u] = users[u] /\ vouched' = vouched /\ links' = links
    BY <1>3 DEF Dir!Enrol, TablesTypeOK, Dir!Live
  <2> QED BY <2>1 DEF Live
<1>4. ASSUME NEW w \in UserIds, NEW e \in Emails, Dir!Rename(w, e)
      PROVE  Goal
  <2> DEFINE row == [users[w] EXCEPT !.email = e, !.verified = FALSE]
  <2>1. users[w] \in Row
    BY <1>4, LiveIsRow DEF Dir!Rename, Dir!Live, Live
  <2>2. row \in Row /\ row.verified = FALSE
    BY <2>1 DEF Row
  <2>3. /\ vouched' = vouched /\ links' = links
        /\ users'[u] = IF u = w THEN row ELSE users[u]
    BY <1>4 DEF Dir!Rename, TablesTypeOK
  <2>4. Live(w)
    BY <1>4 DEF Dir!Rename, Dir!Live, Live
  <2> HIDE DEF row
  <2> QED BY <2>2, <2>3, <2>4 DEF Live
<1>5. ASSUME NEW w \in UserIds, Dir!Remove(w)
      PROVE  Goal
  <2>1. /\ vouched' = vouched /\ links' = {l \in links : l[1] # w}
        /\ users'[u] = IF u = w THEN Gone ELSE users[u]
    BY <1>5 DEF Dir!Remove, TablesTypeOK, Dir!Live
  <2> QED BY <2>1 DEF Live
<1>6. ASSUME NEW w \in UserIds, NEW g \in GoogleIds, Dir!Link(w, g)
      PROVE  Goal
  BY <1>6 DEF Dir!Link, Live, Dir!Live
<1>7. ASSUME NEW w \in UserIds, NEW b \in BOOLEAN, Dir!SetActive(w, b)
      PROVE  Goal
  <2> DEFINE row == [users[w] EXCEPT !.active = b]
  <2>1. users[w] \in Row
    BY <1>7, LiveIsRow DEF Dir!SetActive, Dir!Live, Live
  <2>2. row \in Row /\ row.verified = users[w].verified
    BY <2>1 DEF Row
  <2>3. /\ Live(w) /\ vouched' = vouched /\ links' = links
        /\ users'[u] = IF u = w THEN row ELSE users[u]
    BY <1>7 DEF Dir!SetActive, TablesTypeOK, Dir!Live, Live
  <2> QED BY <2>2, <2>3 DEF Live
<1> HIDE DEF Goal
<1>8. ASSUME Dir!Next PROVE Goal
  BY <1>8, <1>2, <1>3, <1>4, <1>5, <1>6, <1>7 DEF Dir!Next
<1>9. Goal
  BY <1>1, <1>8
<1> QED BY <1>9 DEF Goal

-----------------------------------------------------------------------------

USE HostAssumption

(* What every step of request r amounts to: a change the directory allows, *)
(* a well-formed response that is true of the new tables, and a memory     *)
(* that agrees with them.                                                  *)
Moves(r) == \E q \in Request : req' = [req EXCEPT ![r] = q] /\ Held(q)'

Answers(r) == reply' \in Response /\ ReplyInv' /\ Moves(r)

StepOf(r) == [Dir!Next]_(Dir!dirVars) /\ Answers(r)

(* What has to hold of the tables for a handler to say s of u, e and g. *)
Sayable(s, u, e, g) ==
  /\ s = "exists" => Holders(e) # {}
  /\ s = "created" => Live(u) /\ users[u].email = e
  /\ s = "updated" => Live(u)
  /\ s = "signed_in" => <<u, g>> \in links
  /\ s = "server_error" =>
       \/ u # None /\ users[u] = Gone
       \/ g # None /\ Ambiguous(g)

LEMMA SilenceTyped ==
  /\ Silence \in Response
  /\ reply = Silence => ReplyInv
  /\ reply' = Silence => ReplyInv'
BY DEF Silence, Response, ReplyInv, RefusalNamesHolder, SuccessIsStored, ServerErrorHasCause

LEMMA IdleHeld == Idle \in Request /\ Held(Idle)'
BY DEF Idle, Request, Held, Waits

LEMMA RespondTyped ==
  ASSUME NEW r \in Requests, NEW s \in Statuses, NEW u \in UserIds \cup {None},
         NEW e \in Emails \cup {None}, NEW g \in GoogleIds \cup {None},
         Respond(r, s, u, e, g), Sayable(s, u, e, g)'
  PROVE  Answers(r)
<1>1. reply' \in Response
  BY DEF Respond, Response
<1>2. Moves(r)
  BY IdleHeld DEF Respond, Moves
<1>3. ReplyInv'
  BY DEF Respond, Sayable, ReplyInv, RefusalNamesHolder, SuccessIsStored,
         ServerErrorHasCause, Holders, Live, Ambiguous, Owners
<1> QED BY <1>1, <1>2, <1>3 DEF Answers

(* A handler that turns a request away says nothing about the tables. *)
LEMMA RespondPlain ==
  ASSUME NEW r \in Requests,
         NEW s \in {"deleted", "bad_password", "unhashable", "unauthorized", "auth_failed"},
         NEW u \in UserIds \cup {None}, NEW e \in Emails \cup {None},
         NEW g \in GoogleIds \cup {None}, Respond(r, s, u, e, g)
  PROVE  Answers(r)
<1>1. Sayable(s, u, e, g)'
  BY DEF Sayable
<1> QED BY <1>1, RespondTyped DEF Statuses

LEMMA AwaitTyped ==
  ASSUME NEW r \in Requests, NEW pc \in Waits, NEW u \in UserIds \cup {None},
         NEW e \in Emails \cup {None}, NEW g \in GoogleIds \cup {None},
         NEW row \in Row \cup {None}, Await(r, pc, u, e, g, row),
         Held([pc |-> pc, user |-> u, email |-> e, google |-> g, snap |-> row])'
  PROVE  Answers(r)
<1>1. reply' \in Response /\ ReplyInv'
  BY SilenceTyped DEF Await
<1>2. [pc |-> pc, user |-> u, email |-> e, google |-> g, snap |-> row] \in Request
  BY DEF Request
<1>3. Moves(r)
  BY <1>2 DEF Await, Moves
<1> QED BY <1>1, <1>3 DEF Answers

(* A step that leaves the tables alone is a stutter of the directory. *)
LEMMA TablesKept == UNCHANGED Tables => [Dir!Next]_(Dir!dirVars)
BY DEF Tables, Dir!dirVars

LEMMA TablesKeptStep ==
  ASSUME NEW r \in Requests, UNCHANGED Tables, Answers(r)
  PROVE  StepOf(r)
BY TablesKept DEF StepOf

(* "already exists", said of an address that has a holder. *)
LEMMA ExistsAnswer ==
  ASSUME NEW r \in Requests, NEW u \in UserIds \cup {None}, NEW e \in Emails,
         Respond(r, "exists", u, e, None), Holders(e) # {}, UNCHANGED Tables
  PROVE  Answers(r)
<1>1. Sayable("exists", u, e, None)'
  BY DEF Sayable, Holders, Live, Tables
<1> QED BY <1>1, RespondTyped DEF Statuses

(* The index refuses a row only for an address that has a holder. *)
LEMMA IndexRefusal ==
  ASSUME NEW e \in Emails, NEW self, ~IndexAllows(e, self)
  PROVE  Holders(e) # {}
BY DEF IndexAllows

(* The row an INSERT leaves. *)
LEMMA Inserted ==
  ASSUME TypeOK, NEW u \in UserIds, NEW e \in Emails, NEW v \in BOOLEAN, InsertUser(u, e, v)
  PROVE  users'[u] # Fresh /\ Live(u)' /\ users'[u].email = e
<1> DEFINE row == [email |-> e, active |-> TRUE, verified |-> v]
<1>1. row \in Row /\ row.email = e
  BY DEF Row
<1>2. users'[u] = row
  BY DEF TypeOK, TablesTypeOK, InsertUser
<1> QED BY <1>1, <1>2 DEF Live

LEMMA RegisterCheckStep ==
  ASSUME IInv, NEW r \in Requests, NEW e \in Emails, NEW size \in Sizes,
         RegisterCheck(r, e, size)
  PROVE  StepOf(r)
<1>1. [Dir!Next]_(Dir!dirVars)
  BY TablesKept DEF RegisterCheck
<1>2. \/ \E s \in {"bad_password", "unhashable"} : Respond(r, s, None, e, None)
      \/ Respond(r, "exists", None, e, None) /\ Holders(e) # {}
      \/ Await(r, "register_insert", None, e, None, None)
  BY DEF RegisterCheck
<1>3. ASSUME NEW s \in {"bad_password", "unhashable"}, Respond(r, s, None, e, None)
      PROVE  Answers(r)
  BY <1>3, RespondPlain
<1>5. ASSUME Respond(r, "exists", None, e, None), Holders(e) # {}
      PROVE  Answers(r)
  BY <1>5, ExistsAnswer DEF RegisterCheck
<1>4. ASSUME Await(r, "register_insert", None, e, None, None)
      PROVE  Answers(r)
  <2>1. Held([pc |-> "register_insert", user |-> None, email |-> e,
              google |-> None, snap |-> None])'
    BY DEF Held
  <2> QED BY <1>4, <2>1, AwaitTyped DEF Waits
<1> QED BY <1>1, <1>2, <1>3, <1>4, <1>5 DEF StepOf

LEMMA RegisterInsertStep ==
  ASSUME IInv, NEW r \in Requests, RegisterInsert(r)
  PROVE  StepOf(r)
<1>1. PICK e \in Emails : e = req[r].email
  BY DEF IInv, HeldInv, Held, RegisterInsert
<1>2. CASE /\ Respond(r, RefusedInsert, None, e, None)
           /\ ~IndexAllows(e, None) /\ UNCHANGED Tables
  BY <1>1, <1>2, IndexRefusal, ExistsAnswer, TablesKeptStep DEF RefusedInsert
<1>3. ASSUME NEW u \in UserIds, IndexAllows(e, None), InsertUser(u, e, FALSE),
             Respond(r, "created", u, e, None), UNCHANGED <<links, vouched>>
      PROVE  StepOf(r)
  <2>1. Holders(e) = {}
    BY <1>3 DEF IndexAllows, Holders
  <2>2. Dir!Enrol(u, e, FALSE)
    BY <1>3, <2>1 DEF InsertUser, Dir!Enrol, Dir!Holders, Dir!Live, Holders, Live
  <2>3. [Dir!Next]_(Dir!dirVars)
    BY <2>2, <1>1 DEF Dir!Next
  <2>4. Sayable("created", u, e, None)'
    BY <1>1, <1>3, Inserted DEF Sayable, IInv
  <2>5. Answers(r)
    BY <1>1, <1>3, <2>4, RespondTyped DEF Statuses
  <2> QED BY <2>3, <2>5 DEF StepOf
<1> QED BY <1>1, <1>2, <1>3 DEF RegisterInsert, Tables

LEMMA PatchLoadStep ==
  ASSUME IInv, NEW r \in Requests, NEW u \in UserIds, NEW e \in Emails,
         PatchLoad(r, u, e)
  PROVE  StepOf(r)
<1>1. CASE Respond(r, "unauthorized", u, e, None) /\ UNCHANGED Tables
  BY <1>1, RespondPlain, TablesKeptStep
<1>2. ASSUME NEW pc \in {"patch_check", "patch_write"}, Live(u),
             Await(r, pc, u, e, None, users[u]), UNCHANGED Tables
      PROVE  StepOf(r)
  <2>1. PICK row \in Row : row = users[u]
    BY <1>2 DEF IInv, TypeOK, TablesTypeOK, Live
  <2>2. Held([pc |-> pc, user |-> u, email |-> e, google |-> None, snap |-> row])'
    BY <1>2, <2>1 DEF Held, Tables, Live
  <2>3. Await(r, pc, u, e, None, row)
    BY <1>2, <2>1
  <2>4. Answers(r)
    BY <2>2, <2>3, AwaitTyped DEF Waits
  <2> QED BY <1>2, <2>4, TablesKeptStep
<1>3. \/ Respond(r, "unauthorized", u, e, None)
      \/ /\ Live(u)
         /\ \E pc \in {"patch_check", "patch_write"} : Await(r, pc, u, e, None, users[u])
  BY DEF PatchLoad
<1> QED BY <1>1, <1>2, <1>3 DEF PatchLoad

(* The memory of a request waiting in PATCH. *)
LEMMA PatchHeld ==
  ASSUME IInv, NEW r \in Requests, req[r].pc \in {"patch_check", "patch_write"}
  PROVE  /\ req[r].user \in UserIds /\ req[r].email \in Emails /\ req[r].snap \in Row
         /\ users[req[r].user] # Fresh
         /\ Live(req[r].user) /\ users[req[r].user].verified => req[r].snap.verified
BY DEF IInv, HeldInv, Held

LEMMA PatchCheckStep ==
  ASSUME IInv, NEW r \in Requests, PatchCheck(r)
  PROVE  StepOf(r)
<1>1. PICK u \in UserIds, e \in Emails, row \in Row :
        /\ u = req[r].user /\ e = req[r].email /\ row = req[r].snap
        /\ users[u] # Fresh
        /\ Live(u) /\ users[u].verified => row.verified
  BY PatchHeld DEF PatchCheck
<1>2. \/ Respond(r, "exists", u, e, None) /\ Holders(e) # {}
      \/ Await(r, "patch_write", u, e, None, row)
  BY <1>1 DEF PatchCheck
<1>3. UNCHANGED Tables
  BY DEF PatchCheck
<1>4. CASE Respond(r, "exists", u, e, None) /\ Holders(e) # {}
  BY <1>3, <1>4, ExistsAnswer, TablesKeptStep
<1>5. CASE Await(r, "patch_write", u, e, None, row)
  <2>1. Held([pc |-> "patch_write", user |-> u, email |-> e,
              google |-> None, snap |-> row])'
    BY <1>1, <1>3 DEF Held, Tables, Live
  <2>2. Answers(r)
    BY <1>5, <2>1, AwaitTyped DEF Waits
  <2> QED BY <1>3, <2>2, TablesKeptStep
<1> QED BY <1>2, <1>4, <1>5

(* The UPDATE, which writes is_verified only when the loaded copy was      *)
(* verified, still leaves every changed address unverified.                *)
LEMMA PatchWriteStep ==
  ASSUME IInv, NEW r \in Requests, PatchWrite(r)
  PROVE  StepOf(r)
<1>1. PICK u \in UserIds, e \in Emails, row \in Row :
        /\ u = req[r].user /\ e = req[r].email /\ row = req[r].snap
        /\ users[u] # Fresh
        /\ Live(u) /\ users[u].verified => row.verified
  BY PatchHeld DEF PatchWrite
<1>2. \/ Respond(r, MissingRow, u, e, None) /\ ~Live(u) /\ UNCHANGED Tables
      \/ Respond(r, "updated", u, e, None) /\ Live(u) /\ UNCHANGED Tables
      \/ Respond(r, "exists", u, e, None) /\ ~IndexAllows(e, u) /\ UNCHANGED Tables
      \/ /\ Live(u) /\ IndexAllows(e, u)
         /\ users' = [users EXCEPT ![u] = UpdatedRow(users[u], row, e)]
         /\ Respond(r, "updated", u, e, None)
         /\ UNCHANGED <<links, vouched>>
  BY <1>1 DEF PatchWrite, Tables
<1>3. CASE Respond(r, MissingRow, u, e, None) /\ ~Live(u) /\ UNCHANGED Tables
  <2>1. Sayable("server_error", u, e, None)'
    BY <1>1, <1>3 DEF Sayable, Live, Tables
  <2> QED BY <1>3, <2>1, RespondTyped, TablesKeptStep DEF Statuses, MissingRow
<1>5. CASE Respond(r, "updated", u, e, None) /\ Live(u) /\ UNCHANGED Tables
  <2>1. Sayable("updated", u, e, None)'
    BY <1>5 DEF Sayable, Live, Tables
  <2> QED BY <1>5, <2>1, RespondTyped, TablesKeptStep DEF Statuses
<1>6. CASE Respond(r, "exists", u, e, None) /\ ~IndexAllows(e, u) /\ UNCHANGED Tables
  BY <1>6, IndexRefusal, ExistsAnswer, TablesKeptStep
<1>4. ASSUME Live(u), IndexAllows(e, u),
             users' = [users EXCEPT ![u] = UpdatedRow(users[u], row, e)],
             Respond(r, "updated", u, e, None),
             UNCHANGED <<links, vouched>>
      PROVE  StepOf(r)
  <2>1. users[u] \in Row
    BY <1>4 DEF IInv, TypeOK, TablesTypeOK, Live
  <2>2. UpdatedRow(users[u], row, e)
          = [users[u] EXCEPT !.email = e, !.verified = FALSE]
    BY <1>1, <1>4, <2>1 DEF UpdatedRow, Row
  <2>3. Dir!Rename(u, e)
    BY <1>4, <2>2 DEF Dir!Rename, Dir!Live, Dir!Holders, IndexAllows, Holders, Live
  <2>4. [Dir!Next]_(Dir!dirVars)
    BY <2>3 DEF Dir!Next
  <2>5. Sayable("updated", u, e, None)'
    <3> DEFINE new == [users[u] EXCEPT !.email = e, !.verified = FALSE]
    <3>1. new \in Row
      BY <2>1 DEF Row
    <3>2. users'[u] = new
      BY <1>4, <2>2 DEF IInv, TypeOK, TablesTypeOK
    <3> QED BY <3>1, <3>2 DEF Sayable, Live
  <2>6. Answers(r)
    BY <1>4, <2>5, RespondTyped DEF Statuses
  <2> QED BY <2>4, <2>6 DEF StepOf
<1> QED BY <1>2, <1>3, <1>4, <1>5, <1>6

LEMMA DeleteLoadStep ==
  ASSUME IInv, NEW r \in Requests, NEW u \in UserIds, DeleteLoad(r, u)
  PROVE  StepOf(r)
<1>1. CASE Respond(r, "unauthorized", u, None, None) /\ UNCHANGED Tables
  BY <1>1, RespondPlain, TablesKeptStep
<1>2. ASSUME Live(u), Await(r, "delete_write", u, None, None, users[u]), UNCHANGED Tables
      PROVE  StepOf(r)
  <2>1. PICK row \in Row : row = users[u]
    BY <1>2 DEF IInv, TypeOK, TablesTypeOK, Live
  <2>2. Held([pc |-> "delete_write", user |-> u, email |-> None,
              google |-> None, snap |-> row])'
    BY <1>2 DEF Held, Tables, Live
  <2>3. Await(r, "delete_write", u, None, None, row)
    BY <1>2, <2>1
  <2>4. Answers(r)
    BY <2>2, <2>3, AwaitTyped DEF Waits
  <2> QED BY <1>2, <2>4, TablesKeptStep
<1> QED BY <1>1, <1>2 DEF DeleteLoad

(* Deleting a row already deleted changes nothing: no link survived it. *)
LEMMA DeleteWriteStep ==
  ASSUME IInv, NEW r \in Requests, DeleteWrite(r)
  PROVE  StepOf(r)
<1>1. PICK u \in UserIds : u = req[r].user /\ users[u] # Fresh
  BY DEF IInv, HeldInv, Held, DeleteWrite
<1>2. /\ users' = [users EXCEPT ![u] = Gone]
      /\ links' = {l \in links : l[1] # u}
      /\ Respond(r, "deleted", u, None, None)
      /\ vouched' = vouched
  BY <1>1 DEF DeleteWrite, CascadeDelete
<1>3. CASE Live(u)
  <2>1. Dir!Remove(u)
    BY <1>2, <1>3 DEF Dir!Remove, Dir!Live, Live
  <2>2. [Dir!Next]_(Dir!dirVars)
    BY <2>1 DEF Dir!Next
  <2>3. Answers(r)
    BY <1>2, RespondPlain
  <2> QED BY <2>2, <2>3 DEF StepOf
<1>4. CASE ~Live(u)
  <2>1. users' = users
    BY <1>1, <1>2, <1>4 DEF Live, IInv, TypeOK, TablesTypeOK
  <2>2. links' = links
    BY <1>2, <1>4 DEF IInv, TablesInv, NoOrphanLink
  <2>3. Answers(r)
    BY <1>2, RespondPlain
  <2> QED BY <1>2, <2>1, <2>2, <2>3, TablesKeptStep DEF Tables
<1> QED BY <1>3, <1>4

-----------------------------------------------------------------------------

LEMMA GoogleLookupStep ==
  ASSUME IInv, NEW r \in Requests, NEW g \in GoogleIds, NEW e \in Emails,
         GoogleLookup(r, g, e)
  PROVE  StepOf(r)
<1>1. /\ vouched' = vouched \cup {<<g, e>>}
      /\ users' = users /\ links' = links /\ e \in AddressOf[g]
  BY DEF GoogleLookup
<1>2. [Dir!Next]_(Dir!dirVars)
  BY <1>1 DEF Dir!Next, Dir!Vouch
<1>3. \/ Respond(r, "server_error", None, e, g) /\ Ambiguous(g)
      \/ \E u \in UserIds : Owners(g) = {u} /\ Await(r, "google_touch", u, e, g, users[u])
      \/ Await(r, "google_email", None, e, g, None)
  BY DEF GoogleLookup
<1>4. ASSUME Respond(r, "server_error", None, e, g), Ambiguous(g)
      PROVE  Answers(r)
  <2>1. Sayable("server_error", None, e, g)'
    BY <1>1, <1>4 DEF Sayable, Ambiguous, Owners
  <2> QED BY <1>4, <2>1, RespondTyped DEF Statuses
<1>5. ASSUME NEW u \in UserIds, Owners(g) = {u},
             Await(r, "google_touch", u, e, g, users[u])
      PROVE  Answers(r)
  <2>1. <<u, g>> \in links
    BY <1>5 DEF Owners
  <2>2. Live(u)
    BY <2>1 DEF IInv, TablesInv, NoOrphanLink
  <2>3. PICK row \in Row : row = users[u]
    BY <2>2 DEF IInv, TypeOK, TablesTypeOK, Live
  <2>4. Held([pc |-> "google_touch", user |-> u, email |-> e, google |-> g, snap |-> row])'
    BY <1>1, <2>1, <2>2 DEF Held, Live
  <2>5. Await(r, "google_touch", u, e, g, row)
    BY <1>5, <2>3
  <2> QED BY <2>4, <2>5, AwaitTyped DEF Waits
<1>6. ASSUME Await(r, "google_email", None, e, g, None)
      PROVE  Answers(r)
  <2>1. Held([pc |-> "google_email", user |-> None, email |-> e, google |-> g, snap |-> None])'
    BY <1>1 DEF Held
  <2> QED BY <1>6, <2>1, AwaitTyped DEF Waits
<1> QED BY <1>2, <1>3, <1>4, <1>5, <1>6 DEF StepOf

(* The memory of a request waiting in the Google callback. *)
LEMMA GoogleHeld ==
  ASSUME IInv, NEW r \in Requests,
         req[r].pc \in {"google_email", "google_create", "google_link", "google_touch"}
  PROVE  /\ req[r].email \in Emails /\ req[r].google \in GoogleIds
         /\ req[r].email \in AddressOf[req[r].google]
         /\ <<req[r].google, req[r].email>> \in vouched
         /\ req[r].pc \in {"google_link", "google_touch"} =>
              req[r].user \in UserIds /\ users[req[r].user] # Fresh
BY DEF IInv, HeldInv, Held

LEMMA GoogleByEmailStep ==
  ASSUME IInv, NEW r \in Requests, GoogleByEmail(r)
  PROVE  StepOf(r)
<1>1. PICK e \in Emails, g \in GoogleIds :
        /\ e = req[r].email /\ g = req[r].google
        /\ e \in AddressOf[g] /\ <<g, e>> \in vouched
  BY GoogleHeld DEF GoogleByEmail
<1>2. UNCHANGED Tables
  BY DEF GoogleByEmail
<1>3. \/ \E u \in UserIds : Live(u) /\ Await(r, "google_link", u, e, g, None)
      \/ Await(r, "google_create", None, e, g, None)
  BY <1>1 DEF GoogleByEmail, Holders
<1>4. ASSUME NEW u \in UserIds, Live(u), Await(r, "google_link", u, e, g, None)
      PROVE  Answers(r)
  <2>1. Held([pc |-> "google_link", user |-> u, email |-> e, google |-> g, snap |-> None])'
    BY <1>1, <1>2, <1>4 DEF Held, Tables, Live
  <2> QED BY <1>4, <2>1, AwaitTyped DEF Waits
<1>5. ASSUME Await(r, "google_create", None, e, g, None)
      PROVE  Answers(r)
  <2>1. Held([pc |-> "google_create", user |-> None, email |-> e,
              google |-> g, snap |-> None])'
    BY <1>1, <1>2 DEF Held, Tables
  <2> QED BY <1>5, <2>1, AwaitTyped DEF Waits
<1> QED BY <1>2, <1>3, <1>4, <1>5, TablesKeptStep

LEMMA GoogleCreateStep ==
  ASSUME IInv, NEW r \in Requests, GoogleCreate(r)
  PROVE  StepOf(r)
<1>1. PICK e \in Emails, g \in GoogleIds :
        /\ e = req[r].email /\ g = req[r].google
        /\ e \in AddressOf[g] /\ <<g, e>> \in vouched
  BY GoogleHeld DEF GoogleCreate
<1>2. \/ Respond(r, "auth_failed", None, e, g) /\ UNCHANGED Tables
      \/ \E u \in UserIds :
           /\ IndexAllows(e, None) /\ InsertUser(u, e, TRUE)
           /\ Await(r, "google_link", u, e, g, None)
           /\ UNCHANGED <<links, vouched>>
  BY <1>1 DEF GoogleCreate, Tables
<1>3. CASE Respond(r, "auth_failed", None, e, g) /\ UNCHANGED Tables
  BY <1>3, RespondPlain, TablesKeptStep
<1>4. ASSUME NEW u \in UserIds, IndexAllows(e, None), InsertUser(u, e, TRUE),
             Await(r, "google_link", u, e, g, None), UNCHANGED <<links, vouched>>
      PROVE  StepOf(r)
  <2>1. Holders(e) = {}
    BY <1>4 DEF IndexAllows, Holders
  <2>2. Dir!Enrol(u, e, TRUE)
    BY <1>1, <1>4, <2>1 DEF InsertUser, Dir!Enrol, Dir!Holders, Dir!Live, Holders, Live
  <2>3. [Dir!Next]_(Dir!dirVars)
    BY <2>2 DEF Dir!Next
  <2>4. Held([pc |-> "google_link", user |-> u, email |-> e, google |-> g, snap |-> None])'
    BY <1>1, <1>4, Inserted DEF Held, IInv
  <2>5. Answers(r)
    BY <1>4, <2>4, AwaitTyped DEF Waits
  <2> QED BY <2>3, <2>5 DEF StepOf
<1> QED BY <1>2, <1>3, <1>4

LEMMA GoogleLinkStep ==
  ASSUME IInv, NEW r \in Requests, GoogleLink(r)
  PROVE  StepOf(r)
<1>1. PICK u \in UserIds, e \in Emails, g \in GoogleIds :
        /\ u = req[r].user /\ e = req[r].email /\ g = req[r].google
        /\ <<g, e>> \in vouched /\ users[u] # Fresh
  BY GoogleHeld DEF GoogleLink
<1>2. CASE ~Live(u) /\ UNCHANGED Tables
  <2>1. PICK s \in {"server_error", "auth_failed"} : Respond(r, s, u, e, g)
    BY <1>1, <1>2 DEF GoogleLink
  <2>2. Sayable(s, u, e, g)'
    BY <1>1, <1>2 DEF Sayable, Live, Tables
  <2> QED BY <1>2, <2>1, <2>2, RespondTyped, TablesKeptStep DEF Statuses
<1>3. CASE Live(u) /\ links' = links \cup {<<u, g>>} /\ UNCHANGED <<users, vouched>>
  <2>1. Dir!Link(u, g)
    BY <1>1, <1>3 DEF Dir!Link, Dir!Live, Live
  <2>2. [Dir!Next]_(Dir!dirVars)
    BY <2>1 DEF Dir!Next
  <2>3. PICK s \in {"signed_in", "auth_failed"} : Respond(r, s, u, e, g)
    BY <1>1, <1>3 DEF GoogleLink
  <2>4. Sayable(s, u, e, g)'
    BY <1>3 DEF Sayable
  <2>5. Answers(r)
    BY <2>3, <2>4, RespondTyped DEF Statuses
  <2> QED BY <2>2, <2>5 DEF StepOf
<1> QED BY <1>1, <1>2, <1>3 DEF GoogleLink, Tables

(* The link that was looked up is gone only when its user is. *)
LEMMA GoogleTouchStep ==
  ASSUME IInv, NEW r \in Requests, GoogleTouch(r)
  PROVE  StepOf(r)
<1>1. PICK u \in UserIds, e \in Emails, g \in GoogleIds :
        /\ u = req[r].user /\ e = req[r].email /\ g = req[r].google
        /\ users[u] # Fresh /\ (Live(u) => <<u, g>> \in links)
  BY GoogleHeld DEF GoogleTouch, IInv, HeldInv, Held
<1>2. PICK s \in {"server_error", "auth_failed", "signed_in"} :
        /\ Respond(r, s, u, e, g)
        /\ s = "server_error" => <<u, g>> \notin links
        /\ s = "signed_in" => <<u, g>> \in links
  BY <1>1 DEF GoogleTouch, LinkStands
<1>3. UNCHANGED Tables
  BY DEF GoogleTouch
<1>4. Sayable(s, u, e, g)'
  BY <1>1, <1>2, <1>3 DEF Sayable, Live, Tables
<1>5. Answers(r)
  BY <1>2, <1>4, RespondTyped DEF Statuses
<1> QED BY <1>3, <1>5, TablesKeptStep

LEMMA CrashStep ==
  ASSUME IInv, NEW r \in Requests, Crash(r)
  PROVE  StepOf(r)
<1>1. Answers(r)
  BY SilenceTyped, IdleHeld DEF Crash, Moves, Answers
<1> QED BY <1>1, TablesKeptStep DEF Crash

(* Every step of a request. *)
LEMMA RequestStep ==
  ASSUME IInv, NEW r \in Requests,
         Register(r) \/ Patch(r) \/ Delete(r) \/ Google(r) \/ Crash(r)
  PROVE  StepOf(r)
<1>1. ASSUME Register(r) PROVE StepOf(r)
  BY <1>1, RegisterCheckStep, RegisterInsertStep DEF Register, Sizes
<1>2. ASSUME Patch(r) PROVE StepOf(r)
  BY <1>2, PatchLoadStep, PatchCheckStep, PatchWriteStep DEF Patch
<1>3. ASSUME Delete(r) PROVE StepOf(r)
  BY <1>3, DeleteLoadStep, DeleteWriteStep DEF Delete
<1>4. ASSUME Google(r) PROVE StepOf(r)
  BY <1>4, GoogleLookupStep, GoogleByEmailStep, GoogleCreateStep, GoogleLinkStep,
     GoogleTouchStep DEF Google
<1> QED BY <1>1, <1>2, <1>3, <1>4, CrashStep

(* A step of the operator, who is no request. *)
LEMMA OperatorStep ==
  ASSUME IInv, NEW u \in UserIds, NEW b \in BOOLEAN, SetActive(u, b)
  PROVE  [Dir!Next]_(Dir!dirVars) /\ reply' \in Response /\ ReplyInv' /\ req' = req
<1>1. Dir!SetActive(u, b)
  BY DEF SetActive, Dir!SetActive, Dir!Live, Live
<1> QED BY <1>1, SilenceTyped DEF SetActive, Dir!Next

-----------------------------------------------------------------------------

(* What the tables kept for a request's memory they keep for it through    *)
(* any change the directory allows.                                        *)
LEMMA HeldKept ==
  ASSUME IInv, [Dir!Next]_(Dir!dirVars), NEW q \in Request, Held(q)
  PROVE  Held(q)'
<1>1. TablesTypeOK
  BY DEF IInv, TypeOK
<1>2. ASSUME NEW u \in UserIds, users[u] # Fresh
      PROVE  /\ users'[u] # Fresh
             /\ Live(u)' /\ users'[u].verified => Live(u) /\ users[u].verified
             /\ Live(u)' => Live(u)
             /\ Live(u)' => \A g \in GoogleIds : <<u, g>> \in links => <<u, g>> \in links'
  BY <1>1, <1>2, DirMonotone
<1>3. vouched \subseteq vouched'
  BY DEF Dir!Next, Dir!dirVars, Dir!Vouch, Dir!Enrol, Dir!Rename, Dir!Remove, Dir!Link,
         Dir!SetActive
<1> QED BY <1>2, <1>3 DEF Held

LEMMA InitInv == Init => IInv
<1> SUFFICES ASSUME Init PROVE IInv
  OBVIOUS
<1>1. TablesInv
  BY DirInit DEF Init, Dir!Init
<1>2. HeldInv
  BY DEF Init, HeldInv, Held, Idle
<1>3. TypeOK
  BY <1>1, SilenceTyped, IdleHeld DEF Init, TypeOK, TablesInv
<1> QED BY <1>1, <1>2, <1>3, SilenceTyped DEF IInv, Init

LEMMA NextInv == IInv /\ [Next]_vars => IInv'
<1> SUFFICES ASSUME IInv, [Next]_vars PROVE IInv'
  OBVIOUS
<1>1. CASE UNCHANGED vars
  <2>1. TablesInv' /\ TypeOK'
    BY <1>1 DEF vars, IInv, TypeOK, TablesInv, TablesTypeOK, UniqueEmail, NoOrphanLink,
                VerifiedIsVouched, Live
  <2>2. HeldInv'
    BY <1>1 DEF vars, IInv, HeldInv, Held, Live
  <2>3. ReplyInv'
    BY <1>1 DEF vars, IInv, ReplyInv, RefusalNamesHolder, SuccessIsStored,
                ServerErrorHasCause, Holders, Live, Ambiguous, Owners
  <2> QED BY <2>1, <2>2, <2>3 DEF IInv
<1>2. ASSUME [Dir!Next]_(Dir!dirVars) PROVE TablesInv'
  BY <1>2, DirStep DEF IInv
<1>3. ASSUME NEW r \in Requests, StepOf(r)
      PROVE  IInv'
  <2>1. [Dir!Next]_(Dir!dirVars) /\ reply' \in Response /\ ReplyInv'
    BY <1>3 DEF StepOf, Answers
  <2>2. PICK q \in Request : req' = [req EXCEPT ![r] = q] /\ Held(q)'
    BY <1>3 DEF StepOf, Answers, Moves
  <2>3. TypeOK'
    BY <1>2, <2>1, <2>2 DEF IInv, TypeOK, TablesInv
  <2>4. ASSUME NEW s \in Requests PROVE Held(req[s])'
    <3>1. PICK p \in Request : p = req[s] /\ Held(p)
      BY DEF IInv, TypeOK, HeldInv
    <3>2. Held(p)'
      BY <2>1, <3>1, HeldKept
    <3>3. req'[s] = IF s = r THEN q ELSE p
      BY <2>2, <3>1 DEF IInv, TypeOK
    <3> QED BY <2>2, <3>2, <3>3 DEF Held
  <2>5. HeldInv'
    BY <2>4 DEF HeldInv
  <2> QED BY <1>2, <2>1, <2>3, <2>5 DEF IInv
<1>4. ASSUME NEW u \in UserIds, NEW b \in BOOLEAN, SetActive(u, b)
      PROVE  IInv'
  <2>1. [Dir!Next]_(Dir!dirVars) /\ reply' \in Response /\ ReplyInv' /\ req' = req
    BY <1>4, OperatorStep
  <2>2. TypeOK'
    BY <1>2, <2>1 DEF IInv, TypeOK, TablesInv
  <2>3. ASSUME NEW s \in Requests PROVE Held(req[s])'
    <3>1. PICK p \in Request : p = req[s] /\ Held(p)
      BY DEF IInv, TypeOK, HeldInv
    <3>2. Held(p)' /\ req'[s] = p
      BY <2>1, <3>1, HeldKept
    <3> QED BY <3>2 DEF Held
  <2>4. HeldInv'
    BY <2>3 DEF HeldInv
  <2> QED BY <1>2, <2>1, <2>2, <2>4 DEF IInv
<1> QED BY <1>1, <1>3, <1>4, RequestStep DEF Next

LEMMA Invariant == Spec => []IInv
BY InitInv, NextInv, PTL DEF Spec

-----------------------------------------------------------------------------

(* In every run the tables, the requests' memories and the responses are   *)
(* well formed.                                                            *)
THEOREM TypeCorrect == Spec => []TypeOK
<1>1. IInv => TypeOK
  BY DEF IInv
<1> QED BY <1>1, Invariant, PTL

(* No two accounts ever share an address, whatever its case, however many  *)
(* registrations, address changes and Google sign-ins race for it.         *)
THEOREM EmailsUnique == Spec => []UniqueEmail
<1>1. IInv => UniqueEmail
  BY DEF IInv, TablesInv
<1> QED BY <1>1, Invariant, PTL

(* No linked Google account ever outlives the account it signs in to. *)
THEOREM LinksHaveUsers == Spec => []NoOrphanLink
<1>1. IInv => NoOrphanLink
  BY DEF IInv, TablesInv
<1> QED BY <1>1, Invariant, PTL

(* A verified account always carries an address Google asserted. *)
THEOREM VerifiedProved == Spec => []VerifiedIsVouched
<1>1. IInv => VerifiedIsVouched
  BY DEF IInv, TablesInv
<1> QED BY <1>1, Invariant, PTL

(* "Already exists" is said only of an address some account holds at that  *)
(* moment, whichever of the lookup and the index refused it.               *)
THEOREM RefusalsTrue == Spec => []RefusalNamesHolder
<1>1. IInv => RefusalNamesHolder
  BY DEF IInv, ReplyInv
<1> QED BY <1>1, Invariant, PTL

(* What a success response names is in the tables when it is sent. *)
THEOREM SuccessStored == Spec => []SuccessIsStored
<1>1. IInv => SuccessIsStored
  BY DEF IInv, ReplyInv
<1> QED BY <1>1, Invariant, PTL

(* A database exception reaches the client only when the account was       *)
(* deleted under the request, or a Google account has several users.       *)
THEOREM ServerErrorExplained == Spec => []ServerErrorHasCause
<1>1. IInv => ServerErrorHasCause
  BY DEF IInv, ReplyInv
<1> QED BY <1>1, Invariant, PTL

(* The account directory keeps its tables well formed and consistent, in   *)
(* every run: the promise AccountDirectory makes to its clients.           *)
THEOREM DirSafe == Dir!Spec => []TablesInv
BY DirInit, DirStep, PTL DEF Dir!Spec

(* Every run of the handlers is a run of the account directory. *)
THEOREM Implements == Spec => ImplementsDirectory
<1>1. Init => Dir!Init
  BY DEF Init, Dir!Init
<1>2. IInv /\ [Next]_vars => [Dir!Next]_(Dir!dirVars)
  <2> SUFFICES ASSUME IInv, [Next]_vars PROVE [Dir!Next]_(Dir!dirVars)
    OBVIOUS
  <2>1. CASE UNCHANGED vars
    BY <2>1 DEF vars, Dir!dirVars
  <2>2. ASSUME NEW r \in Requests, StepOf(r) PROVE [Dir!Next]_(Dir!dirVars)
    BY <2>2 DEF StepOf
  <2> QED BY <2>1, <2>2, RequestStep, OperatorStep DEF Next
<1> QED BY <1>1, <1>2, Invariant, PTL DEF Spec, ImplementsDirectory, Dir!Spec

-----------------------------------------------------------------------------
(* Who a Google account signs in to.  The callback looks the account up    *)
(* first and the address second, and no index makes the link unique: two   *)
(* first sign-ins may both find no link and both insert one.  What makes   *)
(* them insert the same one is the address: as long as PATCH does not      *)
(* change it and Google reports no other, the user that holds it is the    *)
(* only one the account can be linked to.                                  *)

OneAddress ==
  \A g \in GoogleIds : \A d, e \in AddressOf[g] : Lower[d] = Lower[e]

(* A request about to insert a link still has the holder of its address. *)
Settled(q) ==
  /\ q.pc \notin {"patch_check", "patch_write"}
  /\ q.pc = "google_link" /\ Live(q.user) => Lower[users[q.user].email] = Lower[q.email]

AddressInv ==
  /\ \A r \in Requests : Settled(req[r])
  /\ \A l \in links : \E e \in AddressOf[l[2]] : Lower[users[l[1]].email] = Lower[e]

Settles(r) == \E q : req' = [req EXCEPT ![r] = q] /\ Settled(q)'

LEMMA IdleSettled == Settled(Idle)'
BY DEF Settled, Idle

LEMMA RespondSettles ==
  ASSUME NEW r \in Requests, NEW s, NEW u, NEW e, NEW g, Respond(r, s, u, e, g)
  PROVE  Settles(r)
<1>1. Settled(Idle)'
  BY IdleSettled
<1> QED BY <1>1 DEF Respond, Settles

LEMMA AwaitSettles ==
  ASSUME NEW r \in Requests,
         NEW pc \in {"register_insert", "delete_write", "google_email",
                     "google_create", "google_touch"},
         NEW u, NEW e, NEW g, NEW row, Await(r, pc, u, e, g, row)
  PROVE  Settles(r)
<1> DEFINE q == [pc |-> pc, user |-> u, email |-> e, google |-> g, snap |-> row]
<1>1. q.pc = pc /\ req' = [req EXCEPT ![r] = q]
  BY DEF Await
<1> HIDE DEF q
<1>2. Settled(q)'
  BY <1>1 DEF Settled
<1> QED BY <1>1, <1>2 DEF Settles

LEMMA LinkSettles ==
  ASSUME NEW r \in Requests, NEW u, NEW e, NEW g, Await(r, "google_link", u, e, g, None),
         Lower[users'[u].email] = Lower[e]
  PROVE  Settles(r)
<1> DEFINE q == [pc |-> "google_link", user |-> u, email |-> e, google |-> g, snap |-> None]
<1>1. q.pc = "google_link" /\ q.user = u /\ q.email = e /\ req' = [req EXCEPT ![r] = q]
  BY DEF Await
<1> HIDE DEF q
<1>2. Settled(q)'
  BY <1>1 DEF Settled
<1> QED BY <1>1, <1>2 DEF Settles

(* No handler but PATCH changes the address of a user. *)
EmailsKept ==
  \A u \in UserIds :
    users[u] # Fresh /\ Live(u)' => Live(u) /\ users'[u].email = users[u].email

(* The links a step of r may leave. *)
LinksOf(r) ==
  \A l \in links' :
    \/ l \in links
    \/ /\ req[r].pc = "google_link" /\ Live(req[r].user)
       /\ l = <<req[r].user, req[r].google>>

LEMMA UsersSame == users' = users => EmailsKept
BY DEF EmailsKept, Live

LEMMA InsertKeeps ==
  ASSUME TypeOK, NEW u \in UserIds, NEW e, NEW v, InsertUser(u, e, v)
  PROVE  EmailsKept
<1>1. ASSUME NEW w \in UserIds, users[w] # Fresh PROVE users'[w] = users[w]
  BY <1>1 DEF InsertUser, TypeOK, TablesTypeOK
<1> QED BY <1>1 DEF EmailsKept, Live

LEMMA RegisterAddress ==
  ASSUME IInv, NEW r \in Requests, Register(r)
  PROVE  EmailsKept /\ LinksOf(r) /\ Settles(r)
<1>1. ASSUME NEW e \in Emails, NEW size \in Sizes, RegisterCheck(r, e, size)
      PROVE  EmailsKept /\ LinksOf(r) /\ Settles(r)
  <2>1. users' = users /\ links' = links
    BY <1>1 DEF RegisterCheck, Tables
  <2>2. Settles(r)
    BY <1>1, RespondSettles, AwaitSettles DEF RegisterCheck
  <2> QED BY <2>1, <2>2, UsersSame DEF LinksOf
<1>2. ASSUME RegisterInsert(r)
      PROVE  EmailsKept /\ LinksOf(r) /\ Settles(r)
  <2>1. links' = links
    BY <1>2 DEF RegisterInsert
  <2>2. EmailsKept
    BY <1>2, UsersSame, InsertKeeps DEF RegisterInsert, IInv
  <2>3. Settles(r)
    BY <1>2, RespondSettles DEF RegisterInsert
  <2> QED BY <2>1, <2>2, <2>3 DEF LinksOf
<1> QED BY <1>1, <1>2 DEF Register

LEMMA DeleteAddress ==
  ASSUME IInv, NEW r \in Requests, Delete(r)
  PROVE  EmailsKept /\ LinksOf(r) /\ Settles(r)
<1>1. ASSUME NEW u \in UserIds, DeleteLoad(r, u)
      PROVE  EmailsKept /\ LinksOf(r) /\ Settles(r)
  <2>1. users' = users /\ links' = links
    BY <1>1 DEF DeleteLoad, Tables
  <2>2. Settles(r)
    BY <1>1, RespondSettles, AwaitSettles DEF DeleteLoad
  <2> QED BY <2>1, <2>2, UsersSame DEF LinksOf
<1>2. ASSUME DeleteWrite(r)
      PROVE  EmailsKept /\ LinksOf(r) /\ Settles(r)
  <2>1. LinksOf(r)
    BY <1>2 DEF DeleteWrite, CascadeDelete, LinksOf
  <2>2. ASSUME NEW w \in UserIds PROVE users'[w] \in {users[w], Gone}
    BY <1>2 DEF DeleteWrite, IInv, TypeOK, TablesTypeOK
  <2>3. EmailsKept
    BY <2>2 DEF EmailsKept, Live
  <2>4. Settles(r)
    BY <1>2, RespondSettles DEF DeleteWrite
  <2> QED BY <2>1, <2>3, <2>4
<1> QED BY <1>1, <1>2 DEF Delete

LEMMA GoogleAddress ==
  ASSUME IInv, NEW r \in Requests, Google(r)
  PROVE  EmailsKept /\ LinksOf(r) /\ Settles(r)
<1>1. ASSUME NEW g \in GoogleIds, NEW e \in Emails, GoogleLookup(r, g, e)
      PROVE  EmailsKept /\ LinksOf(r) /\ Settles(r)
  <2>1. users' = users /\ links' = links
    BY <1>1 DEF GoogleLookup
  <2>2. Settles(r)
    BY <1>1, RespondSettles, AwaitSettles DEF GoogleLookup
  <2> QED BY <2>1, <2>2, UsersSame DEF LinksOf
<1>2. ASSUME GoogleByEmail(r)
      PROVE  EmailsKept /\ LinksOf(r) /\ Settles(r)
  <2>1. users' = users /\ links' = links
    BY <1>2 DEF GoogleByEmail, Tables
  <2>2. ASSUME NEW u \in Holders(req[r].email),
               Await(r, "google_link", u, req[r].email, req[r].google, None)
        PROVE  Settles(r)
    <3>1. Lower[users'[u].email] = Lower[req[r].email]
      BY <2>1, <2>2 DEF Holders
    <3> QED BY <2>2, <3>1, LinkSettles
  <2>3. Settles(r)
    BY <1>2, <2>2, AwaitSettles DEF GoogleByEmail
  <2> QED BY <2>1, <2>3, UsersSame DEF LinksOf
<1>3. ASSUME GoogleCreate(r)
      PROVE  EmailsKept /\ LinksOf(r) /\ Settles(r)
  <2>1. req[r].email \in Emails /\ links' = links
    BY <1>3, GoogleHeld DEF GoogleCreate
  <2>2. ASSUME NEW u \in UserIds, InsertUser(u, req[r].email, TRUE),
               Await(r, "google_link", u, req[r].email, req[r].google, None)
        PROVE  EmailsKept /\ Settles(r)
    BY <2>1, <2>2, Inserted, InsertKeeps, LinkSettles DEF IInv
  <2>3. EmailsKept /\ Settles(r)
    BY <1>3, <2>2, UsersSame, RespondSettles DEF GoogleCreate
  <2> QED BY <2>1, <2>3 DEF LinksOf
<1>4. ASSUME GoogleLink(r)
      PROVE  EmailsKept /\ LinksOf(r) /\ Settles(r)
  <2>1. users' = users /\ Settles(r)
    BY <1>4, RespondSettles DEF GoogleLink
  <2>2. LinksOf(r)
    BY <1>4 DEF GoogleLink, LinksOf
  <2> QED BY <2>1, <2>2, UsersSame
<1>5. ASSUME GoogleTouch(r)
      PROVE  EmailsKept /\ LinksOf(r) /\ Settles(r)
  <2>1. users' = users /\ links' = links /\ Settles(r)
    BY <1>5, RespondSettles DEF GoogleTouch, Tables
  <2> QED BY <2>1, UsersSame DEF LinksOf
<1> QED BY <1>1, <1>2, <1>3, <1>4, <1>5 DEF Google

LEMMA CrashAddress ==
  ASSUME IInv, NEW r \in Requests, Crash(r)
  PROVE  EmailsKept /\ LinksOf(r) /\ Settles(r)
<1>1. users' = users /\ links' = links /\ req' = [req EXCEPT ![r] = Idle]
  BY DEF Crash, Tables
<1>2. Settles(r)
  BY <1>1, IdleSettled DEF Settles
<1> QED BY <1>1, <1>2, UsersSame DEF LinksOf

(* Where PATCH is not in use no request is in it. *)
LEMMA NoPatch ==
  ASSUME "patch" \notin Kinds, AddressInv, NEW r \in Requests
  PROVE  ~Patch(r)
BY DEF AddressInv, Settled, Patch, PatchLoad, PatchCheck, PatchWrite

(* A step that changes no address keeps what the links and the requests    *)
(* about to make one rely on.                                              *)
LEMMA AddressKept ==
  ASSUME IInv, IInv', AddressInv, EmailsKept, NEW r \in Requests, LinksOf(r),
         Settles(r) \/ req' = req
  PROVE  AddressInv'
<1>1. ASSUME NEW s \in Requests, req'[s] = req[s] PROVE Settled(req[s])'
  <2>1. Settled(req[s]) /\ Held(req[s])
    BY DEF IInv, HeldInv, AddressInv
  <2> QED BY <1>1, <2>1 DEF Settled, Held, EmailsKept
<1>2. ASSUME NEW s \in Requests PROVE Settled(req[s])'
  <2>1. CASE req' = req
    BY <1>1, <2>1
  <2>2. ASSUME NEW q, req' = [req EXCEPT ![r] = q], Settled(q)' PROVE Settled(req[s])'
    <3>1. req'[s] = IF s = r THEN q ELSE req[s]
      BY <2>2 DEF IInv, TypeOK
    <3> QED BY <1>1, <2>2, <3>1 DEF Settled
  <2> QED BY <2>1, <2>2 DEF Settles
<1>3. ASSUME NEW l \in links'
      PROVE  \E e \in AddressOf[l[2]] : Lower[users'[l[1]].email] = Lower[e]
  <2>1. Live(l[1])'
    BY <1>3 DEF IInv, TablesInv, NoOrphanLink
  <2>2. CASE l \in links
    <3>1. l[1] \in UserIds /\ Live(l[1])
      BY <2>2 DEF IInv, TypeOK, TablesTypeOK, TablesInv, NoOrphanLink
    <3>2. users'[l[1]].email = users[l[1]].email
      BY <2>1, <3>1 DEF EmailsKept, Live
    <3> QED BY <2>2, <3>2 DEF AddressInv
  <2>3. CASE /\ req[r].pc = "google_link" /\ Live(req[r].user)
             /\ l = <<req[r].user, req[r].google>>
    <3>1. /\ req[r].user \in UserIds /\ req[r].email \in AddressOf[req[r].google]
          /\ users[req[r].user] # Fresh
      BY <2>3, GoogleHeld
    <3>2. l[1] = req[r].user /\ l[2] = req[r].google
      BY <2>3
    <3>3. Lower[users[req[r].user].email] = Lower[req[r].email]
      BY <2>3 DEF AddressInv, Settled
    <3>4. users'[req[r].user].email = users[req[r].user].email
      BY <2>1, <3>1, <3>2 DEF EmailsKept
    <3> QED BY <3>1, <3>2, <3>3, <3>4
  <2> QED BY <1>3, <2>2, <2>3 DEF LinksOf
<1> QED BY <1>2, <1>3 DEF AddressInv

LEMMA AddressNext ==
  ASSUME "patch" \notin Kinds, IInv, AddressInv, [Next]_vars
  PROVE  AddressInv'
<1>1. IInv'
  BY NextInv
<1>2. CASE UNCHANGED vars
  BY <1>2 DEF vars, AddressInv, Settled, Live
<1>3. ASSUME NEW r \in Requests, Register(r) \/ Delete(r) \/ Google(r) \/ Crash(r)
      PROVE  AddressInv'
  BY <1>1, <1>3, RegisterAddress, DeleteAddress, GoogleAddress, CrashAddress, AddressKept
<1>4. ASSUME NEW u \in UserIds, NEW b \in BOOLEAN, SetActive(u, b)
      PROVE  AddressInv'
  <2>1. req' = req /\ links' = links
    BY <1>4 DEF SetActive
  <2>2. ASSUME NEW w \in UserIds, Live(w)' PROVE Live(w) /\ users'[w].email = users[w].email
    <3>1. users[u] \in Row /\ users' = [users EXCEPT ![u].active = b] /\ Live(u)
      BY <1>4, LiveIsRow DEF SetActive, IInv, TypeOK
    <3>2. users'[w] = IF w = u THEN [users[u] EXCEPT !.active = b] ELSE users[w]
      BY <3>1 DEF IInv, TypeOK, TablesTypeOK
    <3>3. CASE w = u
      BY <3>1, <3>2, <3>3 DEF Row
    <3>4. CASE w # u
      BY <2>2, <3>2, <3>4 DEF Live
    <3> QED BY <3>3, <3>4
  <2>3. ASSUME NEW s \in Requests PROVE Settled(req[s])'
    <3>1. Settled(req[s]) /\ Held(req[s])
      BY DEF IInv, HeldInv, AddressInv
    <3> QED BY <2>1, <2>2, <3>1 DEF Settled, Held
  <2>4. ASSUME NEW l \in links PROVE users'[l[1]].email = users[l[1]].email
    <3>1. l[1] \in UserIds /\ Live(l[1])'
      BY <1>1, <2>1 DEF IInv, TypeOK, TablesTypeOK, TablesInv, NoOrphanLink
    <3> QED BY <2>2, <3>1
  <2> QED BY <2>1, <2>3, <2>4 DEF AddressInv
<1> QED BY <1>2, <1>3, <1>4, NoPatch DEF Next

(* One Google account signs in to one user, where Google reports one       *)
(* address for it and no address changes: the uniqueness that no index of  *)
(* oauth_accounts states.                                                  *)
THEOREM OwnersSole ==
  ASSUME "patch" \notin Kinds, OneAddress
  PROVE  Spec => []SoleOwner
<1>1. Init => AddressInv
  BY DEF Init, AddressInv, Settled, Idle
<1>2. IInv /\ AddressInv /\ [Next]_vars => AddressInv'
  BY AddressNext
<1>3. IInv /\ AddressInv => SoleOwner
  <2> SUFFICES ASSUME IInv, AddressInv, NEW g \in GoogleIds,
                      NEW u \in Owners(g), NEW v \in Owners(g)
               PROVE  u = v
    BY DEF SoleOwner, Ambiguous
  <2>1. <<u, g>> \in links /\ <<v, g>> \in links /\ u \in UserIds /\ v \in UserIds
    BY DEF Owners
  <2>2. Live(u) /\ Live(v)
    BY <2>1 DEF IInv, TablesInv, NoOrphanLink
  <2>3. PICK d \in AddressOf[g] : Lower[users[u].email] = Lower[d]
    BY <2>1 DEF AddressInv
  <2>4. PICK e \in AddressOf[g] : Lower[users[v].email] = Lower[e]
    BY <2>1 DEF AddressInv
  <2>5. Lower[d] = Lower[e]
    BY <2>3, <2>4 DEF OneAddress
  <2> QED BY <2>1, <2>2, <2>3, <2>4, <2>5 DEF IInv, TablesInv, UniqueEmail
<1> QED BY <1>1, <1>2, <1>3, Invariant, PTL DEF Spec
=============================================================================
