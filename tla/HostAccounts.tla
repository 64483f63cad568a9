----------------------------- MODULE HostAccounts -----------------------------
(***************************************************************************)
(* The Host's account endpoints as they run: POST /auth/register,          *)
(* GET /auth/google/callback, PATCH and DELETE /users/me.  Each request    *)
(* is a process of its own (Cloud Run runs several instances) and each     *)
(* await on the database is a point where other requests run: a handler    *)
(* reads, waits, and writes on the strength of what it read.  The database *)
(* is READ COMMITTED, one session per request, so every statement sees     *)
(* what is committed when it runs.                                         *)
(***************************************************************************)
EXTENDS AccountTables

CONSTANTS
  Requests,   \* request processes that may run at the same time
  AddressOf,  \* AddressOf[g]: the addresses Google may report for account g
  Kinds,      \* the endpoints in use
  None        \* absence of a field

ASSUME HostAssumption ==
  /\ AddressOf \in [GoogleIds -> SUBSET Emails]
  /\ Kinds \subseteq {"register", "google", "patch", "delete", "operator"}
  /\ None \notin UserIds \cup Emails \cup GoogleIds \cup Row

VARIABLES
  req,        \* per request: where it waits, and what it holds in memory
  reply       \* the response the last step sent, if it sent one

vars == <<users, links, vouched, req, reply>>

(* Where a handler waits: before its INSERT, UPDATE, DELETE or next SELECT. *)
Waits == {"register_insert", "patch_check", "patch_write", "delete_write",
          "google_email", "google_create", "google_link", "google_touch"}

(* "created" 201, "updated", "deleted", "signed_in" 302 /profile;          *)
(* "exists" 400, "bad_password" 400, "unauthorized" 401, "auth_failed" 302 *)
(* back to the form, "server_error" a database exception no handler        *)
(* catches, "unhashable" the ValueError of bcrypt, uncaught too.           *)
Statuses == {"created", "updated", "deleted", "signed_in", "exists", "bad_password",
             "unhashable", "unauthorized", "auth_failed", "server_error"}

(* A password under MIN_PASSWORD_LENGTH, within bcrypt's 72 bytes, or over. *)
Sizes == {"short", "fits", "long"}

Request == [pc : Waits \cup {"idle"}, user : UserIds \cup {None},
            email : Emails \cup {None}, google : GoogleIds \cup {None},
            snap : Row \cup {None}]

Response == [status : Statuses \cup {"none"}, user : UserIds \cup {None},
             email : Emails \cup {None}, google : GoogleIds \cup {None}]

Idle == [pc |-> "idle", user |-> None, email |-> None, google |-> None, snap |-> None]

Silence == [status |-> "none", user |-> None, email |-> None, google |-> None]

TypeOK ==
  /\ TablesTypeOK
  /\ req \in [Requests -> Request]
  /\ reply \in Response

Init ==
  /\ users = [u \in UserIds |-> Fresh]
  /\ links = {}
  /\ vouched = {}
  /\ req = [r \in Requests |-> Idle]
  /\ reply = Silence

(* The handler suspends at an await. *)
Await(r, pc, u, e, g, row) ==
  /\ req' = [req EXCEPT ![r] = [pc |-> pc, user |-> u, email |-> e,
                                google |-> g, snap |-> row]]
  /\ reply' = Silence

(* The handler returns or raises: its session and its memory are gone. *)
Respond(r, status, u, e, g) ==
  /\ req' = [req EXCEPT ![r] = Idle]
  /\ reply' = [status |-> status, user |-> u, email |-> e, google |-> g]

Tables == <<users, links, vouched>>

-----------------------------------------------------------------------------
(* What the database and its mapper do                                     *)

(* The unique index on lower(email), for a row written under key self. *)
CaseSensitiveIndex(e, self) ==   \* mutant: the mixin's plain index is kept
  \A u \in UserIds : Live(u) /\ users[u].email = e => u = self

NoIndex(e, self) == TRUE         \* mutant: nothing but the handlers' lookups

IndexAllows(e, self) == Holders(e) \subseteq {self}

(* INSERT INTO users, under a key never used before. *)
InsertUser(u, e, v) ==
  /\ users[u] = Fresh
  /\ users' = [users EXCEPT ![u] = [email |-> e, active |-> TRUE, verified |-> v]]

(* The row an UPDATE of the address leaves.  A changed address resets      *)
(* is_verified in memory; the statement names a column only when its new   *)
(* value differs from the loaded one, snap's.                              *)
KeepVerified(row, snap, e) == [row EXCEPT !.email = e]   \* mutant

WriteBackLoaded(row, snap, e) == \* mutant: the statement names every column
  [snap EXCEPT !.email = e, !.verified = FALSE]

UpdatedRow(row, snap, e) ==
  [row EXCEPT !.email = e, !.verified = IF snap.verified THEN FALSE ELSE @]

(* ON DELETE CASCADE of oauth_accounts.user_id. *)
NoCascade(u) == UNCHANGED links  \* mutant

CascadeDelete(u) == links' = {l \in links : l[1] # u}

(* How register answers a refused INSERT, and PATCH a row that is gone. *)
UncaughtIntegrityError == "server_error"   \* mutant: only UserAlreadyExists is caught

RefusedInsert == "exists"

CaughtMissingRow == "exists"               \* mutant: every database error is caught

MissingRow == "server_error"

-----------------------------------------------------------------------------
(* POST /api/v1/auth/register                                              *)

(* UserManager.create up to the INSERT: validate_password, get_by_email,   *)
(* and the hash, which bcrypt 5 refuses to make of a long password.        *)
RegisterCheck(r, e, size) ==
  /\ "register" \in Kinds
  /\ req[r].pc = "idle"
  /\ \/ /\ size = "short"
        /\ Respond(r, "bad_password", None, e, None)
     \/ /\ size # "short"
        /\ Holders(e) # {}
        /\ Respond(r, "exists", None, e, None)
     \/ /\ size = "long"
        /\ Holders(e) = {}
        /\ Respond(r, "unhashable", None, e, None)
     \/ /\ size = "fits"
        /\ Holders(e) = {}
        /\ Await(r, "register_insert", None, e, None, None)
  /\ UNCHANGED Tables

(* INSERT and commit.  The unique index on lower(email) refuses the row    *)
(* when another request has committed the address since: IntegrityError.   *)
RegisterInsert(r) ==
  LET e == req[r].email IN
  /\ req[r].pc = "register_insert"
  /\ \/ /\ ~IndexAllows(e, None)
        /\ Respond(r, RefusedInsert, None, e, None)
        /\ UNCHANGED users
     \/ /\ IndexAllows(e, None)
        /\ \E u \in UserIds :
             InsertUser(u, e, FALSE) /\ Respond(r, "created", u, e, None)
  /\ UNCHANGED <<links, vouched>>

-----------------------------------------------------------------------------
(* PATCH /api/v1/users/me                                                  *)

(* current_user(active=True) loads the row the request works on.  Any user *)
(* may hold a session: who registered logs in, and who was created by      *)
(* Google's sign-in, answered or not, can have the password reset.  An     *)
(* address equal to the loaded one is not looked up again.                 *)
PatchLoad(r, u, e) ==
  /\ "patch" \in Kinds
  /\ req[r].pc = "idle"
  /\ users[u] # Fresh
  /\ \/ /\ Live(u) /\ users[u].active
        /\ Await(r, IF e = users[u].email THEN "patch_write" ELSE "patch_check",
                 u, e, None, users[u])
     \/ /\ ~(Live(u) /\ users[u].active)
        /\ Respond(r, "unauthorized", u, e, None)
  /\ UNCHANGED Tables

(* UserManager._update: a changed address must not be anybody's, the       *)
(* caller's own address in another case included.                          *)
PatchCheck(r) ==
  LET q == req[r] IN
  /\ q.pc = "patch_check"
  /\ \/ /\ Holders(q.email) # {}
        /\ Respond(r, "exists", q.user, q.email, None)
     \/ /\ Holders(q.email) = {}
        /\ Await(r, "patch_write", q.user, q.email, None, q.snap)
  /\ UNCHANGED Tables

(* user_db.update: the UPDATE names only the columns whose new value       *)
(* differs from the loaded one; then the row is read back.  A row deleted  *)
(* meanwhile makes either statement raise.                                 *)
PatchWrite(r) ==
  LET q == req[r] IN
  /\ q.pc = "patch_write"
  /\ \/ /\ ~Live(q.user)
        /\ Respond(r, MissingRow, q.user, q.email, None)
        /\ UNCHANGED users
     \/ /\ Live(q.user)
        /\ q.email = q.snap.email
        /\ Respond(r, "updated", q.user, q.email, None)
        /\ UNCHANGED users
     \/ /\ Live(q.user)
        /\ q.email # q.snap.email
        /\ ~IndexAllows(q.email, q.user)
        /\ Respond(r, "exists", q.user, q.email, None)
        /\ UNCHANGED users
     \/ /\ Live(q.user)
        /\ q.email # q.snap.email
        /\ IndexAllows(q.email, q.user)
        /\ users' = [users EXCEPT ![q.user] = UpdatedRow(@, q.snap, q.email)]
        /\ Respond(r, "updated", q.user, q.email, None)
  /\ UNCHANGED <<links, vouched>>

-----------------------------------------------------------------------------
(* DELETE /api/v1/users/me                                                 *)

DeleteLoad(r, u) ==
  /\ "delete" \in Kinds
  /\ req[r].pc = "idle"
  /\ users[u] # Fresh
  /\ \/ /\ Live(u) /\ users[u].active
        /\ Await(r, "delete_write", u, None, None, users[u])
     \/ /\ ~(Live(u) /\ users[u].active)
        /\ Respond(r, "unauthorized", u, None, None)
  /\ UNCHANGED Tables

(* DELETE and commit; the foreign key takes the links along.  A row that   *)
(* is already gone is not an error.                                        *)
DeleteWrite(r) ==
  LET u == req[r].user IN
  /\ req[r].pc = "delete_write"
  /\ users' = [users EXCEPT ![u] = Gone]
  /\ CascadeDelete(u)
  /\ Respond(r, "deleted", u, None, None)
  /\ UNCHANGED vouched

-----------------------------------------------------------------------------
(* GET /api/v1/auth/google/callback, once Google has answered the exchange *)

(* get_by_oauth_account: one row, no row, or MultipleResultsFound. *)
GoogleLookup(r, g, e) ==
  /\ "google" \in Kinds
  /\ req[r].pc = "idle"
  /\ e \in AddressOf[g]
  /\ vouched' = vouched \cup {<<g, e>>}
  /\ \/ /\ Ambiguous(g)
        /\ Respond(r, "server_error", None, e, g)
     \/ \E u \in UserIds :
          /\ Owners(g) = {u}
          /\ Await(r, "google_touch", u, e, g, users[u])
     \/ /\ Owners(g) = {}
        /\ Await(r, "google_email", None, e, g, None)
  /\ UNCHANGED <<users, links>>

(* get_by_email, under associate_by_email=True. *)
RefuseAssociation(r) ==          \* mutant: associate_by_email left at False
  LET q == req[r] IN
  /\ q.pc = "google_email"
  /\ \/ /\ Holders(q.email) # {}
        /\ Respond(r, "auth_failed", None, q.email, q.google)
     \/ /\ Holders(q.email) = {}
        /\ Await(r, "google_create", None, q.email, q.google, None)
  /\ UNCHANGED Tables

GoogleByEmail(r) ==
  LET q == req[r] IN
  /\ q.pc = "google_email"
  /\ \/ \E u \in Holders(q.email) : Await(r, "google_link", u, q.email, q.google, None)
     \/ /\ Holders(q.email) = {}
        /\ Await(r, "google_create", None, q.email, q.google, None)
  /\ UNCHANGED Tables

(* user_db.create with is_verified_by_default=True: the first of the two   *)
(* commits a first sign-in makes.  Losing the race is IntegrityError.      *)
GoogleCreate(r) ==
  LET q == req[r] IN
  /\ q.pc = "google_create"
  /\ \/ /\ ~IndexAllows(q.email, None)
        /\ Respond(r, "auth_failed", None, q.email, q.google)
        /\ UNCHANGED users
     \/ /\ IndexAllows(q.email, None)
        /\ \E u \in UserIds :
             /\ InsertUser(u, q.email, TRUE)
             /\ Await(r, "google_link", u, q.email, q.google, None)
  /\ UNCHANGED <<links, vouched>>

(* add_oauth_account: refresh the user, INSERT the link, commit.  A user   *)
(* deleted before the refresh raises out of the handler; one deleted       *)
(* between refresh and INSERT breaks the foreign key, IntegrityError.      *)
GoogleLink(r) ==
  LET q == req[r] IN
  /\ q.pc = "google_link"
  /\ \/ /\ ~Live(q.user)
        /\ \E s \in {"server_error", "auth_failed"} :
             Respond(r, s, q.user, q.email, q.google)
        /\ UNCHANGED links
     \/ /\ Live(q.user)
        /\ links' = links \cup {<<q.user, q.google>>}
        /\ Respond(r, IF users[q.user].active THEN "signed_in" ELSE "auth_failed",
                   q.user, q.email, q.google)
  /\ UNCHANGED <<users, vouched>>

LinkAssumed(u, g) == TRUE        \* mutant: rows matched by the UPDATE are not counted

LinkStands(u, g) == <<u, g>> \in links

(* update_oauth_account: the stored tokens are rewritten.  A link deleted  *)
(* meanwhile raises out of the handler; is_active is the loaded one.       *)
GoogleTouch(r) ==
  LET q == req[r] IN
  /\ q.pc = "google_touch"
  /\ \/ /\ ~LinkStands(q.user, q.google)
        /\ Respond(r, "server_error", q.user, q.email, q.google)
     \/ /\ LinkStands(q.user, q.google)
        /\ Respond(r, IF q.snap.active THEN "signed_in" ELSE "auth_failed",
                   q.user, q.email, q.google)
  /\ UNCHANGED Tables

-----------------------------------------------------------------------------
(* The environment                                                         *)

(* The instance serving a request is stopped: no response, no further      *)
(* statement; what is committed stays.                                     *)
Crash(r) ==
  /\ req[r].pc # "idle"
  /\ req' = [req EXCEPT ![r] = Idle]
  /\ reply' = Silence
  /\ UNCHANGED Tables

(* is_active is read by this code and written only by an operator. *)
SetActive(u, b) ==
  /\ "operator" \in Kinds
  /\ Live(u)
  /\ users[u].active # b
  /\ users' = [users EXCEPT ![u].active = b]
  /\ reply' = Silence
  /\ UNCHANGED <<links, vouched, req>>

Register(r) ==
  \/ \E e \in Emails, size \in Sizes : RegisterCheck(r, e, size)
  \/ RegisterInsert(r)

Patch(r) ==
  \/ \E u \in UserIds, e \in Emails : PatchLoad(r, u, e)
  \/ PatchCheck(r)
  \/ PatchWrite(r)

Delete(r) ==
  \/ \E u \in UserIds : DeleteLoad(r, u)
  \/ DeleteWrite(r)

Google(r) ==
  \/ \E g \in GoogleIds, e \in Emails : GoogleLookup(r, g, e)
  \/ GoogleByEmail(r)
  \/ GoogleCreate(r)
  \/ GoogleLink(r)
  \/ GoogleTouch(r)

Next ==
  \/ \E r \in Requests : Register(r) \/ Patch(r) \/ Delete(r) \/ Google(r) \/ Crash(r)
  \/ \E u \in UserIds, b \in BOOLEAN : SetActive(u, b)

Spec == Init /\ [][Next]_vars

(* A person turned away by Google sign-in tries again, and a platform that *)
(* stops instances does not stop every attempt of one Google account at    *)
(* the same await: strong fairness, await by await.                        *)
Fairness ==
  /\ \A g \in GoogleIds :
       /\ SF_vars(\E r \in Requests, e \in Emails : GoogleLookup(r, g, e))
       /\ \A r \in Requests :
            /\ SF_vars(req[r].google = g /\ GoogleByEmail(r))
            /\ SF_vars(req[r].google = g /\ GoogleCreate(r))
            /\ SF_vars(req[r].google = g /\ GoogleLink(r))
  /\ \A r \in Requests : WF_vars(RegisterInsert(r) \/ DeleteWrite(r) \/ GoogleTouch(r))

FairSpec == Spec /\ Fairness

-----------------------------------------------------------------------------

(* The handlers, with all their awaits, races and crashes, change the      *)
(* tables only as AccountDirectory allows.                                 *)
Dir == INSTANCE AccountDirectory
  WITH Emails <- Emails, Lower <- Lower, UserIds <- UserIds, GoogleIds <- GoogleIds,
       Fresh <- Fresh, Gone <- Gone, users <- users, links <- links, vouched <- vouched

ImplementsDirectory == Dir!Spec

(* A request is told that an address is taken only while an account really *)
(* holds it: register and PATCH turn UserAlreadyExists and IntegrityError  *)
(* alike into "already exists", and neither ever stands for another fault. *)
RefusalNamesHolder == reply.status = "exists" => Holders(reply.email) # {}

(* What a success response says is in the tables when it is sent: the      *)
(* account register returns, the account and link a Google sign-in logs in *)
(* to, whatever ran between the handler's statements.                      *)
SuccessIsStored ==
  /\ reply.status = "created" =>
       Live(reply.user) /\ users[reply.user].email = reply.email
  /\ reply.status = "updated" => Live(reply.user)
  /\ reply.status = "signed_in" => <<reply.user, reply.google>> \in links

(* A database exception leaves a handler only when the account was deleted *)
(* under it, or when one Google account is linked to several users.        *)
ServerErrorHasCause ==
  reply.status = "server_error" =>
    \/ reply.user # None /\ users[reply.user] = Gone
    \/ reply.google # None /\ Ambiguous(reply.google)

(* One Google account signs in to one user.  No index of oauth_accounts    *)
(* says so; it has to follow from what the callback looks up first.        *)
SoleOwner == \A g \in GoogleIds : ~Ambiguous(g)

(* A Google sign-in that a person keeps retrying ends linked to an         *)
(* account, also when an attempt was cut off between the commit of the new *)
(* user and the commit of its link, lost a race to POST /register, or its  *)
(* account was deleted: unless the model has run out of primary keys.      *)
SignInConverges ==
  \A g \in GoogleIds :
    (\E e \in Emails : <<g, e>> \in vouched)
      ~> (Owners(g) # {} \/ \A u \in UserIds : users[u] # Fresh)

=============================================================================
