----------------------------- MODULE Credentials -----------------------------
(***************************************************************************)
(* The password of one account: POST /auth/login, /auth/forgot-password    *)
(* and /auth/reset-password, as concurrent requests.  A reset token is     *)
(* stateless: a signed claim of the account and of a fingerprint of the    *)
(* password hash it was minted under.  Nothing records that it was used;   *)
(* it stops working because the hash it names is replaced.                 *)
(*                                                                         *)
(* A hash is [pw, salt, legacy]: no two hashes are ever equal, so a        *)
(* fingerprint names its salt; legacy marks one made under cost parameters *)
(* the hasher has since raised, which a login replaces.                    *)
(***************************************************************************)
EXTENDS Naturals

CONSTANTS
  Requests,       \* request processes that may run at the same time
  Passwords,      \* passwords people type
  Short,          \* those under MIN_PASSWORD_LENGTH
  Long,           \* those over the 72 bytes bcrypt 5 hashes; it raises on them
  FirstPassword,  \* the password the account was registered with
  LegacyHash,     \* whether that password's hash is a legacy one
  TokenIds,       \* reset links ever mailed (bound)
  MaxSalt,        \* hashes ever made (bound)
  None            \* absence of a field

ASSUME CredentialsAssumption ==
  /\ Short \subseteq Passwords
  /\ Long \subseteq Passwords \ Short
  /\ FirstPassword \in Passwords \ (Short \cup Long)
  /\ LegacyHash \in BOOLEAN
  /\ MaxSalt \in Nat \ {0}
  /\ None \notin TokenIds \cup Passwords

VARIABLES
  account,   \* the row of users: its existence, is_active and hashed_password
  tokens,    \* the links in the mailbox: fingerprint (0: not mailed), expiry, uses
  req,       \* per request: where it waits, and what it holds in memory
  reply,     \* the response the last step sent, if it sent one
  chosen     \* history: the password of the last reset that was committed

vars == <<account, tokens, req, reply, chosen>>

Account == [live : BOOLEAN, active : BOOLEAN, pw : Passwords,
            salt : 1..MaxSalt, legacy : BOOLEAN]

Token == [print : 0..MaxSalt, expired : BOOLEAN, uses : Nat]

Request == [pc : {"idle", "forgot_send", "reset_write", "login_rehash"},
            pw : Passwords \cup {None}, salt : 0..MaxSalt,
            token : TokenIds \cup {None}, late : BOOLEAN]

(* "unhashable": the ValueError of bcrypt, a 500 like "server_error". *)
Statuses == {"none", "notice", "reset_ok", "mismatch", "bad_token", "user_inactive",
             "invalid_password", "unhashable", "signed_in", "bad_credentials",
             "server_error"}

Idle == [pc |-> "idle", pw |-> None, salt |-> 0, token |-> None, late |-> FALSE]

TypeOK ==
  /\ account \in Account
  /\ tokens \in [TokenIds -> Token]
  /\ req \in [Requests -> Request]
  /\ reply \in [to : {"none", "forgot", "reset", "login"}, status : Statuses]
  /\ chosen \in Passwords

Init ==
  /\ account = [live |-> TRUE, active |-> TRUE, pw |-> FirstPassword,
                salt |-> 1, legacy |-> LegacyHash]
  /\ tokens = [t \in TokenIds |-> [print |-> 0, expired |-> FALSE, uses |-> 0]]
  /\ req = [r \in Requests |-> Idle]
  /\ reply = [to |-> "none", status |-> "none"]
  /\ chosen = FirstPassword

Await(r, q) ==
  /\ req' = [req EXCEPT ![r] = q]
  /\ reply' = [to |-> "none", status |-> "none"]

Respond(r, endpoint, status) ==
  /\ req' = [req EXCEPT ![r] = Idle]
  /\ reply' = [to |-> endpoint, status |-> status]

(* UPDATE users SET hashed_password, with a hash of pw made anew. *)
UnsaltedHash(pw) ==   \* mutant: equal passwords have equal hashes
  /\ account.salt < MaxSalt
  /\ account' = [account EXCEPT !.pw = pw, !.legacy = FALSE,
                                !.salt = IF pw = account.pw THEN @ ELSE @ + 1]

ClearedHash(pw) ==    \* mutant: the password is popped from the update before it is hashed
  /\ account.salt < MaxSalt
  /\ account' = [account EXCEPT !.pw = None, !.salt = @ + 1, !.legacy = FALSE]

StoreHash(pw) ==
  /\ account.salt < MaxSalt
  /\ account' = [account EXCEPT !.pw = pw, !.salt = @ + 1, !.legacy = FALSE]

-----------------------------------------------------------------------------
(* POST /api/v1/auth/forgot-password                                       *)

(* get_by_email, and the token minted for an account that is active. *)
ForgotLoad(r, known) ==
  /\ req[r].pc = "idle"
  /\ \/ /\ known /\ account.live /\ account.active
        /\ Await(r, [Idle EXCEPT !.pc = "forgot_send", !.salt = account.salt])
     \/ /\ ~(known /\ account.live /\ account.active)
        /\ Respond(r, "forgot", "notice")
  /\ UNCHANGED <<account, tokens, chosen>>

PropagatedEmailError == "server_error"   \* mutant: on_after_forgot_password raises

EmailError == "notice"

(* The link is handed to the email provider, which may refuse it. *)
ForgotSend(r) ==
  /\ req[r].pc = "forgot_send"
  /\ \/ /\ \E t \in TokenIds :
             /\ tokens[t].print = 0
             /\ tokens' = [tokens EXCEPT ![t].print = req[r].salt]
        /\ Respond(r, "forgot", "notice")
     \/ /\ Respond(r, "forgot", EmailError)
        /\ UNCHANGED tokens
  /\ UNCHANGED <<account, chosen>>

-----------------------------------------------------------------------------
(* POST /api/v1/auth/reset-password                                        *)

AnyFingerprint(t) == tokens[t].print # 0   \* mutant: only signature and expiry

(* The token's fingerprint is that of the hash loaded with the user. *)
FingerprintMatches(t) == tokens[t].print = account.salt

UncaughtInvalidPassword == "server_error"   \* mutant: not in the except clause

InvalidPassword == "invalid_password"

(* The checks, in the order the handler and reset_password make them.      *)
(* token None stands for a string that was never a token.                  *)
ResetVerdict(t, pw, confirmed) ==
  IF ~confirmed THEN "mismatch"
  ELSE IF t = None \/ ~account.live THEN "bad_token"
  ELSE IF tokens[t].expired \/ ~FingerprintMatches(t) THEN "bad_token"
  ELSE IF ~account.active THEN "user_inactive"
  ELSE IF pw \in Short THEN InvalidPassword
  ELSE IF pw \in Long THEN "unhashable"
  ELSE "accepted"

ResetCheck(r, t, pw, confirmed) ==
  /\ req[r].pc = "idle"
  /\ t # None => tokens[t].print # 0
  /\ \/ /\ ResetVerdict(t, pw, confirmed) = "accepted"
        /\ Await(r, [pc |-> "reset_write", pw |-> pw, salt |-> account.salt,
                     token |-> t, late |-> tokens[t].uses > 0])
     \/ /\ ResetVerdict(t, pw, confirmed) # "accepted"
        /\ Respond(r, "reset", ResetVerdict(t, pw, confirmed))
  /\ UNCHANGED <<account, tokens, chosen>>

(* The UPDATE does not look at the hash again; a row that is gone raises.  *)
ResetWrite(r) ==
  LET q == req[r] IN
  /\ q.pc = "reset_write"
  /\ \/ /\ ~account.live
        /\ Respond(r, "reset", "server_error")
        /\ UNCHANGED <<account, tokens, chosen>>
     \/ /\ account.live
        /\ StoreHash(q.pw)
        /\ tokens' = [tokens EXCEPT ![q.token].uses = @ + 1]
        /\ chosen' = q.pw
        /\ Respond(r, "reset", "reset_ok")

-----------------------------------------------------------------------------
(* POST /api/v1/auth/login                                                 *)

(* get_by_email and verify_and_update, which asks for a new hash when the  *)
(* stored one is a legacy one.  An unknown address costs a hash too, so a  *)
(* long password raises whatever the address.                              *)
LoginCheck(r, known, pw) ==
  /\ req[r].pc = "idle"
  /\ \/ /\ pw \in Long
        /\ Respond(r, "login", "unhashable")
     \/ /\ pw \notin Long
        /\ ~(known /\ account.live /\ account.active /\ pw = account.pw)
        /\ Respond(r, "login", "bad_credentials")
     \/ /\ known /\ account.live /\ account.active /\ pw = account.pw
        /\ \/ /\ account.legacy
              /\ Await(r, [Idle EXCEPT !.pc = "login_rehash", !.pw = pw])
           \/ /\ ~account.legacy
              /\ Respond(r, "login", "signed_in")
  /\ UNCHANGED <<account, tokens, chosen>>

(* user_db.update with the new hash of the password that was typed. *)
LoginRehash(r) ==
  /\ req[r].pc = "login_rehash"
  /\ \/ /\ ~account.live
        /\ Respond(r, "login", "server_error")
        /\ UNCHANGED account
     \/ /\ account.live
        /\ StoreHash(req[r].pw)
        /\ Respond(r, "login", "signed_in")
  /\ UNCHANGED <<tokens, chosen>>

-----------------------------------------------------------------------------
(* The environment                                                         *)

(* DELETE /users/me, an operator's switch, an hour passing, a stopped      *)
(* instance.                                                               *)
DeleteAccount ==
  /\ account.live
  /\ account' = [account EXCEPT !.live = FALSE]
  /\ reply' = [to |-> "none", status |-> "none"]
  /\ UNCHANGED <<tokens, req, chosen>>

SetActive(b) ==
  /\ account.live /\ account.active # b
  /\ account' = [account EXCEPT !.active = b]
  /\ reply' = [to |-> "none", status |-> "none"]
  /\ UNCHANGED <<tokens, req, chosen>>

Expire(t) ==
  /\ tokens[t].print # 0 /\ ~tokens[t].expired
  /\ tokens' = [tokens EXCEPT ![t].expired = TRUE]
  /\ reply' = [to |-> "none", status |-> "none"]
  /\ UNCHANGED <<account, req, chosen>>

Crash(r) ==
  /\ req[r].pc # "idle"
  /\ Await(r, Idle)
  /\ UNCHANGED <<account, tokens, chosen>>

Forgot(r) == (\E known \in BOOLEAN : ForgotLoad(r, known)) \/ ForgotSend(r)

Reset(r) ==
  \/ \E t \in TokenIds \cup {None}, pw \in Passwords, confirmed \in BOOLEAN :
       ResetCheck(r, t, pw, confirmed)
  \/ ResetWrite(r)

Login(r) ==
  \/ \E known \in BOOLEAN, pw \in Passwords : LoginCheck(r, known, pw)
  \/ LoginRehash(r)

Next ==
  \/ \E r \in Requests : Forgot(r) \/ Reset(r) \/ Login(r) \/ Crash(r)
  \/ DeleteAccount
  \/ \E b \in BOOLEAN : SetActive(b)
  \/ \E t \in TokenIds : Expire(t)

Spec == Init /\ [][Next]_vars

-----------------------------------------------------------------------------

(* A link that has reset the password once never passes the checks of a    *)
(* request that starts afterwards, although no record of its use is kept   *)
(* and whatever resets, logins and rehashes have run in between.           *)
SpentTokenRefused == \A r \in Requests : ~req[r].late

(* When a reset has answered, every other link is dead: those in the       *)
(* mailbox, and those a forgot-password request that loaded the account    *)
(* before the reset has still to mail.                                     *)
ResetRetiresLinks ==
  reply.status = "reset_ok" =>
    /\ \A t \in TokenIds : ~FingerprintMatches(t)
    /\ \A r \in Requests : req[r].pc = "forgot_send" => req[r].salt # account.salt

(* POST /forgot-password answers every address alike: known, unknown,      *)
(* deleted, deactivated, or one the email provider refuses.                *)
ForgotAnswersAlike == reply.to = "forgot" => reply.status = "notice"

(* Neither reset nor login lets an exception of the database or of the     *)
(* token check out unless the account was deleted between two statements.  *)
ErrorMeansDeleted == reply.status = "server_error" => ~account.live

(* "Your password has been reset.": the password last chosen in a reset is *)
(* the one the account has.                                                *)
ResetSticks == account.pw = chosen
=============================================================================
