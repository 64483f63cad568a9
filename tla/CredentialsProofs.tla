-------------------------- MODULE CredentialsProofs --------------------------
(***************************************************************************)
(* The stateless reset links, for any number of requests, links, passwords *)
(* and hashes.                                                             *)
(*                                                                         *)
(* Nothing in the state says that a link is spent.  TokensInv is what      *)
(* takes the place of such a record: every fingerprint ever mailed, or     *)
(* still to be mailed (Held), is of the present hash or of an earlier one, *)
(* and that of a link that was used is of an earlier one.  Salts only      *)
(* grow, so a dead link stays dead, whoever stores the next hash.          *)
(***************************************************************************)
EXTENDS Credentials, TLAPS

(* What a request holds in memory, against the tables as they are now. *)
Held(q) ==
  /\ q.pc \in {"reset_write", "login_rehash"} => q.pw \in Passwords
  /\ q.pc = "forgot_send" => q.salt \in 1..account.salt
  /\ q.pc = "reset_write" => q.token \in TokenIds /\ tokens[q.token].print # 0
  /\ ~q.late

HeldInv == \A r \in Requests : Held(req[r])

TokensInv ==
  \A t \in TokenIds :
    /\ tokens[t].print <= account.salt
    /\ tokens[t].uses > 0 => tokens[t].print \in 1..(account.salt - 1)

ReplyInv == ResetRetiresLinks /\ ForgotAnswersAlike /\ ErrorMeansDeleted

IInv == TypeOK /\ HeldInv /\ TokensInv /\ ReplyInv

-----------------------------------------------------------------------------

USE CredentialsAssumption

Replies == [to : {"none", "forgot", "reset", "login"}, status : Statuses]

LEMMA IdleHeld == Idle \in Request /\ Held(Idle) /\ Held(Idle)'
BY DEF Idle, Request, Held

LEMMA SaltsAreNat ==
  ASSUME TypeOK
  PROVE  /\ account.salt \in 1..MaxSalt /\ account.salt \in Nat
         /\ \A t \in TokenIds : tokens[t] \in Token /\ tokens[t].print \in Nat
                                /\ tokens[t].uses \in Nat
         /\ \A r \in Requests : req[r] \in Request /\ req[r].salt \in Nat
BY DEF TypeOK, Account, Token, Request

(* A request goes on, and the account and the links stay as they are. *)
LEMMA AwaitInv ==
  ASSUME IInv, NEW r \in Requests, NEW q \in Request, Held(q), Await(r, q),
         UNCHANGED <<account, tokens, chosen>>
  PROVE  IInv'
<1>1. /\ req' = [req EXCEPT ![r] = q]
      /\ reply' = [to |-> "none", status |-> "none"]
      /\ account' = account /\ tokens' = tokens /\ chosen' = chosen
  BY DEF Await
<1>2. TypeOK'
  BY <1>1 DEF IInv, TypeOK, Statuses
<1>3. HeldInv'
  BY <1>1 DEF IInv, TypeOK, HeldInv, Held
<1>4. TokensInv'
  BY <1>1 DEF IInv, TokensInv
<1>5. ReplyInv'
  BY <1>1 DEF ReplyInv, ResetRetiresLinks, ForgotAnswersAlike, ErrorMeansDeleted
<1> QED BY <1>2, <1>3, <1>4, <1>5 DEF IInv

(* A request answers without having written anything. *)
LEMMA RespondInv ==
  ASSUME IInv, NEW r \in Requests, NEW e \in {"forgot", "reset", "login"},
         NEW s \in Statuses, Respond(r, e, s),
         UNCHANGED <<account, tokens, chosen>>,
         s # "reset_ok", e = "forgot" => s = "notice",
         s = "server_error" => ~account.live
  PROVE  IInv'
<1>1. /\ req' = [req EXCEPT ![r] = Idle]
      /\ reply' = [to |-> e, status |-> s]
      /\ account' = account /\ tokens' = tokens /\ chosen' = chosen
  BY DEF Respond
<1>2. TypeOK'
  BY <1>1, IdleHeld DEF IInv, TypeOK
<1>3. HeldInv'
  BY <1>1, IdleHeld DEF IInv, TypeOK, HeldInv, Held
<1>4. TokensInv'
  BY <1>1 DEF IInv, TokensInv
<1>5. ReplyInv'
  BY <1>1 DEF ReplyInv, ResetRetiresLinks, ForgotAnswersAlike, ErrorMeansDeleted
<1> QED BY <1>2, <1>3, <1>4, <1>5 DEF IInv

LEMMA ForgotLoadInv ==
  ASSUME IInv, NEW r \in Requests, NEW known \in BOOLEAN, ForgotLoad(r, known)
  PROVE  IInv'
<1> DEFINE q == [Idle EXCEPT !.pc = "forgot_send", !.salt = account.salt]
<1>1. account.salt \in 0..MaxSalt /\ account.salt \in 1..account.salt
  BY SaltsAreNat DEF IInv
<1>2. q.pc = "forgot_send" /\ q.salt = account.salt /\ q.late = FALSE
  BY DEF Idle
<1>3. q \in Request /\ Held(q)
  <2>1. q \in Request
    BY <1>1, IdleHeld DEF Request
  <2> HIDE DEF q
  <2> QED BY <1>1, <1>2, <2>1 DEF Held
<1> HIDE DEF q
<1>4. Await(r, q) \/ Respond(r, "forgot", "notice")
  BY DEF ForgotLoad, q
<1> QED BY <1>3, <1>4, AwaitInv, RespondInv DEF ForgotLoad, Statuses

(* A link is mailed with the fingerprint that was loaded, old as it may be. *)
LEMMA ForgotSendInv ==
  ASSUME IInv, NEW r \in Requests, ForgotSend(r)
  PROVE  IInv'
<1>1. CASE Respond(r, "forgot", EmailError) /\ UNCHANGED <<account, tokens, chosen>>
  BY <1>1, RespondInv DEF EmailError, Statuses
<1>2. ASSUME NEW t \in TokenIds, tokens[t].print = 0,
             tokens' = [tokens EXCEPT ![t].print = req[r].salt],
             Respond(r, "forgot", "notice"), UNCHANGED <<account, chosen>>
      PROVE  IInv'
  <2>1. /\ req[r].salt \in 1..account.salt /\ req[r].salt \in 0..MaxSalt
        /\ account.salt \in Nat /\ req[r].salt \in Nat
    BY SaltsAreNat DEF ForgotSend, IInv, HeldInv, Held, Request
  <2>2. /\ tokens \in [TokenIds -> Token] /\ tokens[t].uses = 0
        /\ tokens'[t] = [tokens[t] EXCEPT !.print = req[r].salt]
        /\ \A w \in TokenIds : w # t => tokens'[w] = tokens[w]
    BY <1>2, SaltsAreNat DEF IInv, TypeOK, TokensInv
  <2>3. /\ tokens'[t] \in Token /\ tokens'[t].print = req[r].salt /\ tokens'[t].uses = 0
    BY <2>1, <2>2 DEF Token
  <2>4. /\ req' = [req EXCEPT ![r] = Idle] /\ reply' = [to |-> "forgot", status |-> "notice"]
        /\ account' = account /\ chosen' = chosen
    BY <1>2 DEF Respond
  <2>5. TypeOK'
    BY <1>2, <2>3, <2>4, IdleHeld DEF IInv, TypeOK, Statuses
  <2>6. HeldInv'
    <3> SUFFICES ASSUME NEW s \in Requests PROVE Held(req[s])'
      BY DEF HeldInv
    <3>1. CASE s = r
      BY <2>4, <3>1, IdleHeld DEF IInv, TypeOK, Idle, Held
    <3>2. CASE s # r
      <4>1. req'[s] = req[s] /\ Held(req[s])
        BY <2>4, <3>2 DEF IInv, TypeOK, HeldInv
      <4>2. ASSUME NEW w \in TokenIds, tokens[w].print # 0
            PROVE  tokens'[w].print # 0
        BY <1>2, <2>2, <4>2
      <4> QED BY <2>4, <4>1, <4>2 DEF Held
    <3> QED BY <3>1, <3>2
  <2>7. TokensInv'
    <3> SUFFICES ASSUME NEW w \in TokenIds
                 PROVE  /\ tokens'[w].print <= account.salt
                        /\ tokens'[w].uses > 0 => tokens'[w].print \in 1..(account.salt - 1)
      BY <2>4 DEF TokensInv
    <3>1. CASE w = t
      BY <2>1, <2>3, <3>1
    <3>2. CASE w # t
      BY <2>2, <3>2 DEF IInv, TokensInv
    <3> QED BY <3>1, <3>2
  <2>8. ReplyInv'
    BY <2>4 DEF ReplyInv, ResetRetiresLinks, ForgotAnswersAlike, ErrorMeansDeleted
  <2> QED BY <2>5, <2>6, <2>7, <2>8 DEF IInv
<1> QED BY <1>1, <1>2 DEF ForgotSend

(* A request whose token passes the checks carries the fingerprint of the  *)
(* present hash, which no used link has.                                   *)
LEMMA ResetCheckInv ==
  ASSUME IInv, NEW r \in Requests, NEW t \in TokenIds \cup {None}, NEW pw \in Passwords,
         NEW confirmed \in BOOLEAN, ResetCheck(r, t, pw, confirmed)
  PROVE  IInv'
<1>1. CASE ResetVerdict(t, pw, confirmed) = "accepted"
  <2> DEFINE q == [pc |-> "reset_write", pw |-> pw, salt |-> account.salt,
                   token |-> t, late |-> tokens[t].uses > 0]
  <2>1. Await(r, q) /\ UNCHANGED <<account, tokens, chosen>>
    BY <1>1 DEF ResetCheck
  <2>2. t \in TokenIds /\ tokens[t].print = account.salt
    BY <1>1 DEF ResetVerdict, FingerprintMatches, InvalidPassword
  <2>3. account.salt \in 1..MaxSalt /\ account.salt \in Nat /\ tokens[t].uses \in Nat
    BY <2>2, SaltsAreNat DEF IInv
  <2>4. ~(tokens[t].uses > 0)
    BY <2>2, <2>3 DEF IInv, TokensInv
  <2>5. q \in Request
    BY <2>2, <2>3 DEF Request
  <2>7. q.pc = "reset_write" /\ q.pw = pw /\ q.token = t /\ ~q.late
    BY <2>4
  <2> HIDE DEF q
  <2>6. q \in Request /\ Held(q)
    BY <2>2, <2>3, <2>5, <2>7 DEF Held
  <2> QED BY <2>1, <2>6, AwaitInv
<1>2. CASE ResetVerdict(t, pw, confirmed) # "accepted"
  <2>1. ResetVerdict(t, pw, confirmed) \in
          {"mismatch", "bad_token", "user_inactive", "invalid_password", "unhashable"}
    BY <1>2 DEF ResetVerdict, InvalidPassword
  <2> QED BY <1>2, <2>1, RespondInv DEF ResetCheck, Statuses
<1> QED BY <1>1, <1>2

(* A hash that is stored is younger than every fingerprint there is. *)
LEMMA StoreInv ==
  ASSUME IInv, NEW r \in Requests, NEW pw \in Passwords, StoreHash(pw), account.live,
         NEW e \in {"reset", "login"}, NEW s \in {"reset_ok", "signed_in"},
         Respond(r, e, s), chosen' \in Passwords,
         \/ tokens' = tokens
         \/ \E t \in TokenIds : tokens[t].print # 0
                                /\ tokens' = [tokens EXCEPT ![t].uses = @ + 1]
  PROVE  IInv'
<1>1. /\ account.salt \in Nat /\ account.salt < MaxSalt
      /\ account' \in Account /\ account'.salt = account.salt + 1 /\ account'.live
  <2>1. account.salt \in 1..MaxSalt /\ account.salt \in Nat /\ account.salt < MaxSalt
    BY SaltsAreNat DEF IInv, StoreHash
  <2>2. account.salt + 1 \in 1..MaxSalt
    BY <2>1
  <2>3. account \in Account
    BY DEF IInv, TypeOK
  <2>4. account' = [live |-> account.live, active |-> account.active, pw |-> pw,
                    salt |-> account.salt + 1, legacy |-> FALSE]
    BY <2>3 DEF StoreHash, Account
  <2> QED BY <2>1, <2>2, <2>3, <2>4 DEF Account
<1>2. req' = [req EXCEPT ![r] = Idle] /\ reply' = [to |-> e, status |-> s]
  BY DEF Respond
<1>3. ASSUME NEW t \in TokenIds
      PROVE  tokens'[t] \in Token /\ tokens'[t].print = tokens[t].print
             /\ (tokens'[t].uses > 0 => tokens[t].uses > 0 \/ tokens[t].print # 0)
  <2>1. tokens[t] \in Token
    BY DEF IInv, TypeOK
  <2>2. CASE tokens' = tokens
    BY <2>1, <2>2
  <2>3. ASSUME NEW w \in TokenIds, tokens[w].print # 0,
               tokens' = [tokens EXCEPT ![w].uses = @ + 1]
        PROVE  tokens'[t] \in Token /\ tokens'[t].print = tokens[t].print
               /\ (tokens'[t].uses > 0 => tokens[t].uses > 0 \/ tokens[t].print # 0)
    BY <2>1, <2>3 DEF IInv, TypeOK, Token
  <2> QED BY <2>2, <2>3
<1>4. tokens' \in [TokenIds -> Token]
  <2>1. tokens' = [t \in TokenIds |-> tokens'[t]]
    BY DEF IInv, TypeOK
  <2> QED BY <1>3, <2>1
<1>5. TypeOK'
  BY <1>1, <1>2, <1>4, IdleHeld DEF IInv, TypeOK, Statuses
<1>6. \A t \in TokenIds : tokens[t].print \in Nat /\ tokens[t].print <= account.salt
                          /\ (tokens[t].uses > 0 => tokens[t].print # 0)
  BY SaltsAreNat DEF IInv, TokensInv
<1>7. HeldInv'
  <2> SUFFICES ASSUME NEW q \in Requests PROVE Held(req[q])'
    BY DEF HeldInv
  <2>1. CASE q = r
    BY <1>2, <2>1, IdleHeld DEF IInv, TypeOK, Idle, Held
  <2>2. CASE q # r
    <3>1. req'[q] = req[q] /\ Held(req[q]) /\ req[q].salt \in Nat
      BY <1>2, <2>2, SaltsAreNat DEF IInv, TypeOK, HeldInv
    <3> QED BY <1>1, <1>3, <3>1 DEF Held
  <2> QED BY <2>1, <2>2
<1>8. TokensInv'
  BY <1>1, <1>3, <1>6 DEF TokensInv
<1>9. ReplyInv'
  <2>1. \A t \in TokenIds : ~FingerprintMatches(t)'
    BY <1>1, <1>3, <1>6 DEF FingerprintMatches
  <2>2. ASSUME NEW q \in Requests, req'[q].pc = "forgot_send"
        PROVE  req'[q].salt # account'.salt
    <3>1. q # r /\ req'[q] = req[q]
      BY <1>2, <2>2 DEF IInv, TypeOK, Idle
    <3>2. req[q].salt \in Nat /\ req[q].salt <= account.salt
      BY <2>2, <3>1, SaltsAreNat DEF IInv, HeldInv, Held
    <3> QED BY <1>1, <3>1, <3>2
  <2> QED BY <1>1, <1>2, <2>1, <2>2
          DEF ReplyInv, ResetRetiresLinks, ForgotAnswersAlike, ErrorMeansDeleted
<1> QED BY <1>5, <1>7, <1>8, <1>9 DEF IInv

LEMMA ResetWriteInv ==
  ASSUME IInv, NEW r \in Requests, ResetWrite(r)
  PROVE  IInv'
<1>1. req[r].pw \in Passwords /\ req[r].token \in TokenIds /\ tokens[req[r].token].print # 0
  BY DEF ResetWrite, IInv, HeldInv, Held
<1>2. CASE ~account.live
  BY <1>2, RespondInv DEF ResetWrite, Statuses
<1>3. CASE account.live
  BY <1>1, <1>3, StoreInv DEF ResetWrite
<1> QED BY <1>2, <1>3

LEMMA LoginCheckInv ==
  ASSUME IInv, NEW r \in Requests, NEW known \in BOOLEAN, NEW pw \in Passwords,
         LoginCheck(r, known, pw)
  PROVE  IInv'
<1> DEFINE q == [Idle EXCEPT !.pc = "login_rehash", !.pw = pw]
<1>0. q \in Request
  BY IdleHeld DEF Request
<1>1. q.pc = "login_rehash" /\ q.pw = pw /\ q.late = FALSE
  BY DEF Idle
<1>2. \/ Await(r, q)
      \/ \E s \in {"unhashable", "bad_credentials", "signed_in"} : Respond(r, "login", s)
  BY DEF LoginCheck
<1> HIDE DEF q
<1>3. Held(q)
  BY <1>1 DEF Held
<1> QED BY <1>0, <1>2, <1>3, AwaitInv, RespondInv DEF LoginCheck, Statuses

LEMMA LoginRehashInv ==
  ASSUME IInv, NEW r \in Requests, LoginRehash(r)
  PROVE  IInv'
<1>1. req[r].pw \in Passwords
  BY DEF LoginRehash, IInv, HeldInv, Held
<1>2. CASE ~account.live
  BY <1>2, RespondInv DEF LoginRehash, Statuses
<1>3. CASE account.live
  <2>1. tokens' = tokens /\ chosen' \in Passwords
    BY DEF LoginRehash, IInv, TypeOK
  <2> QED BY <1>1, <1>3, <2>1, StoreInv DEF LoginRehash
<1> QED BY <1>2, <1>3

(* Deletion, an operator and time touch neither salts nor fingerprints. *)
LEMMA EnvironmentInv ==
  ASSUME IInv,
         DeleteAccount \/ (\E b \in BOOLEAN : SetActive(b)) \/ (\E t \in TokenIds : Expire(t))
  PROVE  IInv'
<1>1. /\ req' = req /\ chosen' = chosen /\ reply' = [to |-> "none", status |-> "none"]
      /\ account' \in Account /\ account'.salt = account.salt
  BY DEF IInv, TypeOK, Account, DeleteAccount, SetActive, Expire
<1>2. ASSUME NEW t \in TokenIds
      PROVE  tokens'[t] \in Token /\ tokens'[t].print = tokens[t].print
             /\ tokens'[t].uses = tokens[t].uses
  <2>1. tokens[t] \in Token
    BY DEF IInv, TypeOK
  <2>2. CASE tokens' = tokens
    BY <2>1, <2>2
  <2>3. ASSUME NEW w \in TokenIds, tokens' = [tokens EXCEPT ![w].expired = TRUE]
        PROVE  tokens'[t] \in Token /\ tokens'[t].print = tokens[t].print
               /\ tokens'[t].uses = tokens[t].uses
    <3>1. tokens'[t] = IF t = w THEN [tokens[t] EXCEPT !.expired = TRUE] ELSE tokens[t]
      BY <2>3 DEF IInv, TypeOK
    <3> QED BY <2>1, <3>1 DEF Token
  <2> QED BY <2>2, <2>3 DEF DeleteAccount, SetActive, Expire
<1>3. tokens' \in [TokenIds -> Token]
  <2>1. tokens' = [t \in TokenIds |-> tokens'[t]]
    BY DEF IInv, TypeOK, DeleteAccount, SetActive, Expire
  <2> QED BY <1>2, <2>1
<1>4. TypeOK'
  BY <1>1, <1>3 DEF IInv, TypeOK, Statuses
<1>5. HeldInv'
  BY <1>1, <1>2 DEF IInv, HeldInv, Held
<1>6. TokensInv'
  BY <1>1, <1>2 DEF IInv, TokensInv
<1>7. ReplyInv'
  BY <1>1 DEF ReplyInv, ResetRetiresLinks, ForgotAnswersAlike, ErrorMeansDeleted
<1> QED BY <1>4, <1>5, <1>6, <1>7 DEF IInv

LEMMA InitInv == Init => IInv
<1> SUFFICES ASSUME Init PROVE IInv
  OBVIOUS
<1>1. TypeOK
  BY IdleHeld DEF Init, TypeOK, Account, Token, Statuses
<1>2. HeldInv
  BY IdleHeld DEF Init, HeldInv, Held, Idle
<1>3. TokensInv
  BY DEF Init, TokensInv
<1>4. ReplyInv
  BY DEF Init, ReplyInv, ResetRetiresLinks, ForgotAnswersAlike, ErrorMeansDeleted
<1> QED BY <1>1, <1>2, <1>3, <1>4 DEF IInv

LEMMA NextInv == IInv /\ [Next]_vars => IInv'
<1> SUFFICES ASSUME IInv, [Next]_vars PROVE IInv'
  OBVIOUS
<1>1. CASE UNCHANGED vars
  BY <1>1 DEF vars, IInv, TypeOK, HeldInv, Held, TokensInv, ReplyInv, ResetRetiresLinks,
              ForgotAnswersAlike, ErrorMeansDeleted, FingerprintMatches
<1>2. ASSUME NEW r \in Requests, Forgot(r) PROVE IInv'
  BY <1>2, ForgotLoadInv, ForgotSendInv DEF Forgot
<1>3. ASSUME NEW r \in Requests, Reset(r) PROVE IInv'
  BY <1>3, ResetCheckInv, ResetWriteInv DEF Reset
<1>4. ASSUME NEW r \in Requests, Login(r) PROVE IInv'
  BY <1>4, LoginCheckInv, LoginRehashInv DEF Login
<1>5. ASSUME NEW r \in Requests, Crash(r) PROVE IInv'
  BY <1>5, IdleHeld, AwaitInv DEF Crash
<1> QED BY <1>1, <1>2, <1>3, <1>4, <1>5, EnvironmentInv DEF Next

LEMMA Invariant == Spec => []IInv
BY InitInv, NextInv, PTL DEF Spec

-----------------------------------------------------------------------------

(* The account, the mailbox, the requests' memories and the responses are  *)
(* well formed in every run.                                               *)
THEOREM TypeCorrect == Spec => []TypeOK
<1>1. IInv => TypeOK
  BY DEF IInv
<1> QED BY <1>1, Invariant, PTL

(* A link that has reset the password never passes the checks of a later   *)
(* reset request, however many links, resets and rehashes there are.       *)
THEOREM SpentIsRefused == Spec => []SpentTokenRefused
<1>1. IInv => SpentTokenRefused
  BY DEF IInv, HeldInv, Held, SpentTokenRefused
<1> QED BY <1>1, Invariant, PTL

(* When a reset answers, no link works any more, mailed or to be mailed.   *)
THEOREM LinksRetired == Spec => []ResetRetiresLinks
<1>1. IInv => ResetRetiresLinks
  BY DEF IInv, ReplyInv
<1> QED BY <1>1, Invariant, PTL

(* Forgot-password has one answer, whatever the address and the provider.  *)
THEOREM AnswersAlike == Spec => []ForgotAnswersAlike
<1>1. IInv => ForgotAnswersAlike
  BY DEF IInv, ReplyInv
<1> QED BY <1>1, Invariant, PTL

(* Login and reset end in a database error only on a deleted account.      *)
THEOREM ErrorExplained == Spec => []ErrorMeansDeleted
<1>1. IInv => ErrorMeansDeleted
  BY DEF IInv, ReplyInv
<1> QED BY <1>1, Invariant, PTL
=============================================================================
