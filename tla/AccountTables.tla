---------------------------- MODULE AccountTables ----------------------------
(***************************************************************************)
(* The tables behind the Host's accounts, users and oauth_accounts, and    *)
(* the consistency they must keep.  AccountDirectory says which changes    *)
(* the tables may undergo; HostAccounts says how the handlers of           *)
(* app/api/v1 make them.                                                   *)
(***************************************************************************)
CONSTANTS
  Emails,     \* address spellings, as typed
  Lower,      \* Lower[e]: the case-folded spelling of e
  UserIds,    \* primary keys (UUIDs) the database may ever hand out
  GoogleIds,  \* Google account ids
  Fresh,      \* value of a primary key never handed out
  Gone        \* value of a primary key whose row was deleted

Row == [email : Emails, verified : BOOLEAN, active : BOOLEAN]

ASSUME TablesAssumption ==
  /\ Lower \in [Emails -> Emails]
  /\ Fresh \notin Row /\ Gone \notin Row /\ Fresh # Gone

VARIABLES
  users,      \* the users table: primary key -> Fresh, Gone or a row
  links,      \* the oauth_accounts table: pairs <<user, Google account>>
  vouched     \* history: pairs <<Google account, address>> Google asserted

Live(u) == users[u] \notin {Fresh, Gone}

(* Users holding an address, whatever its case. *)
Holders(e) == {u \in UserIds : Live(u) /\ Lower[users[u].email] = Lower[e]}

(* Users a Google account is linked to. *)
Owners(g) == {u \in UserIds : <<u, g>> \in links}

Ambiguous(g) == \E u, v \in Owners(g) : u # v

-----------------------------------------------------------------------------

(* The tables are well formed: app/models/user.py, app/models/oauth_account.py. *)
TablesTypeOK ==
  /\ users \in [UserIds -> Row \cup {Fresh, Gone}]
  /\ links \subseteq UserIds \X GoogleIds
  /\ vouched \subseteq GoogleIds \X Emails

(* No two accounts share an address, whatever its case: the promise of     *)
(* ix_users_email_lower that register, PATCH and the Google callback rely  *)
(* on when they answer a losing request.                                   *)
UniqueEmail ==
  \A u, v \in UserIds :
    Live(u) /\ Live(v) /\ Lower[users[u].email] = Lower[users[v].email] => u = v

(* Every linked Google account belongs to an account that still exists:    *)
(* deleting a user leaves no oauth_accounts row behind, whatever callback  *)
(* was linking to it.                                                      *)
NoOrphanLink == \A l \in links : Live(l[1])

(* A verified account carries, spelled as Google spelled it, an address    *)
(* that Google asserted: no later change of address, in whatever order     *)
(* requests land, keeps the mark for an address nobody proved.             *)
VerifiedIsVouched ==
  \A u \in UserIds :
    Live(u) /\ users[u].verified =>
      \E g \in GoogleIds : <<g, users[u].email>> \in vouched
=============================================================================
