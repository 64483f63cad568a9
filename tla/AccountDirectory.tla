-------------------------- MODULE AccountDirectory --------------------------
(***************************************************************************)
(* What the Host promises about its accounts, whatever the requests that   *)
(* are in flight: the directory of users and of linked Google accounts as  *)
(* one atomic object.  Each action is one row-level change a client of the *)
(* database could observe.  HostAccounts, where the same changes are made  *)
(* by handlers that read, wait and write, implements this module.          *)
(***************************************************************************)
EXTENDS AccountTables

dirVars == <<users, links, vouched>>

Init ==
  /\ users = [u \in UserIds |-> Fresh]
  /\ links = {}
  /\ vouched = {}

(* Google asserts that account g owns address e. *)
Vouch(g, e) ==
  /\ vouched' = vouched \cup {<<g, e>>}
  /\ UNCHANGED <<users, links>>

(* A new account; it starts verified only for an address Google asserted. *)
Enrol(u, e, v) ==
  /\ users[u] = Fresh
  /\ Holders(e) = {}
  /\ v => \E g \in GoogleIds : <<g, e>> \in vouched
  /\ users' = [users EXCEPT ![u] = [email |-> e, verified |-> v, active |-> TRUE]]
  /\ UNCHANGED <<links, vouched>>

(* A change of address always costs the account its verified mark. *)
Rename(u, e) ==
  /\ Live(u)
  /\ Holders(e) \subseteq {u}
  /\ users' = [users EXCEPT ![u].email = e, ![u].verified = FALSE]
  /\ UNCHANGED <<links, vouched>>

(* An account and its links leave together. *)
Remove(u) ==
  /\ Live(u)
  /\ users' = [users EXCEPT ![u] = Gone]
  /\ links' = {l \in links : l[1] # u}
  /\ UNCHANGED vouched

(* A Google account is attached to an account that exists. *)
Link(u, g) ==
  /\ Live(u)
  /\ \E e \in Emails : <<g, e>> \in vouched
  /\ links' = links \cup {<<u, g>>}
  /\ UNCHANGED <<users, vouched>>

(* An operator suspends or restores an account. *)
SetActive(u, b) ==
  /\ Live(u)
  /\ users' = [users EXCEPT ![u].active = b]
  /\ UNCHANGED <<links, vouched>>

Next ==
  \/ \E g \in GoogleIds, e \in Emails : Vouch(g, e)
  \/ \E u \in UserIds, e \in Emails, v \in BOOLEAN : Enrol(u, e, v)
  \/ \E u \in UserIds, e \in Emails : Rename(u, e)
  \/ \E u \in UserIds : Remove(u)
  \/ \E u \in UserIds, g \in GoogleIds : Link(u, g)
  \/ \E u \in UserIds, b \in BOOLEAN : SetActive(u, b)

Spec == Init /\ [][Next]_dirVars
=============================================================================
