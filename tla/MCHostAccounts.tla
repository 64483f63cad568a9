---------------------------- MODULE MCHostAccounts ----------------------------
(* HostAccounts on a small instance: addresses a and A differ only by case, *)
(* b is another address; each Google account reports one address.          *)
EXTENDS HostAccounts, TLC

CONSTANTS a, A, b, g1, g2

MCLower == [e \in Emails |-> IF e = A THEN a ELSE e]

MCAddressOf == [g \in GoogleIds |-> IF g = g1 THEN {a} ELSE {b}]

(* Who surely has a session to PATCH with: whoever registered with a        *)
(* password (only Google's create makes a user verified), and whoever a     *)
(* callback has answered for, which it does on inserting the link.          *)
HasSession(u) == ~users[u].verified \/ \E g \in GoogleIds : <<u, g>> \in links

PatchedInSession ==
  \A r \in Requests :
    req[r].pc = "idle" /\ req'[r].pc \in {"patch_check", "patch_write"}
      => HasSession(req'[r].user)

(* Only some of the behaviours of Spec: those in which nobody needs a       *)
(* session from anywhere else.                                              *)
SessionSpec == Init /\ [][Next /\ PatchedInSession]_vars

Symmetry == Permutations(Requests) \cup Permutations(UserIds)
=============================================================================
