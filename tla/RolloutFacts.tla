----------------------------- MODULE RolloutFacts -----------------------------
(***************************************************************************)
(* What the revisions of migrations/versions do, one migration at a time   *)
(* and on their own: facts of the twelve scripts as Migrations has them,   *)
(* with no constant and no variable in them.  There are finitely many ways *)
(* from one position to another, so evaluating each fact decides it; TLC   *)
(* does so at the start of every run whose module extends this one.  What  *)
(* any number of pipelines and downgrades then make of them is proved in   *)
(* RolloutProofs.                                                          *)
(***************************************************************************)
EXTENDS Rollout

(* Every way between two positions works on the catalogue that a fresh     *)
(* database has at the first, and leads to the one it has at the second.   *)
ASSUME EveryWayLeads ==
  \A p, q \in Positions :
    Migrate(Fresh(p), p, q) = Fresh(q) /\ Migrate(Fresh(p), p, q) # Failed

(* The settings are columns of users before SettingsMove, and rows of      *)
(* user_settings from then on.                                             *)
ASSUME SettingsInOnePlace ==
  \A p \in Positions :
    /\ Column("users", "settings") \in Fresh(p) => p < SettingsMove
    /\ Table("event_creator", "user_settings") \in Fresh(p) => p >= SettingsMove

(* A migration that moves the settings, either way, locks users.           *)
ASSUME MovesLockUsers ==
  \A p, q \in Positions : (p < SettingsMove) # (q < SettingsMove) => Locks(p, q, "users")

(* A fresh database keeps the two roles apart at every position.           *)
ASSUME FreshRolesApart == \A p \in Positions : RolesApart(Fresh(p))
=============================================================================
