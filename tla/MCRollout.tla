------------------------------ MODULE MCRollout -------------------------------
(* Rollout with three commits, whose trees end before the separation of    *)
(* the schemas, at it, at the move of the settings or after it, and        *)
(* downgrades that undo one of these steps or nearly everything; the facts *)
(* about the revisions are evaluated along with it.                        *)
EXTENDS RolloutFacts

MCHeads ==
  {h \in [Commits -> {2, 10, 11, 12}] : \A c, d \in Commits : c <= d => h[c] <= h[d]}

MCTargets == {1, 10, 11}
=============================================================================
