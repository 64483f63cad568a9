----------------------------- MODULE RegistryView -----------------------------
(***************************************************************************)
(* What a hosted app may believe about the app registry, whatever happens  *)
(* between it and the Host: nothing but its own entry until its first      *)
(* refresh, then always one of the registries the Host has published, and  *)
(* never its own entry alone again while its process lives.  RegistrySync, *)
(* where refreshing means tokens, requests, answers and roll-outs,         *)
(* implements this module.                                                 *)
(***************************************************************************)
EXTENDS Naturals

CONSTANTS
  Consumers,  \* processes of hosted apps
  MaxVersion, \* registries the Host ever publishes are 0..MaxVersion (bound)
  SelfOnly    \* the view that holds just the consumer's own AppEntry, no version

Versions == 0..MaxVersion

VARIABLES
  published,  \* the registries the Host has ever served
  up,         \* which consumers run
  cache       \* what list_apps() answers in each of them

viewVars == <<published, up, cache>>

Init ==
  /\ published = {0}
  /\ up = [c \in Consumers |-> FALSE]
  /\ cache = [c \in Consumers |-> SelfOnly]

Publish(v) ==
  /\ published' = published \cup {v}
  /\ UNCHANGED <<up, cache>>

(* A process starts on its own entry, the one thing it can vouch for. *)
Start(c) ==
  /\ ~up[c]
  /\ up' = [up EXCEPT ![c] = TRUE]
  /\ cache' = [cache EXCEPT ![c] = SelfOnly]
  /\ UNCHANGED published

Stop(c) ==
  /\ up[c]
  /\ up' = [up EXCEPT ![c] = FALSE]
  /\ UNCHANGED <<published, cache>>

(* The cache is replaced as a whole, by one registry the Host served. *)
Refresh(c) ==
  /\ up[c]
  /\ \E v \in published : cache' = [cache EXCEPT ![c] = v]
  /\ UNCHANGED <<published, up>>

Next ==
  \/ \E v \in Versions : Publish(v)
  \/ \E c \in Consumers : Start(c) \/ Stop(c) \/ Refresh(c)

Spec == Init /\ [][Next]_viewVars
=============================================================================
