---------------------------- MODULE RolloutProofs ----------------------------
(***************************************************************************)
(* For any number of commits and downgrades: the serving revision's schema *)
(* is there, and the registry endpoint's setting is missing for a reason.  *)
(*                                                                         *)
(* That the serving revision has its schema follows from the order of its  *)
(* own pipeline only as long as no other pipeline can take the schema back *)
(* between two steps of this one. IInv says so of every commit that has    *)
(* migrated, serving or not: pipelines only ever move the schema forward,  *)
(* from the revision they read to that of their tree (PlanInv), and a      *)
(* revision that was read is still there when they commit (LockInv).       *)
(***************************************************************************)
EXTENDS RolloutFacts, TLAPS

Done == {"migrated", "tested", "deployed", "wired"}

MigratedInv == \A c \in Commits : step[c] \in Done => c \in undone \/ head[c] <= at

LockInv ==
  /\ \A r \in Runners : InTransaction(r) => at = plan[r].from
  /\ \A q, r \in Runners : InTransaction(q) /\ InTransaction(r) => q = r

PlanInv ==
  /\ step[Operator] \in {"waiting", "begun", "executed"}
  /\ \A c \in Commits : step[c] \in {"begun", "executed"} =>
       plan[c].from < plan[c].to /\ plan[c].to = head[c]

ServingInv == step[serving] \in {"deployed", "wired"}

LandedInv == landed \in Seq(Commits) /\ landed # <<>>

IInv == /\ TypeOK /\ MigratedInv /\ LockInv /\ PlanInv /\ ServingInv
        /\ LandedInv /\ UnwiredHasCause

-----------------------------------------------------------------------------

USE RolloutAssumption

Plans == [from : Positions, to : Positions, copy : BOOLEAN \cup {None}]

LEMMA PositionsAreNat == Positions \subseteq Nat
BY DEF Positions

LEMMA Numbers ==
  ASSUME TypeOK
  PROVE  /\ at \in Nat /\ \A c \in Commits : head[c] \in Positions /\ head[c] \in Nat
         /\ Operator \notin Commits /\ Runners = Commits \cup {Operator}
<1>1. Heads \subseteq [Commits -> Positions]
  BY RolloutAssumption
<1>2. head \in [Commits -> Positions] /\ at \in Nat
  BY <1>1, PositionsAreNat DEF TypeOK
<1>3. Operator \notin Commits
  BY RolloutAssumption DEF Operator
<1> QED BY <1>2, <1>3, PositionsAreNat DEF Runners

LEMMA NoPlanTyped ==
  ASSUME TypeOK
  PROVE  NoPlan \in Plans /\ \A p, q \in Positions : [NoPlan EXCEPT !.from = p, !.to = q] \in Plans
<1>1. 0 \in Positions
  BY PositionsAreNat DEF TypeOK, Positions
<1> QED BY <1>1 DEF NoPlan, Plans

LEMMA BackfillTyped ==
  ASSUME TypeOK, NEW p
  PROVE  Backfill(p) \in BOOLEAN \cup {None}
BY DEF TypeOK, Backfill

(* The newest deployment is of a commit. *)
LEMMA LastTyped == LandedInv => Last(landed) \in Commits
BY DEF LandedInv, Last

LEMMA InitInv == Init => IInv
<1> SUFFICES ASSUME Init PROVE IInv
  OBVIOUS
<1>1. at \in Positions /\ 0 \in Positions
  <2>1. head \in [Commits -> Positions] /\ at = head[1] /\ 1 \in Commits
    BY RolloutAssumption DEF Init
  <2> QED BY <2>1, PositionsAreNat DEF Positions
<1>2. TypeOK
  <2>1. step \in [Runners -> Steps]
    BY DEF Init, Steps
  <2>2. plan \in [Runners -> [from : Positions, to : Positions, copy : BOOLEAN \cup {None}]]
    BY <1>1 DEF Init, NoPlan
  <2>3. column \in BOOLEAN \cup {None} /\ row \in BOOLEAN \cup {None}
    BY DEF Init
  <2>4. 0 \in 0..MaxDowngrades /\ 1 \in Commits
    BY RolloutAssumption
  <2>5. /\ head \in Heads /\ failed \subseteq Commits /\ serving \in Commits
        /\ wired \in BOOLEAN /\ downgrades \in 0..MaxDowngrades /\ undone \subseteq Commits
        /\ chosen \in BOOLEAN /\ racing \in BOOLEAN
    BY <2>4 DEF Init
  <2> QED BY <1>1, <2>1, <2>2, <2>3, <2>5 DEF TypeOK
<1>3. MigratedInv /\ LockInv /\ PlanInv
  BY <1>2, Numbers DEF Init, MigratedInv, LockInv, PlanInv, InTransaction, Done, Runners
<1>4. ServingInv /\ LandedInv /\ UnwiredHasCause
  BY DEF Init, ServingInv, LandedInv, UnwiredHasCause, Runners
<1> QED BY <1>2, <1>3, <1>4 DEF IInv

(* One runner goes on, or stops, and the database and the service stay as  *)
(* they are.                                                               *)
LEMMA RunnerInv ==
  ASSUME IInv, NEW r \in Runners, NEW s \in Steps, NEW p \in Plans,
         step' = [step EXCEPT ![r] = s], plan' = [plan EXCEPT ![r] = p],
         UNCHANGED <<head, database, service, undone, user>>,
         failed' \subseteq Commits, downgrades' \in 0..MaxDowngrades,
         r \in Commits /\ s \in Done => r \in undone \/ head[r] <= at,
         s = "executed" => at = p.from /\ \A q \in Runners : ~InTransaction(q),
         r = Operator => s \in {"waiting", "begun", "executed"},
         r \in Commits /\ s \in {"begun", "executed"} => p.from < p.to /\ p.to = head[r],
         step[r] \in {"deployed", "wired"} => s = step[r]
  PROVE  IInv'
<1>0. TypeOK /\ step \in [Runners -> Steps] /\ plan \in [Runners -> Plans]
      /\ Commits \subseteq Runners /\ Operator \in Runners
  BY DEF IInv, TypeOK, Plans, Runners
<1>1. step'[r] = s /\ plan'[r] = p
      /\ \A q \in Runners : q # r => step'[q] = step[q] /\ plan'[q] = plan[q]
  BY <1>0
<1>2. TypeOK'
  BY <1>0 DEF TypeOK, Plans, database, service, user
<1>3. MigratedInv'
  BY <1>0, <1>1 DEF IInv, MigratedInv, database
<1>4. LockInv'
  BY <1>0, <1>1 DEF IInv, LockInv, InTransaction, database
<1>5. PlanInv'
  BY <1>0, <1>1 DEF IInv, PlanInv
<1>6. ServingInv' /\ LandedInv'
  BY <1>0, <1>1 DEF IInv, ServingInv, LandedInv, service, TypeOK
<1>7. UnwiredHasCause'
  BY <1>0, <1>1, LastTyped DEF IInv, UnwiredHasCause, service
<1> QED BY <1>2, <1>3, <1>4, <1>5, <1>6, <1>7 DEF IInv

LEMMA FailInv ==
  ASSUME IInv, NEW r \in Runners, Fail(r), step[r] # "wired",
         UNCHANGED <<head, database, service, downgrades, undone, user>>
  PROVE  IInv'
<1> DEFINE s == IF step[r] \in {"begun", "executed"} THEN "waiting" ELSE step[r]
<1>1. TypeOK /\ step[r] \in Steps /\ s \in Steps /\ NoPlan \in Plans
  BY NoPlanTyped DEF IInv, TypeOK, Steps
<1>2. step' = [step EXCEPT ![r] = s] /\ plan' = [plan EXCEPT ![r] = NoPlan]
      /\ failed' \subseteq Commits
  BY <1>1 DEF Fail, TypeOK, Runners
<1>3. s = step[r] \/ s = "waiting"
  OBVIOUS
<1>4. r \in Commits /\ s \in Done => r \in undone \/ head[r] <= at
  BY <1>3 DEF IInv, MigratedInv, Done
<1>5. r = Operator => s = "waiting"
  BY DEF IInv, PlanInv
<1>6. s \notin {"begun", "executed"} /\ (step[r] \in {"deployed", "wired"} => s = step[r])
  OBVIOUS
<1>7. downgrades' \in 0..MaxDowngrades /\ UNCHANGED <<head, database, service, undone, user>>
  BY <1>1 DEF TypeOK
<1> HIDE DEF s
<1> QED BY <1>1, <1>2, <1>4, <1>5, <1>6, <1>7, RunnerInv

LEMMA ExecuteInv ==
  ASSUME IInv, NEW r \in Runners, Execute(r)
  PROVE  IInv'
<1>1. TypeOK /\ step[r] = "begun" /\ plan[r] \in Plans
      /\ UNCHANGED <<head, database, service, downgrades, undone, user>>
  BY DEF IInv, TypeOK, Execute, Plans
<1>2. CASE Runs(r)
  <2> DEFINE p == [plan[r] EXCEPT !.copy = Backfill(plan[r])]
  <2>1. p \in Plans /\ p.from = plan[r].from /\ p.to = plan[r].to
    BY <1>1, BackfillTyped DEF Plans
  <2>2. /\ step' = [step EXCEPT ![r] = "executed"]
        /\ plan' = [plan EXCEPT ![r].copy = Backfill(plan[r])] /\ failed' = failed
        /\ at = plan[r].from /\ \A q \in Runners : ~InTransaction(q)
    BY <1>2 DEF Execute, Runs
  <2>3. plan' = [plan EXCEPT ![r] = p]
    BY <2>2
  <2>4. r \in Commits => p.from < p.to /\ p.to = head[r]
    BY <1>1, <2>1 DEF IInv, PlanInv
  <2>5. failed' \subseteq Commits /\ downgrades' \in 0..MaxDowngrades /\ "executed" \in Steps
    BY <1>1, <2>2 DEF TypeOK, Steps
  <2>6. "executed" \notin Done
    BY DEF Done
  <2> HIDE DEF p
  <2> QED BY <1>1, <2>1, <2>2, <2>3, <2>4, <2>5, <2>6, RunnerInv
<1>3. CASE ~Runs(r)
  BY <1>1, <1>3, FailInv DEF Execute
<1> QED BY <1>2, <1>3

(* A plan begins at the revision that was read, or there is nothing to do. *)
LEMMA BeginInv ==
  ASSUME IInv, NEW r \in Runners, NEW goal \in Positions, Begin(r, goal),
         step[r] = "waiting",
         r \in Commits => goal = head[r] /\ at <= goal, r = Operator => goal < at,
         UNCHANGED <<head, database, service, undone, user>>,
         downgrades' \in 0..MaxDowngrades
  PROVE  IInv'
<1> DEFINE s == IF at = goal THEN "migrated" ELSE "begun"
           p == IF at = goal THEN NoPlan ELSE [NoPlan EXCEPT !.from = at, !.to = goal]
<1>1. TypeOK /\ at \in Positions /\ at \in Nat /\ goal \in Nat
  BY PositionsAreNat DEF IInv, TypeOK
<1>2. s \in Steps /\ p \in Plans /\ step' = [step EXCEPT ![r] = s]
      /\ plan' = [plan EXCEPT ![r] = p] /\ failed' \subseteq Commits
  BY <1>1, NoPlanTyped DEF Begin, Steps, TypeOK
<1>3. r \in Commits /\ s \in Done => head[r] <= at
  BY <1>1 DEF Done
<1>4. r = Operator => s = "begun"
  BY <1>1
<1>5. r \in Commits /\ s = "begun" => p.from < p.to /\ p.to = head[r]
  BY <1>1 DEF NoPlan
<1>6. s \in {"begun", "migrated"}
  OBVIOUS
<1> HIDE DEF s, p
<1> QED BY <1>2, <1>3, <1>4, <1>5, <1>6, RunnerInv

LEMMA DowngradeInv ==
  ASSUME IInv, Downgrade
  PROVE  IInv'
<1>1. PICK goal \in Targets : goal < at /\ Begin(Operator, goal)
  BY DEF Downgrade
<1>2. goal \in Positions /\ Operator \in Runners /\ Operator \notin Commits
  BY RolloutAssumption, Numbers DEF IInv
<1>3. downgrades' \in 0..MaxDowngrades
  BY DEF IInv, TypeOK, Downgrade
<1> QED BY <1>1, <1>2, <1>3, BeginInv DEF Downgrade

LEMMA UpgradeInv ==
  ASSUME IInv, NEW c \in Commits, Upgrade(c)
  PROVE  IInv'
<1>1. /\ c \in Runners /\ c # Operator /\ head[c] \in Positions /\ head[c] \in Nat
      /\ at \in Nat /\ downgrades \in 0..MaxDowngrades
  BY Numbers DEF IInv, TypeOK
<1>2. CASE at > head[c]
  BY <1>1, <1>2, FailInv DEF Upgrade
<1>3. CASE ~(at > head[c])
  <2>1. at <= head[c]
    BY <1>1, <1>3
  <2> QED BY <1>1, <1>3, <2>1, BeginInv DEF Upgrade
<1> QED BY <1>2, <1>3

LEMMA BreakInv ==
  ASSUME IInv, NEW c \in Commits, Break(c)
  PROVE  IInv'
<1>1. c \in Runners
  BY DEF Runners
<1> QED BY <1>1, FailInv DEF Break

LEMMA TestInv ==
  ASSUME IInv, NEW c \in Commits, Test(c)
  PROVE  IInv'
<1>1. TypeOK /\ c \in Runners /\ c # Operator /\ plan[c] \in Plans /\ "tested" \in Steps
  BY Numbers DEF IInv, TypeOK, Plans, Steps, Runners
<1>2. step[c] = "migrated" /\ step' = [step EXCEPT ![c] = "tested"] /\ failed' \subseteq Commits
      /\ downgrades' \in 0..MaxDowngrades
  BY <1>1 DEF Test, TypeOK
<1>3. plan' = [plan EXCEPT ![c] = plan[c]]
  BY <1>1 DEF Test, TypeOK
<1>4. c \in undone \/ head[c] <= at
  BY <1>2 DEF IInv, MigratedInv, Done
<1> QED BY <1>1, <1>2, <1>3, <1>4, RunnerInv DEF Test

(* An upgrade leaves the schema at least as far as every other pipeline    *)
(* has brought it; a downgrade is held against the commits it takes back.  *)
LEMMA CommitInv ==
  ASSUME IInv, NEW r \in Runners, Commit(r)
  PROVE  IInv'
<1> DEFINE p == plan[r]
           s == IF r = Operator THEN "waiting" ELSE "migrated"
<1>1. /\ TypeOK /\ p \in Plans /\ step[r] = "executed" /\ at = p.from /\ p.to \in Positions
      /\ step' = [step EXCEPT ![r] = s] /\ plan' = [plan EXCEPT ![r] = NoPlan] /\ at' = p.to
      /\ UNCHANGED <<head, failed, service, downgrades, user>>
  BY DEF IInv, TypeOK, Commit, InTransaction, LockInv, Plans
<1>2. step'[r] = s /\ \A q \in Runners : q # r => step'[q] = step[q] /\ plan'[q] = plan[q]
  BY <1>1 DEF TypeOK
<1>3. /\ at \in Nat /\ at' \in Nat /\ Operator \notin Commits /\ Commits \subseteq Runners
      /\ \A c \in Commits : head[c] \in Nat
  BY <1>1, Numbers, PositionsAreNat DEF Runners
<1>4. TypeOK'
  <2>1. column' \in BOOLEAN \cup {None} /\ row' \in BOOLEAN \cup {None}
    BY <1>1 DEF Commit, TypeOK, Plans
  <2>2. step' \in [Runners -> Steps] /\ plan' \in [Runners -> Plans]
    BY <1>1, NoPlanTyped DEF TypeOK, Steps, Plans
  <2>3. undone' \subseteq Commits
    BY DEF Commit, Behind
  <2> QED BY <1>1, <2>1, <2>2, <2>3 DEF TypeOK, Plans, service, user
<1>5. MigratedInv'
  <2> SUFFICES ASSUME NEW c \in Commits, step'[c] \in Done, ~(head[c] <= at')
               PROVE  c \in undone'
    BY <1>1 DEF MigratedInv
  <2>1. c \in Behind(p.to)
    BY <1>1, <1>3 DEF Behind
  <2>2. CASE r = Operator
    <3>1. step[c] \in Done
      BY <1>2, <1>3, <2>2
    <3> QED BY <2>1, <2>2, <3>1 DEF Commit, Done
  <2>3. CASE r # Operator
    <3>1. r \in Commits /\ p.from < p.to /\ p.to = head[r]
      BY <1>1, <2>3 DEF IInv, PlanInv, Runners
    <3>2. c # r /\ c \in Runners /\ at <= at'
      BY <1>1, <1>3, <3>1
    <3>3. step[c] \in Done
      BY <1>2, <3>2
    <3>4. ~(head[c] <= at)
      BY <1>3, <3>2
    <3>5. c \in undone
      BY <3>3, <3>4 DEF IInv, MigratedInv
    <3> QED BY <2>1, <2>3, <3>5 DEF Commit
  <2> QED BY <2>2, <2>3
<1>6. LockInv'
  <2>1. \A q \in Runners : step'[q] # "executed"
    BY <1>1, <1>2 DEF IInv, LockInv, InTransaction
  <2> QED BY <2>1 DEF LockInv, InTransaction
<1>7. PlanInv'
  BY <1>1, <1>2, <1>3 DEF IInv, PlanInv, Runners
<1>8. ServingInv' /\ LandedInv'
  BY <1>1, <1>2, <1>3 DEF IInv, ServingInv, LandedInv, service, TypeOK
<1>9. UnwiredHasCause'
  BY <1>1, <1>2, <1>3, LastTyped DEF IInv, UnwiredHasCause, service
<1> QED BY <1>4, <1>5, <1>6, <1>7, <1>8, <1>9 DEF IInv

LEMMA DeployInv ==
  ASSUME IInv, NEW c \in Commits, Deploy(c)
  PROVE  IInv'
<1>1. /\ TypeOK /\ c \in Runners /\ c # Operator /\ step[c] = "tested"
      /\ step' = [step EXCEPT ![c] = "deployed"]
      /\ serving' = c /\ wired' = FALSE /\ landed' = Append(landed, c)
      /\ UNCHANGED <<head, at, column, row, failed, plan, downgrades, undone, chosen, racing>>
  BY Numbers DEF IInv, Deploy, DeployReady, TrafficTo, database, user, Runners
<1>2. step'[c] = "deployed" /\ \A q \in Runners : q # c => step'[q] = step[q]
  BY <1>1 DEF TypeOK
<1>3. TypeOK'
  BY <1>1 DEF TypeOK, Steps
<1>4. MigratedInv'
  BY <1>1, <1>2 DEF IInv, MigratedInv, Done, Runners
<1>5. LockInv' /\ PlanInv'
  BY <1>1, <1>2 DEF IInv, LockInv, PlanInv, InTransaction, Runners
<1>6. landed' \in Seq(Commits) /\ Last(landed') = c /\ landed' # <<>>
  BY <1>1 DEF IInv, LandedInv, Last
<1>7. ServingInv' /\ LandedInv' /\ UnwiredHasCause'
  BY <1>1, <1>2, <1>6 DEF ServingInv, LandedInv, UnwiredHasCause
<1> QED BY <1>3, <1>4, <1>5, <1>7 DEF IInv

LEMMA WireInv ==
  ASSUME IInv, NEW c \in Commits, Wire(c)
  PROVE  IInv'
<1>1. /\ TypeOK /\ c \in Runners /\ c # Operator /\ step[c] = "deployed"
      /\ step' = [step EXCEPT ![c] = "wired"] /\ wired' = TRUE
      /\ UNCHANGED <<head, at, column, row, failed, plan, serving, landed, downgrades,
                     undone, chosen, racing>>
  BY Numbers DEF IInv, Wire, WiredNow, database, user, Runners
<1>2. step'[c] = "wired" /\ \A q \in Runners : q # c => step'[q] = step[q]
  BY <1>1 DEF TypeOK
<1>3. TypeOK'
  BY <1>1 DEF TypeOK, Steps
<1>4. MigratedInv'
  BY <1>1, <1>2 DEF IInv, MigratedInv, Done, Runners
<1>5. LockInv' /\ PlanInv'
  BY <1>1, <1>2 DEF IInv, LockInv, PlanInv, InTransaction, Runners
<1>6. ServingInv' /\ LandedInv' /\ UnwiredHasCause'
  BY <1>1, <1>2 DEF IInv, ServingInv, LandedInv, UnwiredHasCause, TypeOK, Runners
<1> QED BY <1>3, <1>4, <1>5, <1>6 DEF IInv

LEMMA UserInv ==
  ASSUME IInv, NEW v \in BOOLEAN, ChooseInHost(v) \/ ChooseInEventCreator(v)
  PROVE  IInv'
<1>1. /\ UNCHANGED <<head, at, step, failed, plan, service, downgrades, undone>>
      /\ column' \in {column, v} /\ row' \in {row, v} /\ chosen' = v /\ racing' \in BOOLEAN
  BY DEF ChooseInHost, ChooseInEventCreator
<1> QED BY <1>1 DEF IInv, TypeOK, MigratedInv, LockInv, PlanInv, ServingInv, LandedInv,
                    UnwiredHasCause, InTransaction, service

LEMMA NextInv == IInv /\ [Next]_vars => IInv'
<1> SUFFICES ASSUME IInv, [Next]_vars PROVE IInv'
  OBVIOUS
<1>1. CASE UNCHANGED vars
  BY <1>1 DEF vars, database, service, user, IInv, TypeOK, MigratedInv, LockInv, PlanInv,
              ServingInv, LandedInv, UnwiredHasCause, InTransaction
<1>2. Commits \subseteq Runners /\ Operator \in Runners
  BY DEF Runners
<1>3. ASSUME NEW c \in Commits, Pipeline(c) PROVE IInv'
  BY <1>2, <1>3, UpgradeInv, ExecuteInv, CommitInv, TestInv, DeployInv, WireInv, BreakInv
     DEF Pipeline
<1>4. CASE Downgrade \/ Execute(Operator) \/ Commit(Operator)
  BY <1>2, <1>4, DowngradeInv, ExecuteInv, CommitInv
<1> QED BY <1>1, <1>3, <1>4, UserInv DEF Next

LEMMA Invariant == Spec => []IInv
<1> QED BY InitInv, NextInv, PTL DEF Spec

-----------------------------------------------------------------------------

(* Pipelines, plans and the stored settings are well formed in every run. *)
THEOREM TypeCorrect == Spec => []TypeOK
<1>1. IInv => TypeOK
  BY DEF IInv
<1> QED BY <1>1, Invariant, PTL

(* However many pipelines overtake one another, the revision that has the  *)
(* traffic finds its schema migrated, or an operator took it back.         *)
THEOREM SchemaIsThere == Spec => []SchemaKeepsUp
<1>1. IInv => SchemaKeepsUp
  BY DEF IInv, TypeOK, MigratedInv, ServingInv, SchemaKeepsUp, Done
<1> QED BY <1>1, Invariant, PTL

(* The endpoint lacks its URL only while, or because, the newest           *)
(* deployment has not been wired.                                          *)
THEOREM UnwiredExplained == Spec => []UnwiredHasCause
<1>1. IInv => UnwiredHasCause
  BY DEF IInv
<1> QED BY <1>1, Invariant, PTL

-----------------------------------------------------------------------------
(* What is in the database.  A single migration leads from one revision's  *)
(* database to the other's (EveryWayLeads); what is left to prove is that  *)
(* pipelines and downgrades, each with a plan made some steps ago, run it  *)
(* only on the database it was made for.  The settings are then in one     *)
(* place or the other, or on their way in the copy of a transaction that   *)
(* keeps the writers of host.users waiting, though not all of those of     *)
(* user_settings: SettingsInv.                                             *)

SettingsInv ==
  /\ catalog = Fresh(at)
  /\ at < SettingsMove => row = None
  /\ at >= SettingsMove => column = None
  /\ ChoiceKept
  /\ \A r \in Runners : InTransaction(r) /\ Crosses(plan[r]) => racing \/ plan[r].copy = Stored

LEMMA SettingsMoveIsNat == SettingsMove \in Nat /\ 1 <= SettingsMove
BY DEF SettingsMove

LEMMA StoredTyped == TypeOK => Stored \in BOOLEAN
BY DEF TypeOK, Stored

LEMMA SettingsInit == Init => SettingsInv
<1> SUFFICES ASSUME Init PROVE SettingsInv
  OBVIOUS
<1>1. TypeOK /\ at \in Nat
  BY InitInv, Numbers DEF IInv
<1>2. catalog = Fresh(at) /\ (at < SettingsMove => row = None)
      /\ (at >= SettingsMove => column = None)
  <2>1. /\ catalog = Fresh(at)
        /\ ~(SettingsMove <= at) => row = None
        /\ ~(at < SettingsMove) => column = None
    BY Zenon DEF Init
  <2> QED BY <1>1, <2>1, SettingsMoveIsNat
<1>3. ChoiceKept
  <2>1. (column = TRUE \/ column = None) /\ (row = TRUE \/ row = None) /\ chosen = TRUE
    BY Zenon DEF Init
  <2>2. Stored = TRUE
    BY <2>1, Zenon DEF Stored
  <2> QED BY <2>1, <2>2, Zenon DEF ChoiceKept
<1>4. \A r \in Runners : ~InTransaction(r)
  BY DEF Init, InTransaction
<1> QED BY <1>2, <1>3, <1>4 DEF SettingsInv

(* Nothing in the database changes, and no transaction begins. *)
LEMMA SettingsKept ==
  ASSUME IInv, SettingsInv, UNCHANGED <<database, user>>,
         \A r \in Runners : InTransaction(r)' => InTransaction(r) /\ plan'[r] = plan[r]
  PROVE  SettingsInv'
BY DEF SettingsInv, ChoiceKept, Stored, Crosses, database, user

LEMMA FailSettings ==
  ASSUME IInv, SettingsInv, NEW r \in Runners, Fail(r), UNCHANGED <<database, user>>
  PROVE  SettingsInv'
<1>1. \A q \in Runners : InTransaction(q)' => InTransaction(q) /\ plan'[q] = plan[q]
  BY DEF IInv, TypeOK, Fail, InTransaction
<1> QED BY <1>1, SettingsKept

LEMMA BeginSettings ==
  ASSUME IInv, SettingsInv, NEW r \in Runners, NEW goal, Begin(r, goal),
         UNCHANGED <<database, user>>
  PROVE  SettingsInv'
<1>1. \A q \in Runners : InTransaction(q)' => InTransaction(q) /\ plan'[q] = plan[q]
  BY DEF IInv, TypeOK, Begin, InTransaction
<1> QED BY <1>1, SettingsKept

(* The transaction copies what is stored. *)
LEMMA ExecuteSettings ==
  ASSUME IInv, SettingsInv, NEW r \in Runners, Execute(r)
  PROVE  SettingsInv'
<1>1. UNCHANGED <<database, user>>
  BY DEF Execute
<1>2. CASE ~Runs(r)
  BY <1>1, <1>2, FailSettings DEF Execute
<1>3. CASE Runs(r)
  <2>1. /\ \A q \in Runners : ~InTransaction(q)
        /\ step' = [step EXCEPT ![r] = "executed"]
        /\ plan' = [plan EXCEPT ![r].copy = Backfill(plan[r])]
        /\ at = plan[r].from
    BY <1>3 DEF Execute, Runs
  <2>2. /\ step \in [Runners -> Steps] /\ plan \in [Runners -> Plans] /\ plan[r] \in Plans
        /\ plan[r].from \in Nat /\ plan[r].to \in Nat
    BY PositionsAreNat DEF IInv, TypeOK, Plans
  <2>3. /\ plan'[r].copy = Backfill(plan[r])
        /\ plan'[r].from = plan[r].from /\ plan'[r].to = plan[r].to
    BY <2>1, <2>2 DEF Plans
  <2>4. Crosses(plan[r]) => Backfill(plan[r]) = Stored
    <3> SUFFICES ASSUME Crosses(plan[r]) PROVE Backfill(plan[r]) = Stored
      OBVIOUS
    <3>1. CASE plan[r].from < plan[r].to
      <4>1. row = None
        BY <2>1, <2>2, <3>1, SettingsMoveIsNat DEF SettingsInv, Crosses
      <4> QED BY <3>1, <4>1, Zenon DEF Backfill, Stored
    <3>2. CASE ~(plan[r].from < plan[r].to)
      <4>1. column = None
        BY <2>1, <2>2, <3>2, SettingsMoveIsNat DEF SettingsInv, Crosses
      <4> QED BY <3>2, <4>1, Zenon DEF Backfill, Stored
    <3> QED BY <3>1, <3>2
  <2>5. ASSUME NEW q \in Runners, InTransaction(q)', Crosses(plan[q])'
        PROVE  plan'[q].copy = Stored
    <3>1. q = r
      BY <2>1, <2>2, <2>5 DEF InTransaction
    <3> QED BY <2>3, <2>4, <2>5, <3>1 DEF Crosses
  <2> QED BY <1>1, <2>5 DEF SettingsInv, ChoiceKept, Stored, database, user
<1> QED BY <1>2, <1>3

(* A plan is committed on the database it was made for, and leaves the     *)
(* settings where the revision it leads to has them.                       *)
LEMMA CommitSettings ==
  ASSUME IInv, SettingsInv, NEW r \in Runners, Commit(r)
  PROVE  SettingsInv'
<1> DEFINE p == plan[r]
<1>1. /\ TypeOK /\ p \in Plans /\ InTransaction(r) /\ at = p.from /\ at' = p.to
      /\ at \in Positions /\ p.to \in Positions
      /\ at \in Nat /\ at' \in Nat /\ SettingsMove \in Nat
      /\ chosen' = chosen /\ racing' = racing
  BY PositionsAreNat, SettingsMoveIsNat DEF IInv, TypeOK, Commit, LockInv, Plans, user
<1>2. catalog' = Fresh(at')
  BY <1>1, EveryWayLeads DEF SettingsInv, Commit, Applied
<1>3. \A q \in Runners : ~InTransaction(q)'
  <2>1. \A q \in Runners : q # r => step'[q] = step[q] /\ ~InTransaction(q)
    BY <1>1 DEF Commit, IInv, TypeOK, LockInv
  <2>2. step'[r] # "executed"
    BY <1>1 DEF Commit, TypeOK
  <2> QED BY <2>1, <2>2 DEF InTransaction
<1> HIDE DEF p
<1>4. CASE ~Crosses(p)
  <2>1. column' = column /\ row' = row
    BY <1>4 DEF Commit, p
  <2>2. (at' < SettingsMove => at < SettingsMove) /\ (at' >= SettingsMove => at >= SettingsMove)
    <3>1. p.from < SettingsMove <=> p.to < SettingsMove
      BY <1>4, Zenon DEF Crosses
    <3> QED BY <1>1, <3>1 DEF p
  <2>3. Stored' = Stored
    BY <2>1 DEF Stored
  <2> QED BY <1>1, <1>2, <1>3, <2>1, <2>2, <2>3 DEF SettingsInv, ChoiceKept
<1>5. CASE Crosses(p)
  <2>1. racing \/ p.copy = Stored
    BY <1>1, <1>5 DEF SettingsInv, p
  <2>2. racing \/ p.copy = chosen
    BY <2>1 DEF SettingsInv, ChoiceKept
  <2>3. chosen # None
    BY RolloutAssumption, <1>1 DEF TypeOK
  <2>4. CASE p.from < p.to
    <3>1. column' = None /\ row' = p.copy
      BY <1>5, <2>4 DEF Commit, p
    <3>2. ~(at' < SettingsMove)
      BY <1>1, <1>5, <2>4 DEF Crosses, p
    <3>3. ChoiceKept'
      BY <1>1, <2>2, <2>3, <3>1, Zenon DEF ChoiceKept, Stored
    <3> QED BY <1>2, <1>3, <3>1, <3>2, <3>3 DEF SettingsInv
  <2>5. CASE ~(p.from < p.to)
    <3>1. column' = p.copy /\ row' = None
      BY <1>5, <2>5 DEF Commit, p
    <3>2. ~(at' >= SettingsMove)
      BY <1>1, <1>5, <2>5 DEF Crosses, p
    <3>3. ChoiceKept'
      BY <1>1, <2>2, <2>3, <3>1, Zenon DEF ChoiceKept, Stored
    <3> QED BY <1>2, <1>3, <3>1, <3>2, <3>3 DEF SettingsInv
  <2> QED BY <2>4, <2>5
<1> QED BY <1>4, <1>5

(* A write to host.users comes before or after the migration that moves    *)
(* the settings, never in the middle of it.                                *)
LEMMA HostWriteSettings ==
  ASSUME IInv, SettingsInv, NEW v \in BOOLEAN, ChooseInHost(v)
  PROVE  SettingsInv'
<1>1. /\ column' = v /\ chosen' = v /\ row' = row /\ at' = at /\ catalog' = catalog
      /\ step' = step /\ plan' = plan
  BY DEF ChooseInHost
<1>2. at \in Positions /\ at \in Nat /\ at < SettingsMove
  <2>1. Column("users", "settings") \in catalog
    BY DEF ChooseInHost, Down
  <2> QED BY <2>1, SettingsInOnePlace, PositionsAreNat DEF IInv, TypeOK, SettingsInv
<1>3. ~(at >= SettingsMove)
  BY <1>2, SettingsMoveIsNat
<1>4. ASSUME NEW r \in Runners, InTransaction(r), Crosses(plan[r]) PROVE FALSE
  <2>1. plan[r].from \in Positions /\ plan[r].to \in Positions
    BY DEF IInv, TypeOK
  <2>2. Locks(plan[r].from, plan[r].to, "users")
    BY <1>4, <2>1, MovesLockUsers DEF Crosses
  <2> QED BY <1>4, <2>2 DEF ChooseInHost, Locked
<1>5. Stored' = v
  BY <1>1 DEF Stored
<1> QED BY <1>1, <1>2, <1>3, <1>4, <1>5 DEF SettingsInv, ChoiceKept, InTransaction

LEMMA EventCreatorWriteSettings ==
  ASSUME IInv, SettingsInv, NEW v \in BOOLEAN, ChooseInEventCreator(v)
  PROVE  SettingsInv'
<1>1. /\ row' = v /\ chosen' = v /\ column' = column /\ at' = at /\ catalog' = catalog
      /\ step' = step /\ plan' = plan
      /\ racing' = \E r \in Runners : InTransaction(r) /\ plan[r].to < SettingsMove
  BY DEF ChooseInEventCreator
<1>2. at \in Positions /\ at \in Nat /\ at >= SettingsMove
  BY SettingsInOnePlace, PositionsAreNat DEF ChooseInEventCreator, IInv, TypeOK, SettingsInv
<1>3. ~(at < SettingsMove)
  BY <1>2, SettingsMoveIsNat
<1>4. ASSUME NEW r \in Runners, InTransaction(r), Crosses(plan[r]) PROVE racing'
  <2>1. at = plan[r].from
    BY <1>4 DEF IInv, LockInv
  <2>2. plan[r].to < SettingsMove
    BY <1>3, <1>4, <2>1 DEF Crosses
  <2> QED BY <1>1, <1>4, <2>2
<1>5. Stored' = v
  BY <1>1, <1>2 DEF SettingsInv, Stored
<1> QED BY <1>1, <1>2, <1>3, <1>4, <1>5 DEF SettingsInv, ChoiceKept, InTransaction, Crosses

LEMMA SettingsNext == IInv /\ SettingsInv /\ [Next]_vars => SettingsInv'
<1> SUFFICES ASSUME IInv, SettingsInv, [Next]_vars PROVE SettingsInv'
  OBVIOUS
<1>1. Commits \subseteq Runners /\ Operator \in Runners
  BY DEF Runners
<1>2. CASE UNCHANGED vars
  BY <1>2, SettingsKept DEF vars, InTransaction
<1>3. ASSUME NEW c \in Commits, Upgrade(c) \/ Break(c) PROVE SettingsInv'
  BY <1>1, <1>3, FailSettings, BeginSettings DEF Upgrade, Break
<1>4. ASSUME NEW c \in Commits, Test(c) \/ Deploy(c) \/ Wire(c) PROVE SettingsInv'
  <2>1. plan' = plan /\ UNCHANGED <<database, user>>
    BY <1>4 DEF Test, Deploy, Wire
  <2>2. \A q \in Runners : InTransaction(q)' => InTransaction(q)
    BY <1>4 DEF Test, Deploy, Wire, InTransaction, IInv, TypeOK
  <2> QED BY <2>1, <2>2, SettingsKept
<1>5. CASE Downgrade
  BY <1>1, <1>5, BeginSettings DEF Downgrade
<1>6. ASSUME NEW c \in Commits, Pipeline(c) PROVE SettingsInv'
  BY <1>1, <1>3, <1>4, <1>6, ExecuteSettings, CommitSettings DEF Pipeline
<1> QED BY <1>1, <1>2, <1>5, <1>6, ExecuteSettings, CommitSettings, HostWriteSettings,
           EventCreatorWriteSettings DEF Next

LEMMA SettingsInvariant == Spec => [](IInv /\ SettingsInv)
<1> QED BY SettingsInit, SettingsNext, InitInv, NextInv, PTL DEF Spec

(* However upgrades and downgrades by several runners are interleaved, the *)
(* database is that of its revision, and a migration that finds the        *)
(* revision it read does not fail.                                         *)
THEOREM MigrationsLead == Spec => []MigrationsReverse
<1>1. IInv /\ SettingsInv => MigrationsReverse
  <2> SUFFICES ASSUME IInv, SettingsInv, NEW r \in Runners, at = plan[r].from
               PROVE  Migrate(catalog, plan[r].from, plan[r].to) # Failed
    BY DEF MigrationsReverse, SettingsInv
  <2>1. plan[r].from \in Positions /\ plan[r].to \in Positions
    BY DEF IInv, TypeOK
  <2> QED BY <2>1, EveryWayLeads DEF SettingsInv
<1> QED BY <1>1, SettingsInvariant, PTL

(* At every moment of every history the two applications' roles have their *)
(* own tables, and Event Creator's reads none of the Host's.               *)
THEOREM RolesApartAlways == Spec => []RolesKeepApart
<1>1. IInv /\ SettingsInv => RolesKeepApart
  BY FreshRolesApart DEF IInv, TypeOK, SettingsInv, RolesKeepApart
<1> QED BY <1>1, SettingsInvariant, PTL

(* A user's setting survives every upgrade and downgrade but one that was  *)
(* in the middle of its transaction when the setting was written.          *)
THEOREM ChoiceSurvives == Spec => []ChoiceKept
<1>1. SettingsInv => ChoiceKept
  BY DEF SettingsInv
<1> QED BY <1>1, SettingsInvariant, PTL
=============================================================================
