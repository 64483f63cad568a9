-------------------------------- MODULE Rollout --------------------------------
(***************************************************************************)
(* Commits on their way to production: each push to main starts a          *)
(* deploy.yml pipeline, which migrates the production database, tests,     *)
(* deploys and wires the registry endpoint's own URL. Nothing keeps two    *)
(* pipelines apart. Meanwhile the serving revision queries the schema it   *)
(* was written for, users change their notification settings, and an       *)
(* operator may downgrade the schema.                                      *)
(*                                                                         *)
(* Commit 1 is in production at the start. One user's settings stand for   *)
(* all: a migration copies row by row.                                     *)
(***************************************************************************)
EXTENDS Migrations

CONSTANTS
  Commits,       \* the commits pushed to main, in order
  Heads,         \* Heads: the possible [Commits -> the newest revision in its tree]
  Targets,       \* the revisions an operator may downgrade to
  MaxDowngrades, \* bound: how often
  None           \* no value: the column or the row is not there

Operator == 0

Runners == Commits \cup {Operator}

ASSUME RolloutAssumption ==
  /\ 1 \in Commits /\ Commits \subseteq Nat \ {0}
  /\ Heads \subseteq {h \in [Commits -> Positions] : \A c, d \in Commits : c <= d => h[c] <= h[d]}
  /\ Targets \subseteq Positions \ {0}
  /\ MaxDowngrades \in Nat
  /\ None \notin BOOLEAN

VARIABLES
  head,      \* head[c]: the newest revision in the tree of commit c
  at,        \* alembic_version
  catalog,   \* what is in the database
  column,    \* the user's setting in host.users
  row,       \* and in event_creator.user_settings
  step,      \* step[r]: how far the pipeline of a commit, or the operator, is
  failed,    \* the commits whose pipeline ended with an error
  plan,      \* plan[r]: the upgrade or downgrade it runs
  serving,   \* the commit whose image has the traffic
  wired,     \* does the service know its own URL (REGISTRY_ENDPOINT_URL)?
  downgrades, \* how many downgrades an operator has started
  landed,    \* history: the commits deployed, in order
  undone,    \* history: the commits whose migrations an operator took back
  chosen,    \* history: the user's last setting that was acknowledged
  racing     \* history: it was written while a downgrade was under way

database == <<at, catalog, column, row>>
service  == <<serving, wired, landed>>
user     == <<chosen, racing>>
vars == <<head, database, step, failed, plan, service, downgrades, undone, user>>

Steps == {"waiting", "begun", "executed", "migrated", "tested", "deployed", "wired"}

NoPlan == [from |-> 0, to |-> 0, copy |-> None]

Init ==
  /\ head \in Heads
  /\ at = head[1] /\ catalog = Fresh(at)
  /\ column = (IF 1 <= at /\ at < SettingsMove THEN TRUE ELSE None)
  /\ row = (IF SettingsMove <= at THEN TRUE ELSE None)
  /\ step = [r \in Runners |-> IF r = 1 THEN "wired" ELSE "waiting"]
  /\ failed = {} /\ plan = [r \in Runners |-> NoPlan]
  /\ serving = 1 /\ wired = TRUE /\ landed = <<1>>
  /\ downgrades = 0 /\ undone = {}
  /\ chosen = TRUE /\ racing = FALSE

-----------------------------------------------------------------------------
(* env.py: one upgrade or downgrade, all its statements in one transaction *)

Fail(r) ==
  /\ failed' = failed \cup ({r} \ {Operator})
  /\ step' = [step EXCEPT ![r] = IF @ \in {"begun", "executed"} THEN "waiting" ELSE @]
  /\ plan' = [plan EXCEPT ![r] = NoPlan]

(* Alembic reads its version table and looks up the way to the goal.       *)
Begin(r, goal) ==
  /\ step' = [step EXCEPT ![r] = IF at = goal THEN "migrated" ELSE "begun"]
  /\ plan' = [plan EXCEPT ![r] = IF at = goal THEN NoPlan ELSE [NoPlan EXCEPT !.from = at, !.to = goal]]
  /\ UNCHANGED failed

Crosses(p) == (p.from < SettingsMove) # (p.to < SettingsMove)

InTransaction(r) == step[r] = "executed"

EmptyCopy(p) == IF Crosses(p) THEN TRUE ELSE None      \* mutant: server_default instead of the backfill

(* The backfill of either direction, where the way goes over it. A user    *)
(* without a row has the column's default.                                 *)
Backfill(p) ==
  IF ~Crosses(p) THEN None
  ELSE IF p.from < p.to THEN (IF column = None THEN TRUE ELSE column)
  ELSE (IF row = None THEN TRUE ELSE row)

(* mutant: one transaction per statement, and the connection lost near the end *)
AppliedInPart(p) ==
  LET way == Statements(p.from, p.to) IN FoldLeft(Exec, catalog, SubSeq(way, 1, Len(way) - 4))

Applied(p) == Migrate(catalog, p.from, p.to)

RunsUnchecked(r) == Applied(plan[r]) # Failed          \* mutant: the version row is not checked

(* The statements run on the catalogue of now, and the version row is      *)
(* updated where it still has the revision that was read.                  *)
Runs(r) == at = plan[r].from /\ Applied(plan[r]) # Failed

(* All statements but a downgrade's closing DROP TABLE, which comes with   *)
(* the commit. The locks of a transaction keep the next one waiting.       *)
Execute(r) ==
  /\ step[r] = "begun"
  /\ \A q \in Runners : ~InTransaction(q)
  /\ IF Runs(r)
     THEN /\ step' = [step EXCEPT ![r] = "executed"]
          /\ plan' = [plan EXCEPT ![r].copy = Backfill(plan[r])]
          /\ UNCHANGED failed
     ELSE Fail(r)
  /\ UNCHANGED <<head, database, service, downgrades, undone, user>>

Behind(goal) == {c \in Commits : head[c] > goal}

Commit(r) ==
  LET p == plan[r] IN
  /\ InTransaction(r)
  /\ at' = p.to /\ catalog' = Applied(p)
  /\ column' = IF ~Crosses(p) THEN column ELSE IF p.from < p.to THEN None ELSE p.copy
  /\ row' = IF ~Crosses(p) THEN row ELSE IF p.from < p.to THEN p.copy ELSE None
  /\ step' = [step EXCEPT ![r] = IF r = Operator THEN "waiting" ELSE "migrated"]
  /\ plan' = [plan EXCEPT ![r] = NoPlan]
  /\ undone' = Behind(p.to) \cap
       (IF r = Operator
        THEN undone \cup {c \in Commits : step[c] \in {"migrated", "tested", "deployed", "wired"}}
        ELSE undone)
  /\ UNCHANGED <<head, failed, service, downgrades, user>>

Downgrade ==
  /\ step[Operator] = "waiting" /\ downgrades < MaxDowngrades
  /\ \E goal \in Targets : goal < at /\ Begin(Operator, goal)
  /\ downgrades' = downgrades + 1
  /\ UNCHANGED <<head, database, service, undone, user>>

-----------------------------------------------------------------------------
(* deploy.yml                                                              *)

(* alembic upgrade head; a tree without the database's revision cannot     *)
(* locate it.                                                              *)
Upgrade(c) ==
  /\ step[c] = "waiting"
  /\ IF at > head[c] THEN Fail(c) ELSE Begin(c, head[c])
  /\ UNCHANGED <<head, database, service, downgrades, undone, user>>

(* The stylesheet, pytest or mypy, the image, the deployment or the last   *)
(* gcloud call fails.                                                      *)
Break(c) ==
  /\ step[c] \in {"waiting", "migrated", "tested", "deployed"}
  /\ Fail(c)
  /\ UNCHANGED <<head, database, service, downgrades, undone, user>>

Test(c) ==
  /\ step[c] = "migrated"
  /\ step' = [step EXCEPT ![c] = "tested"]
  /\ UNCHANGED <<head, database, failed, plan, service, downgrades, undone, user>>

(* mutant: --no-traffic *)
TrafficStays(c) == serving

TrafficTo(c) == c

(* mutant: the deploy job does not need the test job *)
DeployUnready(c) == step[c] \in {"waiting", "begun", "executed", "migrated", "tested"}

DeployReady(c) == step[c] = "tested"

(* --env-vars-file replaces every variable, and has no                     *)
(* REGISTRY_ENDPOINT_URL.                                                  *)
Deploy(c) ==
  /\ DeployReady(c)
  /\ step' = [step EXCEPT ![c] = "deployed"]
  /\ serving' = TrafficTo(c) /\ wired' = FALSE /\ landed' = Append(landed, c)
  /\ UNCHANGED <<head, database, failed, plan, downgrades, undone, user>>

WiredFirst(c) == wired                     \* mutant: the URL is set before the deployment

WiredNow(c) == TRUE

Wire(c) ==
  /\ step[c] = "deployed"
  /\ step' = [step EXCEPT ![c] = "wired"]
  /\ wired' = WiredNow(c)
  /\ UNCHANGED <<head, database, failed, plan, serving, landed, downgrades, undone, user>>

-----------------------------------------------------------------------------
(* Requests meanwhile                                                      *)

(* What app/models of commit c select: the tables of the Host.             *)
Needs(c) ==
  {o \in Fresh(head[c]) :
     \E t \in HostTables : \/ o.kind = "table" /\ o.name = t
                           \/ o.kind = "column" /\ t \in o.on}

Down == ~(Needs(serving) \subseteq catalog)

(* A write waits for the transaction that has the table locked.            *)
Locked(t) == \E r \in Runners : InTransaction(r) /\ Locks(plan[r].from, plan[r].to, t)

(* The Host wrote the settings while they were columns of its users.       *)
ChooseInHost(v) ==
  /\ Column("users", "settings") \in Needs(serving) /\ ~Down
  /\ ~Locked("users")
  /\ column' = v /\ chosen' = v /\ racing' = FALSE
  /\ UNCHANGED <<head, at, catalog, row, step, failed, plan, service, downgrades, undone>>

ChooseInEventCreator(v) ==
  /\ Table("event_creator", "user_settings") \in catalog
  /\ row' = v /\ chosen' = v
  /\ racing' = \E r \in Runners : InTransaction(r) /\ plan[r].to < SettingsMove
  /\ UNCHANGED <<head, at, catalog, column, step, failed, plan, service, downgrades, undone>>

-----------------------------------------------------------------------------

Pipeline(c) ==
  /\ c \notin failed
  /\ Upgrade(c) \/ Execute(c) \/ Commit(c) \/ Test(c) \/ Deploy(c) \/ Wire(c) \/ Break(c)

Next ==
  \/ \E c \in Commits : Pipeline(c)
  \/ Downgrade \/ Execute(Operator) \/ Commit(Operator)
  \/ \E v \in BOOLEAN : ChooseInHost(v) \/ ChooseInEventCreator(v)

(* Does the runner have a step to take? Break is one until the last step.  *)
Ready(r) ==
  \/ step[r] = "begun" /\ \A q \in Runners : ~InTransaction(q)
  \/ InTransaction(r)
  \/ r \in Commits \ failed /\ step[r] \in {"waiting", "migrated", "tested", "deployed"}

Run(r) == IF r = Operator THEN Execute(r) \/ Commit(r) ELSE Pipeline(r)

(* A workflow run ends, one way or the other, and so does a transaction;   *)
(* nothing is due from users or operators. This is WF_vars(Run(r)) with    *)
(* Ready for ENABLED, which would run the migrations once more.            *)
Fairness == \A r \in Runners : []<>~Ready(r) \/ []<><<Run(r)>>_vars

Spec == Init /\ [][Next]_vars /\ Fairness

-----------------------------------------------------------------------------

TypeOK ==
  /\ head \in Heads /\ at \in Positions
  /\ column \in BOOLEAN \cup {None} /\ row \in BOOLEAN \cup {None}
  /\ step \in [Runners -> Steps] /\ failed \subseteq Commits
  /\ plan \in [Runners -> [from : Positions, to : Positions, copy : BOOLEAN \cup {None}]]
  /\ serving \in Commits /\ wired \in BOOLEAN
  /\ downgrades \in 0..MaxDowngrades /\ undone \subseteq Commits
  /\ chosen \in BOOLEAN /\ racing \in BOOLEAN

(* Whatever way the database came to a revision, upwards and downwards,    *)
(* by one runner or by several at a time, it is the database of that       *)
(* revision: no table, type, role, default or grant is missing or left     *)
(* over; and a migration never fails on a statement, but only because      *)
(* another one changed the revision under it.                              *)
MigrationsReverse ==
  /\ catalog = Fresh(at)
  /\ \A r \in Runners :
       step[r] = "begun" /\ at = plan[r].from
         => Migrate(catalog, plan[r].from, plan[r].to) # Failed

(* From the separation on, at every revision, Event Creator's role has all *)
(* of the tables in its schema and the Host's role all of its own, later   *)
(* tables included, and Event Creator's role reads none of the Host's.     *)
RolesApart(objects) ==
  \A o \in objects : o.kind = "table" =>
    /\ o.on = {"event_creator"} =>
         Grant("event_creator_app", "all", o.name) \in objects
    /\ o.on = {"host"} =>
         /\ Grant("host_app", "all", o.name) \in objects
         /\ \A g \in objects :
              g.kind = "grant" /\ g.on = {"event_creator_app", o.name} => g.name = "references"

RolesKeepApart == RolesApart(catalog)

Stored == IF column = None THEN (IF row = None THEN TRUE ELSE row) ELSE column

(* The setting a user last saw acknowledged survives every upgrade and     *)
(* downgrade, unless it was written between a downgrade's backfill and its *)
(* DROP TABLE.                                                             *)
ChoiceKept == racing \/ Stored = chosen

(* The serving revision never runs against a schema older than its own,    *)
(* however pipelines overtake one another, unless an operator took its     *)
(* migrations back.                                                        *)
SchemaKeepsUp == serving \in undone \/ head[serving] <= at

(* The registry endpoint turns every consumer away only between the        *)
(* deployment of the newest revision and the last step of its pipeline,    *)
(* or for good when that step fails.                                       *)
UnwiredHasCause == wired \/ step[Last(landed)] = "deployed"

OvertakenOnTheWay == \E i, j \in DOMAIN landed : i < j /\ landed[j] < landed[i]

(* A migration that breaks the serving revision is an outage until traffic *)
(* moves; it ends, unless the pipeline failed after its migration, an      *)
(* older commit was deployed over a newer one, or an operator downgraded.  *)
OutageEnds ==
  Down ~> \/ ~Down
          \/ \E c \in failed : c > serving /\ step[c] \in {"migrated", "tested"}
          \/ OvertakenOnTheWay
          \/ downgrades > 0
=============================================================================
