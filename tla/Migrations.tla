------------------------------ MODULE Migrations ------------------------------
(***************************************************************************)
(* The chain of Alembic revisions of migrations/versions and what each     *)
(* does to the database catalogue, upwards and downwards.                  *)
(*                                                                         *)
(* A catalogue is a set of objects; an object rests on the named ones it   *)
(* needs (a column on its table, a table on its schema, a grant on its     *)
(* role and on what it grants). A statement drops and adds objects, takes  *)
(* along what goes with the ones it drops, and fails when that would leave *)
(* something resting on nothing. Columns that no revision tells apart are  *)
(* one column: "settings" stands for _MOVED_COLUMNS.                       *)
(***************************************************************************)
EXTENDS Integers, Sequences, FiniteSets, SequencesExt

Object(kind, name, on) == [kind |-> kind, name |-> name, on |-> on]

Schema(s)         == Object("schema", s, {})
Role(r)           == Object("role", r, {})
Table(s, t)       == Object("table", t, {s})
Type(s, e)        == Object("type", e, {s})
Column(t, c)      == Object("column", c, {t})
EnumColumn(t, e)  == Object("typed column", t, {t, e})
Index(t, i)       == Object("index", i, {t})
ForeignKey(t, u)  == Object("foreign key", t, {t, u})
Grant(r, p, n)    == Object("grant", p, {r, n})
Default(r, p, s)  == Object("default", p, {r, s})

NamedKinds == {"schema", "role", "table", "type"}

Names(objects) == {o.name : o \in {p \in objects : p.kind \in NamedKinds}}

(* What PostgreSQL drops together with p: its own columns, indexes and     *)
(* keys and the grants on it, not the keys of others or a role's grants.   *)
GoesWith(o, p) ==
  /\ p.kind \in NamedKinds \ {"role"} /\ p.name \in o.on
  /\ \/ o.kind \in {"column", "index", "grant", "default"}
     \/ o.kind \in {"typed column", "foreign key"} /\ o.name = p.name

-----------------------------------------------------------------------------
(* Statements                                                              *)

Do(needs, drop, add) == [needs |-> needs, drop |-> drop, add |-> add]

CreateTable(s, t, columns, others, types) ==
  Do({}, {}, {Table(s, t)} \cup {Column(t, c) : c \in columns}
             \cup {ForeignKey(t, u) : u \in others}
             \cup UNION {{Type(s, e), EnumColumn(t, e)} : e \in types})

DropTable(s, t)       == Do({}, {Table(s, t)}, {})
AddColumn(s, t, c)    == Do({Table(s, t)}, {}, {Column(t, c)})
DropColumn(s, t, c)   == Do({Table(s, t)}, {Column(t, c)}, {})
CreateIndex(s, t, i)  == Do({Table(s, t)}, {}, {Index(t, i)})
DropIndex(s, t, i)    == Do({Table(s, t)}, {Index(t, i)}, {})
DropType(s, e)        == Do({}, {Type(s, e)}, {})
MoveTables(ts, s, to) == Do({}, {Table(s, t) : t \in ts}, {Table(to, t) : t \in ts})
MoveTypes(es, s, to)  == Do({}, {Type(s, e) : e \in es}, {Type(to, e) : e \in es})
Create(objects)       == Do({}, {}, objects)
Drop(objects)         == Do({}, objects, {})

Failed == {Object("failure", "failed", {})}

(* IF [NOT] EXISTS is written for schemas and roles only. *)
Optional(objects) == {o \in objects : o.kind \in {"schema", "role"}}

(* A role's default privileges in a schema grant it the tables made there. *)
Granted(catalog, added) ==
  LET defaults(t) == {o \in catalog : o.kind = "default" /\ o.name = "tables" /\ t.on \subseteq o.on}
  IN UNION {{Object("grant", "all", {t.name} \cup (d.on \ t.on)) : d \in defaults(t)} :
              t \in {o \in added : o.kind = "table"}}

Exec(catalog, s) ==
  LET moved == Names(s.drop) \cap Names(s.add)
      gone == {o \in catalog : \E p \in s.drop : p.name \notin moved /\ GoesWith(o, p)}
      result == ((catalog \ s.drop) \ gone) \cup s.add
                  \cup (IF moved = {} THEN Granted(catalog, s.add) ELSE {})
      names == Names(result)
  IN IF /\ s.needs \cup (s.drop \ Optional(s.drop)) \subseteq catalog
        /\ s.add \cap catalog \subseteq Optional(s.add)
        /\ \A o \in result : o.on \subseteq names
     THEN result
     ELSE Failed

-----------------------------------------------------------------------------
(* The revisions, oldest first. A name without a schema is found in        *)
(* "public".                                                               *)

Public == "public"

Empty == {Schema(Public)}

HostTables == {"users", "oauth_accounts"}
EventCreatorTables ==
  {"storage_configs", "llm_prompts", "processing_runs", "processing_steps", "events"}
EventCreatorEnums ==
  {"storage_provider", "processing_run_status", "processing_step_status"}

FullSchemaAccess(schema, role, tables, enums) ==
  {Grant(role, "usage", schema), Default(role, "tables", schema), Default(role, "sequences", schema)}
    \cup {Grant(role, "all", t) : t \in tables}
    \cup {Grant(role, "usage", e) : e \in enums}
    \cup (IF enums = {} THEN {} ELSE {Default(role, "types", schema)})

HostAccess == FullSchemaAccess("host", "host_app", HostTables, {})
EventCreatorAccess ==
  FullSchemaAccess("event_creator", "event_creator_app", EventCreatorTables, EventCreatorEnums)
CrossAccess ==
  {Grant("event_creator_app", "usage", "host"), Grant("event_creator_app", "references", "users")}

UsersUp == << CreateTable(Public, "users", {"account", "settings"}, {}, {}),
              CreateIndex(Public, "users", "email_lower") >>
UsersDown == << DropIndex(Public, "users", "email_lower"), DropTable(Public, "users") >>

OAuthUp == << CreateTable(Public, "oauth_accounts", {"link"}, {"users"}, {}),
              CreateIndex(Public, "oauth_accounts", "account_id"),
              CreateIndex(Public, "oauth_accounts", "oauth_name") >>
OAuthDown == << DropIndex(Public, "oauth_accounts", "oauth_name"),
                DropIndex(Public, "oauth_accounts", "account_id"),
                DropTable(Public, "oauth_accounts") >>

StorageUp == << CreateTable(Public, "storage_configs", {"config"}, {"users"}, {"storage_provider"}) >>
StorageDown == << DropTable(Public, "storage_configs"), DropType(Public, "storage_provider") >>

TokenExpiryUp == << AddColumn(Public, "storage_configs", "oauth_token_expires_at") >>
TokenExpiryDown == << DropColumn(Public, "storage_configs", "oauth_token_expires_at") >>

PromptsUp == << CreateTable(Public, "llm_prompts", {"prompt"}, {"users"}, {}) >>
PromptsDown == << DropTable(Public, "llm_prompts") >>

PipelineUp ==
  << CreateTable(Public, "processing_runs", {"run"}, {"users"}, {"processing_run_status"}),
     CreateTable(Public, "processing_steps", {"step"}, {"processing_runs"}, {"processing_step_status"}),
     CreateTable(Public, "events", {"event"}, {"users", "processing_runs"}, {}) >>
PipelineDown ==
  << DropTable(Public, "events"), DropTable(Public, "processing_steps"),
     DropTable(Public, "processing_runs"),
     DropType(Public, "processing_step_status"), DropType(Public, "processing_run_status") >>

SortIndexUp == << CreateIndex(Public, "events", "dashboard_sort") >>
SortIndexDown == << DropIndex(Public, "events", "dashboard_sort") >>

ReviewedUp == << AddColumn(Public, "events", "reviewed") >>
ReviewedDown == << DropColumn(Public, "events", "reviewed") >>

UnreviewedIndexUp == << CreateIndex(Public, "events", "unreviewed_sort") >>
UnreviewedIndexDown == << DropIndex(Public, "events", "unreviewed_sort") >>

SeparationUp ==
  << Create({Schema("host"), Schema("event_creator")}),
     MoveTables(HostTables, Public, "host"),
     MoveTables(EventCreatorTables, Public, "event_creator"),
     MoveTypes(EventCreatorEnums, Public, "event_creator"),
     Create({Role("host_app"), Role("event_creator_app")}),
     Create(HostAccess), Create(EventCreatorAccess), Create(CrossAccess) >>

Revokes == << Drop(CrossAccess), Drop(EventCreatorAccess), Drop(HostAccess) >>

SeparationDown ==
  Revokes \o
  << Drop({Role("event_creator_app"), Role("host_app")}),
     MoveTypes(EventCreatorEnums, "event_creator", Public),
     MoveTables(EventCreatorTables, "event_creator", Public),
     MoveTables(HostTables, "host", Public),
     Drop({Schema("event_creator"), Schema("host")}) >>

UserSettingsUp == << CreateTable("event_creator", "user_settings", {"settings"}, {"users"}, {}),
                     DropColumn("host", "users", "settings") >>
UserSettingsDown == << AddColumn("host", "users", "settings"),
                       DropTable("event_creator", "user_settings") >>

NavGroupsUp == << AddColumn("host", "users", "nav_collapsed_groups") >>
NavGroupsDown == << DropColumn("host", "users", "nav_collapsed_groups") >>

Upgrades ==
  << UsersUp, OAuthUp, StorageUp, TokenExpiryUp, PromptsUp, PipelineUp, SortIndexUp, ReviewedUp,
     UnreviewedIndexUp, SeparationUp, UserSettingsUp, NavGroupsUp >>

Downgrades ==
  << UsersDown, OAuthDown, StorageDown, TokenExpiryDown, PromptsDown, PipelineDown, SortIndexDown,
     ReviewedDown, UnreviewedIndexDown, SeparationDown, UserSettingsDown, NavGroupsDown >>

Positions == 0..Len(Upgrades)

(* The revision that moves the settings out of host.users. *)
SettingsMove == 11

(* The statements between two positions, in the order they run. *)
Statements(from, to) ==
  IF from <= to
  THEN FlattenSeq(SubSeq(Upgrades, from + 1, to))
  ELSE FlattenSeq(Reverse(SubSeq(Downgrades, to + 1, from)))

Migrate(catalog, from, to) == FoldLeft(Exec, catalog, Statements(from, to))

(* The catalogue of a fresh database that was brought to each position.    *)
FreshCatalogs ==
  FoldLeft(LAMBDA made, up : Append(made, FoldLeft(Exec, Last(made), up)), <<Empty>>, Upgrades)

Fresh(p) == FreshCatalogs[p + 1]

(* Does the way between two positions lock the table? Every ALTER TABLE    *)
(* does, a foreign key also the table it points to.                        *)
Locks(from, to, t) ==
  \E s \in Range(Statements(from, to)) :
    \E o \in s.needs \cup s.drop \cup s.add : o.name = t \/ t \in o.on
=============================================================================
