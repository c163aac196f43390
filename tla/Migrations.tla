----------------------------- MODULE Migrations -----------------------------
(***************************************************************************)
(* The migrations of the system tables (db/src/migration.rs), which every  *)
(* start runs before anything else (server-bin/src/main.rs): those that    *)
(* are not recorded yet, in order, statement by statement.  SeaORM, which  *)
(* runs and records them, is external; PostgreSQL takes all of it into one *)
(* transaction, SQLite commits each statement.  Columns are left out but   *)
(* for the one that is added later.                                        *)
(***************************************************************************)
EXTENDS Naturals, Sequences, SequencesExt, FiniteSets

CONSTANTS
    Transactional, \* whether the database takes DDL into a transaction
    MaxStarts \* bound: starts of the server

VARIABLES
    objects, \* the tables, indexes and columns there are
    people, \* the users, the roles, and the links between them
    recorded, \* seaql_migrations
    server, \* "off", "migrating", "serving"
    pending, \* the migrations this start still has to run
    step, \* the next statement of the first of them
    before, \* what a transaction goes back to
    dev, \* whether this start is in development or test mode
    starts

migrating == <<pending, step, before>>
vars == <<objects, people, recorded, server, migrating, dev, starts>>

\* Of the constants.
MigrationsAssumption == Transactional \in BOOLEAN /\ MaxStarts \in Nat

-----------------------------------------------------------------------------
(* The statements. *)

Table(t) == [does |-> "table", on |-> t, of |-> <<>>]
Index(t, columns) == [does |-> "index", on |-> t, of |-> columns]
UniqueIndex(t, columns) == [does |-> "unique", on |-> t, of |-> columns]
Column(t, c) == [does |-> "column", on |-> t, of |-> <<c>>]
Do(what) == [does |-> what, on |-> "admin_user", of |-> <<>>]

InitSchemas ==
    <<Table("content_type_schemas"), UniqueIndex("content_type_schemas", <<"uid">>),
      Table("content_type_table_map"), Index("content_type_table_map", <<"schema_uid">>)>>
InitAdmin ==
    <<Table("admin_user"), UniqueIndex("admin_user", <<"email">>),
      Table("admin_role"), UniqueIndex("admin_role", <<"name">>), UniqueIndex("admin_role", <<"code">>),
      Table("admin_permission"), Index("admin_permission", <<"role_id">>),
      Table("admin_user_role"), UniqueIndex("admin_user_role", <<"user_id", "role_id">>),
      Table("api_token"), Table("api_token_permission"), Index("api_token_permission", <<"token_id">>)>>
InitUploads ==
    <<Table("upload_file"), UniqueIndex("upload_file", <<"document_id">>), Index("upload_file", <<"folder_id">>),
      Table("upload_folder"), UniqueIndex("upload_folder", <<"path_id">>)>>
InitRest ==
    <<Table("i18n_locale"), UniqueIndex("i18n_locale", <<"code">>),
      Table("core_store"), UniqueIndex("core_store", <<"key">>),
      Table("schema_change_log"), Index("schema_change_log", <<"schema_uid">>),
      Table("sync_state"), Table("sync_oplog"), Index("sync_oplog", <<"pushed">>)>>

\* The administrator of development: nothing once there is a user, or in another mode.
DevAdmin == <<Do("count_users"), Do("insert_role"), Do("insert_user"), Do("link_user")>>

\* SeaORM's own tables, two for all; whether it creates them twice without an error is not known.
Rbac == <<[Table("sea_orm_1") EXCEPT !.does = "external"], [Table("sea_orm_2") EXCEPT !.does = "external"]>>

Workflow ==
    <<Table("workflow"), Index("workflow", <<"active">>), Table("workflow_credential"),
      Table("workflow_execution"), Index("workflow_execution", <<"workflow_id">>), Index("workflow_execution", <<"status">>),
      Table("workflow_node_run"), Index("workflow_node_run", <<"execution_id">>)>>
Presets ==
    <<Table("import_export_mapping_preset"), Index("import_export_mapping_preset", <<"source_uid", "target_uid">>)>>
Ai ==
    <<Table("ai_provider"), Table("ai_model"), Index("ai_model", <<"provider_id">>),
      Table("ai_conversation"), Index("ai_conversation", <<"user_id">>),
      Table("ai_message"), Index("ai_message", <<"conversation_id">>),
      Table("ai_usage"), Index("ai_usage", <<"user_id">>), Index("ai_usage", <<"created_at">>)>>
AiPrivacy == <<Column("ai_conversation", "privacy_mode")>>
Views ==
    <<Table("content_type_views"), Index("content_type_views", <<"content_type_uid", "position">>),
      UniqueIndex("content_type_views", <<"content_type_uid", "slug">>)>>

Statements ==
    [init |-> InitSchemas \o InitAdmin \o InitUploads \o InitRest, dev_admin |-> DevAdmin, rbac |-> Rbac,
     workflow |-> Workflow, presets |-> Presets, ai |-> Ai, ai_privacy |-> AiPrivacy, views |-> Views]

\* In this order they run.
Order == <<"init", "dev_admin", "rbac", "workflow", "presets", "ai", "ai_privacy", "views">>

Place(m) == CHOOSE k \in DOMAIN Order : Order[k] = m

\* In this order they were written, so that an older server has run a beginning of it.
Written == <<"init", "rbac", "workflow", "presets", "ai", "ai_privacy", "dev_admin", "views">>

Makes == {"table", "index", "unique", "column", "external"}
Creates(S) == {s \in UNION {Range(Statements[m]) : m \in S} : s.does \in Makes}

\* The table that the foreign key of content_type_views is to needs its unique index.
Needs(s) ==
    CASE s.does \in {"index", "unique", "column"} -> {Table(s.on)}
      [] s = Table("content_type_views") -> {Table("content_type_schemas"), UniqueIndex("content_type_schemas", <<"uid">>)}
      [] s.does \in {"count_users", "insert_role", "insert_user", "link_user"} ->
             {Table("admin_user"), Table("admin_role"), Table("admin_user_role")}
      [] OTHER -> {}

-----------------------------------------------------------------------------

Nobody == [users |-> {}, role |-> FALSE, linked |-> {}]
Someone == [users |-> {"first"}, role |-> TRUE, linked |-> {"first"}]

\* A new database, or one that an older server has left, perhaps with an administrator.
Init ==
    \E n \in 0..Len(Written) :
        /\ recorded = {Written[k] : k \in 1..n}
        /\ objects = Creates(recorded)
        /\ people \in {Nobody} \cup (IF n > 0 THEN {Someone} ELSE {})
        /\ server = "off" /\ pending = {} /\ step = 1 /\ before = <<>> /\ dev = FALSE
        /\ starts = 0

State == <<objects, people, recorded>>

Start ==
    /\ server = "off" /\ starts < MaxStarts
    /\ starts' = starts + 1
    /\ server' = "migrating"
    /\ pending' = Range(Order) \ recorded /\ step' = 1
    /\ before' = State
    /\ dev' \in BOOLEAN
    /\ UNCHANGED <<objects, people, recorded>>

Running == server = "migrating" /\ pending # {}
First == CHOOSE m \in pending : \A n \in pending : Place(m) <= Place(n)
Todo == Statements[First]

\* Whether the statement may be run when what it creates is there.
Repeatable(s) == s.does = "column" => s \notin objects

\* A table, an index or a column is created.
Create ==
    /\ Running /\ step <= Len(Todo)
    /\ LET s == Todo[step]
       IN  /\ s.does \in Makes
           /\ Needs(s) \subseteq objects /\ Repeatable(s)
           /\ objects' = objects \cup {s}
    /\ step' = step + 1
    /\ UNCHANGED <<people, recorded, server, pending, before, dev, starts>>

\* dev_admin_mode, and the count of users: nothing more is done when there is one.
CountUsers ==
    /\ Running /\ step <= Len(Todo) /\ Todo[step] = Do("count_users")
    /\ Needs(Todo[step]) \subseteq objects
    /\ step' = IF dev /\ people.users = {} THEN step + 1 ELSE Len(Todo) + 1
    /\ UNCHANGED <<objects, people, recorded, server, pending, before, dev, starts>>

\* The role that is there already is taken.
InsertRole ==
    /\ Running /\ step <= Len(Todo) /\ Todo[step] = Do("insert_role")
    /\ people' = [people EXCEPT !.role = TRUE]
    /\ step' = step + 1
    /\ UNCHANGED <<objects, recorded, server, pending, before, dev, starts>>

InsertUser ==
    /\ Running /\ step <= Len(Todo) /\ Todo[step] = Do("insert_user") /\ people.role
    /\ people' = [people EXCEPT !.users = @ \cup {"admin"}]
    /\ step' = step + 1
    /\ UNCHANGED <<objects, recorded, server, pending, before, dev, starts>>

LinkUser ==
    /\ Running /\ step <= Len(Todo) /\ Todo[step] = Do("link_user")
    /\ people' = [people EXCEPT !.linked = @ \cup {"admin"}]
    /\ step' = step + 1
    /\ UNCHANGED <<objects, recorded, server, pending, before, dev, starts>>

\* A mutant: recorded with its last statement to come.
DoneEarly == step >= Len(Todo)
Done == step > Len(Todo)

Record ==
    /\ Running /\ Done
    /\ recorded' = recorded \cup {First}
    /\ pending' = pending \ {First} /\ step' = 1
    /\ UNCHANGED <<objects, people, server, before, dev, starts>>

\* The transaction commits, and the start goes on: seeding, the cache, the listener.
Migrated ==
    /\ server = "migrating" /\ pending = {}
    /\ server' = "serving"
    /\ UNCHANGED <<objects, people, recorded, migrating, dev, starts>>

Stop ==
    /\ server' = "off" /\ pending' = {} /\ step' = 1
    /\ IF Transactional /\ server = "migrating"
       THEN objects' = before[1] /\ people' = before[2] /\ recorded' = before[3]
       ELSE UNCHANGED <<objects, people, recorded>>
    /\ before' = <<>>
    /\ UNCHANGED <<dev, starts>>

\* The process dies, wherever it is.
Crash == server # "off" /\ Stop

\* A statement that the database refuses ends the start.
Refused(s) == ~(Needs(s) \subseteq objects) \/ ~Repeatable(s) \/ (s.does = "external" /\ s \in objects)
Fails == Running /\ step <= Len(Todo) /\ Refused(Todo[step])
StartFails == Fails /\ Stop

\* The first user registers.
Register ==
    /\ server = "serving" /\ people.users = {}
    /\ people' = Someone
    /\ UNCHANGED <<objects, recorded, server, migrating, dev, starts>>

Process == Create \/ CountUsers \/ InsertRole \/ InsertUser \/ LinkUser \/ Record \/ Migrated
Next == Start \/ Process \/ Crash \/ StartFails \/ Register

-----------------------------------------------------------------------------

\* A server that serves has every table, index and column, however often it was cut off while it
\* made them, and from whatever older version its database came (Migrator::up in main.rs).
ServesMigrated ==
    server = "serving" =>
        /\ recorded = Range(Order)
        /\ objects = Creates(Range(Order))
        /\ people.role \/ people.users = {}

\* What a start was cut off in can be gone on with.  Two statements are known not to bear it on a
\* database without transactional DDL: the new column, and perhaps those of SeaORM.
Resumes == Fails => ~Transactional /\ Todo[step] \in {Column("ai_conversation", "privacy_mode")} \cup Range(Rbac)

\* Statements that a start has run of the first of its migrations.
Run(n) == {s \in {Todo[k] : k \in 1 .. n} : s.does \in Makes}
Exact == objects = Creates(recorded) \cup (IF Running THEN Run(step - 1) ELSE {})

\* What goes before what, in every database a server has left.
Sorted(done) == (done # {} => "init" \in done) /\ ("ai_privacy" \in done => "ai" \in done)

\* A user has come with its role.
People == [users : SUBSET {"first", "admin"}, role : BOOLEAN, linked : SUBSET {"first", "admin"}]
Seeded(them) == them \in People /\ (them.role \/ them.users = {})

\* What a transaction goes back to is what the last start had left.
RollsBack ==
    /\ before[3] \subseteq Range(Order) /\ Sorted(before[3])
    /\ before[1] = Creates(before[3])
    /\ Seeded(before[2])

\* What there is between any two statements: the tables of what is recorded, and of what was run; and
\* no more than that where a start that is cut off leaves nothing behind.
MigrationInv ==
    /\ recorded \subseteq Range(Order) /\ Sorted(recorded)
    /\ Creates(recorded) \subseteq objects /\ objects \subseteq Creates(Range(Order))
    /\ Seeded(people)
    /\ server = "off" => pending = {}
    /\ server = "serving" => pending = {} /\ recorded = Range(Order)
    /\ server = "migrating" => pending = Range(Order) \ recorded
    /\ Running => step \in 1 .. Len(Todo) + 1 /\ Run(step - 1) \subseteq objects
    /\ Transactional => Exact /\ (server = "migrating" => RollsBack)
=============================================================================
