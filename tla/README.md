# A verification project for FerrisCMS

FerrisCMS is a headless CMS in Rust: content types are designed at run time
(Content-Type Builder), stored as JSON rows, turned into physical tables, and
served from an in-memory cache; entries go through Draft & Publish; workflows,
an AI assistant, roles and imports act on them. All handlers run concurrently
over one shared `AppContext`, and only three operations of the whole server use
a database transaction: `ctb_apply`, `cm_publish` and `cm_unpublish`. That is
where this project starts.

The project has TLA+ modules translated from the Rust source, TLC runs that
check them on small instances, and TLAPS proofs of the properties that matter
most. `PROJECT.json` lists the components, runs, mutants, the lines each
definition stands for, the findings, the hazards and the theorems.

## 1. Inventory

| Component | State it keeps | Operations | What is hard | What makes it correct |
|---|---|---|---|---|
| Content-Type Builder (`services/content_type_builder.rs`, `schema_cache.rs`, `core-schema/diff.rs`, `dynamic-store/ddl.rs`) | rows of `content_type_schemas`, `schema_change_log`, the content tables, the cache | `ctb_apply`, `rebuild_cache`, `load_schema_cache`, the AI tools, bundle import | the diff is made of a cache snapshot outside the transaction; the cache is rebuilt after it; crashes in between; removal keeps tables | no data lost by DDL, a complete log, what is served is stored, the cache agrees with the rows, a save is served |
| Content Manager (`services/content.rs`, `dynamic-store/dml.rs`, `value.rs`, `core-schema/payload.rs`, `api-types/query.rs`) | the rows of a content table, link columns and join tables | create, update, delete, publish, unpublish, discard, lists, relations, computed values | rows read before the transaction that writes them; soft delete under unique indexes; links written one by one; filters of SQL with nulls | no entry lost, one variant of each kind, deleted stays deleted, links and computed values are current, filters mean what they say |
| Workflow engine (`services/workflow/*`, `workflow/expression.rs`) | workflows and their versions, executions, node runs | create, import, duplicate, save, activate, delete, execute, cancel, retry, events, webhooks; templates | an execution runs in a thread of its own; cancel races with completion; definitions are read, changed, and written back; a crash leaves `running` rows | a success is recorded task by task, finished executions stay finished, every execution ends, templates have the value their grammar gives |
| Permissions, users, OIDC, tokens (`rbac.rs`, `auth.rs`, `seed.rs`, `oidc.rs`, `api_tokens.rs`) and the server's start (`main.rs`) | users, roles, links, permissions; pending OIDC logins | seeding, first registration, provisioning, grants, updates, checks | check-then-insert; delete-then-insert of grants; user and role link apart; crashes at each | an administrator administers, one account for an identity, the matrix is what was asked, the server comes to serve |
| AI assistant (`services/ai/*`, `app/screens/ai.rs`) | conversations, messages, tool calls and their placeholders, usage; the screen's selection | chat, tool loop, confirm tool calls, delete, select | a confirmation executes several tools; two requests in one conversation; answers for another selection | nothing runs unconfirmed, histories stay acceptable to providers, the screen shows what is selected |
| Saved views (`services/views.rs`) | views per type, default, positions | ensure default, create, duplicate, update, set default, reorder, delete | counts are read before writes | there is a view, and one default |
| Import and export (`services/import_export/*`) | entries, through the store; a report; mapping presets | analyse, import in three modes, export in three formats, presets | matches are read once; a relation failure after an insert; what one format tells apart and another does not | an upsert finds what is there, the report adds up, an export comes back |
| System tables (`db/migration.rs`) | the tables of every other component, the record of migrations | up, at every start | a crash in the middle, on a database that commits every statement | a server that serves has all of them |
| Formulas and computed fields (`core-schema/expression.rs`, `validation.rs`, `ddl.rs`) | none | parse, validate, inline, generate | precedence, cycles, generated columns that read others | grouped as the grammar says, cycles refused, no generated column reads another |
| Application (`app/*`, `client-core`) | the copies and calls of each screen, the browser's storage | sign in and out; edit entries, content types, fields, workflows; list; import | buttons that can be pressed again; answers that come late, out of order or not; copies that are stale | Saved means stored, nothing stored twice or removed unasked, a screen at rest shows what is there, logged out stays out |
| REST handlers (`api-rest`) | the context they share | pass calls on | concurrency and cancellation of handlers | in the models of what they call |
| Media, locales, AI generation, AI providers, other screens | files, single rows, forms | single statements, external calls, rendering | nothing that calls share | - |

Interactions: handlers call services; services read the schema cache and write
through the dynamic store; `ctb_apply` is called by the REST handler, by the AI
tools, and by the bootstrap import; the workflow executors call the dynamic
store directly, so their writes dispatch no events; a content write dispatches
an event to the workflow triggers after it is done; saving a content type grants
permissions on it after its commit; an import writes through the store without
the Content Manager; the application talks to all of it by REST calls, one per
button, and keeps copies of what it read.

## 2. Plan

| # | Modules | Abstract specification or reference definition | Proof module | State |
|---|---|---|---|---|
| 1 | `SchemaRegistry` (with `MCSchemaRegistry`) | `Catalog` | `SchemaRegistryProofs` | every safety property and the refinement proved |
| 2 | `ContentLifecycle` | `Entries` | `ContentLifecycleProofs` | every property and the refinement proved |
| 3 | `WorkflowEngine` | `WorkflowBook` | `WorkflowEngineProofs` | every safety property and the refinement proved |
| 4 | `ContentRelations`, `Importing` (one store, saves and imports at once) | a fresh count; the table for the match map | `ImportingProofs` | every property proved |
| 5 | `Access` (start, users, matrix) | the matrix asked for | `AccessProofs` | every safety property proved |
| 6 | `Assistant`, `SavedViews`, `Migrations`, `Transfer` | - | `AssistantProofs`, `ServicesProofs` | proved, except `RoundTrips` of `Transfer` |
| 7 | `EntryEditor`, `BuilderScreen`, `FieldForm`, `ListScreen`, `ImportWizard`, `WorkflowEditor`, `Session` | what the server stores | `ScreensProofs` | every property proved |
| 8 | `Formulas`, `ComputedFields`, `Queries`, `Payloads`, `Templates` | grammars, cycles and meanings as definitions of their own | none | model-checked |

The order follows what would hurt most: losing schemas or columns, losing
entries, then executions, links, access, and the rest. Modules of components that
share no state are instantiated side by side in one MC module, where a behaviour
is of one of them (`MCServices`; `AppScreens`, which `MCScreens` extends with the texts
and values of row 8). A proof speaks of the same module as the run does.

## 3. Modules and the code

### SchemaRegistry

| Model | Code |
|---|---|
| `rows` | `content_type_schemas`: `version`, `deleted_at`, the schema; unique `uid`; rows are never deleted |
| `log` | `schema_change_log`; `id` is the call that wrote the entry |
| `tables[t].cols`, `.detached` | the live columns of a content table; the columns renamed away by an incompatible change |
| `cache` | `SchemaCache`, replaced as a whole |
| `job[p]` | the locals of a call: its batch, the cache snapshot (`current`), the rows read in the transaction (`seen`), table locks, the rows the rebuild selected (`loaded`) |
| `Submit`, `AiSave`, `AiDelete` | `ctb_apply` up to the diff, from its three kinds of callers |
| `Begin`, `Commit` | the transaction: DDL and reads, then writes and commit |
| `LoadRows`, `SwapCache` | `rebuild_cache`: select `version > 0`, replace |
| `Refused`, `Fail` | errors; handlers that are dropped when the client goes away |
| `Crash`, `Boot` | the process dies and `load_schema_cache` runs at start |

An attribute is abstracted to its SQL family, because that is all `diff` and the
DDL tell apart when they decide between adding, renaming and leaving a column.
Version arithmetic is the code's: previous + 1 for a save, negated for a
removal, with 0 for a row that is not there.

`Catalog` is the abstract specification: the content types in use change batch
by batch, each as a whole, and a batch never removes what it does not name.
The refinement maps `inUse` to the rows with a positive version.

### ContentLifecycle

| Model | Code |
|---|---|
| `rows` | the rows of one content table; `deleted` is `deleted_at` |
| `Found` | `find_by_document_id`: no locale, no state, no order |
| `Collides` | the unique indexes of `create_host_table`, which ignore `deleted_at` |
| `SoftDeleted` | `delete_one`: every live row of the document |
| `Create`, `Delete`, `Discard` | `cm_create`, `cm_delete`, `cm_discard_draft`: one statement; the last two send the same one |
| `Read`, then `Write` | `update_one`: find, then update by id |
| `Read`, then `CommitCopy` | `cm_publish`, `cm_unpublish`: load, then one transaction |
| `Read`, `InsertCopy`, `DeleteOriginal` | the workflow functions, without a transaction |
| `Refused`, `Fail` | validation or unique index; error, cancellation, crash |

A generated UUID is the id of the row it is generated for, which keeps it
different from every other. `entry` is a ghost: the row an entry began as,
carried to its copies, so that properties can speak of what the user takes for
one entry although publishing changes the document id.

`Entries` is the abstract specification of what readers find: create, update,
delete and publish take effect at once, and as a whole. `ImplementsEntries` checks
that the code does so however calls overlap and fail, each statement of a
workflow step counting as a call. To readers an unpublish by request is a
deletion, and so is discarding a draft, which the run and the theorem leave out
because it says something else of itself: `discard_published` is its counterexample.

### WorkflowEngine

| Model | Code |
|---|---|
| `workflows` | the table `workflow`: the columns `active` and `version`, and `doc`, the document in `definition_json`, which repeats them and has an id of its own |
| `execs` | `workflow_execution` with its `workflow_node_run` rows (`tasks`); `of` and `ran` are ghosts: the row the execution was meant for, the tasks the runtime ran |
| `thread[e]` | the thread `execute_workflow` spawns for an execution |
| `Create` | `workflow_create`, and the `None` branch of `workflow_save` (import, duplicate), and `seed_demo_workflows` |
| `ReadWorkflow`, then `Save`, `Switch`, `DeleteWorkflow` | `workflow_save`, `workflow_set_active`, `workflow_delete`: find, then write by id |
| `PurgeExecutions` | the second statement of `workflow_delete` |
| `RequestRun` | the calls that start executions: by id, by an event (`dispatch_cms_event`, `dispatch_media_event`), by a webhook, by `execution_retry` |
| `LoadWorkflow`, `InsertExecution`, `Spawn` | `execute_workflow`: load and validate, `create_execution`, spawn |
| `CancelRead`, `CancelWrite` | `execution_cancel` |
| `RunTasks`, `RecordTask`, `Finish`, `FinishFailing` | `run_execution` and what the thread does with its error |
| `ThreadFault`, `RequestFault`, `Restart` | database errors, panics, clients that go away, crashes |

The tasks of a definition are run by the external OWS runtime: it runs some of
them, and if it fails then at the last. `Matching` and the execution's
`workflow` column take the id from the document, as the code does.

`WorkflowBook` is the abstract specification of definitions: each save makes the
next version, activation changes the flag only, and only of a definition that
is valid. `ImplementsBook` checks it for requests that do not overlap.

### ContentRelations and Importing

| Model | Code |
|---|---|
| `authors`, `books`, `links` | the live rows of two content types, the foreign key of a book (its many-to-one side), the join rows in their order |
| `Save`, then one step per statement | `cm_create`, `cm_update`: the row, then `persist_relations` attribute by attribute, then `refresh_relation_computed` |
| `Finish`, `CutOff` | the answer; an error or a client that goes away between two statements |
| `LoadExisting`, `AtValid`, ... | `import_dataset`: the map of matches, then validation, write, relations and count, record by record |

### Access

`Start`, the steps of seeding and `FirstAdmin` are `main` up to serving; `Register`,
`Provision`, `SsoCallback`, `UpdatePermissions`, the grants of a saved content type and `Check` are
the calls, statement by statement, with `Crash` between any two. `asked` is a
history variable: the matrix that was last asked for, where calls did not overlap. The standard
grants of a content type are asked for when it is new (`created` has those that are not); a role whose
own grants of a type are overwritten when the type is saved again has, from then on, what nobody asked for, and
`asked` says so.

### Assistant, SavedViews, Migrations, Transfer

`Assistant` has the tool loop of `send_message` and `confirm_tool_calls`, with the
messages of each conversation reduced to their kinds, and the chat screen: its
selection, its loads, its card. `SavedViews` has every call of `views.rs`, statement by
statement. `Migrations` has the migrations in their order, each a list of the objects
its statements create; `Transactional` says whether a crash undoes them.
`Transfer` follows entries through `serialize`, the parsers (the CSV reader is external and
modelled character by character), `build_mappings`, `apply_transform` and
`build_target_record` to the records that are written, or refused by `validate_payload`: attributes are
texts, required texts or numbers (`kinds`).

### The screens

| Module | Code |
|---|---|
| `EntryEditor` | `ContentManagerEntry` with its staged and stored lines, the save loop, the calls and what they store |
| `ListScreen` | `ContentManagerEntries`: page, size, total, the loads under way, bulk deletion; the server answers a load by two statements, the rows and the count |
| `BuilderScreen` | both pages of the Content-Type Builder, their copy of all schemas, the dirty flag |
| `FieldForm` | `FieldConfigModal`: which settings Finish writes, by field type |
| `ImportWizard` | steps, files, analyses, targets, mappings, presets, imports, with reads and answers that come late |
| `WorkflowEditor` | the copy of a document, its tasks by name, save, activation, execution |
| `Session` | `Global::new`, `set_token`, login, registration, SSO and logout in tabs that share the browser's storage |

### Texts and values

`Formulas` parses every text of a few tokens and compares with the groupings the grammar
allows. `ComputedFields` validates fields that read each other, and inlines
what becomes a generated column. `Queries` puts the keys of a query string into
the tree, reads it as a filter, and evaluates it over rows with nulls as SQL does;
pages are taken with the arithmetic of `query.rs`. `Payloads` follows one value from
JSON to a column and back. `Templates` tokenises, parses and evaluates blocks,
and compares with the value of the grammar's tree. These modules use RECURSIVE
operators and stay with TLC.

## 4. Runs

| Run | Instance | What it shows |
|---|---|---|
| `registry_races` | 2 callers, 3 calls, 1 content type, 2 attributes, 2 families, 2 tables, PostgreSQL, crashes, dropped calls, fairness | `AuditTrail`; `ServedIsStored`; `StorageRetained`; `EveryApplyReturns` |
| `registry_serial` | 1 caller, 4 calls, 2 content types, SQLite, AI tools | `SavesDecide` (the cache is current at every answer, only saves put a type into use), `ImplementsCatalog` |
| `registry_recreated` | 1 caller | counterexample: saved again after a removal, the type is not served |
| `lifecycle_serial` | 1 client, 5 calls of every kind, 2 locales, 1 chosen document id | `VariantsUnique`, `PublishTakesEffect` (what is published is what was saved, nothing is refused, deleted stays deleted) |
| `lifecycle_races` | 2 clients, 4 calls of every kind but discard, 1 chosen document id, 2 values, interruptions | `PublishKeepsEntries`; `ImplementsEntries` |
| `discard_published` | 1 client, 3 calls | counterexample: discarding the draft of an entry deletes what is published of it |
| `workflow_races` | 2 clients, 5 calls of every kind, 1 workflow, 1 execution, 2 tasks, faults, restarts | `ActiveAgrees`; `RunsRecorded`; `FinalIsFinal` |
| `workflow_serial` | 1 client, 5 calls, 2 workflows, 2 executions, 1 task, a valid and an invalid definition, fairness | `ImplementsBook`; `ExecutionsEnd` |
| `relations` | 2 clients, 2 calls, saves and imports, 3 authors, 3 books, interruptions | `TotalsFresh`; `SavedIsServed`; `ImportAsAsked` |
| `access` | 2 clients, 2 calls, 3 users, 2 starts, mails that differ in case, 3 set-ups of a deployment, faults, fairness | `AdministratorsAdminister`; `OneSsoAccount`; `MatrixAsAsked`; `ChecksAgree`; `ComesToServe` |
| `services` | 2 conversations, 3 requests, 2 at once; 2 callers of views, 2 calls; 3 starts; 1 or 2 entries of 1 or 2 attributes of 3 kinds exported | `ConfirmedRuns`, `HistoryAccepted`, `ScreenAgrees`; `OneDefault`; `MigrationsFinish`; `RoundTrips` |
| `screens` | one screen at a time, 2 to 6 moves of the user each, calls that fail or come late; formulas and templates of 5 and 6 tokens, 3 computed fields, 3 query pairs over 4 rows, integers of 4 bits | `StoredOnce`, `SavedMeansStored`; `NeverStranded`; `CleanIsStored`, `GoneOnlyIfAsked`; `UntouchedKept`; `ImportedAsAnalyzed`; `LoggedOutStaysOut`; `FormulasCompute`, `StoreAnswers`, `TemplatesRender` |

Types are checked by the proofs (section 5), where every module with a proof has
its `TypeOK`. A property of several parts (`SavesDecide`, `PublishTakesEffect`, `ImportAsAsked`,
`MigrationsFinish`, `CleanIsStored`, `FormulasCompute`, `StoreAnswers`, `TemplatesRender`) is the conjunction of
properties stated one by one in the modules; a definition called a mutant
beside the code it mutates breaks each of them, and `PROJECT.json` lists one per property.

`AppScreens` has one variable that says which screen a behaviour is of, and each property of a
screen says that of its own variables. The serial runs say what holds when calls do not overlap;
the same properties fail when they do, which the list below shows, and
which is why the theorems about them have that hypothesis.

**Bounds.** `MaxApplies` and `MaxCalls` bound the calls started, and nothing
else is cut off. Three calls of `ctb_apply` suffice for create / remove /
re-create and for two overlapping saves after a first one; two attributes allow
a column to be added while another changes family; four serial calls add a
retype of a re-created type. Four calls on entries suffice for create, two that
overlap, and one against what they leave; each call
inserts at most one row. In `relations` two saves of one author, or a save and an import of two
records, overlap in every order of their statements; three books let one be taken from an author, one
kept and one added. In `access` two calls overlap with each other, with a start and with its crash. In `services` and
`screens` two or three calls are what it takes for an answer to come after a later one, for a retry to
meet what the first try did, and for a deletion to meet a page that is being read; five tokens hold two
operators with an operand each, a unary one, or a group. Five calls on workflows suffice to create one, start an
execution, cancel it or overlap two calls, and retry or delete; one execution has
one thread, and two tasks let it die between two records; two executions appear
in the serial run. `MaxWorkflows` and `MaxExecs` bound the rows inserted: a call
that would insert one more waits at the insert. The lifecycle and workflow runs have `CHECK_DEADLOCK FALSE`, since
they stop when all calls are used up and answered; in the registry `Crash` is
always possible or the process can boot.

**Fairness** (`FairSpec`, for `EveryApplyReturns` and `ExecutionsEnd`, and `Spec` of `Access`, for `ComesToServe`). A started call is a
task the runtime schedules, hence weak fairness on its steps; the database
grants locks in turn, hence strong fairness on `Begin`, which waits for table
locks; a dead process is started again. Clients need not call, and nothing
fails for certain. A thread that was started is scheduled by the operating system,
hence weak fairness on the steps of each execution's thread; a start that is under way goes on, and a
server that is down is started again, hence weak fairness on `Starting` and `Restart` in `Access`, where the bound on starts
bounds the crashes; that the OWS runtime
returns is an assumption on the workflow (an endless loop in it would run for
ever). `ExecutionsEnd` is stated for runs in which nothing dies: the code has
nothing that would finish what a crash left running.

**Counterexamples not kept as runs.** The model also shows, with other
properties or constants:

- a content type re-created over the table a removal retained misses its new
  columns, because `CREATE TABLE IF NOT EXISTS` leaves the old ones;
- the AI tool that deletes a content type sends the whole registry as desired
  and the uid as removed, so `ctb_apply` ignores the removal and the tool answers Ok;
- two publishes that both loaded one draft leave two published entries;
- two overlapping removals negate the version twice, so that the type is back;
- a new plural name changes the table name and nothing creates the table;
- an attribute removed and added with another family gets its old column;
- publishing one locale soft-deletes the document's other locales;
- a publish that overlaps a delete brings the entry back, and one that
  overlaps an update loses an acknowledged update;
- a workflow publish cut off after its insert and run again leaves two
  published rows;
- two entries with the same chosen document id: publishing one deletes the
  other, which is why `PublishKeepsEntries` speaks of the entries with generated ids only;
- unpublishing by request leaves no row that a reader finds: the copy keeps the
  document id, and is deleted with the original (`UnpublishGivesDraft`);
- an update of a row that was deleted since it was read answers Ok (`UpdateIsSeen`);
- an execution of a workflow that was never saved by its id has workflow id 0:
  it is not listed with the workflow, not deleted with it, and cannot be retried;
- a save that overlaps an activation is undone by it, definition and all, while
  the version column stays; two saves that overlap make the same version;
- a save activates a workflow whose definition is not valid;
- the end of a run overwrites a cancel, and a cancel that read `running`
  overwrites the end of the run: the two exceptions of `FinalIsFinal`;
- a crash between the insert of an execution and its end leaves it `running`;
- an execution that is started while its workflow is deleted outlives it;
- `CopyAccepted = FALSE`: the row that is read back lacks its links, so an entry
  with a required relation cannot be published.

The newer modules show, in the same way:

Relations and imports
- an import refreshes no computed value; records of one upsert file that share a
  match value are each inserted; numbers as match values differ in form;
- `importer.rs:205` and 231-232 say that the error of a record that failed is in the list: a record whose relation
  fails is counted as failed, and nothing is listed (`EveryFailureListed`);
- two saves of different authors take each other's books; a one-to-many relation
  whose other side has no many-to-one is never served.

Access
- an administrator without a role, left by a crash after the first registration,
  closes registration, and in development makes the bootstrap fail (`main.rs:185`);
- `rbac.rs:392` speaks of a freshly-created content type: every save grants again, and takes away what a role was
  given of that type since (`CustomGrantsStay`);
- users made by `rbac_create_user` have no role; permissions on workflows are reset by
  each start; registration keeps a mail as typed while SSO looks for it in lower case.

Assistant and views
- `ai.rs:628-630` says that the Confirm card comes back after a reload: it does until the first placeholder is
  stored, and not when the request has ended; a confirmation pressed twice, or retried, runs its tools twice;
- two overlapping deletions leave no view; a first list beside a create leaves two
  defaults; of two first lists one fails on the unique slug; the same view duplicated twice collides.

Migrations
- on SQLite a crash between the ALTER of `privacy_mode` and its record makes every later start fail;
- a crash between the development administrator and its role leaves it without one, and a migration
  recorded in production mode never seeds it later.

Exports and the wizard
- `exporter.rs:1-2` calls the round-trip lossless: an export of several content types in JSON or YAML
  is one record to the importer, CSV has only the first type, a lone return breaks its rows, and
  nulls, numbers and blanks at the ends come back as texts;
- an empty number comes back from CSV as an empty text, and a file may lack a required attribute: such records are refused;
- the suggested mapping takes `id` for `width`, or `publicationState` for `state`, which leaves their own
  fields out, and rows that "need attention" are imported anyway; an export of a type with one attribute
  is not recognised as its own; `Preserve` imports drafts; unticking the last field exports all;
- files or CSV settings changed during an analysis are imported under the old mapping; a
  slower read of an earlier choice replaces a later one; Import pressed twice imports twice; a preset is
  applied to the first dataset whatever its type.

Screens
- entry editor: Save pressed twice stores two entries; a line added while saving is dropped when the
  screen is left; a load that fails, then a new line and Save, detach the former lines; a lost answer
  duplicates lines;
- list: an entry added between the two statements of a load (`dml.rs:316` and 323) leaves an empty list beside a positive
  total; a last load that fails, an answer that overtakes an earlier one, or views that arrive late leave the screen on a
  page beyond its last, against `content_manager.rs:553-556`; a header or a filter puts it on page 1 without loading it; the dialog of a deletion may be gone before it is sent; ticks on other pages are deleted too;
- Content-Type Builder: after an import only the imported types are listed; a new type with the uid of an
  unlisted one empties it; edits during a save lose the dirty flag; a stale copy undoes what another
  administrator saved;
- field form: of several allowed media types one survives Finish; a condition switched off stays;
- workflow editor: a save that fails is shown as done (`workflow_editor.rs:136`); an activation replaces unsaved
  changes; after a task was removed, a new one may get the name of another, and both are then changed
  and removed together;
- session: other tabs stay signed in after a logout; when another tab has signed in meanwhile, the
  token of an SSO stays in the address, and a reload after the logout signs in with it; an answer 401 signs nobody out.

Texts and values
- `filters[title][$or][0][$contains]=x` becomes `title = x` (`query.rs:478`); operators beside `filters[title]=x` are
  ignored; "1e3" becomes a number; pages overlap when the sort key ties; a huge page overflows (`query.rs:64`);
- `payload.rs:5-7` says that what cannot be stored is rejected: integers beyond 32 bits wrap, 1.6 becomes 2,
  "yes" and any text as a date pass and fail in the database, an update with null empties a required field;
- a formula with trailing garbage is accepted; `expression.rs` says that `evaluate` mirrors the DDL, which differs for
  nulls and integer division; `SUM(a)` over a scalar is accepted and its DDL fails;
- in templates a number never equals a text, `>=` and `<=` hold of values that cannot be compared, `a-1` is
  one name, `"}}"` in a text ends its block, and a division by zero is null.

`cm_publish` also puts `published_at` into the copy (`content.rs`, line 589)
where the store's write does not pick it up; the column is not part of the model.

## 5. Proofs

Eight modules hold the theorems. Each proves, for every value of the constants, what the runs show on their
instances: the types, every safety invariant of the passing runs except those of recursive operators and of
`RoundTrips`, every action property, and the three refinements. Where the property a run checks is the
conjunction of several, so is the theorem.

Most proofs have one shape. An invariant is strengthened until it is inductive, and the model checker looked
for steps that break the strengthening before it was proved. Then come the lemma that it holds at first, one
lemma per action, one for `Next`, and the theorem, with `PTL` joining them. The strengthening is where the
argument is, and is told below.

### The Content-Type Builder: `SchemaRegistryProofs`

- `TypeCorrect`: `Spec => []TypeOK`.
- `DataRetained`: `Spec => StorageRetained`, from the types.
- `Audited`: `Spec => []AuditTrail`. `AuditTrail` speaks of the rows; the rows are written from what a call
  read in its transaction (`seen`), and the kind that is logged comes from the cache snapshot (`current`).
  `AuditInv` therefore says of all three, and of `loaded`, that the log explains them: whatever is or was
  served has a row, and a type that is diffed as known has been created.
- `ServedStored`: `Spec => []ServedIsStored`. `StoredInv` carries the claim through snapshots, reads, loads
  and the cache. Its proviso (`CreatedOnce`) is about the log, so a second creation must be a different entry:
  `TicketInv` says that no two calls under way share a ticket and none finds its own in the log before its
  commit. Without `TicketInv` a second creation could hide behind an equal entry.
- `SavesAreDecisive` (`SavesDecide`) and `BatchByBatch` (`ImplementsCatalog`), for one client whose calls are
  not dropped after their commit (`OneCall`, `~DropAfterCommit`). `SerialInv` says that between calls the
  cache is what the rows say, and that the call under way has read what is still there. Two clients break
  both, as section 4 lists.

### Draft & Publish: `ContentLifecycleProofs`

`TypeCorrect`, and `EntriesKept`: `Spec => PublishKeepsEntries`. The argument is
that soft deletion works by document id while the property speaks of entries. `OneEntry` says that rows with
one generated document id belong to one entry, because such ids are fresh: `HeldInv` says that no row
has a document id that is still to be generated. `HeldInv` also says that the row a call holds is still in the
table with the same id, document and entry, and that the copy a workflow step has made is of that entry and
under another document id; so deleting the original does not delete the copy.

For one client: `VariantsOnce` (`VariantsUnique`, when nothing is interrupted), by `KeyInv`, that a document
has one row for each locale and state, deleted or not, and `OneDocInv`, that what is live of an entry is of
one document, but for what a workflow step is about to delete; `PublishWorks` (`PublishTakesEffect`, with
`CopyAccepted` and no unique attribute), by `ReadInv`, that the row a call has read is still in the table. For
any number of clients, interrupted or not, and every call but discard (`"discard" \notin Calls`): `CallsAtOnce`
(`ImplementsEntries`), by `KeyInv`, which the insert of a copy keeps and by which a copy appears beside nothing of its
document, and `BoundInv`, that a document id was given by a client or generated by a call, for which it counts the
calls that have still to insert their row (`Copying`).

### Workflows: `WorkflowEngineProofs`

`TypeCorrect`, `FlagsAgree`, `Recorded` and `FinalStatus` (`Spec => FinalIsFinal`), for any number of clients.
Types are inductive with `HeldInv`: a call holds the row or the id its next step writes. `ActiveAgrees` is
inductive with these, since every write sets both flags. The other two rest on `ThreadInv`: an execution has
one thread at most, started once; as long as it has one, or is still to get one, its status is `running` or
`cancelled`; and the thread has recorded every task that it no longer has to record. That it starts once needs
that no two calls spawn the same execution, which holds because ids are fresh, hence the bound by `started`. A
success is then written by a thread that has nothing left to record, and the only one that still writes to a
finished execution is a cancel, or the thread of a cancelled one.

`BookOfVersions` proves the refinement `ImplementsBook` for one client: `IdsInv` says that ids are given once,
`FreshInv` that a call which is about to write a workflow has read it as it is.

### Access: `AccessProofs`

`TypeCorrect`, `AdministratorsCan`, `SsoAccountIsOne`, `ChecksAnswer` and `MatrixIsAsAsked`, for any number of
clients, users and starts, with crashes and failures. One invariant has all parts: `IdsInv`, ids without gaps;
`RowsInv`, that calls run only while the server serves, that no mail address is taken twice, and that the user
a call still has to link is there; `SsoInv`, that an account of SSO has its address in lower case from the
lookup on, so that a second login finds it; `RolesInv`, that only a super administrator has several roles;
`SeenInv`, which relates what a check has found so far to what the matrix said at any moment of it, and at all
of them; and `MatrixInv`, which says for every writer of the matrix (seeding, an update, the grants of a
saved type) how far it is and what is therefore there, as long as it is alone. `MatrixIsAsAsked` says nothing
of a role whose own grants were lost when a type was saved again, until it is given others.

### Saves and imports: `ImportingProofs`

`TypeCorrect`, `TotalsAreFresh`, `SavesAreServed` and `ImportsAsAsked`, of the two modules together: an import
meets saves in any order of their statements. `TotalsInv`: when no call has written what it has not refreshed
yet, and none was cut off, totals are current. `AloneInv` says what is known of a call that no other has
overlapped; `ServedInv` follows such a save attribute by attribute (`BooksInv`, `TagsInv`), and `MapInv`
follows such an import record by record: a match is a row with the name that is looked for, and a name without
a match that no record before had is in no row.

### Assistant: `AssistantProofs`

`ConfirmedRunsOnly`, `HistoriesAccepted` and `ScreensAgree`. `PaidInv`: a tool call that changes something
runs no more often than Confirm was pressed, and each request that may still run it has a press of its own.
`TidyInv`: in a conversation whose requests did not overlap, every tool call is answered, except those of the
request that is under way, and a placeholder stands for those that wait. `ScreenInv`: what the screen shows is
of the conversation that is selected, or a load of that one is in flight.

### Views and migrations: `ServicesProofs`

`OneDefaultKept`: `Views!ApartInv` says, between any two statements of a call that is apart from others, which
view is or will be the default. `Migrates`: `Migrate!MigrationInv` says that between any two statements the
objects in the database are at least those of the recorded migrations and of the statements run since, and no
others where a crash undoes a migration (`Transactional`), and what a start still has to run.

### The screens: `ScreensProofs`

- `StaysOut` (`LoggedOutStaysOut`), for any number of tabs, accounts and sign-ins under way. `QuietInv`: no
  sign-in is under way in a tab that shows the application, is at the identity provider, or was logged out,
  because a screen's calls go with it.
- `UntouchedStay` (`UntouchedKept`), for fields that the form made (`~Imported`): `FormInv` says that such a
  field has only the settings of its type, so that what `Finish` leaves out was not there.
- `ListsFilled` (`NeverStranded`). For the entries: an answer with a page that is there and no rows has a total of
  zero, unless an entry was added between its two statements. `ListInv` says so of every load under way and of what is
  shown. Entries that are deleted in between do no harm: a page without rows when it was read is beyond the last one
  (`EmptyIsBeyond`, by the pigeonhole lemma `ByRank`), and stays so as the count shrinks (`PagesGrow`). For the page:
  `PageInv` says that, unless the screen has strayed, the last load sent is for its page and size, or one is asked for.
- `Analysed` (`ImportedAsAnalyzed`): `WizardInv` relates datasets, targets and mappings to the analysis they
  came from, and the reads and calls under way to the step the wizard is at.
- `CleanShown` (`CleanIsStored`) and `GoneIfAsked` (`GoneOnlyIfAsked`), for one call at a time (`AtOnce = 1`).
  `CopyInv` says that, while nobody else saves, neither the copy of the schemas nor the call under way would
  take anything away that was not confirmed, and `ShownInv` that an editor with nothing to save shows what is
  stored, or a save of just that is under way; `FlowInv` says the same of the workflow editor, whose part of
  `CleanIsStored` needs no hypothesis of its own. With two calls at a time a stale copy undoes a change, which
  section 4 lists.
- `NothingTwice` (`StoredOnce`) and `AllStored` (`SavedMeansStored`), for saves that do not overlap and calls
  whose answer is not lost after their effect (`~Overlap`, `~Lost`); calls may still fail at any point.
  `EntryInv`: at most one save is not over, and it is the last; until it has stored the entry, a save that
  creates is of an editor that has none; every line of a save is stored or left; a line that is left is not
  stored, except the first one once the server has it; a staged line is not stored except that one, which has
  the id that the answer drops; what is stored of a save belongs to its entry; and a line that is added at
  once is in none of these. Both hypotheses are needed: section 4 lists what happens without.

### Assumptions, and what the proofs asked of the models

The assumptions are those the modules name (`ConstantsAssumption`, `NoRowAssumption`, `NoTableAssumption`,
`LifecycleAssumption`, `EngineAssumption`, `AccessAssumption`, `RelationsAssumption`, `ImportAssumption`,
`AssistantAssumption`, `ServicesAssumption`, `ScreensAssumption`): sizes are numbers, names of different
things are different. TLC evaluates them in every run. The hypotheses of single theorems (`OneCall`,
`"discard" \notin Calls`, `AtOnce = 1` ...) are those of the run that checks the property; a run without them finds it
violated.

Some definitions have the form they have because of the provers, and say the same: elements of a sequence are
kept or dropped by their rank (`Kept` in `BuilderScreen` and `EntryEditor`) and not with `SelectSeq`, whose
definition is recursive; the pending migrations are a set; the calls of the assistant and of the import wizard
are numbered; alternatives that exclude each other are IF or CASE with conditions that cannot both hold.

### Only model-checked

- Liveness under fairness: `EveryApplyReturns`, `ExecutionsEnd`, `ComesToServe`. It is beyond the prover, as
  is `ENABLED`.
- `FormulasCompute`, `StoreAnswers` and `TemplatesRender`: parsers and evaluators that are RECURSIVE operators
  (`Formulas`, `ComputedFields`, `Queries`, `Templates`), whose results for every input need induction over
  data.
- `RoundTrips` (`Transfer`): it is about texts of any length, character by character, and needs induction over
  them.
- The counterexample runs.

## 6. Not modelled

In the modelled components: flags of attributes other than their SQL family
(required, unique, nullability rebuilds), auxiliary tables of relations,
deadlocks of DDL lock order between transactions (the database breaks them with
an error, which is `Fail`), the coupling of content
writes with the events they dispatch (`RequestRun` takes events at any time),
one-to-one and polymorphic relations, sorting by several keys, most transformations of an import, most
functions of templates, conditions and field lists of permissions, the table of pending OIDC states,
and the logs. In the workflow engine: permissions, credentials, exports, the node runs that
stay behind when their execution is deleted, and `run_scheduled_workflows` and
`dispatch_user_event`, which the repository defines and nothing calls. Down migrations, which nothing calls.

Whole components: AI generation and media analysis, AI providers (external calls), media and locales (single
statements), the settings, list and execution screens (they load once and render), naming, tests.
`PROJECT.json` lists every component with what is left out of it and why.
