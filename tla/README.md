# A verification project for the Objects API

The Objects API stores *objects* of registered *object types*. An object is a series of
*records*: a change never touches what is there, it adds a record and closes the one
before it. This directory holds TLA+ modules for the parts of that program that are hard
to test, the TLC configurations that check them on small instances, and proofs that TLAPS
checks for every value of the constants. Paths below are relative to the repository, whose
Django project is `src/objects/` (in `PROJECT.json`: `src/src/objects/`).

## Inventory

| Component | State | Operations | What makes it correct |
|---|---|---|---|
| Objects and records (`core/models.py`, `api/serializers.py`, `api/v2/views.py`, `api/mixins.py`) | rows of `core_object`, `core_objectrecord` | POST, PUT, PATCH, DELETE of objects | records are numbered without a gap, each ends when the next one starts, saved records are kept, a deleted object stays deleted |
| The admin of objects (`core/admin.py`) | the same rows | add and change pages with inline records | the same, when it meets the API |
| Reading by date (`core/query.py`, `api/v2/views.py`) | none | `?date=`, `?registrationDate=`, list, search, history | the record shown is the newest that had started; the formal history does not change |
| Object types and versions (`core/models.py`, `api/validators.py`, `core/admin.py`) | rows of `core_objecttype`, `core_objecttypeversion` | draft, change, publish, number, destroy | a published version does not change and is dated; a record's version is the one it was validated against |
| References to ZAKEN, cloud events (`cloud_events/tasks.py`, `ObjectViewSet.destroy`) | rows of `core_reference`, the Celery queue, what the subscriber believes | save, archive, delete, the task `send_zaak_events` | the subscriber ends up with the ZAKEN of the last record; archiving one ZAAK keeps an object that has others (it does not always, see the findings) |
| Validation of records (`api/validators.py`, `core/utils.py`) | none | JSON Schema, the uuid, immutable fields, geometry | what is validated is what is saved |
| Merge patch and filters (`api/utils.py`, `api/v2/filters.py`, `utils/filters.py`) | none | recursive merge, `data_attr`, `data_attrs` | a patch changes what it names; the operators agree with each other |
| Tokens and permissions (`token/`) | tokens, permissions | authenticate, authorize, generate, the admin | no answer and no write without a permission |
| Field-based authorization (`utils/serializers.py`, `api/filter_backends.py`) | none | choose fields, sort by them | each field was granted; an order tells nothing that is not shown |
| Setup configuration (`setup_configuration/`) | tokens, permissions, object types | two repeatable steps | running a step again gives what its data says |
| Import and export of object types (`core/management/commands/`, `core/import_export.py`, `core/forms.py`) | object types and versions | import from an API, a file, a URL; export; check | all or nothing; what an import brings is complete; versions stay as they are |
| Start of a container and backfill (`bin/docker_start.sh`, core 0033 and 0034) | `_object_type_id` of the records, the superuser | batches by several workers, indexes, `createinitialsuperuser` | every record is filled, also after an interruption; a container that is started again serves in the end |
| Schema and data migrations (`core/migrations/`, `token/migrations/`) | the tables themselves | 40 and 17 migrations and a squash | objects, records and grants of earlier releases are kept; the tables are those of the models |
| Notifications (`api/kanalen.py`, `api/mixins.py`) | none | one message per change, inside the transaction | no change without its notification |
| Accounts, OpenAPI generation, metrics, settings | users | login, declarations | thin layers over libraries |

How they interact. A web worker executes one request to its end. The mixins of the
notification library put POST, PUT and PATCH into one database transaction; requests for
versions are not in one, so that each statement commits; the admin is in one. Nothing in
the code locks a row before it writes it: requests meet only in the rows they write, in
the unique constraints and the foreign keys. `perform_create` and `perform_update` queue
`send_zaak_events`, which a Celery worker executes later, reading the tables as they are
then. The record names the version of its type by number, which is not a foreign key. A
container runs `migrate`, then creates the superuser, then serves.

What is hard here: (1) `ObjectRecord.save()` is up to five statements, each of which sees
what others committed in between; (2) an instance that was read before is validated and
then written as a whole; (3) DELETE collects rows in one statement and deletes them in
others; (4) Django's `save()` inserts a row that it finds gone; (5) tasks run before their
transaction ends, after the record is gone, or out of order; (6) a step fails after
another has had its effect; (7) permissions are read several times in one request;
(8) migrations move data through columns that are null for a while, with workers that skip
what others hold and containers that are killed. `PROJECT.json` lists each hazard at its
line, with the properties that catch it, or why no property covers it.

## The modules

| Module | What it is |
|---|---|
| `ObjectHistory` | the abstract specification, which `RecordHistory` and `ObjectData` implement: a history that grows at its end until the object is deleted, and the entry to show for a date |
| `RecordHistory`, `MCRecordHistory` | objects and records, statement by statement, for concurrent requests of the API and the admin; implements `ObjectHistory` |
| `RecordHistoryProofs` | the proofs about it |
| `JsonData` | pure functions: merge patch, reading a text of a query, the operators of the filters |
| `ObjectData`, `MCObjectData` | what records say: validation, saving, and what is shown for dates and filters |
| `ObjectDataProofs` | the proofs about it, and about merging |
| `ObjectTypeVersions`, `MCObjectTypeVersions` | the versions of one object type, and the records that name them |
| `ObjectTypeVersionsProofs` | the proofs about it |
| `ZaakEvents`, `MCZaakEvents` | one object, its ZAKEN, the tasks and the events |
| `ZaakEventsProofs` | the proofs about it |
| `FieldAccess` | pure functions: the fields an answer shows, the fields it may be sorted by |
| `Access`, `MCAccess` | tokens and permissions, and a request that is authorized while they change |
| `AccessProofs` | the proofs about it, and about `FieldAccess` |
| `TypeImport`, `MCTypeImport` | object types from an API, a file or a URL, and the upgrade that needs them |
| `TypeImportProofs` | the proofs about it |
| `StartUp`, `MCStartUp` | containers that migrate, backfill with workers, and serve |
| `StartUpProofs` | the proofs about it |
| `Tables` | the operations of `django.db.migrations` |
| `Migrations` | the migrations of core and token, the squash, the tables of the models |
| `Upgrades`, `MCUpgrades` | a database through its releases |
| `UpgradesProofs` | the proofs about it |

Definitions whose comment begins with "A variant:" or "A fault:" are not part of the
specifications: each is an operator as it would be with one plausible mistake, and a
property is known to fail with it (`mutants` in `PROJECT.json`).

### RecordHistory

`state` and `rec` are the two tables as committed. A transaction `t` has a statement
`pc[t]`, the request `op[t]`, and what it holds in memory: `idx` (`self.index`), `copy`
(`previous_record`), `upd` (rows it wrote and has not committed), `gone` (the rows its
DELETE collected). What a record says is the set of requests whose changes are in its
data: PATCH adds itself to what it read, PUT and the admin replace.

| Code | Actions |
|---|---|
| `ObjectSerializer.create`, the admin's add page | `Create` (one step: nobody sees the object before the commit) |
| `get_object`, and `ObjectSerializer.update` up to `save()` | `Put`, `Patch` (with `Patched`, the merge) |
| `ObjectRecord.save`, models.py:388-399 | `TestLast`, `ReadIndex`, `ReadPrevious`, `ClosePrevious`, `InsertRecord`: one per query |
| the change page, `save_model` and the inline forms | `AdminChange`, `SaveObject`, then `save` for each form |
| the end of `transaction.atomic` | `Commit`, `Fail` (an error of the notification, a lost connection, a deadlock) |
| `obj.delete()` | `Destroy`, `CollectRecords`, `DeleteRows`, `DeleteObject`, `CommitDelete` |
| `filter_for_date`, `keep_max_record_per_object` | `FilterForDate`, `RecordOn` |

PostgreSQL and Django are modelled from how the code uses them (external in the map):
READ COMMITTED, row locks until the end of a transaction, an INSERT that waits for an
uncommitted row with the same unique key, foreign keys checked at COMMIT.

### ObjectData and JsonData

`recs[u]` are the committed records of an object with all they say (version, data,
geometry, start, end, registration, correction), `req[r]` a request with its body and what
it read, `today` the calendar. `BeginCreate` and `BeginUpdate` validate (`CreateValid`,
`UpdateValid`: the uuid, the immutable type, corrections of the same object, the geometry,
the schema of the version), `Save` inserts, `Commit` ends the transaction, with the second
query of the view, which answers 404 and rolls back when the filters of the request do not
find the new record. `AdminAdd` is the admin's form, `NextDay` midnight, which comes also
while transactions are open. `FilterQueryset` is `ObjectViewSet.filter_queryset` in the
order of the code: dates, the newest record of each object, and then `data_attr`. A JSON
Schema is the set of data that fits it (`Fits`), among the JSON there is (`Values`).

The code does not validate everything it saves: not a typeVersion of 0, not the default
that a PUT without data saves (it validates the data of the last record), not a PATCH
without data of what is no object, not the geometry of the admin's form. All of these are
in the model. `checked` of a record is history, set by `Validated` when what is saved is
what was validated, and read by properties only: `SavedFits` is about these records, also
when they are merged into one that was not validated; of the others it says nothing.

`JsonData` has `MergePatch`, which changes nested objects in place (`InMemory`: the code
merges once to validate and once to save), `StringToValue` and the operators, which compare
as jsonb does: values of another kind come before or after. `merge_patch` calls itself; here
it is a function of the place, `merged[path]` being what becomes of the value at the path:
what a request can name has its keys in `Keys` and objects less than `MaxDepth` deep
(`IsPatch`), while the data it is merged into is as deep as it is.

### ObjectTypeVersions

`ver` holds the rows of one type by number, `lastPk` the primary keys given out,
`records` the number each record names with the row its data was validated against,
`copy[t]` the instance a request has in memory. `Post`, `Patch`, `Delete`, `Edit`,
`Publish`, `NewVersion`, `Validate` and `DeleteType` are the requests, with the tests
(`VersionUpdateValidator`, `can_change`, `perform_destroy`) made on what was read then;
`SaveType`, `ReadLast`, `Number`, `Previous`, `Update`, `Insert`, `DeleteRow`,
`SaveRecord` and `Cascade` are the statements that follow. `Update` writes the whole
row, as `save()` without `update_fields` does. `Edit` is the inline form of the admin, which
changes the last version or makes the first one of a type without versions. All requests
overlap; none is made to wait for another but by the lock that `SaveType` takes.

What the manual promises of published versions (usage.rst:171, :189) does not hold then, so
that the properties say when it does. `Settled(n)`: version
n is published and no request is under way that holds the row as it was before, or will
remove it. From then on the row is frozen (`PublishedFrozen`), and no request can arrive any
more that unsettles it, which is what the tests of the code are for. `rivals` keeps the rows
that two requests were publishing at once, the only ones that can be published without a
date (`PublishedDated`).

### ZaakEvents

`recs` are the committed records with their references, `open` the one that is inserted
and not committed, `queue` the records whose task waits, `work[w]` what a worker has read
or has yet to send, `del[c]` a DELETE with its statements, `linked` what the subscriber
believes. `Save` queues the task before `Commit` or `RollBack`, as `perform_create` does
inside the mixin's transaction. A task is two queries and its events: `TakeTask` reads the
record, `ReadPrevious` the one before it as it is by then, `SendGekoppeld` and
`SendOntkoppeld` send one event each; `FailTask` ends it anywhere, and nobody runs it again.
Workers take tasks in any order and before their transaction has ended. `Destroy` takes one
of the three branches of `ObjectViewSet.destroy` for any ZAAK, also one that is not
referenced, followed by `Remove` and `SendArchived`, or `SendAll` and `DeleteObject`;
`FailDelete` ends it at any statement and between two events. `on_commit` outside a
transaction runs at once, so that `SendAll` precedes the delete. `AdminAdds` and
`AdminDeletes` change records without events. A DELETE's own events go out in one step when
all of them do, since no two are of one ZAAK; the subscriber is taken to receive events in
the order in which they were handed to the notification library.

Nothing in the code orders the events of one ZAAK that come from two tasks, or from a task
and a DELETE. `doubtful` is a history variable: a ZAAK becomes doubtful when that happens
(`Send`, `Meets`, `Additions`, `Orphaned`), when its event is lost because a task or a
DELETE fails or a task is taken early, or when the admin unlinks it. No action reads it.
`BelievedWhenQuiet` and `Reported` say that the subscriber is right about all the others.

### Access and FieldAccess

`token` and `perm` are the tables, `req` one request, `seen` a history: every value that
the permissions of the request's token had since it came. The steps of a request are its
queries: `Begin` (`TokenAuthentication`), `FindType`, `Sort`, `Fetch` (the filter of the
list), `Prefetch` (`token_permissions`), `Exists` and `CheckPermission`
(`get_permission_for_object_type` is `exists()` and `get()`), `Write`,
`SerializeWritten`, `Commit`, `Respond`, `ListPermissions`, `ChangeType`. Between any two of
them the admin may save or delete a token or a permission, `generate_token` may run, and
so may the setup configuration, as a whole (it is one transaction): `Configured` is the
fold of its items over the tables, so that running it twice can be compared with once.
`FieldAccess` has `build_spec` with glom (`Glom`), `to_representation` (`Represent`), and
`remove_invalid_fields` of the ordering. A field is a path, a body the set of its paths.

### TypeImport

`remote` is the API that is imported from, which changes while it is read: types and
versions are added, changed, published and removed, drafts too. `job` is the command with
its page, `types` what is committed, `used` the versions that records of the previous
release name, which it goes on saving until the new one serves; `release` how far the
upgrade is. `ReadPage` and `ReadVersions` are the calls of the client, one page each, of
types and of the versions of a type, newest first; `Upsert` and `InsertVersions` are the
statements, `CommitImport` the end of `transaction.atomic` and `FailImport` its rollback.
`Deploy`, `Check` (`check_for_external_objecttypes`, which sends the operator back),
`SkipCheck` (an instance on `latest`) and `Serve` are the upgrade. `UrlType` and
`UrlVersion` are the two saves of `create_from_schema`, which are not one transaction;
`EditVersion` and `DestroyVersion` change drafts here; `ExportTypes`, `ExportVersions`,
`ImportFile` and `ImportCopy` are the pages for files.

`had`, `came` and `sure` are history. An API that is read page by page while a version is
destroyed moves those below it up, past the reader: `had` are the versions that were there
from the start of the import on, but those; `sure` the ones of them that the import was to
bring and that were not destroyed here since.

### StartUp

`at[c]` is the command a container runs, `work` and `batch` the statement and the rows of
each of its workers, `filled` the records with a type, `durable` those that keep it when
the database crashes. `Backfill` is one statement of 0033 (select with SKIP LOCKED, and
update), `Commit` its commit, which `synchronous_commit = off` leaves for later; recording
the migration (`Record33`) flushes. `NotNull` and `BuildIndex` are the steps of 0034,
`FindUser`, `CreateUser`, `SetPassword` those of `createinitialsuperuser`. `Kill`, `Break`
and `Outage` are a container, a connection and the database going down, at any step. 0034
has no transaction: the index that its `AlterField` makes for the foreign key and the three
that are built concurrently each stay when the container ends, and the next start finds the
name taken (`LeftBehind`). The foreign key that Django drops and adds again in the same
`AlterField` is left out: it constrains nothing here. Nothing in the model starts a
container again, as `docker-compose.yml` has no restart policy: `Begin` may happen or not.

### Tables, Migrations, Upgrades

`Tables` says what each operation of a migration does to columns (null, unique), rows,
indexes and `unique_together`. `Migrations` lists every migration of `core` and `token` as
the sequence of its operations, with what each `RunPython` does, and the squash. In
`Upgrades` an installation begins with any release, `MigrateCore`, `MigrateToken` and
`MigrateSquash` apply one migration (or undo it, when the rows violate a constraint it
adds), and while a release runs, objects, records and permissions are entered as its app
does. `said` and `granted` keep what the app told, to be compared after the upgrade.

## Runs

| Run | Bounds | What it shows |
|---|---|---|
| `history_api` | 1 object, 3 requests of PUT, PATCH, DELETE, 3 dates | the chain, no orphans, what `?date=` shows, records kept, deleted for good, `ImplementsHistory` |
| `history_admin` | 2 objects, one for PATCH and DELETE and one for the admin, 3 requests, up to 2 records per save | `HistoryInv`, the invariant of the proofs, in every reachable state; objects without records; several records in one transaction; every request ends |
| `lost_update` | 3 requests | violated: a PATCH does not contain the record it follows |
| `deleted_comes_back` | 2 requests, admin and DELETE | violated: an object that was deleted is back |
| `versions` | 4 requests of every kind, 2 schemas, numbers up to 2 | settled versions are frozen, published ones dated but for rivals, and settled ones are what validated records still name |
| `zaak_links` | 2 ZAKEN, 2 records, 2 workers, 1 DELETE | the subscriber is right about every ZAAK that is not doubtful when all is quiet, and every change of such a ZAAK is reported |
| `zaak_archived_elsewhere` | 2 records, 1 DELETE | violated: the DELETE for a ZAAK that is not the object's deletes the object of another |
| `records` | 2 objects of 2 types, 11 bodies, 7 filters, 3 days, 2 requests, 3 records | what was validated is saved and fits, a PATCH merges its data, a settled day is fixed, a list shows what a retrieve shows, operators agree, the admin shows the current record or one that ends today, a uuid collides only in a race, `ImplementsHistory` |
| `access` | 2 tokens and an empty identifier, 3 types, 5 lists of fields, 3 configurations, 1 change | what is shown or saved was granted, an order tells nothing hidden, errors need a change, configurations converge |
| `start_up` | 4 records of 2 objects, 2 containers of 2 workers, batches of 2, 3 failures | `StartInv`, the invariant of the proofs; the backfill is complete; every container that is started again serves |
| `import` | 3 types, 3 versions, pages of 1, 2 imports, 2 other changes | imports end, are whole and bring every version that stayed; versions are kept |
| `migrations` | 4 releases, 4 URLs, 2 services, 2 tokens, 3 entries | histories and grants are kept by every upgrade; it ends, with the tables of the models |

Why the bounds are enough. Three requests for one object are the smallest number where one
reads between two statements of the second while the third waits for a lock; three dates are
before, between and after; the theorems hold for any number of each. Objects do not meet in
the tables, so that one is enough but for the locks, where two show that one object does not
hold up the other. Two forms in one save are the smallest number where the second closes the
first in the same transaction. Four requests for versions make a version, give a record a
version, destroy it and give the number again; a limit of two reaches the end of the
numbers. `MaxPk` bounds the records of `ZaakEvents`: with two, two tasks cross, each
compares with a record that the other is about, and a DELETE comes between their queries;
its safety is proved for any number of records, workers and DELETEs. `MaxRecords` and
`MaxDay` of `ObjectData`: a record before, one that is corrected and one after, today, a day
that is over and one that is not, so that a transaction may be open at midnight; two
requests are a race, and more are the subject of `RecordHistory`. The bodies have a value of
each kind, nested once, named and not named, null, and one that fits only the other version;
with two keys and a depth of 2 a patch can name a key, a key inside of it, or an object.
`MaxChanges = 1` of `Access`: each property compares two readings, which one change sets
apart; the lists of fields are those of one version, of both, nested in the wrong order,
none and null. In `StartUp` two workers of two containers are the least where one skips what
another holds while a second container waits, two batches per worker make it loop, and
`MaxStops` is enough to kill, break and crash once each. In `TypeImport` pages of one make
the lists of types and of versions more than one page long, of which the last is read after
a type or version of the first was added, removed or changed; two changes are a version that
is destroyed and one more, three versions are two published ones that records name below a
draft that can be destroyed. In `Upgrades` the releases are one before records had indexes,
one before tokens were split, one with object types in services and the last, so that every
migration with `RunPython` finds rows to move; three entries are an object, a record and a
permission, in any releases.

Transactions, requests and schemas are interchangeable: no action chooses one by name, so
that the symmetry is sound; it is not used where liveness is checked. Deadlock is not
checked: all requests and upgrades end, and then nothing is left to do.

### What the surroundings are taken to do

Where a passing run assumes something of what surrounds the code, a constant names it and
can be set to see what happens without it. `versions`, `zaak_links`, `records`, `import` and
`access` assume nothing: their requests, tasks, imports and changes overlap as they like,
and what does not hold then is under Findings.

* `history_*` never has an object that the admin changes and the API deletes at the same
  time (`Disciplined`). Without it, `deleted_comes_back`.
* `start_up` has one `migrate` at a time, as `web-init` of `docker-compose.yml` has it, and
  none before the previous release is stopped, which `CHANGELOG.rst` calls safer; without
  (`replicas`, `rolling`) the migration meets its own indexes, or records that were added
  without a type after the backfill. Kills and outages come at every step.
* `migrations`: no two services have a type with one uuid (`twins`), no token had two
  permissions for a type before token 0006 (`double`), no permission has fields between
  token 0005 and 0007 (`lists`). The first two make a migration fail at every start, the
  third loses the fields (a release `<<26, 5>>` in `MCReleases` shows the latter two). No
  release ends at core 3, 9, 18 or 21 to 25, or at token 11 to 15: behind these something
  that is being moved is at its old place and at its new one, or at neither, and the app
  before the move and the one after it would each read the wrong one. Installations pass
  them on their way to a later one. `UPGRADE_CHECK_PATHS` of `conf/base.py` asks for release
  3.6.1 before 4.0.0, so that only the last two migrations of core run in that upgrade; the
  ones before are checked for databases that came to 3.6.1 through them.

## Fairness

`RecordHistory`: weak fairness of `Step(t)` for each request. A worker executes the
statements of its request one after another without waiting for anything but the
database, and the database grants a lock when its holder has ended. Arrival, creation and
failure are not fair. Circles of waiting are broken by PostgreSQL's deadlock detector,
which is one of the causes of `Fail`; `history_admin` has requests whose locks form no circle,
so that nothing but the order of the code makes them end. `ZaakEvents`: weak fairness of
the end of a transaction (one way or the other), of every worker and of every DELETE.
Nothing forces a record to be saved, and failures are not fair. `StartUp`: weak fairness of
`Migrate(c)`, `CreateInitialSuperuser(c)` and `Worker(t)`, since a thread that is not killed
goes on. There is none of `Begin`: whether a container that has ended is started again is up
to who runs it, and `EveryContainerServes` has as an alternative that it stays down. Nor is
there any of `StopOld`; kills, broken connections and outages are bounded by `MaxStops`.
`Upgrades`: weak fairness of `Migrate`, for a `migrate` that has begun goes on to its last
migration; nothing forces an operator to upgrade. Liveness is only model-checked: TLAPS
proves none.

## Proofs

All safety properties of the passing runs are theorems, for every value of the constants.
The assumptions are those of the constants, named in the modules that declare them, and for
`RecordHistory`, `StartUp` and `Upgrades` those on the surroundings that the section above
names.

*RecordHistory*, for any set of objects, requests and dates:

1. `Typing` (`Spec => []TypeInv`) and `TypeCorrect`
   (`Spec => []TypeOK`). `TypeInv` adds to the types what a transaction's statement
   says of it: what has not started or has ended holds nothing, an index has been read
   before it is used, a form is left when one is to be saved.
2. `Invariant`, `ChainKept` and `OrphansNever`. The chain is not
   inductive: that an insert keeps it depends on what the transaction read earlier.
   `HistoryInv` adds `Lifecycle` (no request for an object that was never there),
   `RowsDisjoint` (the locks: no two transactions wrote the same row) and `Knows`. For a
   transaction that has inserted nothing (`Before`), the record it closes is at most the
   last one and its index is at most one more than the record it closes; since an insert
   fails on an index that is taken, the index and the closed record must then be exactly
   the last ones. For one that has inserted some (`After`), the index after the last
   committed record is its own, so that nobody else can have committed: what it sees is a
   chain.
3. `AsOfDate` (in a chain, the largest index among the records
   that the date filter finds is the newest that had started, also when start dates go
   back), `SavedRecordsKept`, `DeletedStays`, and `Refinement`
   (`Spec => ImplementsHistory`): the mapping forgets the end dates; `Create` maps to
   `Create`, a `Commit` that adds records to `Extend`, `CommitDelete` to `Delete`, and
   every other statement to a stutter. `TableSteps` says what a step can do to the tables
   and is what the three have in common.

   All but the first two assume `Disciplined`.

*StartUp*, for any records, containers, workers and batch size, with one `migrate` at a
time and after the previous release: `StartTyping`, `StartInvariant` and
`BackfillComplete`. A worker ends when it finds nothing that is not locked, so that "all
workers ended" says nothing by itself. `SomeoneGoesOn` is the reason it suffices: as long
as a record has no type, some worker of the migrating container is not done, because the
rows the others passed over are in its batch; a batch that is rolled back ends its worker as
failed, and then nothing is recorded. `Recorded` is about durability: recording is a commit
that flushes.

*ZaakEvents*, for any ZAKEN, workers, DELETEs and records and without any hypothesis:
`EventsTyping`, `EventsInvariant` and `BelievedInTheEnd`. Each ZAAK that is not doubtful is
argued about by itself (`Certain`). The belief is not inductive: tasks lag behind, and wait
for different records. `Told` says that, except between two statements of a DELETE, there is
a number k such that what the subscriber will believe once the running tasks have sent is
what record k says; that the tasks which still wait for one of the first k records find
nothing else; and that after k the records change only where a task waits. `OneJob`,
`Readers` and `Early` say what the tasks of several workers have in common, `Deletes` what a
DELETE under way leaves possible.

*ObjectTypeVersions*, for any requests, schemas and largest number, all kinds of which
overlap, without any hypothesis: `VersionsInvariant`, and from it `VersionsTypeOK`,
`FrozenOncePublished`, `DatedOncePublished` and `FittingOncePublished`. A version is settled
when nobody can disturb it, and the work is to show that nobody can start to: whoever reads
it now reads it published, so that the tests of the code end the request, or holds the very
row (`Writes`, `Frozen`). `Dates(t)` and `RivalsKnown` follow a publication that overlaps with
another from `Previous` to `Update`; `RecordsFit` and `RequestsFit` a record from its
validation to its insert; `KeysName` says that requests holding one row agree on its number.

*Access*, for any tokens, types, lists of fields, configurations and number of changes:
`AccessTypeOK`, `AccessShownWasGranted`, `AccessWriteWasGranted`, `AccessErrorNeedsChange`,
`AccessSortedByShown` and `AccessConverges`. A request reads its
permissions several times, and they may have changed each time. The inductive invariant
(`AccessInv`) says what each reading leaves behind: `seen`, which only grows, has every
permission that the token had since the request came (`SeenOK`); what a step has let pass is
granted by one of them (`GrantOK`); what was prefetched for the rows is one of them
(`RowsOK`); and while nothing has changed, all of them are the one there is (`SortOK`).
`Represent` and `Glom` are treated once, in lemmas about lists of fields. Setup
configuration is a fold of its items, each of which is a fold of its permissions:
`ConfiguredStates` and `ConfigureItemStates` replace a fold by the sequence of the tables
that it passes through, which can be argued about by induction over numbers
(`Upward`). `AccessConverges` needs that a configuration names a token once and of a token
each type once (`NamesOnce`): with two items for one token the last one counts, and the
statement about the first is false.

*TypeImport*, for any types, numbers, page size, imports and changes, without any
hypothesis: `ImportTypeOK`, `ImportedStaysThere` and `VersionsStay`. That an import misses
nothing is about pages that move: `HadRead` says that while a type is read, each version that
it has had from the start of the import is among those read or has its place on a page still to
come, because versions are listed newest first, new ones only push the others further down,
and what moved up is not in `had`. `AddedFree` is about the transaction: what it will insert is
not there yet, so that it can end.

*ObjectData*, for any objects, types, schemas, requests, days, filters and depth of data:
`RecordsTypeOK`, `RecordsFit`, `PastStaysFixed`, `UuidRace`, `PatchChangesItsPaths`,
`ListedIsRetrieved`, `OperatorsAlwaysAgree`, `AdminShowsTheSame` and `RecordsAreHistory`.
`RecordsInv` says of a request what it was validated with: the data it will save is that of
the record it read, merged with its patch twice (once by the validator, in place).
`MergeTwice` says that the second merge changes nothing, so that what fits when validated
fits when saved (`SavedIsMerged`, `SavedIsValidated`); `MergeKeeps` says what is at each path
after a merge. Both argue over places, from the deepest that the patch names upwards.
`RecordsAreHistory` is the refinement: the abstract history has entries that fit their
version, and each step adds one to one object (`RecordsGrow`, `OneEntryMore`) or stutters;
only `end` is forgotten. None of the theorems has a hypothesis. `SavedFits` is part of the
invariant although the record a PATCH reads may not have been validated, for merging is shown
to repeat itself on any data. `PastStaysFixed` follows a day from its midnight on: `DaySettled`
excludes what is still open, and what is saved afterwards is registered on a later day. Of the
constants the theorems need that versions start at 1, that data is closed under the patches that
requests send (`ValuesAssumption`), that a text read as a number is one, and `IsPatch` of what
requests send.

*Upgrades*, for any releases that the assumption admits, any tokens, object types and
permissions and any number of entries: `GrantsSurvive` and `HistorySurvives`. The state
between two migrations is a different one for each of the 57, so that an invariant would have
a case for every migration. What keeps it small is that few operations touch what is told. A
table is seen through the columns that matter (`Names`); an operation is `Quiet` when it
leaves its rows, seen so, alone (`Keeps`), which is decided by its kind, table and column. A
migration is a fold of its operations; `Unrolled` and `MigratedJoined` replace the fold by the
states between them, also for the squash, which is several sequences joined, and
`QuietMigration` says what a migration of quiet operations keeps.

* `GrantsSurvive`. `TokenStage` and `TypeStage` say which columns the tables have behind each
  migration. Most of core is `Calm`: all of its operations are quiet for object types. So
  `CoreGrants` and `SquashGrants` say that core keeps the uuids of the object types that
  permissions point to: they have a table from migration 21 (`MakesTypes`), which the later
  ones only give columns. `TokenGrants` is one step per migration of token: a permission
  points to a token by its own text, then by the key that 0013 gives it, and goes on
  belonging to the token it belonged to because keys are made of tokens and no two tokens
  share one. The inductive invariant `GrantInv` says that, whatever the last recorded
  migrations, the tables have the columns of their stage and give what was granted;
  `EnterGrants` shows that an entry, which adds rows and removes none, re-establishes it. The
  hypothesis that no permission has fields between token 0005 and 0007
  (`"lists" \notin Upsets`) is needed, for 0007 drops that column.
* `HistorySurvives`. Objects, records and types behind core migration c are read off the
  tables in one form, wherever their columns are by then (`Objs`, `Recs`, `Typs`), and each
  migration is a function on that form (`ObjsAfter`, `RecsAfter`, `TypsAfter`): `CoreObjects`,
  `CoreRecords` and `CoreFields` have one lemma for each migration that is not quiet. Of
  these functions only two change the records that are told (`SeenStep`): what 0004 and 0010
  move was told before, from the object; 0019 replaces the order of start and key by a
  number, which keeps it because a number is how many come before (`RankOrder`); 0025
  deletes. `HistoryStep` concludes that the places and contents of the records stay, `ToldStep`
  that each object keeps the type of its URL: until 0021 the link is that URL, in 0022 it
  becomes the key of the row that is made of it (`LongestRoot`: the service with the longest
  `api_root`), and it is null, so that 0025 deletes the object, exactly when the URL has no
  service or no uuid (`KeptLinks`). The inductive invariant `HistoryInv` has these as its
  parts: the columns of the stage (`HistoryTables`), what is there (`Sound`: keys were given,
  records have an object, links are URLs or have a type) and what was told (`ToldStill`). The
  squash runs on a new database only; `Turns` follows its columns through empty tables.
  Between two releases `said` is compared with the tables, not with what an app says;
  `SaysTold` says that at a release the two are the same, and `EnterHistory` that an entry
  owes the invariant nothing but `Sound`.

Neither theorem needs that services do not share a uuid, or that a token has no two
permissions for a type: these stop an upgrade and lose nothing. `HistorySurvives` has no
hypothesis but the assumptions on the constants: paths of URLs and `api_root`s are sequences of
segments (`UrlAssumption`, `RootAssumption`), and releases do not end halfway a move
(`ReleaseAssumption`).

What the proofs changed in the models. A CASE whose guards overlap has, by the meaning of
TLA+, an open value, though TLC takes the first: the order of jsonb (`Less`) and
`QueryStatus` are now what was meant, by a disjunction and by IF. Merging was a RECURSIVE
operator, about which nothing can be proved, and is a recursive function over places. The
history that an object tells is a set of numbered entries, and the tables are built by
functions (`With`) and not by the operators `@@` and `:>` of module TLC.

Only model-checked:

* liveness (`EveryRequestEnds`, `Reported`, `EveryContainerServes`, `UpgradeEnds`), which is
  beyond TLAPS;
* what operators compute on data that a theorem takes as a constant: the bounded inputs of
  `records` and `access` are the check of these.

How texts are read, ordered and contained in each other (`Reads`, `Order`, `Holds`) are
constants: the theorems hold for any, and nothing is proved of the library that reads dates.

## Findings

Three are runs that TLC finds violated; `PROJECT.json` quotes what the repository says.

* A PATCH merges into the record that was last when its request began; a change that was
  answered meanwhile is in no later record (`lost_update`).
* The admin brings back an object that the API deleted (`deleted_comes_back`).
* `DELETE ?zaak=` does not look whether the ZAAK is one of the object's, so that a retry
  deletes the object of another (`zaak_archived_elsewhere`).

The models show more that a reader of the documents would not expect. The passing properties
name these cases and say what holds besides them:

* a version that is published while a change of the draft is under way becomes a draft
  again or gets another schema, against usage.rst:171, or has no date when two requests
  publish it (`PublishedFrozen`, `PublishedDated`);
* a task that is taken before the transaction ends finds no record, and a link is never
  reported; events of one ZAAK may cross (`BelievedWhenQuiet`);
* a PUT without data is validated with the data of the last record and saves an empty
  object, against usage.rst:372; some other requests are not validated at all (`SavedFits`);
* a PATCH without geometry saves a record without (`api/serializers.py:304`), so that a
  search by geometry does not find the object any more (`PatchMergesData` is about the rest);
* the setup configuration makes a permission with fields one to write, which
  authorization.rst:61 excludes, and leaves its fields (`Converges`);
* a container killed between the two saves of the superuser leaves one without a password,
  for good, and an index of 0034 that an interrupted start leaves behind stops every later
  one until somebody drops it (`EveryContainerServes`);
* the check before the upgrade to 4.0.0 looks at types, not at versions: one that was added to
  the API after the import is missing afterwards (`ImportedIsThere`);
* on the day a record ends the admin shows it and the API the next one (`CurrentIsShown`).

## Not modelled

JSON Schema, PostGIS, Django's forms and templates, Celery and the notification library
are external. Of the modelled components these are left out:

* the statements of `save()` together with the data they save: `RecordHistory` has the
  statements, `ObjectData` the data, and neither has both;
* reverse migrations, types, lengths and choices of columns, the migrations of the accounts,
  and the time stamps that an import gives versions. A migration is one step in
  `Upgrades`; those of 0033 and 0034 are in `StartUp`;
* the retries of a delivery and the attributes (`kenmerken`) of a notification, references
  other than ZAKEN, and `ENABLE_CLOUD_EVENTS` off;
* `data_icontains`, the predicates of geometry, the format of exported files, a page of the
  admin that edits and publishes at once, corrections chosen in the admin;
* what should become of an object whose last ZAKEN are archived at the same time, and of the
  links of objects that the admin changes: `ZaakEvents` has these steps, and no document says
  what they should do.

OpenAPI generation, metrics, settings, health probes and `dump_data.sh` have no state of
their own, and the login backend and the user model are thin layers over Django's.

## Plan

Done: `ObjectHistory` and `RecordHistory`; `ObjectTypeVersions`; `ZaakEvents`; validation,
merging and reading (`ObjectData`); authorization and configuration (`Access`); start-up and
backfill (`StartUp`); imports (`TypeImport`); migrations (`Upgrades`), all with proofs.

Left, in this order:

1. The statements of `save()` with the data they save, in one module.
2. Reverse migrations, for an installation that goes back after a failed check.
