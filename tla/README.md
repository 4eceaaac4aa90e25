# TLA+ models of typedpg

typedpg checks SQL at compile time against the schema that a crate's migrations
produce, and ships the runner that applies those migrations to PostgreSQL. This
directory holds TLA+ models of the parts of it that keep state or depend on an
order, TLC configurations that check them on small instances, and proofs that
TLAPS checks for every instance.

    tlc -config MCMigrationRunner_deploy.cfg MCMigrationRunner    # one run
    tlapm MigrationRunnerProofs.tla                               # the proofs

`PROJECT.json` lists the runs, the mutants that show each property can fail,
the source lines behind every definition (`map`), the hazards and the findings.

## The system

| Part | State | Operations | What makes it correct |
|---|---|---|---|
| Migration runner (`typedpg/src/migrate/runner.rs`) | the tracking table, the schema, one advisory lock, one connection per caller | `run`, `revert`, `status` | a migration is applied once and in order, whoever else deploys and whatever fails |
| Migration sources (`migrate/source.rs`, `typedpg_macros/src/embed_migrations.rs`, `query_macro.rs`) | a directory of `.sql` and `.down.sql` files | `from_dir`, `from_embedded`, `collect_migration_files` | the order that is checked at compile time is the one that is executed |
| Schema freshness (`typedpg_core/src/build.rs`, `typedpg_macros/src/migrations_hash.rs`, `query_macro.rs`) | Cargo's fingerprint, a one-slot thread-local cache | the build script, each `sql!` | a build that succeeds was checked against the files as they are |
| Command line (`typedpg_cli/src/main.rs`) | none | `up`, `down`, `status`, `create` | `down` picks what to revert |
| Catalog and DDL (`typedpg_analyzer/src/pg_catalog`, `src/ddl`) | an in-memory `pg_catalog`: rows keyed by OID, indexes by name | one handler per DDL statement | rows refer to rows that exist; names find the object that bears them; what PostgreSQL refuses is refused |
| Types, functions and operators (`ddl/types.rs`, `functions.rs`, `aggregates.rs`, `operators.rs`, `drop.rs`, `alter.rs`) | `pg_type`, `pg_proc`, `pg_operator`, `pg_cast`, `pg_enum` and what refers to them | one handler per DDL statement | a type, its array and its row type stay together; nothing names what is gone |
| Extensions (`ddl/extensions`) | rows of `pg_extension`, membership in `pg_depend` | `CREATE`, `ALTER`, `DROP EXTENSION` | a version path is found; dropping removes what creating added |
| Query analyzer (`resolve/`, `expr/`, `scope.rs`, `nullability.rs`, `lookup.rs`, `functions.rs`, `coerce.rs`, `grouping.rs`) | none between queries | `analyze` | a column it calls not null is never null; the function it picks is the one PostgreSQL picks |
| Lexer and parameters (`lexer.rs`, `param.rs`, `param_collector.rs`) | none | `lex`, `analyze` | what is sent is what was written; a mark has the last word on `Option` |
| Code generation (`codegen.rs`, with `RecordReader` of `typedpg/src/lib.rs`) | none | `generate`, and each generated method | what is bound and read is what the server takes and sends |

How they meet: the build script and the `sql!` macro both read the migration
files, at different moments; the macro feeds them to the DDL interpreter and the
resulting catalog to the analyzer; the runner executes the same files against
the database, at another time, from a binary that may hold an older copy of
them; several such binaries share the database and its tracking table.

What is hard: the runner's interleavings (several processes, statements that
fail, connections that die, futures that are dropped), the files changing
under the compiler, and the long sequences of DDL statements after which the
catalog's many cross-references must still agree. Lines are in `hazards` of
`PROJECT.json`. The analyzer and the code generator keep no state, and are hard in another
way: they predict what PostgreSQL does with a query, over combinations of clauses, types
and overloads of which tests pick a few. There the models build every small query, or every
small set of overloads, and put what PostgreSQL does next to what the code says of it.

## Modules

    MigrationLedger  <-- implements --  MigrationRunner  <-- MCMigrationRunner (3 configurations)
                                             ^
                                             +-- MigrationRunnerProofs
    MigrationFiles   <-- MCMigrationFiles, MigrationFilesProofs
    SchemaBuild      <-- MCSchemaBuild, SchemaBuildProofs
    Catalog          <-- MCCatalog, CatalogProofs
    TypeObjects      <-- MCTypeObjects, TypeObjectsProofs <-- TypeObjectsTheorems
    Overloads        <-- MCOverloads (2 configurations)
    Queries          <-- MCQueries (2 configurations), QueriesProofs <-- QueriesTheorems
    SqlLexer, RustTypes <-- SqlMacro <-- MCSqlMacro

Definitions keep the names of the code. Those headed `Mutant:` are wrong versions
of the definition after them, with a bug that could plausibly be written; only
`mutants` of `PROJECT.json` uses them.

### MigrationRunner

The processes of `Session` call `run`, `revert` and the CLI's `down` on one
database. There is one action per statement that the runner awaits
(`EnsureTable`, `AcquireLock`, `GetApplied`, `ExecScript`, `RecordRow`,
`CommitTx`, `ReleaseLock`, ...) and per branch between them (`SkipApplied`,
`StopOnDrift`, `StartPending`, `RefuseRevert`, ...); code between two awaits
belongs to the step it follows. `ledger` is the tracking table, `effect` counts
up scripts committed less down scripts, so that applied twice, lost and reverted
twice are different numbers. `conn` is what PostgreSQL makes of a connection: clean,
in the runner's transaction, in one that a script opened and an error aborted, or
still executing a statement whose future was dropped. `Crash` and `Cancel` are
enabled at every statement. A session lock is reentrant (`depth`) and belongs to
the connection: it survives a dropped future and dies with the connection.

A script is abstracted to what decides the order of events: whether it fails,
whether it opens a transaction itself (`OwnTransaction`), whether it waits for
older snapshots (`WaitsForSnapshots`), whether it runs in a transaction.
`Source[s]` is the list that session s was shipped with: sessions may have
different ones, as during a rolling deploy.

`MigrationLedger` is what the runner promises about the table and the effects
alone. `ImplementsLedger` says that `MigrationRunner` implements it.

### MigrationFiles

A directory and its three readers, as operators over a set of files: sorting by
`DirLess`, `EmbedLess` or the file name. An order is a set of pairs, and `Sorted` puts a stem
behind as many stems as precede it, which `MCMigrationFiles` compares with the library's sort.
The readers that check names do so before they sort. Stems are sequences of character codes in ASCII
order, because what the properties compare is how text sorts. The developer adds and
removes files.

### SchemaBuild

Cargo, the build script and the expansion of each `sql!`, reading files one at a
time while the developer saves. A hash is the contents it was computed from. `seen` is
what the reader of the moment has read, `key` the hash that `expand` computed,
`cache` the slot `CACHED_PG_CATALOG`. `Save` adds, changes, puts back or removes a file, at
any moment (`build.rs:55`). `saved` is a history variable: what was saved of each file since the
crate last started compiling.

`FreshIsCurrent` has one exception, which is real for the fingerprint. The build script reads a file, the file
is changed, a macro reads it (or the slot keeps a catalog read from it under an older hash,
`query_macro.rs:44-63`), and the file is put back. The build script runs again and finds the fingerprint that
the crate was compiled with, so by what `build.rs:42` says of Cargo nothing is recompiled and the query
stays checked against the other text. The property excepts that file of that build and nothing else.
The model's Cargo recompiles only what has a new fingerprint or new source, which is all that the repository
relies on; for a Cargo that also recompiles a crate because its build script has run, there would be no exception.

### Catalog

The in-memory `pg_catalog` and its DDL handlers, for schemas, tables, columns, keys,
foreign keys, indexes and views. The state is one record with a field for each table
of the catalog and for each index by name; the helpers of `pg_catalog/mod.rs` and of the
handlers are operators from a catalog to a catalog, with the names of the code; one
action is one statement. `Leaves` ends each action: it holds the bounds. The views
that a CASCADE reaches (`transitive_views`) are the least set that holds the first ones and the
readers of its members, where the code walks a worklist.

The scripts are those PostgreSQL accepts. Most of what PostgreSQL refuses the handlers
do not check (a taken name, a second primary key): such guards are marked `PG`. A view is
abstracted to the relations it reads and its list of columns, with `star` where the list was
written `*`. `pg_rewrite` keeps the columns it resolved to, whether a dependency
was recorded or not, so `ViewsIntact` compares what a view reads with what is there.

Nine patterns of statements are mistracked by the code. Each has a name in `GapNames` and
a guard that leaves it out unless the constant `Gaps` has it, so that the properties
are checked on everything else, and each pattern can be let in by itself:

| Gap | What the code does | Property it breaks |
|---|---|---|
| `generated_name` | the name of a new key takes over that of another relation | `NamesInSync` |
| `if_not_exists` | `CREATE TABLE IF NOT EXISTS ... AS` installs a second relation | `NamesInSync` |
| `star` | `DROP COLUMN` of a column read through `*` | `ViewsIntact` |
| `replace` | `OR REPLACE` gives the view another OID, its readers keep the old one | `ViewsIntact` |
| `schema` | `DROP SCHEMA CASCADE` leaves foreign keys of other schemas | `RowsResolve` |
| `moved_keys` | `SET SCHEMA` leaves the indexes behind | `KeysIndexed` |
| `key_cascade` | `DROP CONSTRAINT CASCADE` leaves the foreign keys that need the key | `FksCovered` |
| `shared_name` | `DROP INDEX` drops the `UNIQUE` constraints of that name on every table | `FksCovered` (by reading; too large to run) |
| `self_fk` | `DROP COLUMN` leaves a foreign key of the same table that points at it | `RowsResolve` |

To see one, give `Gaps` the name in the configuration (`Gaps = {"star"}`). `replace` and `schema`
show with one column and five OIDs, the others under the bounds of `catalog_statements`.

### TypeObjects

The rest of the catalog's rows: types with their arrays, enums with their labels, domains,
ranges, composites, the row types of relations, sequences, casts, views, and the extensions
that own what their scripts made. `cat` is one record, as in `Catalog`; `labels` and `made` are
histories: the labels of each enum in PostgreSQL's order, and the OIDs that each extension's
scripts allocated. A schema is its name, and the columns of a relation are the set of their
types, because names of columns, keys and indexes are the subject of `Catalog`. An enum label
has an `f32` order as in the code: `Unit` is the number of `f32` steps between 1.0 and 2.0, so
that the midpoint of two labels runs out. A script of an extension
runs in the middle of `CREATE` or `ALTER EXTENSION`; version paths are searched as in `registry.rs`.

Each gap shows under the bounds of `types`, but `array_name` takes a name such as `<<"_", x>>` among
the `UserName`s, and `extension_parts` a script with an operator in `Registry`.

| Gap | What the code does | Property it breaks |
|---|---|---|
| `array_name` | the array of `x` is always `_x`, also when that name is taken (`types.rs:501`, `alter.rs:291`) | `TypesTied` |
| `same_name` | `RENAME` and `SET SCHEMA` of a sequence take the type of that name along (`alter.rs:148`, `380`) | `RenamesItsOwn` |
| `rename_value` | `RENAME VALUE` adds the new label and keeps the old one (`types.rs:297`) | `LabelsAgree` |
| `crowded` | `ADD VALUE` between neighbours with no `f32` between them (`types.rs:351`) | `LabelsAgree` |
| `composite_row` | `DROP`, `RENAME` and `SET SCHEMA` of a composite type leave its relation (`drop.rs:385`, `alter.rs:288`) | `TypesTied` |
| `type_users` | `DROP TYPE CASCADE` leaves domains and ranges over the type (`drop.rs:326`) | `TypesResolve` |
| `view_columns` | and views with a column of it (`drop.rs:366`) | `TypesResolve` |
| `row_type_users` | dropping a relation leaves the users of its row type (`drop.rs:224`) | `TypesResolve` |
| `schema_types` | `DROP SCHEMA CASCADE` leaves users in other schemas (`drop.rs:875`) | `TypesResolve` |
| `extension_users` | `DROP EXTENSION CASCADE` leaves the users of its types (`drop.rs:396`) | `TypesResolve` |
| `extension_parts` | operators and views that a script makes are not recorded as members (`extensions/mod.rs:166`) | `ExtensionsWhole` |

### Overloads

One function name and one operator name: the overloads that DDL leaves under them, and for
every call the choice of `resolve_function` and `find_operator_detailed`, pass after pass,
next to that of PostgreSQL (`Pg...`: `func_get_detail`, `oper`, `func_select_candidate`). The
state is `procs`, `operators`, `casts`, `views` and the number of statements; DDL matters
because its order is that of the candidates, and because what it records (a `VARIADIC`
parameter, no defaults, a new OID on replacement) changes what is found.

The two differ on some calls, which the properties name and leave out: a choice that fills in
defaults (`functions.rs:348`); rows alike in two schemas of the path, or two `CREATE
OPERATOR`s of one signature, which may be reported ambiguous; a user's `VARIADIC` function, stored under
its array type (`ddl/functions.rs:50`) and read as if it were not (`functions.rs:228`); operands of
`anyelement` that differ by an implicit cast; an unknown operand beside one that needs a cast,
for which there is no preferred-type rule; implicit casts across categories (the assumption
`CastsWithinCategories`); and polymorphic, `VARIADIC` or defaulted rows once an argument is
unknown or a domain. Range families of polymorphic types are not in the model.

### Queries

One statement after another as the analyzer walks it. `items` is the stack of FROM items, each
with the columns in scope *and the rows PostgreSQL produces for it*; `hidden`, `marked` and
`group` are the analyzer's `join_hidden`, `nullable_aliases` and GROUP BY clause; a finished query
goes to `results`, from where later queries read it as a subquery, a CTE, an arm of a set
operation or a sublink. Actions push FROM items (tables, the target of `UPDATE` or `DELETE`,
results, `unnest`), join the last two (`ON`, `USING`, `NATURAL`, `LATERAL`), group, and
finish (`*`, expressions, `VALUES`, set operations, recursive CTEs). The properties compare the
reports with the rows: a column called not null holds no NULL.

`gaps` collects the shapes met for which a report is known to be wrong, and the run goes no further
past one (`NoGapYet`):

| Gap | What the code does |
|---|---|
| `using_padded` | a column merged by `USING` is not null as declared, although an inner outer join pads its side (`from.rs:501`) |
| `using_chain` | `USING` over `USING` hides the merged column itself (`from.rs:514`; run `doc_using`) |
| `lateral_padded` | a `LATERAL` item starts with an empty nullability context (`from.rs:100`) |
| `unnest_padded` | `unnest` of arrays of different lengths is reported not null (`from.rs:621`) |
| `grouping_row` | a parenthesised list inside a grouping set turns the check off (`grouping.rs:256`) |
| `grouping_key` | the primary-key rule counts a key that some grouping set lacks (`grouping.rs:273`) |
| `grouping_window` | the check skips every call with `OVER`, whose ungrouped arguments PostgreSQL refuses (`grouping.rs:409`) |
| `sublink_cut` | a scalar sublink that would always have a row, were it not for its `HAVING` or `LIMIT`, is reported not null |
| `same_name` | two columns of one name in a subquery make one |
| `recursive_once` | a recursive term that makes a column nullable in its second round is analysed once (`cte.rs:104`) |

### SqlLexer, RustTypes and SqlMacro

One use of `sql!`, end to end. The programmer declares a type (`Start`, `Wrap`, `MapType`) and writes
a template fragment by fragment (`Write`, `Rewrite`); `Expand` is `expand` up to `codegen::generate`;
`Call` is a call of a generated method. `SqlLexer` has the crate's lexer, one step per
iteration of its loop, and PostgreSQL's scanner, for statements and for the language of templates:
`SentMeansTemplate` compares the tokens of what is sent with the tokens of what was written.
`RustTypes` gives each PostgreSQL type its Rust type as `codegen.rs` does, and says what
`tokio_postgres` accepts for it. What the analyzer finds in a statement is the subject of `Queries` and
`Overloads`: here every placeholder is used in every way (`Sites`). Adjacent
placeholders, and one followed by a string, are syntax errors (`Parses`).

| Gap | What the code does | Property it breaks |
|---|---|---|
| `operator_eaten` | `$x?-y` takes the `?` of an operator for a mark (`lexer.rs:276`) | `AnnotationsKept`, `SentMeansTemplate` |
| `dollar_in_name` | an identifier that contains `$` is cut at it | `AnnotationsKept`, `SentMeansTemplate` |
| `wide` | letters outside ASCII do not belong to identifiers, nor to dollar-quote tags | `SentMeansTemplate` |
| `native` | a `$1` of the template's own gets mixed with those the lexer numbers (`lexer.rs:312`) | `SentMeansTemplate` |
| `loose_braces` | a list of fields that does not close, or with something else in it, is accepted (`lexer.rs:195`) | `AnnotationsKept`, `SentMeansTemplate` |
| `late_annotation` | a mark on a later appearance of a name is dropped (`lexer.rs:285`) | `AnnotationsKept` |
| `mixed_use` | a parameter used where NULL is taken and where it is not is an `Option` | `AnnotationsKept` |
| `subscript` | the cast put after `$x` swallows the subscript in `$x[1]` (`codegen.rs:1436`) | `SentMeansTemplate` |
| `comment`, `semicolon` | a trailing `--` comment or `;` breaks the wrap of `fetch_one` (`codegen.rs:64`) | `SentMeansTemplate` |
| `one_empty` | one empty spread of several: nothing is sent (`codegen.rs:955`) | `SentMeansTemplate` |
| `spread_cast` | fields of spreads have no cast, but are bound as text for domains and enums (`codegen.rs:1322`) | `ValuesTravel` |
| `enum_array`, `domain_array`, `json_array`, `mapped_array` | arrays of enums, of domains, of `json` in records, of mapped records (`codegen.rs:1540`, `1720`, `512`) | `ValuesTravel` |
| `record_oid` | a record with a field of a user's type panics when read (`typedpg/src/lib.rs:644`) | `ValuesTravel` |
| `record_domain` | a record with a domain field is read as the base type only | `ValuesTravel` |
| `builtin_text` | built-in types that map to `String` without being text (`inet`) | `ValuesTravel` |
| `user_range` | ranges whose OID `tokio_postgres` does not know | `ValuesTravel` |

A string `E'...'` continued on the next line is beyond the fragments. `fetch_one` of a statement
that changes data and returns two rows or more reports `TooManyRows` after the change is made:
`Wraps` is false of it, and the transaction, if any, is the caller's.

## Runs

| Run | Question | Bounds |
|---|---|---|
| `deploy` | Do two binaries with different sources, one of them with edited text, keep the table and the effects right under transactions? | 2 sessions, 3 migrations, 2 calls each, 1 crash |
| `mixed` | And with scripts outside transactions, forced reverts and a dropped future? | 2 sessions, 3 migrations, 2 calls each, 1 crash, 1 drop |
| `live` | Does every call return and free the lock? | 2 sessions, 2 migrations, 2 calls each, 1 crash; `FairSpec` |
| `file_order` | Do the readers agree, and is adding a later version safe? | every directory of at most 4 of 12 files |
| `schema_build` | Is a finished build checked against the files as they are? | 3 files that come, go and come back, up to 2 of them saved in one compilation (`FewSaves`), 2 databases, 2 queries |
| `catalog_statements` | Do rows, names, keys and views stay consistent over any sequence of statements? | 2 schemas, 3 names, 2 columns, 4 OIDs, 2 constraints; 224,916 states up to symmetry |
| `types` | Do types, arrays, row types, labels and extensions stay together? | 2 schemas, 3 names, 4 labels, 12 OIDs, `Focus`; 15,490 states up to symmetry |
| `overloads` | Does the analyzer pick the function and the operator that PostgreSQL picks? | every 2 of 9 functions, every 3 of 10 operators, then one statement, two for some; 8 types, 1 or 2 arguments; 10,658 states |
| `doc_drop` | Is a function that a view calls protected from `DROP`, as `views.rs:431` says? Not if it is overloaded. | 4 statements |
| `queries` | Is what is reported of every column true of the rows? | 3 FROM items, or 2 and a finished query; 2 tables, 8 GROUP BY clauses; 146,795 states |
| `doc_using` | Does the merged column take the place of those it merges, as `scope.rs:79` says? Not in a chain. | 3 FROM items |
| `templates` | Is what is sent what was written, is what is bound what is taken, and do marks and rows arrive? | 3 fragments of 26, 4 of the 11 that quote; types 3 deep; 2 items, 3 rows; 114,884 states |

The documentation of the runner and of the readers says more than the code does. These properties
state what it says and are in no run; added to the configuration named here, each is
refuted by TLC: `DriftAbortsFirst` and `NoCreationConflict` (`MCMigrationRunner_deploy.cfg`),
`NoDeadlockAbort` (`_live`), `LockFreedOnReturn` (`_mixed`), `SortedByNumber`
(`MCMigrationFiles_order.cfg`). That `DROP COLUMN` fails under a view, as `views.rs` says, is
`ViewsIntact` with `Gaps = {"star"}`.

Two sessions are enough for every interleaving of a holder and a waiter, and a
second call for each lets every call follow every way another call can end. Three
migrations give one before, at and after the point where something goes wrong.
Counters (`MaxCalls`, `MaxCrashes`, `MaxCancels`, `MaxFiles`, `MaxText`) are guards of the
actions named for them; the runs with bounded calls stop there, so they are
checked without deadlock detection. In `Catalog` the OIDs run out (`MaxOid`): they are never
used again, so a history allocates at most three beside the seed's, each a schema, a
relation or an index. That is enough for a key with its index and a table that references
it, for a chain of a table, a view and a view on the view, and for a relation that moves to
another schema. `MaxSources` 1 gives a view one relation to read. Names, and columns, are
interchangeable in the code, hence the symmetry.

In `SchemaBuild` a file is there or not (`MaxText` 1): a removal, an addition and a file put back are already
histories of two texts, and a query is wrong about a file as soon as it has the other one. Three files are a
database with two and one that takes the cache slot from it; the two are read together, hence the symmetry.

In `TypeObjects` a type costs two OIDs and a table three, so that 12 OIDs are three objects beside
the seed's. The constraint `Focus` says which histories go on: three live
objects of which one is a view on another, one object beside a dropped one, or an enum alone with
four labels, for which `Unit` 2 leaves no room between neighbours after two insertions. `Contrib` has
the shape of a contributed extension: a shell type that is completed, two updates in a chain.

`Overloads` has one name, so the number of overloads is the bound. Resolution compares the
candidates in pairs and by the best of them, so two functions or three operators, over types of
three categories with a preferred type, a domain, an array and the
polymorphic ones, meet every pass of the code, and a statement before the call (`MaxStatements`)
adds, replaces or removes one.

In `Queries` three FROM items are a join of a join, where merged and padded columns first differ from
plain ones; a finished query (`MaxResults` 1) is the least for a subquery, a CTE, an arm of a union
and a sublink. Each table has a row with a NULL and a row that finds a partner, the least
for a join of any kind to pad. The state constraint `NoGapYet` ends a history at a shape of the table above.

`SqlMacro` writes templates of `MaxFragments` fragments, of `MaxQuoting` if all belong to `Quoting`:
an opening, a content, a closing and something after it. In templates of at most `MaxStudied`
fragments, and with that many placeholders, a placeholder is used in every way (`Sites`), and those of one
fragment are called with every number of rows; the others are called with one way to fetch that is wrapped and one
that is not, since the text sent does not depend on the values. Types other than `text` are studied
in a parameter, a spread and a column on their own (`Carriers`); wrapped `MaxDepth` times they
include an array of records with an array field. Two items show the separator between the rows of a spread, and
two rows are the first that `fetch_one` refuses. `MaxPlaceholders` 9 makes a number one character.

Fairness (`FairSpec`): the server answers every statement, so the work of a
session goes on (weak fairness of `Work`); PostgreSQL grants a lock in the order of the
requests, so a waiter gets it if it is freed again and again (strong
fairness of `AcquireLock`). Nothing obliges a call to begin, to fail or to crash.
`CallsReturn` holds without dropped futures: a dropped future leaves a connection
in a state where nobody releases the lock until the connection closes.

## Proofs

TLAPS checks the theorems below for every value of the constants that the named
assumptions of the modules allow. A theorem whose property needs more than the
specification gives has that as a hypothesis, which the table names; each is also met by the
configuration whose run checks the property, so it excludes nothing that is checked.

| Theorem | Property | Under |
|---|---|---|
| `MigrationRunnerProofs`: `TypeCorrect`, `MutualExclusionHolds`, `SnapshotStaysFresh`, `RunLeavesAllRecorded`, `AppliedExactlyOnce`, `DriftStopsRun`, `RunnerImplementsLedger` | `TypeOK`, `MutualExclusion`, `SnapshotFresh`, `RunCompletes`, `ExactlyOnce`, `NothingPastDrift`, `ImplementsLedger` | |
| `MigrationRunnerProofs!RecordedAfterRun` | `RecordedHasRun` | |
| `MigrationRunnerProofs!LockFreed` | `LockFreedOnReturn` | no dropped futures (`MaxCancels = 0`), no script outside the runner's transaction opens one (`NoOwnTransaction`) |
| `MigrationFilesProofs!EmbeddedLikeTheDirectory` | `EmbedAgrees` | |
| `MigrationFilesProofs!CompiledInTheOrderRun` | `CompileOrderAgrees` | |
| `MigrationFilesProofs!LaterMigrationsComeLast` | `AppendsLater` | |
| `SchemaBuildProofs!FreshBuildIsCurrent` | `FreshIsCurrent` | |
| `SchemaBuildProofs!ExpansionsSeeTheFiles` | `ExpansionsAgree` | |
| `SchemaBuildProofs!TypeCorrect` | `TypeOK` | |
| `CatalogProofs!TypeCorrect`, `NamesStayInSync`, `CascadesTakeDependents` | `TypeOK`, `NamesInSync`, `CascadeOnlyDependents` | gaps `generated_name`, `if_not_exists` closed (`NamesKnown`) |
| `CatalogProofs!RowsStayResolved`, `KeysStayIndexed`, `FksStayCovered` | `RowsResolve`, `KeysIndexed`, `FksCovered` | and the five gaps that break tables closed (`TablesKnown`) |
| `CatalogProofs!ViewsStayIntact` | `ViewsIntact` | and, besides `NamesKnown`, `star` and `replace` closed (`ViewsKnown`) |
| `TypeObjectsTheorems!CatalogTyping`, `TypesStayTied`, `OnlyItsOwn`, `ExtensionsStayWhole` | `TypeOK`, `TypesTied`, `RenamesItsOwn`, `ExtensionsWhole` | gaps `array_name`, `same_name`, `composite_row`, `extension_parts` closed (`TiesKept`) |
| `TypeObjectsTheorems!UsesResolve` | `TypesResolve` | and the five gaps that leave uses behind closed (`UsesKept`) |
| `TypeObjectsTheorems!LabelsInOrder` | `LabelsAgree` | gaps `rename_value`, `crowded` closed (`LabelsKept`), and no other |
| `QueriesTheorems`: `ReportsTrue`, `ResultsTrue`, `GroupsTrue`, `StarsTrue` | `ReportsHold`, `ResultsHold`, `GroupsSettled`, `StarAgrees` | |

### The runner

The constants' assumptions are: names within one source are distinct (they are file names of one
directory), the markers `NoSql` and `NoRow` are not texts, and bounds are numbers.
The argument has layers, each an inductive invariant relative to those before:

1. `Base` = `TypeOK /\ LockInv /\ PositionInv`. Mutual exclusion is not inductive by
   itself: a session could hold the lock with depth 0. `LockInv` ties holder, depth
   and position together; `PositionInv` says where `next` may point and which call
   is served at which position. Steps are first classified (`Kinds`: a session leaves the
   lock, ends its work, stays where it is, or makes a step of its own), so that the
   cases that change nothing relevant are argued once.
2. `Known` = `SnapshotFresh /\ PassedInv /\ PendingInv /\ RunCompletes`. That the snapshot
   stays true rests on mutual exclusion: only the session inside the lock changes
   `ledger`, and it changes the row it has just passed. `PassedInv` (what was passed is recorded
   and not drifted) is what makes `RunCompletes` and `NothingPastDrift` follow.
3. `ExactlyOnce` on its own, from `PendingInv`: a script is committed with its row, from a row
   that was absent.
4. The refinement: each step is an `Apply`, `Revert`, `RecordOnly`, `EraseOnly`, `RunOnly` of
   `MigrationLedger` or leaves both tables alone; that a row is inserted in
   source order is `PassedInv`.
5. Two more invariants. `RecordedHasRun` needs `BackedInv`: a migration
   whose down script, if any, runs in a transaction has an effect whenever it has a row, and already when a
   session has run its script outside a transaction and is about to write the row; and `DownInv`, by which
   a revert that runs a script has one. `LockFreedOnReturn` needs `HeldInside`: the holder is
   at a position inside the lock. A dropped future and a script that leaves its
   transaction aborted are the two ways out of it, hence the two conditions.

### The files and the build

`MigrationFilesProofs` compares orders. Two names whose versions differ and have one width
are told apart inside the version, so what follows it (an underscore, a description, `.sql`) does not
matter: `FirstDifference`, from a description of `LexLess` place by place. Equal
orders sort alike. A name behind all others leaves their places alone (`SortedAppend`, by counting
predecessors), which makes the older list a prefix of the newer one. The invariant is the type of `dir`: a
finite set of files.

In `SchemaBuild` no single step compares what the build script fingerprinted with what the
macros read, and a file may have gone through any texts in between. `ScriptInv` says that the fingerprint (or what
the script has read so far) is accurate unless the script has to run again. `BuildInv` relates all that the compiler
read, keeps in its slot and handed out to the fingerprint of the crate (`Reflected`): for each file they are the same, or the file now differs from the
fingerprint, or it was put back to it since the compiler started. When the fingerprint is accurate the second case is
impossible, which leaves the exception of `FreshIsCurrent`. `ReadInv` says that what was read is as the file is
unless that file was saved since.

### The catalog

`CatalogProofs` proves one inductive invariant helper by helper and statement by
statement, and draws the properties from it:

    Inv(c) == Base(c) /\ (TablesKnown => TablesWhole(c)) /\ (ViewsKnown => ViewsWhole(c)) /\ Deps(c)

`Base` types the rows: every table of the catalog is a function from OIDs below
`next_oid`, and the indexes by name and the rows agree. `TablesWhole` says that constraints, keys and
indexes refer to relations and columns that are there, that a key has the index of its name, and
that a foreign key references a key. `ViewsWhole` says that what views read is there and recorded
in `pg_depend`. `Deps` bounds what `pg_depend` may contain, which is what makes a CASCADE take dependents
only. The layers are separate because the gaps are: a script with a pattern that breaks
views still keeps the tables whole. Each helper of `pg_catalog/mod.rs` has a lemma saying what it
preserves, and `DROP ... CASCADE` one that follows the closure of `transitive_views`.

### Types and extensions

`TypeObjectsProofs` says of each helper which rows of its result are new, renamed or gone, and that
such a result keeps the ties; `TypeObjectsTheorems` takes the statements one by one. What constrains a
script is the shape of its names (the array of `x` is not called `x`) and that `Registry` holds sequences of
versions; the number of schemas, names, relations, extensions and versions is arbitrary.

- `State(cat)` is `TypesTied` and `TypeOK` with three parts that make them inductive: only arrays and
  pseudo-types have no array; OIDs of types, relations, casts and extensions differ; and a type that an extension
  owns comes with its array and is no row type (`MembersWhole`), without which `DROP EXTENSION` would tear
  them apart. That `RENAME` finds the right array by the name `_x` is `NamesTied` and `ArraysTied` together.
- `Refs(cat)` makes `TypesResolve` inductive: `pg_depend` holds every read and cast of a view,
  casts never name an array, and a view's columns are among those it selects, so that a `DROP` which looks at
  `pg_depend` and at columns has looked at everything.
- `Owns(cat, made)` makes `ExtensionsWhole` inductive: no two extensions share an OID or an object, and no
  tag refers to an extension that is gone.

Each statement adds rows (`Adds`), changes names (`Moves`) or drops rows (`Drops`), and one lemma for each
of the three says what the invariants then keep. `CREATE` and `ALTER EXTENSION` run a script: the catalogs
after each of its statements are a recursive function (`Course`), and the least prefix that
broke the invariant would have had a sound predecessor (`CourseBase`). The views that a `DROP` takes with it are the
least closed set, from which both directions of the argument follow.

`LabelsInOrder` needs none of the ties: `LabelsInv` puts each enum's rows `InStep` with its labels, of one length, the same label
at each place, none twice, and orders that rise. Rising orders make the least order above a label that of the next one, so the
midpoint is between the two (`NearestBeside`, `BesideFits`), and `insert_pg_enum`, which counts the
orders that are not above, arrives at the place PostgreSQL inserts at (`InsertedInStep`). Each other statement keeps the rows of
an enum or drops them with the type.

### Queries

The theorems hold for any relations whose rows obey their declarations and keys, any GROUP BY clauses built of
columns, lists, `ROLLUP`, `CUBE` and `GROUPING SETS`, any `VALUES` lists of one or two columns and any number of
aliases and results, so joins, subqueries and set operations may be nested to any depth. The four properties follow
from one invariant:

    IInv == ScopeOk /\ NullsHold /\ StarsHold /\ GroupOk /\ ResultsOk /\ ResultsHold

- `ScopeOk` describes each FROM item (`ItemOk`): its rows have a value for each column, an alias names one source
  unless it is the empty one of a merged source, the primary key of a source settles its part of a row
  (`KeysSettle`), and a column PostgreSQL does not show stands behind one of its name. The key of a part that an outer join padded
  is NULL, which tells it from the others: without that, joins would break `KeysSettle`.
- `NullsHold`: outside `marked` a column declared NOT NULL holds none. Each join is a `Cross` of its sides, padded or
  not, with fewer rows and possibly a merged source in front; one lemma each says what this preserves.
- `StarsHold`: the columns shown are those not in `hidden`, in order, and what is hidden has been
  merged. Sorted sequences with the same members are equal (`SameSorted`), which turns this into the equality of
  `StarAgrees`; a name shown once has one visible position.
- `GroupOk`: the clause's columns resolve in the scope. The analyzer's grouping sets (of keys) and PostgreSQL's
  (of positions) are both images of `LeafSets`; a leaf that the check does not skip is one column for both, and two
  with one key are the same (`LeavesApart`). So a column that is grouped and not omitted is in every set
  (`InEverySet`), and an empty set is one the analyzer sees (`EmptySetSeen`).
- `ResultsOk` and `ResultsHold` describe finished queries; a recursive CTE keeps them since after one
  more round that changes nothing every turn of a row obeys the columns (`RecursiveOk`).

The scope is a recursive function of the items, and flattening one of sequences; both are followed step by step
(`StepByStep`, from the least number at which something fails). `Text` adds the names that occur in the module to `STRING`: that a
literal is a string is true, but no backend knows it.

### What stays with TLC

- `CallsReturn`: liveness under fairness.
- `SqlMacro`, `SqlLexer`, `RustTypes`: RECURSIVE operators (a lexer's loop, types nested in types).
- `Overloads`: the properties compare the code's choice with PostgreSQL's by computing both on
  every small input. A proof would have to follow the folds over candidates of both, pass by pass.

## Plan

1. Proofs: that a lookup by name in `Catalog` finds what PostgreSQL's search path finds; of `Overloads`, the calls that one
   candidate accepts, where no tie is to be broken.
2. Inheritance in `Catalog`: columns that are copied to children and dropped with the parent's.
3. `MERGE` and `INSERT ... ON CONFLICT` in `Queries`, whose targets are nullable in some branches only.
4. Range families of polymorphic types in `Overloads`.
5. Literal input: the grammars of `literal_input.rs`, each as a reference set of accepted texts.

## Not modelled

- Validation of literals (`literal_input.rs`): each type's grammar, character by character, with no
  state that another part relies on.
- Diagnostics: the wording and layout of messages, and the table that maps offsets back to a template.
- The parser of the macro's input, `derive(FromRow)`, and names in generated code: text that `rustc`
  compiles or refuses.
- Executors and pools: each method is one delegation to a driver or a pool.
- The seed exporter, the generated seed data, the live-server cross-check of the test suite, the
  editor grammar and the examples.
- In the catalog: inheritance, collations, typmods, sequence options, `CHECK` and
  defaults. In the analyzer: `MERGE`, `ON CONFLICT`, indirection and the special syntax of SQL functions.
- In the modelled parts: network encodings, the texts of errors, time stamps, and reading of the
  configuration file.
