# Verification of tables-to-go

`tables-to-go` reads the schema of a PostgreSQL, MySQL or SQLite database and
writes one Go file with one struct per table. This directory holds TLA+ models
of the program, TLC configurations that check them on small instances, and
TLAPS proofs of their properties for any number of tables, files, columns, tags,
arguments and schema changes and for texts of any length. Paths below are those of the repository, without the leading
`src/`; `cli` is `internal/cli/tables-to-go-cli.go`.

## 1. The system

| component | code | state it keeps | operations | modelled in |
|---|---|---|---|---|
| process lifecycle | `tables-to-go.go`, `internal/cmd/run.go` | signal context, database handle, exit code | parse flags, verify, connect, ping, run, close, print, exit | `Cmd` |
| settings | `pkg/settings/settings.go`, `flags.go`, `NewArgs` | the parsed flags, read-only once verified | `New`, `Set`, `Verify`, the warnings | `CommandLine`; its outcomes in `Cmd` |
| app run loop | `cli` 54-155 | the list of tables, the loop position | `Run`, `getColumnsOfTables` | `App`, `Contract` |
| database access | `pkg/database/*.go` | one `*sqlx.DB`; fills `Table.Columns` | `Connect`, `GetTables`, `GetColumnsOfTables`, `Close` | `App`, `Cmd` (outcomes), `TableStruct` (rows), `DataSource` |
| struct builder | `cli` 157-357 | fields so far, names seen, two import flags | `createTableStructString`, `mapDbColumnTypeToGoType`, `generateImports` | `TableStruct`, `FieldText` |
| names | `cli` 359-494 | none | `formatColumnName`, `camelCaseString`, `toInitialisms` | `Names`, `FieldText` |
| struct tags | `pkg/settings/tags.go`, `pkg/tagger/*.go` | the resolved keys, a slice that is used again | `ResolveTags`, `ResolvedTags`, `Validate`, `GenerateTag` | `Tags`, `CommandLine`, `GormTag` |
| file writer | `pkg/output/*.go` | the files of the output directory | `Write` (format, open with truncation, write, close) | `App` |
| comments, header | `cli` 259-278, 426-451 | none | `normalizeComment`, `generateLineComments`, `generateInlineComment`, `generateHeader` | `Comments`, `FieldText` |
| version info | `internal/cmd/run.go` 226 ff. | none | text only | no |

**How they interact.** `main` calls `Cmd.Run`, which makes a context out of
SIGINT and SIGTERM, parses and verifies the settings, connects, and runs an
`App` given the settings, the database and a `FileWriter`; a deferred function
closes the handle and joins its error with the one being returned. `App.Run`
asks the database for tables, then for columns: in one call, or with `-f` in one
per table. Then it loops over the tables, makes each a struct (asking the
database package what kind of column it has and the taggers for tags) and calls
the writer. There is one goroutine; everything that runs beside it is outside:
signals, other sessions of the database, the file system.

**What is hard.** Cancellation may come between any two steps and is seen only
where the code polls the context or hands it to a query. With `-f` every step may
fail for some tables and the others have to go on. Schemas change between
queries. `os.WriteFile` truncates before it writes. Rows come repeated, in an
order that is fixed in part. A text escaped for one parser is read by three
others, and cut by one index taken from another text. The list of hazards, each
at its line with the properties that would catch it, is in `PROJECT.json`.

**What makes each component correct.**

- App: at `done!` every listed table is written or reported; nothing else is
  said to be done. Only structs from completely read columns reach a file. A
  signal stops the run after one more query or write at most.
- Cmd: the handle is closed on every way out; each failure is told once and
  shows in the exit code; a signal ends the process, as far as the driver lets it.
- Struct builder: distinct fields, no column lost, the right imports and keys.
- Settings: every flag counts, in whatever order and however often it is given;
  a refusal or a warning is there exactly when it is called for; the driver is
  told the server, the login and the database that the flags name.
- Tags: the keys depend on the settings only; lists handed out do not change;
  a value put into a tag comes out of it, and is never taken for something else.
- Names and comments: a name becomes an exported identifier or an error; what
  the database says of a table never becomes code.

## 2. The modules

### Contract and App

`Contract` is the promise of one run: list the tables once, settle each at most
once (written, or reported if `-f` is given), say `ok` only with none open, end.

`App` is the code. `pc` names the call or the loop `App.Run` is in:

| `pc` | code | actions |
|---|---|---|
| `GetTables` | `cli` 58 | `GetTables`, `GetTablesFails` |
| `GetColumns` | `cli` 144, per driver | `GetColumnsOfTables`, `GetColumnsOfTablesFails`, `ColumnsFetched` |
| `ForceLoop`, `ForceGetColumns` | `cli` 120-142 | `ForceLoop`, `ForceLoopCancelled`, `ForceLoopEnds`, `ForceGetColumns`, `ForceGetColumnsFails` |
| `Loop` | `cli` 72-86, 110 | `Loop`, `LoopCancelled`, `LoopEnds` |
| `Create` | `cli` 87-94 | `CreateTableStruct`, `CreateTableStructFails` |
| `Write`, `WriteContent` | `cli` 96-107, `writer.go` 40-49 | `Open`, `WriteRefused`, `WriteContent`, `WriteContentFails` |

A step is a call whose effects nobody can see half done, or the part of one
between two points at which the world can interfere: a write is two steps because
a process killed between them leaves a truncated file; the column query of SQLite
is one step per table because each is a query. `Cancel` and `AlterTable` are the
environment and may come between any two steps.

A process that is killed (SIGKILL, SIGQUIT; a second SIGINT or SIGTERM is
swallowed by `signal.NotifyContext`) is a behaviour that
stops: whatever holds in every state holds where it was killed. All it leaves
is on disk, so the run after it is one that begins with truncated files;
`Leftovers` says what `Init` may find, and `torn` is the hardest case, as a
torn file of this run and one of an earlier run must not be mixed up.

The data is abstract. A layout is a model value for "these columns", and
`Rejected` and `Malformed` say which structs `createTableStructString` refuses
and which `go/format` cannot parse, as parameters, so that every combination is
covered. `FileName` is a parameter as well; it need not be injective, because
`camelCaseString` is not. `Lower` is what Postgres compares: `-table user_roles`
lists `User_Roles` too (`Named`). That one query sees one instant (`ReadAll`) is so in
Postgres, SQLite and MySQL 8, whose `information_schema` are tables and views; in older
versions of MySQL it is filled in from the files of the tables as the query goes
on. `written`, `interrupted` and `late` are history
variables for the properties.

### Cmd

`Cmd` EXTENDS `App` and adds the phases of the process around it. `RunApp` is a
step of App. What the phases branch on of the command line is one record. A
`Ping` that fails closes the handle (what that `Close` returns is dropped, and not
counted as a failure to be told), a `Close` that fails adds its error to the
one already there (`errors.Join`), `main` prints all but the flag sentinel.

Beside signals and other sessions the environment has the server, which may fall
silent at any time (`FallsSilent`); `Heeds` says what the drivers then make of a
context that is done (section 4).

### TableStruct

From the column query to the imports of the file, for one table of the query.
A query names the tables it is for; `rows` holds `<<table, position,
constraint>>` of all tables it selects. Postgres compares `LOWER(table_name)` with
what Go's `strings.ToLower` made of the names, so it may bring the columns of other
tables (`OfTable` sorts them out) or, where the two fold differently, none at
all; `GoLower` and `DbLower` are parameters. Postgres also has a row per constraint of a
column and the order among these is free, as the query orders by position only.
`ScanFails` may happen at any row.
`Scan` appends to `Table.Columns`; `ScanEnds` is the count of primary keys that
SQLite makes; then `RefuseName`, `SkipKnown` or `AddField` per column and
`GenerateImports`. The name of a field is a constant function of the column
name that may map two names to one, and some to none (refused). `Embeds` are the
fields that are written before those of the columns, `gorm.Model` and
`structable.Recorder`. The check for repeated columns does not know them: a column
`model` with `-gorm-model` makes a struct with two fields `Model`, which does not
compile, and `FieldsDiffer` says that nothing else does.

### Tags

Slices as Go has them: a heap of arrays and a slice that is an array and a
length, so that `s.tags[:0]` followed by `append` writes where the last result
was, `append` beyond the capacity moves to a new array of twice the size, and
`removeTag` shifts in place. `Configure` changes the fields of Settings,
`ResolveTags` and `ResolvedTags` are the two methods; the loop over the values
is a step per value.

### CommandLine and DataSource

`CommandLine` EXTENDS `Tags` and is `NewArgs`, the decisions of `Cmd.Run`,
`Verify`, `Connect` and `cli.New` as seen by the settings: one step per argument
(`SetOption`, `AddTags`, `SetTagSwitch`, `Usage`), then `Resolve` (the steps of
Tags), the three warnings in their order, `AfterNewArgs`, `Verify` or
`VerifyPanics`, `Connect` and `NewApp`, which takes its copy of the tags. Beside it
is the other user that `pkg/settings` can have, a program that configures,
resolves and asks in any order (`OtherConfigures`, `OtherResolves`, `OtherAsks`).
An argument comes as the flag package has it: a flag and a value if there is one;
`-?` is `-help`, a Boolean is written `true` or `false`, and the
values of `-tag` and `-table` come split. `DataSource` has the three `DSN`
methods and, from the drivers, how each is taken apart: `net/url`, `convertURL` with
all pairs of the query, and the default host and port of lib/pq; `ParseDSN` with `normalize`, which
gives an address without port one, and one whose host has colons and no brackets both
(`-h ::1` becomes `[::1:3306]:3306`); `url.Parse` for SQLite, which refuses
`:memory:`. Where the reader would have to know more of the driver it answers `NotFollowed`,
refused or any server, and `ServerAskedFor` names these cases as the ones it says
nothing of: a Postgres query with a pair other than `sslmode` (an `&` in
`-sslmode`), parameters and networks other than `tcp` and `unix` of MySQL, and options,
hosts and `file:` names of SQLite.

### Names, Comments, FieldText

`Names` has `formatColumnName` and everything below it. Text is a sequence of
characters with case, and its bytes are pairs of a character and an index in it:
`toInitialisms` takes an index from the lower-cased bytes and cuts the original
with it, so that a letter may be cut in two (`Runes` shows what is left, U+FFFD)
or the slice be out of range (`Panic`). What Unicode says of a character is
a set of parameters, of which `CaseAssumption` says what all its tables have in
common (a letter stays a letter when its case changes; digits and spaces have no
case). `Comments` has the four functions of comments and header.
`Symbols` names the characters that several modules treat specially.

`FieldText` composes both with `GormTag` to the text of one field and its file:
the struct is named or refused, then the field, the field is written with its tag
and comment, the file around it, and another program reads the tag. The steps are
those of `createTableStructString`, in its order, so a name that is refused
writes no tag, and one that is accepted goes into the tag as the database has it.
`AcceptedNamesAreReadBack` is about that: the escaper of the gorm tag leaves
backslashes alone, and the other taggers escape nothing, so it is the test for
an identifier that keeps their readers from being misled by a name.

Two properties of characters say how far the names can be trusted. `CasesOf` are
the forms that the steps make of a character (title, lower, title again); it is
`Steady` if none of them changes its length when lower-cased, and `Plain` if in
addition its first byte, taken for a rune as `cli` 475 does, is a letter just when
it is one. Only a character that is not steady makes a name panic
(`SteadyNamesDoNotPanic`). It need not be one whose lower case is longer: one whose
lower case is shorter is cut in the wrong place, and of a letter cut in two U+FFFD
is left, which is longer than the byte it stands for. `PlainNamesAreDecided` and
`NamesKeepTheirLetters` are about plain names. What is left out there is wrong in
the code too: U+05D0 gets a prefix it does not need, and U+0660, a digit whose first
byte 0xD9 is as a rune the letter U+00D9, gets none, so that the field begins with
a digit. And what `toInitialisms` overwrites is not seen by the test that follows: of
`ȺȺidu\` the initialism, found two bytes too far, replaces the `u` and the backslash; the
name is accepted and goes into the tags with its backslash. That is why the properties
of the tags have conditions on the name, and `AcceptedNamesAreReadBack` is about plain
names.

### GormTag

The way of a column from the catalog to gorm: `Generate` (the escaper,
`GenerateTag`, the literal), `Lookup` and `LookupFails` (reflect and strconv,
external), `Parse` (gorm, vendored). Text is a sequence of symbols; characters
that no parser treats specially are one symbol, `t` stands for the letters that
make an escape after a backslash. Another tag may follow the one of gorm.

`NoDefaultMakesAnOption` says that gorm sees the options that were written or finds no
tag, whatever the default; `PlainColumnsAreReadBack` that it reads their values
too, and the next tag is found, if the texts have nothing that the escaper misses. A
default that ends in a backslash is the hard case of the first: the quote behind it is
no end then, and the value goes on to that of the next tag.

## 3. The runs

Runs that pass:

| run | asks | instance and why it is enough |
|---|---|---|
| `app_safety` | the invariants of App, `OnlySoundStructsReachDisk`, and that App implements Contract, termination included | three tables, two of which share a file and are one name to Postgres: the smallest instance in which one table is written, one fails and one is still to come. All drivers (MySQL with `-table` only, as it differs from Postgres in nothing else), with and without `-f`, with and without `-table`; one schema change and one signal at any point; every file truncated by an earlier run. One DDL is enough to tell two snapshots apart. |
| `cmd_safety` | handle, exit code, stderr; a signal ends the process | two tables, every way a command line can be wrong, one schema change, a signal at any point, a server that falls silent at any point or not. |
| `struct_fields` | fields, keys, imports | all tables of up to two columns over six names, of which two make the same field, one is refused and two are called as the embedded types; three kinds of type, any keys; alone, or in a query with two tables whose names fold to the same; all drivers and both null types. Every property is about pairs of columns. Floats and booleans take the path of integers, and `UNIQUE` that of `FOREIGN KEY`. |
| `settings` | tags, flags, warnings, refusals, the server | all sequences of four flags about tags out of ten (aliases, a blank, a key that is refused), of two of the others out of 30, and for each type all passwords of two symbols and all databases of three out of those that URLs and drivers treat specially, hosts with and without brackets and colons, and for Postgres all modes of four symbols out of five (a pair of a query is three, and one may precede it). Two occurrences of a flag tell the last from the first; four tag flags are a shortest way to a warning that an alias, a repetition and a legacy flag bear on. The other program makes four calls: resolve, hand out and resolve again is the shortest way to a shared array, and up to four keys make it grow twice. |
| `field_text` | names, tags, comments | all defaults of up to four symbols out of nine (an escape is two, and two may meet); all names of up to three symbols out of 18, of four out of those that initialisms are made of, of two out of six before `iduuid` (an initialism may begin where another ended, and a text that was cut and made longer meets the next one), and of two out of five after `ȺȺid` (where `id` overwrites them); all comments of up to four out of six, with four names of tables. Letters whose case changes their bytes (U+023A, U+0130), whose first byte is no letter (U+05D0), a letter without case (U+4E2D), and a digit whose first byte is a letter (U+0660). |

Runs in which TLC finds what the code does against its own documentation; each
is a finding in `PROJECT.json`:

| run | violates | what happens |
|---|---|---|
| `app_cancel` | `CancellationReported` | with `-f`, a signal during the column query of the last table is printed as that table's error; if no table was kept, `done!` follows and the exit code is 0. |
| `app_collision` | `EveryTableKeepsItsFile` | `user_roles` and `User_Roles` both become `UserRoles.go`; the second replaces the first in silence. |
| `cmd_panic` | `OutputPathIsChecked` | `os.Stat` fails with an error other than not-exist and `verifyOutputPath` calls `Mode` on a nil interface. |
| `struct_folding` | `EveryGivenTableIsRead` | the columns of a Postgres table `Ärzte` are not found: Go folds the name, `LOWER` in `information_schema` leaves it; the struct is empty and nothing is reported. |
| `names_panic` | `EveryNameIsDecided` | the column `Ⱥid`: the index of `id` in the longer lower-cased text is beyond the end of the original, and the program panics, with `-f` too. (`LeftOut` keeps U+0130 out of this instance, whose lower case is shorter and which panics by a longer way, in section 2.) |
| `settings_socket` | `SocketTakesPrecedence` | `-socket` with Postgres: the driver finds neither socket nor host nor database in the data source name and connects to `localhost:5432`. |
| `gorm_semicolon` | `EscapedDefaultsAreReadBack` | `\;` is no escape of Go strings: reflect finds no gorm tag at all. |

`CHECK_DEADLOCK FALSE` is in every configuration because these systems end: a
run returns, a process exits, a struct is complete, a command line is done with,
and the bound on calls of `Tags` is used up.

That of two columns with the same field name the second is dropped (the check
for repeated rows compares field names) is part of what `ColumnsBecomeFields`
says, and not a run of its own.

**Bounds.** `MaxDDL` (schema changes) in `App`, `MaxCalls` (calls of `ResolveTags`
and `ResolvedTags`) in `Tags`; `MaxTagFlags`, `MaxFlags` and `MaxPassword` (lengths of
command lines, of passwords and of names) in `MCCommandLine`, and `MaxDefault`,
`MaxName`, `MaxWord` and `MaxComment` (lengths of texts) in `MCFieldText`. `late` in App
is not bounded: that it stays below two is the property.

**Mutants.** Definitions commented as "a slip" are what a plausible mistake would
make of the one that follows. They are not part of any specification; putting one
in the place of its original makes the property it is listed with fail, which
shows that the property sees that part of the code.

## 4. Fairness

- `App!FairSpec`: weak fairness of `Run`, the single goroutine of the program.
  Each of its calls returns: file operations and text handling are bounded, and a
  query ends by itself in that model (that it may not is the subject of the next).
  Nothing is assumed about signals and other sessions.
- `Cmd!CmdFairSpec`: weak fairness of the steps that do not wait for the
  database, and of those that do and were given the context *once it is done* and
  if the driver heeds that. `database/sql` does not give up on a call of the driver
  by itself; what ends it is the driver. That of MySQL closes its connection
  (its `watcher`), and SQLite interrupts its statement. lib/pq does neither: the context counts for
  the dial only, its startup (`cn.ssl`, `cn.startup`) reads without it, and during
  a query `watchCancel` sends the server a request to cancel and goes on reading. So
  it comes back if the server still answers (`Heeds`).
  There is no fairness for a query before the signal, so a database that never
  answers is a behaviour of the model, and a process that hangs for ever without a
  signal is too (the program sets no timeout).

So `SignalEndsTheProcess` is not that every signal ends the process: with a Postgres
server that has fallen silent it may stay in the one call it is in, and has to be
killed. It is that this is the only exception.

## 5. What is proved

`AppProofs` proves, for every set of tables, naming function, set of rejected
structs and number of schema changes, that the specification of App satisfies

| theorem | property |
|---|---|
| `TypeCorrect` | `TypeOK` |
| `PromptlyCancelled` | `PromptCancellation` |
| `TornFilesAreReported` | `TornFileIsReported` |
| `SchemaIsOneSnapshot` | `OneSnapshot` |
| `SwallowedOnlyThen` | `SwallowedOnlyWhenNothingIsLeft` |
| `TablesAreAccountedFor` | `EveryTableAccountedFor` |
| `SoundStructs` | `OnlySoundStructsReachDisk` |
| `Implements` | the safety part of Contract, under the mapping of `KeepsItsPromise` |

The assumptions are the named ones of `App` (`NoTable` is no table, `FileName` is
a function into the files, and so on); TLC evaluates them in every run of App.

No property of the list is inductive. The invariant that is comes in parts, each
a lemma that uses the ones before it:

1. `Typed`: types, and that a step that works on a table has one (`TypedInv`).
2. `Phases`: what is known of the variables by the place Run is in: nothing is
   written before the write loop, the fallback loop runs only with `-f`.
3. `Accounts`: the bookkeeping. A listed table is to come, in hand, written or
   reported, and settled only once; at `ok` none is left over. This is what makes
   `EveryTableAccountedFor` and the refinement go through.
4. `Sources`: the tables that are kept have complete columns; a table about to be
   written was accepted. It carries `OnlySoundStructsReachDisk`.
5. `Interruption`: where Run can be once it began a late call, or once a query
   was interrupted: on a path that writes nothing.
6. `Snapshot`: all tables kept have one read date without `-f` on Postgres and
   MySQL, and what is on disk has the date of its table in memory.
7. `Files`: the file of a written table holds its struct, unless a table of the
   same file name came later.

Each proof has a step per action, and the temporal step at its end.

The second part of `AppProofs` proves of the process, for every set of command lines:

| theorem | property |
|---|---|
| `AppWithinCmd` | every behaviour of `CmdSpec` is one of App's `Spec` |
| `CmdTypeCorrect` | `CmdTypeOK` |
| `HandleIsClosed` | `ConnectionIsClosed` |
| `ToldOnce` | `FailuresAreToldOnce` |
| `ProcessPromptlyCancelled` | `PromptCancellation`, for the process |

`AppWithinCmd` is what makes the composition pay: a step of the process is a
step of App or leaves App alone, so the invariants of the first part hold in the
process too. `HandleIsClosed` needs `Lifecycle`, the state of the handle by
phase. `ToldOnce` needs `Ledger` (the error returned wraps what failed, nothing
but the flag package has printed before `main`, and nothing else fails with it)
and, of App, that a failed run returns one of App's own errors.

`TableStructProofs` proves of every table of any number of columns, every
order of the rows, every naming and every setting:

| theorem | property |
|---|---|
| `TypeCorrect` | `TypeOK` |
| `DistinctFields` | `FieldsDiffer` |
| `ImportsAreExact` | `ImportsAreThoseUsed` |
| `EveryColumnHasItsField` | `ColumnsBecomeFields` |
| `KeysAreRight` | `KeysAreMarked` |
| `SerialIsTheKey` | `SQLiteSerialIsTheKey` |

`ImportsAreExact` is proved from the invariant `Flags`: the two flags
`generateImports` branches on say, at every column, what the fields so far use.
With a column skipped as repeated its flags are skipped too, which is why the
flags and the fields cannot come apart. The last three rest on a chain of
invariants that ties what was scanned to the table: `Sourced` (every scanned
column is one of this table, with its type, and its key as a row of it says),
`Ordered` (in the order of the table, with the rows to come not before those that
were scanned), `Complete` (a column is scanned or has a row left, where the names
fold alike) and `Built` (each column before `next` has a field that is its own or of
an earlier column). `KeysAreRight` adds that Postgres may return another
constraint of the column first, `SerialIsTheKey` that the count of key columns is
taken when all rows are there.

`TagsProofs` proves of every set of keys, every setting and every order of calls:

| theorem | property |
|---|---|
| `TagsTypeCorrect` | `TagsTypeOK` |
| `HandedOutForGood` | `HandedOutStays` |
| `ResolvedRightly` | `ResolvedFromSettings` |

Two arguments carry these. `HandedOutStays` is not inductive: it says nothing of
the array the settings hold now. `Separate` does, no slice handed out shares an
array with `Settings.tags`; every step is `Careful` (it writes to that array only,
or makes a new one), which `StepCareful` shows once per action. For
`ResolvedFromSettings` the invariant `Looping` says what the loop has built so far: the
keys of the first `loop - 1` values, once each and ordered by their first
occurrence, whatever else the array holds from an earlier call. No induction over
data is needed, the loop is the steps.

`CommandLineProofs` proves of every set of command lines, of any length:

| theorem | property |
|---|---|
| `TagsWithinCommandLine` | every behaviour of `LineSpec` is one of the `Spec` of Tags |
| `LineResolvedRightly` | `ResolvedFromSettings` |
| `LineHandedOutForGood` | `HandedOutStays` |
| `LineTypeCorrect` | `LineTypeOK` |
| `LineEveryFlagCounts` | `EveryFlagCounts` |
| `LineWarningsAreRight` | `WarningsAreRight` |
| `LineRefusedRightly` | `RefusedRightly` |
| `LineServerAskedFor` | `ServerAskedFor` |

No command line does more to the tags than set, resolve and ask, which gives the
second and third. For the others the properties compare the settings with the
arguments as a whole, and the code takes one at a time. `LineInvariant` relates the
two: `Reading` says that the settings are those of the arguments before `next` (for
a list flag, all its values in a row; for another, its last one or the default),
`AfterRead` what `NewArgs` and `Verify` made of them by phase, `WarnedSoFar` which of
the three warnings are out by now, with the keys they ask for taken from
`ResolvedRightly`, and `Asks` that the driver reads the data source name. That it reads
the server asked for is the first part of the module: each `DSN` method is followed by the
reader of its driver, cut by cut, for texts of any length without delimiters in
the places where the property excludes them (`MySQLReadsBack`, `PostgresReadsBack`,
`SQLiteReadsBack`, and `MySQLServer` and `PostgresServer` for the address). The
address goes through `SplitHostPort` and `JoinHostPort`, which undo each other where
a host with colons has its brackets and nothing else has any.

`FieldTextProofs` and `NamesProofs` prove of every column, of any length of its
name and comment:

| theorem | property |
|---|---|
| `FieldCommentsStayComments` | `CommentsStayComments` |
| `FieldSteadyNamesDoNotPanic` | `SteadyNamesDoNotPanic` |
| `FieldPlainNamesAreDecided` | `PlainNamesAreDecided` |
| `FieldNamesKeepTheirLetters` | `NamesKeepTheirLetters` |

The first is compositional. `Code` takes the code out of a text, and of two texts
in a row it is that of both in a row provided the first is `Ended`, that is, ends
outside of a comment (`CodeInARow`). `LineCommentIsOne`, `InlineCommentIsOne` and
`SourceLineIsOne` show that each of the functions of `Comments` makes a text of
comments only that is ended, whatever the database says: this is where
`normalizeComment` has to have turned every line break of Go into one that the
functions see. `FieldInv` then adds up the parts of the field and of the file.

The other three go from characters to bytes and back. `NamesInv` says that the
field is what `formatColumnName` makes of the column. The lemma `Formatted` is the heart
of the proofs: for a name whose characters are steady, an index into the lower-cased
bytes is one at the same character of the original (`Aligned`), every replacement by
an initialism replaces whole characters by as many of ASCII that differ in case
only (`Replaced`, `InitialisedRightly`), so nothing is cut (`NoPanic`), the bytes can
be read as characters again (`Recoded`), and the result is `Alike` what went
in. The steps before (white space, title case, camel case) take characters to
forms in `CasesOf` and drop underscores (`CasedTyped`, `CamelCased`), and the first byte
decides for the prefix rightly if the character is plain (`FirstByte`).
`NamesKeepTheirLetters` is carried along the same way, with `Bare` as a concatenation
over the characters (`BareIsFlat`) that no step changes.

`GormTagProofs` proves of every column, of any length of its name and default:

| theorem | property |
|---|---|
| `FieldNoDefaultMakesAnOption` | `NoDefaultMakesAnOption` |
| `FieldPlainColumnsAreReadBack` | `PlainColumnsAreReadBack` |
| `FieldAcceptedNamesAreReadBack` | `AcceptedNamesAreReadBack` |

Neither parser can be followed at once, as each goes on from where a backslash
left it; what they do to a row of texts is added up. The recursive function
`Escaped` of a text does not depend on what comes after (`PlacesBefore`), and of a row
`a \o b` it is that of both if `a` is `Closed`, that is, has no backslash left that waits for
a character (`PlacesBehind`); then `Unquote` is that of both as well
(`UnquoteInARow`). By induction over the text, what the escaper makes of one without
backslash is closed, has no quote that would end the value, and is unquoted to the
text (`EscapeStands`); and losing carriage returns commutes with all that (`TagsAre`). So the
value that reflect finds is `FrontValue` (the options up to the default) and then
something (`LookupFinds`): the default itself, or, if a backslash in it takes away the
escape of what follows, any text that a later quote ends. For that case there is
`Guarded`: every semicolon has a backslash before it. The escaper makes it so, a row of
such texts is one, and `Unquote` leaves it so if it accepts the text
(`UnquoteKeepsGuards`), because a backslash that is lost there is one before a
semicolon, which is no escape of Go. Hence gorm's separators are those that were
written, at most two (`OnePart`, `TwoParts`, `ThreeParts`), and `ParseReads` has what is
between them. `GormInv` carries these facts from phase to phase.

The third theorem combines the invariants of two components: `NamesInv` has
that a name which was accepted consists of letters, digits, spaces and underscores,
`GormInv` that such a name is read back, and `TagsOfFields` that no tag is read but of
a field whose name was accepted.

`DataLemmas` has what these need of numbers and sequences. The induction theorems
of the library take an operator and cannot be used here; its lemmas state
induction with a *set* instead (`Induction`: a set of numbers that has 0 and with each
of its members the next has all of them; `SeqInduction`: a set of sequences that has
the empty one and what `Append` makes of its members has all), which needs no more
than a least element, `LeastNumber`. `FlattenTyped`, `FlattenOneMore`,
`FlattenInARow` and the `Flat` lemmas say of the fold behind `FlattenSeq` what its
recursion says of one step, once for all texts.

The assumptions on constants are the named ones of the modules, each of which TLC
evaluates:

- TableStruct: a query's tables are in its schema and their columns have
  different names; `GoName` is a function of the names.
- Tags: `KeyOf` maps values to keys; `db` is not `structable`.
- CommandLine: `LinesAssumption` (an argument with a value has one of its flag's
  type), `WordsAssumption` (the defaults are texts), `BadKeyAssumption`.
- DataSource: the delimiters are symbols (`SymbolAssumption`), no number is one
  (`NumberAssumption`), nor a word that a scheme may be made of (`SchemeAssumption`), and an
  address of IPv6 has a colon and no delimiter that ends an authority
  (`IPv6Assumption`).
- Comments: the line breaks are white space and control characters, the signs of
  a comment are not white space (`WhiteAssumption`).
- FieldText: the words of the file are no white space (`CodeAssumption`); quotes,
  backslashes and semicolons are neither letters, digits nor spaces
  (`MarkAssumption`); names, comments and defaults are sequences, and the words of
  the tags are no characters of a default (`TextAssumption`).
- Names: the tables of Unicode are functions of the symbols (`SymbolAssumption`)
  with what `CaseAssumption` says of them; initialisms are capitals of ASCII
  (`InitialismAssumption`).

## 6. What is only model-checked

Liveness, which is beyond the prover: termination (the fair part of
`KeepsItsPromise`) and `SignalEndsTheProcess`. Every invariant that a passing run
checks is a theorem as well.

## 7. What is not modelled, and why

- The text of the queries beyond the folding of names, and the lists of data
  types: constants of the source whose meaning is the server's.
- Version info (`resolveVersionInfo`, `printVersion`) and verbose output: wording
  without state.
- The snake case of file names: it is the library strcase; `FileName` of App is
  any function.
- The panic of `toInitialisms` inside App and Cmd: `names_panic` shows it where it
  arises; in App it would be one more way to stop, as a kill is.
- Of the data source name, escapes (`%40` and the like: `%` stands for one that is
  none), the comma in a list of hosts of lib/pq, and what is `NotFollowed` (section 2).
  The environment variables of lib/pq, which fill in what the name leaves empty,
  and `.pgpass` are taken as not set.
- How the flag package groups arguments (`-x=v`, `-x v`), and Booleans written `1` or `T`.
- The tags of the other taggers are the column's name in quotes; they stand for one
  tag after that of gorm.
- A query with more than 65535 tables, which Postgres refuses, and files of tables
  that were dropped since the last run, which stay: listed as hazards; no property
  of this program says otherwise.
- The pool of string builders in the tagger: it is used by one goroutine, and
  `strings.Builder.Reset` gives up its buffer.
- Several processes writing to the same directory: the program makes no claim
  about it.

The repository has far more Go than this program: most of it lies under
`internal/integration_tests/` (more than 2,500 files of expected output, one struct each) and
`vendor/`. None of it has control of its own, so a count of lines modelled against all
of them says little. Of the program's own packages (`internal/cmd`, `internal/cli`,
`pkg/*`), what is left out is listed above.

## 8. Plan

Done, in this order: Contract and App with the proofs of App; Cmd, which composes
App, and its proofs; TableStruct and its proofs; Tags; GormTag; Names and
Comments, composed with GormTag in FieldText; several tables in one query;
CommandLine and DataSource over Tags; the proofs of Tags, and of columns, keys
and serials in TableStruct; the proofs of CommandLine with those of DataSource; the
proofs of comments and of names; those of the gorm tag, and of names and tags
together.

Three of these proofs changed the model. The property of names that panic was about
letters whose lower case is longer; it is false (section 2) and is
`SteadyNamesDoNotPanic` now. And `Names` did not say what the tables of
Unicode have in common, without which a letter might turn into a digit. The properties
of the gorm tag had no condition on the name, as a name with a backslash or a
semicolon was thought to be refused; that fails for the names in which `toInitialisms`
overwrites it (section 2), which the instance of `field_text` did not have before.

What could follow:

1. The image of `formatColumnName` in the place of the constant `GoName` of
   TableStruct, which is a parameter there and an operator in `Names`.
2. Several fields in FieldText, of which each has its own tags.

## 9. Running the checks

    tlc -config app_safety.cfg MCApp.tla
    tlapm AppProofs.tla

and likewise for the other configurations, whose module is the `MC` module of
the same subject, and for the other modules with theorems: `TableStructProofs`,
`TagsProofs`, `CommandLineProofs`, `FieldTextProofs`, `NamesProofs`, `GormTagProofs` (four minutes)
and `DataLemmas`. `app_safety` has 2.4 million states and takes two to three minutes, `settings` and
`field_text` take one to two, `struct_fields` half a minute, the others seconds.
