# Verification of stock-quant

TLA+ models of the stock-quant backend, checked with TLC, and theorems about
them, proved with TLAPS. stock-quant is a Go command-line program over MySQL and
the Tushare data service: `stockquant migrate up|down` brings the schema to the
version of the binary, `stockquant sync initial` loads stocks and trade
calendars, and repositories keep the runs (sync jobs, screening runs, backtests)
that a later scheduler is to execute.

Source paths below are relative to `src/`.

## 1. The system

| Component | State | Operations | Talks to | What is hard |
|---|---|---|---|---|
| Migration runner: `internal/infrastructure/mysql/migrate.go`, `cmd/stockquant/main.go`, `db/migrations` | table `t_schema_migrations`; the tables themselves; the MySQL advisory lock; the map `states` of a running process | `Up`, `Down` | MySQL, statement by statement; other migrators through the lock and the ledger | DDL commits at once, so a death anywhere leaves a half-done version; several builds and several processes on one database |
| Run repositories: `internal/infrastructure/mysql/run_repositories.go` | `t_sync_job`, `t_screening_run`, `t_backtest_run` | `CreateOrGet`, `MarkRunning`, `MarkSucceeded`, `MarkFailed`, `MarkBlocked`, `Complete`, `Find` | concurrent workers through single statements | two keys that may collide; lost answers; races between outcomes |
| Screening completion: `screeningRunRepository.Complete` | `t_screening_run`, `t_screening_result` | one transaction of many statements | InnoDB locks of other completions | atomic publication; deadlock, lock timeouts |
| Tushare client: `internal/infrastructure/tushare/client.go`, `resilience.go` | `nextGlobal`, `nextAPI` under a mutex; per call the attempt, the deadline | `Query` | the provider; concurrent calls through the limiter | sleeping outside the mutex; retry, cancellation and deadline at every point |
| Initial sync: `internal/app/initial_market_sync.go`, `tushare/initial_provider.go` | the maps of one sync; `t_stock`, `t_trade_calendar` | `Sync` | the provider, two repositories | data that changes between requests; incomplete answers; two transactions |
| Market repositories: `internal/infrastructure/mysql/repositories.go` | `t_stock`, `t_trade_calendar`, `t_daily_price`, `t_adj_factor` | `Upsert`, `Find`, `List`, `ListByCode`, `ListByDate` | MySQL; other callers through row locks | revisions counted by SQL under a race; half-written batches |
| Response mapping: `tushare/mapping.go`, `dto.go`, `permission.go` | none | `Decode…`, `Map…` per API | client, sync, decimals | numbers that just fit or just do not; two layers that check the same row |
| Value types: `internal/shared/types` | none | parse, normalize, `Fits`, `Cmp`, `MultiplyInt64` | everything | normal forms, limits in digits |
| Factor service: `internal/app/factor_service.go` | none | `ComputeRawFactors` | snapshot and runner ports (no adapter yet) | classification of errors |
| Factor protocol: `contracts/protocol.go`, `python/stockquant/protocol.py` | none | encode, decode | Go and Python | two implementations of one format |
| Health, ports, stub packages, tools | none | | | |

What makes each correct:

* **Migration runner**: the history is a stack; a version recorded as applied is
  complete; nothing is left behind without a record; only one process works at a
  time and what it read stays true; success is reported only when it happened;
  tables of others are neither adopted nor dropped; every command ends and the
  lock comes free.
* **Runs**: one row per key, one starter per run, one outcome per run, and what a
  caller was told stays true, whatever answers are lost.
* **Screening completion**: results and SUCCESS appear together or not at all.
* **Tushare client**: the rates hold over all goroutines, every attempt pays for
  a slot, nothing is sent past the deadline, and every call ends.
* **Initial sync**: no incomplete calendar and no wrong stock is stored, and an
  honest provider is not refused.
* **Market repositories**: overlapping upserts never mix and never leave half a
  batch, a revision names one content and counts its changes exactly.
* **Mapping and decimals**: a number is stored exactly or its row is refused, never
  rounded, and what is read back is what was written.

`PROJECT.json` lists the components with their status, and under "hazards" the
places in the code that are hard to test, with the properties that cover them or
a note on why none does.

## 2. Modules

| Module | Models | Checked by |
|---|---|---|
| `SchemaHistory` | abstract: the stack of migrations, one of them possibly half done | refined by `Migrator` |
| `Migrator` | migration runner | `MCMigrator`, `MigratorProofs` |
| `RunLifecycle` | abstract: submitted once, started once, ended once | refined by `RunStore` and `ScreeningStore` |
| `RunStore` | the three run repositories | `MCRunStore`, `RunStoreProofs` |
| `ScreeningStore` | the transaction of a screening run's `Complete` | `MCScreeningStore`, `ScreeningStoreProofs` |
| `TushareClient` | `Query` with limiter, retries and deadline | `MCTushareClient`, `TushareClientProofs` |
| `InitialSync` | `sync initial` with its provider and its two upserts | `MCInitialSync`, `InitialSyncProofs` |
| `VersionedTable` | abstract: batches applied whole, revisions that count changes | refined by `MarketStore` |
| `MarketStore` | the four `Upsert`s, concurrent transactions | `MCMarketStore`, `MarketStoreProofs` |
| `Decimal` | `types.Decimal`: parsing, normal form, `Fits`, comparison, product | through `PriceRow`, `PriceRowProofs` |
| `PriceRow` | a provider row with numbers: decoded, mapped, stored, read back | `MCPriceRow`, `PriceRowProofs` |
| `LeastNumber` | no code: a least and a greatest number and recursive functions exist, for the proofs | itself |

Every definition that stands for code is listed with its lines under "map" in
`PROJECT.json`. Operators whose comment begins with "Mutant:" are not part of
the specifications: they are faulty variants of the definition below them, used
to show that each property can fail.

### Migrator

State: `ledger` is `t_schema_migrations`, `owner` says of every table, column or
index whether it is absent, made by a migration, or made by somebody else,
`lock` is the `GET_LOCK` holder. A process has a program counter over the
statements of `withLock`, `Up` and `Down`, the map `states` it read (`seen`), the
version it works on and the index of the statement it executes. Migrations are
model values: name and checksum together are the identity of a `File`, and an
edited script is another file. `Binaries` are the migration lists that builds
carry. `UpOf` and `DownOf` give the objects a script creates and drops, in order;
objects are created and dropped idempotently, as all statements of
`0001.up.sql` to `0002.down.sql` are written; dropping a table takes its columns.

Actions: `Start`, `AcquireLock`, `LockTimeout`, `ReadLedger`
(`ensureMigrationTable`, `readMigrationStates`, `validateStoredStates` and the
choice of `Down`), `NextVersion` (the head of `Up`'s loop), `CheckAbsent` (one
query per table), `InsertState`, `MarkDirty`, `ExecStatement`, `ScriptDone`,
`MarkClean`, `DeleteState`, `ReleaseLock`; `Fault` (any statement fails, the
error leaves through the deferred release), `Crash` (the process dies anywhere
and MySQL ends its session) and `ForeignCreate` (another client creates a table).

Assumed of the scripts (`ScriptsAssumption`): a down script drops exactly what
its up script creates, a later migration does not create objects of an earlier
one. Both hold of the two migrations in `db/migrations`. `NoRow`, the absent row, is
neither a row nor a file (`ProcsAssumption`).

### RunStore

State: the table (`runs`), for each worker where its call stands and its
arguments, and two histories: who was told "created" per key, who got nil from
which move. `Kind` selects the repository: only a backtest's key is checked
against the hash of its inputs (`Accepted`), only a sync job counts attempts.
Each action is one SQL statement (`Insert`, `Lookup`, `Update`, `ReadStatus`) or
the return to the caller; `Lose` is the death of a worker or a lost answer, at
any point. SHA-256 is taken to be injective (`KeyOfAssumption`).

### ScreeningStore

State: committed status and rows, and per worker the list of results it passed
and the next one to insert. Locks are not variables: what an open transaction
holds follows from how far it is (`HoldsRow`, `HoldsRun`), and so does what a
statement waits for (`Blockers`). InnoDB's part is external and small: a wait
ends when the holder ends, a cycle of waits loses one member (1213), a long wait
fails (1205), the commit is one step whose answer may be lost. The codes are
finitely many (`CodesAssumption`), as a `VARCHAR(16)` makes them; without it
"one common order" could not be a ranking by numbers.

### TushareClient

Time is a counter; the mutex section of `rateLimiter.Wait` is one action
(`Reserve`), and the sleep outside it another. A goroutine may run any time after
what it waits for. The provider answers with success, a failure worth a retry, or
another failure, early, late or never; jitter is any value up to the backoff, which
is computed as the code does (`Doubled`, one turn of its loop) with durations that
wrap around like `time.Duration`; `BackoffExact` compares it with the closed form. The
context is checked where the code checks it: before the mutex, after every sleep,
and by `http.Client.Do`. `slots`, `sent` and `grants` are histories.

`RateHeld` has two parts. `SlotsApart` speaks of the distance of slots in the code's own
interval, which is a minute divided by the rate and rounded down. `MinuteHeld` speaks of
the rate: how many slots fall into a minute that may begin anywhere. That is the rate
itself if it divides the minute, and one more if it does not. For a rate n, the n + 1
rounded intervals between n + 2 slots last a minute at least if n(n - 1) is at most the
length of a minute (`Fine`); in nanoseconds that is every rate up to 244,949 per minute,
far above the 100 and 40 of `docs/04-tushare.md`.

### InitialSync

State: the provider's registry of stocks, the two tables, and one sync with what
it fetched so far. The registry may change between any two steps; a call or a
transaction may fail, and the process may die. Of a calendar row the day is kept and
not whether the market is open; of a stock the status, an identity (exchange, market,
listing date) and the delisting date, which a delisted stock must have. `Merge` and
`Conflicting` are `mergeInitialStock` on these: two identities, or two delisting dates,
are refused; one date that is missing is taken over from the other answer.

What is assumed of the provider's answers:

* `stock_basic` answers every stock of the status, or is cut at the row limit
  (`RowLimit`, 6000 in the code; `Answers`). The code refuses more rows than that, and
  an answer of exactly 6000 rows passes (`initial_provider.go:48`), although stocks may
  be missing from it. `StocksStored` therefore says nothing of a sync that took a cut
  answer (`cut`). An answer that is incomplete without having 6000 rows is not
  modelled: nothing in the code could see it.
* `trade_cal` answers, for one year of one exchange, lack at most one day or have at
  most one too many. This only bounds TLC's choices: several years make several wrong
  days, and what `CalendarWhole` rests on counts distinct days, however many are wrong.
* Rows that are malformed are refused (`FetchFails`).

`StocksAssumption` says that the two null values are none of the others.
`DaysAssumption` says what a calendar is: days are numbered in order, years follow
each other, and no year between two days is without a day: the provider's loop goes
from year to year, and a year without days would be an empty request.

### MarketStore

State: the committed rows, and per caller its list, the index of the next row and
the rows it has written but not committed. Values and hash of a row are one
`content`. Of InnoDB the model has what decides the outcome: a statement locks its
row until the transaction ends, and `ON DUPLICATE KEY UPDATE` reads the newest
committed row under that lock, not the snapshot in which the transaction began.
`revised` tells the tables with a revision from those without: one module stands for
the four functions, which have the same loop, checks and transaction. `UpsertRow` is one
statement, `RefuseRow` a failed validation, `Fault` any error, cancellation, death
or deadlock, `Commit` the only step that others see. The refinement of
`VersionedTable` is the statement that all of this equals applying whole batches
one after the other; there the revision is a closed form over the batch and not a
statement-by-statement count.

### Decimal and PriceRow

A decimal text is abstracted to what the parser tells apart: its digits as one
integer, the number of decimals and the exponent (`Literals`). `Parts` is
`decimalParts`, with the loop that drops zeros in closed form (`TrailingZeros`);
`Fits`, `Product` and `AtMost` are the methods of the same purpose. The code keeps a
Decimal as text and takes it apart again in every method; the model keeps the parts,
which `OwnTextReadsBack` shows to be the same. `Ten` and `DigitsOf` are recursive
functions. `PriceRow` follows one row through `Map` (with `Decode…` and all
checks), `Upsert` (with the repository's own checks, and MySQL's column, which
rounds and refuses) and `Read`. Its properties do not use `Parts` or `Fits`: they
compare with the literal's value times a power of ten.

`RowsAssumption` says that a row has the fields of its kind and each is a literal,
missing or no number. `ColumnsAssumption` asks of a column what MySQL asks of
`DECIMAL(p, s)`, and that the parser takes p digits with sign and point;
`ThousandAssumption` says that the factor between the provider's unit and yuan is a
power of ten and that an amount of p digits is still parsed after it was multiplied.
In the code the parser has 256 characters and digits, the columns (20,6), (24,4) and
(24,10), and the factor is 1000.

## 3. Runs

All runs use `tlc -workers 2` and check for deadlock.

| Run | Bounds | Shows |
|---|---|---|
| `migrate` (66,552 states) | 2 processes (both may run down), 2 migrations and an edited second one, builds `<f1>`, `<f1,f2>`, `<f1,f2edited>`; a table and a column per script | all safety properties, the refinement of `SchemaHistory`, and that every command ends and leaves the lock to others |
| `migrate_quiet` (20,472) | the same, no foreign table while the lock is held or a version is half done | foreign tables are never adopted or dropped |
| `migrate_foreign` (violation) | foreign tables at any time | the same promise fails: finding 1 |
| `run_life` (55,243) | sync jobs: 2 workers, 2 ids, 1 key, 3 outcomes | lifecycle, acknowledgements, attempts |
| `run_submit` (490,419) | backtests: 2 workers, 2 ids, 2 keys, 2 inputs | one creator per key, the right run is handed out |
| `run_screening` (violation) | screening runs, as above | the key of a screening run is not tied to its inputs: finding 2 |
| `screening` (11,620) | 2 workers, 1 run, 2 codes, lists that are empty, crossed, doubled or hold an invalid item | atomic publication, deadlock only for crossed lists, termination |
| `tushare` (475,687) | 2 queries, 2 APIs with 1 and 2 slots in a minute of 5 units, 2 for both together, 3 attempts, backoff from 2 to a cap of 3 with durations up to 3, a deadline of 6 and a clock of 6 units | rates, slots per minute, payment, exact backoff, no sends past the deadline, every call ends |
| `initial_sync` (4,210,874) | 2 stocks, 1 identity, 2 delisting dates, answers cut at 1 row, 3 days of 2 years, 1 change of the registry | stored data is complete and right |
| `initial_conflict` (violation) | 1 stock, 2 identities, 1 delisting date, 1 day | the error class of a conflict: finding 3 |
| `market` (165,885) | 3 callers, 2 keys, 2 contents, 6 batches, no call starts once a revision is 5 | types, one content per revision, whole batches one after the other |
| `bars` (61,638) | 30,228 rows: 13 literals for each price, 18 for a factor, the edges of amount and volume; columns (3,1), (5,1), (4,2), parser limits 10 characters, 7 digits, exponent 4 | accepted exactly, stored and read back exactly |

Why the bounds are enough. Two processes and two workers give every pairwise
interleaving; the code has no step in which more than two take part. Two migrations
give an older and a newest version, three builds an older, a newer and an
incompatible one. Two ids and two keys let either unique index collide alone. Three
days over a year's end make a first, a middle and a last day and two year chunks.
Two stocks are needed for an answer that is cut, since one row is the least limit;
otherwise stocks are handled one by one. Two delisting dates bring conflicts; those
of two identities, which the merge refuses in the same place, are the subject of
`initial_conflict`, and the theorems have any number of both. In `tushare` the
deadline equals the clock's last instant, so calls begin at time 0; their goroutines
run at any time after that, so attempts of both calls meet at the limiter in any
order. The clock is longer than a minute of 5 units, which the rate 2 does not
divide: three slots do fall into one minute there (at 0, 2 and 4). In `market` each
batch that is accepted whole has a fetch time of its own, so that a stored row tells
which batch wrote it, and three callers let two wait for one lock. In `bars` the
limits of the parser lie above what a column holds, as 256 digits lie above 24. The
theorems below hold without these bounds. The `RunStore` runs use symmetry of
workers and ids, `initial_sync` of stocks and dates, which their safety properties
respect; the others use none.

Bounds that only exist to make TLC finite: `Horizon` (the clock stops),
`MaxChanges` (changes of the registry) and `MaxRevision` (no call starts beyond
it). `Rest` in `TushareClient` and `MarketStore`, and `Done` in `PriceRow`, are the
end of a bounded behaviour, so that it is not reported as a deadlock.

### Fairness

* `Migrator`: `WF(Step(p) \/ Fault(p))` per process: a statement is answered, with
  success or an error, and the process goes on. `LockTimeout` is a step, as
  `GET_LOCK` has a limit of 30 seconds. Nothing is assumed of `Crash` or `Start`.
* `ScreeningStore`: `WF(Step(w))`, which includes the end of a lock wait:
  `innodb_lock_wait_timeout` bounds it.
* `TushareClient`: time passes and goroutines run. That the provider answers, or
  that a slot is ever won, is not assumed; the deadline alone ends a call.

### Findings

1. `migrate_foreign`: `ensureMigrationObjectsAbsent` checks before the version's
   row is inserted and never again. A table that another client creates after the
   check, or while a half-done version waits for its retry, is adopted by
   `CREATE TABLE IF NOT EXISTS` and dropped by the down script, although
   `0001.down.sql:1` promises to reverse "only objects created by 0001.up.sql".
2. `run_screening`: `docs/05-database.md:15` says that a screening run's key
   stands for version, date, configuration and snapshot; the repository stores any
   64 hex digits and hands out the old run for a reused key. The backtest
   repository recomputes the key.
3. `initial_conflict`: `docs/04-tushare.md:60` counts conflicting identity dates
   as incomplete data; the errors for the identity (`initial_market_sync.go:122`) and
   for the delisting date (line 125) carry no code and are reported as INTERNAL.

## 4. Proofs

The theorems hold for every value of the constants that satisfies the modules'
assumptions: any number of processes, builds, migrations, workers, ids, keys,
contents, batches, codes, days, years, callers and APIs, and any rates, backoffs,
deadlines and widths of a duration. Every invariant and every action property
that a passing run checks is a theorem, the types of six components included
(`TypeCorrect`, one step per action).

| Theorem | Property | Argument |
|---|---|---|
| `MigratorProofs!LedgerStaysStack` | `LedgerIsStack` | `LedgerInv` |
| `MigratorProofs!SnapshotStaysFresh` | `SnapshotFresh` | `LedgerInv` |
| `MigratorProofs!ReportsAreHonest` | `ResultHonest` | `LedgerInv` |
| `MigratorProofs!AppliedStaysComplete` | `AppliedComplete` | `LedgerInv` and `ScriptInv` |
| `MigratorProofs!NothingIsOrphaned` | `NoOrphans` | `LedgerInv` and `ScriptInv` |
| `MigratorProofs!ImplementsHistory` | `HistorySpec` | `LedgerInv`: a step that changes the ledger is a step of `SchemaHistory` |
| `MigratorProofs!ForeignStaysKept` | `ForeignKept`, if not `ForeignAnytime` | `QuietInv` on top of both |
| `RunStoreProofs!StartsOnce`, `AcksAreTrue`, `CreatesOnce`, `BacktestInputsMatch`, `AttemptsAreExact` | `StartedOnce`, `AckedTruth`, `CreatedOnce`, `InputsMatch` (backtests), `AttemptsExact` | an inductive invariant that adds what is true between a statement and the return of its call |
| `RunStoreProofs!RefusalsNotOlder` | `RefusalNotOlder` | the status of a run never goes back |
| `RunStoreProofs!ImplementsLifecycle` | `LifecycleSpec` | step refinement: each action is a step of `RunLifecycle` or a stutter |
| `MarketStoreProofs!RevisionsName` | `RevisionNames` | `RevisionInv` |
| `MarketStoreProofs!ImplementsVersionedTable` | `VersionedSpec` | `PrefixInv` and `RevisionInv`: a commit is an `Upsert` of the whole batch, every other step a stutter |
| `ScreeningStoreProofs!AcksStayTrue`, `PublishesWhole` | `AckedTruth`, `PublishWhole` | `StoreInv` |
| `ScreeningStoreProofs!ImplementsLifecycle` | `LifecycleSpec` | step refinement from `StoreInv` |
| `ScreeningStoreProofs!OneOrderNoCycle` | `NoWaitCycle` | the awaited code moves on along every wait |
| `InitialSyncProofs!CalendarStaysWhole`, `StillStocksAreStored`, `MergeFollowsPriority`, `HonestIsAccepted` | `CalendarWhole`, `StocksStored`, `MergedByPriority`, `HonestAccepted` | `SyncInv` |
| `TushareClientProofs!RateIsHeld`, `NothingIsReserved` | `RateHeld`, `NoReservationAhead` | `LimiterInv`, and counting the slots of a minute |
| `TushareClientProofs!AttemptsArePaid`, `SendsAreInTime` | `AttemptsPaid`, `SendsInTime` | `CallInv` |
| `TushareClientProofs!BackoffIsExact` | `BackoffExact` | the closed form of the recursive `Backoff` |
| `PriceRowProofs!AcceptsExactly`, `StoresExactly` | `AcceptedExactly`, `StoredExactly` | `RowInv`, and arithmetic about normal forms |
| `PriceRowProofs!FitsIsExact`, `OwnTextReadsBack` | (about operators) | `DigitsBound`, `PartsUnits`, `ReadBack` |

The properties of the migrator are not inductive. `LedgerIsStack` alone does not
say what a process that is about to insert a row knows. `LedgerInv` adds mutual
exclusion (a process between lock and release holds the lock) and, per process,
what the code has established at each point: the ledger it read fits its binary,
`seen` equals the ledger from the current version on (`FreshInv`), all versions
below are applied (`UpInv`), the version being undone is the newest one
(`DownInv`), and what a successful end means (`ResultInv`). `ScriptInv` adds how
far the script at work has come: objects of the statements already executed are
there (`UpProgress`) or gone (`DownProgress`). The mutual exclusion is what makes
the other processes' steps harmless; `MigrationsDisjoint` is what keeps the
script of one version from undoing the objects of another.

`RevisionNames` speaks of committed versions only, and a commit may add several at
once. `RevisionInv` adds that at most one transaction has written a row
(`Exclusive`), that its version follows the committed one (`MineInv`: a higher
revision, or the same one with the same content), and that the committed row
follows all its versions (`NamedInv`). `PutFollows` is the fact about the SQL
expression behind it. `MineInv` survives the commits of others because of
`Exclusive`: nobody else can change a row that is locked.

The refinement of `VersionedTable` needs the rows of an open transaction exactly.
`PrefixInv` says that they are the first `Count(w)` items of its list applied to the
rows committed now (`Applied`, in the closed form of `VersionedTable`: last content,
last time, and the old revision plus the number of changes), that all those items
were valid, and that a table without revisions has 1 everywhere (`FirstInv`).
`PutApplies` is the step of one more item, `AppliedIsRowAfter` the case of all items.
That the committed rows may be read at the commit, although the statements read them
earlier, is `Exclusive` again.

The refinement of `SchemaHistory` reads the ledger as a stack: `LedgerIsStack` leaves
two shapes, `Tidy` (versions 1 to n are applied) and `Broken` (one more is half done),
and in both the mapping of `Migrator`, with its CHOOSE of the dirty version, has a
plain value (`StackIsRead`). Each of the four statements on the ledger is then one
step of `SchemaHistory`; `UpInv` and `DownInv` say that its guards hold. The abstract
file `NoFile` is `NoRow`, hence the assumption that this is not the name of a migration.

`ForeignKept` needs to know what became of the answers of `CheckAbsent`. `QuietInv` says
that the tables asked for so far are absent while the process holds the lock
(`AbsentSoFar`), and that no table of a recorded version is foreign (`NotAdopted`),
which is what a down script relies on. The hypothesis `~ForeignAnytime` is the quiet
database of `migrate_quiet`; without it the property is false (finding 1).

`StoreInv` says what the two locks of a completion give: whoever has updated a run is
alone and finds it RUNNING until its commit (`RunLocked`, `RunInv`), a result is held
by one open transaction (`RowLocked`), and the inserted part of the list is valid and
without repetition (`CallInv`). For `NoWaitCycle`, a member of a circle waits for a row
that another member inserted, and that one waits for a later code of its own list: in
an order common to all lists the awaited codes grow without end, which a finite set
of codes does not allow. The circle may be of any length; TLC has two workers.

`SyncInv` joins the properties, of which several are needed to prove the others. The
heart of `CalendarWhole` is the code's own argument (`CoveredIsWhole`): distinct days
inside the range are counted, and if there are as many as the range has days, they are
all of them. `HonestInv` says which days an honest provider has answered after part of
the years, so the last year completes the range; `Still` follows a stock that did not
change through the three requests and the merge, as long as no answer was cut.

In `TushareClientProofs` every slot keeps `nextGlobal` and `nextApi` as far ahead as
the slots since then require (`Spaced`), which the next slot turns into the distance
that `SlotsApart` asks for; together with `NoReservationAhead` this is the limiter's two
sides, neither bursts nor idle reservations. `MinuteHeld` follows from `SlotsApart`:
the slots of a minute are spaced by the interval, so k of them end k - 1 intervals after
the first (`SpacingCounts`, by the last slot of the set), and `IntervalFacts` says that
a minute has no room for one more than the quota. `Backing` and `Paid` tie the attempts to
slots and requests at every point of `Query`; `InTime` says that `Tick` ends a context
before a late request can be sent. `Backoff` is a recursive function. That it exists,
and that it is a power of two cut to the cap, is proved by least counterexamples
(`LeastNumber`), since an induction theorem with an operator parameter cannot be used.

`RowInv` is short: every stage is a function of the row, and none is a dead end. The
work is in the arithmetic of `PriceRowProofs`, for numbers of any size. `DigitsBound`
says what counting digits means: at most k of them, if and only if the number is below
10^k. `PartsNormal` and `PartsUnits` say what dropping zeros does: the result is
`Normal` (no digit behind the point could be dropped) and has at most n decimals if and
only if the literal is a whole number of units 10^-n, and then it is the same number of
them. From these follow `FitsIsExact`; `ProductUnits` and `AmountParses` for the amount,
where the zeros that the factor 1000 adds may be dropped again and where the parser must
not refuse the product; `UnitsOrder` for `Cmp`; `NothingRounded` for MySQL; and
`ReadBack`: the text with a column's zeros has the parts that were written, because the
zeros above a normal form are exactly those that can be dropped. `MappableIff` collects
them for a row, `MappedAcceptable` says that the repository's checks refuse nothing the
mapping let through. That `Ten` and `DigitsOf` exist is `RecursionExists` of
`LeastNumber`.

The invariants were checked with TLC before they were proved: those of
`MigratorProofs` on `migrate`, `QuietInv` on `migrate_quiet`, the parts of
`RunStoreProofs`'s (`AckInv`, `StartInv`, `CreateInv`, `KeyInv`, `MoveInv`,
`SeenInv`) on `run_life` and `run_submit`, `StoreInv` on `screening`, `SyncInv` on
`initial_sync`, `ClientInv` on `tushare`, `RowInv` on `bars`.

Only model-checked:

* Liveness (`CommandEnds`, `CompleteEnds`, `QueryEnds`): it rests on fairness and
  ENABLED, which are out of the prover's reach.
* What the three violation runs show: they refute, so there is nothing to prove.

## 5. Not modelled

* The lexer `splitStatements` and the file-name rules of `LoadMigrations`: the
  migrator works on statements and contiguous versions.
* The rows inside tables: `0002.up.sql` fills `run_key` of old backtests.
* The payload of runs, error texts and their truncation.
* Redaction and logging of the client, HTTP details, the permission messages.
* `stock_basic`, `trade_cal` and `suspend_d` rows field by field: they have no
  numbers, and `InitialSync` has what it keeps of the first two.
* Dates and timestamps as texts; the ranges and the order of the list queries.
* Which of two overlapping syncs is newer: `Upsert` does not compare times, so the
  model promises whole batches in some order and nothing about that order.
* Spellings of one decimal: `e0`, `e+05` and a signed zero have the parts of the plain
  literal. They differ in length only, which matters near the limit of 256 characters.
* A decimal whose normalized text is longer than the parser's limit (hazard
  `decimal.go:22`): nothing reads such a text back yet.
* `ListedOn` (`market_data.go:22`), conversions to float64, the factor service and
  the protocol: pure functions or sequential code without state; the factor
  service's ports have no implementation.
* Leases for runs whose worker died: the documents mention them, the code has none.

## 6. Plan

The migrator came first (it guards all data and has the richest failure modes),
then runs, screening, client, sync, market tables and numbers. What is left of the
code is listed above. Next:

1. `splitStatements` over short sequences of tokens against a reference definition.
2. `FactorService` with its classification of errors, if an adapter appears.
