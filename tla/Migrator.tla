------------------------------- MODULE Migrator -------------------------------
(***************************************************************************)
(* The schema migration runner, internal/infrastructure/mysql/migrate.go,  *)
(* run by any number of `stockquant migrate up|down` processes against one *)
(* MySQL database.                                                         *)
(*                                                                         *)
(* A step of a process is one SQL statement (MySQL commits DDL at once) or *)
(* the local decision that follows it.  A process may fail or die between  *)
(* any two steps; an answer lost after a statement took effect is the      *)
(* statement's step followed by a fault.  Somebody else may create a table *)
(* that a migration is about to create.                                    *)
(*                                                                         *)
(* A migration is its file, which stands for its name, its checksum and    *)
(* its two scripts; different binaries carry different lists of them.  A   *)
(* script is the sequence of the objects its statements add or remove:     *)
(* CREATE TABLE IF NOT EXISTS and DROP TABLE IF EXISTS for a table, the    *)
(* guarded ALTER TABLE of 0002.*.sql for a column or an index.             *)
(***************************************************************************)
EXTENDS Naturals, Sequences, FiniteSets

CONSTANTS
  Procs,            \* processes that run a migrate command
  Developers,       \* those started with APP_ENV=development or test
  Files,            \* migrations
  Tables, Columns,  \* what scripts create: tables, and columns or indexes
  TableOf,          \* TableOf[o]: the table that holds o (o itself for a table)
  UpOf, DownOf,     \* UpOf[f], DownOf[f]: the objects a script adds, removes
  Binaries,         \* the migration lists programs were built with
  ForeignAnytime,   \* others create tables also while a migration is under way
  NoProc, NoRow     \* nobody holds the lock; the ledger has no row

Objects == Tables \union Columns
Elems(s) == {s[i] : i \in DOMAIN s}
Versions == UNION {DOMAIN b : b \in Binaries}

\* t_schema_migrations, without its primary key: file is name and checksum.
Row == [file : Files, dirty : BOOLEAN, direction : {"up", "down"}]
EmptyLedger == [v \in Versions |-> NoRow]

\* validate() and LoadMigrations accept what is numbered 1, 2, ... without a
\* gap, has both scripts and is not empty.
BinariesOK ==
  /\ Binaries # {}
  /\ Binaries \subseteq Seq(Files) \ {<< >>}

ScriptsOK ==
  /\ TableOf \in [Objects -> Tables]
  /\ \A t \in Tables : TableOf[t] = t
  /\ Tables \intersect Columns = {}
  /\ UpOf \in [Files -> Seq(Objects)]
  /\ DownOf \in [Files -> Seq(Objects)]
  /\ \A f \in Files : Elems(UpOf[f]) = Elems(DownOf[f])

\* A later migration neither creates an older one's object nor its table.
MigrationsDisjoint ==
  \A b \in Binaries : \A j \in DOMAIN b : \A i \in 1..(j - 1) :
    \A o \in Elems(UpOf[b[i]]) : /\ o \notin Elems(UpOf[b[j]])
                                 /\ TableOf[o] \notin Elems(UpOf[b[j]])

ASSUME BinariesAssumption == BinariesOK
ASSUME ScriptsAssumption == ScriptsOK /\ MigrationsDisjoint
ASSUME ProcsAssumption ==
  /\ NoProc \notin Procs /\ Developers \subseteq Procs
  /\ NoRow \notin Row /\ NoRow \notin Files /\ ForeignAnytime \in BOOLEAN

VARIABLES
  ledger,   \* t_schema_migrations: version -> Row or NoRow
  owner,    \* who created each object: nobody, a migration, or somebody else
  lock,     \* holder of the GET_LOCK advisory lock
  pc, cmd, bin,  \* per process: next statement; "up" or "down"; its binary
  seen,     \* per process: the `states` map it read from the ledger
  ver, at,  \* per process: the version it works on; the next statement's index
  ok        \* per process: the locked action returned nil

locals == <<pc, cmd, bin, seen, ver, at, ok>>
vars == <<ledger, owner, lock, locals>>

Locked == {"read", "next", "check", "insert", "mark", "exec", "finish", "unlock"}

TypeOK ==
  /\ ledger \in [Versions -> Row \union {NoRow}]
  /\ owner \in [Objects -> {"absent", "migrated", "foreign"}]
  /\ lock \in Procs \union {NoProc}
  /\ pc \in [Procs -> {"idle", "lock"} \union Locked]
  /\ cmd \in [Procs -> {"up", "down"}]
  /\ bin \in [Procs -> Binaries]
  /\ seen \in [Procs -> [Versions -> Row \union {NoRow}]]
  /\ ver \in [Procs -> Nat \ {0}]
  /\ at \in [Procs -> Nat \ {0}]
  /\ ok \in [Procs -> BOOLEAN]

Init ==
  /\ ledger = EmptyLedger
  /\ owner = [o \in Objects |-> "absent"]
  /\ lock = NoProc
  /\ pc = [p \in Procs |-> "idle"]
  /\ cmd = [p \in Procs |-> "up"]
  /\ bin \in [Procs -> Binaries]
  /\ seen = [p \in Procs |-> EmptyLedger]
  /\ ver = [p \in Procs |-> 1]
  /\ at = [p \in Procs |-> 1]
  /\ ok = [p \in Procs |-> FALSE]

------------------------------------------------------------------------------
(* Reading the ledger. *)

Recorded(states) == {v \in Versions : states[v] # NoRow}
Clean(row) == row # NoRow /\ ~row.dirty

\* validateStoredStates: no gap, and every row is a migration this binary has
\* (Up and Down compare the checksum once more, which can find nothing new).
StatesValid(states, b) ==
  /\ \A v \in Recorded(states) : \A u \in 1..v : states[u] # NoRow
  /\ \A v \in Recorded(states) : v <= Len(b) /\ states[v].file = b[v]

\* Down's search ends at the newest recorded version.
IsLatest(v, states) ==
  v \in Recorded(states) /\ \A u \in Recorded(states) : u <= v

File(p) == bin[p][ver[p]]
Script(p) == IF cmd[p] = "up" THEN UpOf[File(p)] ELSE DownOf[File(p)]

------------------------------------------------------------------------------
(* Steps of a process. *)

Goto(p, from, to) ==
  /\ pc[p] = from
  /\ pc' = [pc EXCEPT ![p] = to]

\* The command line: down is refused outside development and test.
Start(p, c, b) ==
  /\ c = "down" => p \in Developers
  /\ Goto(p, "idle", "lock")
  /\ cmd' = [cmd EXCEPT ![p] = c]
  /\ bin' = [bin EXCEPT ![p] = b]
  /\ UNCHANGED <<ledger, owner, lock, seen, ver, at, ok>>

\* Mutant: the answer of GET_LOCK is not looked at.
AcquireLockAnyway(p) ==
  /\ Goto(p, "lock", "read")
  /\ lock' = p
  /\ UNCHANGED <<ledger, owner, cmd, bin, seen, ver, at, ok>>

AcquireLock(p) ==
  /\ lock = NoProc
  /\ Goto(p, "lock", "read")
  /\ lock' = p
  /\ UNCHANGED <<ledger, owner, cmd, bin, seen, ver, at, ok>>

\* The process is gone or has reported its result; it may be started again.
Forget(p) ==
  /\ pc' = [pc EXCEPT ![p] = "idle"]
  /\ seen' = [seen EXCEPT ![p] = EmptyLedger]
  /\ ver' = [ver EXCEPT ![p] = 1]
  /\ at' = [at EXCEPT ![p] = 1]
  /\ ok' = [ok EXCEPT ![p] = FALSE]
  /\ UNCHANGED <<ledger, owner, cmd, bin>>

\* GET_LOCK answers 0 after 30 seconds.
LockTimeout(p) ==
  /\ pc[p] = "lock" /\ lock # NoProc
  /\ Forget(p)
  /\ UNCHANGED lock

\* Mutant: down also takes a version whose up was cut short.
UndoableAlways(row) == TRUE

\* Down accepts a clean version, or one whose rollback was cut short.
Undoable(row) == row.direction = IF row.dirty THEN "down" ELSE "up"

\* ensureMigrationTable, readMigrationStates, validateStoredStates, and for
\* down the choice of the version and the tests on its row.
ReadLedger(p) ==
  /\ pc[p] = "read"
  /\ seen' = [seen EXCEPT ![p] = ledger]
  /\ \/ /\ ~StatesValid(ledger, bin[p])
        /\ Goto(p, "read", "unlock")
        /\ UNCHANGED <<ver, ok>>
     \/ /\ StatesValid(ledger, bin[p]) /\ cmd[p] = "up"
        /\ Goto(p, "read", "next")
        /\ UNCHANGED <<ver, ok>>
     \/ /\ StatesValid(ledger, bin[p]) /\ cmd[p] = "down"
        /\ Recorded(ledger) = {}
        /\ Goto(p, "read", "unlock")
        /\ ok' = [ok EXCEPT ![p] = TRUE]
        /\ UNCHANGED ver
     \/ /\ StatesValid(ledger, bin[p]) /\ cmd[p] = "down"
        /\ \E v \in Versions :
             /\ IsLatest(v, ledger)
             /\ ver' = [ver EXCEPT ![p] = v]
             /\ Goto(p, "read", IF Undoable(ledger[v]) THEN "mark" ELSE "unlock")
        /\ UNCHANGED ok
  /\ UNCHANGED <<ledger, owner, lock, cmd, bin, at>>

\* Mutant: the dirty flag of a version recorded as going up is not looked at.
SkippableDirty(row) == row # NoRow /\ row.direction = "up"

\* Up passes over a version that is applied.
Skippable(row) == Clean(row) /\ row.direction = "up"

\* Mutant: the loop stops one version early.
AllVisitedEarly(p) == ver[p] >= Len(bin[p])

AllVisited(p) == ver[p] > Len(bin[p])

\* The head of Up's loop: return nil after the last version, begin one that is
\* not recorded, skip an applied one, refuse a dirty down, resume a dirty up.
NextVersion(p) ==
  /\ pc[p] = "next"
  /\ IF AllVisited(p)
     THEN /\ Goto(p, "next", "unlock")
          /\ ok' = [ok EXCEPT ![p] = TRUE]
          /\ UNCHANGED ver
     ELSE LET row == seen[p][ver[p]] IN
          /\ UNCHANGED ok
          /\ \/ /\ row = NoRow
                /\ Goto(p, "next", "check")
                /\ UNCHANGED ver
             \/ /\ Skippable(row)
                /\ ver' = [ver EXCEPT ![p] = @ + 1]
                /\ UNCHANGED pc
             \/ /\ row # NoRow /\ row.direction # "up"
                /\ Goto(p, "next", "unlock")
                /\ UNCHANGED ver
             \/ /\ row # NoRow /\ row.direction = "up" /\ ~Skippable(row)
                /\ Goto(p, "next", "mark")
                /\ UNCHANGED ver
  /\ UNCHANGED <<ledger, owner, lock, cmd, bin, seen, at>>

\* Mutant: only tables of a migration count as taken.
TakenByUs(o) == o \in Tables /\ owner[o] = "migrated"

\* A table of that name is already there.
Taken(o) == o \in Tables /\ owner[o] # "absent"

\* ensureMigrationObjectsAbsent asks information_schema for one table at a time.
CheckAbsent(p) ==
  /\ pc[p] = "check"
  /\ IF at[p] > Len(UpOf[File(p)])
     THEN /\ Goto(p, "check", "insert")
          /\ at' = [at EXCEPT ![p] = 1]
     ELSE LET o == UpOf[File(p)][at[p]] IN
          \/ /\ Taken(o)
             /\ Goto(p, "check", "unlock")
             /\ UNCHANGED at
          \/ /\ ~Taken(o)
             /\ at' = [at EXCEPT ![p] = @ + 1]
             /\ UNCHANGED pc
  /\ UNCHANGED <<ledger, owner, lock, cmd, bin, seen, ver, ok>>

\* Mutant: the row is not written before the script runs.
InsertNothing(p) ==
  /\ Goto(p, "insert", "mark")
  /\ UNCHANGED <<ledger, owner, lock, cmd, bin, seen, ver, at, ok>>

\* The INSERT fails on a version that is already there.
InsertState(p) ==
  /\ Goto(p, "insert", "mark")
  /\ ledger[ver[p]] = NoRow
  /\ ledger' = [ledger EXCEPT ![ver[p]] =
                  [file |-> File(p), dirty |-> TRUE, direction |-> "up"]]
  /\ UNCHANGED <<owner, lock, cmd, bin, seen, ver, at, ok>>

\* Mutant: the row is replaced by one without name and checksum.
ReplaceRow(v, d, dir) ==
  ledger' = [ledger EXCEPT ![v] = [dirty |-> d, direction |-> dir]]

\* UPDATE ... WHERE version = ?: no row, no change.
UpdateRow(v, d, dir) ==
  ledger' = IF ledger[v] = NoRow THEN ledger
            ELSE [ledger EXCEPT ![v].dirty = d, ![v].direction = dir]

MarkDirty(p) ==
  /\ Goto(p, "mark", "exec")
  /\ UpdateRow(ver[p], TRUE, cmd[p])
  /\ UNCHANGED <<owner, lock, cmd, bin, seen, ver, at, ok>>

\* CREATE TABLE IF NOT EXISTS, or ALTER TABLE ADD unless it is there already.
Add(o) ==
  /\ o \in Tables \/ owner[TableOf[o]] # "absent"
  /\ owner' = [owner EXCEPT ![o] = IF @ = "absent" THEN "migrated" ELSE @]

\* DROP TABLE IF EXISTS takes the table's columns with it.
Remove(o) ==
  owner' = [x \in Objects |->
              IF x = o \/ TableOf[x] = o THEN "absent" ELSE owner[x]]

\* executeSQL: one statement of the script.
ExecStatement(p) ==
  /\ pc[p] = "exec" /\ at[p] <= Len(Script(p))
  /\ IF cmd[p] = "up" THEN Add(Script(p)[at[p]]) ELSE Remove(Script(p)[at[p]])
  /\ at' = [at EXCEPT ![p] = @ + 1]
  /\ UNCHANGED <<ledger, lock, pc, cmd, bin, seen, ver, ok>>

\* Mutant: the last statement of the script is left out.
ScriptDoneEarly(p) ==
  /\ Goto(p, "exec", "finish")
  /\ at[p] >= Len(Script(p))
  /\ at' = [at EXCEPT ![p] = 1]
  /\ UNCHANGED <<ledger, owner, lock, cmd, bin, seen, ver, ok>>

ScriptDone(p) ==
  /\ Goto(p, "exec", "finish")
  /\ at[p] > Len(Script(p))
  /\ at' = [at EXCEPT ![p] = 1]
  /\ UNCHANGED <<ledger, owner, lock, cmd, bin, seen, ver, ok>>

\* markMigrationClean, the note of it in `states`, and the loop's increment.
MarkClean(p) ==
  /\ cmd[p] = "up"
  /\ Goto(p, "finish", "next")
  /\ UpdateRow(ver[p], FALSE, "up")
  /\ seen' = [seen EXCEPT ![p][ver[p]] =
                [file |-> File(p), dirty |-> FALSE, direction |-> "up"]]
  /\ ver' = [ver EXCEPT ![p] = @ + 1]
  /\ UNCHANGED <<owner, lock, cmd, bin, at, ok>>

DeleteState(p) ==
  /\ cmd[p] = "down"
  /\ Goto(p, "finish", "unlock")
  /\ ledger' = [ledger EXCEPT ![ver[p]] = NoRow]
  /\ ok' = [ok EXCEPT ![p] = TRUE]
  /\ UNCHANGED <<owner, lock, cmd, bin, seen, ver, at>>

\* withLock's deferred RELEASE_LOCK; the command reports its result.
ReleaseLock(p) ==
  /\ pc[p] = "unlock"
  /\ lock' = NoProc
  /\ Forget(p)

\* Mutant: the error path does not release the lock.
FaultKeepsLock(p) ==
  /\ pc[p] \in Locked \ {"next", "unlock"}
  /\ Forget(p)
  /\ UNCHANGED lock

\* A statement fails; the error returns through the deferred RELEASE_LOCK.
Fault(p) ==
  /\ pc[p] \in Locked \ {"next", "unlock"}
  /\ pc' = [pc EXCEPT ![p] = "unlock"]
  /\ ok' = [ok EXCEPT ![p] = FALSE]
  /\ UNCHANGED <<ledger, owner, lock, cmd, bin, seen, ver, at>>

\* The process dies, or its context ends and the driver closes the connection:
\* MySQL ends the session and with it the advisory lock.
Crash(p) ==
  /\ pc[p] # "idle"
  /\ lock' = IF lock = p THEN NoProc ELSE lock
  /\ Forget(p)

Dirty == \E v \in Recorded(ledger) : ledger[v].dirty

\* Somebody creates a table under a name that a migration also uses.
ForeignCreate(t) ==
  /\ ForeignAnytime \/ (lock = NoProc /\ ~Dirty)
  /\ owner[t] = "absent"
  /\ owner' = [owner EXCEPT ![t] = "foreign"]
  /\ UNCHANGED <<ledger, lock, locals>>

Step(p) ==
  \/ AcquireLock(p) \/ LockTimeout(p) \/ ReadLedger(p)
  \/ NextVersion(p) \/ CheckAbsent(p) \/ InsertState(p)
  \/ MarkDirty(p) \/ ExecStatement(p) \/ ScriptDone(p)
  \/ MarkClean(p) \/ DeleteState(p) \/ ReleaseLock(p)

Next ==
  \/ \E p \in Procs :
       \/ \E c \in {"up", "down"}, b \in Binaries : Start(p, c, b)
       \/ Step(p)
       \/ Fault(p)
       \/ Crash(p)
  \/ \E t \in Tables : ForeignCreate(t)

Spec == Init /\ [][Next]_vars

\* Statements are answered and a process that is alive goes on.
FairSpec == Spec /\ \A p \in Procs : WF_vars(Step(p) \/ Fault(p))

------------------------------------------------------------------------------
(* Properties. *)

\* The recorded versions have no gap and only the newest one can be half done
\* or on its way down: a second process, a crash or a retry never starts a
\* version on top of an unfinished one (Up, Down, validateStoredStates).
LedgerIsStack ==
  \A v \in Recorded(ledger) : \A u \in 1..(v - 1) :
    Clean(ledger[u]) /\ ledger[u].direction = "up"

\* A version recorded as applied has everything its script creates, however
\* many attempts, crashes and partial rollbacks came before (executeSQL before
\* markMigrationClean; DDL commits at once).
AppliedComplete ==
  \A v \in Recorded(ledger) : Clean(ledger[v]) =>
    \A o \in Elems(UpOf[ledger[v].file]) : owner[o] # "absent"

\* Nothing a migration created outlives its ledger row: what a dead process
\* left behind is always under a row that a retry can resume (the row is
\* inserted before the first statement and deleted after the last).
NoOrphans ==
  \A o \in Objects : owner[o] = "migrated" =>
    \E v \in Recorded(ledger) : o \in Elems(UpOf[ledger[v].file])

\* The map `states`, read once, is still what the ledger holds whenever Up
\* decides by it about a version it has not reached, or inserts a row.
SnapshotFresh ==
  \A p \in Procs : pc[p] \in {"next", "check", "insert"} =>
    \A v \in Versions : v >= ver[p] => seen[p][v] = ledger[v]

\* "migration up complete" is reported only when every version of the binary
\* is applied, "migration down complete" only when the newest version read
\* from the ledger is gone and the versions below it are as they were.
ResultHonest ==
  [][\A p \in Procs : pc[p] = "unlock" /\ ok[p] =>
       IF cmd[p] = "up"
       THEN \A v \in DOMAIN bin[p] :
              Clean(ledger[v]) /\ ledger[v].file = bin[p][v]
       ELSE \A v \in Versions :
              ledger[v] = IF v = ver[p] THEN NoRow ELSE seen[p][v]]_vars

\* No migration takes over or drops a table that somebody else created
\* (ensureMigrationObjectsAbsent; docs/05-database.md, "Migration execution").
ForeignKept ==
  [][\A t \in Tables : owner[t] = "foreign" => owner'[t] = "foreign"]_vars

\* Every command ends, also one that waits for the lock, and leaves the lock to
\* others, on every error path and after a crash (the 30 seconds of GET_LOCK and
\* the deferred RELEASE_LOCK of withLock).
CommandEnds ==
  \A p \in Procs :
    (pc[p] # "idle" \/ lock = p) ~> (pc[p] = "idle" /\ lock # p)

\* The ledger implements SchemaHistory.
DirtyVersion == CHOOSE v \in Recorded(ledger) : ledger[v].dirty
CleanVersions == {v \in Recorded(ledger) : Clean(ledger[v])}
History == INSTANCE SchemaHistory WITH
  applied  <- [v \in CleanVersions |-> ledger[v].file],
  changing <- IF Dirty THEN ledger[DirtyVersion].file ELSE NoRow,
  undoing  <- Dirty /\ ledger[DirtyVersion].direction = "down",
  NoFile   <- NoRow
HistorySpec == History!Spec
==============================================================================
