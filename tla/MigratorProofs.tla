---------------------------- MODULE MigratorProofs ----------------------------
(***************************************************************************)
(* Proofs about Migrator for any number of processes, binaries and         *)
(* migrations.                                                             *)
(*                                                                         *)
(* Only the holder of the advisory lock is past "lock" (Mutex), so what a  *)
(* process read stays true while it works; LedgerInv says what that is: up *)
(* has the versions below its own applied and everything above as it read  *)
(* it, down works on the newest one.  The stack shape of the ledger and    *)
(* honest results follow.                                                  *)
(***************************************************************************)
EXTENDS Migrator, SequenceTheorems, TLAPS

\* Whoever works on the ledger holds the lock.
Mutex == \A p \in Procs : pc[p] \in Locked => lock = p

Applied(row, f) ==
  row # NoRow /\ row.file = f /\ row.dirty = FALSE /\ row.direction = "up"
HalfDone(row, f, d) ==
  row # NoRow /\ row.file = f /\ row.dirty = TRUE /\ row.direction = d

\* Before it has read the ledger a process is as Forget left it.
FreshInv(p) ==
  /\ pc[p] \in {"idle", "lock", "read"} => ver[p] = 1 /\ at[p] = 1
  /\ ok[p] => pc[p] = "unlock"

\* Up, from reading the ledger to releasing the lock.
UpInv(p) ==
  pc[p] \in {"next", "check", "insert"}
    \/ (cmd[p] = "up" /\ pc[p] \in {"mark", "exec", "finish"}) =>
    /\ cmd[p] = "up"
    /\ ver[p] <= Len(bin[p]) \/ (pc[p] = "next" /\ ver[p] = Len(bin[p]) + 1)
    /\ \A u \in 1..(ver[p] - 1) : Applied(ledger[u], bin[p][u])
    /\ \A v \in Recorded(ledger) : v <= Len(bin[p]) /\ ledger[v].file = bin[p][v]
    /\ \A v \in Versions : v > ver[p] => seen[p][v] = ledger[v]
    /\ pc[p] = "next" => \A v \in Versions : v = ver[p] => seen[p][v] = ledger[v]
    /\ pc[p] \in {"check", "insert"} =>
         ledger[ver[p]] = NoRow /\ seen[p][ver[p]] = NoRow
    /\ pc[p] \in {"mark", "exec", "finish"} =>
         HalfDone(ledger[ver[p]], File(p), "up")

\* Down, from the choice of the version to the deletion of its row.
DownInv(p) ==
  cmd[p] = "down" /\ pc[p] \in {"mark", "exec", "finish"} =>
    /\ ver[p] \in DOMAIN bin[p] /\ IsLatest(ver[p], ledger)
    /\ ledger[ver[p]].file = File(p)
    /\ \A u \in 1..(ver[p] - 1) : Applied(ledger[u], bin[p][u])
    /\ \A v \in Versions : v # ver[p] => seen[p][v] = ledger[v]
    /\ pc[p] = "mark" => Undoable(ledger[ver[p]])
    /\ pc[p] # "mark" => HalfDone(ledger[ver[p]], File(p), "down")

\* What a command that is about to report success has achieved.
ResultInv(p) ==
  ok[p] =>
    IF cmd[p] = "up"
    THEN \A v \in DOMAIN bin[p] : Clean(ledger[v]) /\ ledger[v].file = bin[p][v]
    ELSE \A v \in Versions :
           ledger[v] = IF v = ver[p] THEN NoRow ELSE seen[p][v]

\* How far the script has come: `at` counts only in a loop, up leaves nothing
\* behind it missing and down leaves nothing behind it that a migration made.
UpProgress(p) ==
  cmd[p] = "up" /\ pc[p] \in {"exec", "finish"} =>
    \A i \in DOMAIN UpOf[File(p)] :
      i < at[p] \/ pc[p] = "finish" => owner[UpOf[File(p)][i]] # "absent"
DownProgress(p) ==
  cmd[p] = "down" /\ pc[p] \in {"exec", "finish"} =>
    \A i \in DOMAIN DownOf[File(p)] :
      i < at[p] \/ pc[p] = "finish" => owner[DownOf[File(p)][i]] # "migrated"
ProgressInv(p) ==
  /\ pc[p] \notin {"check", "exec", "unlock"} => at[p] = 1
  /\ UpProgress(p) /\ DownProgress(p)

LocalInv(p) == FreshInv(p) /\ UpInv(p) /\ DownInv(p) /\ ResultInv(p)
LedgerInv == Mutex /\ LedgerIsStack /\ \A p \in Procs : LocalInv(p)
ScriptInv == NoOrphans /\ AppliedComplete /\ \A p \in Procs : ProgressInv(p)

------------------------------------------------------------------------------
(* Facts about one process and its version. *)

LEMMA BinaryFacts ==
  ASSUME TypeOK, NEW p \in Procs
  PROVE  /\ bin[p] \in Seq(Files) /\ Len(bin[p]) \in Nat
         /\ DOMAIN bin[p] = 1..Len(bin[p])
         /\ DOMAIN bin[p] \subseteq Versions
         /\ \A v \in DOMAIN bin[p] : bin[p][v] \in Files
         /\ Versions \subseteq Nat \ {0}
         /\ ver[p] \in Nat \ {0} /\ at[p] \in Nat \ {0}
<1>1. bin[p] \in Binaries /\ bin[p] \in Seq(Files)
  BY BinariesAssumption DEF TypeOK, BinariesOK
<1>2. \A b \in Binaries : b \in Seq(Files)
  BY BinariesAssumption DEF BinariesOK
<1>3. Versions \subseteq Nat \ {0}
  BY <1>2 DEF Versions
<1> QED
  BY <1>1, <1>3 DEF Versions, TypeOK

\* A process that works on a version works on one of its own.
LEMMA WorkingVersion ==
  ASSUME TypeOK, NEW p \in Procs, LocalInv(p),
         pc[p] \in {"check", "insert", "mark", "exec", "finish"}
  PROVE  /\ ver[p] \in DOMAIN bin[p] /\ ver[p] \in Versions
         /\ File(p) \in Files
<1>1. ver[p] \in DOMAIN bin[p]
  BY BinaryFacts DEF LocalInv, UpInv, DownInv, TypeOK
<1> QED
  BY <1>1, BinaryFacts DEF File

LEMMA UpdateRowEffect ==
  ASSUME TypeOK, NEW v \in Versions, ledger[v] # NoRow,
         NEW d \in BOOLEAN, NEW dir \in {"up", "down"}, UpdateRow(v, d, dir)
  PROVE  \E r \in Row : /\ ledger' = [ledger EXCEPT ![v] = r]
                        /\ r.file = ledger[v].file
                        /\ r.dirty = d /\ r.direction = dir
<1>1. ledger[v] \in Row
  BY DEF TypeOK
<1> DEFINE r == [ledger[v] EXCEPT !.dirty = d, !.direction = dir]
<1>2. r \in Row /\ r.file = ledger[v].file /\ r.dirty = d /\ r.direction = dir
  BY <1>1 DEF Row
<1>3. ledger' = [ledger EXCEPT ![v] = r]
  BY DEF UpdateRow
<1> QED
  BY <1>2, <1>3

------------------------------------------------------------------------------
(* Types. *)

LEMMA TypeOK_Init == Init => TypeOK
  BY DEF Init, TypeOK, EmptyLedger

LEMMA GotoType ==
  ASSUME TypeOK, NEW p \in Procs, NEW from, NEW to \in Locked, Goto(p, from, to)
  PROVE  pc' \in [Procs -> {"idle", "lock"} \union Locked]
BY DEF Goto, TypeOK

LEMMA TypeOK_Next == TypeOK /\ LedgerInv /\ [Next]_vars => TypeOK'
<1> SUFFICES ASSUME TypeOK, LedgerInv, [Next]_vars PROVE TypeOK'
  OBVIOUS
<1>a. \A p \in Procs : LocalInv(p)
  BY DEF LedgerInv
<1>b. ASSUME NEW p \in Procs, Forget(p), lock' \in Procs \union {NoProc}
      PROVE  TypeOK'
  BY <1>b DEF TypeOK, Forget, EmptyLedger
<1>c. /\ "next" \in Locked /\ "check" \in Locked /\ "mark" \in Locked
      /\ "insert" \in Locked /\ "unlock" \in Locked
  BY DEF Locked
<1> USE DEF TypeOK
<1>1. ASSUME NEW p \in Procs, NEW c \in {"up", "down"}, NEW b \in Binaries,
             Start(p, c, b)
      PROVE  TypeOK'
  BY <1>1 DEF Start, Goto
<1>2. ASSUME NEW p \in Procs, AcquireLock(p) PROVE TypeOK'
  BY <1>2 DEF AcquireLock, Goto, Locked
<1>3. ASSUME NEW p \in Procs, LockTimeout(p) \/ ReleaseLock(p) \/ Crash(p)
      PROVE  TypeOK'
  BY <1>3, <1>b DEF LockTimeout, ReleaseLock, Crash
<1>4. ASSUME NEW p \in Procs, ReadLedger(p) PROVE TypeOK'
  <2>1. ver' \in [Procs -> Nat \ {0}]
    BY <1>4, BinaryFacts DEF ReadLedger
  <2>2. pc' \in [Procs -> {"idle", "lock"} \union Locked]
    <3>1. pc' = pc \/ \E to \in Locked : Goto(p, pc[p], to)
      BY <1>4, <1>c DEF ReadLedger, Goto
    <3> QED
      BY <3>1, GotoType
  <2> QED
    BY <1>4, <2>1, <2>2 DEF ReadLedger
<1>5. ASSUME NEW p \in Procs, NextVersion(p) PROVE TypeOK'
  <2>1. pc' \in [Procs -> {"idle", "lock"} \union Locked]
    <3>1. pc' = pc \/ \E to \in Locked : Goto(p, pc[p], to)
      BY <1>5, <1>c DEF NextVersion, Goto
    <3> QED
      BY <3>1, GotoType
  <2>2. ver' \in [Procs -> Nat \ {0}]
    BY <1>5 DEF NextVersion
  <2>3. ok' \in [Procs -> BOOLEAN]
    BY <1>5 DEF NextVersion
  <2> QED
    BY <1>5, <2>1, <2>2, <2>3 DEF NextVersion
<1>6. ASSUME NEW p \in Procs, CheckAbsent(p) PROVE TypeOK'
  <2>1. pc' \in [Procs -> {"idle", "lock"} \union Locked]
    <3>1. pc' = pc \/ \E to \in Locked : Goto(p, pc[p], to)
      BY <1>6, <1>c DEF CheckAbsent, Goto
    <3> QED
      BY <3>1, GotoType
  <2>2. at' \in [Procs -> Nat \ {0}]
    BY <1>6 DEF CheckAbsent
  <2> QED
    BY <1>6, <2>1, <2>2 DEF CheckAbsent
<1>7. ASSUME NEW p \in Procs, InsertState(p) PROVE TypeOK'
  <2>1. [file |-> File(p), dirty |-> TRUE, direction |-> "up"] \in Row
    BY <1>7, <1>a, WorkingVersion DEF InsertState, Goto, Row
  <2> QED
    BY <1>7, <2>1 DEF InsertState, Goto, Locked
<1>8. ASSUME NEW p \in Procs, MarkDirty(p) \/ MarkClean(p)
      PROVE  ledger' \in [Versions -> Row \union {NoRow}]
  <2>1. ver[p] \in Versions
    BY <1>8, <1>a, WorkingVersion DEF MarkDirty, MarkClean, Goto
  <2>2. \E d \in BOOLEAN, dir \in {"up", "down"} : UpdateRow(ver[p], d, dir)
    BY <1>8 DEF MarkDirty, MarkClean
  <2>3. CASE ledger[ver[p]] = NoRow
    BY <2>2, <2>3 DEF UpdateRow
  <2>4. CASE ledger[ver[p]] # NoRow
    BY <2>1, <2>2, <2>4, UpdateRowEffect
  <2> QED
    BY <2>3, <2>4
<1>9. ASSUME NEW p \in Procs, MarkDirty(p) PROVE TypeOK'
  BY <1>8, <1>9 DEF MarkDirty, Goto, Locked
<1>10. ASSUME NEW p \in Procs, ExecStatement(p) PROVE TypeOK'
  <2>1. owner' \in [Objects -> {"absent", "migrated", "foreign"}]
    <3>1. ASSUME NEW o, Add(o) PROVE owner' \in [Objects -> {"absent", "migrated", "foreign"}]
      BY <3>1 DEF Add
    <3>2. ASSUME NEW o, Remove(o) PROVE owner' \in [Objects -> {"absent", "migrated", "foreign"}]
      BY <3>2 DEF Remove
    <3> QED
      BY <1>10, <3>1, <3>2 DEF ExecStatement
  <2> QED
    BY <1>10, <2>1 DEF ExecStatement
<1>11. ASSUME NEW p \in Procs, ScriptDone(p) PROVE TypeOK'
  BY <1>11 DEF ScriptDone, Goto, Locked
<1>12. ASSUME NEW p \in Procs, MarkClean(p) PROVE TypeOK'
  <2>1. [file |-> File(p), dirty |-> FALSE, direction |-> "up"] \in Row
    BY <1>12, <1>a, WorkingVersion DEF MarkClean, Goto, Row
  <2>2. seen' \in [Procs -> [Versions -> Row \union {NoRow}]]
    <3> DEFINE r == [file |-> File(p), dirty |-> FALSE, direction |-> "up"]
    <3>1. seen' = [seen EXCEPT ![p] = [seen[p] EXCEPT ![ver[p]] = r]]
      BY <1>12 DEF MarkClean
    <3>2. r \in Row
      BY <2>1
    <3>3. [seen[p] EXCEPT ![ver[p]] = r] \in [Versions -> Row \union {NoRow}]
      BY <3>2
    <3> QED
      BY <3>1, <3>3
  <2>3. pc' \in [Procs -> {"idle", "lock"} \union Locked]
    BY <1>12 DEF MarkClean, Goto, Locked
  <2>4. ver' \in [Procs -> Nat \ {0}]
    BY <1>12 DEF MarkClean
  <2> QED
    BY <1>8, <1>12, <2>2, <2>3, <2>4 DEF MarkClean
<1>13. ASSUME NEW p \in Procs, DeleteState(p) PROVE TypeOK'
  BY <1>13 DEF DeleteState, Goto, Locked
<1>14. ASSUME NEW p \in Procs, Fault(p) PROVE TypeOK'
  BY <1>14 DEF Fault, Locked
<1>15. ASSUME NEW t \in Tables, ForeignCreate(t) PROVE TypeOK'
  BY <1>15 DEF ForeignCreate, locals, Objects
<1>16. CASE UNCHANGED vars
  BY <1>16 DEF vars, locals
<1> QED
  BY <1>1, <1>2, <1>3, <1>4, <1>5, <1>6, <1>7, <1>9, <1>10, <1>11, <1>12, <1>13,
     <1>14, <1>15, <1>16 DEF Next, Step

------------------------------------------------------------------------------
(* Mutual exclusion. *)

LEMMA Mutex_Next == TypeOK /\ Mutex /\ [Next]_vars => Mutex'
<1> SUFFICES ASSUME TypeOK, Mutex, [Next]_vars, NEW q \in Procs, pc'[q] \in Locked
             PROVE  lock' = q
  BY DEF Mutex
<1> USE DEF TypeOK, Mutex, Locked
<1>1. ASSUME NEW p \in Procs, NEW c \in {"up", "down"}, NEW b \in Binaries,
             Start(p, c, b)
      PROVE  lock' = q
  BY <1>1 DEF Start, Goto
<1>2. ASSUME NEW p \in Procs, AcquireLock(p) PROVE lock' = q
  BY <1>2, ProcsAssumption DEF AcquireLock, Goto
<1>3. ASSUME NEW p \in Procs, LockTimeout(p) \/ ReleaseLock(p) \/ Crash(p)
      PROVE  lock' = q
  BY <1>3 DEF LockTimeout, ReleaseLock, Crash, Forget
<1>4. ASSUME NEW p \in Procs, ReadLedger(p) PROVE lock' = q
  BY <1>4 DEF ReadLedger, Goto
<1>5. ASSUME NEW p \in Procs, NextVersion(p) PROVE lock' = q
  BY <1>5 DEF NextVersion, Goto
<1>6. ASSUME NEW p \in Procs, CheckAbsent(p) PROVE lock' = q
  BY <1>6 DEF CheckAbsent, Goto
<1>7. ASSUME NEW p \in Procs,
             InsertState(p) \/ MarkDirty(p) \/ ScriptDone(p) \/ DeleteState(p)
      PROVE  lock' = q
  BY <1>7 DEF InsertState, MarkDirty, ScriptDone, DeleteState, Goto
<1>8. ASSUME NEW p \in Procs, MarkClean(p) PROVE lock' = q
  BY <1>8 DEF MarkClean, Goto
<1>9. ASSUME NEW p \in Procs, ExecStatement(p) PROVE lock' = q
  BY <1>9 DEF ExecStatement
<1>10. ASSUME NEW p \in Procs, Fault(p) PROVE lock' = q
  BY <1>10 DEF Fault
<1>11. ASSUME NEW t \in Tables, ForeignCreate(t) PROVE lock' = q
  BY <1>11 DEF ForeignCreate, locals
<1>12. CASE UNCHANGED vars
  BY <1>12 DEF vars, locals
<1> QED
  BY <1>1, <1>2, <1>3, <1>4, <1>5, <1>6, <1>7, <1>8, <1>9, <1>10, <1>11, <1>12
  DEF Next, Step

------------------------------------------------------------------------------
(* The stack of the ledger. *)

\* One statement writes or deletes the row w; the shape is kept if nobody is
\* above w afterwards or w is clean, and if what is below a new w is applied.
LEMMA StackKept ==
  ASSUME TypeOK, LedgerIsStack, NEW w \in Versions, NEW r \in Row \union {NoRow},
         ledger' = [ledger EXCEPT ![w] = r],
         \/ Clean(r) /\ r.direction = "up"
         \/ \A v \in Recorded(ledger) : v <= w,
         r # NoRow => \A u \in 1..(w - 1) :
                        Clean(ledger[u]) /\ ledger[u].direction = "up"
  PROVE  LedgerIsStack'
<1> SUFFICES ASSUME NEW v \in Versions, ledger'[v] # NoRow, NEW u \in 1..(v - 1)
             PROVE  Clean(ledger'[u]) /\ ledger'[u].direction = "up"
  BY DEF LedgerIsStack, Recorded
<1>0. Versions \subseteq Nat \ {0}
  BY BinariesAssumption DEF BinariesOK, Versions
<1>1. CASE u = w
  <2>1. v # w /\ v > w /\ v \in Recorded(ledger)
    BY <1>0, <1>1 DEF TypeOK, Recorded
  <2> QED
    BY <1>0, <1>1, <2>1 DEF TypeOK
<1>2. CASE u # w
  <2>1. ledger'[u] = ledger[u]
    BY <1>2 DEF TypeOK
  <2>2. CASE v = w
    BY <2>1, <2>2 DEF TypeOK
  <2>3. CASE v # w
    BY <2>1, <2>3 DEF TypeOK, LedgerIsStack, Recorded
  <2> QED
    BY <2>2, <2>3
<1> QED
  BY <1>1, <1>2

\* Nobody is above the version a process is changing.
LEMMA NobodyAbove ==
  ASSUME TypeOK, LedgerInv, NEW p \in Procs, pc[p] \in {"insert", "mark", "exec", "finish"}
  PROVE  \A v \in Recorded(ledger) : v <= ver[p]
<1> SUFFICES ASSUME NEW v \in Recorded(ledger), v > ver[p] PROVE FALSE
  BY BinaryFacts DEF Recorded
<1>0. LocalInv(p) /\ LedgerIsStack
  BY DEF LedgerInv
<1>1. ver[p] \in 1..(v - 1) /\ v \in Nat
  BY BinaryFacts DEF Recorded
<1>2. Clean(ledger[ver[p]])
  BY <1>0, <1>1 DEF LedgerIsStack
<1>3. CASE pc[p] = "insert"
  BY <1>0, <1>2, <1>3 DEF LocalInv, UpInv, Clean
<1>4. CASE pc[p] # "insert" /\ cmd[p] = "up"
  BY <1>0, <1>2, <1>4 DEF LocalInv, UpInv, HalfDone, Clean
<1>5. CASE pc[p] # "insert" /\ cmd[p] = "down"
  <2>1. IsLatest(ver[p], ledger)
    BY <1>0, <1>5 DEF LocalInv, DownInv
  <2> QED
    BY <1>1, <2>1 DEF IsLatest
<1> QED
  BY <1>3, <1>4, <1>5 DEF TypeOK

\* What is below it is applied.
LEMMA BelowApplied ==
  ASSUME TypeOK, LedgerInv, NEW p \in Procs, pc[p] \in {"insert", "mark", "exec", "finish"}
  PROVE  \A u \in 1..(ver[p] - 1) : /\ Applied(ledger[u], bin[p][u])
                                    /\ Clean(ledger[u]) /\ ledger[u].direction = "up"
<1>1. LocalInv(p) /\ cmd[p] \in {"up", "down"}
  BY DEF LedgerInv, TypeOK
<1>2. \A u \in 1..(ver[p] - 1) : Applied(ledger[u], bin[p][u])
  BY <1>1 DEF LocalInv, UpInv, DownInv
<1> QED
  BY <1>2 DEF Applied, Clean

LEMMA LedgerIsStack_Next ==
  TypeOK /\ LedgerInv /\ [Next]_vars => LedgerIsStack'
<1> SUFFICES ASSUME TypeOK, LedgerInv, [Next]_vars PROVE LedgerIsStack'
  OBVIOUS
<1>0. LedgerIsStack /\ \A p \in Procs : LocalInv(p)
  BY DEF LedgerInv
<1>1. ASSUME ledger' = ledger PROVE LedgerIsStack'
  BY <1>0, <1>1 DEF LedgerIsStack, Recorded, Clean
<1>2. ASSUME NEW p \in Procs, InsertState(p) PROVE LedgerIsStack'
  <2>1. pc[p] = "insert" /\ ver[p] \in Versions /\ File(p) \in Files
    BY <1>0, <1>2, WorkingVersion DEF InsertState, Goto
  <2>2. [file |-> File(p), dirty |-> TRUE, direction |-> "up"] \in Row
    BY <2>1 DEF Row
  <2> QED
    BY <1>0, <1>2, <2>1, <2>2, StackKept, NobodyAbove, BelowApplied DEF InsertState
<1>3. ASSUME NEW p \in Procs, NEW d \in BOOLEAN, NEW dir \in {"up", "down"},
             UpdateRow(ver[p], d, dir), pc[p] \in {"mark", "finish"}
      PROVE  LedgerIsStack'
  <2>1. ver[p] \in Versions
    BY <1>0, <1>3, WorkingVersion
  <2>2. CASE ledger[ver[p]] = NoRow
    BY <1>1, <1>3, <2>2 DEF UpdateRow
  <2>3. CASE ledger[ver[p]] # NoRow
    <3>1. PICK r \in Row : ledger' = [ledger EXCEPT ![ver[p]] = r]
      BY <1>3, <2>1, <2>3, UpdateRowEffect
    <3> QED
      BY <1>0, <1>3, <2>1, <3>1, StackKept, NobodyAbove, BelowApplied
  <2> QED
    BY <2>2, <2>3
<1>4. ASSUME NEW p \in Procs, MarkDirty(p) PROVE LedgerIsStack'
  BY <1>3, <1>4 DEF MarkDirty, Goto, TypeOK
<1>5. ASSUME NEW p \in Procs, MarkClean(p) PROVE LedgerIsStack'
  BY <1>3, <1>5 DEF MarkClean, Goto
<1>6. ASSUME NEW p \in Procs, DeleteState(p) PROVE LedgerIsStack'
  <2>1. pc[p] = "finish" /\ ver[p] \in Versions
    BY <1>0, <1>6, WorkingVersion DEF DeleteState, Goto
  <2> QED
    BY <1>0, <1>6, <2>1, StackKept, NobodyAbove DEF DeleteState
<1>7. ASSUME NEW p \in Procs, NEW c \in {"up", "down"}, NEW b \in Binaries,
             Start(p, c, b)
      PROVE  LedgerIsStack'
  BY <1>1, <1>7 DEF Start
<1>8. ASSUME NEW p \in Procs, Fault(p) \/ Crash(p) PROVE LedgerIsStack'
  BY <1>1, <1>8 DEF Fault, Crash, Forget
<1>9. ASSUME NEW p \in Procs, Step(p) PROVE LedgerIsStack'
  BY <1>1, <1>2, <1>4, <1>5, <1>6, <1>9
  DEF Step, AcquireLock, LockTimeout, ReadLedger, NextVersion, CheckAbsent,
      ExecStatement, ScriptDone, ReleaseLock, Forget
<1> QED
  BY <1>1, <1>7, <1>8, <1>9 DEF Next, ForeignCreate, vars

------------------------------------------------------------------------------
(* What a process knows. *)

\* What others do: the process stands still, and if it holds the lock the
\* ledger does too.
LEMMA LocalKept ==
  ASSUME TypeOK, NEW q \in Procs, LocalInv(q),
         pc'[q] = pc[q], cmd'[q] = cmd[q], bin'[q] = bin[q], seen'[q] = seen[q],
         ver'[q] = ver[q], at'[q] = at[q], ok'[q] = ok[q],
         ledger' = ledger \/ pc[q] \notin Locked
  PROVE  LocalInv(q)'
<1>1. CASE pc[q] \notin Locked
  BY <1>1 DEF LocalInv, FreshInv, UpInv, DownInv, ResultInv, Locked
<1>2. CASE ledger' = ledger
  BY <1>2 DEF LocalInv, FreshInv, UpInv, DownInv, ResultInv, File, Recorded,
              Applied, HalfDone, Clean, Undoable, IsLatest
<1> QED
  BY <1>1, <1>2

\* A process that gives up or starts over knows nothing.
LEMMA NothingKnown ==
  ASSUME TypeOK, NEW p \in Procs, ok'[p] = FALSE,
         \/ pc'[p] = "unlock"
         \/ pc'[p] \in {"idle", "lock", "read"} /\ ver'[p] = 1 /\ at'[p] = 1
  PROVE  LocalInv(p)'
  BY DEF LocalInv, FreshInv, UpInv, DownInv, ResultInv

LEMMA OkMeansUnlock ==
  ASSUME TypeOK, LedgerInv, NEW p \in Procs, pc[p] # "unlock"
  PROVE  ok[p] = FALSE
  BY DEF TypeOK, LedgerInv, LocalInv, FreshInv

LEMMA LocalInv_ReadLedger ==
  ASSUME TypeOK, LedgerInv, NEW p \in Procs, ReadLedger(p)
  PROVE  LocalInv(p)'
<1>0. /\ ok[p] = FALSE /\ ver[p] = 1 /\ at[p] = 1 /\ pc[p] = "read"
      /\ seen'[p] = ledger /\ ledger' = ledger /\ bin' = bin /\ cmd' = cmd
  BY OkMeansUnlock DEF ReadLedger, LedgerInv, LocalInv, FreshInv, TypeOK
<1>1. CASE ~StatesValid(ledger, bin[p])
  <2>1. pc'[p] = "unlock" /\ ok'[p] = FALSE
    BY <1>0, <1>1 DEF ReadLedger, Goto, TypeOK
  <2> QED
    BY <2>1, NothingKnown
<1>2. CASE StatesValid(ledger, bin[p]) /\ cmd[p] = "up"
  <2>1. pc'[p] = "next" /\ ok'[p] = FALSE /\ ver'[p] = 1
    BY <1>0, <1>2 DEF ReadLedger, Goto, TypeOK
  <2>2. \A v \in Recorded(ledger) : v <= Len(bin[p]) /\ ledger[v].file = bin[p][v]
    BY <1>2 DEF StatesValid
  <2>3. UpInv(p)'
    BY <1>0, <1>2, <2>1, <2>2, BinaryFacts DEF UpInv, Recorded
  <2> QED
    BY <1>0, <1>2, <2>1, <2>3 DEF LocalInv, FreshInv, DownInv, ResultInv
<1>3. CASE StatesValid(ledger, bin[p]) /\ cmd[p] = "down" /\ Recorded(ledger) = {}
  <2>1. \A v \in Versions : ledger[v] = NoRow
    BY <1>3 DEF Recorded
  <2>2. pc'[p] = "unlock"
    BY <1>0, <1>3, <2>1 DEF ReadLedger, Goto, TypeOK, IsLatest, Recorded
  <2> QED
    BY <1>0, <1>3, <2>1, <2>2 DEF LocalInv, FreshInv, UpInv, DownInv, ResultInv
<1>4. CASE StatesValid(ledger, bin[p]) /\ cmd[p] = "down" /\ Recorded(ledger) # {}
  <2>1. PICK v \in Versions :
          /\ IsLatest(v, ledger)
          /\ ver' = [ver EXCEPT ![p] = v]
          /\ Goto(p, "read", IF Undoable(ledger[v]) THEN "mark" ELSE "unlock")
          /\ ok' = ok
    BY <1>4 DEF ReadLedger
  <2>2. ver'[p] = v /\ ok'[p] = FALSE
    BY <1>0, <2>1 DEF TypeOK
  <2>3. CASE ~Undoable(ledger[v])
    BY <2>1, <2>2, <2>3, NothingKnown DEF Goto, TypeOK
  <2>4. CASE Undoable(ledger[v])
    <3>1. pc'[p] = "mark"
      BY <2>1, <2>4 DEF Goto, TypeOK
    <3>2. v \in Recorded(ledger) /\ v \in DOMAIN bin[p] /\ ledger[v].file = bin[p][v]
      BY <1>4, <2>1, BinaryFacts DEF IsLatest, StatesValid
    <3>3. ASSUME NEW u \in 1..(v - 1) PROVE Applied(ledger[u], bin[p][u])
      <4>1. Clean(ledger[u]) /\ ledger[u].direction = "up"
        BY <3>2 DEF LedgerInv, LedgerIsStack
      <4>2. u \in DOMAIN bin[p] /\ u \in Versions
        BY <3>2, BinaryFacts
      <4>3. u \in Recorded(ledger)
        BY <4>1, <4>2 DEF Clean, Recorded
      <4>4. ledger[u].file = bin[p][u] /\ ledger[u] \in Row
        BY <1>4, <4>2, <4>3 DEF StatesValid, TypeOK, Recorded
      <4> QED
        BY <4>1, <4>4 DEF Applied, Clean, Row
    <3>4. DownInv(p)'
      BY <1>0, <2>1, <2>2, <2>4, <3>1, <3>2, <3>3
      DEF DownInv, IsLatest, Recorded, File, Applied, Undoable
    <3> QED
      BY <1>0, <1>4, <2>2, <3>1, <3>4 DEF LocalInv, FreshInv, UpInv, ResultInv
  <2> QED
    BY <2>3, <2>4
<1> QED
  BY <1>1, <1>2, <1>3, <1>4 DEF TypeOK

LEMMA LocalInv_NextVersion ==
  ASSUME TypeOK, LedgerInv, NEW p \in Procs, NextVersion(p)
  PROVE  LocalInv(p)'
<1>0. /\ pc[p] = "next" /\ ok[p] = FALSE /\ ledger' = ledger
      /\ bin' = bin /\ cmd' = cmd /\ seen' = seen /\ UpInv(p)
  BY OkMeansUnlock DEF NextVersion, LedgerInv, LocalInv
<1>1. /\ cmd[p] = "up"
      /\ ver[p] <= Len(bin[p]) + 1
      /\ \A u \in 1..(ver[p] - 1) : Applied(ledger[u], bin[p][u])
      /\ \A v \in Recorded(ledger) : v <= Len(bin[p]) /\ ledger[v].file = bin[p][v]
      /\ \A v \in Versions : v >= ver[p] => seen[p][v] = ledger[v]
  BY <1>0, BinaryFacts DEF UpInv
<1>b. /\ ver[p] \in Nat \ {0} /\ Len(bin[p]) \in Nat
      /\ DOMAIN bin[p] = 1..Len(bin[p]) /\ Versions \subseteq Nat \ {0}
  BY BinaryFacts
<1>2. CASE AllVisited(p)
  <2>1. pc'[p] = "unlock" /\ ok'[p] = TRUE
    BY <1>2 DEF NextVersion, Goto, TypeOK
  <2>2. \A v \in DOMAIN bin[p] : Applied(ledger[v], bin[p][v])
    <3>1. ver[p] - 1 = Len(bin[p])
      BY <1>1, <1>2, <1>b DEF AllVisited
    <3> QED
      BY <1>1, <1>b, <3>1
  <2> QED
    BY <1>0, <1>1, <2>1, <2>2
    DEF LocalInv, FreshInv, UpInv, DownInv, ResultInv, Applied, Clean
<1>3. CASE ~AllVisited(p)
  <2> DEFINE row == seen[p][ver[p]]
  <2>1. /\ ver[p] \in DOMAIN bin[p] /\ ver[p] \in Versions
        /\ row = ledger[ver[p]] /\ ok'[p] = FALSE
    BY <1>0, <1>1, <1>3, BinaryFacts DEF AllVisited, NextVersion
  <2>2. row # NoRow => row \in Row /\ row.file = bin[p][ver[p]]
    BY <1>1, <2>1 DEF TypeOK, Recorded
  <2>3. CASE row = NoRow /\ pc'[p] = "check" /\ ver' = ver
    <3>1. UpInv(p)'
      BY <1>0, <1>1, <2>1, <2>3, BinaryFacts DEF UpInv, Recorded
    <3> QED
      BY <1>0, <1>1, <2>1, <2>3, <3>1 DEF LocalInv, FreshInv, DownInv, ResultInv
  <2>4. CASE Skippable(row) /\ ver' = [ver EXCEPT ![p] = @ + 1] /\ pc' = pc
    <3>1. Applied(ledger[ver[p]], bin[p][ver[p]])
      BY <2>1, <2>2, <2>4 DEF Skippable, Clean, Applied, Row
    <3>2. ver'[p] = ver[p] + 1
      BY <2>4 DEF TypeOK
    <3>3. \A u \in 1..(ver'[p] - 1) : Applied(ledger[u], bin[p][u])
      <4> SUFFICES ASSUME NEW u \in 1..ver[p] PROVE Applied(ledger[u], bin[p][u])
        BY <1>b, <3>2
      <4>1. u = ver[p] \/ u \in 1..(ver[p] - 1)
        BY <1>b
      <4> QED
        BY <1>1, <3>1, <4>1
    <3>4. /\ ver'[p] <= Len(bin[p]) \/ ver'[p] = Len(bin[p]) + 1
          /\ \A v \in Versions : v >= ver'[p] => seen[p][v] = ledger[v]
      BY <1>1, <1>b, <2>1, <3>2
    <3>5. UpInv(p)'
      <4>1. /\ \A u \in 1..(ver'[p] - 1) : Applied(ledger'[u], bin'[p][u])
            /\ \A v \in Versions : v > ver'[p] => seen'[p][v] = ledger'[v]
            /\ \A v \in Versions : v = ver'[p] => seen'[p][v] = ledger'[v]
        BY <1>0, <1>b, <3>2, <3>3, <3>4
      <4> QED
        BY <1>0, <1>1, <2>4, <3>4, <4>1 DEF UpInv, Recorded, Applied
    <3> QED
      BY <1>0, <1>1, <2>1, <2>4, <3>5 DEF LocalInv, FreshInv, DownInv, ResultInv
  <2>5. CASE pc'[p] = "unlock"
    BY <2>1, <2>5, NothingKnown
  <2>6. CASE row # NoRow /\ row.direction = "up" /\ ~Skippable(row)
             /\ pc'[p] = "mark" /\ ver' = ver
    <3>1. HalfDone(ledger[ver[p]], File(p), "up")
      BY <2>1, <2>2, <2>6 DEF Skippable, Clean, HalfDone, Row, File
    <3>2. UpInv(p)'
      BY <1>0, <1>1, <2>1, <2>6, <3>1, BinaryFacts
      DEF UpInv, Recorded, File, HalfDone, Applied
    <3> QED
      BY <1>0, <1>1, <2>1, <2>6, <3>2 DEF LocalInv, FreshInv, DownInv, ResultInv
  <2> QED
    BY <1>3, <2>3, <2>4, <2>5, <2>6 DEF NextVersion, Goto, TypeOK
<1> QED
  BY <1>2, <1>3

LEMMA LocalInv_CheckAbsent ==
  ASSUME TypeOK, LedgerInv, NEW p \in Procs, CheckAbsent(p)
  PROVE  LocalInv(p)'
<1>0. /\ pc[p] = "check" /\ ok[p] = FALSE /\ ok' = ok /\ ledger' = ledger
      /\ bin' = bin /\ cmd' = cmd /\ seen' = seen /\ ver' = ver /\ UpInv(p)
  BY OkMeansUnlock DEF CheckAbsent, LedgerInv, LocalInv
<1>1. pc'[p] \in {"check", "insert", "unlock"}
  BY <1>0 DEF CheckAbsent, Goto, TypeOK
<1>2. CASE pc'[p] = "unlock"
  BY <1>0, <1>2, NothingKnown
<1>3. CASE pc'[p] \in {"check", "insert"}
  <2>1. UpInv(p)'
    BY <1>0, <1>3 DEF UpInv, Recorded, Applied
  <2> QED
    BY <1>0, <1>3, <2>1 DEF LocalInv, FreshInv, UpInv, DownInv, ResultInv
<1> QED
  BY <1>1, <1>2, <1>3

LEMMA LocalInv_InsertState ==
  ASSUME TypeOK, LedgerInv, NEW p \in Procs, InsertState(p)
  PROVE  LocalInv(p)'
<1> DEFINE r == [file |-> File(p), dirty |-> TRUE, direction |-> "up"]
<1>0. /\ pc[p] = "insert" /\ ok[p] = FALSE /\ pc'[p] = "mark" /\ ok' = ok
      /\ ledger' = [ledger EXCEPT ![ver[p]] = r]
      /\ bin' = bin /\ cmd' = cmd /\ seen' = seen /\ ver' = ver
      /\ LocalInv(p)
  BY OkMeansUnlock DEF InsertState, Goto, LedgerInv, TypeOK
<1>1. /\ ver[p] \in DOMAIN bin[p] /\ ver[p] \in Versions /\ File(p) \in Files
      /\ ver[p] \in Nat /\ Len(bin[p]) \in Nat /\ DOMAIN bin[p] = 1..Len(bin[p])
      /\ Versions \subseteq Nat
  BY <1>0, BinaryFacts, WorkingVersion
<1>2. r \in Row /\ r # NoRow
  <2>1. r \in Row
    BY <1>1 DEF Row
  <2> QED
    BY <2>1, ProcsAssumption
<1>3. /\ ledger'[ver[p]] = r
      /\ \A v : v # ver[p] => ledger'[v] = ledger[v]
  BY <1>0, <1>1 DEF TypeOK
<1>4. HalfDone(ledger'[ver[p]], bin[p][ver[p]], "up")
  BY <1>2, <1>3 DEF HalfDone, File
<1>5. cmd[p] = "up" /\ UpInv(p)
  BY <1>0 DEF LocalInv, UpInv
<1>6. \A v \in Recorded(ledger)' : v <= Len(bin[p]) /\ ledger'[v].file = bin[p][v]
  <2> SUFFICES ASSUME NEW v \in Versions, ledger'[v] # NoRow
               PROVE  v <= Len(bin[p]) /\ ledger'[v].file = bin[p][v]
    BY DEF Recorded
  <2>1. CASE v = ver[p]
    BY <1>1, <1>4, <2>1 DEF HalfDone
  <2>2. CASE v # ver[p]
    BY <1>0, <1>3, <1>5, <2>2 DEF UpInv, Recorded
  <2> QED
    BY <2>1, <2>2
<1>7. \A u \in 1..(ver[p] - 1) : Applied(ledger'[u], bin[p][u])
  BY <1>0, <1>1, <1>3, <1>5 DEF UpInv
<1>8. \A v \in Versions : v > ver[p] => seen[p][v] = ledger'[v]
  <2>1. \A v \in Versions : v > ver[p] => seen[p][v] = ledger[v]
    BY <1>0, <1>5 DEF UpInv
  <2> QED
    BY <1>1, <1>3, <2>1
<1>9. UpInv(p)'
  BY <1>0, <1>1, <1>4, <1>5, <1>6, <1>7, <1>8 DEF UpInv, File
<1> QED
  BY <1>0, <1>5, <1>9 DEF LocalInv, FreshInv, DownInv, ResultInv

LEMMA LocalInv_MarkDirty ==
  ASSUME TypeOK, LedgerInv, NEW p \in Procs, MarkDirty(p)
  PROVE  LocalInv(p)'
<1>0. /\ pc[p] = "mark" /\ ok[p] = FALSE /\ pc'[p] = "exec" /\ ok' = ok
      /\ UpdateRow(ver[p], TRUE, cmd[p]) /\ cmd[p] \in {"up", "down"}
      /\ bin' = bin /\ cmd' = cmd /\ seen' = seen /\ ver' = ver
      /\ LocalInv(p)
  BY OkMeansUnlock DEF MarkDirty, Goto, LedgerInv, TypeOK
<1>1. /\ ver[p] \in DOMAIN bin[p] /\ ver[p] \in Versions
      /\ ver[p] \in Nat /\ Len(bin[p]) \in Nat /\ DOMAIN bin[p] = 1..Len(bin[p])
      /\ Versions \subseteq Nat
  BY <1>0, BinaryFacts, WorkingVersion
<1>2. ledger[ver[p]] # NoRow /\ ledger[ver[p]].file = File(p)
  BY <1>0, <1>1 DEF LocalInv, UpInv, DownInv, HalfDone, IsLatest, Recorded
<1>3. PICK r \in Row : /\ ledger' = [ledger EXCEPT ![ver[p]] = r]
                       /\ r.file = File(p) /\ r.dirty = TRUE /\ r.direction = cmd[p]
  <2> DEFINE f == ledger[ver[p]].file
  <2>1. \E r \in Row : /\ ledger' = [ledger EXCEPT ![ver[p]] = r]
                       /\ r.file = f /\ r.dirty = TRUE /\ r.direction = cmd[p]
    <3> DEFINE d == TRUE
    <3>1. d \in BOOLEAN /\ UpdateRow(ver[p], d, cmd[p])
      BY <1>0
    <3> HIDE DEF d
    <3>2. \E r \in Row : /\ ledger' = [ledger EXCEPT ![ver[p]] = r]
                         /\ r.file = f /\ r.dirty = d /\ r.direction = cmd[p]
      BY <1>0, <1>1, <1>2, <3>1, UpdateRowEffect
    <3> QED
      BY <3>2 DEF d
  <2> QED
    BY <1>2, <2>1
<1>4. /\ ledger'[ver[p]] = r /\ r # NoRow
      /\ \A v : v # ver[p] => ledger'[v] = ledger[v]
  BY <1>1, <1>3, ProcsAssumption DEF TypeOK
<1>5. /\ HalfDone(ledger'[ver[p]], File(p), cmd[p])
      /\ Recorded(ledger)' = Recorded(ledger)
      /\ File(p)' = File(p)
  BY <1>0, <1>2, <1>3, <1>4 DEF HalfDone, Recorded, File
<1>6. \A u \in 1..(ver[p] - 1) : Applied(ledger'[u], bin[p][u])
  BY <1>0, <1>1, <1>4 DEF LocalInv, UpInv, DownInv
<1>7. CASE cmd[p] = "up"
  <2>1. \A v \in Recorded(ledger) : v <= Len(bin[p]) /\ ledger'[v].file = bin[p][v]
    BY <1>0, <1>3, <1>4, <1>7 DEF LocalInv, UpInv, File
  <2>2. \A v \in Versions : v > ver[p] => seen[p][v] = ledger'[v]
    BY <1>0, <1>1, <1>4, <1>7 DEF LocalInv, UpInv
  <2>3. UpInv(p)'
    BY <1>0, <1>1, <1>5, <1>6, <1>7, <2>1, <2>2 DEF UpInv
  <2> QED
    BY <1>0, <1>7, <2>3 DEF LocalInv, FreshInv, DownInv, ResultInv
<1>8. CASE cmd[p] = "down"
  <2>1. IsLatest(ver[p], ledger)'
    BY <1>0, <1>5, <1>8 DEF LocalInv, DownInv, IsLatest
  <2>2. \A v \in Versions : v # ver[p] => seen[p][v] = ledger'[v]
    BY <1>0, <1>4, <1>8 DEF LocalInv, DownInv
  <2>3. DownInv(p)'
    BY <1>0, <1>1, <1>5, <1>6, <1>8, <2>1, <2>2 DEF DownInv, HalfDone
  <2> QED
    BY <1>0, <1>8, <2>3 DEF LocalInv, FreshInv, UpInv, ResultInv
<1> QED
  BY <1>0, <1>7, <1>8

LEMMA LocalInv_Script ==
  ASSUME TypeOK, LedgerInv, NEW p \in Procs, ExecStatement(p) \/ ScriptDone(p)
  PROVE  LocalInv(p)'
<1>0. /\ pc[p] = "exec" /\ ok[p] = FALSE /\ ok' = ok /\ ledger' = ledger
      /\ bin' = bin /\ cmd' = cmd /\ seen' = seen /\ ver' = ver /\ LocalInv(p)
      /\ pc'[p] \in {"exec", "finish"} /\ cmd[p] \in {"up", "down"}
  BY OkMeansUnlock DEF ExecStatement, ScriptDone, Goto, LedgerInv, TypeOK
<1>1. CASE cmd[p] = "up"
  <2>1. UpInv(p)'
    BY <1>0, <1>1 DEF LocalInv, UpInv, Recorded, Applied, HalfDone, File
  <2> QED
    BY <1>0, <1>1, <2>1 DEF LocalInv, FreshInv, DownInv, ResultInv
<1>2. CASE cmd[p] = "down"
  <2>1. DownInv(p)'
    BY <1>0, <1>2 DEF LocalInv, DownInv, IsLatest, Recorded, Applied, HalfDone, File
  <2> QED
    BY <1>0, <1>2, <2>1 DEF LocalInv, FreshInv, UpInv, ResultInv
<1> QED
  BY <1>0, <1>1, <1>2

LEMMA LocalInv_MarkClean ==
  ASSUME TypeOK, LedgerInv, NEW p \in Procs, MarkClean(p)
  PROVE  LocalInv(p)'
<1>0. /\ pc[p] = "finish" /\ ok[p] = FALSE /\ pc'[p] = "next" /\ ok' = ok
      /\ UpdateRow(ver[p], FALSE, "up") /\ cmd[p] = "up"
      /\ bin' = bin /\ cmd' = cmd /\ LocalInv(p) /\ UpInv(p)
  BY OkMeansUnlock DEF MarkClean, Goto, LedgerInv, LocalInv, TypeOK
<1>1. /\ ver[p] \in DOMAIN bin[p] /\ ver[p] \in Versions
      /\ ver[p] \in Nat /\ Len(bin[p]) \in Nat /\ DOMAIN bin[p] = 1..Len(bin[p])
      /\ Versions \subseteq Nat \ {0}
  BY <1>0, BinaryFacts, WorkingVersion
<1>2. ledger[ver[p]] # NoRow /\ ledger[ver[p]].file = bin[p][ver[p]]
  BY <1>0 DEF UpInv, HalfDone, File
<1>3. PICK r \in Row : /\ ledger' = [ledger EXCEPT ![ver[p]] = r]
                       /\ r.file = bin[p][ver[p]] /\ r.dirty = FALSE
                       /\ r.direction = "up"
  <2> DEFINE f == ledger[ver[p]].file
  <2>1. \E r \in Row : /\ ledger' = [ledger EXCEPT ![ver[p]] = r]
                       /\ r.file = f /\ r.dirty = FALSE /\ r.direction = "up"
    <3> DEFINE d == FALSE
    <3>1. d \in BOOLEAN /\ UpdateRow(ver[p], d, "up")
      BY <1>0
    <3> HIDE DEF d
    <3>2. \E r \in Row : /\ ledger' = [ledger EXCEPT ![ver[p]] = r]
                         /\ r.file = f /\ r.dirty = d /\ r.direction = "up"
      BY <1>0, <1>1, <1>2, <3>1, UpdateRowEffect
    <3> QED
      BY <3>2 DEF d
  <2> QED
    BY <1>2, <2>1
<1>4. /\ ledger'[ver[p]] = r /\ r # NoRow
      /\ \A v : v # ver[p] => ledger'[v] = ledger[v]
  BY <1>1, <1>3, ProcsAssumption DEF TypeOK
<1>5. ver'[p] = ver[p] + 1
  BY DEF MarkClean, TypeOK
<1>6. \A v : v # ver[p] => seen'[p][v] = seen[p][v]
  BY DEF MarkClean, TypeOK
<1>7. \A u \in 1..(ver'[p] - 1) : Applied(ledger'[u], bin[p][u])
  <2>1. \A u \in 1..(ver[p] - 1) : Applied(ledger'[u], bin[p][u])
    BY <1>0, <1>1, <1>4 DEF UpInv
  <2>2. Applied(ledger'[ver[p]], bin[p][ver[p]])
    BY <1>3, <1>4 DEF Applied
  <2> SUFFICES ASSUME NEW u \in 1..ver[p] PROVE Applied(ledger'[u], bin[p][u])
    BY <1>1, <1>5
  <2>3. u = ver[p] \/ u \in 1..(ver[p] - 1)
    BY <1>1
  <2> QED
    BY <2>1, <2>2, <2>3
<1>8. \A v \in Recorded(ledger)' : v <= Len(bin[p]) /\ ledger'[v].file = bin[p][v]
  <2> SUFFICES ASSUME NEW v \in Versions, ledger'[v] # NoRow
               PROVE  v <= Len(bin[p]) /\ ledger'[v].file = bin[p][v]
    BY DEF Recorded
  <2>1. CASE v = ver[p]
    BY <1>1, <1>3, <1>4, <2>1
  <2>2. CASE v # ver[p]
    BY <1>0, <1>4, <2>2 DEF UpInv, Recorded
  <2> QED
    BY <2>1, <2>2
<1>9. \A v \in Versions : v >= ver'[p] => seen'[p][v] = ledger'[v]
  <2>1. \A v \in Versions : v > ver[p] => seen[p][v] = ledger[v]
    BY <1>0 DEF UpInv
  <2> SUFFICES ASSUME NEW v \in Versions, v >= ver'[p]
               PROVE  seen'[p][v] = ledger'[v]
    OBVIOUS
  <2>2. v > ver[p] /\ v # ver[p]
    BY <1>1, <1>5
  <2> QED
    BY <1>4, <1>6, <2>1, <2>2
<1>10. /\ ver'[p] <= Len(bin[p]) \/ ver'[p] = Len(bin[p]) + 1
       /\ \A v \in Versions : v > ver'[p] => seen'[p][v] = ledger'[v]
       /\ \A v \in Versions : v = ver'[p] => seen'[p][v] = ledger'[v]
  <2>1. ver'[p] <= Len(bin[p]) \/ ver'[p] = Len(bin[p]) + 1
    BY <1>1, <1>5
  <2>2. \A v \in Versions : v > ver'[p] \/ v = ver'[p] => v >= ver'[p]
    BY <1>1, <1>5
  <2> QED
    BY <1>9, <2>1, <2>2
<1>11. UpInv(p)'
  BY <1>0, <1>7, <1>8, <1>10 DEF UpInv
<1> QED
  BY <1>0, <1>11 DEF LocalInv, FreshInv, DownInv, ResultInv

LEMMA LocalInv_DeleteState ==
  ASSUME TypeOK, LedgerInv, NEW p \in Procs, DeleteState(p)
  PROVE  LocalInv(p)'
<1>0. /\ pc[p] = "finish" /\ cmd[p] = "down" /\ pc'[p] = "unlock" /\ ok'[p] = TRUE
      /\ ledger' = [ledger EXCEPT ![ver[p]] = NoRow]
      /\ bin' = bin /\ cmd' = cmd /\ seen' = seen /\ ver' = ver /\ LocalInv(p)
  BY DEF DeleteState, Goto, LedgerInv, TypeOK
<1>1. \A v \in Versions : ledger'[v] = IF v = ver[p] THEN NoRow ELSE ledger[v]
  BY <1>0 DEF TypeOK
<1>2. \A v \in Versions : v # ver[p] => seen[p][v] = ledger[v]
  BY <1>0 DEF LocalInv, DownInv
<1>3. ResultInv(p)'
  BY <1>0, <1>1, <1>2 DEF ResultInv
<1> QED
  BY <1>0, <1>3 DEF LocalInv, FreshInv, UpInv, DownInv

------------------------------------------------------------------------------
(* Every step, seen by every process. *)

\* A step of p leaves the locals of the others alone, and the ledger too
\* unless p is at work under the lock.
LEMMA OthersStandStill ==
  ASSUME TypeOK, NEW p \in Procs, NEW q \in Procs, q # p,
         \/ \E c \in {"up", "down"}, b \in Binaries : Start(p, c, b)
         \/ Step(p) \/ Fault(p) \/ Crash(p)
  PROVE  /\ pc'[q] = pc[q] /\ cmd'[q] = cmd[q] /\ bin'[q] = bin[q]
         /\ seen'[q] = seen[q] /\ ver'[q] = ver[q] /\ at'[q] = at[q]
         /\ ok'[q] = ok[q]
         /\ ledger' = ledger \/ pc[p] \in Locked
<1> USE DEF TypeOK, Goto, Locked
<1>2. CASE \E c \in {"up", "down"}, b \in Binaries : Start(p, c, b)
  BY <1>2 DEF Start
<1>3. CASE AcquireLock(p)
  BY <1>3 DEF AcquireLock
<1>4. CASE LockTimeout(p) \/ ReleaseLock(p) \/ Crash(p)
  BY <1>4 DEF LockTimeout, ReleaseLock, Crash, Forget
<1>5. CASE ReadLedger(p)
  BY <1>5 DEF ReadLedger
<1>6. CASE NextVersion(p)
  BY <1>6 DEF NextVersion
<1>7. CASE CheckAbsent(p)
  BY <1>7 DEF CheckAbsent
<1>8. CASE InsertState(p)
  BY <1>8 DEF InsertState
<1>9. CASE MarkDirty(p)
  BY <1>9 DEF MarkDirty
<1>10. CASE ExecStatement(p)
  BY <1>10 DEF ExecStatement
<1>11. CASE ScriptDone(p)
  BY <1>11 DEF ScriptDone
<1>12. CASE MarkClean(p)
  BY <1>12 DEF MarkClean
<1>13. CASE DeleteState(p)
  BY <1>13 DEF DeleteState
<1>14. CASE Fault(p)
  BY <1>14 DEF Fault
<1> QED
  BY <1>2, <1>3, <1>4, <1>5, <1>6, <1>7, <1>8, <1>9, <1>10, <1>11, <1>12,
     <1>13, <1>14 DEF Step

LEMMA LocalInv_Own ==
  ASSUME TypeOK, LedgerInv, NEW p \in Procs,
         \/ \E c \in {"up", "down"}, b \in Binaries : Start(p, c, b)
         \/ Step(p) \/ Fault(p) \/ Crash(p)
  PROVE  LocalInv(p)'
<1>1. CASE \E c \in {"up", "down"}, b \in Binaries : Start(p, c, b)
  <2>1. pc[p] = "idle" /\ pc'[p] = "lock" /\ ver' = ver /\ at' = at /\ ok' = ok
    BY <1>1 DEF Start, Goto, TypeOK
  <2>2. ver[p] = 1 /\ at[p] = 1 /\ ok[p] = FALSE
    BY <2>1, OkMeansUnlock DEF LedgerInv, LocalInv, FreshInv
  <2> QED
    BY <2>1, <2>2, NothingKnown
<1>2. CASE AcquireLock(p)
  <2>1. pc[p] = "lock" /\ pc'[p] = "read" /\ ver' = ver /\ at' = at /\ ok' = ok
    BY <1>2 DEF AcquireLock, Goto, TypeOK
  <2>2. ver[p] = 1 /\ at[p] = 1 /\ ok[p] = FALSE
    BY <2>1, OkMeansUnlock DEF LedgerInv, LocalInv, FreshInv
  <2> QED
    BY <2>1, <2>2, NothingKnown
<1>3. CASE LockTimeout(p) \/ ReleaseLock(p) \/ Crash(p)
  <2>1. pc'[p] = "idle" /\ ver'[p] = 1 /\ at'[p] = 1 /\ ok'[p] = FALSE
    BY <1>3 DEF LockTimeout, ReleaseLock, Crash, Forget, TypeOK
  <2> QED
    BY <2>1, NothingKnown
<1>4. CASE Fault(p)
  <2>1. pc'[p] = "unlock" /\ ok'[p] = FALSE
    BY <1>4 DEF Fault, TypeOK
  <2> QED
    BY <2>1, NothingKnown
<1> QED
  BY <1>1, <1>2, <1>3, <1>4, LocalInv_ReadLedger, LocalInv_NextVersion,
     LocalInv_CheckAbsent, LocalInv_InsertState, LocalInv_MarkDirty,
     LocalInv_Script, LocalInv_MarkClean, LocalInv_DeleteState DEF Step

LEMMA LocalInv_Next ==
  ASSUME TypeOK, LedgerInv, [Next]_vars, NEW q \in Procs
  PROVE  LocalInv(q)'
<1>0. Mutex /\ LocalInv(q)
  BY DEF LedgerInv
<1>1. ASSUME NEW p \in Procs,
             \/ \E c \in {"up", "down"}, b \in Binaries : Start(p, c, b)
             \/ Step(p) \/ Fault(p) \/ Crash(p)
      PROVE  LocalInv(q)'
  <2>1. CASE p = q
    BY <1>1, <2>1, LocalInv_Own
  <2>2. CASE p # q
    <3>1. pc[p] \in Locked => pc[q] \notin Locked
      BY <1>0, <2>2 DEF Mutex
    <3>2. /\ pc'[q] = pc[q] /\ cmd'[q] = cmd[q] /\ bin'[q] = bin[q]
          /\ seen'[q] = seen[q] /\ ver'[q] = ver[q] /\ at'[q] = at[q]
          /\ ok'[q] = ok[q]
          /\ ledger' = ledger \/ pc[p] \in Locked
      BY <1>1, <2>2, OthersStandStill
    <3> QED
      BY <1>0, <3>1, <3>2, LocalKept
  <2> QED
    BY <2>1, <2>2
<1>2. CASE UNCHANGED <<ledger, locals>>
  BY <1>0, <1>2, LocalKept DEF locals
<1> QED
  BY <1>1, <1>2 DEF Next, ForeignCreate, vars

------------------------------------------------------------------------------
(* The invariant of the ledger, and what follows from it. *)

LEMMA LedgerInv_Init == Init => LedgerInv
<1> SUFFICES ASSUME Init PROVE LedgerInv
  OBVIOUS
<1>1. Recorded(ledger) = {}
  BY DEF Init, EmptyLedger, Recorded
<1>2. Mutex /\ LedgerIsStack
  BY <1>1 DEF Init, Mutex, Locked, LedgerIsStack
<1>3. \A p \in Procs : LocalInv(p)
  BY DEF Init, LocalInv, FreshInv, UpInv, DownInv, ResultInv
<1> QED
  BY <1>2, <1>3 DEF LedgerInv

LEMMA LedgerInv_Next == TypeOK /\ LedgerInv /\ [Next]_vars => LedgerInv'
<1> SUFFICES ASSUME TypeOK, LedgerInv, [Next]_vars PROVE LedgerInv'
  OBVIOUS
<1>1. Mutex' /\ LedgerIsStack'
  BY Mutex_Next, LedgerIsStack_Next DEF LedgerInv
<1>2. \A p \in Procs : LocalInv(p)'
  BY LocalInv_Next
<1> QED
  BY <1>1, <1>2 DEF LedgerInv

LEMMA LedgerAlways == Spec => [](TypeOK /\ LedgerInv)
<1>1. Init => TypeOK /\ LedgerInv
  BY TypeOK_Init, LedgerInv_Init
<1>2. TypeOK /\ LedgerInv /\ [Next]_vars => (TypeOK /\ LedgerInv)'
  BY TypeOK_Next, LedgerInv_Next
<1> QED
  BY <1>1, <1>2, PTL DEF Spec

\* Ledger, objects and the variables of every process keep their types,
\* whichever binaries run and whoever else creates tables.
THEOREM TypeCorrect == Spec => []TypeOK
  BY LedgerAlways, PTL

\* Whatever processes, binaries, crashes and failed statements do, the ledger
\* is a stack: below the newest recorded version all are applied.
THEOREM LedgerStaysStack == Spec => []LedgerIsStack
<1>1. LedgerInv => LedgerIsStack
  BY DEF LedgerInv
<1> QED
  BY <1>1, LedgerAlways, PTL

\* The `states` map Up read once stays true for as long as Up decides by it:
\* the advisory lock is what makes the single read enough.
THEOREM SnapshotStaysFresh == Spec => []SnapshotFresh
<1>1. ASSUME TypeOK, LedgerInv PROVE SnapshotFresh
  <2> SUFFICES ASSUME NEW p \in Procs, pc[p] \in {"next", "check", "insert"},
                      NEW v \in Versions, v >= ver[p]
               PROVE  seen[p][v] = ledger[v]
    BY DEF SnapshotFresh
  <2>1. UpInv(p) /\ v \in Nat /\ ver[p] \in Nat
    BY <1>1, BinaryFacts DEF LedgerInv, LocalInv
  <2>2. v > ver[p] \/ v = ver[p]
    BY <2>1
  <2> QED
    BY <2>1, <2>2 DEF UpInv
<1> QED
  BY <1>1, LedgerAlways, PTL

\* A command reports success only for what the ledger then holds.
THEOREM ReportsAreHonest == Spec => ResultHonest
<1> DEFINE Honest == \A p \in Procs : pc[p] = "unlock" /\ ok[p] =>
                       IF cmd[p] = "up"
                       THEN \A v \in DOMAIN bin[p] :
                              Clean(ledger[v]) /\ ledger[v].file = bin[p][v]
                       ELSE \A v \in Versions :
                              ledger[v] = IF v = ver[p] THEN NoRow ELSE seen[p][v]
<1>1. LedgerInv => Honest
  BY DEF LedgerInv, LocalInv, ResultInv
<1>2. Spec => []Honest
  BY <1>1, LedgerAlways, PTL
<1>3. Honest => [Honest]_vars
  OBVIOUS
<1>4. Spec => [][Honest]_vars
  BY <1>2, PTL
<1> QED
  BY <1>4 DEF ResultHonest

------------------------------------------------------------------------------
(* Scripts and what they leave behind. *)

LEMMA ScriptFacts ==
  ASSUME NEW f \in Files
  PROVE  /\ UpOf[f] \in Seq(Objects) /\ DownOf[f] \in Seq(Objects)
         /\ Elems(UpOf[f]) = Elems(DownOf[f])
         /\ Elems(UpOf[f]) \subseteq Objects
<1>1. UpOf[f] \in Seq(Objects) /\ DownOf[f] \in Seq(Objects)
  BY ScriptsAssumption DEF ScriptsOK
<1>2. Elems(UpOf[f]) = Elems(DownOf[f])
  BY ScriptsAssumption DEF ScriptsOK
<1>3. Elems(UpOf[f]) \subseteq Objects
  BY <1>1 DEF Elems
<1> QED
  BY <1>1, <1>2, <1>3

\* A step that changes no object, no row's file and no clean row.
LEMMA ObjectsKept ==
  ASSUME NoOrphans, AppliedComplete, owner' = owner, ledger' = ledger
  PROVE  NoOrphans' /\ AppliedComplete'
  BY DEF NoOrphans, AppliedComplete, Recorded, Clean

\* Up writes the row of its version, new or dirty or clean and complete.
LEMMA RowWritten ==
  ASSUME TypeOK, NoOrphans, AppliedComplete, owner' = owner,
         NEW w \in Versions, NEW r \in Row, ledger' = [ledger EXCEPT ![w] = r],
         ledger[w] = NoRow \/ ledger[w].file = r.file,
         r.dirty \/ \A o \in Elems(UpOf[r.file]) : owner[o] # "absent"
  PROVE  NoOrphans' /\ AppliedComplete'
<1>0. /\ ledger'[w] = r /\ r # NoRow
      /\ \A v : v # w => ledger'[v] = ledger[v]
  BY ProcsAssumption DEF TypeOK
<1>1. NoOrphans'
  <2> SUFFICES ASSUME NEW o \in Objects, owner[o] = "migrated"
               PROVE  \E v \in Versions : ledger'[v] # NoRow
                                          /\ o \in Elems(UpOf[ledger'[v].file])
    BY DEF NoOrphans, Recorded
  <2>1. PICK v \in Versions : ledger[v] # NoRow /\ o \in Elems(UpOf[ledger[v].file])
    BY DEF NoOrphans, Recorded
  <2>2. ledger'[v] # NoRow /\ ledger'[v].file = ledger[v].file
    BY <1>0, <2>1
  <2> QED
    BY <2>1, <2>2
<1>2. AppliedComplete'
  <2> SUFFICES ASSUME NEW v \in Versions, ledger'[v] # NoRow, ~ledger'[v].dirty,
                      NEW o \in Elems(UpOf[ledger'[v].file])
               PROVE  owner[o] # "absent"
    BY DEF AppliedComplete, Recorded, Clean
  <2>1. CASE v = w
    BY <1>0, <2>1
  <2>2. CASE v # w
    BY <1>0, <2>2 DEF AppliedComplete, Recorded, Clean
  <2> QED
    BY <2>1, <2>2
<1> QED
  BY <1>1, <1>2

\* Objects only appear, and what a migration adds is under a recorded row.
LEMMA ObjectsAdded ==
  ASSUME TypeOK, NoOrphans, AppliedComplete, ledger' = ledger,
         \A o \in Objects : owner[o] # "absent" => owner'[o] = owner[o],
         \A o \in Objects : owner'[o] = "migrated" /\ owner[o] = "absent" =>
           \E v \in Recorded(ledger) : o \in Elems(UpOf[ledger[v].file])
  PROVE  NoOrphans' /\ AppliedComplete'
<1>1. NoOrphans'
  BY DEF NoOrphans, Recorded, TypeOK
<1>2. AppliedComplete'
  <2> SUFFICES ASSUME NEW v \in Recorded(ledger), Clean(ledger[v]),
                      NEW o \in Elems(UpOf[ledger[v].file])
               PROVE  owner'[o] # "absent"
    BY DEF AppliedComplete, Recorded, Clean
  <2>1. owner[o] # "absent"
    BY DEF AppliedComplete
  <2>2. ledger[v].file \in Files
    BY DEF Recorded, TypeOK, Row
  <2>3. o \in Objects
    BY <2>2, ScriptFacts
  <2> QED
    BY <2>1, <2>3
<1> QED
  BY <1>1, <1>2

LEMMA WorkingRow ==
  ASSUME TypeOK, LedgerInv, NEW p \in Procs, pc[p] \in {"mark", "exec", "finish"}
  PROVE  /\ ver[p] \in Versions /\ ver[p] \in DOMAIN bin[p] /\ File(p) \in Files
         /\ ver[p] \in Recorded(ledger) /\ ledger[ver[p]].file = File(p)
         /\ pc[p] # "mark" => ledger[ver[p]].dirty = TRUE
<1>1. LocalInv(p) /\ cmd[p] \in {"up", "down"}
  BY DEF LedgerInv, TypeOK
<1>2. ver[p] \in Versions /\ ver[p] \in DOMAIN bin[p] /\ File(p) \in Files
  BY <1>1, WorkingVersion
<1> QED
  BY <1>1, <1>2 DEF LocalInv, UpInv, DownInv, HalfDone, IsLatest, Recorded

\* One statement of an up script.
LEMMA ExecUp ==
  ASSUME TypeOK, LedgerInv, ScriptInv, NEW p \in Procs, ExecStatement(p),
         cmd[p] = "up"
  PROVE  NoOrphans' /\ AppliedComplete' /\ ProgressInv(p)'
<1> DEFINE s == UpOf[File(p)]
<1>0. /\ pc[p] = "exec" /\ pc' = pc /\ cmd' = cmd /\ File(p)' = File(p)
      /\ ledger' = ledger /\ at[p] \in Nat \ {0} /\ at'[p] = at[p] + 1
      /\ at[p] <= Len(s) /\ Add(s[at[p]]) /\ ProgressInv(p)
  BY DEF ExecStatement, Script, File, TypeOK, ScriptInv
<1>1. /\ File(p) \in Files /\ s \in Seq(Objects) /\ Elems(s) \subseteq Objects
      /\ ver[p] \in Recorded(ledger) /\ ledger[ver[p]].file = File(p)
  BY <1>0, WorkingRow, ScriptFacts
<1>2. at[p] \in DOMAIN s /\ s[at[p]] \in Elems(s) /\ s[at[p]] \in Objects
  BY <1>0, <1>1 DEF Elems
<1>3. /\ owner'[s[at[p]]] # "absent"
      /\ \A o \in Objects : owner[o] # "absent" => owner'[o] = owner[o]
      /\ \A o \in Objects : o # s[at[p]] => owner'[o] = owner[o]
  BY <1>0, <1>2 DEF Add, TypeOK
<1>4. NoOrphans' /\ AppliedComplete'
  BY <1>0, <1>1, <1>2, <1>3, ObjectsAdded DEF ScriptInv
<1>5. \A i \in DOMAIN s : i < at'[p] => owner'[s[i]] # "absent"
  <2> SUFFICES ASSUME NEW i \in DOMAIN s, i < at[p] + 1 PROVE owner'[s[i]] # "absent"
    BY <1>0
  <2>1. i \in Nat /\ s[i] \in Objects
    BY <1>1
  <2>2. CASE i = at[p]
    BY <1>3, <2>2
  <2>3. CASE i < at[p]
    <3>1. owner[s[i]] # "absent"
      BY <1>0, <2>3 DEF ProgressInv, UpProgress
    <3> QED
      BY <1>3, <2>1, <3>1
  <2> QED
    BY <1>0, <2>1, <2>2, <2>3
<1>6. ProgressInv(p)'
  BY <1>0, <1>5 DEF ProgressInv, UpProgress, DownProgress
<1> QED
  BY <1>4, <1>6

\* One statement of a down script: what it drops belongs to the newest version,
\* which is dirty, and to none below it.
LEMMA ExecDown ==
  ASSUME TypeOK, LedgerInv, ScriptInv, NEW p \in Procs, ExecStatement(p),
         cmd[p] = "down"
  PROVE  NoOrphans' /\ AppliedComplete' /\ ProgressInv(p)'
<1> DEFINE s == DownOf[File(p)]
           o == s[at[p]]
<1>0. /\ pc[p] = "exec" /\ pc' = pc /\ cmd' = cmd /\ File(p)' = File(p)
      /\ ledger' = ledger /\ at[p] \in Nat \ {0} /\ at'[p] = at[p] + 1
      /\ at[p] <= Len(s) /\ Remove(o) /\ ProgressInv(p)
  BY DEF ExecStatement, Script, File, TypeOK, ScriptInv
<1>1. /\ File(p) \in Files /\ s \in Seq(Objects)
      /\ Elems(s) = Elems(UpOf[File(p)]) /\ Elems(s) \subseteq Objects
      /\ ver[p] \in Versions /\ ver[p] \in DOMAIN bin[p]
      /\ ledger[ver[p]].file = File(p) /\ ledger[ver[p]].dirty = TRUE
  BY <1>0, WorkingRow, ScriptFacts
<1>2. at[p] \in DOMAIN s /\ o \in Elems(s) /\ o \in Objects
  BY <1>0, <1>1 DEF Elems
<1>3. /\ owner'[o] = "absent"
      /\ \A x \in Objects : owner'[x] = owner[x] \/ owner'[x] = "absent"
      /\ \A x \in Objects : x # o /\ TableOf[x] # o => owner'[x] = owner[x]
  BY <1>0, <1>2 DEF Remove, TypeOK
<1>4. NoOrphans'
  <2>1. \A x \in Objects : owner'[x] = "migrated" => owner[x] = "migrated"
    BY <1>3
  <2> QED
    BY <1>0, <2>1 DEF ScriptInv, NoOrphans, Recorded
<1>5. AppliedComplete'
  <2> SUFFICES ASSUME NEW v \in Recorded(ledger), Clean(ledger[v]),
                      NEW x \in Elems(UpOf[ledger[v].file])
               PROVE  owner'[x] # "absent"
    BY <1>0 DEF AppliedComplete, Recorded, Clean
  <2>1. v # ver[p]
    BY <1>1 DEF Clean
  <2>2. v < ver[p]
    BY <1>0, <2>1, NobodyAbove, BinaryFacts DEF Recorded
  <2>3. v \in 1..(ver[p] - 1)
    BY <2>2, BinaryFacts DEF Recorded
  <2>4. ledger[v].file = bin[p][v]
    BY <1>0, <2>3, BelowApplied DEF Applied
  <2>5. bin[p] \in Binaries /\ v \in DOMAIN bin[p]
    BY <1>1, <2>3, BinaryFacts DEF TypeOK
  <2>6. x \notin Elems(UpOf[bin[p][ver[p]]]) /\ TableOf[x] \notin Elems(UpOf[bin[p][ver[p]]])
    BY <1>1, <2>3, <2>4, <2>5, ScriptsAssumption DEF MigrationsDisjoint
  <2>7. x # o /\ TableOf[x] # o
    BY <1>1, <1>2, <2>6 DEF File
  <2>8. x \in Objects
    BY <2>4, <2>5, BinaryFacts, ScriptFacts
  <2>9. owner[x] # "absent"
    BY DEF ScriptInv, AppliedComplete
  <2> QED
    BY <1>3, <2>7, <2>8, <2>9
<1>6. \A i \in DOMAIN s : i < at'[p] => owner'[s[i]] # "migrated"
  <2> SUFFICES ASSUME NEW i \in DOMAIN s, i < at[p] + 1 PROVE owner'[s[i]] # "migrated"
    BY <1>0
  <2>1. i \in Nat /\ s[i] \in Objects
    BY <1>1
  <2>2. CASE i = at[p]
    BY <1>3, <2>2
  <2>3. CASE i < at[p]
    <3>1. owner[s[i]] # "migrated"
      BY <1>0, <2>3 DEF ProgressInv, DownProgress
    <3> QED
      BY <1>3, <2>1, <3>1
  <2> QED
    BY <1>0, <2>1, <2>2, <2>3
<1>7. ProgressInv(p)'
  BY <1>0, <1>6 DEF ProgressInv, UpProgress, DownProgress
<1> QED
  BY <1>4, <1>5, <1>7

\* A process outside its script has nothing to keep but a reset counter.
LEMMA NoScript ==
  ASSUME NEW p \in Procs, pc'[p] \notin {"exec", "finish"},
         pc'[p] \in {"check", "unlock"} \/ at'[p] = 1
  PROVE  ProgressInv(p)'
  BY DEF ProgressInv, UpProgress, DownProgress

LEMMA ProgressKept ==
  ASSUME TypeOK, LedgerInv, NEW q \in Procs, ProgressInv(q),
         pc'[q] = pc[q], cmd'[q] = cmd[q], bin'[q] = bin[q], ver'[q] = ver[q],
         at'[q] = at[q],
         \/ pc[q] \notin {"exec", "finish"}
         \/ \A o \in Objects : owner'[o] = owner[o] \/
                               (owner[o] = "absent" /\ owner'[o] = "foreign")
  PROVE  ProgressInv(q)'
<1>1. CASE pc[q] \notin {"exec", "finish"}
  BY <1>1, NoScript DEF ProgressInv
<1>2. CASE pc[q] \in {"exec", "finish"}
  <2> DEFINE f == File(q)
  <2>1. File(q)' = f
    BY DEF File
  <2>2. /\ f \in Files
        /\ \A i \in DOMAIN UpOf[f] : UpOf[f][i] \in Objects
        /\ \A i \in DOMAIN DownOf[f] : DownOf[f][i] \in Objects
    <3>1. f \in Files
      BY <1>2, WorkingRow
    <3>2. UpOf[f] \in Seq(Objects) /\ DownOf[f] \in Seq(Objects)
      BY <3>1, ScriptFacts
    <3> HIDE DEF f
    <3> QED
      BY <3>1, <3>2
  <2> HIDE DEF f
  <2>3. UpProgress(q)'
    BY <1>2, <2>1, <2>2 DEF ProgressInv, UpProgress, f
  <2>4. DownProgress(q)'
    BY <1>2, <2>1, <2>2 DEF ProgressInv, DownProgress, f
  <2> QED
    BY <1>2, <2>3, <2>4 DEF ProgressInv
<1> QED
  BY <1>1, <1>2

\* A step of p that is not a statement of a script creates or drops nothing.
LEMMA OwnerKept ==
  ASSUME NEW p \in Procs,
         \/ \E c \in {"up", "down"}, b \in Binaries : Start(p, c, b)
         \/ Step(p) \/ Fault(p) \/ Crash(p)
  PROVE  owner' = owner \/ ExecStatement(p)
  BY DEF Start, Step, Fault, Crash, Forget, AcquireLock, LockTimeout, ReadLedger,
         NextVersion, CheckAbsent, InsertState, MarkDirty, ScriptDone, MarkClean,
         DeleteState, ReleaseLock

LEMMA ProgressInv_Own ==
  ASSUME TypeOK, LedgerInv, ScriptInv, NEW p \in Procs,
         \/ \E c \in {"up", "down"}, b \in Binaries : Start(p, c, b)
         \/ Step(p) \/ Fault(p) \/ Crash(p)
  PROVE  ProgressInv(p)'
<1>0. ProgressInv(p)
  BY DEF ScriptInv
<1> USE DEF Goto, TypeOK
<1>1. CASE \E c \in {"up", "down"}, b \in Binaries : Start(p, c, b)
  BY <1>0, <1>1, NoScript DEF Start, ProgressInv
<1>2. CASE AcquireLock(p)
  BY <1>0, <1>2, NoScript DEF AcquireLock, ProgressInv
<1>3. CASE LockTimeout(p) \/ ReleaseLock(p) \/ Crash(p)
  BY <1>3, NoScript DEF LockTimeout, ReleaseLock, Crash, Forget
<1>4. CASE ReadLedger(p)
  <2>1. pc[p] = "read" /\ pc'[p] \in {"next", "mark", "unlock"} /\ at' = at
    BY <1>4 DEF ReadLedger
  <2> QED
    BY <1>0, <2>1, NoScript DEF ProgressInv
<1>5. CASE NextVersion(p)
  <2>1. pc[p] = "next" /\ pc'[p] \in {"next", "check", "mark", "unlock"} /\ at' = at
    BY <1>5 DEF NextVersion
  <2> QED
    BY <1>0, <2>1, NoScript DEF ProgressInv
<1>6. CASE CheckAbsent(p)
  <2>1. pc'[p] \in {"check", "unlock"} \/ (pc'[p] = "insert" /\ at'[p] = 1)
    BY <1>6 DEF CheckAbsent
  <2> QED
    BY <2>1, NoScript
<1>7. CASE InsertState(p)
  BY <1>0, <1>7, NoScript DEF InsertState, ProgressInv
<1>8. CASE MarkDirty(p)
  <2>1. pc'[p] = "exec" /\ at'[p] = 1
    BY <1>0, <1>8 DEF MarkDirty, ProgressInv
  <2>2. LocalInv(p) /\ pc[p] = "mark" /\ File(p)' = File(p) /\ File(p) \in Files
    BY <1>8, WorkingRow DEF MarkDirty, File, LedgerInv
  <2>3. \A i \in DOMAIN UpOf[File(p)] : ~(i < 1)
    BY <2>2, ScriptFacts
  <2>4. \A i \in DOMAIN DownOf[File(p)] : ~(i < 1)
    BY <2>2, ScriptFacts
  <2> QED
    BY <2>1, <2>2, <2>3, <2>4 DEF ProgressInv, UpProgress, DownProgress
<1>9. CASE ExecStatement(p)
  BY <1>9, ExecUp, ExecDown
<1>10. CASE ScriptDone(p)
  <2>1. /\ pc[p] = "exec" /\ pc'[p] = "finish" /\ at'[p] = 1 /\ owner' = owner
        /\ cmd' = cmd /\ File(p)' = File(p) /\ at[p] > Len(Script(p))
        /\ at[p] \in Nat
    BY <1>10 DEF ScriptDone, File
  <2>2. File(p) \in Files
    BY <2>1, WorkingRow
  <2>3. ASSUME cmd[p] = "up"
        PROVE  \A i \in DOMAIN UpOf[File(p)] : owner[UpOf[File(p)][i]] # "absent"
    <3>1. \A i \in DOMAIN UpOf[File(p)] : i < at[p]
      BY <2>1, <2>2, <2>3, ScriptFacts DEF Script
    <3> QED
      BY <1>0, <2>1, <2>3, <3>1 DEF ProgressInv, UpProgress
  <2>4. ASSUME cmd[p] = "down"
        PROVE  \A i \in DOMAIN DownOf[File(p)] : owner[DownOf[File(p)][i]] # "migrated"
    <3>1. \A i \in DOMAIN DownOf[File(p)] : i < at[p]
      BY <2>1, <2>2, <2>4, ScriptFacts DEF Script
    <3> QED
      BY <1>0, <2>1, <2>4, <3>1 DEF ProgressInv, DownProgress
  <2> QED
    BY <2>1, <2>3, <2>4 DEF ProgressInv, UpProgress, DownProgress
<1>11. CASE MarkClean(p)
  BY <1>0, <1>11, NoScript DEF MarkClean, ProgressInv
<1>12. CASE DeleteState(p)
  BY <1>0, <1>12, NoScript DEF DeleteState, ProgressInv
<1>13. CASE Fault(p)
  BY <1>13, NoScript DEF Fault
<1> QED
  BY <1>1, <1>2, <1>3, <1>4, <1>5, <1>6, <1>7, <1>8, <1>9, <1>10, <1>11, <1>12,
     <1>13 DEF Step

LEMMA ProgressInv_Next ==
  ASSUME TypeOK, LedgerInv, ScriptInv, [Next]_vars, NEW q \in Procs
  PROVE  ProgressInv(q)'
<1>0. Mutex /\ ProgressInv(q)
  BY DEF LedgerInv, ScriptInv
<1>1. ASSUME NEW p \in Procs,
             \/ \E c \in {"up", "down"}, b \in Binaries : Start(p, c, b)
             \/ Step(p) \/ Fault(p) \/ Crash(p)
      PROVE  ProgressInv(q)'
  <2>1. CASE p = q
    BY <1>1, <2>1, ProgressInv_Own
  <2>2. CASE p # q
    <3>1. ExecStatement(p) => pc[q] \notin {"exec", "finish"}
      BY <1>0, <2>2 DEF Mutex, Locked, ExecStatement
    <3>2. owner' = owner \/ pc[q] \notin {"exec", "finish"}
      BY <1>1, <3>1, OwnerKept
    <3>3. /\ pc'[q] = pc[q] /\ cmd'[q] = cmd[q] /\ bin'[q] = bin[q]
          /\ ver'[q] = ver[q] /\ at'[q] = at[q]
      BY <1>1, <2>2, OthersStandStill
    <3> QED
      BY <1>0, <3>2, <3>3, ProgressKept
  <2> QED
    BY <2>1, <2>2
<1>2. ASSUME NEW t \in Tables, ForeignCreate(t) PROVE ProgressInv(q)'
  <2>1. \A o \in Objects : owner'[o] = owner[o] \/
                           (owner[o] = "absent" /\ owner'[o] = "foreign")
    BY <1>2 DEF ForeignCreate, TypeOK
  <2> QED
    BY <1>0, <1>2, <2>1, ProgressKept DEF ForeignCreate, locals
<1>3. CASE UNCHANGED vars
  BY <1>0, <1>3, ProgressKept DEF vars, locals
<1> QED
  BY <1>1, <1>2, <1>3 DEF Next

LEMMA Objects_Next ==
  TypeOK /\ LedgerInv /\ ScriptInv /\ [Next]_vars => NoOrphans' /\ AppliedComplete'
<1> SUFFICES ASSUME TypeOK, LedgerInv, ScriptInv, [Next]_vars
             PROVE  NoOrphans' /\ AppliedComplete'
  OBVIOUS
<1>0. NoOrphans /\ AppliedComplete /\ \A p \in Procs : ProgressInv(p)
  BY DEF ScriptInv
<1>1. ASSUME owner' = owner, ledger' = ledger PROVE NoOrphans' /\ AppliedComplete'
  BY <1>0, <1>1, ObjectsKept
<1>2. ASSUME NEW p \in Procs, InsertState(p) PROVE NoOrphans' /\ AppliedComplete'
  <2> DEFINE r == [file |-> File(p), dirty |-> TRUE, direction |-> "up"]
  <2>1. ver[p] \in Versions /\ File(p) \in Files
    BY <1>2, WorkingVersion DEF InsertState, Goto, LedgerInv
  <2>2. r \in Row /\ r.dirty /\ ledger[ver[p]] = NoRow
        /\ ledger' = [ledger EXCEPT ![ver[p]] = r] /\ owner' = owner
    BY <1>2, <2>1 DEF InsertState, Row
  <2> HIDE DEF r
  <2> QED
    BY <1>0, <2>1, <2>2, RowWritten
<1>3. ASSUME NEW p \in Procs, NEW d \in BOOLEAN, NEW dir \in {"up", "down"},
             UpdateRow(ver[p], d, dir), owner' = owner, pc[p] \in {"mark", "finish"},
             d \/ \A o \in Elems(UpOf[File(p)]) : owner[o] # "absent"
      PROVE  NoOrphans' /\ AppliedComplete'
  <2>1. /\ ver[p] \in Versions /\ ledger[ver[p]] # NoRow
        /\ ledger[ver[p]].file = File(p)
    BY <1>3, WorkingRow DEF Recorded
  <2>2. PICK r \in Row : /\ ledger' = [ledger EXCEPT ![ver[p]] = r]
                         /\ r.file = ledger[ver[p]].file /\ r.dirty = d
    BY <1>3, <2>1, UpdateRowEffect
  <2> QED
    BY <1>0, <1>3, <2>1, <2>2, RowWritten
<1>4. ASSUME NEW p \in Procs, MarkDirty(p) PROVE NoOrphans' /\ AppliedComplete'
  BY <1>3, <1>4 DEF MarkDirty, Goto, TypeOK
<1>5. ASSUME NEW p \in Procs, MarkClean(p) PROVE NoOrphans' /\ AppliedComplete'
  <2>1. pc[p] = "finish" /\ cmd[p] = "up" /\ owner' = owner
        /\ UpdateRow(ver[p], FALSE, "up")
    BY <1>5 DEF MarkClean, Goto
  <2>2. \A i \in DOMAIN UpOf[File(p)] : owner[UpOf[File(p)][i]] # "absent"
    BY <1>0, <2>1 DEF ProgressInv, UpProgress
  <2>3. \A o \in Elems(UpOf[File(p)]) : owner[o] # "absent"
    BY <2>2 DEF Elems
  <2> QED
    BY <1>3, <2>1, <2>3
<1>6. ASSUME NEW p \in Procs, DeleteState(p) PROVE NoOrphans' /\ AppliedComplete'
  <2>1. /\ pc[p] = "finish" /\ cmd[p] = "down" /\ owner' = owner
        /\ ledger' = [ledger EXCEPT ![ver[p]] = NoRow]
    BY <1>6 DEF DeleteState, Goto
  <2>2. /\ ledger[ver[p]].file = File(p) /\ File(p) \in Files
        /\ \A v \in Versions : ledger'[v] = IF v = ver[p] THEN NoRow ELSE ledger[v]
    BY <2>1, WorkingRow DEF TypeOK
  <2>3. \A i \in DOMAIN DownOf[File(p)] : owner[DownOf[File(p)][i]] # "migrated"
    BY <1>0, <2>1 DEF ProgressInv, DownProgress
  <2>4. \A o \in Elems(DownOf[File(p)]) : owner[o] # "migrated"
    BY <2>3 DEF Elems
  <2>5. \A o \in Elems(UpOf[File(p)]) : owner[o] # "migrated"
    BY <2>2, <2>4, ScriptFacts
  <2>6. NoOrphans'
    BY <1>0, <2>1, <2>2, <2>5 DEF NoOrphans, Recorded
  <2>7. AppliedComplete'
    BY <1>0, <2>1, <2>2 DEF AppliedComplete, Recorded, Clean
  <2> QED
    BY <2>6, <2>7
<1>7. ASSUME NEW p \in Procs,
             \/ \E c \in {"up", "down"}, b \in Binaries : Start(p, c, b)
             \/ Fault(p) \/ Crash(p)
      PROVE  NoOrphans' /\ AppliedComplete'
  BY <1>1, <1>7 DEF Start, Fault, Crash, Forget
<1>8. ASSUME NEW p \in Procs, ExecStatement(p) PROVE NoOrphans' /\ AppliedComplete'
  BY <1>8, ExecUp, ExecDown DEF TypeOK
<1>9. ASSUME NEW p \in Procs, Step(p) PROVE NoOrphans' /\ AppliedComplete'
  BY <1>1, <1>2, <1>4, <1>5, <1>6, <1>8, <1>9
  DEF Step, AcquireLock, LockTimeout, ReadLedger, NextVersion, CheckAbsent,
      ScriptDone, ReleaseLock, Forget
<1>10. ASSUME NEW t \in Tables, ForeignCreate(t) PROVE NoOrphans' /\ AppliedComplete'
  <2>1. /\ ledger' = ledger
        /\ \A o \in Objects : owner[o] # "absent" => owner'[o] = owner[o]
        /\ \A o \in Objects : owner'[o] = owner[o] \/ owner'[o] = "foreign"
    BY <1>10 DEF ForeignCreate, TypeOK
  <2> QED
    BY <1>0, <2>1, ObjectsAdded
<1> QED
  BY <1>1, <1>7, <1>9, <1>10 DEF Next, vars

LEMMA ScriptAlways == Spec => [](TypeOK /\ LedgerInv /\ ScriptInv)
<1>1. Init => ScriptInv
  BY DEF Init, ScriptInv, NoOrphans, AppliedComplete, Recorded, EmptyLedger,
         ProgressInv, UpProgress, DownProgress
<1>2. TypeOK /\ LedgerInv /\ ScriptInv /\ [Next]_vars => ScriptInv'
  BY Objects_Next, ProgressInv_Next DEF ScriptInv
<1> QED
  BY <1>1, <1>2, LedgerAlways, PTL DEF Spec

\* A version recorded as applied has everything its script creates, after any
\* number of crashes, retries and partial rollbacks.
THEOREM AppliedStaysComplete == Spec => []AppliedComplete
<1>1. ScriptInv => AppliedComplete
  BY DEF ScriptInv
<1> QED
  BY <1>1, ScriptAlways, PTL

\* What a migration created is always under a row of the ledger, so a retry or
\* a rollback finds it.
THEOREM NothingIsOrphaned == Spec => []NoOrphans
<1>1. ScriptInv => NoOrphans
  BY DEF ScriptInv
<1> QED
  BY <1>1, ScriptAlways, PTL

------------------------------------------------------------------------------
(* Refinement of SchemaHistory: the ledger as the stack of what is applied.  *)

Stack == [v \in CleanVersions |-> ledger[v].file]
Changing == IF Dirty THEN ledger[DirtyVersion].file ELSE NoRow
Undoing == Dirty /\ ledger[DirtyVersion].direction = "down"

\* n versions are applied and nothing is half done, or the next one is.
Tidy(states, n) ==
  Recorded(states) = 1..n /\ \A v \in 1..n : Clean(states[v])
Broken(states, n) ==
  /\ Recorded(states) = 1..(n + 1) /\ \A v \in 1..n : Clean(states[v])
  /\ states[n + 1].dirty

StackRead ==
  \A n \in Nat :
    /\ Tidy(ledger, n) =>
         /\ Stack = [v \in 1..n |-> ledger[v].file]
         /\ Changing = NoRow /\ ~Undoing
    /\ Broken(ledger, n) =>
         /\ Stack = [v \in 1..n |-> ledger[v].file]
         /\ Changing = ledger[n + 1].file
         /\ (Undoing <=> ledger[n + 1].direction = "down")

LEMMA StackIsRead == StackRead
<1> SUFFICES ASSUME NEW n \in Nat
             PROVE  /\ Tidy(ledger, n) =>
                         /\ Stack = [v \in 1..n |-> ledger[v].file]
                         /\ Changing = NoRow /\ ~Undoing
                    /\ Broken(ledger, n) =>
                         /\ Stack = [v \in 1..n |-> ledger[v].file]
                         /\ Changing = ledger[n + 1].file
                         /\ (Undoing <=> ledger[n + 1].direction = "down")
  BY DEF StackRead
<1>1. ASSUME Tidy(ledger, n)
      PROVE  /\ Stack = [v \in 1..n |-> ledger[v].file]
             /\ Changing = NoRow /\ ~Undoing
  <2>1. CleanVersions = 1..n
    BY <1>1 DEF Tidy, CleanVersions
  <2>2. ~Dirty
    BY <1>1 DEF Tidy, Dirty, Clean
  <2> QED
    BY <2>1, <2>2 DEF Stack, Changing, Undoing
<1>2. ASSUME Broken(ledger, n)
      PROVE  /\ Stack = [v \in 1..n |-> ledger[v].file]
             /\ Changing = ledger[n + 1].file
             /\ (Undoing <=> ledger[n + 1].direction = "down")
  <2>1. CleanVersions = 1..n
    BY <1>2 DEF Broken, CleanVersions, Clean
  <2>2. Dirty
    BY <1>2 DEF Broken, Dirty
  <2>3. DirtyVersion = n + 1
    <3>1. n + 1 \in Recorded(ledger) /\ ledger[n + 1].dirty
      BY <1>2 DEF Broken
    <3>2. \A v \in Recorded(ledger) : ledger[v].dirty => v = n + 1
      BY <1>2 DEF Broken, Clean
    <3> QED
      BY <3>1, <3>2 DEF DirtyVersion
  <2> QED
    BY <2>1, <2>2, <2>3 DEF Stack, Changing, Undoing
<1> QED
  BY <1>1, <1>2

LEMMA StackIsReadNext == StackRead'
BY StackIsRead, PTL

\* Where a process works on the ledger, its version is the newest or the next one.
LEMMA WorkingShape ==
  ASSUME TypeOK, LedgerInv, NEW p \in Procs, pc[p] \in {"insert", "mark", "exec", "finish"}
  PROVE  /\ ledger[ver[p]] = NoRow => Tidy(ledger, ver[p] - 1)
         /\ ledger[ver[p]] # NoRow /\ ledger[ver[p]].dirty => Broken(ledger, ver[p] - 1)
         /\ ledger[ver[p]] # NoRow /\ ~ledger[ver[p]].dirty => Tidy(ledger, ver[p])
<1>1. /\ ver[p] \in Versions /\ ver[p] \in Nat \ {0} /\ Versions \subseteq Nat \ {0}
      /\ 1..(ver[p] - 1) \subseteq Versions
  <2>1. LocalInv(p)
    BY DEF LedgerInv
  <2>2. ver[p] \in DOMAIN bin[p] /\ ver[p] \in Versions
    BY <2>1, WorkingVersion
  <2> QED
    BY <2>2, BinaryFacts
<1>2. \A u \in 1..(ver[p] - 1) : Clean(ledger[u])
  BY BelowApplied
<1>3. \A v \in Recorded(ledger) : v <= ver[p]
  BY NobodyAbove
<1>4. \A v \in Recorded(ledger) : v \in 1..ver[p] /\ (v = ver[p] \/ v \in 1..(ver[p] - 1))
  BY <1>1, <1>3 DEF Recorded
<1>5. \A u \in 1..(ver[p] - 1) : u \in Recorded(ledger)
  BY <1>1, <1>2 DEF Recorded, Clean
<1>6. CASE ledger[ver[p]] = NoRow
  <2>1. Recorded(ledger) = 1..(ver[p] - 1)
    BY <1>4, <1>5, <1>6 DEF Recorded
  <2> QED
    BY <1>2, <1>6, <2>1 DEF Tidy
<1>7. CASE ledger[ver[p]] # NoRow
  <2>1. Recorded(ledger) = 1..ver[p]
    <3>1. \A v \in 1..ver[p] : v = ver[p] \/ v \in 1..(ver[p] - 1)
      BY <1>1
    <3> QED
      BY <1>1, <1>4, <1>5, <1>7, <3>1 DEF Recorded
  <2>2. (ver[p] - 1) + 1 = ver[p] /\ \A v \in 1..ver[p] : v = ver[p] \/ v \in 1..(ver[p] - 1)
    BY <1>1
  <2>3. ledger[ver[p]].dirty => Broken(ledger, ver[p] - 1)
    BY <1>2, <2>1, <2>2 DEF Broken
  <2>4. ~ledger[ver[p]].dirty => Tidy(ledger, ver[p])
    BY <1>2, <1>7, <2>1, <2>2 DEF Tidy, Clean
  <2> QED
    BY <1>7, <2>3, <2>4
<1> QED
  BY <1>6, <1>7

\* The files of the versions 1..n of a ledger.
Names(states, n) == [v \in 1..n |-> states[v].file]

LEMMA NamesFacts ==
  ASSUME NEW states, NEW n \in Nat, \A v \in 1..n : states[v].file \in Files
  PROVE  /\ Names(states, n) \in Seq(Files) /\ Len(Names(states, n)) = n
         /\ \A v \in 1..n : Names(states, n)[v] = states[v].file
BY DEF Names

\* One more version, and one less.
LEMMA NamesAppend ==
  ASSUME NEW states, NEW n \in Nat, \A v \in 1..(n + 1) : states[v].file \in Files
  PROVE  Names(states, n + 1) = Append(Names(states, n), states[n + 1].file)
<1> DEFINE s == Names(states, n)
           t == Names(states, n + 1)
           f == states[n + 1].file
<1>1. s \in Seq(Files) /\ Len(s) = n /\ f \in Files
      /\ \A v \in 1..n : s[v] = states[v].file
  BY NamesFacts
<1>2. t \in Seq(Files) /\ Len(t) = n + 1 /\ \A v \in 1..(n + 1) : t[v] = states[v].file
  BY NamesFacts
<1> HIDE DEF s, t, f
<1>3. /\ Append(s, f) \in Seq(Files) /\ Len(Append(s, f)) = n + 1
      /\ \A v \in 1..n : Append(s, f)[v] = s[v]
      /\ Append(s, f)[n + 1] = f
  BY <1>1, AppendProperties
<1>4. \A v \in 1..(n + 1) : t[v] = Append(s, f)[v]
  <2> SUFFICES ASSUME NEW v \in 1..(n + 1) PROVE t[v] = Append(s, f)[v]
    OBVIOUS
  <2>1. CASE v = n + 1
    BY <1>2, <1>3, <2>1 DEF f
  <2>2. CASE v # n + 1
    BY <1>1, <1>2, <1>3, <2>2
  <2> QED
    BY <2>1, <2>2
<1> QED
  BY <1>2, <1>3, <1>4, SeqEqual DEF s, t, f

LEMMA NamesShorten ==
  ASSUME NEW states, NEW n \in Nat, \A v \in 1..(n + 1) : states[v].file \in Files
  PROVE  SubSeq(Names(states, n + 1), 1, Len(Names(states, n + 1)) - 1) = Names(states, n)
<1>1. /\ Names(states, n) \in Seq(Files) /\ Len(Names(states, n)) = n
      /\ \A v \in 1..n : Names(states, n)[v] = states[v].file
  BY NamesFacts
<1>2. /\ Names(states, n + 1) \in Seq(Files) /\ Len(Names(states, n + 1)) = n + 1
      /\ \A v \in 1..(n + 1) : Names(states, n + 1)[v] = states[v].file
  BY NamesFacts
<1> DEFINE s == Names(states, n)
           t == Names(states, n + 1)
<1> HIDE DEF s, t
<1>3. \A v \in 1..n : t[v] \in Files /\ t[v] = s[v]
  BY <1>1, <1>2 DEF s, t
<1>4. /\ SubSeq(t, 1, n) \in Seq(Files) /\ Len(SubSeq(t, 1, n)) = n
      /\ \A v \in 1..n : SubSeq(t, 1, n)[v] = t[v]
  <2>1. /\ SubSeq(t, 1, n) \in Seq(Files)
        /\ Len(SubSeq(t, 1, n)) = IF 1 <= n THEN n - 1 + 1 ELSE 0
        /\ \A i \in 1..(n - 1 + 1) : SubSeq(t, 1, n)[i] = t[1 + i - 1]
    BY <1>3, SubSeqProperties
  <2> QED
    BY <2>1
<1>5. s \in Seq(Files) /\ Len(s) = n
  BY <1>1 DEF s
<1>6. SubSeq(t, 1, n) = s
  BY <1>3, <1>4, <1>5, SeqEqual
<1>7. Len(t) - 1 = n
  BY <1>2 DEF t
<1> QED
  BY <1>6, <1>7 DEF s, t

LEMMA RowFiles ==
  ASSUME TypeOK, NEW v \in Versions, ledger[v] # NoRow
  PROVE  ledger[v] \in Row /\ ledger[v].file \in Files
BY DEF TypeOK, Row

\* The four steps of the stack.
LEMMA StackInsert ==
  ASSUME TypeOK, LedgerInv, NEW p \in Procs, InsertState(p)
  PROVE  History!BeginUp(File(p)) /\ File(p) \in Files
<1> DEFINE n == ver[p] - 1
<1>1. LocalInv(p) /\ pc[p] = "insert" /\ ledger[ver[p]] = NoRow
  BY DEF LedgerInv, InsertState, Goto
<1>2. File(p) \in Files /\ ver[p] \in DOMAIN bin[p] /\ ver[p] \in Versions
  BY <1>1, WorkingVersion
<1>3. n \in Nat /\ n + 1 = ver[p] /\ DOMAIN bin[p] = 1..Len(bin[p]) /\ Len(bin[p]) \in Nat
      /\ bin[p] \in Seq(Files) /\ bin[p] \in Binaries
  BY BinaryFacts DEF TypeOK
<1>4. Tidy(ledger, n)
  BY <1>1, WorkingShape
<1>5. \A u \in 1..n : ledger[u].file = bin[p][u] /\ bin[p][u] \in Files
  <2>1. \A u \in 1..n : Applied(ledger[u], bin[p][u])
    BY <1>1, BelowApplied
  <2>2. \A u \in 1..n : u \in DOMAIN bin[p]
    BY <1>2, <1>3
  <2> QED
    BY <2>1, <2>2, BinaryFacts DEF Applied
<1> DEFINE new == [file |-> File(p), dirty |-> TRUE, direction |-> "up"]
<1>6. ledger' = [ledger EXCEPT ![n + 1] = new] /\ new # NoRow
  <2>1. new \in Row
    BY <1>2 DEF Row
  <2> QED
    BY <1>3, <2>1, ProcsAssumption DEF InsertState
<1>7. /\ ledger'[n + 1] = new
      /\ \A v \in Versions : v # n + 1 => ledger'[v] = ledger[v]
  BY <1>2, <1>3, <1>6 DEF TypeOK
<1>8. \A u \in 1..n : u \in Versions /\ u # n + 1
  BY <1>3, <1>4 DEF Tidy, Recorded
<1>9. Broken(ledger', n)
  <2>1. Recorded(ledger') = 1..(n + 1)
    <3>1. Recorded(ledger') = Recorded(ledger) \union {n + 1}
      BY <1>2, <1>3, <1>6, <1>7 DEF Recorded
    <3>2. (1..n) \union {n + 1} = 1..(n + 1)
      BY <1>3
    <3> QED
      BY <1>4, <3>1, <3>2 DEF Tidy
  <2>2. \A u \in 1..n : Clean(ledger'[u])
    BY <1>4, <1>7, <1>8 DEF Tidy
  <2> QED
    BY <1>7, <2>1, <2>2 DEF Broken
<1>10. Names(ledger', n) = Names(ledger, n)
  BY <1>7, <1>8 DEF Names
<1>11. Stack = Names(ledger, n) /\ Changing = NoRow /\ ~Undoing
  BY <1>3, <1>4, StackIsRead DEF StackRead, Names
<1>12. Stack' = Names(ledger', n) /\ Changing' = File(p) /\ ~Undoing'
  BY <1>3, <1>7, <1>9, StackIsReadNext DEF StackRead, Names
<1>13. History!Begins(Append(Stack, File(p)), bin[p])
  <2>1. /\ Names(ledger, n) \in Seq(Files) /\ Len(Names(ledger, n)) = n
        /\ \A v \in 1..n : Names(ledger, n)[v] = bin[p][v]
    BY <1>3, <1>5, NamesFacts
  <2> DEFINE s == Names(ledger, n)
             t == Append(s, File(p))
  <2> HIDE DEF s
  <2>2. Len(t) = n + 1 /\ t[n + 1] = File(p) /\ \A v \in 1..n : t[v] = s[v]
    BY <1>2, <2>1, AppendProperties DEF s
  <2> HIDE DEF t
  <2>3. \A i \in 1..(n + 1) : t[i] = bin[p][i]
    <3> SUFFICES ASSUME NEW i \in 1..(n + 1) PROVE t[i] = bin[p][i]
      OBVIOUS
    <3>1. CASE i = n + 1
      BY <1>3, <2>2, <3>1 DEF File
    <3>2. CASE i # n + 1
      <4>1. i \in 1..n
        BY <1>3, <3>2
      <4>2. t[i] = s[i] /\ s[i] = bin[p][i]
        BY <2>1, <2>2, <4>1 DEF s
      <4> QED
        BY <4>2
    <3> QED
      BY <3>1, <3>2
  <2>4. n + 1 <= Len(bin[p])
    BY <1>2, <1>3
  <2> QED
    BY <1>11, <2>2, <2>3, <2>4 DEF History!Begins, s, t
<1> HIDE DEF n, new
<1> QED
  BY <1>2, <1>3, <1>10, <1>11, <1>12, <1>13 DEF History!BeginUp, Stack, Changing, Undoing

\* A write to the newest row leaves the ones below it alone.
LEMMA TopWritten ==
  ASSUME TypeOK, NEW n \in Nat, 1..(n + 1) = Recorded(ledger),
         NEW r \in Row \union {NoRow}, ledger' = [ledger EXCEPT ![n + 1] = r]
  PROVE  /\ n + 1 \in Versions /\ ledger'[n + 1] = r
         /\ \A u \in 1..n : ledger'[u] = ledger[u] /\ ledger[u].file \in Files
         /\ Names(ledger', n) = Names(ledger, n)
         /\ Recorded(ledger') = IF r = NoRow THEN 1..n ELSE 1..(n + 1)
<1>1. n + 1 \in Recorded(ledger) /\ \A u \in 1..n : u \in Recorded(ledger) /\ u # n + 1
  OBVIOUS
<1>2. n + 1 \in Versions /\ ledger'[n + 1] = r
  BY <1>1 DEF Recorded, TypeOK
<1>3. \A u \in 1..n : ledger'[u] = ledger[u] /\ ledger[u].file \in Files
  <2> SUFFICES ASSUME NEW u \in 1..n
               PROVE  ledger'[u] = ledger[u] /\ ledger[u].file \in Files
    OBVIOUS
  <2>1. u \in Versions /\ ledger[u] # NoRow /\ u # n + 1
    BY <1>1 DEF Recorded
  <2> QED
    BY <2>1, RowFiles DEF TypeOK
<1>4. Names(ledger', n) = Names(ledger, n)
  BY <1>3 DEF Names
<1>5. \A v \in Versions : v # n + 1 => ledger'[v] = ledger[v]
  BY DEF TypeOK
<1>6. CASE r = NoRow
  <2>1. Recorded(ledger') = Recorded(ledger) \ {n + 1}
    BY <1>2, <1>5, <1>6 DEF Recorded
  <2>2. (1..(n + 1)) \ {n + 1} = 1..n
    OBVIOUS
  <2> QED
    BY <1>2, <1>3, <1>4, <1>6, <2>1, <2>2
<1>7. CASE r # NoRow
  <2>1. Recorded(ledger') = Recorded(ledger)
    BY <1>1, <1>2, <1>5, <1>7 DEF Recorded
  <2> QED
    BY <1>2, <1>3, <1>4, <1>7, <2>1
<1> QED
  BY <1>6, <1>7

LEMMA StackMark ==
  ASSUME TypeOK, LedgerInv, NEW p \in Procs, MarkDirty(p)
  PROVE  History!BeginDown \/ UNCHANGED ledger
<1> DEFINE n == ver[p] - 1
<1>1. LocalInv(p) /\ pc[p] = "mark" /\ cmd[p] \in {"up", "down"}
  BY DEF LedgerInv, MarkDirty, Goto, TypeOK
<1>2. ver[p] \in Versions /\ ver[p] \in DOMAIN bin[p] /\ n \in Nat /\ n + 1 = ver[p]
  BY <1>1, WorkingVersion, BinaryFacts
<1>3. ledger[ver[p]] # NoRow
  BY <1>1 DEF LocalInv, UpInv, DownInv, HalfDone, IsLatest, Recorded
<1>4. ledger[ver[p]] \in Row /\ ledger[ver[p]].file \in Files
  BY <1>2, <1>3, RowFiles
<1>5. PICK r \in Row : /\ ledger' = [ledger EXCEPT ![ver[p]] = r]
                       /\ r.file = ledger[ver[p]].file
                       /\ r.dirty = TRUE /\ r.direction = cmd[p]
  BY <1>1, <1>2, <1>3, UpdateRowEffect DEF MarkDirty
<1>6. CASE ledger[ver[p]].dirty
  <2>1. ledger[ver[p]].direction = cmd[p]
    <3>1. CASE cmd[p] = "up"
      BY <1>1, <3>1 DEF LocalInv, UpInv, HalfDone
    <3>2. CASE cmd[p] = "down"
      BY <1>1, <1>6, <3>2 DEF LocalInv, DownInv, Undoable
    <3> QED
      BY <1>1, <3>1, <3>2
  <2>2. r = ledger[ver[p]]
    BY <1>4, <1>5, <1>6, <2>1 DEF Row
  <2> QED
    BY <1>2, <1>5, <2>2 DEF TypeOK
<1>7. CASE ~ledger[ver[p]].dirty
  <2>1. cmd[p] = "down"
    BY <1>1, <1>7 DEF LocalInv, UpInv, HalfDone
  <2>2. Tidy(ledger, n + 1)
    BY <1>1, <1>2, <1>3, <1>7, WorkingShape
  <2>3. r # NoRow /\ r \in Row \union {NoRow}
    BY ProcsAssumption
  <2>4. /\ ledger'[n + 1] = r /\ \A u \in 1..n : ledger'[u] = ledger[u]
        /\ \A u \in 1..n : ledger[u].file \in Files
        /\ Names(ledger', n) = Names(ledger, n)
        /\ Recorded(ledger') = 1..(n + 1)
    <3>1. ledger' = [ledger EXCEPT ![n + 1] = r] /\ 1..(n + 1) = Recorded(ledger)
      BY <1>2, <1>5, <2>2 DEF Tidy
    <3> HIDE DEF n
    <3> QED
      BY <1>2, <2>3, <3>1, TopWritten
  <2>5. Broken(ledger', n)
    BY <1>2, <1>5, <2>2, <2>4 DEF Broken, Tidy
  <2>6. \A v \in 1..(n + 1) : ledger[v].file \in Files
    <3>1. \A v \in 1..(n + 1) : v \in 1..n \/ v = n + 1
      BY <1>2
    <3> QED
      BY <1>2, <1>4, <2>4, <3>1
  <2>7. Stack = Names(ledger, n + 1) /\ Changing = NoRow /\ ~Undoing
    BY <1>2, <2>2, StackIsRead DEF StackRead, Names
  <2>8. Stack' = Names(ledger', n) /\ Changing' = ledger[n + 1].file /\ Undoing'
    BY <1>2, <1>5, <2>1, <2>4, <2>5, StackIsReadNext DEF StackRead, Names
  <2> HIDE DEF n
  <2>9. Stack' = SubSeq(Stack, 1, Len(Stack) - 1)
    BY <1>2, <2>4, <2>6, <2>7, <2>8, NamesShorten
  <2>10. Len(Stack) = n + 1 /\ Stack[n + 1] = ledger[n + 1].file /\ Stack # << >>
    <3>1. Stack \in Seq(Files) /\ Len(Stack) = n + 1 /\ n + 1 \in 1..(n + 1)
          /\ \A v \in 1..(n + 1) : Stack[v] = ledger[v].file
      BY <1>2, <2>6, <2>7, NamesFacts
    <3> QED
      BY <1>2, <3>1
  <2> QED
    BY <2>7, <2>8, <2>9, <2>10 DEF History!BeginDown, Stack, Changing, Undoing
<1> QED
  BY <1>6, <1>7

LEMMA StackFinish ==
  ASSUME TypeOK, LedgerInv, NEW p \in Procs, MarkClean(p)
  PROVE  History!FinishUp
<1> DEFINE n == ver[p] - 1
<1>1. LocalInv(p) /\ pc[p] = "finish" /\ cmd[p] = "up"
  BY DEF LedgerInv, MarkClean, Goto
<1>2. ver[p] \in Versions /\ n \in Nat /\ n + 1 = ver[p]
  BY <1>1, WorkingVersion, BinaryFacts
<1>3. HalfDone(ledger[ver[p]], File(p), "up")
  BY <1>1 DEF LocalInv, UpInv
<1>4. Broken(ledger, n) /\ ledger[ver[p]] # NoRow
  BY <1>1, <1>3, WorkingShape DEF HalfDone
<1>5. PICK r \in Row : /\ ledger' = [ledger EXCEPT ![ver[p]] = r]
                       /\ r.file = ledger[ver[p]].file
                       /\ r.dirty = FALSE /\ r.direction = "up"
  BY <1>1, <1>2, <1>4, UpdateRowEffect DEF MarkClean
<1>6. ledger[ver[p]].file \in Files
  BY <1>2, <1>4, RowFiles
<1>7. r # NoRow /\ r \in Row \union {NoRow}
  BY ProcsAssumption
<1>8. /\ ledger'[n + 1] = r /\ \A u \in 1..n : ledger'[u] = ledger[u]
      /\ \A u \in 1..n : ledger[u].file \in Files
      /\ Names(ledger', n) = Names(ledger, n)
      /\ Recorded(ledger') = 1..(n + 1)
  <2>1. ledger' = [ledger EXCEPT ![n + 1] = r] /\ 1..(n + 1) = Recorded(ledger)
    BY <1>2, <1>4, <1>5 DEF Broken
  <2> HIDE DEF n
  <2> QED
    BY <1>2, <1>7, <2>1, TopWritten
<1>9. \A v \in 1..(n + 1) : v \in 1..n \/ v = n + 1
  BY <1>2
<1>10. Tidy(ledger', n + 1)
  BY <1>4, <1>5, <1>7, <1>8, <1>9 DEF Tidy, Broken, Clean
<1>11. \A v \in 1..(n + 1) : ledger'[v].file \in Files
  BY <1>2, <1>5, <1>6, <1>8, <1>9
<1>12. Stack = Names(ledger, n) /\ Changing = ledger[n + 1].file /\ ~Undoing
  BY <1>2, <1>3, <1>4, StackIsRead DEF StackRead, Names, HalfDone
<1>13. Stack' = Names(ledger', n + 1) /\ Changing' = NoRow /\ ~Undoing'
  BY <1>2, <1>10, StackIsReadNext DEF StackRead, Names
<1>14. ledger'[n + 1].file = ledger[n + 1].file /\ ledger[n + 1].file # NoRow
  BY <1>2, <1>5, <1>6, <1>8, ProcsAssumption
<1> HIDE DEF n
<1>15. Stack' = Append(Stack, Changing)
  BY <1>2, <1>8, <1>11, <1>12, <1>13, <1>14, NamesAppend
<1> QED
  BY <1>12, <1>13, <1>14, <1>15 DEF History!FinishUp, Stack, Changing, Undoing

LEMMA StackDelete ==
  ASSUME TypeOK, LedgerInv, NEW p \in Procs, DeleteState(p)
  PROVE  History!FinishDown
<1> DEFINE n == ver[p] - 1
<1>1. LocalInv(p) /\ pc[p] = "finish" /\ cmd[p] = "down"
  BY DEF LedgerInv, DeleteState, Goto
<1>2. ver[p] \in Versions /\ n \in Nat /\ n + 1 = ver[p]
  BY <1>1, WorkingVersion, BinaryFacts
<1>3. HalfDone(ledger[ver[p]], File(p), "down")
  BY <1>1 DEF LocalInv, DownInv
<1>4. Broken(ledger, n) /\ ledger[ver[p]] # NoRow
  BY <1>1, <1>3, WorkingShape DEF HalfDone
<1>5. ledger[ver[p]].file \in Files
  BY <1>2, <1>4, RowFiles
<1>6. /\ \A u \in 1..n : ledger'[u] = ledger[u]
      /\ Names(ledger', n) = Names(ledger, n)
      /\ Recorded(ledger') = 1..n
  <2>1. ledger' = [ledger EXCEPT ![n + 1] = NoRow] /\ 1..(n + 1) = Recorded(ledger)
    BY <1>2, <1>4 DEF Broken, DeleteState
  <2> HIDE DEF n
  <2> QED
    BY <1>2, <2>1, TopWritten
<1>7. Tidy(ledger', n)
  BY <1>4, <1>6 DEF Tidy, Broken
<1>8. Stack = Names(ledger, n) /\ Changing = ledger[n + 1].file /\ Undoing
  BY <1>2, <1>3, <1>4, StackIsRead DEF StackRead, Names, HalfDone
<1>9. Stack' = Names(ledger', n) /\ Changing' = NoRow /\ ~Undoing'
  BY <1>2, <1>7, StackIsReadNext DEF StackRead, Names
<1>10. ledger[n + 1].file # NoRow
  BY <1>2, <1>5, ProcsAssumption
<1> HIDE DEF n
<1> QED
  BY <1>6, <1>8, <1>9, <1>10 DEF History!FinishDown, Stack, Changing, Undoing

LEMMA StackStep ==
  ASSUME TypeOK, LedgerInv, [Next]_vars
  PROVE  [History!Next]_(History!vars)
<1>1. ASSUME UNCHANGED ledger PROVE UNCHANGED History!vars
  BY <1>1 DEF History!vars, CleanVersions, Dirty, DirtyVersion, Recorded
<1>2. ASSUME NEW p \in Procs, InsertState(p) PROVE History!Next
  BY <1>2, StackInsert DEF History!Next
<1>3. ASSUME NEW p \in Procs, MarkDirty(p) PROVE History!Next \/ UNCHANGED ledger
  BY <1>3, StackMark DEF History!Next
<1>4. ASSUME NEW p \in Procs, MarkClean(p) PROVE History!Next
  BY <1>4, StackFinish DEF History!Next
<1>5. ASSUME NEW p \in Procs, DeleteState(p) PROVE History!Next
  BY <1>5, StackDelete DEF History!Next
<1>6. ASSUME NEW p \in Procs,
             \/ AcquireLock(p) \/ LockTimeout(p) \/ ReadLedger(p)
             \/ NextVersion(p) \/ CheckAbsent(p) \/ ExecStatement(p) \/ ScriptDone(p)
             \/ ReleaseLock(p) \/ Fault(p) \/ Crash(p)
             \/ \E c \in {"up", "down"}, b \in Binaries : Start(p, c, b)
      PROVE  UNCHANGED ledger
  BY <1>6
     DEF AcquireLock, LockTimeout, ReadLedger, NextVersion, CheckAbsent, ExecStatement,
         ScriptDone, ReleaseLock, Fault, Crash, Start, Forget
<1>7. ASSUME (\E t \in Tables : ForeignCreate(t)) \/ UNCHANGED vars PROVE UNCHANGED ledger
  BY <1>7 DEF ForeignCreate, vars
<1>8. History!Next \/ UNCHANGED ledger
  BY <1>2, <1>3, <1>4, <1>5, <1>6, <1>7 DEF Next, Step
<1> QED
  BY <1>1, <1>8

\* Whoever runs the runner, with whichever binaries, and however often it fails
\* or dies: the ledger is the stack that SchemaHistory specifies, at most one
\* migration is half done, and it is finished in the direction it was begun in.
THEOREM ImplementsHistory == Spec => HistorySpec
<1>1. Init => History!Init
  <2> SUFFICES ASSUME Init PROVE History!Init
    OBVIOUS
  <2>1. Tidy(ledger, 0)
    BY DEF Init, EmptyLedger, Tidy, Recorded
  <2>2. Stack = Names(ledger, 0) /\ Changing = NoRow /\ ~Undoing
    BY <2>1, StackIsRead DEF StackRead, Names
  <2>3. Names(ledger, 0) = << >>
    BY DEF Names
  <2> QED
    BY <2>2, <2>3 DEF History!Init, Stack, Changing, Undoing
<1>2. TypeOK /\ LedgerInv /\ [Next]_vars => [History!Next]_(History!vars)
  BY StackStep
<1> QED
  BY <1>1, <1>2, LedgerAlways, PTL DEF Spec, HistorySpec, History!Spec
------------------------------------------------------------------------------
(* Tables of others, while nobody creates one during a migration.           *)

\* The tables that the loop of ensureMigrationObjectsAbsent has asked for are
\* not there, and stay away until the row of the version is inserted.
AbsentSoFar(p) ==
  pc[p] \in {"check", "insert"} =>
    \A i \in DOMAIN UpOf[File(p)] :
      i < at[p] \/ pc[p] = "insert" => ~Taken(UpOf[File(p)][i])

\* No recorded version, half done or applied, counts a foreign table as its own.
NotAdopted ==
  \A v \in Recorded(ledger) : \A o \in Elems(UpOf[ledger[v].file]) \intersect Tables :
    owner[o] # "foreign"

QuietInv == NotAdopted /\ \A p \in Procs : AbsentSoFar(p)

\* Whoever works holds the lock, so only its own statements change objects.
LEMMA OwnerHeld ==
  ASSUME ~ForeignAnytime, TypeOK, Mutex, NEW q \in Procs, pc[q] \in {"check", "insert"},
         [Next]_vars
  PROVE  owner' = owner
<1>0. lock = q /\ lock # NoProc
  BY ProcsAssumption DEF Mutex, Locked
<1>1. ASSUME NEW p \in Procs, ExecStatement(p) PROVE owner' = owner
  BY <1>0, <1>1 DEF ExecStatement, Mutex, Locked
<1>2. ASSUME NEW t \in Tables, ForeignCreate(t) PROVE owner' = owner
  BY <1>0, <1>2 DEF ForeignCreate
<1>3. ASSUME NEW p \in Procs, Step(p) PROVE owner' = owner
  BY <1>1, <1>3
     DEF Step, AcquireLock, LockTimeout, ReadLedger, NextVersion, CheckAbsent, InsertState,
         MarkDirty, ScriptDone, MarkClean, DeleteState, ReleaseLock, Forget
<1> QED
  BY <1>2, <1>3 DEF Next, Start, Fault, Crash, Forget, vars

LEMMA AbsentSoFar_Next ==
  ASSUME ~ForeignAnytime, TypeOK, LedgerInv, ScriptInv, NEW q \in Procs, AbsentSoFar(q),
         [Next]_vars
  PROVE  AbsentSoFar(q)'
<1> SUFFICES ASSUME pc'[q] \in {"check", "insert"},
                    NEW i \in DOMAIN (UpOf[File(q)])',
                    i < at'[q] \/ pc'[q] = "insert"
             PROVE  ~Taken(UpOf[File(q)][i])'
  BY DEF AbsentSoFar
<1>0. Mutex /\ LocalInv(q) /\ ProgressInv(q)
  BY DEF LedgerInv, ScriptInv
<1>1. ASSUME pc[q] \in {"check", "insert"}, bin'[q] = bin[q], ver'[q] = ver[q],
             i < at[q] \/ pc[q] = "insert"
      PROVE  ~Taken(UpOf[File(q)][i])'
  <2>1. owner' = owner /\ File(q)' = File(q)
    BY <1>0, <1>1, OwnerHeld DEF File
  <2>2. ~Taken(UpOf[File(q)][i])
    BY <1>1, <2>1 DEF AbsentSoFar
  <2> QED
    BY <2>1, <2>2 DEF Taken
<1>2. ASSUME pc[q] = pc'[q], at'[q] = at[q], bin'[q] = bin[q], ver'[q] = ver[q]
      PROVE  ~Taken(UpOf[File(q)][i])'
  BY <1>1, <1>2
<1>3. CASE CheckAbsent(q)
  <2>1. /\ pc[q] = "check" /\ bin'[q] = bin[q] /\ ver'[q] = ver[q]
        /\ owner' = owner /\ File(q)' = File(q)
    BY <1>3 DEF CheckAbsent, File
  <2>2. at[q] \in Nat \ {0} /\ File(q) \in Files /\ UpOf[File(q)] \in Seq(Objects)
    BY <1>0, <2>1, WorkingVersion, BinaryFacts, ScriptFacts
  <2>3. i \in Nat /\ i <= Len(UpOf[File(q)])
    BY <2>1, <2>2
  <2>4. CASE at[q] > Len(UpOf[File(q)])
    <3>1. i < at[q]
      BY <2>2, <2>3, <2>4
    <3> QED
      BY <1>1, <2>1, <3>1
  <2>5. CASE ~(at[q] > Len(UpOf[File(q)]))
    <3>1. ~Taken(UpOf[File(q)][at[q]]) /\ at'[q] = at[q] + 1 /\ pc'[q] = "check"
      BY <1>3, <2>5, <2>1 DEF CheckAbsent, Goto, TypeOK
    <3>2. CASE i = at[q]
      BY <2>1, <3>1, <3>2 DEF Taken
    <3>3. CASE i # at[q]
      <4>1. i < at[q]
        BY <2>2, <2>3, <3>1, <3>3
      <4> QED
        BY <1>1, <2>1, <4>1
    <3> QED
      BY <3>2, <3>3
  <2> QED
    BY <2>4, <2>5
<1>4. CASE NextVersion(q)
  <2>1. at'[q] = at[q] /\ at[q] = 1 /\ pc'[q] # "insert"
    BY <1>0, <1>4 DEF NextVersion, Goto, ProgressInv, TypeOK
  <2>2. i \in Nat \ {0}
    <3>1. pc'[q] = "check" /\ ver'[q] = ver[q] /\ bin' = bin /\ pc[q] = "next"
      BY <1>4, <2>1 DEF NextVersion, Goto, TypeOK
    <3>2. cmd[q] = "up" /\ ver[q] <= Len(bin[q])
      BY <1>0, <1>4, <3>1 DEF NextVersion, Goto, TypeOK, LocalInv, UpInv, AllVisited
    <3>3. File(q) \in Files /\ File(q)' = File(q)
      BY <3>1, <3>2, BinaryFacts DEF File
    <3> QED
      BY <3>3, ScriptFacts
  <2> QED
    BY <2>1, <2>2
<1>5. CASE pc[q] = "insert" /\ UNCHANGED <<pc, at, bin, ver>>
  BY <1>2, <1>5
<1>6. ASSUME NEW p \in Procs, p # q,
             \/ Step(p) \/ Fault(p) \/ Crash(p)
             \/ \E c \in {"up", "down"}, b \in Binaries : Start(p, c, b)
      PROVE  pc[q] = pc'[q] /\ at'[q] = at[q] /\ bin'[q] = bin[q] /\ ver'[q] = ver[q]
  <2>1. CASE Step(p)
    BY <1>6, <2>1
       DEF Step, AcquireLock, LockTimeout, ReadLedger, NextVersion, CheckAbsent, InsertState,
           MarkDirty, ExecStatement, ScriptDone, MarkClean, DeleteState, ReleaseLock,
           Forget, Goto, TypeOK
  <2>2. CASE ~Step(p)
    BY <1>6, <2>2 DEF Start, Fault, Crash, Forget, Goto, TypeOK
  <2> QED
    BY <2>1, <2>2
<1>7. ASSUME Fault(q) \/ Crash(q) \/ LockTimeout(q) \/ ReleaseLock(q) \/ AcquireLock(q)
             \/ InsertState(q) \/ MarkDirty(q) \/ ScriptDone(q) \/ MarkClean(q)
             \/ DeleteState(q)
             \/ \E c \in {"up", "down"}, b \in Binaries : Start(q, c, b)
      PROVE  FALSE
  BY <1>7
     DEF Fault, Crash, LockTimeout, ReleaseLock, AcquireLock, InsertState, MarkDirty,
         ScriptDone, MarkClean, DeleteState, Start, Forget, Goto, TypeOK
<1>8. CASE ReadLedger(q)
  BY <1>8 DEF ReadLedger, Goto, TypeOK
<1>9. CASE ExecStatement(q)
  BY <1>9 DEF ExecStatement
<1>10. CASE (\E t \in Tables : ForeignCreate(t)) \/ UNCHANGED vars
  BY <1>2, <1>10 DEF ForeignCreate, locals, vars
<1>11. CASE \E p \in Procs \ {q} :
             \/ Step(p) \/ Fault(p) \/ Crash(p)
             \/ \E c \in {"up", "down"}, b \in Binaries : Start(p, c, b)
  BY <1>2, <1>6, <1>11
<1> QED
  BY <1>3, <1>4, <1>7, <1>8, <1>9, <1>10, <1>11 DEF Next, Step

\* A row's file is written only where its tables are known not to be foreign.
LEMMA NotAdopted_Next ==
  ASSUME ~ForeignAnytime, TypeOK, LedgerInv, ScriptInv, QuietInv, [Next]_vars
  PROVE  NotAdopted'
<1>0. NotAdopted /\ AppliedComplete
  BY DEF QuietInv, ScriptInv
<1>1. ASSUME \A v \in Versions : ledger'[v] # NoRow =>
               ledger[v] # NoRow /\ ledger'[v].file = ledger[v].file,
             \A o \in Tables : owner'[o] = "foreign" => owner[o] = "foreign"
      PROVE  NotAdopted'
  BY <1>0, <1>1 DEF NotAdopted, Recorded
<1>2. Tables \subseteq Objects
  BY DEF Objects
<1>3. ASSUME NEW p \in Procs, InsertState(p) PROVE NotAdopted'
  <2> DEFINE r == [file |-> File(p), dirty |-> TRUE, direction |-> "up"]
  <2>1. pc[p] = "insert" /\ ver[p] \in Versions /\ File(p) \in Files
    BY <1>3, WorkingVersion DEF InsertState, Goto, LedgerInv
  <2>2. owner' = owner /\ ledger' = [ledger EXCEPT ![ver[p]] = r]
    BY <1>3 DEF InsertState
  <2>3. \A o \in Elems(UpOf[File(p)]) \intersect Tables : owner[o] # "foreign"
    BY <2>1 DEF QuietInv, AbsentSoFar, Taken, Elems
  <2>4. ledger'[ver[p]].file = File(p) /\ \A v \in Versions : v # ver[p] => ledger'[v] = ledger[v]
    BY <2>1, <2>2 DEF TypeOK
  <2> HIDE DEF r
  <2> QED
    BY <1>0, <2>2, <2>3, <2>4 DEF NotAdopted, Recorded
<1>4. ASSUME NEW p \in Procs, MarkDirty(p) \/ MarkClean(p) PROVE NotAdopted'
  <2>1. ver[p] \in Versions /\ ledger[ver[p]] # NoRow /\ owner' = owner
    BY <1>4, WorkingRow DEF MarkDirty, MarkClean, Goto, Recorded
  <2>2. \E d \in BOOLEAN, dir \in {"up", "down"} : UpdateRow(ver[p], d, dir)
    BY <1>4 DEF MarkDirty, MarkClean, TypeOK
  <2>3. PICK r \in Row : ledger' = [ledger EXCEPT ![ver[p]] = r]
                         /\ r.file = ledger[ver[p]].file
    BY <2>1, <2>2, UpdateRowEffect
  <2>4. \A v \in Versions : ledger'[v] = IF v = ver[p] THEN r ELSE ledger[v]
    BY <2>3 DEF TypeOK
  <2> QED
    BY <1>1, <2>1, <2>3, <2>4
<1>5. ASSUME NEW p \in Procs, DeleteState(p) PROVE NotAdopted'
  BY <1>1, <1>5 DEF DeleteState, TypeOK
<1>6. ASSUME NEW p \in Procs, ExecStatement(p) PROVE NotAdopted'
  <2>1. ledger' = ledger /\ pc[p] = "exec"
    BY <1>6 DEF ExecStatement
  <2>2. \A o \in Tables : owner'[o] = "foreign" => owner[o] = "foreign"
    <3>1. ASSUME NEW x, Add(x), NEW o \in Tables, owner'[o] = "foreign"
          PROVE  owner[o] = "foreign"
      BY <1>2, <3>1 DEF Add, TypeOK
    <3>2. ASSUME NEW x, Remove(x), NEW o \in Tables, owner'[o] = "foreign"
          PROVE  owner[o] = "foreign"
      BY <1>2, <3>2 DEF Remove, TypeOK
    <3> QED
      BY <1>6, <3>1, <3>2 DEF ExecStatement
  <2> QED
    BY <1>1, <2>1, <2>2
<1>7. ASSUME NEW t \in Tables, ForeignCreate(t) PROVE NotAdopted'
  <2>1. /\ ~Dirty /\ ledger' = ledger /\ owner[t] = "absent"
        /\ \A o \in Tables : o # t => owner'[o] = owner[o]
    BY <1>2, <1>7 DEF ForeignCreate, TypeOK
  <2>2. SUFFICES ASSUME NEW v \in Recorded(ledger), t \in Elems(UpOf[ledger[v].file])
                 PROVE  FALSE
    BY <1>0, <2>1 DEF NotAdopted, Recorded
  <2>3. Clean(ledger[v])
    BY <2>1 DEF Dirty, Clean, Recorded
  <2> QED
    BY <1>0, <2>1, <2>2, <2>3 DEF AppliedComplete
<1>8. ASSUME NEW p \in Procs,
             \/ AcquireLock(p) \/ LockTimeout(p) \/ ReadLedger(p)
             \/ NextVersion(p) \/ CheckAbsent(p) \/ ScriptDone(p)
             \/ ReleaseLock(p) \/ Fault(p) \/ Crash(p)
             \/ \E c \in {"up", "down"}, b \in Binaries : Start(p, c, b)
      PROVE  UNCHANGED <<ledger, owner>>
  BY <1>8
     DEF AcquireLock, LockTimeout, ReadLedger, NextVersion, CheckAbsent,
         ScriptDone, ReleaseLock, Fault, Crash, Start, Forget
<1>9. ASSUME UNCHANGED <<ledger, owner>> PROVE NotAdopted'
  BY <1>1, <1>9
<1>10. CASE UNCHANGED vars
  BY <1>9, <1>10 DEF vars
<1> QED
  BY <1>3, <1>4, <1>5, <1>6, <1>7, <1>8, <1>9, <1>10 DEF Next, Step

\* What a script drops belongs to its recorded version, and is not foreign.
LEMMA ForeignStays ==
  ASSUME TypeOK, LedgerInv, NotAdopted, [Next]_vars,
         NEW t \in Tables, owner[t] = "foreign"
  PROVE  owner'[t] = "foreign"
<1>0. t \in Objects /\ TableOf[t] = t
  BY ScriptsAssumption DEF Objects, ScriptsOK
<1>1. ASSUME NEW p \in Procs, ExecStatement(p) PROVE owner'[t] = "foreign"
  <2> DEFINE o == Script(p)[at[p]]
  <2>1. pc[p] = "exec" /\ at[p] \in Nat \ {0} /\ at[p] <= Len(Script(p))
    BY <1>1 DEF ExecStatement, TypeOK
  <2>2. CASE cmd[p] = "up"
    <3>1. Add(o)
      BY <1>1, <2>2 DEF ExecStatement
    <3> QED
      BY <1>0, <3>1 DEF Add, TypeOK
  <2>3. CASE cmd[p] # "up"
    <3>1. Remove(o) /\ Script(p) = DownOf[File(p)]
      BY <1>1, <2>3 DEF ExecStatement, Script
    <3>2. /\ File(p) \in Files /\ ver[p] \in Recorded(ledger)
          /\ ledger[ver[p]].file = File(p)
      BY <2>1, WorkingRow
    <3>3. o \in Elems(UpOf[File(p)])
      <4>1. /\ DownOf[File(p)] \in Seq(Objects)
            /\ Elems(UpOf[File(p)]) = Elems(DownOf[File(p)])
        BY <3>2, ScriptFacts
      <4>2. at[p] \in DOMAIN DownOf[File(p)]
        BY <2>1, <3>1, <4>1
      <4> QED
        BY <3>1, <4>1, <4>2 DEF Elems
    <3>4. t # o
      BY <3>2, <3>3 DEF NotAdopted
    <3> HIDE DEF o
    <3> QED
      BY <1>0, <3>1, <3>4 DEF Remove
  <2> QED
    BY <2>2, <2>3
<1>2. ASSUME NEW x \in Tables, ForeignCreate(x) PROVE owner'[t] = "foreign"
  BY <1>0, <1>2 DEF ForeignCreate, TypeOK
<1>3. ASSUME NEW p \in Procs, Step(p) PROVE owner'[t] = "foreign"
  BY <1>1, <1>3
     DEF Step, AcquireLock, LockTimeout, ReadLedger, NextVersion, CheckAbsent, InsertState,
         MarkDirty, ScriptDone, MarkClean, DeleteState, ReleaseLock, Forget
<1> QED
  BY <1>2, <1>3 DEF Next, Start, Fault, Crash, Forget, vars

\* A table that somebody else created is neither adopted nor dropped, by any
\* process, build, retry or rollback, as long as nobody creates tables while a
\* migration is at work or half done (finding 1 is what happens otherwise).
THEOREM ForeignStaysKept ==
  ASSUME ~ForeignAnytime PROVE Spec => ForeignKept
<1>1. Init => QuietInv
  BY DEF Init, QuietInv, NotAdopted, AbsentSoFar, Recorded, EmptyLedger
<1>2. TypeOK /\ LedgerInv /\ ScriptInv /\ QuietInv /\ [Next]_vars => QuietInv'
  BY NotAdopted_Next, AbsentSoFar_Next DEF QuietInv
<1> DEFINE Kept == \A t \in Tables : owner[t] = "foreign" => owner'[t] = "foreign"
<1>3. TypeOK /\ LedgerInv /\ QuietInv /\ [Next]_vars => [Kept]_vars
  BY ForeignStays DEF QuietInv
<1>4. Spec => [][Kept]_vars
  BY <1>1, <1>2, <1>3, ScriptAlways, PTL DEF Spec
<1> QED
  BY <1>4 DEF ForeignKept
===============================================================================
