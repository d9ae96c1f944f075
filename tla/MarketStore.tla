------------------------------ MODULE MarketStore ------------------------------
(***************************************************************************)
(* The Upserts of internal/infrastructure/mysql/repositories.go: stocks,   *)
(* trade calendars, daily prices and adjustment factors.  Each call writes *)
(* a list of rows in one InnoDB transaction, row by row, with INSERT ...   *)
(* ON DUPLICATE KEY UPDATE; prices and factors carry a revision.           *)
(*                                                                         *)
(* Of InnoDB the model has what decides the outcome: a statement locks the *)
(* row it writes until the transaction ends, reads its newest committed    *)
(* state under that lock (or what the transaction itself wrote), and waits *)
(* for the holder of the lock; what is written is private until COMMIT.    *)
(* The four tables have no row in common: a behaviour is about one of them. *)
(***************************************************************************)
EXTENDS Naturals, Sequences, FiniteSets

CONSTANTS
  Workers,     \* callers, each with one call at a time
  Keys,        \* primary keys of the table
  Contents,    \* what a row says: its values and, where it has one, its hash
  Stamps,      \* fetched_at or updated_at
  NoRow,       \* the key has no row
  Batches,     \* the lists that callers pass
  MaxRevision  \* bound: no call starts once a row has this revision

\* "valid" is the answer of validateStock, validateCodeDate, validateDailyPrice
\* or validateAdjFactor.
Item == [key : Keys, content : Contents, fetched : Stamps, valid : BOOLEAN]
Row == [content : Contents, fetched : Stamps, revision : Nat \ {0}]

ASSUME BatchesAssumption == Batches \subseteq Seq(Item)
ASSUME NoRowAssumption == NoRow \notin Row
ASSUME BoundAssumption == MaxRevision \in Nat

VARIABLES
  table,    \* committed rows
  revised,  \* the table is t_daily_price or t_adj_factor: it has a revision
  pc,       \* per worker: "idle" or "open", in its transaction
  batch,    \* per worker: the list it was given
  next,     \* per worker: index of the next row to write
  mine,     \* per worker: rows written and not yet committed, else NoRow
  named     \* history: the <<key, revision, content>> ever committed

vars == <<table, revised, pc, batch, next, mine, named>>

Nothing == [k \in Keys |-> NoRow]

TypeOK ==
  /\ table \in [Keys -> Row \union {NoRow}]
  /\ revised \in BOOLEAN
  /\ pc \in [Workers -> {"idle", "open"}]
  /\ batch \in [Workers -> Seq(Item)]
  /\ next \in [Workers -> Nat \ {0}]
  /\ mine \in [Workers -> [Keys -> Row \union {NoRow}]]
  /\ named \subseteq Keys \X (Nat \ {0}) \X Contents

Init ==
  /\ table = Nothing
  /\ revised \in BOOLEAN
  /\ pc = [w \in Workers |-> "idle"]
  /\ batch = [w \in Workers |-> << >>]
  /\ next = [w \in Workers |-> 1]
  /\ mine = [w \in Workers |-> Nothing]
  /\ named = {}

------------------------------------------------------------------------------
(* Rows and locks. *)

MoreItems(w) == next[w] <= Len(batch[w])
NextItem(w) == batch[w][next[w]]

Holds(w, k) == mine[w][k] # NoRow

\* Who makes worker w's next statement wait.
Blockers(w) == {v \in Workers \ {w} : MoreItems(w) /\ Holds(v, NextItem(w).key)}

\* Mutant: a plain read of the transaction's snapshot, before the waits.
CurrentCommitted(w, k) == table[k]

\* What the statement reads under the lock.
Current(w, k) == IF Holds(w, k) THEN mine[w][k] ELSE table[k]

\* Mutant: revision is assigned after the columns, so it compares them with
\* themselves (MySQL evaluates the assignments from left to right).
ChangedAfterAssignment(row, item) == item.content # item.content

\* t_daily_price.open<>incoming.open OR ... OR source_hash<>incoming.source_hash
Changed(row, item) == row.content # item.content

Bump(row, item) == IF revised /\ Changed(row, item) THEN 1 ELSE 0

\* Mutant: the first version has revision 0.
PutFromZero(row, item) ==
  [content |-> item.content, fetched |-> item.fetched,
   revision |-> IF row = NoRow THEN 0 ELSE row.revision + Bump(row, item)]

\* The row after the statement; without a revision column it stays 1.
Put(row, item) ==
  [content |-> item.content, fetched |-> item.fetched,
   revision |-> IF row = NoRow THEN 1 ELSE row.revision + Bump(row, item)]

------------------------------------------------------------------------------
(* inTransaction and the loop over the rows. *)

\* Callers pass any list, the one of a call whose answer they lost included.
Begin(w, items) ==
  /\ pc[w] = "idle"
  /\ \A k \in Keys : table[k] # NoRow => table[k].revision < MaxRevision
  /\ pc' = [pc EXCEPT ![w] = "open"]
  /\ batch' = [batch EXCEPT ![w] = items]
  /\ UNCHANGED <<table, revised, next, mine, named>>

\* The call returns; its locks and its uncommitted rows are gone.
Close(w) ==
  /\ pc' = [pc EXCEPT ![w] = "idle"]
  /\ batch' = [batch EXCEPT ![w] = << >>]
  /\ next' = [next EXCEPT ![w] = 1]
  /\ mine' = [mine EXCEPT ![w] = Nothing]
  /\ UNCHANGED revised

Rollback(w) == Close(w) /\ UNCHANGED <<table, named>>

UpsertRow(w) ==
  /\ pc[w] = "open" /\ MoreItems(w)
  /\ NextItem(w).valid /\ Blockers(w) = {}
  /\ LET item == NextItem(w) IN
       mine' = [mine EXCEPT ![w][item.key] = Put(Current(w, item.key), item)]
  /\ next' = [next EXCEPT ![w] = @ + 1]
  /\ UNCHANGED <<table, revised, pc, batch, named>>

\* Validation comes before the statement, so it waits for nobody.
RefuseRow(w) ==
  /\ pc[w] = "open" /\ MoreItems(w)
  /\ ~NextItem(w).valid
  /\ Rollback(w)

Written(w) == {k \in Keys : Holds(w, k)}

\* tx.Commit; whether the caller learns of it changes nothing here.
Commit(w) ==
  /\ pc[w] = "open" /\ ~MoreItems(w)
  /\ table' = [k \in Keys |-> IF Holds(w, k) THEN mine[w][k] ELSE table[k]]
  /\ named' = named \union
                {<<k, mine[w][k].revision, mine[w][k].content>> : k \in Written(w)}
  /\ Close(w)

\* A statement or the commit fails (1213, 1205, a lost connection), the context
\* ends or the process dies: InnoDB rolls the transaction back.
Fault(w) == pc[w] = "open" /\ Rollback(w)

\* Nobody calls any more.
Rest == (\A w \in Workers : pc[w] = "idle") /\ UNCHANGED vars

Next ==
  \/ Rest
  \/ \E w \in Workers :
       \/ \E items \in Batches : Begin(w, items)
       \/ UpsertRow(w) \/ RefuseRow(w) \/ Commit(w) \/ Fault(w)

Spec == Init /\ [][Next]_vars

------------------------------------------------------------------------------
(* Properties. *)

\* A revision names one content: two committed rows of a key with the same
\* revision say the same, whoever wrote them and in whatever order, so that a
\* result that recorded the revision it read can tell whether the row changed
\* (dailyPriceRepository.Upsert, adjFactorRepository.Upsert).
RevisionNames ==
  revised => \A a, b \in named : a[1] = b[1] /\ a[2] = b[2] => a[3] = b[3]

\* Concurrent Upserts are batches applied whole, one after the other, and the
\* revision counts the changes of content exactly.
Versioned == INSTANCE VersionedTable WITH
  Batches <- {items \in Batches : \A i \in DOMAIN items : items[i].valid}
VersionedSpec == Versioned!Spec
===============================================================================
