---------------------------- MODULE VersionedTable ----------------------------
(***************************************************************************)
(* What a market table promises its readers (docs/05-database.md): batches *)
(* of rows appear whole and as if one after the other; a row that is       *)
(* written again keeps its key, and its revision counts the changes of its *)
(* content, so that fetching the same content again only moves fetched_at. *)
(***************************************************************************)
EXTENDS Naturals, Sequences, FiniteSets

CONSTANTS
  Keys,      \* primary keys
  NoRow,     \* the key has no row
  Batches    \* sequences of [key, content, fetched]

VARIABLES
  table,     \* [Keys -> rows [content, revision, fetched] or NoRow]
  revised    \* the table has a revision column

vars == <<table, revised>>

Init ==
  /\ table = [k \in Keys |-> NoRow]
  /\ revised \in BOOLEAN

Writes(items, k) == {i \in DOMAIN items : items[i].key = k}
Latest(S) == CHOOSE i \in S : \A j \in S : j <= i

\* The content that item i finds: that of the item before it with the same
\* key, else the row's; its own when there is neither.
Found(items, i) ==
  LET k == items[i].key
      before == {j \in Writes(items, k) : j < i} IN
  IF before # {} THEN items[Latest(before)].content
  ELSE IF table[k] = NoRow THEN items[i].content
  ELSE table[k].content

Changes(items, k) == {i \in Writes(items, k) : items[i].content # Found(items, i)}

RowAfter(items, k) ==
  LET last == items[Latest(Writes(items, k))]
      base == IF table[k] = NoRow THEN 1 ELSE table[k].revision IN
  [content |-> last.content,
   fetched |-> last.fetched,
   revision |-> IF revised THEN base + Cardinality(Changes(items, k)) ELSE 1]

Upsert(items) ==
  /\ table' = [k \in Keys |->
                 IF Writes(items, k) = {} THEN table[k] ELSE RowAfter(items, k)]
  /\ UNCHANGED revised

Next == \E items \in Batches : Upsert(items)

Spec == Init /\ [][Next]_vars
===============================================================================
