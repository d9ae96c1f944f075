--------------------------- MODULE MarketStoreProofs ---------------------------
(***************************************************************************)
(* Proofs about MarketStore for any callers, keys, contents and batches:   *)
(* types, that a revision names one content, and that concurrent Upserts   *)
(* refine VersionedTable.                                                  *)
(*                                                                         *)
(* RevisionNames is not inductive: it does not say that what is about to   *)
(* be committed is newer than what is committed.  That holds because one   *)
(* transaction at most has written a row (Exclusive), and it started from  *)
(* the row that is still committed (MineInv).  The refinement needs to     *)
(* know the uncommitted rows exactly: PrefixInv.                           *)
(***************************************************************************)
EXTENDS MarketStore, FiniteSetTheorems, TLAPS

LEMMA NextItemType ==
  ASSUME TypeOK, NEW w \in Workers, MoreItems(w)
  PROVE  NextItem(w) \in Item
<1>1. next[w] \in 1..Len(batch[w]) /\ batch[w] \in Seq(Item)
  BY DEF TypeOK, MoreItems
<1> QED
  BY <1>1 DEF NextItem

LEMMA PutType ==
  ASSUME NEW row \in Row \union {NoRow}, NEW item \in Item
  PROVE  Put(row, item) \in Row
<1>1. CASE row = NoRow
  BY <1>1 DEF Put, Row, Item
<1>2. CASE row \in Row
  <2>1. Bump(row, item) \in {0, 1}
    BY DEF Bump
  <2>2. row # NoRow
    BY <1>2, NoRowAssumption
  <2>3. row.revision + Bump(row, item) \in Nat \ {0}
    BY <1>2, <2>1 DEF Row
  <2>4. item.content \in Contents /\ item.fetched \in Stamps
    BY DEF Item
  <2> QED
    BY <2>2, <2>3, <2>4 DEF Put, Row
<1> QED
  BY <1>1, <1>2

LEMMA CurrentType ==
  ASSUME TypeOK, NEW w \in Workers, NEW k \in Keys
  PROVE  Current(w, k) \in Row \union {NoRow}
BY DEF TypeOK, Current

\* What the statement of UpsertRow does to the rows written so far.
LEMMA UpsertEffect ==
  ASSUME TypeOK, NEW w \in Workers, UpsertRow(w)
  PROVE  \E k \in Keys : \E item \in Item :
           /\ item = NextItem(w) /\ k = item.key
           /\ mine' = [mine EXCEPT ![w] = [@ EXCEPT ![k] = Put(Current(w, k), item)]]
           /\ Put(Current(w, k), item) \in Row
           /\ \A v \in Workers \ {w} : ~Holds(v, k)
<1> DEFINE item == NextItem(w)
<1>1. MoreItems(w) /\ Blockers(w) = {}
  BY DEF UpsertRow
<1>2. item \in Item /\ item.key \in Keys
  BY <1>1, NextItemType DEF Item
<1>3. Put(Current(w, item.key), item) \in Row
  BY <1>2, CurrentType, PutType
<1>4. \A v \in Workers \ {w} : ~Holds(v, item.key)
  BY <1>1 DEF Blockers
<1>5. mine' = [mine EXCEPT ![w] = [@ EXCEPT ![item.key] = Put(Current(w, item.key), item)]]
  BY DEF UpsertRow
<1> QED
  BY <1>2, <1>3, <1>4, <1>5

------------------------------------------------------------------------------
(* Types. *)

LEMMA NothingType == Nothing \in [Keys -> Row \union {NoRow}]
  BY DEF Nothing

LEMMA TypeOK_Init == Init => TypeOK
<1> SUFFICES ASSUME Init PROVE TypeOK
  OBVIOUS
<1>1. << >> \in Seq(Item)
  OBVIOUS
<1> QED
  BY <1>1, NothingType DEF Init, TypeOK

LEMMA CloseType ==
  ASSUME TypeOK, NEW w \in Workers, Close(w)
  PROVE  /\ revised' \in BOOLEAN
         /\ pc' \in [Workers -> {"idle", "open"}]
         /\ batch' \in [Workers -> Seq(Item)]
         /\ next' \in [Workers -> Nat \ {0}]
         /\ mine' \in [Workers -> [Keys -> Row \union {NoRow}]]
<1>1. << >> \in Seq(Item)
  OBVIOUS
<1>2. 1 \in Nat \ {0}
  OBVIOUS
<1> QED
  BY <1>1, <1>2, NothingType DEF Close, TypeOK

LEMMA TypeOK_Next == TypeOK /\ [Next]_vars => TypeOK'
<1> SUFFICES ASSUME TypeOK, [Next]_vars PROVE TypeOK'
  OBVIOUS
<1>1. ASSUME NEW w \in Workers, NEW items \in Batches, Begin(w, items)
      PROVE  TypeOK'
  <2>1. items \in Seq(Item)
    BY BatchesAssumption
  <2> QED
    BY <1>1, <2>1 DEF Begin, TypeOK
<1>2. ASSUME NEW w \in Workers, UpsertRow(w) PROVE TypeOK'
  <2>1. mine' \in [Workers -> [Keys -> Row \union {NoRow}]]
    <3>1. PICK k \in Keys, row \in Row :
            mine' = [mine EXCEPT ![w] = [@ EXCEPT ![k] = row]]
      BY <1>2, UpsertEffect
    <3> QED
      BY <3>1 DEF TypeOK
  <2>2. next' \in [Workers -> Nat \ {0}]
    BY <1>2 DEF UpsertRow, TypeOK
  <2> QED
    BY <1>2, <2>1, <2>2 DEF UpsertRow, TypeOK
<1>3. ASSUME NEW w \in Workers, Rollback(w) PROVE TypeOK'
  BY <1>3, CloseType DEF Rollback, TypeOK
<1>4. ASSUME NEW w \in Workers, Commit(w) PROVE TypeOK'
  <2>1. table' \in [Keys -> Row \union {NoRow}]
    BY <1>4 DEF Commit, TypeOK
  <2>2. named' \subseteq Keys \X (Nat \ {0}) \X Contents
    <3>1. \A k \in Written(w) : mine[w][k] \in Row
      BY DEF Written, Holds, TypeOK
    <3>2. \A k \in Written(w) :
            <<k, mine[w][k].revision, mine[w][k].content>>
              \in Keys \X (Nat \ {0}) \X Contents
      BY <3>1 DEF Written, Row
    <3> QED
      BY <1>4, <3>2 DEF Commit, TypeOK
  <2> QED
    BY <1>4, <2>1, <2>2, CloseType DEF Commit, TypeOK
<1>5. CASE UNCHANGED vars
  BY <1>5 DEF vars, TypeOK
<1> QED
  BY <1>1, <1>2, <1>3, <1>4, <1>5 DEF Next, RefuseRow, Fault, Rest

\* The table, the transactions and the history keep their types.
THEOREM TypeCorrect == Spec => []TypeOK
  BY TypeOK_Init, TypeOK_Next, PTL DEF Spec

------------------------------------------------------------------------------
(* The invariant behind RevisionNames. *)

\* Version "new" of a row follows "old", or says the same.
Follows(new, old) ==
  /\ old.revision <= new.revision
  /\ old.revision = new.revision => old.content = new.content

\* One transaction at most has written a row.
Exclusive ==
  \A v, w \in Workers : \A k \in Keys : Holds(v, k) /\ Holds(w, k) => v = w

\* What is not committed yet follows what is.
MineInv ==
  \A w \in Workers : \A k \in Keys :
    Holds(w, k) /\ table[k] # NoRow => Follows(mine[w][k], table[k])

\* The row follows each of its versions.
NamedInv ==
  \A n \in named :
    /\ table[n[1]] # NoRow
    /\ n[2] <= table[n[1]].revision
    /\ n[2] = table[n[1]].revision => n[3] = table[n[1]].content

OneContent == \A a, b \in named : a[1] = b[1] /\ a[2] = b[2] => a[3] = b[3]

RevisionInv == Exclusive /\ (revised => MineInv /\ NamedInv /\ OneContent)

\* A statement on a row with a revision makes a version that follows it.
LEMMA PutFollows ==
  ASSUME revised, NEW row \in Row, NEW item \in Item
  PROVE  Follows(Put(row, item), row)
<1>1. row # NoRow
  BY NoRowAssumption
<1>2. row.revision \in Nat
  BY DEF Row
<1>3. CASE Changed(row, item)
  <2>1. Put(row, item).revision = row.revision + 1
    BY <1>1, <1>3 DEF Put, Bump
  <2> QED
    BY <1>2, <2>1 DEF Follows
<1>4. CASE ~Changed(row, item)
  <2>1. Put(row, item).revision = row.revision + 0
    BY <1>1, <1>4 DEF Put, Bump
  <2>2. Put(row, item).content = row.content
    BY <1>4 DEF Put, Changed
  <2> QED
    BY <1>2, <2>1, <2>2 DEF Follows
<1> QED
  BY <1>3, <1>4

LEMMA FollowsTransitive ==
  ASSUME NEW a \in Row, NEW b \in Row, NEW c \in Row, Follows(c, b), Follows(b, a)
  PROVE  Follows(c, a)
<1>1. a.revision \in Nat /\ b.revision \in Nat /\ c.revision \in Nat
  BY DEF Row
<1> QED
  BY <1>1 DEF Follows

LEMMA RevisionInv_Init == Init => RevisionInv
<1> SUFFICES ASSUME Init PROVE RevisionInv
  OBVIOUS
<1>1. \A w \in Workers : \A k \in Keys : ~Holds(w, k)
  BY DEF Init, Holds, Nothing
<1>2. named = {}
  BY DEF Init
<1> QED
  BY <1>1, <1>2 DEF RevisionInv, Exclusive, MineInv, NamedInv, OneContent

LEMMA UpsertKeeps ==
  ASSUME TypeOK, RevisionInv, NEW w \in Workers, UpsertRow(w)
  PROVE  RevisionInv'
<1>1. PICK k \in Keys, item \in Item :
        /\ mine' = [mine EXCEPT ![w] = [@ EXCEPT ![k] = Put(Current(w, k), item)]]
        /\ Put(Current(w, k), item) \in Row
        /\ \A v \in Workers \ {w} : ~Holds(v, k)
  BY UpsertEffect
<1> DEFINE new == Put(Current(w, k), item)
<1>2. \A v \in Workers : \A j \in Keys :
        mine'[v][j] = IF v = w /\ j = k THEN new ELSE mine[v][j]
  BY <1>1 DEF TypeOK
<1>3. UNCHANGED <<table, revised, named>>
  BY DEF UpsertRow
<1>4. Exclusive'
  BY <1>1, <1>2 DEF RevisionInv, Exclusive, Holds
<1>5. ASSUME revised PROVE MineInv'
  <2>1. ASSUME table[k] # NoRow PROVE Follows(new, table[k])
    <3>1. table[k] \in Row
      BY <2>1 DEF TypeOK
    <3>2. CASE Holds(w, k)
      <4>1. mine[w][k] \in Row /\ Follows(mine[w][k], table[k])
        BY <1>5, <2>1, <3>2 DEF RevisionInv, MineInv, Holds, TypeOK
      <4>2. Follows(new, mine[w][k])
        BY <1>5, <3>2, <4>1, PutFollows DEF Current
      <4> QED
        BY <1>1, <3>1, <4>1, <4>2, FollowsTransitive
    <3>3. CASE ~Holds(w, k)
      BY <1>5, <3>1, <3>3, PutFollows DEF Current
    <3> QED
      BY <3>2, <3>3
  <2>2. SUFFICES ASSUME NEW v \in Workers, NEW j \in Keys,
                        mine'[v][j] # NoRow, table[j] # NoRow
                 PROVE  Follows(mine'[v][j], table[j])
    BY <1>3 DEF MineInv, Holds, Follows
  <2>3. CASE v = w /\ j = k
    BY <1>2, <2>1, <2>2, <2>3
  <2>4. CASE ~(v = w /\ j = k)
    BY <1>2, <1>5, <2>2, <2>4 DEF RevisionInv, MineInv, Holds
  <2> QED
    BY <2>3, <2>4
<1> QED
  BY <1>3, <1>4, <1>5 DEF RevisionInv, NamedInv, OneContent

LEMMA CloseKeeps ==
  ASSUME TypeOK, Exclusive, NEW w \in Workers, Close(w)
  PROVE  /\ \A v \in Workers : \A k \in Keys :
              mine'[v][k] = IF v = w THEN NoRow ELSE mine[v][k]
         /\ Exclusive'
<1>1. \A v \in Workers : \A k \in Keys :
        mine'[v][k] = IF v = w THEN NoRow ELSE mine[v][k]
  BY DEF Close, Nothing, TypeOK
<1> QED
  BY <1>1 DEF Exclusive, Holds

LEMMA RollbackKeeps ==
  ASSUME TypeOK, RevisionInv, NEW w \in Workers, Rollback(w)
  PROVE  RevisionInv'
<1>1. Exclusive /\ Close(w) /\ UNCHANGED <<table, revised, named>>
  BY DEF Rollback, Close, RevisionInv
<1>2. revised => MineInv'
  BY <1>1, CloseKeeps DEF RevisionInv, MineInv, Holds, Follows
<1> QED
  BY <1>1, <1>2, CloseKeeps DEF RevisionInv, NamedInv, OneContent

LEMMA CommitKeeps ==
  ASSUME TypeOK, RevisionInv, NEW w \in Workers, Commit(w)
  PROVE  RevisionInv'
<1>1. Exclusive /\ Close(w) /\ revised' = revised
  BY DEF Commit, Close, RevisionInv
<1>2. \A k \in Keys : table'[k] = IF Holds(w, k) THEN mine[w][k] ELSE table[k]
  BY DEF Commit
<1> DEFINE Version(k) == <<k, mine[w][k].revision, mine[w][k].content>>
<1>3. named' = named \union {Version(k) : k \in Written(w)}
  BY DEF Commit
<1>4. ASSUME revised PROVE MineInv'
  <2> SUFFICES ASSUME NEW v \in Workers, NEW k \in Keys,
                      mine'[v][k] # NoRow, table'[k] # NoRow
               PROVE  Follows(mine'[v][k], table'[k])
    BY DEF MineInv, Holds, Follows
  <2>1. v # w /\ mine'[v][k] = mine[v][k] /\ Holds(v, k)
    BY <1>1, CloseKeeps DEF Holds
  <2>2. table'[k] = table[k]
    BY <1>1, <1>2, <2>1 DEF Exclusive
  <2> QED
    BY <1>4, <2>1, <2>2 DEF RevisionInv, MineInv
\* The newest version of a row that was just written, and those before it.
<1>5. ASSUME NEW n \in named'
      PROVE  \/ n \in named
             \/ /\ n[1] \in Keys /\ table'[n[1]] # NoRow
                /\ n[2] = table'[n[1]].revision /\ n[3] = table'[n[1]].content
  <2>1. CASE n \in named
    BY <2>1
  <2>2. ASSUME NEW k \in Written(w), n = Version(k)
        PROVE  /\ n[1] \in Keys /\ table'[n[1]] # NoRow
               /\ n[2] = table'[n[1]].revision /\ n[3] = table'[n[1]].content
    <3>1. k \in Keys /\ Holds(w, k)
      BY DEF Written
    <3>2. n[1] = k /\ n[2] = mine[w][k].revision /\ n[3] = mine[w][k].content
      BY <2>2
    <3>3. table'[k] = mine[w][k]
      BY <1>2, <3>1
    <3> QED
      BY <3>1, <3>2, <3>3 DEF Holds
  <2> QED
    BY <1>3, <2>1, <2>2
<1>6. ASSUME revised, NEW n \in named
      PROVE  /\ table'[n[1]] # NoRow
             /\ n[2] <= table'[n[1]].revision
             /\ n[2] = table'[n[1]].revision => n[3] = table'[n[1]].content
  <2> DEFINE k == n[1]
  <2>1. k \in Keys /\ n[2] \in Nat
    BY DEF TypeOK
  <2>2. /\ table[k] # NoRow /\ n[2] <= table[k].revision
        /\ n[2] = table[k].revision => n[3] = table[k].content
    BY <1>6 DEF RevisionInv, NamedInv
  <2>3. table[k] \in Row /\ table[k].revision \in Nat
    BY <2>1, <2>2 DEF TypeOK, Row
  <2>4. CASE ~Holds(w, k)
    BY <1>2, <2>1, <2>2, <2>4
  <2>5. CASE Holds(w, k)
    <3>1. mine[w][k] \in Row /\ Follows(mine[w][k], table[k])
      BY <1>6, <2>1, <2>2, <2>5 DEF RevisionInv, MineInv, Holds, TypeOK
    <3>2. mine[w][k].revision \in Nat
      BY <3>1 DEF Row
    <3>3. table'[k] = mine[w][k] /\ table'[k] # NoRow
      BY <1>2, <2>1, <2>5 DEF Holds
    <3> QED
      BY <2>1, <2>2, <2>3, <3>1, <3>2, <3>3 DEF Follows
  <2> QED
    BY <2>4, <2>5
<1>7. ASSUME revised PROVE NamedInv'
  <2> SUFFICES ASSUME NEW n \in named'
               PROVE  /\ table'[n[1]] # NoRow
                      /\ n[2] <= table'[n[1]].revision
                      /\ n[2] = table'[n[1]].revision => n[3] = table'[n[1]].content
    BY DEF NamedInv
  <2>1. CASE n \in named
    BY <1>6, <1>7, <2>1
  <2>2. CASE n \notin named
    <3>1. /\ n[1] \in Keys /\ table'[n[1]] # NoRow
          /\ n[2] = table'[n[1]].revision /\ n[3] = table'[n[1]].content
      BY <1>5, <2>2
    <3>2. table'[n[1]].revision \in Nat
      <4>1. TypeOK'
        BY TypeOK_Next DEF Next
      <4> QED
        BY <3>1, <4>1 DEF TypeOK, Row
    <3> QED
      BY <3>1, <3>2
  <2> QED
    BY <2>1, <2>2
<1>8. ASSUME revised PROVE OneContent'
  <2> SUFFICES ASSUME NEW a \in named', NEW b \in named', a[1] = b[1], a[2] = b[2]
               PROVE  a[3] = b[3]
    BY DEF OneContent
  <2>1. CASE a \in named /\ b \in named
    BY <1>8, <2>1 DEF RevisionInv, OneContent
  <2>2. CASE a \notin named \/ b \notin named
    BY <1>5, <1>7, <1>8, <2>2 DEF NamedInv
  <2> QED
    BY <2>1, <2>2
<1> QED
  BY <1>1, <1>4, <1>7, <1>8, CloseKeeps DEF RevisionInv

LEMMA RevisionInv_Next == TypeOK /\ RevisionInv /\ [Next]_vars => RevisionInv'
<1> SUFFICES ASSUME TypeOK, RevisionInv, [Next]_vars PROVE RevisionInv'
  OBVIOUS
<1>1. ASSUME NEW w \in Workers, NEW items \in Batches, Begin(w, items)
      PROVE  RevisionInv'
  BY <1>1 DEF Begin, RevisionInv, Exclusive, MineInv, NamedInv, OneContent, Holds, Follows
<1>2. ASSUME NEW w \in Workers, UpsertRow(w) PROVE RevisionInv'
  BY <1>2, UpsertKeeps
<1>3. ASSUME NEW w \in Workers, Rollback(w) PROVE RevisionInv'
  BY <1>3, RollbackKeeps
<1>4. ASSUME NEW w \in Workers, Commit(w) PROVE RevisionInv'
  BY <1>4, CommitKeeps
<1>5. CASE UNCHANGED vars
  BY <1>5 DEF vars, RevisionInv, Exclusive, MineInv, NamedInv, OneContent, Holds, Follows
<1> QED
  BY <1>1, <1>2, <1>3, <1>4, <1>5 DEF Next, RefuseRow, Fault, Rest

\* Two committed versions of a price or a factor with the same revision say the
\* same, however many callers upsert it and whatever fails between statements.
THEOREM RevisionsName == Spec => []RevisionNames
<1>1. RevisionInv => RevisionNames
  BY DEF RevisionInv, RevisionNames, OneContent
<1> QED
  BY <1>1, TypeCorrect, RevisionInv_Init, RevisionInv_Next, PTL DEF Spec

------------------------------------------------------------------------------
(* Rows after the first items of a list: the closed form of VersionedTable, cut *)
(* off at n, which is what a transaction has written after n statements.        *)

\* The items on key k among the first n.
Earlier(items, k, n) == {i \in 1..n : items[i].key = k}

\* The content that item i finds when the table has row.
Prior(row, items, i) ==
  LET before == Earlier(items, items[i].key, i - 1) IN
  IF before # {} THEN items[Versioned!Latest(before)].content
  ELSE IF row = NoRow THEN items[i].content ELSE row.content

ChangesUpTo(row, items, k, n) ==
  {i \in Earlier(items, k, n) : items[i].content # Prior(row, items, i)}

Base(row) == IF row = NoRow THEN 1 ELSE row.revision

Applied(row, items, k, n) ==
  LET last == items[Versioned!Latest(Earlier(items, k, n))] IN
  [content |-> last.content,
   fetched |-> last.fetched,
   revision |-> IF revised THEN Base(row) + Cardinality(ChangesUpTo(row, items, k, n))
                ELSE 1]

LEMMA LatestIsGreatest ==
  ASSUME NEW S \in SUBSET Nat, NEW m \in S, \A j \in S : j <= m
  PROVE  Versioned!Latest(S) = m
<1>1. \A i \in S : (\A j \in S : j <= i) => i = m
  OBVIOUS
<1> QED
  BY <1>1 DEF Versioned!Latest

LEMMA ChangesFinite ==
  ASSUME NEW row, NEW items, NEW k, NEW n \in Nat
  PROVE  /\ IsFiniteSet(ChangesUpTo(row, items, k, n))
         /\ Cardinality(ChangesUpTo(row, items, k, n)) \in Nat
         /\ n + 1 \notin ChangesUpTo(row, items, k, n)
<1>1. IsFiniteSet(1..n)
  BY FS_Interval
<1>2. ChangesUpTo(row, items, k, n) \in SUBSET (1..n)
  BY DEF ChangesUpTo, Earlier
<1>3. IsFiniteSet(ChangesUpTo(row, items, k, n))
  BY <1>1, <1>2, FS_Subset
<1>4. n + 1 \notin 1..n
  OBVIOUS
<1> QED
  BY <1>2, <1>3, <1>4, FS_CardinalityType

\* An item on another key leaves the row as it is.
LEMMA OtherKey ==
  ASSUME NEW row, NEW items \in Seq(Item), NEW n \in Nat, n < Len(items),
         NEW k \in Keys, k # items[n + 1].key
  PROVE  /\ Earlier(items, k, n + 1) = Earlier(items, k, n)
         /\ Applied(row, items, k, n + 1) = Applied(row, items, k, n)
<1>1. Earlier(items, k, n + 1) = Earlier(items, k, n)
  BY DEF Earlier
<1> QED
  BY <1>1 DEF Applied, ChangesUpTo

\* One statement makes the row after n + 1 items out of the row after n.
LEMMA PutApplies ==
  ASSUME NEW row \in Row \union {NoRow}, NEW items \in Seq(Item),
         NEW n \in Nat, n < Len(items), NEW current,
         ~revised => Base(row) = 1,
         LET k == items[n + 1].key IN
           IF Earlier(items, k, n) = {} THEN current = row
           ELSE current = Applied(row, items, k, n) /\ current # NoRow
  PROVE  /\ Earlier(items, items[n + 1].key, n + 1) # {}
         /\ Put(current, items[n + 1]) = Applied(row, items, items[n + 1].key, n + 1)
<1> DEFINE item == items[n + 1]
           k == item.key
           S == Earlier(items, k, n)
           C == ChangesUpTo(row, items, k, n)
<1>1. n + 1 \in 1..Len(items)
  OBVIOUS
<1>2. item \in Item /\ k \in Keys
  <2>1. item \in Item
    BY <1>1
  <2> QED
    BY <2>1 DEF Item
<1>3. Earlier(items, k, n + 1) = S \union {n + 1}
  BY <1>1 DEF Earlier
<1>4. Versioned!Latest(S \union {n + 1}) = n + 1
  <2>1. S \union {n + 1} \in SUBSET Nat /\ \A j \in S \union {n + 1} : j <= n + 1
    BY DEF Earlier
  <2> QED
    BY <2>1, LatestIsGreatest
<1>5. ChangesUpTo(row, items, k, n + 1) =
        C \union (IF item.content # Prior(row, items, n + 1) THEN {n + 1} ELSE {})
  BY <1>3 DEF ChangesUpTo
<1>6. Prior(row, items, n + 1) =
        IF current = NoRow THEN item.content ELSE current.content
  <2>1. (n + 1) - 1 = n
    OBVIOUS
  <2>2. CASE S = {}
    BY <2>1, <2>2 DEF Prior
  <2>3. CASE S # {}
    BY <2>1, <2>3 DEF Prior, Applied
  <2> QED
    BY <2>2, <2>3
<1>7. Cardinality(C) \in Nat /\ IsFiniteSet(C) /\ n + 1 \notin C
  BY ChangesFinite
<1>8. Cardinality(ChangesUpTo(row, items, k, n + 1)) =
        Cardinality(C) + (IF current # NoRow /\ Changed(current, item) THEN 1 ELSE 0)
  <2>1. CASE current # NoRow /\ Changed(current, item)
    <3>1. ChangesUpTo(row, items, k, n + 1) = C \union {n + 1}
      BY <1>5, <1>6, <2>1 DEF Changed
    <3> QED
      BY <1>7, <2>1, <3>1, FS_AddElement
  <2>2. CASE ~(current # NoRow /\ Changed(current, item))
    <3>1. ChangesUpTo(row, items, k, n + 1) = C
      BY <1>5, <1>6, <2>2 DEF Changed
    <3> QED
      BY <1>7, <2>2, <3>1
  <2> QED
    BY <2>1, <2>2
<1>9. Base(row) \in Nat
  BY DEF Base, Row
<1>10. ASSUME S = {} PROVE Cardinality(C) = 0
  <2>1. C = {}
    BY <1>10 DEF ChangesUpTo
  <2> QED
    BY <2>1, FS_EmptySet
<1>11. Put(current, item).revision =
         IF revised THEN Base(row) + Cardinality(ChangesUpTo(row, items, k, n + 1)) ELSE 1
  <2>1. CASE current = NoRow
    <3>1. S = {} /\ row = NoRow
      BY <2>1
    <3> QED
      BY <1>8, <1>10, <2>1, <3>1 DEF Put, Base
  <2>2. CASE current # NoRow
    <3>1. current.revision = IF revised THEN Base(row) + Cardinality(C) ELSE 1
      <4>1. CASE S = {}
        BY <1>9, <1>10, <2>2, <4>1 DEF Base
      <4>2. CASE S # {}
        BY <4>2 DEF Applied
      <4> QED
        BY <4>1, <4>2
    <3>2. Put(current, item).revision = current.revision + Bump(current, item)
      BY <2>2 DEF Put
    <3>3. Bump(current, item) = IF revised /\ Changed(current, item) THEN 1 ELSE 0
      BY DEF Bump
    <3>4. CASE revised
      BY <1>7, <1>8, <1>9, <2>2, <3>1, <3>2, <3>3, <3>4
    <3>5. CASE ~revised
      BY <3>1, <3>2, <3>3, <3>5
    <3> QED
      BY <3>4, <3>5
  <2> QED
    BY <2>1, <2>2
<1>12. Put(current, item) =
         [content |-> item.content, fetched |-> item.fetched,
          revision |-> Put(current, item).revision]
  BY DEF Put
<1>13. Applied(row, items, k, n + 1) =
         [content |-> item.content, fetched |-> item.fetched,
          revision |-> Put(current, item).revision]
  BY <1>3, <1>4, <1>11 DEF Applied
<1> QED
  BY <1>3, <1>12, <1>13

\* VersionedTable has its own instance of FiniteSets.
LEMMA SameCardinality == \A S : Versioned!Cardinality(S) = Cardinality(S)
  BY DEF Versioned!Cardinality, Cardinality

\* All items applied: VersionedTable's closed form.
LEMMA AppliedIsRowAfter ==
  ASSUME NEW items \in Seq(Item), NEW k \in Keys
  PROVE  /\ Versioned!Writes(items, k) = Earlier(items, k, Len(items))
         /\ Versioned!RowAfter(items, k) = Applied(table[k], items, k, Len(items))
<1>1. DOMAIN items = 1..Len(items) /\ Len(items) \in Nat
  OBVIOUS
<1>2. \A j : Versioned!Writes(items, j) = Earlier(items, j, Len(items))
  BY <1>1 DEF Versioned!Writes, Earlier
<1>3. \A i \in Earlier(items, k, Len(items)) :
        Versioned!Found(items, i) = Prior(table[k], items, i)
  <2> SUFFICES ASSUME NEW i \in Earlier(items, k, Len(items))
               PROVE  Versioned!Found(items, i) = Prior(table[k], items, i)
    OBVIOUS
  <2>1. i \in 1..Len(items) /\ items[i].key = k
    BY DEF Earlier
  <2>2. {j \in Earlier(items, k, Len(items)) : j < i} = Earlier(items, k, i - 1)
    BY <1>1, <2>1 DEF Earlier
  <2> QED
    BY <1>2, <2>1, <2>2 DEF Versioned!Found, Prior
<1>4. Versioned!Changes(items, k) = ChangesUpTo(table[k], items, k, Len(items))
  BY <1>2, <1>3 DEF Versioned!Changes, ChangesUpTo
<1> QED
  BY <1>2, <1>4, SameCardinality DEF Versioned!RowAfter, Applied, Base

------------------------------------------------------------------------------
(* A transaction has applied the first part of its list to the committed rows. *)

Count(w) == next[w] - 1

RowInv(w, k) ==
  IF Earlier(batch[w], k, Count(w)) = {} THEN ~Holds(w, k)
  ELSE Holds(w, k) /\ mine[w][k] = Applied(table[k], batch[w], k, Count(w))

WorkerInv(w) ==
  /\ pc[w] = "open" => batch[w] \in Batches
  /\ pc[w] = "idle" => next[w] = 1
  /\ Count(w) <= Len(batch[w])
  /\ \A i \in 1..Count(w) : batch[w][i].valid
  /\ \A k \in Keys : RowInv(w, k)

\* Without a revision column every row counts as the first version.
FirstInv == ~revised => \A k \in Keys : Base(table[k]) = 1

PrefixInv == FirstInv /\ \A w \in Workers : WorkerInv(w)

LEMMA FreshWorker ==
  ASSUME NEW w \in Workers, next[w] = 1, \A k \in Keys : ~Holds(w, k),
         pc[w] = "open" => batch[w] \in Batches, Len(batch[w]) \in Nat
  PROVE  WorkerInv(w)
<1>1. Count(w) = 0
  BY DEF Count
<1>2. \A k \in Keys : Earlier(batch[w], k, Count(w)) = {}
  BY <1>1 DEF Earlier
<1> QED
  BY <1>1, <1>2 DEF WorkerInv, RowInv

LEMMA SameWorker ==
  ASSUME NEW w \in Workers, WorkerInv(w), revised' = revised,
         pc'[w] = pc[w], batch'[w] = batch[w], next'[w] = next[w], mine'[w] = mine[w],
         \A k \in Keys : Holds(w, k) => table'[k] = table[k]
  PROVE  WorkerInv(w)'
<1>1. Count(w)' = Count(w)
  BY DEF Count
<1>2. ASSUME NEW k \in Keys PROVE RowInv(w, k)'
  <2>1. CASE Earlier(batch[w], k, Count(w)) = {}
    BY <1>1, <2>1 DEF WorkerInv, RowInv, Holds
  <2>2. CASE Earlier(batch[w], k, Count(w)) # {}
    <3>1. Holds(w, k) /\ mine[w][k] = Applied(table[k], batch[w], k, Count(w))
      BY <2>2 DEF WorkerInv, RowInv
    <3>2. table'[k] = table[k]
      BY <3>1
    <3>3. Applied(table[k], batch[w], k, Count(w))'
            = Applied(table[k], batch[w], k, Count(w))
      BY <1>1, <3>2 DEF Applied
    <3> QED
      BY <1>1, <2>2, <3>1, <3>3 DEF RowInv, Holds
  <2> QED
    BY <2>1, <2>2
<1> QED
  BY <1>1, <1>2 DEF WorkerInv

LEMMA PrefixInv_Init == Init => PrefixInv
<1> SUFFICES ASSUME Init PROVE PrefixInv
  OBVIOUS
<1>1. FirstInv
  BY DEF Init, FirstInv, Base, Nothing
<1>2. ASSUME NEW w \in Workers PROVE WorkerInv(w)
  <2>1. /\ next[w] = 1 /\ pc[w] = "idle" /\ batch[w] = << >>
        /\ \A k \in Keys : ~Holds(w, k)
    BY DEF Init, Holds, Nothing
  <2> QED
    BY <2>1, FreshWorker
<1> QED
  BY <1>1, <1>2 DEF PrefixInv

LEMMA BeginPrefix ==
  ASSUME TypeOK, PrefixInv, NEW w \in Workers, NEW items \in Batches, Begin(w, items)
  PROVE  PrefixInv'
<1>1. UNCHANGED <<table, revised, next, mine>> /\ pc[w] = "idle"
  BY DEF Begin
<1>2. batch'[w] = items /\ items \in Seq(Item)
  BY BatchesAssumption DEF Begin, TypeOK
<1>3. WorkerInv(w)'
  <2>1. next[w] = 1 /\ Count(w) = 0 /\ \A k \in Keys : RowInv(w, k)
    BY <1>1 DEF PrefixInv, WorkerInv, Count
  <2>2. \A k \in Keys : ~Holds(w, k)
    BY <2>1 DEF RowInv, Earlier
  <2>3. Count(w)' = 0
    BY <1>1, <2>1 DEF Count
  <2>4. \A k \in Keys : RowInv(w, k)'
    BY <1>1, <2>2, <2>3 DEF RowInv, Earlier, Holds
  <2> QED
    BY <1>1, <1>2, <2>1, <2>3, <2>4 DEF WorkerInv
<1>4. ASSUME NEW v \in Workers \ {w} PROVE WorkerInv(v)'
  <2>1. pc'[v] = pc[v] /\ batch'[v] = batch[v]
    BY DEF Begin, TypeOK
  <2> QED
    BY <1>1, <2>1, SameWorker DEF PrefixInv
<1> QED
  BY <1>1, <1>3, <1>4 DEF PrefixInv, FirstInv, Base

LEMMA UpsertPrefix ==
  ASSUME TypeOK, PrefixInv, NEW w \in Workers, UpsertRow(w)
  PROVE  PrefixInv'
<1> DEFINE items == batch[w]
           n == Count(w)
           item == items[n + 1]
<1>1. UNCHANGED <<table, revised, pc, batch>> /\ MoreItems(w) /\ item.valid
  <2>1. n + 1 = next[w]
    BY DEF Count, TypeOK
  <2> QED
    BY <2>1 DEF UpsertRow, NextItem
<1>2. items \in Seq(Item) /\ n \in Nat /\ n < Len(items) /\ NextItem(w) = item
  BY <1>1 DEF TypeOK, MoreItems, Count, NextItem
<1>3. item \in Item
  BY <1>1, <1>2, NextItemType
<1>4. PICK key \in Keys : key = item.key
  BY <1>3 DEF Item
<1>5. mine' = [mine EXCEPT ![w] = [@ EXCEPT ![key] = Put(Current(w, key), item)]]
      /\ Put(Current(w, key), item) \in Row
  BY <1>2, <1>4, UpsertEffect
<1>6. Count(w)' = n + 1
  BY <1>2 DEF UpsertRow, Count, TypeOK
<1>7. RowInv(w, key)'
  <2>1. IF Earlier(items, key, n) = {} THEN Current(w, key) = table[key]
        ELSE Current(w, key) = Applied(table[key], items, key, n) /\ Current(w, key) # NoRow
    BY <1>4 DEF PrefixInv, WorkerInv, RowInv, Current, Holds
  <2>2. table[key] \in Row \union {NoRow} /\ (~revised => Base(table[key]) = 1)
    BY <1>4 DEF TypeOK, PrefixInv, FirstInv
  <2>3. Earlier(items, key, n + 1) # {}
        /\ Put(Current(w, key), item) = Applied(table[key], items, key, n + 1)
    <3> HIDE DEF n, items
    <3> QED
      BY <1>2, <1>4, <2>1, <2>2, PutApplies
  <2>4. mine'[w][key] = Put(Current(w, key), item) /\ mine'[w][key] # NoRow
    BY <1>4, <1>5, NoRowAssumption DEF TypeOK
  <2>5. Applied(table[key], items, key, n + 1)
          = Applied(table[key], batch[w], key, Count(w))'
    BY <1>1, <1>6 DEF Applied
  <2> QED
    BY <1>1, <1>6, <2>3, <2>4, <2>5 DEF RowInv, Holds
<1>8. ASSUME NEW k \in Keys \ {key} PROVE RowInv(w, k)'
  <2>1. Earlier(items, k, n + 1) = Earlier(items, k, n)
        /\ Applied(table[k], items, k, n + 1) = Applied(table[k], items, k, n)
    <3> HIDE DEF n, items
    <3> QED
      BY <1>2, <1>4, OtherKey
  <2>2. mine'[w][k] = mine[w][k]
    BY <1>5 DEF TypeOK
  <2>3. Applied(table[k], items, k, n + 1)
          = Applied(table[k], batch[w], k, Count(w))'
    BY <1>1, <1>6 DEF Applied
  <2> QED
    BY <1>1, <1>6, <2>1, <2>2, <2>3 DEF PrefixInv, WorkerInv, RowInv, Holds
<1>9. \A i \in 1..(n + 1) : items[i].valid
  BY <1>1, <1>2 DEF PrefixInv, WorkerInv
<1>10. WorkerInv(w)'
  <2>1. pc[w] = "open"
    BY DEF UpsertRow
  <2> QED
    BY <1>1, <1>2, <1>6, <1>7, <1>8, <1>9, <2>1 DEF PrefixInv, WorkerInv
<1>11. ASSUME NEW v \in Workers \ {w} PROVE WorkerInv(v)'
  <2>1. next'[v] = next[v] /\ mine'[v] = mine[v]
    BY <1>5 DEF UpsertRow, TypeOK
  <2> QED
    BY <1>1, <2>1, SameWorker DEF PrefixInv
<1> QED
  BY <1>1, <1>10, <1>11 DEF PrefixInv, FirstInv, Base

\* The end of a call, whatever happened to the rows it had locked.
LEMMA ClosePrefix ==
  ASSUME TypeOK, PrefixInv, NEW w \in Workers, Close(w), FirstInv',
         \A v \in Workers \ {w} : \A k \in Keys : Holds(v, k) => table'[k] = table[k]
  PROVE  PrefixInv'
<1>1. WorkerInv(w)'
  <2>1. /\ next'[w] = 1 /\ pc'[w] = "idle" /\ batch'[w] = << >> /\ mine'[w] = Nothing
    BY DEF Close, TypeOK
  <2>2. Count(w)' = 0
    BY <2>1 DEF Count
  <2>3. \A k \in Keys : RowInv(w, k)'
    BY <2>1, <2>2 DEF RowInv, Earlier, Holds, Nothing
  <2> QED
    BY <2>1, <2>2, <2>3 DEF WorkerInv
<1>2. ASSUME NEW v \in Workers \ {w} PROVE WorkerInv(v)'
  <2>1. /\ pc'[v] = pc[v] /\ batch'[v] = batch[v] /\ next'[v] = next[v]
        /\ mine'[v] = mine[v] /\ revised' = revised
    BY DEF Close, TypeOK
  <2> QED
    BY <2>1, SameWorker DEF PrefixInv
<1> QED
  BY <1>1, <1>2 DEF PrefixInv

LEMMA CommitPrefix ==
  ASSUME TypeOK, PrefixInv, Exclusive, NEW w \in Workers, Commit(w)
  PROVE  PrefixInv'
<1>1. Close(w) /\ revised' = revised
  BY DEF Commit, Close
<1>2. \A k \in Keys : table'[k] = IF Holds(w, k) THEN mine[w][k] ELSE table[k]
  BY DEF Commit
<1>3. FirstInv'
  <2> SUFFICES ASSUME ~revised, NEW k \in Keys PROVE Base(table'[k]) = 1
    BY <1>1 DEF FirstInv, Base
  <2>1. CASE Holds(w, k)
    <3>1. mine[w][k] = Applied(table[k], batch[w], k, Count(w))
      BY <2>1 DEF PrefixInv, WorkerInv, RowInv
    <3>2. mine[w][k].revision = 1
      BY <3>1 DEF Applied
    <3> QED
      BY <1>2, <2>1, <3>2 DEF Base
  <2>2. CASE ~Holds(w, k)
    BY <1>2, <2>2 DEF PrefixInv, FirstInv
  <2> QED
    BY <2>1, <2>2
<1>4. \A v \in Workers \ {w} : \A k \in Keys : Holds(v, k) => table'[k] = table[k]
  BY <1>2 DEF Exclusive
<1> QED
  BY <1>1, <1>3, <1>4, ClosePrefix

LEMMA PrefixInv_Next == TypeOK /\ RevisionInv /\ PrefixInv /\ [Next]_vars => PrefixInv'
<1> SUFFICES ASSUME TypeOK, RevisionInv, PrefixInv, [Next]_vars PROVE PrefixInv'
  OBVIOUS
<1>1. ASSUME NEW w \in Workers, NEW items \in Batches, Begin(w, items)
      PROVE  PrefixInv'
  BY <1>1, BeginPrefix
<1>2. ASSUME NEW w \in Workers, UpsertRow(w) PROVE PrefixInv'
  BY <1>2, UpsertPrefix
<1>3. ASSUME NEW w \in Workers, Rollback(w) PROVE PrefixInv'
  <2>1. Close(w) /\ table' = table /\ revised' = revised
    BY <1>3 DEF Rollback, Close
  <2>2. FirstInv'
    BY <2>1 DEF PrefixInv, FirstInv, Base
  <2> QED
    BY <2>1, <2>2, ClosePrefix
<1>4. ASSUME NEW w \in Workers, Commit(w) PROVE PrefixInv'
  BY <1>4, CommitPrefix DEF RevisionInv
<1>5. CASE UNCHANGED vars
  <2>1. ASSUME NEW w \in Workers PROVE WorkerInv(w)'
    BY <1>5, SameWorker DEF PrefixInv, vars
  <2> QED
    BY <1>5, <2>1 DEF PrefixInv, FirstInv, Base, vars
<1> QED
  BY <1>1, <1>2, <1>3, <1>4, <1>5 DEF Next, RefuseRow, Fault, Rest

------------------------------------------------------------------------------
(* Refinement. *)

LEMMA CommitIsUpsert ==
  ASSUME TypeOK, PrefixInv, NEW w \in Workers, Commit(w)
  PROVE  Versioned!Next
<1> DEFINE items == batch[w]
<1>1. items \in Batches /\ items \in Seq(Item) /\ Count(w) = Len(items)
  BY DEF Commit, MoreItems, Count, TypeOK, PrefixInv, WorkerInv
<1>2. \A i \in DOMAIN items : items[i].valid
  BY <1>1 DEF PrefixInv, WorkerInv
<1>3. ASSUME NEW k \in Keys
      PROVE  (IF Holds(w, k) THEN mine[w][k] ELSE table[k])
               = IF Versioned!Writes(items, k) = {} THEN table[k]
                 ELSE Versioned!RowAfter(items, k)
  <2>1. RowInv(w, k)
    BY DEF PrefixInv, WorkerInv
  <2>2. /\ Versioned!Writes(items, k) = Earlier(items, k, Count(w))
        /\ Versioned!RowAfter(items, k) = Applied(table[k], items, k, Count(w))
    BY <1>1, AppliedIsRowAfter
  <2> QED
    BY <2>1, <2>2 DEF RowInv
<1>4. Versioned!Upsert(items)
  BY <1>3 DEF Versioned!Upsert, Commit, Close
<1> QED
  BY <1>1, <1>2, <1>4 DEF Versioned!Next

LEMMA VersionedStep ==
  TypeOK /\ PrefixInv /\ [Next]_vars => [Versioned!Next]_(Versioned!vars)
<1> SUFFICES ASSUME TypeOK, PrefixInv, [Next]_vars
             PROVE  Versioned!Next \/ UNCHANGED Versioned!vars
  OBVIOUS
<1>1. ASSUME NEW w \in Workers, Commit(w) PROVE Versioned!Next
  BY <1>1, CommitIsUpsert
<1>2. \/ UNCHANGED <<table, revised>>
      \/ \E w \in Workers : Commit(w)
  BY DEF Next, Begin, UpsertRow, RefuseRow, Fault, Rollback, Close, Rest, vars
<1> QED
  BY <1>1, <1>2 DEF Versioned!vars

\* Concurrent Upserts with waits, refusals and faults anywhere are batches that
\* are applied whole, one after the other, with revisions that count changes.
THEOREM ImplementsVersionedTable == Spec => VersionedSpec
<1>1. Init => Versioned!Init
  BY DEF Init, Versioned!Init, Nothing
<1> QED
  BY <1>1, TypeCorrect, RevisionInv_Init, RevisionInv_Next, PrefixInv_Init,
     PrefixInv_Next, VersionedStep, PTL
     DEF Spec, VersionedSpec, Versioned!Spec
===============================================================================
