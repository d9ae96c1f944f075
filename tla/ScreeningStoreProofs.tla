-------------------------- MODULE ScreeningStoreProofs --------------------------
(***************************************************************************)
(* Proofs about ScreeningStore for any workers, runs, codes and lists of   *)
(* results: types, whole publication, honest answers, the refinement of    *)
(* RunLifecycle, and that callers which keep one order never wait for each *)
(* other in a circle.                                                      *)
(*                                                                         *)
(* All of it rests on two kinds of lock.  Whoever has updated a run is the *)
(* only one (RunLocked) and finds it RUNNING until its commit; a result is *)
(* inserted by one open transaction at most (RowLocked).                   *)
(***************************************************************************)
EXTENDS ScreeningStore, LeastNumber

\* How far the call of worker w has come in its list: results inserted so far
\* are valid and differ, and the run is updated after the last one.
CallInv(w) ==
  /\ next[w] <= Len(list[w]) + 1
  /\ \A i \in 1..(next[w] - 1) : list[w][i] \in Codes
  /\ \A i, j \in 1..(next[w] - 1) : list[w][i] = list[w][j] => i = j
  /\ pc[w] = "idle" => next[w] = 1
  /\ pc[w] \in {"commit", "committed"} => ~MoreItems(w)

\* What a call that has updated its run knows of it.
RunInv(w) ==
  /\ pc[w] = "commit" => status[target[w]] = "RUNNING"
  /\ pc[w] = "committed" =>
       status[target[w]] = "SUCCESS" /\ rows[target[w]] \subseteq Codes \X {w}

RunLocked ==
  \A id \in Ids : \A v, w \in Workers : HoldsRun(v, id) /\ HoldsRun(w, id) => v = w
RowLocked ==
  \A id \in Ids, c \in Codes : \A v, w \in Workers :
    HoldsRow(v, id, c) /\ HoldsRow(w, id, c) => v = w

\* Results are visible of successful runs only.
RowsInv == \A id \in Ids : status[id] # "SUCCESS" => rows[id] = {}

StoreInv ==
  /\ TypeOK
  /\ \A w \in Workers : CallInv(w) /\ RunInv(w)
  /\ RunLocked /\ RowLocked /\ RowsInv /\ AckedTruth

------------------------------------------------------------------------------
(* Facts about one call. *)

LEMMA ListFacts ==
  ASSUME TypeOK, NEW w \in Workers
  PROVE  /\ list[w] \in Seq(Codes \union {BadItem})
         /\ Len(list[w]) \in Nat /\ DOMAIN list[w] = 1..Len(list[w])
         /\ next[w] \in Nat \ {0} /\ target[w] \in Ids
<1>1. list[w] \in Seq(Codes \union {BadItem})
  BY ListsAssumption DEF TypeOK
<1> QED
  BY <1>1 DEF TypeOK

LEMMA InsertedFacts ==
  ASSUME TypeOK, NEW w \in Workers, CallInv(w)
  PROVE  /\ Inserted(w) \subseteq Codes
         /\ Inserted(w) \subseteq Given(w)
         /\ ~MoreItems(w) => Inserted(w) = Given(w)
<1>1. 1..(next[w] - 1) \subseteq DOMAIN list[w]
  BY ListFacts DEF CallInv
<1>2. ~MoreItems(w) => 1..(next[w] - 1) = DOMAIN list[w]
  BY ListFacts DEF CallInv, MoreItems
<1> QED
  BY <1>1, <1>2 DEF Inserted, Given, Nth, CallInv

\* What holds of a call depends on its own variables only.
LEMMA SameCall ==
  ASSUME NEW w \in Workers, CallInv(w), list'[w] = list[w],
         pc'[w] = pc[w], next'[w] = next[w]
  PROVE  CallInv(w)'
BY DEF CallInv, MoreItems

\* A call that waits for somebody has an open transaction.
LEMMA WaitsAreOpen ==
  ASSUME NEW w \in Workers, Blockers(w) # {} PROVE Open(w)
BY DEF Blockers, Open

\* The transaction of w is rolled back, for whatever reason.
Quit(w) == Open(w) /\ Rollback(w)

\* The UPDATE of Complete found its run RUNNING.
Marked(w) ==
  /\ pc[w] = "insert" /\ ~MoreItems(w) /\ Blockers(w) = {}
  /\ status[target[w]] = "RUNNING"
  /\ pc' = [pc EXCEPT ![w] = "commit"]
  /\ UNCHANGED <<status, rows, args, next, acked>>

\* The steps, with everything that ends in a rollback taken together.
LEMMA Cases ==
  ASSUME [Next]_vars
  PROVE  \/ \E id \in Ids : Submit(id)
         \/ \E w \in Workers :
              \/ \E id \in Ids, items \in Lists : BeginComplete(w, id, items)
              \/ \E id \in Ids : \/ Move(w, id, "PENDING", "RUNNING")
                                 \/ Move(w, id, "RUNNING", "FAILED")
                                 \/ Move(w, id, "RUNNING", "BLOCKED")
              \/ InsertResult(w) \/ Marked(w) \/ Commit(w) \/ ReturnNil(w)
              \/ Quit(w) \/ LoseAnswer(w)
         \/ UNCHANGED vars
<1>1. ASSUME NEW w \in Workers, Step(w)
      PROVE  InsertResult(w) \/ Marked(w) \/ Commit(w) \/ ReturnNil(w) \/ Quit(w)
  <2>1. ASSUME RefuseResult(w) PROVE Quit(w)
    BY <2>1 DEF RefuseResult, Quit, Open
  <2>2. ASSUME MarkSuccess(w) PROVE Marked(w) \/ Quit(w)
    BY <2>2 DEF MarkSuccess, Marked, Quit, Open
  <2>3. ASSUME DeadlockVictim(w) PROVE Quit(w)
    BY <2>3, WaitsAreOpen DEF DeadlockVictim, WaitCycle, Quit
  <2>4. ASSUME LockWaitTimeout(w) PROVE Quit(w)
    BY <2>4, WaitsAreOpen DEF LockWaitTimeout, Quit
  <2> QED
    BY <1>1, <2>1, <2>2, <2>3, <2>4 DEF Step
<1>2. ASSUME NEW w \in Workers, Fault(w) PROVE Quit(w)
  BY <1>2 DEF Fault, Quit
<1> QED
  BY <1>1, <1>2 DEF Next

------------------------------------------------------------------------------
(* Types. *)

LEMMA TypeOK_Next == StoreInv /\ [Next]_vars => TypeOK'
<1> SUFFICES ASSUME StoreInv, [Next]_vars PROVE TypeOK'
  OBVIOUS
<1>0. TypeOK /\ \A w \in Workers : CallInv(w)
  BY DEF StoreInv
<1> USE <1>0 DEF TypeOK, args
<1>1. ASSUME NEW id \in Ids, Submit(id) PROVE TypeOK'
  BY <1>1 DEF Submit
<1>2. ASSUME NEW w \in Workers, NEW id \in Ids, NEW items \in Lists,
             BeginComplete(w, id, items)
      PROVE  TypeOK'
  BY <1>2 DEF BeginComplete
<1>3. ASSUME NEW w \in Workers, NEW id \in Ids, NEW from,
             NEW to \in {"RUNNING", "FAILED", "BLOCKED"}, Move(w, id, from, to)
      PROVE  TypeOK'
  BY <1>3 DEF Move, Terminal
<1>4. ASSUME NEW w \in Workers,
             InsertResult(w) \/ Marked(w) \/ Quit(w) \/ LoseAnswer(w)
      PROVE  TypeOK'
  BY <1>4 DEF InsertResult, Marked, Quit, Rollback, LoseAnswer
<1>5. ASSUME NEW w \in Workers, Commit(w) PROVE TypeOK'
  <2>1. Inserted(w) \X {w} \subseteq Codes \X Workers
    BY InsertedFacts
  <2>2. target[w] \in Ids
    OBVIOUS
  <2>3. rows' \in [Ids -> SUBSET (Codes \X Workers)]
    BY <1>5, <2>1, <2>2 DEF Commit
  <2> QED
    BY <1>5, <2>3 DEF Commit, Terminal
<1>6. ASSUME NEW w \in Workers, ReturnNil(w) PROVE TypeOK'
  <2>1. <<"SUCCESS", w>> \in ({"RUNNING"} \union Terminal) \X Workers
    BY DEF Terminal
  <2> QED
    BY <1>6, <2>1 DEF ReturnNil
<1>7. CASE UNCHANGED vars
  BY <1>7 DEF vars
<1> QED
  BY <1>1, <1>2, <1>3, <1>4, <1>5, <1>6, <1>7, Cases

------------------------------------------------------------------------------
(* The calls. *)

LEMMA CallInv_Next ==
  ASSUME StoreInv, [Next]_vars, NEW w \in Workers
  PROVE  CallInv(w)'
<1>0. TypeOK /\ CallInv(w)
  BY DEF StoreInv
<1> USE <1>0
<1>1. ASSUME NEW id \in Ids, Submit(id) PROVE CallInv(w)'
  BY <1>1, SameCall DEF Submit, args
<1>2. ASSUME NEW v \in Workers, NEW id \in Ids, NEW from, NEW to, Move(v, id, from, to)
      PROVE  CallInv(w)'
  BY <1>2, SameCall DEF Move, args
<1>3. ASSUME NEW v \in Workers, NEW id \in Ids, NEW items \in Lists,
             BeginComplete(v, id, items)
      PROVE  CallInv(w)'
  <2>1. CASE v = w
    <3>1. list'[w] = items /\ next'[w] = 1 /\ pc'[w] = "insert"
      BY <1>3, <2>1 DEF BeginComplete, TypeOK
    <3>2. items \in Seq(Codes \union {BadItem})
      BY ListsAssumption
    <3>3. Len(items) \in Nat
      BY <3>2
    <3> QED
      BY <3>1, <3>3 DEF CallInv
  <2>2. CASE v # w
    BY <1>3, <2>2, SameCall DEF BeginComplete, TypeOK
  <2> QED
    BY <2>1, <2>2
<1>4. ASSUME NEW v \in Workers, InsertResult(v) PROVE CallInv(w)'
  <2>1. CASE v = w
    <3>1. next'[w] = next[w] + 1 /\ pc' = pc /\ list' = list /\ pc[w] = "insert"
      BY <1>4, <2>1 DEF InsertResult, TypeOK, args
    <3>2. list[w][next[w]] \in Codes
      BY <1>4, <2>1, ListFacts DEF InsertResult, MoreItems, Refused, Item, Nth
    <3>3. \A i \in 1..(next[w] - 1) : list[w][i] # list[w][next[w]]
      BY <1>4, <2>1 DEF InsertResult, Refused, Item, Inserted, Nth
    <3>4. next[w] <= Len(list[w])
      BY <1>4, <2>1 DEF InsertResult, MoreItems
    <3>5. 1..(next'[w] - 1) = 1..(next[w] - 1) \union {next[w]}
      BY <3>1, ListFacts
    <3>6. next'[w] <= Len(list'[w]) + 1
      BY <3>1, <3>4, ListFacts
    <3>7. \A i \in 1..(next'[w] - 1) : list'[w][i] \in Codes
      BY <3>1, <3>2, <3>5 DEF CallInv
    <3>8. \A i, j \in 1..(next'[w] - 1) : list'[w][i] = list'[w][j] => i = j
      BY <3>1, <3>3, <3>5 DEF CallInv
    <3> QED
      BY <3>1, <3>6, <3>7, <3>8 DEF CallInv
  <2>2. CASE v # w
    BY <1>4, <2>2, SameCall DEF InsertResult, TypeOK, args
  <2> QED
    BY <2>1, <2>2
<1>5. ASSUME NEW v \in Workers, Marked(v) PROVE CallInv(w)'
  <2>1. CASE v = w
    BY <1>5, <2>1 DEF Marked, CallInv, MoreItems, TypeOK, args
  <2>2. CASE v # w
    BY <1>5, <2>2, SameCall DEF Marked, TypeOK, args
  <2> QED
    BY <2>1, <2>2
<1>6. ASSUME NEW v \in Workers, Commit(v) PROVE CallInv(w)'
  <2>1. CASE v = w
    BY <1>6, <2>1 DEF Commit, CallInv, MoreItems, TypeOK, args
  <2>2. CASE v # w
    BY <1>6, <2>2, SameCall DEF Commit, TypeOK, args
  <2> QED
    BY <2>1, <2>2
<1>7. ASSUME NEW v \in Workers, ReturnNil(v) \/ Quit(v) \/ LoseAnswer(v)
      PROVE  CallInv(w)'
  <2>0. pc' = [pc EXCEPT ![v] = "idle"] /\ next' = [next EXCEPT ![v] = 1] /\ list' = list
    BY <1>7 DEF ReturnNil, Quit, Rollback, LoseAnswer, args
  <2>1. CASE v = w
    <3>1. next'[w] = 1 /\ pc'[w] = "idle"
      BY <2>0, <2>1 DEF TypeOK
    <3> QED
      BY <2>0, <3>1, ListFacts DEF CallInv
  <2>2. CASE v # w
    BY <2>0, <2>2, SameCall DEF TypeOK
  <2> QED
    BY <2>1, <2>2
<1>8. CASE UNCHANGED vars
  BY <1>8, SameCall DEF vars, args
<1> QED
  BY <1>1, <1>2, <1>3, <1>4, <1>5, <1>6, <1>7, <1>8, Cases

------------------------------------------------------------------------------
(* The locks. *)

\* A call updates a run that nobody else holds, and no other step takes one.
LEMMA RunHeld ==
  ASSUME StoreInv, [Next]_vars, NEW v \in Workers, NEW id \in Ids, HoldsRun(v, id)'
  PROVE  \/ HoldsRun(v, id)
         \/ Marked(v) /\ target[v] = id /\ \A w \in Workers \ {v} : ~HoldsRun(w, id)
<1> USE DEF StoreInv, TypeOK, HoldsRun, args
<1>1. ASSUME NEW w \in Workers, Marked(w)
      PROVE  \/ HoldsRun(v, id)
             \/ w = v /\ target[v] = id /\ \A u \in Workers \ {v} : ~HoldsRun(u, id)
  BY <1>1 DEF Marked, Blockers
<1>2. ASSUME NEW w \in Workers,
             \/ InsertResult(w) \/ Commit(w) \/ ReturnNil(w) \/ Quit(w) \/ LoseAnswer(w)
             \/ \E i \in Ids, items \in Lists : BeginComplete(w, i, items)
      PROVE  HoldsRun(v, id)
  BY <1>2 DEF InsertResult, Commit, ReturnNil, Quit, Rollback, LoseAnswer, BeginComplete
<1>3. ASSUME NEW w \in Workers, NEW i \in Ids, NEW from, NEW to, Move(w, i, from, to)
      PROVE  HoldsRun(v, id)
  BY <1>3 DEF Move
<1>4. ASSUME \/ \E i \in Ids : Submit(i)
             \/ UNCHANGED vars
      PROVE  HoldsRun(v, id)
  BY <1>4 DEF Submit, vars
<1> QED
  BY <1>1, <1>2, <1>3, <1>4, Cases

LEMMA RunLocked_Next == StoreInv /\ [Next]_vars => RunLocked'
<1> SUFFICES ASSUME StoreInv, [Next]_vars,
                    NEW id \in Ids, NEW v \in Workers, NEW w \in Workers,
                    HoldsRun(v, id)', HoldsRun(w, id)', v # w
             PROVE  FALSE
  BY DEF RunLocked
<1>1. ~(HoldsRun(v, id) /\ HoldsRun(w, id))
  BY DEF StoreInv, RunLocked
<1>2. ASSUME Marked(v), Marked(w) PROVE FALSE
  BY <1>2 DEF Marked, StoreInv, TypeOK
<1> QED
  BY <1>1, <1>2, RunHeld

\* A row is inserted by a call that waited for every other holder.
LEMMA RowHeld ==
  ASSUME StoreInv, [Next]_vars, NEW v \in Workers, NEW id \in Ids, NEW c \in Codes,
         HoldsRow(v, id, c)'
  PROVE  \/ HoldsRow(v, id, c)
         \/ /\ InsertResult(v) /\ target[v] = id /\ Item(v) = c
            /\ \A w \in Workers \ {v} : ~HoldsRow(w, id, c)
<1>0. TypeOK /\ \A w \in Workers : CallInv(w)
  BY DEF StoreInv
<1>1. ASSUME pc'[v] = pc[v] \/ pc[v] = "insert", target'[v] = target[v],
             list'[v] = list[v], next'[v] = next[v]
      PROVE  HoldsRow(v, id, c)
  BY <1>1 DEF HoldsRow, Open, Inserted, Nth
<1>2. ASSUME pc'[v] \notin {"insert", "commit"} \/ next'[v] = 1
      PROVE  FALSE
  BY <1>2 DEF HoldsRow, Open, Inserted
<1>3. ASSUME NEW w \in Workers, InsertResult(w)
      PROVE  \/ HoldsRow(v, id, c)
             \/ /\ w = v /\ target[v] = id /\ Item(v) = c
                /\ \A u \in Workers \ {v} : ~HoldsRow(u, id, c)
  <2>1. CASE w = v
    <3>1. next'[v] = next[v] + 1 /\ UNCHANGED <<pc, target, list>> /\ pc[v] = "insert"
      BY <1>0, <1>3, <2>1 DEF InsertResult, TypeOK, args
    <3>2. Inserted(v)' \subseteq Inserted(v) \union {Item(v)}
      BY <1>0, <3>1, ListFacts DEF Inserted, Nth, Item
    <3>3. \A u \in Workers \ {v} : ~HoldsRow(u, target[v], Item(v))
      BY <1>3, <2>1 DEF InsertResult, Blockers
    <3> QED
      BY <2>1, <3>1, <3>2, <3>3 DEF HoldsRow, Open
  <2>2. CASE w # v
    BY <1>0, <1>1, <1>3, <2>2 DEF InsertResult, TypeOK, args
  <2> QED
    BY <2>1, <2>2
<1>4. ASSUME NEW w \in Workers,
             \/ Marked(w) \/ Commit(w) \/ ReturnNil(w) \/ Quit(w) \/ LoseAnswer(w)
             \/ \E i \in Ids, items \in Lists : BeginComplete(w, i, items)
      PROVE  HoldsRow(v, id, c)
  <2>1. CASE w = v
    <3>1. CASE Marked(w)
      BY <1>0, <1>1, <2>1, <3>1 DEF Marked, TypeOK, args
    <3>2. CASE ~Marked(w)
      BY <1>0, <1>2, <1>4, <2>1, <3>2
         DEF Commit, ReturnNil, Quit, Rollback, LoseAnswer, BeginComplete, TypeOK
    <3> QED
      BY <3>1, <3>2
  <2>2. CASE w # v
    BY <1>0, <1>1, <1>4, <2>2
       DEF Marked, Commit, ReturnNil, Quit, Rollback, LoseAnswer, BeginComplete, TypeOK, args
  <2> QED
    BY <2>1, <2>2
<1>5. ASSUME NEW w \in Workers, NEW i \in Ids, NEW from, NEW to, Move(w, i, from, to)
      PROVE  HoldsRow(v, id, c)
  BY <1>1, <1>5 DEF Move, args
<1>6. ASSUME \/ \E i \in Ids : Submit(i)
             \/ UNCHANGED vars
      PROVE  HoldsRow(v, id, c)
  BY <1>1, <1>6 DEF Submit, vars, args
<1> QED
  BY <1>3, <1>4, <1>5, <1>6, Cases

LEMMA RowLocked_Next == StoreInv /\ [Next]_vars => RowLocked'
<1> SUFFICES ASSUME StoreInv, [Next]_vars, NEW id \in Ids, NEW c \in Codes,
                    NEW v \in Workers, NEW w \in Workers,
                    HoldsRow(v, id, c)', HoldsRow(w, id, c)', v # w
             PROVE  FALSE
  BY DEF RowLocked
<1>1. ~(HoldsRow(v, id, c) /\ HoldsRow(w, id, c))
  BY DEF StoreInv, RowLocked
<1>2. ASSUME InsertResult(v), InsertResult(w) PROVE FALSE
  BY <1>2 DEF InsertResult, StoreInv, TypeOK
<1> QED
  BY <1>1, <1>2, RowHeld

------------------------------------------------------------------------------
(* Runs, results and answers. *)

\* The steps that change a run: only those of its life, and only the commit of
\* the call that holds it when somebody does.
LEMMA StatusMoves ==
  ASSUME StoreInv, [Next]_vars, NEW id \in Ids
  PROVE  \/ status'[id] = status[id] /\ rows'[id] = rows[id]
         \/ /\ status[id] = "none" /\ status'[id] = "PENDING"
            /\ rows'[id] = rows[id]
         \/ /\ status[id] = "PENDING" /\ status'[id] = "RUNNING"
            /\ rows'[id] = rows[id]
         \/ /\ status[id] = "RUNNING" /\ status'[id] \in {"FAILED", "BLOCKED"}
            /\ rows'[id] = rows[id] /\ \A v \in Workers : ~HoldsRun(v, id)
         \/ /\ status[id] = "RUNNING" /\ status'[id] = "SUCCESS"
            /\ \E w \in Workers : /\ Commit(w) /\ target[w] = id
                                  /\ rows'[id] = Given(w) \X {w}
<1>0. TypeOK /\ \A w \in Workers : CallInv(w) /\ RunInv(w)
  BY DEF StoreInv
<1>1. ASSUME NEW i \in Ids, Submit(i)
      PROVE  \/ status'[id] = status[id] /\ rows'[id] = rows[id]
             \/ /\ status[id] = "none" /\ status'[id] = "PENDING"
                /\ rows'[id] = rows[id]
  BY <1>0, <1>1 DEF Submit, TypeOK
<1>2. ASSUME NEW w \in Workers, NEW i \in Ids, NEW from, NEW to, Move(w, i, from, to)
      PROVE  \/ status'[id] = status[id] /\ rows'[id] = rows[id]
             \/ /\ status[id] = from /\ status'[id] = to
                /\ rows'[id] = rows[id] /\ \A v \in Workers : ~HoldsRun(v, id)
  BY <1>0, <1>2 DEF Move, TypeOK
<1>3. ASSUME NEW w \in Workers, Commit(w)
      PROVE  \/ status'[id] = status[id] /\ rows'[id] = rows[id]
             \/ /\ status[id] = "RUNNING" /\ status'[id] = "SUCCESS"
                /\ target[w] = id /\ rows'[id] = Given(w) \X {w}
  <2>1. CASE target[w] = id
    <3>1. status[id] = "RUNNING" /\ rows[id] = {}
      BY <1>0, <1>3, <2>1 DEF Commit, RunInv, StoreInv, RowsInv
    <3>2. Inserted(w) = Given(w)
      BY <1>0, <1>3, InsertedFacts DEF Commit, CallInv
    <3>3. status'[id] = "SUCCESS" /\ rows'[id] = rows[id] \union (Inserted(w) \X {w})
      BY <1>0, <1>3, <2>1 DEF Commit, TypeOK
    <3> QED
      BY <2>1, <3>1, <3>2, <3>3
  <2>2. CASE target[w] # id
    BY <1>0, <1>3, <2>2 DEF Commit, TypeOK
  <2> QED
    BY <2>1, <2>2
<1>4. ASSUME NEW w \in Workers,
             \/ InsertResult(w) \/ Marked(w) \/ ReturnNil(w) \/ Quit(w) \/ LoseAnswer(w)
             \/ \E i \in Ids, items \in Lists : BeginComplete(w, i, items)
      PROVE  status'[id] = status[id] /\ rows'[id] = rows[id]
  BY <1>4 DEF InsertResult, Marked, ReturnNil, Quit, Rollback, LoseAnswer, BeginComplete
<1>5. CASE UNCHANGED vars
  BY <1>5 DEF vars
<1> QED
  BY <1>1, <1>2, <1>3, <1>4, <1>5, Cases

LEMMA RowsInv_Next == StoreInv /\ [Next]_vars => RowsInv'
  BY StatusMoves DEF StoreInv, RowsInv

\* A call has committed, or has not finished yet, as before; or it does now.
LEMMA CallMoves ==
  ASSUME StoreInv, [Next]_vars, NEW w \in Workers
  PROVE  /\ pc'[w] = "committed" =>
              target'[w] = target[w] /\ (pc[w] = "committed" \/ Commit(w))
         /\ pc'[w] = "commit" =>
              target'[w] = target[w] /\ (pc[w] = "commit" \/ Marked(w))
<1> USE DEF StoreInv, TypeOK, args
<1>1. ASSUME NEW v \in Workers,
             \/ Commit(v) \/ Marked(v)
             \/ InsertResult(v) \/ ReturnNil(v) \/ Quit(v) \/ LoseAnswer(v)
             \/ \E i \in Ids, items \in Lists : BeginComplete(v, i, items)
      PROVE  /\ pc'[w] = "committed" =>
                  target'[w] = target[w] /\ (pc[w] = "committed" \/ (v = w /\ Commit(v)))
             /\ pc'[w] = "commit" =>
                  target'[w] = target[w] /\ (pc[w] = "commit" \/ (v = w /\ Marked(v)))
  <2>1. CASE Commit(v)
    BY <2>1 DEF Commit
  <2>2. CASE Marked(v)
    BY <2>2 DEF Marked
  <2>3. CASE ~Commit(v) /\ ~Marked(v)
    BY <1>1, <2>3 DEF InsertResult, ReturnNil, Quit, Rollback, LoseAnswer, BeginComplete
  <2> QED
    BY <2>1, <2>2, <2>3
<1>2. ASSUME NEW v \in Workers, NEW i \in Ids, NEW from, NEW to, Move(v, i, from, to)
      PROVE  UNCHANGED <<pc, target>>
  BY <1>2 DEF Move
<1>3. ASSUME \/ \E i \in Ids : Submit(i)
             \/ UNCHANGED vars
      PROVE  UNCHANGED <<pc, target>>
  BY <1>3 DEF Submit, vars
<1> QED
  BY <1>1, <1>2, <1>3, Cases

LEMMA RunInv_Next ==
  ASSUME StoreInv, [Next]_vars, NEW w \in Workers
  PROVE  RunInv(w)'
<1>0. TypeOK /\ target[w] \in Ids /\ RunInv(w)
  BY DEF StoreInv, TypeOK
<1> DEFINE id == target[w]
<1>1. ASSUME pc'[w] = "commit" PROVE status'[id] = "RUNNING" /\ target'[w] = id
  <2>1. target'[w] = id /\ (pc[w] = "commit" \/ Marked(w))
    BY <1>1, CallMoves
  <2>2. status[id] = "RUNNING"
    BY <1>0, <2>1 DEF RunInv, Marked
  <2>3. CASE pc[w] = "commit"
    <3>1. HoldsRun(w, id)
      BY <2>3 DEF HoldsRun
    <3>2. ASSUME NEW v \in Workers, Commit(v), target[v] = id PROVE FALSE
      <4>1. HoldsRun(v, id)
        BY <3>2 DEF HoldsRun, Commit
      <4>2. v = w
        BY <1>0, <3>1, <4>1 DEF StoreInv, RunLocked
      <4> QED
        BY <1>0, <1>1, <3>2, <4>2 DEF Commit, TypeOK
    <3> QED
      BY <1>0, <2>1, <2>2, <3>1, <3>2, StatusMoves
  <2>4. CASE Marked(w)
    BY <2>1, <2>2, <2>4 DEF Marked
  <2> QED
    BY <2>1, <2>3, <2>4
<1>2. ASSUME pc'[w] = "committed"
      PROVE  status'[id] = "SUCCESS" /\ rows'[id] \subseteq Codes \X {w} /\ target'[w] = id
  <2>1. target'[w] = id /\ (pc[w] = "committed" \/ Commit(w))
    BY <1>2, CallMoves
  <2>2. CASE pc[w] = "committed"
    BY <1>0, <2>1, <2>2, StatusMoves DEF RunInv
  <2>3. CASE Commit(w)
    <3>1. rows[id] = {}
      BY <1>0, <2>3 DEF Commit, RunInv, StoreInv, RowsInv
    <3>2. rows'[id] = rows[id] \union (Inserted(w) \X {w}) /\ status'[id] = "SUCCESS"
      BY <1>0, <2>3 DEF Commit, TypeOK
    <3>3. Inserted(w) \subseteq Codes
      BY <1>0, InsertedFacts DEF StoreInv
    <3> QED
      BY <2>1, <3>1, <3>2, <3>3
  <2> QED
    BY <2>2, <2>3, <2>1
<1> QED
  BY <1>1, <1>2 DEF RunInv

\* What a step adds to the answers is what it has just made true.
LEMMA NewAcks ==
  ASSUME StoreInv, [Next]_vars, NEW id \in Ids, NEW a \in acked'[id], a \notin acked[id]
  PROVE  \/ a[1] = "RUNNING"
         \/ /\ a[1] \in {"FAILED", "BLOCKED"} /\ status'[id] = a[1]
         \/ \E w \in Workers : /\ a = <<"SUCCESS", w>> /\ UNCHANGED <<status, rows>>
                               /\ pc[w] = "committed" /\ target[w] = id
<1>0. TypeOK
  BY DEF StoreInv
<1>1. ASSUME NEW w \in Workers, NEW i \in Ids, NEW from, NEW to, Move(w, i, from, to)
      PROVE  a[1] = to /\ status'[id] = to
  BY <1>0, <1>1 DEF Move, TypeOK
<1>2. ASSUME NEW w \in Workers, ReturnNil(w)
      PROVE  /\ a = <<"SUCCESS", w>> /\ UNCHANGED <<status, rows>>
             /\ pc[w] = "committed" /\ target[w] = id
  BY <1>0, <1>2 DEF ReturnNil, TypeOK
<1>3. ASSUME NEW w \in Workers,
             \/ InsertResult(w) \/ Marked(w) \/ Commit(w) \/ Quit(w) \/ LoseAnswer(w)
             \/ \E i \in Ids, items \in Lists : BeginComplete(w, i, items)
      PROVE  FALSE
  BY <1>3 DEF InsertResult, Marked, Commit, Quit, Rollback, LoseAnswer, BeginComplete
<1>4. ASSUME \/ \E i \in Ids : Submit(i)
             \/ UNCHANGED vars
      PROVE  FALSE
  BY <1>4 DEF Submit, vars
<1> QED
  BY <1>1, <1>2, <1>3, <1>4, Cases

LEMMA AckedTruth_Next == StoreInv /\ [Next]_vars => AckedTruth'
<1> SUFFICES ASSUME StoreInv, [Next]_vars, NEW id \in Ids, NEW a \in acked'[id]
             PROVE  /\ a[1] \in Terminal => status'[id] = a[1]
                    /\ a[1] = "SUCCESS" => \A r \in rows'[id] : r[2] = a[2]
  BY DEF AckedTruth
<1>1. CASE a \in acked[id]
  <2>1. /\ a[1] \in Terminal => status[id] = a[1]
        /\ a[1] = "SUCCESS" => \A r \in rows[id] : r[2] = a[2]
    BY <1>1 DEF StoreInv, AckedTruth
  <2> QED
    BY <2>1, StatusMoves DEF Terminal
<1>2. CASE a \notin acked[id]
  <2>1. ASSUME NEW w \in Workers, a = <<"SUCCESS", w>>, UNCHANGED <<status, rows>>,
               pc[w] = "committed", target[w] = id
        PROVE  status'[id] = a[1] /\ \A r \in rows'[id] : r[2] = a[2]
    <3>1. status[id] = "SUCCESS" /\ rows[id] \subseteq Codes \X {w}
      BY <2>1 DEF StoreInv, RunInv
    <3> QED
      BY <2>1, <3>1
  <2> QED
    BY <1>2, <2>1, NewAcks DEF Terminal
<1> QED
  BY <1>1, <1>2

LEMMA StoreInv_Init == Init => StoreInv
<1> SUFFICES ASSUME Init PROVE StoreInv
  OBVIOUS
<1> USE DEF Init
<1>1. TypeOK
  BY DEF TypeOK
<1>2. ASSUME NEW w \in Workers PROVE CallInv(w) /\ RunInv(w)
  BY <1>1, ListFacts DEF CallInv, RunInv
<1>3. RunLocked /\ RowLocked /\ RowsInv /\ AckedTruth
  BY DEF RunLocked, RowLocked, RowsInv, AckedTruth, HoldsRun, HoldsRow, Open
<1> QED
  BY <1>1, <1>2, <1>3 DEF StoreInv

LEMMA StoreAlways == Spec => []StoreInv
<1>1. StoreInv /\ [Next]_vars => StoreInv'
  <2> SUFFICES ASSUME StoreInv, [Next]_vars PROVE StoreInv'
    OBVIOUS
  <2>1. ASSUME NEW w \in Workers PROVE CallInv(w)' /\ RunInv(w)'
    BY CallInv_Next, RunInv_Next
  <2> QED
    BY <2>1, TypeOK_Next, RunLocked_Next, RowLocked_Next, RowsInv_Next, AckedTruth_Next
       DEF StoreInv
<1> QED
  BY <1>1, StoreInv_Init, PTL DEF Spec

------------------------------------------------------------------------------
(* Theorems. *)

\* Every variable keeps its type, for any workers, runs and lists.
THEOREM TypeCorrect == Spec => []TypeOK
<1>1. StoreInv => TypeOK
  BY DEF StoreInv
<1> QED
  BY <1>1, StoreAlways, PTL

\* What a worker was told of a run stays true, whoever else completes, fails or
\* restarts it.
THEOREM AcksStayTrue == Spec => []AckedTruth
<1>1. StoreInv => AckedTruth
  BY DEF StoreInv
<1> QED
  BY <1>1, StoreAlways, PTL

\* A run becomes SUCCESS with exactly the results that one worker passed.
THEOREM PublishesWhole == Spec => PublishWhole
<1>1. StoreInv /\ [Next]_vars =>
        \A id \in Ids : status[id] # "SUCCESS" /\ status'[id] = "SUCCESS" =>
          \E w \in Workers : target[w] = id /\ rows'[id] = Given(w) \X {w}
  BY StatusMoves
<1> QED
  BY <1>1, StoreAlways, PTL DEF Spec, PublishWhole

------------------------------------------------------------------------------
(* Refinement of RunLifecycle. *)

LEMMA CommitEnds ==
  ASSUME StoreInv, NEW w \in Workers, Commit(w)
  PROVE  Lifecycle!End(target[w], "SUCCESS", Inserted(w) \X {w})
<1>1. TypeOK /\ target[w] \in Ids /\ status[target[w]] = "RUNNING"
  BY DEF StoreInv, TypeOK, RunInv, Commit
<1>2. rows[target[w]] = {}
  BY <1>1 DEF StoreInv, RowsInv
<1>3. rows' = [rows EXCEPT ![target[w]] = Inserted(w) \X {w}]
  BY <1>1, <1>2 DEF Commit, TypeOK
<1> QED
  BY <1>1, <1>3 DEF Lifecycle!End, Lifecycle!Move, Commit

LEMMA LifecycleStep ==
  ASSUME StoreInv, [Next]_vars
  PROVE  [Lifecycle!Next]_(Lifecycle!vars)
<1>0. TypeOK /\ \A w \in Workers : CallInv(w)
  BY DEF StoreInv
<1> SUFFICES Lifecycle!Next \/ UNCHANGED <<status, rows>>
  BY DEF Lifecycle!vars
<1>1. ASSUME NEW id \in Ids, Submit(id) PROVE Lifecycle!Next
  BY <1>1 DEF Submit, Lifecycle!Next, Lifecycle!Submit, Lifecycle!Move
<1>2. ASSUME NEW w \in Workers, NEW id \in Ids, Move(w, id, "PENDING", "RUNNING")
      PROVE  Lifecycle!Next
  BY <1>2 DEF Move, Lifecycle!Next, Lifecycle!Begin, Lifecycle!Move
<1>3. ASSUME NEW w \in Workers, NEW id \in Ids, NEW to \in {"FAILED", "BLOCKED"},
             Move(w, id, "RUNNING", to)
      PROVE  Lifecycle!Next
  <2>1. rows[id] = {}
    BY <1>3 DEF Move, StoreInv, RowsInv
  <2>2. rows' = [rows EXCEPT ![id] = {}]
    BY <1>0, <1>3, <2>1 DEF Move, TypeOK
  <2>3. Lifecycle!End(id, to, {})
    BY <1>3, <2>2 DEF Move, Lifecycle!End, Lifecycle!Move
  <2>4. {} \in SUBSET (Codes \X Workers) /\ to \in Lifecycle!Terminal
    BY DEF Lifecycle!Terminal
  <2> QED
    BY <2>3, <2>4 DEF Lifecycle!Next
<1>4. ASSUME NEW w \in Workers, Commit(w) PROVE Lifecycle!Next
  <2>1. Lifecycle!End(target[w], "SUCCESS", Inserted(w) \X {w})
    BY <1>4, CommitEnds
  <2>2. Inserted(w) \X {w} \in SUBSET (Codes \X Workers)
    BY <1>0, InsertedFacts
  <2>3. target[w] \in Ids /\ "SUCCESS" \in Lifecycle!Terminal
    BY <1>0 DEF TypeOK, Lifecycle!Terminal
  <2> QED
    BY <2>1, <2>2, <2>3 DEF Lifecycle!Next
<1>5. ASSUME NEW w \in Workers,
             \/ InsertResult(w) \/ Marked(w) \/ ReturnNil(w) \/ Quit(w) \/ LoseAnswer(w)
             \/ \E i \in Ids, items \in Lists : BeginComplete(w, i, items)
      PROVE  UNCHANGED <<status, rows>>
  BY <1>5 DEF InsertResult, Marked, ReturnNil, Quit, Rollback, LoseAnswer, BeginComplete
<1>6. CASE UNCHANGED vars
  BY <1>6 DEF vars
<1> QED
  BY <1>1, <1>2, <1>3, <1>4, <1>5, <1>6, Cases

\* Completions, statement by statement and with locks, rollbacks and lost
\* answers, are the life cycle that all run repositories promise.
THEOREM ImplementsLifecycle == Spec => LifecycleSpec
<1>1. Init => Lifecycle!Init
  BY DEF Init, Lifecycle!Init
<1>2. StoreInv /\ [Next]_vars => [Lifecycle!Next]_(Lifecycle!vars)
  BY LifecycleStep
<1> QED
  BY <1>1, <1>2, StoreAlways, PTL DEF Spec, LifecycleSpec, Lifecycle!Spec

------------------------------------------------------------------------------
(* Waiting. *)

\* A member of a cycle waits for a row that another member has inserted.
LEMMA WaitsForRow ==
  ASSUME StoreInv, NEW S \in SUBSET Workers, WaitCycle(S), NEW v \in S
  PROVE  /\ MoreItems(v)
         /\ \E u \in S \ {v} : HoldsRow(u, target[v], Item(v))
<1>1. PICK u \in S : u \in Blockers(v)
  BY DEF WaitCycle
<1>2. Blockers(u) # {}
  BY DEF WaitCycle
<1>3. pc[u] = "insert"
  BY <1>2 DEF Blockers
<1>4. ~HoldsRun(u, target[v])
  BY <1>3 DEF HoldsRun
<1> QED
  BY <1>1, <1>4 DEF Blockers

\* Along a wait the awaited code moves on in every order that all lists follow:
\* the holder inserted the awaited row before the one it waits for itself.
LEMMA WaitsMoveOn ==
  ASSUME StoreInv, NEW S \in SUBSET Workers, WaitCycle(S),
         NEW n \in Nat, NEW rank \in [Codes -> 1..n],
         \A c, d \in Codes : rank[c] = rank[d] => c = d,
         \A w \in S : \A i, j \in DOMAIN list[w] :
           i < j /\ {list[w][i], list[w][j]} \subseteq Codes
             => rank[list[w][i]] <= rank[list[w][j]],
         NEW v \in S
  PROVE  /\ Item(v) \in Codes
         /\ \E u \in S : Item(u) \in Codes /\ rank[Item(v)] < rank[Item(u)]
<1>0. TypeOK /\ \A w \in Workers : CallInv(w)
  BY DEF StoreInv
<1>1. PICK u \in S \ {v} : HoldsRow(u, target[v], Item(v))
  BY WaitsForRow
<1>2. MoreItems(u) /\ \E t \in S \ {u} : HoldsRow(t, target[u], Item(u))
  BY WaitsForRow
<1>3. PICK t \in S \ {u} : HoldsRow(t, target[u], Item(u))
  BY <1>2
<1>4. Item(v) \in Codes /\ Item(u) \in Codes
  BY <1>0, <1>1, <1>3, InsertedFacts DEF HoldsRow
<1>5. target[u] = target[v]
  BY <1>1 DEF HoldsRow
<1>6. Item(v) # Item(u)
  <2>1. target[u] \in Ids /\ t \in Workers /\ u \in Workers
    BY <1>0 DEF TypeOK
  <2> QED
    BY <1>1, <1>3, <1>4, <1>5, <2>1 DEF StoreInv, RowLocked
<1>7. PICK i \in 1..(next[u] - 1) : Item(v) = list[u][i]
  BY <1>1 DEF HoldsRow, Inserted, Nth
<1>8. i \in DOMAIN list[u] /\ next[u] \in DOMAIN list[u] /\ i < next[u]
  BY <1>0, <1>2, ListFacts DEF MoreItems
<1>9. rank[Item(v)] <= rank[Item(u)]
  BY <1>4, <1>7, <1>8 DEF Item, Nth
<1>10. rank[Item(v)] \in 1..n /\ rank[Item(u)] \in 1..n
  BY <1>4
<1>11. rank[Item(v)] # rank[Item(u)]
  BY <1>4, <1>6
<1> QED
  BY <1>4, <1>9, <1>10, <1>11

LEMMA OrderedNeverCycle ==
  ASSUME StoreInv, NEW S \in SUBSET Workers, WaitCycle(S), InOneOrder(S)
  PROVE  FALSE
<1> DEFINE n == Cardinality(Codes)
<1>1. n \in Nat
  BY CodesAssumption, FS_CardinalityType
<1> HIDE DEF n
<1>2. PICK rank \in [Codes -> 1..n] :
        /\ \A c, d \in Codes : rank[c] = rank[d] => c = d
        /\ \A w \in S : \A i, j \in DOMAIN list[w] :
             i < j /\ {list[w][i], list[w][j]} \subseteq Codes
               => rank[list[w][i]] <= rank[list[w][j]]
  BY DEF InOneOrder, n
<1>3. ASSUME NEW v \in S
      PROVE  /\ Item(v) \in Codes
             /\ \E u \in S : Item(u) \in Codes /\ rank[Item(v)] < rank[Item(u)]
  BY <1>1, <1>2, WaitsMoveOn
<1> DEFINE T == {rank[Item(v)] : v \in S}
<1>4. T \in SUBSET (0..n) /\ T # {}
  <2>1. S # {}
    BY DEF WaitCycle
  <2>2. \A v \in S : rank[Item(v)] \in 1..n
    BY <1>3
  <2> QED
    BY <1>1, <2>1, <2>2
<1>5. PICK x \in T : \A y \in T : y <= x
  <2> HIDE DEF T
  <2> QED
    BY <1>1, <1>4, GreatestExists
<1>6. PICK v \in S : x = rank[Item(v)]
  OBVIOUS
<1>7. PICK u \in S : rank[Item(v)] < rank[Item(u)]
  BY <1>3
<1>8. rank[Item(u)] <= rank[Item(v)]
  BY <1>5, <1>6
<1>9. rank[Item(u)] \in 1..n /\ rank[Item(v)] \in 1..n
  BY <1>3
<1> QED
  BY <1>1, <1>7, <1>8, <1>9

\* Completions whose lists follow one order of the codes never wait for each
\* other in a circle, however many they are and whatever else goes on.
THEOREM OneOrderNoCycle == Spec => []NoWaitCycle
<1>1. StoreInv => NoWaitCycle
  BY OrderedNeverCycle DEF NoWaitCycle
<1> QED
  BY <1>1, StoreAlways, PTL
===============================================================================
