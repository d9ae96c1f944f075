---------------------------- MODULE ScreeningStore ----------------------------
(***************************************************************************)
(* screeningRunRepository.Complete of internal/infrastructure/mysql/       *)
(* run_repositories.go: one InnoDB transaction inserts the result rows of  *)
(* a run, then moves the run from RUNNING to SUCCESS, statement by         *)
(* statement, against other completions and status moves of the same run.  *)
(*                                                                         *)
(* Of InnoDB the model has what decides the outcome: an inserted row is    *)
(* invisible and locked until commit, a second insert of its key waits and *)
(* then fails with 1062 or goes on; an updated row is locked until commit, *)
(* and an UPDATE waits and then reads the committed status; one            *)
(* transaction of a cycle of waits is rolled back (1213).                  *)
(***************************************************************************)
EXTENDS Naturals, Sequences, FiniteSets

CONSTANTS
  Workers,
  Ids,        \* run_id
  Codes,      \* ts_code of a result
  BadItem,    \* a result that fails validation: rank, score, JSON, other run
  Lists       \* outcome.Results: the lists of results that callers pass

Terminal == {"SUCCESS", "FAILED", "BLOCKED"}

ASSUME ListsAssumption ==
  BadItem \notin Codes /\ Lists \subseteq Seq(Codes \union {BadItem})
ASSUME CodesAssumption == IsFiniteSet(Codes)  \* ts_code is a VARCHAR(16)

VARIABLES
  status,     \* committed status of each run
  rows,       \* committed results of each run: (code, worker that wrote it)
  pc,         \* per worker: the next statement of its Complete
  target,     \* per worker: the run it completes
  list,       \* per worker: the results it was given
  next,       \* per worker: index of the next result to insert
  acked       \* history: per run, the (move, worker) that returned nil

args == <<target, list>>
vars == <<status, rows, pc, args, next, acked>>

TypeOK ==
  /\ status \in [Ids -> {"none", "PENDING", "RUNNING"} \union Terminal]
  /\ rows \in [Ids -> SUBSET (Codes \X Workers)]
  /\ pc \in [Workers -> {"idle", "insert", "commit", "committed"}]
  /\ target \in [Workers -> Ids]
  /\ list \in [Workers -> Lists]
  /\ next \in [Workers -> Nat \ {0}]
  /\ acked \in [Ids -> SUBSET (({"RUNNING"} \union Terminal) \X Workers)]

Init ==
  /\ status = [id \in Ids |-> "none"]
  /\ rows = [id \in Ids |-> {}]
  /\ pc = [w \in Workers |-> "idle"]
  /\ target \in [Workers -> Ids]
  /\ list \in [Workers -> Lists]
  /\ next = [w \in Workers |-> 1]
  /\ acked = [id \in Ids |-> {}]

------------------------------------------------------------------------------
(* What the open transactions hold and wait for. *)

\* Mutant: each call ranges over its results in an order of its own, as over a map.
NthOwnOrder(w, i) ==
  IF w = CHOOSE v \in Workers : TRUE THEN list[w][Len(list[w]) + 1 - i] ELSE list[w][i]

Nth(w, i) == list[w][i]

Inserted(w) == {Nth(w, i) : i \in 1..(next[w] - 1)}
Open(w) == pc[w] \in {"insert", "commit"}
Given(w) == {list[w][i] : i \in DOMAIN list[w]}
Committed(id) == {r[1] : r \in rows[id]}

HoldsRow(w, id, c) == Open(w) /\ target[w] = id /\ c \in Inserted(w)
HoldsRun(w, id) == pc[w] = "commit" /\ target[w] = id

MoreItems(w) == next[w] <= Len(list[w])
Item(w) == Nth(w, next[w])

\* Who makes worker w's next statement wait.
Blockers(w) ==
  {v \in Workers \ {w} :
     /\ pc[w] = "insert"
     /\ IF MoreItems(w) THEN HoldsRow(v, target[w], Item(w))
        ELSE HoldsRun(v, target[w])}

\* Waits that can end only by rolling back one of the transactions.
WaitCycle(S) == S # {} /\ \A v \in S : Blockers(v) \intersect S # {}

------------------------------------------------------------------------------
(* The transaction of Complete. *)

BeginComplete(w, id, items) ==
  /\ pc[w] = "idle"
  /\ pc' = [pc EXCEPT ![w] = "insert"]
  /\ target' = [target EXCEPT ![w] = id]
  /\ list' = [list EXCEPT ![w] = items]
  /\ next' = [next EXCEPT ![w] = 1]
  /\ UNCHANGED <<status, rows, acked>>

\* Mutant: the next call starts before the first result.
RollbackToZero(w) ==
  /\ pc' = [pc EXCEPT ![w] = "idle"]
  /\ next' = [next EXCEPT ![w] = 0]
  /\ UNCHANGED <<status, rows, args, acked>>

\* Return from Complete without a commit: tx.Rollback takes everything back.
Rollback(w) ==
  /\ pc' = [pc EXCEPT ![w] = "idle"]
  /\ next' = [next EXCEPT ![w] = 1]
  /\ UNCHANGED <<status, rows, args, acked>>

\* The item is invalid, or its code is already a result of this run.
Refused(w) ==
  \/ Item(w) = BadItem
  \/ Item(w) \in Inserted(w)
  \/ Item(w) \in Committed(target[w])

InsertResult(w) ==
  /\ pc[w] = "insert" /\ MoreItems(w) /\ Blockers(w) = {}
  /\ ~Refused(w)
  /\ next' = [next EXCEPT ![w] = @ + 1]
  /\ UNCHANGED <<status, rows, pc, args, acked>>

\* Mutant: a bad item ends the loop instead of the transaction.
SkipBadItem(w) ==
  /\ pc[w] = "insert" /\ MoreItems(w) /\ Blockers(w) = {} /\ Refused(w)
  /\ pc' = [pc EXCEPT ![w] = "commit"]
  /\ status[target[w]] = "RUNNING"
  /\ UNCHANGED <<status, rows, args, next, acked>>

RefuseResult(w) ==
  /\ pc[w] = "insert" /\ MoreItems(w) /\ Blockers(w) = {}
  /\ Refused(w)
  /\ Rollback(w)

\* Mutant: a run that is not RUNNING is waited for.
MarkSuccessPatient(w) ==
  /\ pc[w] = "insert" /\ ~MoreItems(w) /\ Blockers(w) = {}
  /\ status[target[w]] = "RUNNING"
  /\ pc' = [pc EXCEPT ![w] = "commit"]
  /\ UNCHANGED <<status, rows, args, next, acked>>

\* UPDATE ... SET status='SUCCESS' ... WHERE status='RUNNING', requireOneRow.
MarkSuccess(w) ==
  /\ pc[w] = "insert" /\ ~MoreItems(w) /\ Blockers(w) = {}
  /\ IF status[target[w]] = "RUNNING"
     THEN /\ pc' = [pc EXCEPT ![w] = "commit"]
          /\ UNCHANGED <<status, rows, args, next, acked>>
     ELSE Rollback(w)

Commit(w) ==
  /\ pc[w] = "commit"
  /\ pc' = [pc EXCEPT ![w] = "committed"]
  /\ status' = [status EXCEPT ![target[w]] = "SUCCESS"]
  /\ rows' = [rows EXCEPT ![target[w]] = @ \union (Inserted(w) \X {w})]
  /\ UNCHANGED <<args, next, acked>>

ReturnNil(w) ==
  /\ pc[w] = "committed"
  /\ pc' = [pc EXCEPT ![w] = "idle"]
  /\ next' = [next EXCEPT ![w] = 1]
  /\ acked' = [acked EXCEPT ![target[w]] = @ \union {<<"SUCCESS", w>>}]
  /\ UNCHANGED <<status, rows, args>>

\* InnoDB ends a cycle of waits by rolling back one of its transactions.
DeadlockVictim(w) ==
  /\ \E S \in SUBSET Workers : w \in S /\ WaitCycle(S)
  /\ Rollback(w)

\* A statement that waits longer than innodb_lock_wait_timeout fails.
LockWaitTimeout(w) == Blockers(w) # {} /\ Rollback(w)

\* A statement or the commit fails, the context ends or the worker dies: the
\* transaction is rolled back.
Fault(w) == Open(w) /\ Rollback(w)

\* The commit succeeded but the worker does not learn it.
LoseAnswer(w) ==
  /\ pc[w] = "committed"
  /\ pc' = [pc EXCEPT ![w] = "idle"]
  /\ next' = [next EXCEPT ![w] = 1]
  /\ UNCHANGED <<status, rows, args, acked>>

------------------------------------------------------------------------------
(* The other calls, each one statement that waits for the run row. *)

\* Mutant: the UPDATE of MarkRunning, MarkFailed and MarkBlocked has no WHERE.
MoveUnguarded(w, id, from, to) ==
  /\ pc[w] = "idle"
  /\ ~\E v \in Workers : HoldsRun(v, id)
  /\ status' = [status EXCEPT ![id] = to]
  /\ acked' = [acked EXCEPT ![id] = @ \union {<<to, w>>}]
  /\ UNCHANGED <<rows, pc, args, next>>

\* guardedTransition; refused, it changes nothing (module RunStore has both).
Move(w, id, from, to) ==
  /\ pc[w] = "idle"
  /\ ~\E v \in Workers : HoldsRun(v, id)
  /\ status[id] = from
  /\ status' = [status EXCEPT ![id] = to]
  /\ acked' = [acked EXCEPT ![id] = @ \union {<<to, w>>}]
  /\ UNCHANGED <<rows, pc, args, next>>

\* CreateOrGet's INSERT.
Submit(id) ==
  /\ status[id] = "none"
  /\ status' = [status EXCEPT ![id] = "PENDING"]
  /\ UNCHANGED <<rows, pc, args, next, acked>>

Step(w) ==
  \/ InsertResult(w) \/ RefuseResult(w) \/ MarkSuccess(w)
  \/ Commit(w) \/ ReturnNil(w) \/ DeadlockVictim(w) \/ LockWaitTimeout(w)

Next ==
  \/ \E id \in Ids : Submit(id)
  \/ \E w \in Workers :
       \/ \E id \in Ids, items \in Lists : BeginComplete(w, id, items)
       \/ \E id \in Ids : Move(w, id, "PENDING", "RUNNING")
       \/ \E id \in Ids, to \in {"FAILED", "BLOCKED"} : Move(w, id, "RUNNING", to)
       \/ Step(w)
       \/ Fault(w)
       \/ LoseAnswer(w)

Spec == Init /\ [][Next]_vars

\* MySQL answers every statement, at the latest when its lock wait times out.
FairSpec == Spec /\ \A w \in Workers : WF_vars(Step(w))

------------------------------------------------------------------------------
(* Properties. *)

\* A run becomes SUCCESS with exactly the results one worker passed, every one
\* of them and nobody else's, in one step.
PublishWhole ==
  [][\A id \in Ids : status[id] # "SUCCESS" /\ status'[id] = "SUCCESS" =>
       \E w \in Workers : target[w] = id /\ rows'[id] = Given(w) \X {w}]_vars

\* What a worker was told of a run stays true: no Complete and MarkFailed both
\* succeed, and a SUCCESS that was acknowledged shows that worker's results.
AckedTruth ==
  \A id \in Ids : \A a \in acked[id] :
    /\ a[1] \in Terminal => status[id] = a[1]
    /\ a[1] = "SUCCESS" => \A r \in rows[id] : r[2] = a[2]

\* Completions of one run whose result lists follow one common order never wait
\* for each other in a circle: only callers that cross their lists can meet error
\* 1213 in Complete's inserts.  (Of three, InnoDB may roll one back all the same:
\* two inserts that waited for a third keep shared locks when it is undone.)
InOneOrder(S) ==
  \E rank \in [Codes -> 1..Cardinality(Codes)] :
    /\ \A c, d \in Codes : rank[c] = rank[d] => c = d
    /\ \A w \in S : \A i, j \in DOMAIN list[w] :
         i < j /\ {list[w][i], list[w][j]} \subseteq Codes
           => rank[list[w][i]] <= rank[list[w][j]]

NoWaitCycle == \A S \in SUBSET Workers : WaitCycle(S) => ~InOneOrder(S)

\* Every Complete ends, whatever it waits for.
CompleteEnds == \A w \in Workers : (pc[w] # "idle") ~> (pc[w] = "idle")

\* The screening repository implements RunLifecycle.
Lifecycle == INSTANCE RunLifecycle WITH
  Results <- Codes \X Workers, published <- rows
LifecycleSpec == Lifecycle!Spec
===============================================================================
