------------------------------- MODULE RunStore -------------------------------
(***************************************************************************)
(* The run repositories of internal/infrastructure/mysql/run_repositories  *)
(* .go: sync jobs, screening runs and backtest runs, called by concurrent  *)
(* workers.  Each call is one or two SQL statements on autocommit, and     *)
(* other workers' statements fall in between.  A worker may die, or lose   *)
(* the answer, after any statement.                                        *)
(*                                                                         *)
(* The three repositories share one protocol: INSERT and fall back to a    *)
(* SELECT on a duplicate key; UPDATE ... WHERE status = <from> and, when   *)
(* no row matched, a SELECT that explains why.  They differ in who chooses *)
(* the unique key and in the attempts counter, which Kind selects.  The    *)
(* transaction of a screening run's Complete is module ScreeningStore.     *)
(***************************************************************************)
EXTENDS Naturals, FiniteSets

CONSTANTS
  Kind,       \* "sync", "screening" or "backtest"
  Workers,
  Ids,        \* primary keys: job_id, run_id
  Keys,       \* unique keys: task_key, run_key
  Outcomes,   \* the final statuses that callers report
  Inputs,     \* what a run is to compute: strategy, dates, config, snapshot
  KeyOf,      \* KeyOf[i]: CanonicalRunKey, the SHA-256 of the inputs
  NoRun       \* no row has that primary key

Terminal == {"SUCCESS", "FAILED", "BLOCKED"}
Run == [key : Keys, inputs : Inputs, attempts : Nat,
        status : {"PENDING", "RUNNING"} \union Terminal]

ASSUME KindAssumption ==
  Kind \in {"sync", "screening", "backtest"} /\ Outcomes \subseteq Terminal
ASSUME KeyOfAssumption ==
  /\ KeyOf \in [Inputs -> Keys]
  /\ \A i, j \in Inputs : KeyOf[i] = KeyOf[j] => i = j
ASSUME NoRunAssumption == NoRun \notin Run

\* What a worker is calling: CreateOrGet, or a move to a status.
Ops == {"create", "RUNNING"} \union Outcomes
Creation == [op : {"create"}, id : Ids, key : Keys, inputs : Inputs]
Move == [op : Ops \ {"create"}, id : Ids]

VARIABLES
  runs,       \* the table: id -> Run or NoRun
  pc,         \* per worker: where its call stands
  call,       \* per worker: the arguments of its call
  seen,       \* per worker: the status that a refused move found, then reports
  created,    \* history: per key, CreateOrGet calls that returned created=true
  acked       \* history: per id, moves that returned nil, with who made them

vars == <<runs, pc, call, seen, created, acked>>
history == <<created, acked>>

\* What a status query finds; "missing" is sql.ErrNoRows.
Seen == {"missing", "PENDING", "RUNNING"} \union Terminal
\* Mutant: a row that is not found leaves the scanned status empty.
StatusOrEmpty(id) == IF runs[id] = NoRun THEN "" ELSE runs[id].status

StatusOf(id) == IF runs[id] = NoRun THEN "missing" ELSE runs[id].status

TypeOK ==
  /\ runs \in [Ids -> Run \union {NoRun}]
  /\ pc \in [Workers -> {"idle", "inserted", "duplicate", "updated", "rejected",
                         "returned", "refused"}]
  /\ call \in [Workers -> Creation \union Move]
  /\ seen \in [Workers -> Seen]
  /\ created \in [Keys -> Nat]
  /\ acked \in [Ids -> SUBSET (Ops \X Workers)]

Init ==
  /\ runs = [id \in Ids |-> NoRun]
  /\ pc = [w \in Workers |-> "idle"]
  /\ \E id \in Ids : call = [w \in Workers |-> [op |-> "RUNNING", id |-> id]]
  /\ seen = [w \in Workers |-> "missing"]
  /\ created = [k \in Keys |-> 0]
  /\ acked = [id \in Ids |-> {}]

------------------------------------------------------------------------------
Exists(id) == runs[id] # NoRun
HasKey(k) == \E id \in Ids : Exists(id) /\ runs[id].key = k

At(w, states) == pc[w] \in states
Goto(w, to) == pc' = [pc EXCEPT ![w] = to]
Free(w) == At(w, {"idle", "returned", "refused"})

\* Mutant: a move does not look at the status it starts from.
FromAny(op, status) == status # "missing"

\* Mutant: a finished run can be started again under the same key.
FromFinished(op, status) ==
  IF op = "RUNNING" THEN status \in Terminal \union {"PENDING"}
  ELSE status = "RUNNING"

\* The UPDATE's WHERE clause: PENDING may start, RUNNING may end.
Allowed(op, status) == status = IF op = "RUNNING" THEN "PENDING" ELSE "RUNNING"

\* Mutant: a backtest's key is taken as given.
AcceptedAlways(key, inputs) == TRUE

\* A worker's own idea of the key is checked for a backtest run only.
Accepted(key, inputs) == Kind = "backtest" => key = KeyOf[inputs]

\* INSERT INTO ...: both the primary key and the unique key can collide.
Insert(w, id, key, inputs) ==
  /\ Free(w)
  /\ Accepted(key, inputs)
  /\ call' = [call EXCEPT ![w] =
                [op |-> "create", id |-> id, key |-> key, inputs |-> inputs]]
  /\ IF Exists(id) \/ HasKey(key)
     THEN Goto(w, "duplicate") /\ UNCHANGED runs
     ELSE /\ Goto(w, "inserted")
          /\ runs' = [runs EXCEPT ![id] = [key |-> key, inputs |-> inputs,
                                           attempts |-> 0, status |-> "PENDING"]]
  /\ seen' = [seen EXCEPT ![w] = "missing"]
  /\ UNCHANGED history

\* Mutant: a row that is still PENDING counts as just created.
LookupPending(w) ==
  /\ At(w, {"inserted", "duplicate"})
  /\ Goto(w, IF HasKey(call[w].key) THEN "returned" ELSE "refused")
  /\ created' = IF \E id \in Ids : /\ StatusOf(id) = "PENDING"
                                   /\ runs[id].key = call[w].key
                THEN [created EXCEPT ![call[w].key] = @ + 1] ELSE created
  /\ UNCHANGED <<runs, call, seen, acked>>

\* findByTaskKey, findByRunKey: returns the row and whether this call made it,
\* or the duplicate-key error when only the primary key collided.
Lookup(w) ==
  /\ At(w, {"inserted", "duplicate"})
  /\ Goto(w, IF HasKey(call[w].key) THEN "returned" ELSE "refused")
  /\ created' = IF At(w, {"inserted"}) /\ HasKey(call[w].key)
                THEN [created EXCEPT ![call[w].key] = @ + 1] ELSE created
  /\ UNCHANGED <<runs, call, seen, acked>>

\* The guarded UPDATE of MarkRunning, MarkSucceeded, Complete (backtest),
\* MarkFailed and MarkBlocked: one statement, atomic on the row.
Update(w, op, id) ==
  /\ Free(w)
  /\ call' = [call EXCEPT ![w] = [op |-> op, id |-> id]]
  /\ seen' = [seen EXCEPT ![w] = StatusOf(id)]
  /\ IF Allowed(op, StatusOf(id))
     THEN /\ Goto(w, "updated")
          /\ runs' = [runs EXCEPT ![id].status = op,
                        ![id].attempts = IF Kind = "sync" /\ op = "RUNNING"
                                         THEN @ + 1 ELSE @]
     ELSE Goto(w, "rejected") /\ UNCHANGED runs
  /\ UNCHANGED history

\* requireOneRow found one row: the call returns nil.
ReturnNil(w) ==
  /\ At(w, {"updated"})
  /\ Goto(w, "returned")
  /\ acked' = [acked EXCEPT ![call[w].id] = @ \union {<<call[w].op, w>>}]
  /\ UNCHANGED <<runs, call, seen, created>>

\* It found none: read the status again, only to name it in the error.
ReadStatus(w) ==
  /\ At(w, {"rejected"})
  /\ Goto(w, "refused")
  /\ seen' = [seen EXCEPT ![w] = StatusOf(call[w].id)]
  /\ UNCHANGED <<runs, call, history>>

\* The worker dies or its statement's answer is lost.
Lose(w) ==
  /\ ~Free(w)
  /\ Goto(w, "idle")
  /\ UNCHANGED <<runs, call, seen, history>>

Step(w) == Lookup(w) \/ ReturnNil(w) \/ ReadStatus(w)

Next ==
  \E w \in Workers :
    \/ \E id \in Ids, key \in Keys, inputs \in Inputs : Insert(w, id, key, inputs)
    \/ \E op \in Ops \ {"create"}, id \in Ids : Update(w, op, id)
    \/ Step(w)
    \/ Lose(w)

Spec == Init /\ [][Next]_vars

------------------------------------------------------------------------------
(* Properties. *)

\* Among all callers that submit one key, whatever ids they chose, at most one
\* is told that the run is new (INSERT first, no check before it).
CreatedOnce == \A k \in Keys : created[k] <= 1 /\ (created[k] = 1 => HasKey(k))

\* A run that a backtest caller is handed computes what the caller asked for:
\* an existing run of the same key has the same strategy, dates, configuration
\* and snapshot (docs/05-database.md says the same of a screening run).
InputsMatch ==
  \A w \in Workers : At(w, {"returned"}) /\ call[w].op = "create" =>
    \E id \in Ids : /\ Exists(id)
                    /\ runs[id].key = call[w].key
                    /\ runs[id].inputs = call[w].inputs

\* One worker at most is told that it started a run: two workers that share a
\* key, or a retry after a lost answer, never both execute it.
StartedOnce ==
  \A id \in Ids : \A v, w \in Workers :
    <<"RUNNING", v>> \in acked[id] /\ <<"RUNNING", w>> \in acked[id] => v = w

\* What a worker was told of a run stays true of it: after a nil answer to one
\* outcome the run has that outcome, and no other outcome was acknowledged.
AckedTruth ==
  \A id \in Ids : \A a \in acked[id] :
    /\ a[1] \in Terminal => StatusOf(id) = a[1]
    /\ a[1] = "RUNNING" => StatusOf(id) \in {"RUNNING"} \union Terminal

\* A sync job was attempted exactly once when it is past PENDING.
AttemptsExact ==
  Kind = "sync" => \A id \in Ids : Exists(id) =>
    runs[id].attempts = IF runs[id].status = "PENDING" THEN 0 ELSE 1

Stage(status) ==
  CASE status = "missing" -> 0 [] status = "PENDING" -> 1
    [] status = "RUNNING" -> 2 [] OTHER -> 3

\* The status in a refusal is read after the refused UPDATE, so it can be a
\* later one than the status that refused, but never an earlier one.
RefusalNotOlder ==
  [][\A w \in Workers : pc[w] = "rejected" /\ pc'[w] = "refused" =>
       Stage(seen[w]) <= Stage(seen'[w])]_vars

\* The repositories implement RunLifecycle, whatever they are called with.
Lifecycle == INSTANCE RunLifecycle WITH
  Results <- {},
  status <- [id \in Ids |-> IF Exists(id) THEN runs[id].status ELSE "none"],
  published <- [id \in Ids |-> {}]
LifecycleSpec == Lifecycle!Spec
===============================================================================
