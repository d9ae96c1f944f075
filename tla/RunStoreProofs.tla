---------------------------- MODULE RunStoreProofs ----------------------------
(***************************************************************************)
(* Proofs about RunStore for every number of workers, runs and keys.       *)
(*                                                                         *)
(* The safety properties speak of what callers were told.  They are        *)
(* inductive once the answers still on their way are counted as well: a    *)
(* worker at "updated" or "inserted" holds an answer that it will give.    *)
(***************************************************************************)
EXTENDS RunStore, TLAPS

(* What the two statements that write do to the table. *)

LEMMA InsertEffect ==
  ASSUME NEW id \in Ids, NEW key \in Keys, NEW inputs \in Inputs, NEW w \in Workers,
         Insert(w, id, key, inputs), ~(Exists(id) \/ HasKey(key))
  PROVE  \E r \in Run :
           /\ runs' = [runs EXCEPT ![id] = r]
           /\ r.key = key /\ r.inputs = inputs
           /\ r.status = "PENDING" /\ r.attempts = 0
<1> DEFINE r == [key |-> key, inputs |-> inputs, attempts |-> 0, status |-> "PENDING"]
<1>1. r \in Run
  BY DEF Run
<1>2. runs' = [runs EXCEPT ![id] = r]
  BY DEF Insert
<1> QED
  BY <1>1, <1>2

LEMMA UpdateEffect ==
  ASSUME TypeOK, NEW w \in Workers, NEW op \in Ops \ {"create"}, NEW id \in Ids,
         Update(w, op, id), Allowed(op, StatusOf(id))
  PROVE  /\ runs[id] \in Run
         /\ \E r \in Run :
              /\ runs' = [runs EXCEPT ![id] = r]
              /\ r.key = runs[id].key /\ r.inputs = runs[id].inputs
              /\ r.status = op
              /\ r.attempts = IF Kind = "sync" /\ op = "RUNNING"
                              THEN runs[id].attempts + 1 ELSE runs[id].attempts
<1>1. runs[id] \in Run
  BY DEF Allowed, StatusOf, TypeOK
<1>2. op \in {"PENDING", "RUNNING"} \union Terminal
  BY KindAssumption DEF Ops
<1> DEFINE n == IF Kind = "sync" /\ op = "RUNNING"
                THEN runs[id].attempts + 1 ELSE runs[id].attempts
           r == [runs[id] EXCEPT !.status = op, !.attempts = n]
<1>3. n \in Nat
  BY <1>1 DEF Run
<1>4. r \in Run /\ r.status = op /\ r.attempts = n
      /\ r.key = runs[id].key /\ r.inputs = runs[id].inputs
  <2> HIDE DEF n
  <2> QED
    BY <1>1, <1>2, <1>3 DEF Run
<1>5. runs' = [runs EXCEPT ![id] = r]
  BY <1>1 DEF Update
<1> QED
  BY <1>1, <1>4, <1>5

------------------------------------------------------------------------------
(* Types. *)

LEMMA TypeOK_Init == Init => TypeOK
  BY DEF Init, TypeOK, Seen, Terminal, Ops, Move

LEMMA TypeOK_Next == TypeOK /\ [Next]_vars => TypeOK'
<1> SUFFICES ASSUME TypeOK, [Next]_vars PROVE TypeOK'
  OBVIOUS
<1> USE DEF TypeOK
<1>1. ASSUME NEW w \in Workers, NEW id \in Ids, NEW key \in Keys,
             NEW inputs \in Inputs, Insert(w, id, key, inputs)
      PROVE  TypeOK'
  <2>1. [op |-> "create", id |-> id, key |-> key, inputs |-> inputs] \in Creation
    BY DEF Creation
  <2>2. runs' \in [Ids -> Run \union {NoRun}]
    <3>1. CASE Exists(id) \/ HasKey(key)
      BY <1>1, <3>1 DEF Insert
    <3>2. CASE ~(Exists(id) \/ HasKey(key))
      BY <1>1, <3>2, InsertEffect
    <3> QED
      BY <3>1, <3>2
  <2> QED
    BY <1>1, <2>1, <2>2 DEF Insert, Goto, history, Seen
<1>2. ASSUME NEW w \in Workers, NEW op \in Ops \ {"create"}, NEW id \in Ids,
             Update(w, op, id)
      PROVE  TypeOK'
  <2>1. [op |-> op, id |-> id] \in Move
    BY DEF Move
  <2>2. StatusOf(id) \in Seen
    BY DEF StatusOf, Seen, Run
  <2>3. runs' \in [Ids -> Run \union {NoRun}]
    <3>1. CASE Allowed(op, StatusOf(id))
      BY <1>2, <3>1, UpdateEffect
    <3>2. CASE ~Allowed(op, StatusOf(id))
      BY <1>2, <3>2 DEF Update
    <3> QED
      BY <3>1, <3>2
  <2> QED
    BY <1>2, <2>1, <2>2, <2>3 DEF Update, Goto, history
<1>3. ASSUME NEW w \in Workers, Lookup(w) PROVE TypeOK'
  <2>1. created' \in [Keys -> Nat]
    <3>1. PICK k : created' = [created EXCEPT ![k] = @ + 1] \/ created' = created
      BY <1>3 DEF Lookup
    <3> QED
      BY <3>1
  <2> QED
    BY <1>3, <2>1 DEF Lookup, Goto
<1>4. ASSUME NEW w \in Workers, ReturnNil(w) PROVE TypeOK'
  <2>1. call[w].op \in Ops /\ call[w].id \in Ids
    BY DEF Creation, Move, Ops
  <2> QED
    BY <1>4, <2>1 DEF ReturnNil, Goto
<1>5. ASSUME NEW w \in Workers, ReadStatus(w) PROVE TypeOK'
  <2>1. call[w].id \in Ids
    BY DEF Creation, Move
  <2>2. StatusOf(call[w].id) \in Seen
    BY <2>1 DEF StatusOf, Seen, Run
  <2> QED
    BY <1>5, <2>2 DEF ReadStatus, Goto, history
<1>6. ASSUME NEW w \in Workers, Lose(w) PROVE TypeOK'
  BY <1>6 DEF Lose, Goto, history
<1>7. CASE UNCHANGED vars
  BY <1>7 DEF vars, history
<1> QED
  BY <1>1, <1>2, <1>3, <1>4, <1>5, <1>6, <1>7 DEF Next, Step

\* Every row of the run tables, every call in flight and the ledger of what
\* callers were told keep their types in every reachable state, whatever the
\* interleaving of CreateSubmitted and the conditional updates.
THEOREM TypeCorrect == Spec => []TypeOK
  BY TypeOK_Init, TypeOK_Next, PTL DEF Spec

------------------------------------------------------------------------------
(* How the status and the key of a row can change. *)

\* A step changes no run, creates one, or moves one.
LEMMA RunsStep ==
  ASSUME [Next]_vars
  PROVE  \/ runs' = runs
         \/ \E w \in Workers, id \in Ids, key \in Keys, inputs \in Inputs :
              Insert(w, id, key, inputs) /\ ~(Exists(id) \/ HasKey(key))
         \/ \E w \in Workers, op \in Ops \ {"create"}, id \in Ids :
              Update(w, op, id) /\ Allowed(op, StatusOf(id))
<1>1. ASSUME NEW w \in Workers, NEW id \in Ids, NEW key \in Keys,
             NEW inputs \in Inputs, Insert(w, id, key, inputs)
      PROVE  runs' = runs \/ ~(Exists(id) \/ HasKey(key))
  BY <1>1 DEF Insert
<1>2. ASSUME NEW w \in Workers, NEW op \in Ops \ {"create"}, NEW id \in Ids,
             Update(w, op, id)
      PROVE  runs' = runs \/ Allowed(op, StatusOf(id))
  BY <1>2 DEF Update
<1>3. ASSUME NEW w \in Workers, Step(w) \/ Lose(w) PROVE runs' = runs
  BY <1>3 DEF Step, Lookup, ReturnNil, ReadStatus, Lose
<1>4. CASE UNCHANGED vars
  BY <1>4 DEF vars
<1> QED
  BY <1>1, <1>2, <1>3, <1>4 DEF Next

LEMMA StatusStep ==
  ASSUME TypeOK, [Next]_vars, NEW i \in Ids
  PROVE  \/ StatusOf(i)' = StatusOf(i)
         \/ StatusOf(i) = "missing" /\ StatusOf(i)' = "PENDING"
         \/ StatusOf(i) = "PENDING" /\ StatusOf(i)' = "RUNNING"
         \/ StatusOf(i) = "RUNNING" /\ StatusOf(i)' \in Outcomes
<1>1. ASSUME NEW w \in Workers, NEW id \in Ids, NEW key \in Keys,
             NEW inputs \in Inputs, Insert(w, id, key, inputs),
             ~(Exists(id) \/ HasKey(key))
      PROVE  \/ StatusOf(i)' = StatusOf(i)
             \/ StatusOf(i) = "missing" /\ StatusOf(i)' = "PENDING"
  <2>1. PICK r \in Run : runs' = [runs EXCEPT ![id] = r] /\ r.status = "PENDING"
    BY <1>1, InsertEffect
  <2> QED
    BY <1>1, <2>1, NoRunAssumption DEF StatusOf, Exists, TypeOK
<1>2. ASSUME NEW w \in Workers, NEW op \in Ops \ {"create"}, NEW id \in Ids,
             Update(w, op, id), Allowed(op, StatusOf(id))
      PROVE  \/ StatusOf(i)' = StatusOf(i)
             \/ StatusOf(i) = "PENDING" /\ StatusOf(i)' = "RUNNING"
             \/ StatusOf(i) = "RUNNING" /\ StatusOf(i)' \in Outcomes
  <2>1. PICK r \in Run : runs' = [runs EXCEPT ![id] = r] /\ r.status = op
    BY <1>2, UpdateEffect
  <2>2. StatusOf(i)' = IF i = id THEN op ELSE StatusOf(i)
    BY <2>1, NoRunAssumption DEF StatusOf, TypeOK
  <2> QED
    BY <1>2, <2>2 DEF Allowed, Ops
<1>3. ASSUME runs' = runs PROVE StatusOf(i)' = StatusOf(i)
  BY <1>3 DEF StatusOf
<1>4. \/ runs' = runs
      \/ \E w \in Workers, id \in Ids, key \in Keys, inputs \in Inputs :
           Insert(w, id, key, inputs) /\ ~(Exists(id) \/ HasKey(key))
      \/ \E w \in Workers, op \in Ops \ {"create"}, id \in Ids :
           Update(w, op, id) /\ Allowed(op, StatusOf(id))
  BY RunsStep
<1> QED
  BY <1>1, <1>2, <1>3, <1>4

------------------------------------------------------------------------------
(* What the callers of a move are told. *)

\* What a nil answer to a move says of the run.
Told(op, id) ==
  /\ op \in Terminal => StatusOf(id) = op
  /\ op = "RUNNING" => StatusOf(id) \in {"RUNNING"} \union Terminal

\* Nil answers on their way are true as well.
AckInv ==
  /\ \A id \in Ids : \A a \in acked[id] : Told(a[1], id)
  /\ \A w \in Workers : pc[w] = "updated" => Told(call[w].op, call[w].id)

\* Whoever started a run, as far as it was told or will be.
Starter(w, id) ==
  \/ pc[w] = "updated" /\ call[w].op = "RUNNING" /\ call[w].id = id
  \/ <<"RUNNING", w>> \in acked[id]

\* A run has one starter, and none while it is not started.
StartInv ==
  \A id \in Ids : \A v \in Workers : Starter(v, id) =>
    /\ StatusOf(id) \notin {"missing", "PENDING"}
    /\ \A w \in Workers : Starter(w, id) => v = w

LEMMA ToldStable ==
  ASSUME TypeOK, [Next]_vars, NEW op \in Ops, NEW id \in Ids, Told(op, id)
  PROVE  Told(op, id)'
<1>1. StatusOf(id) \in Terminal => StatusOf(id)' = StatusOf(id)
  BY StatusStep DEF Terminal
<1>2. StatusOf(id) = "RUNNING" => StatusOf(id)' \in {"RUNNING"} \union Terminal
  BY StatusStep, KindAssumption DEF Terminal
<1> QED
  BY <1>1, <1>2 DEF Told, Terminal

\* An answer is on its way only after an update that took place.
LEMMA UpdatedStep ==
  ASSUME TypeOK, [Next]_vars, NEW w \in Workers, pc'[w] = "updated"
  PROVE  \/ pc[w] = "updated" /\ call'[w] = call[w]
         \/ \E op \in Ops \ {"create"}, id \in Ids :
              /\ Update(w, op, id) /\ Allowed(op, StatusOf(id))
              /\ call'[w].op = op /\ call'[w].id = id
<1> USE DEF TypeOK, Goto
<1>1. ASSUME NEW v \in Workers, NEW id \in Ids, NEW key \in Keys,
             NEW inputs \in Inputs, Insert(v, id, key, inputs)
      PROVE  pc[w] = "updated" /\ call'[w] = call[w]
  BY <1>1 DEF Insert
<1>2. ASSUME NEW v \in Workers, NEW op \in Ops \ {"create"}, NEW id \in Ids,
             Update(v, op, id)
      PROVE  \/ pc[w] = "updated" /\ call'[w] = call[w]
             \/ /\ v = w /\ Allowed(op, StatusOf(id))
                /\ call'[w].op = op /\ call'[w].id = id
  BY <1>2 DEF Update
<1>3. ASSUME NEW v \in Workers, Step(v) \/ Lose(v)
      PROVE  pc[w] = "updated" /\ call'[w] = call[w]
  BY <1>3 DEF Step, Lookup, ReturnNil, ReadStatus, Lose
<1>4. CASE UNCHANGED vars
  BY <1>4 DEF vars
<1> QED
  BY <1>1, <1>2, <1>3, <1>4 DEF Next

\* An acknowledgement was on its way before.
LEMMA AckedStep ==
  ASSUME TypeOK, [Next]_vars, NEW id \in Ids, NEW a \in acked'[id]
  PROVE  \/ a \in acked[id]
         \/ \E w \in Workers : /\ pc[w] = "updated" /\ pc'[w] # "updated"
                              /\ call[w].id = id /\ a = <<call[w].op, w>>
<1> USE DEF TypeOK
<1>1. ASSUME NEW w \in Workers, ReturnNil(w)
      PROVE  \/ a \in acked[id]
             \/ /\ pc[w] = "updated" /\ pc'[w] # "updated"
                /\ call[w].id = id /\ a = <<call[w].op, w>>
  BY <1>1 DEF ReturnNil, At, Goto
<1>2. acked' = acked \/ \E w \in Workers : ReturnNil(w)
  <2>1. ASSUME NEW w \in Workers, NEW i \in Ids, NEW key \in Keys,
               NEW inputs \in Inputs, Insert(w, i, key, inputs)
        PROVE  acked' = acked
    BY <2>1 DEF Insert, history
  <2>2. ASSUME NEW w \in Workers, NEW op \in Ops \ {"create"}, NEW i \in Ids,
               Update(w, op, i)
        PROVE  acked' = acked
    BY <2>2 DEF Update, history
  <2>3. ASSUME NEW w \in Workers, Step(w) \/ Lose(w)
        PROVE  acked' = acked \/ ReturnNil(w)
    BY <2>3 DEF Step, Lookup, ReadStatus, Lose, history
  <2>4. CASE UNCHANGED vars
    BY <2>4 DEF vars, history
  <2> QED
    BY <2>1, <2>2, <2>3, <2>4 DEF Next
<1> QED
  BY <1>1, <1>2

LEMMA AckInv_Next == TypeOK /\ AckInv /\ [Next]_vars => AckInv'
<1> SUFFICES ASSUME TypeOK, AckInv, [Next]_vars PROVE AckInv'
  OBVIOUS
<1>0. TypeOK'
  BY TypeOK_Next
<1>1. ASSUME NEW w \in Workers, pc'[w] = "updated"
      PROVE  Told(call[w].op, call[w].id)'
  <2>1. CASE pc[w] = "updated" /\ call'[w] = call[w]
    <3>1. call[w].op \in Ops /\ call[w].id \in Ids
      BY DEF TypeOK, Creation, Move, Ops
    <3>2. Told(call[w].op, call[w].id)
      BY <2>1 DEF AckInv
    <3>3. \A op \in Ops, id \in Ids : Told(op, id) => Told(op, id)'
      BY ToldStable
    <3> QED
      BY <2>1, <3>1, <3>2, <3>3 DEF Told, StatusOf
  <2>2. ASSUME NEW op \in Ops \ {"create"}, NEW id \in Ids,
               Update(w, op, id), Allowed(op, StatusOf(id)),
               call'[w].op = op, call'[w].id = id
        PROVE  Told(call[w].op, call[w].id)'
    <3>1. PICK r \in Run : runs' = [runs EXCEPT ![id] = r] /\ r.status = op
      BY <2>2, UpdateEffect
    <3>2. runs'[id] = r /\ r # NoRun
      BY <3>1, NoRunAssumption DEF TypeOK
    <3> QED
      BY <2>2, <3>1, <3>2 DEF Told, StatusOf
  <2> QED
    BY <1>1, <2>1, <2>2, UpdatedStep
<1>2. ASSUME NEW id \in Ids, NEW a \in acked'[id]
      PROVE  Told(a[1], id)'
  <2>1. a[1] \in Ops
    BY <1>0 DEF TypeOK
  <2>2. Told(a[1], id)
    BY AckedStep, <2>1 DEF AckInv
  <2> QED
    BY <2>1, <2>2, ToldStable
<1> QED
  BY <1>1, <1>2 DEF AckInv

\* What a worker was told of a run stays true of it, for every kind of run.
THEOREM AcksAreTrue == Spec => []AckedTruth
<1>1. Init => AckInv
  BY DEF Init, AckInv
<1>2. TypeOK /\ AckInv => AckedTruth
  BY DEF AckInv, AckedTruth, Told
<1> QED
  BY <1>1, <1>2, AckInv_Next, TypeCorrect, PTL DEF Spec

LEMMA StartInv_Next == TypeOK /\ StartInv /\ [Next]_vars => StartInv'
<1> SUFFICES ASSUME TypeOK, StartInv, [Next]_vars,
                    NEW id \in Ids, NEW v \in Workers, Starter(v, id)'
             PROVE  /\ StatusOf(id)' \notin {"missing", "PENDING"}
                    /\ \A w \in Workers : Starter(w, id)' => v = w
  BY DEF StartInv
\* A starter is an old one, or the one whose UPDATE has just taken place.
<1> DEFINE New(w) == Update(w, "RUNNING", id) /\ Allowed("RUNNING", StatusOf(id))
<1>1. ASSUME NEW w \in Workers, Starter(w, id)'
      PROVE  Starter(w, id) \/ New(w)
  <2>1. CASE pc'[w] = "updated" /\ call'[w].op = "RUNNING" /\ call'[w].id = id
    BY <2>1, UpdatedStep DEF Starter
  <2>2. CASE <<"RUNNING", w>> \in acked'[id]
    <3>1. <<"RUNNING", w>> \in acked[id] \/ 
          \E u \in Workers : /\ pc[u] = "updated" /\ call[u].id = id
                             /\ <<"RUNNING", w>> = <<call[u].op, u>>
      BY <2>2, AckedStep
    <3> QED
      BY <3>1 DEF Starter
  <2> QED
    BY <1>1, <2>1, <2>2 DEF Starter
<1>2. ASSUME NEW w \in Workers, New(w)
      PROVE  /\ StatusOf(id)' \notin {"missing", "PENDING"}
             /\ \A u \in Workers : Starter(u, id) => FALSE
             /\ \A u \in Workers : New(u) => u = w
  <2>1. StatusOf(id) = "PENDING"
    BY <1>2 DEF Allowed
  <2>2. PICK r \in Run : runs' = [runs EXCEPT ![id] = r] /\ r.status = "RUNNING"
    BY <1>2, UpdateEffect DEF Ops
  <2>3. StatusOf(id)' = "RUNNING"
    BY <2>2, NoRunAssumption DEF StatusOf, TypeOK
  <2>4. ASSUME NEW u \in Workers, New(u) PROVE u = w
    <3>1. pc'[u] = "updated" /\ pc' = [pc EXCEPT ![w] = "updated"]
      BY <1>2, <2>4 DEF Update, Goto, TypeOK
    <3>2. pc[u] # "updated"
      BY <2>4 DEF Update, Free, At
    <3> QED
      BY <3>1, <3>2 DEF TypeOK
  <2> QED
    BY <2>1, <2>3, <2>4 DEF StartInv
<1>3. ASSUME Starter(v, id)
      PROVE  StatusOf(id)' \notin {"missing", "PENDING"}
  <2>1. StatusOf(id) \notin {"missing", "PENDING"}
    BY <1>3 DEF StartInv
  <2> QED
    BY <2>1, StatusStep, KindAssumption DEF Terminal
<1> QED
  BY <1>1, <1>2, <1>3 DEF StartInv

\* At most one worker is told that it started a run.
THEOREM StartsOnce == Spec => []StartedOnce
<1>1. Init => StartInv
  BY DEF Init, StartInv, Starter
<1>2. StartInv => StartedOnce
  BY DEF StartInv, StartedOnce, Starter
<1> QED
  BY <1>1, <1>2, StartInv_Next, TypeCorrect, PTL DEF Spec

------------------------------------------------------------------------------
(* What the callers of CreateOrGet are told. *)

\* w has inserted the row of key k and has not looked it up yet.
Inserting(w, k) == pc[w] = "inserted" /\ call[w].key = k

\* Per key at most one insert is answered "created" or still to be answered.
CreateInv ==
  \A k \in Keys :
    /\ created[k] <= 1
    /\ created[k] = 1 => HasKey(k)
    /\ \A w \in Workers : Inserting(w, k) =>
         /\ HasKey(k) /\ created[k] = 0
         /\ \A v \in Workers : Inserting(v, k) => v = w

LEMMA KeyStep ==
  ASSUME TypeOK, [Next]_vars, NEW k \in Keys, HasKey(k)
  PROVE  HasKey(k)'
<1> USE DEF TypeOK
<1>1. PICK i \in Ids : runs[i] # NoRun /\ runs[i].key = k
  BY DEF HasKey, Exists
<1>2. ASSUME NEW w \in Workers, NEW id \in Ids, NEW key \in Keys,
             NEW inputs \in Inputs, Insert(w, id, key, inputs),
             ~(Exists(id) \/ HasKey(key))
      PROVE  runs'[i] = runs[i]
  BY <1>1, <1>2, InsertEffect DEF Exists
<1>3. ASSUME NEW w \in Workers, NEW op \in Ops \ {"create"}, NEW id \in Ids,
             Update(w, op, id), Allowed(op, StatusOf(id))
      PROVE  runs'[i] # NoRun /\ runs'[i].key = k
  <2>1. PICK r \in Run : runs' = [runs EXCEPT ![id] = r] /\ r.key = runs[id].key
    BY <1>3, UpdateEffect
  <2> QED
    BY <1>1, <2>1, NoRunAssumption
<1>4. \/ runs' = runs
      \/ \E w \in Workers, id \in Ids, key \in Keys, inputs \in Inputs :
           Insert(w, id, key, inputs) /\ ~(Exists(id) \/ HasKey(key))
      \/ \E w \in Workers, op \in Ops \ {"create"}, id \in Ids :
           Update(w, op, id) /\ Allowed(op, StatusOf(id))
  BY RunsStep
<1> QED
  BY <1>1, <1>2, <1>3, <1>4 DEF HasKey, Exists

LEMMA CreateInv_Next == TypeOK /\ CreateInv /\ [Next]_vars => CreateInv'
<1> SUFFICES ASSUME TypeOK, CreateInv, [Next]_vars, NEW k \in Keys
             PROVE  /\ created'[k] <= 1
                    /\ created'[k] = 1 => HasKey(k)'
                    /\ \A w \in Workers : Inserting(w, k)' =>
                         /\ HasKey(k)' /\ created'[k] = 0
                         /\ \A v \in Workers : Inserting(v, k)' => v = w
  BY DEF CreateInv
<1> USE DEF TypeOK
<1>0. HasKey(k) => HasKey(k)'
  BY KeyStep
\* A step that neither inserts nor answers an insert.
<1>1. ASSUME created' = created,
             \A w \in Workers : Inserting(w, k)' => Inserting(w, k)
      PROVE  /\ created'[k] <= 1
             /\ created'[k] = 1 => HasKey(k)'
             /\ \A w \in Workers : Inserting(w, k)' =>
                  /\ HasKey(k)' /\ created'[k] = 0
                  /\ \A v \in Workers : Inserting(v, k)' => v = w
  BY <1>0, <1>1 DEF CreateInv
<1>2. ASSUME NEW w \in Workers, NEW id \in Ids, NEW key \in Keys,
             NEW inputs \in Inputs, Insert(w, id, key, inputs)
      PROVE  /\ created'[k] <= 1
             /\ created'[k] = 1 => HasKey(k)'
             /\ \A u \in Workers : Inserting(u, k)' =>
                  /\ HasKey(k)' /\ created'[k] = 0
                  /\ \A v \in Workers : Inserting(v, k)' => v = u
  <2>1. created' = created
    BY <1>2 DEF Insert, history
  <2>2. CASE Exists(id) \/ HasKey(key)
    <3>1. \A u \in Workers : Inserting(u, k)' => Inserting(u, k)
      BY <1>2, <2>2 DEF Insert, Inserting, Goto
    <3> QED
      BY <1>1, <2>1, <3>1
  <2>3. CASE ~(Exists(id) \/ HasKey(key))
    <3>1. \A u \in Workers : Inserting(u, k)' =>
             Inserting(u, k) \/ (u = w /\ k = key)
      BY <1>2, <2>3 DEF Insert, Inserting, Goto
    <3>2. PICK r \in Run : runs' = [runs EXCEPT ![id] = r] /\ r.key = key
      BY <1>2, <2>3, InsertEffect
    <3>3. HasKey(key)'
      BY <3>2, NoRunAssumption DEF HasKey, Exists
    <3>4. k = key => created[k] = 0 /\ \A u \in Workers : ~Inserting(u, k)
      BY <2>3 DEF CreateInv
    <3> QED
      BY <1>0, <2>1, <3>1, <3>3, <3>4 DEF CreateInv
  <2> QED
    BY <2>2, <2>3
<1>3. ASSUME NEW w \in Workers, Lookup(w)
      PROVE  /\ created'[k] <= 1
             /\ created'[k] = 1 => HasKey(k)'
             /\ \A u \in Workers : Inserting(u, k)' =>
                  /\ HasKey(k)' /\ created'[k] = 0
                  /\ \A v \in Workers : Inserting(v, k)' => v = u
  <2>1. \A u \in Workers : Inserting(u, k)' => Inserting(u, k) /\ u # w
    BY <1>3 DEF Lookup, Inserting, Goto
  <2>2. CASE Inserting(w, k)
    <3>1. created'[k] = 1
      BY <1>3, <2>2 DEF Lookup, Inserting, At, CreateInv
    <3> QED
      BY <1>0, <2>1, <2>2, <3>1 DEF CreateInv
  <2>3. CASE ~Inserting(w, k)
    <3>1. created'[k] = created[k]
      BY <1>3, <2>3 DEF Lookup, Inserting, At
    <3> QED
      BY <1>0, <2>1, <3>1 DEF CreateInv
  <2> QED
    BY <2>2, <2>3
<1>4. ASSUME NEW w \in Workers, NEW op \in Ops \ {"create"}, NEW id \in Ids,
             Update(w, op, id)
      PROVE  created' = created /\ \A u \in Workers : Inserting(u, k)' => Inserting(u, k)
  <2>1. pc'[w] # "inserted"
    BY <1>4 DEF Update, Goto
  <2> QED
    BY <1>4, <2>1 DEF Update, Inserting, Goto, history
<1>5. ASSUME NEW w \in Workers, ReturnNil(w) \/ ReadStatus(w) \/ Lose(w)
      PROVE  created' = created /\ \A u \in Workers : Inserting(u, k)' => Inserting(u, k)
  BY <1>5 DEF ReturnNil, ReadStatus, Lose, Inserting, Goto, history
<1>6. CASE UNCHANGED vars
  BY <1>1, <1>6 DEF vars, history, Inserting
<1> QED
  BY <1>1, <1>2, <1>3, <1>4, <1>5, <1>6 DEF Next, Step

\* Of all callers that submit one key at most one is told that it is new.
THEOREM CreatesOnce == Spec => []CreatedOnce
<1>1. Init => CreateInv
  BY DEF Init, CreateInv, Inserting
<1>2. CreateInv => CreatedOnce
  BY DEF CreateInv, CreatedOnce
<1> QED
  BY <1>1, <1>2, CreateInv_Next, TypeCorrect, PTL DEF Spec

\* In a backtest repository a key is the digest of the inputs it stands for,
\* in every row and in every CreateOrGet that got as far as its INSERT.
KeyInv ==
  /\ \A id \in Ids : Exists(id) => runs[id].key = KeyOf[runs[id].inputs]
  /\ \A w \in Workers : call[w].op = "create" =>
       call[w] \in Creation /\ call[w].key = KeyOf[call[w].inputs]
  /\ \A w \in Workers : pc[w] = "returned" /\ call[w].op = "create" =>
       HasKey(call[w].key)

MoveInv == \A w \in Workers : pc[w] = "updated" => call[w].op # "create"

LEMMA MoveInv_Next == TypeOK /\ MoveInv /\ [Next]_vars => MoveInv'
  BY UpdatedStep DEF MoveInv

LEMMA KeyInv_Next ==
  ASSUME Kind = "backtest" PROVE TypeOK /\ MoveInv /\ KeyInv /\ [Next]_vars => KeyInv'
<1> SUFFICES ASSUME TypeOK, MoveInv, KeyInv, [Next]_vars PROVE KeyInv'
  OBVIOUS
<1> USE DEF TypeOK
<1>0. \A k \in Keys : HasKey(k) => HasKey(k)'
  BY KeyStep
\* An answered CreateOrGet of a worker that this step does not touch.
<1>a. ASSUME NEW u \in Workers, pc[u] = "returned", call[u].op = "create",
             call'[u] = call[u]
      PROVE  HasKey(call[u].key)'
  <2>1. call[u].key \in Keys /\ HasKey(call[u].key)
    BY <1>a DEF KeyInv, Creation
  <2> QED
    BY <1>0, <1>a, <2>1 DEF HasKey, Exists
<1>1. ASSUME NEW w \in Workers, NEW id \in Ids, NEW key \in Keys,
             NEW inputs \in Inputs, Insert(w, id, key, inputs)
      PROVE  KeyInv'
  <2>1. key = KeyOf[inputs]
    BY <1>1 DEF Insert, Accepted
  <2>2. \A i \in Ids : Exists(i)' => runs'[i].key = KeyOf[runs'[i].inputs]
    <3>1. CASE runs' = runs
      BY <3>1 DEF KeyInv, Exists
    <3>2. CASE ~(Exists(id) \/ HasKey(key))
      <4>1. PICK r \in Run : /\ runs' = [runs EXCEPT ![id] = r]
                            /\ r.key = key /\ r.inputs = inputs
        BY <1>1, <3>2, InsertEffect
      <4> QED
        BY <2>1, <4>1 DEF KeyInv, Exists
    <3> QED
      BY <1>1, <3>1, <3>2 DEF Insert
  <2>3. call' = [call EXCEPT ![w] = [op |-> "create", id |-> id, key |-> key,
                                     inputs |-> inputs]]
    BY <1>1 DEF Insert
  <2>4. [op |-> "create", id |-> id, key |-> key, inputs |-> inputs] \in Creation
    BY DEF Creation
  <2>5. pc'[w] # "returned" /\ \A u \in Workers \ {w} : pc'[u] = pc[u]
    BY <1>1 DEF Insert, Goto
  <2>6. \A u \in Workers : call'[u].op = "create" =>
          call'[u] \in Creation /\ call'[u].key = KeyOf[call'[u].inputs]
    BY <2>1, <2>3, <2>4 DEF KeyInv
  <2>7. \A u \in Workers : pc'[u] = "returned" /\ call'[u].op = "create" =>
          HasKey(call[u].key)'
    BY <1>a, <2>3, <2>5
  <2> QED
    BY <2>2, <2>6, <2>7 DEF KeyInv
<1>2. ASSUME NEW w \in Workers, NEW op \in Ops \ {"create"}, NEW id \in Ids,
             Update(w, op, id)
      PROVE  KeyInv'
  <2>1. \A i \in Ids : Exists(i)' => runs'[i].key = KeyOf[runs'[i].inputs]
    <3>1. CASE runs' = runs
      BY <3>1 DEF KeyInv, Exists
    <3>2. CASE Allowed(op, StatusOf(id))
      <4>1. PICK r \in Run :
              /\ runs' = [runs EXCEPT ![id] = r]
              /\ r.key = runs[id].key /\ r.inputs = runs[id].inputs
        BY <1>2, <3>2, UpdateEffect
      <4>2. Exists(id)
        BY <3>2, NoRunAssumption DEF Allowed, StatusOf, Exists
      <4> QED
        BY <4>1, <4>2 DEF KeyInv, Exists
    <3> QED
      BY <1>2, <3>1, <3>2 DEF Update
  <2>2. /\ call'[w].op # "create"
        /\ \A u \in Workers \ {w} : call'[u] = call[u] /\ pc'[u] = pc[u]
    BY <1>2 DEF Update, Goto
  <2>3. \A u \in Workers : pc'[u] = "returned" /\ call'[u].op = "create" =>
          HasKey(call[u].key)'
    BY <1>a, <2>2
  <2> QED
    BY <2>1, <2>2, <2>3 DEF KeyInv
<1>3. ASSUME NEW w \in Workers, Lookup(w) PROVE KeyInv'
  <2>1. pc'[w] = "returned" => HasKey(call[w].key)
    BY <1>3 DEF Lookup, Goto
  <2>2. runs' = runs /\ call' = call /\ \A u \in Workers \ {w} : pc'[u] = pc[u]
    BY <1>3 DEF Lookup, Goto
  <2> QED
    BY <2>1, <2>2 DEF KeyInv, HasKey, Exists
<1>4. ASSUME NEW w \in Workers, ReturnNil(w) PROVE KeyInv'
  <2>1. runs' = runs /\ call' = call /\ \A u \in Workers \ {w} : pc'[u] = pc[u]
    BY <1>4 DEF ReturnNil, Goto
  <2>2. call[w].op # "create"
    BY <1>4 DEF MoveInv, ReturnNil, At
  <2> QED
    BY <2>1, <2>2 DEF KeyInv, HasKey, Exists
<1>5. ASSUME NEW w \in Workers, ReadStatus(w) \/ Lose(w) PROVE KeyInv'
  <2>1. /\ runs' = runs /\ call' = call /\ pc'[w] # "returned"
        /\ \A u \in Workers \ {w} : pc'[u] = pc[u]
    BY <1>5 DEF ReadStatus, Lose, Goto, history
  <2> QED
    BY <2>1 DEF KeyInv, HasKey, Exists
<1>6. CASE UNCHANGED vars
  BY <1>6 DEF vars, KeyInv, HasKey, Exists
<1> QED
  BY <1>1, <1>2, <1>3, <1>4, <1>5, <1>6 DEF Next, Step

\* What a backtest caller is handed computes what it asked for.
THEOREM BacktestInputsMatch ==
  ASSUME Kind = "backtest" PROVE Spec => []InputsMatch
<1>1. Init => KeyInv /\ MoveInv
  BY DEF Init, KeyInv, MoveInv, Exists
<1>2. TypeOK /\ KeyInv => InputsMatch
  <2> SUFFICES ASSUME TypeOK, KeyInv, NEW w \in Workers,
                      pc[w] = "returned", call[w].op = "create"
               PROVE  \E id \in Ids : /\ Exists(id)
                                      /\ runs[id].key = call[w].key
                                      /\ runs[id].inputs = call[w].inputs
    BY DEF InputsMatch, At
  <2>1. PICK id \in Ids : Exists(id) /\ runs[id].key = call[w].key
    BY DEF KeyInv, HasKey
  <2>2. /\ runs[id].inputs \in Inputs /\ call[w].inputs \in Inputs
        /\ KeyOf[runs[id].inputs] = KeyOf[call[w].inputs]
    BY <2>1 DEF KeyInv, TypeOK, Exists, Run, Creation
  <2> QED
    BY <2>1, <2>2, KeyOfAssumption
<1>3. TypeOK /\ MoveInv /\ KeyInv /\ [Next]_vars => KeyInv'
  BY KeyInv_Next
<1> QED
  BY <1>1, <1>2, <1>3, MoveInv_Next, TypeCorrect, PTL DEF Spec

------------------------------------------------------------------------------
(* Attempts, refusals, and the abstract lifecycle. *)

LEMMA Attempts_Next == TypeOK /\ AttemptsExact /\ [Next]_vars => AttemptsExact'
<1> SUFFICES ASSUME TypeOK, AttemptsExact, [Next]_vars, Kind = "sync",
                    NEW i \in Ids, Exists(i)'
             PROVE  runs'[i].attempts = IF runs'[i].status = "PENDING" THEN 0 ELSE 1
  BY DEF AttemptsExact, Exists
<1> USE DEF TypeOK
<1>1. CASE runs' = runs
  BY <1>1 DEF AttemptsExact, Exists
<1>2. ASSUME NEW w \in Workers, NEW id \in Ids, NEW key \in Keys,
             NEW inputs \in Inputs, Insert(w, id, key, inputs),
             ~(Exists(id) \/ HasKey(key))
      PROVE  runs'[i].attempts = IF runs'[i].status = "PENDING" THEN 0 ELSE 1
  BY <1>2, InsertEffect DEF AttemptsExact, Exists
<1>3. ASSUME NEW w \in Workers, NEW op \in Ops \ {"create"}, NEW id \in Ids,
             Update(w, op, id), Allowed(op, StatusOf(id))
      PROVE  runs'[i].attempts = IF runs'[i].status = "PENDING" THEN 0 ELSE 1
  <2>1. PICK r \in Run :
          /\ runs' = [runs EXCEPT ![id] = r]
          /\ r.status = op
          /\ r.attempts = IF Kind = "sync" /\ op = "RUNNING"
                          THEN runs[id].attempts + 1 ELSE runs[id].attempts
    BY <1>3, UpdateEffect
  <2>2. Exists(id) /\ runs[id].status = IF op = "RUNNING" THEN "PENDING" ELSE "RUNNING"
    BY <1>3 DEF Allowed, StatusOf, Exists
  <2>3. op # "PENDING"
    BY KindAssumption DEF Ops, Terminal
  <2> QED
    BY <2>1, <2>2, <2>3 DEF AttemptsExact, Exists
<1>4. \/ runs' = runs
      \/ \E w \in Workers, id \in Ids, key \in Keys, inputs \in Inputs :
           Insert(w, id, key, inputs) /\ ~(Exists(id) \/ HasKey(key))
      \/ \E w \in Workers, op \in Ops \ {"create"}, id \in Ids :
           Update(w, op, id) /\ Allowed(op, StatusOf(id))
  BY RunsStep
<1> QED
  BY <1>1, <1>2, <1>3, <1>4

\* A sync job that is past PENDING was attempted exactly once.
THEOREM AttemptsAreExact == Spec => []AttemptsExact
<1>1. Init => AttemptsExact
  BY DEF Init, AttemptsExact, Exists
<1> QED
  BY <1>1, Attempts_Next, TypeCorrect, PTL DEF Spec

\* A refused move is being explained: its run is not younger than the refusal.
SeenInv ==
  \A w \in Workers : pc[w] = "rejected" =>
    Stage(seen[w]) <= Stage(StatusOf(call[w].id))

LEMMA StageStep ==
  ASSUME TypeOK, [Next]_vars, NEW id \in Ids
  PROVE  /\ Stage(StatusOf(id)) \in Nat /\ Stage(StatusOf(id))' \in Nat
         /\ Stage(StatusOf(id)) <= Stage(StatusOf(id))'
<1>1. \A st : Stage(st) \in 0..3
  BY DEF Stage
<1>2. \A st \in Outcomes : Stage(st) = 3
  BY KindAssumption DEF Stage, Terminal
<1> QED
  BY <1>1, <1>2, StatusStep DEF Stage

LEMMA SeenInv_Next == TypeOK /\ SeenInv /\ [Next]_vars => SeenInv'
<1> SUFFICES ASSUME TypeOK, SeenInv, [Next]_vars,
                    NEW w \in Workers, pc'[w] = "rejected"
             PROVE  Stage(seen'[w]) <= Stage(StatusOf(call[w].id)')
  BY DEF SeenInv, StatusOf
<1> USE DEF TypeOK
<1>1. ASSUME NEW op \in Ops \ {"create"}, NEW id \in Ids, Update(w, op, id)
      PROVE  Stage(seen'[w]) <= Stage(StatusOf(call[w].id)')
  <2>1. seen'[w] = StatusOf(id) /\ call'[w].id = id /\ runs' = runs
    BY <1>1 DEF Update, Goto
  <2>2. Stage(StatusOf(id)) \in Nat
    BY StageStep
  <2> QED
    BY <2>1, <2>2 DEF StatusOf
<1>2. ASSUME pc[w] = "rejected", seen'[w] = seen[w], call'[w] = call[w]
      PROVE  Stage(seen'[w]) <= Stage(StatusOf(call[w].id)')
  <2>1. call[w].id \in Ids
    BY DEF Creation, Move
  <2>2. PICK id \in Ids : id = call[w].id
    BY <2>1
  <2>3. Stage(seen[w]) <= Stage(StatusOf(id))
    BY <1>2, <2>2 DEF SeenInv
  <2>4. Stage(seen[w]) \in Nat
    BY DEF Stage
  <2>5. Stage(StatusOf(call[w].id)') = Stage(StatusOf(id))'
    BY <1>2, <2>2 DEF StatusOf, Stage
  <2> QED
    BY <1>2, <2>3, <2>4, <2>5, StageStep
<1>3. \/ pc[w] = "rejected" /\ seen'[w] = seen[w] /\ call'[w] = call[w]
      \/ \E op \in Ops \ {"create"}, id \in Ids : Update(w, op, id)
  <2>1. ASSUME NEW v \in Workers, NEW id \in Ids, NEW key \in Keys,
               NEW inputs \in Inputs, Insert(v, id, key, inputs)
        PROVE  pc[w] = "rejected" /\ seen'[w] = seen[w] /\ call'[w] = call[w]
    BY <2>1 DEF Insert, Goto
  <2>2. ASSUME NEW v \in Workers, NEW op \in Ops \ {"create"}, NEW id \in Ids,
               Update(v, op, id)
        PROVE  \/ v = w
               \/ pc[w] = "rejected" /\ seen'[w] = seen[w] /\ call'[w] = call[w]
    BY <2>2 DEF Update, Goto
  <2>3. ASSUME NEW v \in Workers, Step(v) \/ Lose(v)
        PROVE  pc[w] = "rejected" /\ seen'[w] = seen[w] /\ call'[w] = call[w]
    BY <2>3 DEF Step, Lookup, ReturnNil, ReadStatus, Lose, Goto
  <2>4. CASE UNCHANGED vars
    BY <2>4 DEF vars
  <2> QED
    BY <2>1, <2>2, <2>3, <2>4 DEF Next
<1> QED
  BY <1>1, <1>2, <1>3

\* The status in a refusal is never older than the status that refused.
THEOREM RefusalsNotOlder == Spec => RefusalNotOlder
<1>1. Init => SeenInv
  BY DEF Init, SeenInv
<1>2. TypeOK /\ SeenInv /\ [Next]_vars =>
        [\A w \in Workers : pc[w] = "rejected" /\ pc'[w] = "refused" =>
           Stage(seen[w]) <= Stage(seen'[w])]_vars
  <2> SUFFICES ASSUME TypeOK, SeenInv, [Next]_vars, NEW w \in Workers,
                      pc[w] = "rejected", pc'[w] = "refused"
               PROVE  Stage(seen[w]) <= Stage(seen'[w])
    OBVIOUS
  <2>1. ReadStatus(w)
    <3> USE DEF TypeOK, Goto
    <3>1. ASSUME NEW v \in Workers, NEW id \in Ids, NEW key \in Keys,
                 NEW inputs \in Inputs, Insert(v, id, key, inputs)
          PROVE  FALSE
      BY <3>1 DEF Insert, Free
    <3>2. ASSUME NEW v \in Workers, NEW op \in Ops \ {"create"}, NEW id \in Ids,
                 Update(v, op, id)
          PROVE  FALSE
      BY <3>2 DEF Update, Free
    <3>3. ASSUME NEW v \in Workers, Step(v) \/ Lose(v) PROVE v = w /\ ReadStatus(w)
      BY <3>3 DEF Step, Lookup, ReturnNil, ReadStatus, Lose, At
    <3>4. ~UNCHANGED vars
      BY DEF vars
    <3> QED
      BY <3>1, <3>2, <3>3, <3>4 DEF Next
  <2>2. seen'[w] = StatusOf(call[w].id)
    BY <2>1 DEF ReadStatus, TypeOK
  <2> QED
    BY <2>2 DEF SeenInv
<1> QED
  BY <1>1, <1>2, SeenInv_Next, TypeCorrect, PTL DEF Spec, RefusalNotOlder

LEMMA LifecycleStep ==
  TypeOK /\ [Next]_vars => [Lifecycle!Next]_(Lifecycle!vars)
<1> SUFFICES ASSUME TypeOK, [Next]_vars
             PROVE  Lifecycle!Next \/ UNCHANGED Lifecycle!vars
  OBVIOUS
<1>1. CASE runs' = runs
  BY <1>1 DEF Lifecycle!vars, Exists
<1>2. ASSUME NEW w \in Workers, NEW id \in Ids, NEW key \in Keys,
             NEW inputs \in Inputs, Insert(w, id, key, inputs),
             ~(Exists(id) \/ HasKey(key))
      PROVE  Lifecycle!Submit(id)
  <2>1. PICK r \in Run : runs' = [runs EXCEPT ![id] = r] /\ r.status = "PENDING"
    BY <1>2, InsertEffect
  <2> QED
    BY <1>2, <2>1, NoRunAssumption
       DEF Lifecycle!Submit, Lifecycle!Move, Exists, TypeOK
<1>3. ASSUME NEW w \in Workers, NEW op \in Ops \ {"create"}, NEW id \in Ids,
             Update(w, op, id), Allowed(op, StatusOf(id))
      PROVE  \/ Lifecycle!Begin(id)
             \/ \E outcome \in Terminal, rows \in SUBSET {} :
                  Lifecycle!End(id, outcome, rows)
  <2>1. PICK r \in Run : runs' = [runs EXCEPT ![id] = r] /\ r.status = op
    BY <1>3, UpdateEffect
  <2>2. Exists(id) /\ runs[id].status = IF op = "RUNNING" THEN "PENDING" ELSE "RUNNING"
    BY <1>3 DEF Allowed, StatusOf, Exists
  <2>3. ASSUME NEW from, runs[id].status = from
        PROVE  Lifecycle!Move(id, from, op)
    BY <2>1, <2>2, <2>3, NoRunAssumption DEF Lifecycle!Move, Exists, TypeOK
  <2>4. CASE op = "RUNNING"
    BY <2>2, <2>3, <2>4 DEF Lifecycle!Begin
  <2>5. CASE op \in Terminal
    <3>1. op # "RUNNING"
      BY <2>5 DEF Terminal
    <3>2. Lifecycle!End(id, op, {})
      BY <2>2, <2>3, <3>1 DEF Lifecycle!End
    <3> QED
      BY <2>5, <3>2
  <2> QED
    BY <2>4, <2>5, KindAssumption DEF Ops
<1>4. \/ runs' = runs
      \/ \E w \in Workers, id \in Ids, key \in Keys, inputs \in Inputs :
           Insert(w, id, key, inputs) /\ ~(Exists(id) \/ HasKey(key))
      \/ \E w \in Workers, op \in Ops \ {"create"}, id \in Ids :
           Update(w, op, id) /\ Allowed(op, StatusOf(id))
  BY RunsStep
<1> QED
  BY <1>1, <1>2, <1>3, <1>4 DEF Lifecycle!Next, Terminal, Lifecycle!Terminal

\* Whatever they are called with, the repositories take a run once through
\* PENDING and RUNNING to one outcome.
THEOREM ImplementsLifecycle == Spec => LifecycleSpec
<1>1. Init => Lifecycle!Init
  BY DEF Init, Lifecycle!Init, Exists
<1> QED
  BY <1>1, LifecycleStep, TypeCorrect, PTL DEF Spec, LifecycleSpec, Lifecycle!Spec
===============================================================================
