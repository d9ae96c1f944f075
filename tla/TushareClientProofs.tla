-------------------------- MODULE TushareClientProofs --------------------------
(***************************************************************************)
(* Proofs about TushareClient for any number of callers and APIs, any      *)
(* rates, retry configuration, timeout and horizon: types, the rate limit, *)
(* what a call pays for, the exact backoff, and that nothing is sent late. *)
(***************************************************************************)
EXTENDS TushareClient, LeastNumber

------------------------------------------------------------------------------
(* The delay before a retry. *)

LEMMA WrapKeeps ==
  ASSUME NEW d \in Nat, d <= MaxDuration
  PROVE  Wrap(d) = d
<1> DEFINE m == MaxDuration + 1
<1>1. m \in Nat \ {0} /\ d < m
  BY RetryAssumption
<1>2. (d + m) % (2 * m) = d + m
  <2> HIDE DEF m
  <2>1. \A a, b \in Nat : a < b => a % b = a
    OBVIOUS
  <2> QED
    BY <1>1, <2>1
<1> QED
  BY <1>2, RetryAssumption DEF Wrap

\* One turn of the loop doubles up to the cap and never overflows.
LEMMA DoubledExact ==
  ASSUME NEW d \in Nat
  PROVE  Doubled(d) = IF 2 * d < MaxBackoff THEN 2 * d ELSE MaxBackoff
<1>1. MaxBackoff \in Nat /\ MaxDuration \in Nat /\ MaxBackoff <= MaxDuration
  BY RetryAssumption
<1>2. CASE d > MaxBackoff \div 2
  BY <1>1, <1>2 DEF Doubled
<1>3. CASE ~(d > MaxBackoff \div 2)
  <2>1. 2 * d <= MaxBackoff
    BY <1>1, <1>3
  <2>2. Wrap(2 * d) = 2 * d
    BY <1>1, <2>1, WrapKeeps
  <2> QED
    BY <1>1, <1>3, <2>1, <2>2 DEF Doubled
<1> QED
  BY <1>2, <1>3

Prefix(f, m) ==
  f = [n \in 1..m |-> IF n = 1 THEN BaseBackoff ELSE Doubled(f[n - 1])]

LEMMA PrefixExists == \A m \in Nat \ {0} : \E f : Prefix(f, m)
<1> DEFINE Bad == {m \in Nat \ {0} : ~ \E f : Prefix(f, m)}
<1> SUFFICES ASSUME Bad # {} PROVE FALSE
  OBVIOUS
<1>1. PICK m \in Bad : \A k \in Bad : m <= k
  BY LeastExists
<1>2. CASE m = 1
  <2> DEFINE f == [n \in 1..1 |-> BaseBackoff]
  <2>1. Prefix(f, 1)
    BY DEF Prefix
  <2> QED
    BY <1>2, <2>1
<1>3. CASE m # 1
  <2>1. m - 1 \in Nat \ {0} /\ m - 1 \notin Bad
    BY <1>1, <1>3
  <2>2. PICK f : Prefix(f, m - 1)
    BY <2>1
  <2> DEFINE g == [n \in 1..m |-> IF n < m THEN f[n] ELSE Doubled(f[m - 1])]
  <2>3. ASSUME NEW n \in 1..m
        PROVE  g[n] = IF n = 1 THEN BaseBackoff ELSE Doubled(g[n - 1])
    <3>1. CASE n < m
      <4>1. f[n] = IF n = 1 THEN BaseBackoff ELSE Doubled(f[n - 1])
        BY <1>1, <2>2, <3>1 DEF Prefix
      <4>2. n # 1 => g[n - 1] = f[n - 1]
        BY <1>1, <3>1
      <4> QED
        BY <3>1, <4>1, <4>2
    <3>2. CASE n = m
      BY <1>1, <1>3, <3>2
    <3> QED
      BY <1>1, <3>1, <3>2
  <2>4. Prefix(g, m)
    BY <2>3 DEF Prefix
  <2> QED
    BY <2>4
<1> QED
  BY <1>2, <1>3

LEMMA BackoffDef ==
  /\ Backoff[1] = BaseBackoff
  /\ \A n \in 2..MaxAttempts : Backoff[n] = Doubled(Backoff[n - 1])
<1>1. MaxAttempts \in Nat \ {0}
  BY RetryAssumption
<1>2. Backoff = CHOOSE f : Prefix(f, MaxAttempts)
  BY DEF Backoff, Prefix
<1>3. Prefix(Backoff, MaxAttempts)
  BY <1>1, <1>2, PrefixExists
<1> QED
  BY <1>1, <1>3 DEF Prefix

TwoTo(n) == 2^n

LEMMA SubsetsCounted ==
  ASSUME NEW S, IsFiniteSet(S)
  PROVE  TwoTo(Cardinality(S)) = Cardinality(SUBSET S) /\ IsFiniteSet(SUBSET S)
BY FS_SUBSET, Zenon DEF TwoTo

\* A set with one more member has twice as many subsets.
LEMMA PowersOfTwo ==
  /\ TwoTo(0) = 1
  /\ \A n \in Nat : TwoTo(n) \in Nat /\ TwoTo(n + 1) = 2 * TwoTo(n)
<1>1. TwoTo(0) = 1
  BY DEF TwoTo
<1>2. ASSUME NEW n \in Nat PROVE TwoTo(n) \in Nat /\ TwoTo(n + 1) = 2 * TwoTo(n)
  <2> DEFINE S == 1..n
             A == SUBSET S
             B == {U \union {n + 1} : U \in A}
             f == [U \in A |-> U \union {n + 1}]
  <2>1. IsFiniteSet(S) /\ Cardinality(S) = n
    BY FS_Interval
  <2>2. IsFiniteSet(1..(n + 1)) /\ Cardinality(1..(n + 1)) = n + 1
    BY FS_Interval
  <2>3. TwoTo(n) = Cardinality(A) /\ IsFiniteSet(A)
    BY <2>1, SubsetsCounted
  <2>4. TwoTo(n + 1) = Cardinality(SUBSET (1..(n + 1)))
    BY <2>2, SubsetsCounted
  <2>5. f \in Bijection(A, B)
    <3>1. f \in [A -> B]
      OBVIOUS
    <3>2. \A U, V \in A : f[U] = f[V] => U = V
      <4> SUFFICES ASSUME NEW U \in A, NEW V \in A, f[U] = f[V] PROVE U = V
        OBVIOUS
      <4>1. n + 1 \notin U /\ n + 1 \notin V
        OBVIOUS
      <4>2. U \union {n + 1} = V \union {n + 1}
        OBVIOUS
      <4> HIDE DEF f, A, S
      <4> QED
        BY <4>1, <4>2
    <3>3. \A t \in B : \E U \in A : f[U] = t
      OBVIOUS
    <3> HIDE DEF f, A, B
    <3>4. f \in Injection(A, B)
      BY <3>1, <3>2 DEF Injection, IsInjective
    <3>5. f \in Surjection(A, B)
      BY <3>1, <3>3, Zenon DEF Surjection
    <3> QED
      BY <3>4, <3>5 DEF Bijection
  <2>6. IsFiniteSet(B) /\ Cardinality(B) = Cardinality(A)
    <3> HIDE DEF f, A, B
    <3> QED
      BY <2>3, <2>5, FS_Bijection DEF ExistsBijection
  <2>7. A \intersect B = {}
    OBVIOUS
  <2>8. SUBSET (1..(n + 1)) = A \union B
    <3>1. ASSUME NEW W \in SUBSET (1..(n + 1)), n + 1 \in W PROVE W \in B
      <4>1. W \ {n + 1} \in A /\ W = (W \ {n + 1}) \union {n + 1}
        BY <3>1
      <4> QED
        BY <4>1
    <3>2. ASSUME NEW W \in SUBSET (1..(n + 1)), n + 1 \notin W PROVE W \in A
      BY <3>2
    <3>3. A \subseteq SUBSET (1..(n + 1))
      OBVIOUS
    <3>4. ASSUME NEW W \in B PROVE W \in SUBSET (1..(n + 1))
      <4>1. PICK U \in A : W = U \union {n + 1}
        OBVIOUS
      <4> QED
        BY <4>1
    <3> HIDE DEF A, B
    <3> QED
      BY <3>1, <3>2, <3>3, <3>4
  <2>9. Cardinality(A \union B) = Cardinality(A) + Cardinality(A)
    <3>1. Cardinality(A \union B) = Cardinality(A) + Cardinality(B) - Cardinality({})
      <4> HIDE DEF A, B
      <4> QED
        BY <2>3, <2>6, <2>7, FS_Union
    <3>2. Cardinality(A) \in Nat
      BY <2>3, FS_CardinalityType
    <3> QED
      BY <2>6, <3>1, <3>2, FS_EmptySet
  <2>10. Cardinality(A) \in Nat
    BY <2>3, FS_CardinalityType
  <2> HIDE DEF A, B, f, S
  <2>11. TwoTo(n + 1) = Cardinality(A \union B)
    BY <2>4, <2>8
  <2> QED
    BY <2>3, <2>9, <2>10, <2>11
<1> QED
  BY <1>1, <1>2

Bound(n) ==
  IF BaseBackoff * TwoTo(n - 1) < MaxBackoff THEN BaseBackoff * TwoTo(n - 1) ELSE MaxBackoff

\* The loop of RetryConfig.backoff for every retry: doubled n - 1 times, capped.
LEMMA BackoffIs ==
  \A n \in 1..MaxAttempts : Backoff[n] = Bound(n) /\ Backoff[n] \in Nat
<1>0. /\ MaxAttempts \in Nat /\ BaseBackoff \in Nat /\ MaxBackoff \in Nat
      /\ BaseBackoff <= MaxBackoff
  BY RetryAssumption
<1> DEFINE Bad == {n \in 1..MaxAttempts : ~(Backoff[n] = Bound(n) /\ Backoff[n] \in Nat)}
<1> SUFFICES ASSUME Bad # {} PROVE FALSE
  OBVIOUS
<1>1. PICK n \in Bad : \A k \in Bad : n <= k
  <2>1. Bad \subseteq Nat
    BY <1>0
  <2> HIDE DEF Bad
  <2> QED
    BY <2>1, LeastExists
<1>2. n \in 1..MaxAttempts /\ ~(Backoff[n] = Bound(n) /\ Backoff[n] \in Nat)
  OBVIOUS
<1>3. CASE n = 1
  <2>1. n - 1 = 0 /\ Backoff[n] = BaseBackoff
    BY <1>3, BackoffDef
  <2>2. Bound(n) = BaseBackoff
    BY <1>0, <2>1, PowersOfTwo DEF Bound
  <2> QED
    BY <1>0, <1>2, <2>1, <2>2
<1>4. CASE n # 1
  <2>1. n - 1 \in 1..MaxAttempts /\ n \in 2..MaxAttempts /\ n - 1 \notin Bad
    BY <1>0, <1>1, <1>2, <1>4
  <2>2. Backoff[n - 1] = Bound(n - 1) /\ Backoff[n - 1] \in Nat
    BY <2>1
  <2>3. PICK p \in Nat : TwoTo(n - 2) = p /\ TwoTo(n - 1) = 2 * p
    <3>1. n - 2 \in Nat /\ (n - 2) + 1 = n - 1
      BY <1>2, <2>1
    <3> QED
      BY <3>1, PowersOfTwo
  <2>4. PICK x \in Nat : BaseBackoff * p = x /\ BaseBackoff * (2 * p) = 2 * x
    <3>1. \A b, k \in Nat : b * k \in Nat /\ b * (2 * k) = 2 * (b * k)
      OBVIOUS
    <3> QED
      BY <1>0, <3>1
  <2>5. Bound(n - 1) = IF x < MaxBackoff THEN x ELSE MaxBackoff
    <3>1. (n - 1) - 1 = n - 2
      BY <1>2
    <3> QED
      BY <2>3, <2>4, <3>1 DEF Bound
  <2>6. Bound(n) = IF 2 * x < MaxBackoff THEN 2 * x ELSE MaxBackoff
    BY <2>3, <2>4 DEF Bound
  <2>7. Backoff[n] = IF 2 * Backoff[n - 1] < MaxBackoff THEN 2 * Backoff[n - 1]
                     ELSE MaxBackoff
    BY <2>1, <2>2, BackoffDef, DoubledExact
  <2> QED
    BY <1>0, <1>2, <2>2, <2>5, <2>6, <2>7
<1> QED
  BY <1>3, <1>4

------------------------------------------------------------------------------
(* The inductive invariant. *)

Grant == [at : 0..Horizon, api : Apis]

\* Slots granted and requests sent, by where the call stands.
Paid(q) ==
  /\ pc[q] \in {"check", "reserve", "sleep"} =>
       slots[q] = attempt[q] - 1 /\ sent[q] = attempt[q] - 1
  /\ pc[q] = "send" => slots[q] = attempt[q] /\ sent[q] = attempt[q] - 1
  /\ pc[q] \in {"flight", "backoff"} => slots[q] = attempt[q] /\ sent[q] = attempt[q]
  /\ sent[q] <= slots[q]
  /\ pc[q] = "done" =>
       /\ result[q].attempts = slots[q]
       /\ sent[q] < slots[q] =>
            sent[q] = slots[q] - 1 /\ result[q].class \in {"CANCELLED", "TIMEOUT"}

\* Only a call that has attempts left backs off, and not for longer than its turn.
Backing(q) ==
  pc[q] = "backoff" =>
    attempt[q] < MaxAttempts /\ wake[q] <= now + Backoff[attempt[q]]

\* Tick ends the context of a call when it reaches the deadline.
InTime(q) == Running(q) /\ Live(q) => now < Deadline(q)

CallInv == \A q \in Queries : Paid(q) /\ Backing(q) /\ InTime(q)

\* Which and how many of the slots i..j of s went to a.
SlotSet(s, a, i, j) == {k \in i..j : s[k].api = a}
SlotsOf(s, a, i, j) == Cardinality(SlotSet(s, a, i, j))

\* The limiter keeps every slot as far from the next one as the slots in between
\* say, over all calls and over those of one API.
Spaced(i) ==
  /\ grants[i].at <= now
  /\ nextGlobal - grants[i].at >= (Len(grants) + 1 - i) * GlobalInterval
  /\ nextApi[grants[i].api] - grants[i].at >=
       SlotsOf(grants, grants[i].api, i, Len(grants)) * ApiInterval(grants[i].api)

LimiterInv == \A i \in 1..Len(grants) : Spaced(i)

ClientInv ==
  TypeOK /\ CallInv /\ LimiterInv /\ NoReservationAhead /\ SlotsApart

LEMMA Numbers ==
  /\ MaxAttempts \in Nat \ {0} /\ Timeout \in Nat \ {0} /\ Horizon \in Nat
  /\ GlobalInterval \in Nat /\ \A a \in Apis : ApiInterval(a) \in Nat
  /\ \A n \in 1..MaxAttempts : Backoff[n] \in Nat /\ Jittered(n) \subseteq 0..Backoff[n]
<1>1. MaxAttempts \in Nat \ {0} /\ Timeout \in Nat \ {0} /\ Horizon \in Nat
  BY RetryAssumption
<1>2. \A m \in Nat, n \in Nat \ {0} : m \div n \in Nat
  OBVIOUS
<1>3. GlobalInterval \in Nat /\ \A a \in Apis : ApiInterval(a) \in Nat
  BY <1>2, RatesAssumption DEF GlobalInterval, ApiInterval, Interval
<1>4. \A n \in 1..MaxAttempts : Backoff[n] \in Nat /\ Jittered(n) \subseteq 0..Backoff[n]
  BY BackoffIs DEF Jittered
<1> QED
  BY <1>1, <1>3, <1>4

LEMMA NextSlotIs ==
  ASSUME TypeOK, NEW a \in Apis
  PROVE  /\ NextSlot(a) \in Nat /\ now <= NextSlot(a)
         /\ nextGlobal <= NextSlot(a) /\ nextApi[a] <= NextSlot(a)
BY DEF TypeOK, NextSlot, Later

Places == {"idle", "check", "reserve", "sleep", "send", "flight", "backoff", "done"}

LEMMA GotoType ==
  ASSUME TypeOK, NEW q \in Queries, NEW from, NEW to \in Places, Goto(q, from, to)
  PROVE  pc' \in [Queries -> Places]
BY DEF TypeOK, Goto, Places

LEMMA FinishType ==
  ASSUME TypeOK, NEW q \in Queries, NEW class \in Classes, NEW n \in 0..MaxAttempts,
         Finish(q, class, n)
  PROVE  result' \in [Queries -> [class : Classes, attempts : 0..MaxAttempts]]
BY DEF TypeOK, Finish

LEMMA CtxClassType == \A q : CtxClass(q) \in Classes
BY DEF CtxClass, Classes

LEMMA TypeOK_Next == ClientInv /\ [Next]_vars => TypeOK'
<1> SUFFICES ASSUME ClientInv, [Next]_vars PROVE TypeOK'
  OBVIOUS
<1>0. TypeOK /\ CallInv
  BY DEF ClientInv
<1> USE <1>0, Numbers DEF TypeOK, limiter, history
<1>1. CASE Tick
  BY <1>1 DEF Tick
<1>2. CASE Rest \/ UNCHANGED vars
  BY <1>2 DEF Rest, vars
<1>a. \A q \in Queries : attempt[q] \in 0..MaxAttempts /\ attempt[q] - 1 \in 0..MaxAttempts
  OBVIOUS
<1>b. "ok" \in Classes /\ "UPSTREAM" \in Classes
  BY DEF Classes
<1>c. "check" \in Places /\ "reserve" \in Places /\ "sleep" \in Places /\ "send" \in Places
      /\ "flight" \in Places /\ "backoff" \in Places /\ "done" \in Places
  BY DEF Places
<1>d. [Queries -> Places] = [Queries -> {"idle", "check", "reserve", "sleep", "send", "flight",
                                         "backoff", "done"}]
  BY DEF Places
<1>3. ASSUME NEW q \in Queries, NEW a \in Apis, Start(q, a) PROVE TypeOK'
  <2>1. pc' \in [Queries -> Places]
    <3>1. pc' = [pc EXCEPT ![q] = "check"] /\ pc \in [Queries -> Places]
      BY <1>3, <1>d DEF Start
    <3> QED
      BY <3>1, <1>c
  <2>2. api' \in [Queries -> Apis]
    BY <1>3 DEF Start
  <2>3. ctx' \in [Queries -> {"live", "cancelled", "deadline"}]
    BY <1>3 DEF Start
  <2>4. began' \in [Queries -> 0..Horizon]
    BY <1>3 DEF Start
  <2>5. attempt' \in [Queries -> 1..MaxAttempts]
    BY <1>3 DEF Start
  <2>6. result' \in [Queries -> [class : Classes, attempts : 0..MaxAttempts]]
    <3>1. NoResult \in [class : Classes, attempts : 0..MaxAttempts]
      BY DEF NoResult, Classes
    <3> QED
      BY <1>3, <3>1 DEF Start
  <2>7. slots' \in [Queries -> Nat] /\ sent' \in [Queries -> Nat]
    BY <1>3 DEF Start
  <2>8. UNCHANGED <<now, limiter, wake, grants>>
    BY <1>3 DEF Start
  <2> QED
    BY <1>d, <2>1, <2>2, <2>3, <2>4, <2>5, <2>6, <2>7, <2>8
<1>4. ASSUME NEW q \in Queries, Cancel(q) PROVE TypeOK'
  BY <1>4 DEF Cancel
<1>5. ASSUME NEW q \in Queries, CheckContext(q) PROVE TypeOK'
  <2>1. pc' \in [Queries -> Places]
    BY <1>5, <1>c, GotoType DEF CheckContext
  <2>2. result' \in [Queries -> [class : Classes, attempts : 0..MaxAttempts]]
    BY <1>5, <1>a, FinishType, CtxClassType DEF CheckContext
  <2> QED
    BY <1>5, <1>d, <2>1, <2>2 DEF CheckContext
<1>6. ASSUME NEW q \in Queries, Reserve(q) PROVE TypeOK'
  <2>1. NextSlot(api[q]) \in Nat
    BY NextSlotIs
  <2>2. pc' \in [Queries -> Places]
    BY <1>6, <1>c, GotoType DEF Reserve
  <2>3. CASE Take(q) /\ UNCHANGED wake
    <3>1. nextGlobal' \in Nat /\ nextApi' \in [Apis -> Nat]
      <4>1. ApiInterval(api[q]) \in Nat /\ now \in Nat
        OBVIOUS
      <4>2. now + GlobalInterval \in Nat /\ now + ApiInterval(api[q]) \in Nat
        BY <4>1
      <4> QED
        BY <2>3, <4>2 DEF Take
    <3>2. grants' \in Seq([at : 0..Horizon, api : Apis])
      BY <2>3 DEF Take
    <3>3. slots' \in [Queries -> Nat]
      BY <2>3 DEF Take
    <3>4. UNCHANGED <<now, api, ctx, began, attempt, wake, result, sent>>
      BY <1>6, <2>3 DEF Reserve
    <3> QED
      BY <1>d, <2>2, <3>1, <3>2, <3>3, <3>4
  <2>4. CASE wake' = [wake EXCEPT ![q] = NextSlot(api[q])]
             /\ UNCHANGED <<limiter, slots, grants>>
    BY <1>6, <1>d, <2>1, <2>2, <2>4 DEF Reserve
  <2> QED
    BY <1>6, <2>3, <2>4 DEF Reserve
<1>7. ASSUME NEW q \in Queries, Awake(q) PROVE TypeOK'
  <2>1. pc' \in [Queries -> Places]
    BY <1>7, <1>c, GotoType DEF Awake
  <2>2. result' \in [Queries -> [class : Classes, attempts : 0..MaxAttempts]]
    BY <1>7, <1>a, FinishType, CtxClassType DEF Awake
  <2> QED
    BY <1>7, <1>d, <2>1, <2>2 DEF Awake
<1>8. ASSUME NEW q \in Queries, Send(q) PROVE TypeOK'
  <2>1. pc' \in [Queries -> Places]
    BY <1>8, <1>c, GotoType DEF Send
  <2>2. result' \in [Queries -> [class : Classes, attempts : 0..MaxAttempts]]
    <3>1. CASE Live(q)
      BY <1>8, <3>1 DEF Send
    <3>2. CASE ~Live(q)
      <4>1. Finish(q, CtxClass(q), attempt[q])
        BY <1>8, <3>2 DEF Send
      <4>2. attempt[q] \in 0..MaxAttempts
        BY <1>a
      <4> HIDE <1>0 DEF TypeOK
      <4> QED
        BY <1>0, <4>1, <4>2, FinishType, CtxClassType
    <3> QED
      BY <3>1, <3>2
  <2>3. sent' \in [Queries -> Nat]
    <3>1. sent' = sent \/ sent' = [sent EXCEPT ![q] = @ + 1]
      BY <1>8, Zenon DEF Send
    <3>2. sent \in [Queries -> Nat]
      OBVIOUS
    <3> HIDE <1>0, Numbers DEF TypeOK
    <3> QED
      BY <3>1, <3>2
  <2>4. UNCHANGED <<now, limiter, api, ctx, began, attempt, wake, slots, grants>>
    BY <1>8 DEF Send
  <2> QED
    BY <1>d, <2>1, <2>2, <2>3, <2>4
<1>9. ASSUME NEW q \in Queries, AnswerOk(q) \/ AnswerFatal(q) \/ AnswerNever(q) PROVE TypeOK'
  <2>1. pc' \in [Queries -> Places]
    BY <1>9, <1>c, GotoType DEF AnswerOk, AnswerFatal, AnswerNever
  <2>2. result' \in [Queries -> [class : Classes, attempts : 0..MaxAttempts]]
    BY <1>9, <1>a, <1>b, FinishType, CtxClassType DEF AnswerOk, AnswerFatal, AnswerNever
  <2> QED
    BY <1>9, <1>d, <2>1, <2>2 DEF AnswerOk, AnswerFatal, AnswerNever
<1>10. ASSUME NEW q \in Queries, AnswerRetryable(q) PROVE TypeOK'
  <2>1. pc' \in [Queries -> Places]
    BY <1>10, <1>c, GotoType DEF AnswerRetryable
  <2>2. result' \in [Queries -> [class : Classes, attempts : 0..MaxAttempts]]
    BY <1>10, <1>a, <1>b, FinishType DEF AnswerRetryable
  <2>3. wake' \in [Queries -> Nat]
    <3>1. Jittered(attempt[q]) \subseteq Nat
      <4>1. attempt[q] \in 1..MaxAttempts
        OBVIOUS
      <4> HIDE <1>0 DEF TypeOK
      <4> QED
        BY <4>1, Numbers
    <3>2. now \in Nat
      OBVIOUS
    <3>3. \A x \in Jittered(attempt[q]) : now + x \in Nat
      BY <3>1, <3>2
    <3>4. wake' = wake \/ \E x \in Jittered(attempt[q]) : wake' = [wake EXCEPT ![q] = now + x]
      BY <1>10, Zenon DEF AnswerRetryable
    <3>5. wake \in [Queries -> Nat]
      OBVIOUS
    <3> HIDE <1>0, Numbers DEF TypeOK
    <3> QED
      BY <3>3, <3>4, <3>5
  <2> QED
    BY <1>10, <1>d, <2>1, <2>2, <2>3 DEF AnswerRetryable
<1>11. ASSUME NEW q \in Queries, BackoffOver(q) PROVE TypeOK'
  <2>1. pc' \in [Queries -> Places]
    BY <1>11, <1>c, GotoType DEF BackoffOver
  <2>2. result' \in [Queries -> [class : Classes, attempts : 0..MaxAttempts]]
    <3>1. UNCHANGED result \/ Finish(q, CtxClass(q), attempt[q])
      BY <1>11 DEF BackoffOver
    <3>2. attempt[q] \in 0..MaxAttempts
      BY <1>a
    <3>3. ASSUME Finish(q, CtxClass(q), attempt[q])
          PROVE  result' \in [Queries -> [class : Classes, attempts : 0..MaxAttempts]]
      <4> HIDE <1>0 DEF TypeOK
      <4> QED
        BY <1>0, <3>2, <3>3, FinishType, CtxClassType
    <3> QED
      BY <3>1, <3>3
  <2>3. attempt' \in [Queries -> 1..MaxAttempts]
    <3>1. attempt' = attempt \/ attempt' = [attempt EXCEPT ![q] = @ + 1]
      BY <1>11, Zenon DEF BackoffOver
    <3>2. attempt[q] < MaxAttempts
      BY <1>11 DEF BackoffOver, Goto, CallInv, Backing
    <3>3. attempt \in [Queries -> 1..MaxAttempts] /\ MaxAttempts \in Nat
      OBVIOUS
    <3> HIDE <1>0, Numbers DEF TypeOK
    <3> QED
      BY <3>1, <3>2, <3>3
  <2>4. /\ wake' \in [Queries -> Nat]
        /\ UNCHANGED <<now, limiter, api, ctx, began, history>>
    BY <1>11 DEF BackoffOver
  <2> QED
    BY <1>d, <2>1, <2>2, <2>3, <2>4
<1> QED
  BY <1>1, <1>2, <1>3, <1>4, <1>5, <1>6, <1>7, <1>8, <1>9, <1>10, <1>11 DEF Next, Step

------------------------------------------------------------------------------
(* What a call pays, how long it backs off, when it sends. *)

\* What a step of q does to the places of the others.
LEMMA OthersStay ==
  ASSUME TypeOK, NEW q \in Queries, NEW p \in Queries, p # q, Step(q)
  PROVE  /\ pc'[p] = pc[p] /\ ctx'[p] = ctx[p] /\ began'[p] = began[p]
         /\ attempt'[p] = attempt[p] /\ wake'[p] = wake[p] /\ result'[p] = result[p]
         /\ slots'[p] = slots[p] /\ sent'[p] = sent[p] /\ now' = now
<1>0. /\ DOMAIN pc = Queries /\ DOMAIN ctx = Queries /\ DOMAIN began = Queries
      /\ DOMAIN attempt = Queries /\ DOMAIN wake = Queries /\ DOMAIN result = Queries
      /\ DOMAIN slots = Queries /\ DOMAIN sent = Queries
  BY DEF TypeOK
<1> USE <1>0 DEF Goto, Finish, limiter, history
<1>1. CASE CheckContext(q)
  BY <1>1 DEF CheckContext
<1>2. CASE Reserve(q)
  BY <1>2 DEF Reserve, Take
<1>3. CASE Awake(q)
  BY <1>3 DEF Awake
<1>4. CASE Send(q)
  BY <1>4 DEF Send
<1>5. CASE AnswerOk(q) \/ AnswerFatal(q) \/ AnswerNever(q)
  BY <1>5 DEF AnswerOk, AnswerFatal, AnswerNever
<1>6. CASE AnswerRetryable(q)
  <2>1. wake' = wake \/ \E x \in Jittered(attempt[q]) : wake' = [wake EXCEPT ![q] = now + x]
    BY <1>6, Zenon DEF AnswerRetryable
  <2>2. wake'[p] = wake[p]
    BY <2>1
  <2>3. pc'[p] = pc[p] /\ result'[p] = result[p]
    BY <1>6 DEF AnswerRetryable
  <2>4. UNCHANGED <<now, limiter, api, ctx, began, attempt, history>>
    BY <1>6 DEF AnswerRetryable
  <2> QED
    BY <2>2, <2>3, <2>4
<1>7. CASE BackoffOver(q)
  BY <1>7 DEF BackoffOver
<1> QED
  BY <1>1, <1>2, <1>3, <1>4, <1>5, <1>6, <1>7 DEF Step

LEMMA StepPays ==
  ASSUME ClientInv, NEW q \in Queries, Step(q)
  PROVE  Paid(q)' /\ Backing(q)' /\ InTime(q)'
<1>0. /\ TypeOK /\ Paid(q) /\ Backing(q) /\ InTime(q)
      /\ attempt[q] \in 1..MaxAttempts /\ slots[q] \in Nat /\ sent[q] \in Nat
  BY DEF ClientInv, CallInv, TypeOK
<1> USE DEF Goto, Finish, Running, Live, Deadline, CtxClass, limiter, history
<1>1. CASE CheckContext(q)
  BY <1>0, <1>1 DEF TypeOK, CheckContext, Paid, Backing, InTime
<1>2. CASE Reserve(q)
  BY <1>0, <1>2 DEF TypeOK, Reserve, Take, Paid, Backing, InTime
<1>3. CASE Awake(q)
  BY <1>0, <1>3 DEF TypeOK, Awake, Paid, Backing, InTime
<1>4. CASE Send(q)
  BY <1>0, <1>4 DEF TypeOK, Send, Paid, Backing, InTime
<1>5. CASE AnswerOk(q) \/ AnswerFatal(q) \/ AnswerNever(q)
  BY <1>0, <1>5 DEF TypeOK, AnswerOk, AnswerFatal, AnswerNever, Paid, Backing, InTime
<1>6. CASE AnswerRetryable(q)
  <2>1. /\ UNCHANGED <<now, ctx, began, attempt, slots, sent>> /\ pc[q] = "flight"
        /\ q \in DOMAIN pc /\ q \in DOMAIN result /\ q \in DOMAIN wake
    BY <1>0, <1>6 DEF TypeOK, AnswerRetryable
  <2>2. CASE attempt[q] = MaxAttempts
    <3>1. pc' = [pc EXCEPT ![q] = "done"]
          /\ result' = [result EXCEPT ![q] = [class |-> "UPSTREAM", attempts |-> attempt[q]]]
      BY <1>6, <2>2 DEF AnswerRetryable
    <3> QED
      BY <1>0, <2>1, <3>1 DEF Paid, Backing, InTime
  <2>3. CASE attempt[q] # MaxAttempts
    <3>1. pc' = [pc EXCEPT ![q] = "backoff"]
      BY <1>6, <2>3 DEF AnswerRetryable
    <3>2. PICK x \in Jittered(attempt[q]) : wake' = [wake EXCEPT ![q] = now + x]
      BY <1>6, <2>3 DEF AnswerRetryable
    <3>3. now \in Nat /\ x \in 0..Backoff[attempt[q]] /\ Backoff[attempt[q]] \in Nat
      BY <1>0, <3>2, Numbers DEF TypeOK
    <3>4. wake'[q] <= now + Backoff[attempt[q]]
      BY <2>1, <3>2, <3>3
    <3>5. attempt[q] < MaxAttempts
      BY <1>0, <2>3, Numbers
    <3> QED
      BY <1>0, <2>1, <3>1, <3>4, <3>5 DEF Paid, Backing, InTime
  <2> QED
    BY <2>2, <2>3
<1>7. CASE BackoffOver(q)
  BY <1>0, <1>7 DEF TypeOK, BackoffOver, Paid, Backing, InTime
<1> QED
  BY <1>1, <1>2, <1>3, <1>4, <1>5, <1>6, <1>7 DEF Step

LEMMA CallInv_Next == ClientInv /\ [Next]_vars => CallInv'
<1> SUFFICES ASSUME ClientInv, [Next]_vars, NEW p \in Queries
             PROVE  Paid(p)' /\ Backing(p)' /\ InTime(p)'
  BY DEF CallInv
<1>0. TypeOK /\ Paid(p) /\ Backing(p) /\ InTime(p)
  BY DEF ClientInv, CallInv
<1> USE DEF Running, Live, Deadline, limiter, history
<1>1. CASE Tick
  <2>1. Paid(p)'
    BY <1>0, <1>1 DEF Tick, Paid
  <2>2. Backing(p)'
    <3>1. now \in Nat /\ now' = now + 1 /\ UNCHANGED <<pc, attempt, wake>>
      BY <1>0, <1>1, Numbers DEF TypeOK, Tick
    <3>2. attempt[p] \in 1..MaxAttempts /\ wake[p] \in Nat
      BY <1>0 DEF TypeOK
    <3>3. Backoff[attempt[p]] \in Nat
      BY <3>2, Numbers
    <3> QED
      BY <1>0, <3>1, <3>2, <3>3 DEF Backing
  <2>3. InTime(p)'
    <3>1. /\ UNCHANGED <<pc, began>> /\ p \in DOMAIN ctx'
          /\ ctx'[p] = IF Running(p) /\ Live(p) /\ Deadline(p) <= now' THEN "deadline"
                       ELSE ctx[p]
      BY <1>1 DEF Tick
    <3>2. now' \in Int /\ Deadline(p) \in Int
      BY <1>0, <1>1, Numbers DEF TypeOK, Tick
    <3> QED
      BY <3>1, <3>2 DEF InTime
  <2> QED
    BY <2>1, <2>2, <2>3
<1>2. CASE Rest \/ UNCHANGED vars
  BY <1>0, <1>2 DEF Rest, vars, Paid, Backing, InTime
<1>3. ASSUME NEW q \in Queries, NEW a \in Apis, Start(q, a)
      PROVE  Paid(p)' /\ Backing(p)' /\ InTime(p)'
  BY <1>0, <1>3, Numbers DEF TypeOK, Start, Paid, Backing, InTime
<1>4. ASSUME NEW q \in Queries, Cancel(q)
      PROVE  Paid(p)' /\ Backing(p)' /\ InTime(p)'
  BY <1>0, <1>4 DEF TypeOK, Cancel, Paid, Backing, InTime
<1>5. ASSUME NEW q \in Queries, Step(q)
      PROVE  Paid(p)' /\ Backing(p)' /\ InTime(p)'
  <2>1. CASE p = q
    BY <1>5, <2>1, StepPays
  <2>2. CASE p # q
    BY <1>0, <1>5, <2>2, OthersStay DEF Paid, Backing, InTime
  <2> QED
    BY <2>1, <2>2
<1> QED
  BY <1>1, <1>2, <1>3, <1>4, <1>5 DEF Next

------------------------------------------------------------------------------
(* The rate limiter. *)

LEMMA SlotsAreCounted ==
  ASSUME NEW s, NEW a, NEW i \in Int, NEW j \in Int
  PROVE  SlotsOf(s, a, i, j) \in Nat /\ IsFiniteSet(SlotSet(s, a, i, j))
<1>1. IsFiniteSet(i..j)
  BY FS_Interval
<1>2. SlotSet(s, a, i, j) \in SUBSET (i..j)
  BY DEF SlotSet
<1> QED
  BY <1>1, <1>2, FS_Subset, FS_CardinalityType DEF SlotsOf

\* The slots before the one just granted, and with it.
LEMMA SlotsAppended ==
  ASSUME NEW s \in Seq(Grant), NEW g \in Grant, NEW a, NEW i \in 1..(Len(s) + 1)
  PROVE  /\ \A j \in 0..Len(s) : SlotsOf(Append(s, g), a, i, j) = SlotsOf(s, a, i, j)
         /\ SlotsOf(Append(s, g), a, i, Len(s) + 1) =
              SlotsOf(s, a, i, Len(s)) + (IF g.api = a THEN 1 ELSE 0)
<1> DEFINE t == Append(s, g)
           n == Len(s)
<1>1. n \in Nat /\ t[n + 1] = g /\ \A k \in 1..n : t[k] = s[k]
  OBVIOUS
<1>2. ASSUME NEW j \in 0..n PROVE SlotsOf(t, a, i, j) = SlotsOf(s, a, i, j)
  <2>1. SlotSet(t, a, i, j) = SlotSet(s, a, i, j)
    BY <1>1 DEF SlotSet
  <2> QED
    BY <2>1 DEF SlotsOf
<1>3. IsFiniteSet(SlotSet(s, a, i, n)) /\ SlotsOf(s, a, i, n) \in Nat
  BY <1>1, SlotsAreCounted
<1>4. CASE g.api = a
  <2>1. SlotSet(t, a, i, n + 1) = SlotSet(s, a, i, n) \union {n + 1}
    BY <1>1, <1>4 DEF SlotSet
  <2>2. n + 1 \notin SlotSet(s, a, i, n)
    BY <1>1 DEF SlotSet
  <2>3. SlotsOf(t, a, i, n + 1) = SlotsOf(s, a, i, n) + 1
    BY <1>3, <2>1, <2>2, FS_AddElement DEF SlotsOf
  <2> QED
    BY <1>2, <1>4, <2>3
<1>5. CASE g.api # a
  <2>1. SlotSet(t, a, i, n + 1) = SlotSet(s, a, i, n)
    BY <1>1, <1>5 DEF SlotSet
  <2>2. SlotsOf(t, a, i, n + 1) = SlotsOf(s, a, i, n)
    BY <2>1 DEF SlotsOf
  <2> QED
    BY <1>2, <1>3, <1>5, <2>2
<1> QED
  BY <1>4, <1>5

\* The part of Wait under the mutex when the slot is free now.
Granted(q) == NextSlot(api[q]) = now /\ Take(q) /\ now' = now

LEMMA LimiterCases ==
  ASSUME TypeOK, [Next]_vars
  PROVE  \/ \E q \in Queries : Granted(q)
         \/ UNCHANGED <<limiter, grants>> /\ now <= now'
<1>0. now \in Nat
  BY Numbers DEF TypeOK
<1> USE DEF limiter, history
<1>1. CASE Tick
  BY <1>0, <1>1 DEF Tick
<1>2. CASE Rest \/ UNCHANGED vars
  BY <1>0, <1>2 DEF Rest, vars
<1>3. ASSUME NEW q \in Queries, (\E a \in Apis : Start(q, a)) \/ Cancel(q)
      PROVE  UNCHANGED <<limiter, grants>> /\ now <= now'
  BY <1>0, <1>3 DEF Start, Cancel
<1>4. ASSUME NEW q \in Queries, Reserve(q)
      PROVE  Granted(q) \/ (UNCHANGED <<limiter, grants>> /\ now <= now')
  BY <1>0, <1>4 DEF Reserve, Granted
<1>5. ASSUME NEW q \in Queries, Step(q), ~Reserve(q)
      PROVE  UNCHANGED <<limiter, grants>> /\ now <= now'
  BY <1>0, <1>5
     DEF Step, CheckContext, Awake, Send, AnswerOk, AnswerFatal, AnswerRetryable,
         AnswerNever, BackoffOver
<1> QED
  BY <1>1, <1>2, <1>3, <1>4, <1>5 DEF Next

LEMMA Distributes == \A n, g \in Nat : n * g \in Nat /\ (n + 1) * g = n * g + g
OBVIOUS

LEMMA NoReservationAhead_Next == ClientInv /\ [Next]_vars => NoReservationAhead'
<1> SUFFICES ASSUME ClientInv, [Next]_vars PROVE NoReservationAhead'
  OBVIOUS
<1>0. TypeOK /\ NoReservationAhead /\ now \in Nat
  BY Numbers DEF ClientInv, TypeOK
<1>1. ASSUME NEW q \in Queries, Granted(q) PROVE NoReservationAhead'
  <2>1. nextGlobal' = now' + GlobalInterval
    BY <1>1 DEF Granted, Take
  <2>2. ASSUME NEW a \in Apis PROVE nextApi'[a] <= now' + ApiInterval(a)
    <3>1. CASE a = api[q]
      <4>1. nextApi'[a] = now' + ApiInterval(a)
        BY <1>0, <1>1, <3>1 DEF Granted, Take, TypeOK
      <4> QED
        BY <1>0, <1>1, <4>1, Numbers DEF Granted
    <3>2. CASE a # api[q]
      <4>1. nextApi'[a] = nextApi[a] /\ now' = now
        BY <1>0, <1>1, <3>2 DEF Granted, Take, TypeOK
      <4> QED
        BY <1>0, <4>1 DEF NoReservationAhead
    <3> QED
      BY <3>1, <3>2
  <2> QED
    BY <1>0, <1>1, <2>1, <2>2, Numbers DEF NoReservationAhead, Granted
<1>2. ASSUME UNCHANGED <<limiter, grants>>, now <= now' PROVE NoReservationAhead'
  <2>1. now' \in Nat
    BY Numbers, TypeOK_Next DEF TypeOK
  <2> QED
    <3>1. nextGlobal' <= now' + GlobalInterval
      <4>1. /\ nextGlobal' = nextGlobal /\ nextGlobal \in Nat
            /\ nextGlobal <= now + GlobalInterval /\ GlobalInterval \in Nat
        <5>1. nextGlobal' = nextGlobal
          BY <1>2 DEF limiter
        <5>2. nextGlobal \in Nat /\ nextGlobal <= now + GlobalInterval
          BY <1>0 DEF NoReservationAhead, TypeOK
        <5> QED
          BY <5>1, <5>2, Numbers
      <4>2. now <= now' /\ now \in Nat
        BY <1>0, <1>2
      <4>3. nextGlobal <= now' + GlobalInterval
        <5>1. \A x, g, t, u \in Nat : x <= t + g /\ t <= u => x <= u + g
          OBVIOUS
        <5> QED
          BY <2>1, <4>1, <4>2, <5>1
      <4> QED
        BY <4>1, <4>3
    <3>2. ASSUME NEW a \in Apis PROVE nextApi'[a] <= now' + ApiInterval(a)
      <4>1. nextApi'[a] = nextApi[a] /\ nextApi[a] <= now + ApiInterval(a) /\ nextApi[a] \in Nat
        BY <1>0, <1>2 DEF NoReservationAhead, limiter, TypeOK
      <4>2. ApiInterval(a) \in Nat
        BY Numbers
      <4> QED
        BY <1>0, <1>2, <2>1, <4>1, <4>2
    <3> QED
      BY <3>1, <3>2 DEF NoReservationAhead
<1> QED
  BY <1>0, <1>1, <1>2, LimiterCases

\* A slot is only granted when the next one is due, for the call and for its API.
LEMMA GrantIsDue ==
  ASSUME ClientInv, NEW q \in Queries, Granted(q)
  PROVE  /\ api[q] \in Apis /\ now \in Nat /\ nextGlobal \in Nat
         /\ \A a \in Apis : nextApi[a] \in Nat
         /\ nextGlobal <= now /\ nextApi[api[q]] <= now
         /\ now' = now /\ nextGlobal' = now + GlobalInterval
         /\ \A a \in Apis :
              nextApi'[a] = IF a = api[q] THEN now + ApiInterval(a) ELSE nextApi[a]
         /\ [at |-> now, api |-> api[q]] \in Grant
         /\ grants \in Seq(Grant)
         /\ grants' = Append(grants, [at |-> now, api |-> api[q]])
<1>1. TypeOK
  BY DEF ClientInv
<1>2. api[q] \in Apis /\ now \in 0..Horizon /\ now \in Nat /\ nextGlobal \in Nat
      /\ nextApi \in [Apis -> Nat]
  BY <1>1, Numbers DEF TypeOK
<1>3. nextGlobal <= now /\ nextApi[api[q]] <= now
  BY <1>1, <1>2, NextSlotIs DEF Granted
<1>4. grants \in Seq(Grant) /\ [at |-> now, api |-> api[q]] \in Grant
  BY <1>1, <1>2 DEF TypeOK, Grant
<1> QED
  BY <1>2, <1>3, <1>4 DEF Granted, Take

LEMMA LimiterInv_Next == ClientInv /\ [Next]_vars => LimiterInv'
<1> SUFFICES ASSUME ClientInv, [Next]_vars PROVE LimiterInv'
  OBVIOUS
<1>0. TypeOK /\ LimiterInv /\ now \in Nat /\ grants \in Seq(Grant)
  BY Numbers DEF ClientInv, TypeOK, Grant
<1>1. ASSUME NEW q \in Queries, Granted(q) PROVE LimiterInv'
  <2> DEFINE n == Len(grants)
             g == [at |-> now, api |-> api[q]]
  <2>1. PICK m \in Nat, s \in Seq(Grant) : m = n /\ s = grants /\ m = Len(s)
    BY <1>0
  <2>2. grants' = Append(s, g) /\ g \in Grant /\ Len(grants') = m + 1 /\ g.api = api[q]
    BY <1>1, <2>1, GrantIsDue
  <2>3. SUFFICES ASSUME NEW i \in 1..(m + 1) PROVE Spaced(i)'
    BY <2>2 DEF LimiterInv
  <2>4. CASE i = m + 1
    <3>1. grants'[i] = g
      BY <2>1, <2>2, <2>4
    <3>2. SlotsOf(grants', api[q], i, Len(grants')) = 1
      <4>1. SlotsOf(grants', api[q], i, m + 1) = SlotsOf(s, api[q], i, m) + 1
        BY <2>1, <2>2, SlotsAppended
      <4>2. SlotSet(s, api[q], i, m) = {}
        BY <2>1, <2>4 DEF SlotSet
      <4>3. SlotsOf(s, api[q], i, m) = 0
        BY <4>2, FS_EmptySet DEF SlotsOf
      <4> QED
        BY <2>2, <4>1, <4>3
    <3>3. nextGlobal' - now = 1 * GlobalInterval
          /\ nextApi'[api[q]] - now = 1 * ApiInterval(api[q])
      <4>1. /\ nextGlobal' = now + GlobalInterval
            /\ nextApi'[api[q]] = now + ApiInterval(api[q])
        BY <1>1, GrantIsDue
      <4>2. GlobalInterval \in Nat /\ ApiInterval(api[q]) \in Nat
        BY <1>1, GrantIsDue, Numbers
      <4> QED
        BY <1>0, <4>1, <4>2
    <3> QED
      BY <1>0, <1>1, <2>1, <2>2, <2>4, <3>1, <3>2, <3>3, GrantIsDue, Numbers DEF Spaced
  <2>5. CASE i # m + 1
    <3> DEFINE a == s[i].api
               c == SlotsOf(s, a, i, m)
    <3>1. i \in 1..m /\ grants'[i] = s[i] /\ s[i] \in Grant
      BY <2>1, <2>2, <2>5
    <3>2. a \in Apis /\ s[i].at \in Nat
      BY <3>1, Numbers DEF Grant
    <3>3. /\ s[i].at <= now
          /\ nextGlobal - s[i].at >= (m + 1 - i) * GlobalInterval
          /\ nextApi[a] - s[i].at >= c * ApiInterval(a)
      BY <1>0, <2>1, <3>1 DEF LimiterInv, Spaced
    <3>4. nextGlobal' - s[i].at >= ((m + 1) + 1 - i) * GlobalInterval
      <4>1. ((m + 1 - i) + 1) * GlobalInterval = (m + 1 - i) * GlobalInterval + GlobalInterval
            /\ (m + 1 - i) * GlobalInterval \in Nat
        <5>1. m + 1 - i \in Nat
          BY <3>1
        <5> QED
          BY <5>1, Distributes, Numbers
      <4>2. PICK x \in Nat : x = (m + 1 - i) * GlobalInterval
        BY <4>1
      <4>3. ((m + 1) + 1 - i) * GlobalInterval = x + GlobalInterval
        <5>1. (m + 1 - i) + 1 = (m + 1) + 1 - i
          BY <3>1
        <5> QED
          BY <4>1, <4>2, <5>1
      <4>4. nextGlobal' - s[i].at >= x + GlobalInterval
        <5>1. nextGlobal' = now + GlobalInterval /\ nextGlobal <= now /\ nextGlobal \in Nat
          BY <1>1, GrantIsDue
        <5>2. nextGlobal - s[i].at >= x /\ s[i].at \in Nat /\ GlobalInterval \in Nat
          BY <3>2, <3>3, <4>2, Numbers
        <5> QED
          BY <1>0, <5>1, <5>2
      <4> QED
        BY <4>3, <4>4
    <3>5. nextApi'[a] - s[i].at >= SlotsOf(grants', a, i, m + 1) * ApiInterval(a)
      <4>1. SlotsOf(grants', a, i, m + 1) = c + (IF api[q] = a THEN 1 ELSE 0)
        BY <2>1, <2>2, SlotsAppended
      <4>2. c \in Nat
        BY <2>1, SlotsAreCounted
      <4>3. PICK x \in Nat : x = c * ApiInterval(a) /\ (c + 1) * ApiInterval(a) = x + ApiInterval(a)
        BY <3>2, <4>2, Distributes, Numbers
      <4>4. CASE api[q] = a
        <5>1. nextApi'[a] - s[i].at >= x + ApiInterval(a)
          <6>1. nextApi'[a] = now + ApiInterval(a) /\ nextApi[a] <= now /\ nextApi[a] \in Nat
            BY <1>1, <3>2, <4>4, GrantIsDue
          <6>2. /\ nextApi[a] - s[i].at >= x /\ s[i].at \in Int /\ now \in Int
                /\ ApiInterval(a) \in Int
            BY <1>0, <3>2, <3>3, <4>3, Numbers
          <6> HIDE DEF a, c
          <6> QED
            BY <6>1, <6>2
        <5> QED
          BY <4>1, <4>3, <4>4, <5>1
      <4>5. CASE api[q] # a
        <5>1. nextApi'[a] = nextApi[a]
          BY <1>1, <3>2, <4>5, GrantIsDue
        <5>2. SlotsOf(grants', a, i, m + 1) = c
          BY <4>1, <4>2, <4>5
        <5> QED
          BY <3>3, <5>1, <5>2
      <4> QED
        BY <4>4, <4>5
    <3>6. now' = now
      BY <1>1 DEF Granted
    <3> QED
      BY <2>2, <3>1, <3>3, <3>4, <3>5, <3>6 DEF Spaced
  <2> QED
    BY <2>4, <2>5
<1>2. ASSUME UNCHANGED <<limiter, grants>>, now <= now' PROVE LimiterInv'
  <2> SUFFICES ASSUME NEW i \in 1..Len(grants) PROVE Spaced(i)'
    BY <1>2 DEF LimiterInv
  <2>1. Spaced(i)
    BY <1>0 DEF LimiterInv
  <2>2. now' \in Nat /\ grants[i] \in Grant /\ grants[i].at \in Nat
    <3>1. TypeOK'
      BY TypeOK_Next
    <3> QED
      <4>1. now' \in Nat
        BY <3>1, Numbers DEF TypeOK
      <4>2. grants[i] \in Grant
        BY <1>0
      <4> QED
        BY <4>1, <4>2, Numbers DEF Grant
  <2>3. grants[i].at <= now'
    BY <1>0, <1>2, <2>1, <2>2 DEF Spaced
  <2> QED
    BY <1>2, <2>1, <2>3 DEF Spaced, limiter
<1> QED
  BY <1>0, <1>1, <1>2, LimiterCases

LEMMA SlotsApart_Next == ClientInv /\ [Next]_vars => SlotsApart'
<1> SUFFICES ASSUME ClientInv, [Next]_vars PROVE SlotsApart'
  OBVIOUS
<1>0. TypeOK /\ LimiterInv /\ SlotsApart /\ now \in Nat /\ grants \in Seq(Grant)
  BY Numbers DEF ClientInv, TypeOK, Grant
<1>1. ASSUME NEW q \in Queries, Granted(q) PROVE SlotsApart'
  <2>1. PICK m \in Nat, s \in Seq(Grant), g \in Grant :
          /\ m = Len(grants) /\ s = grants /\ m = Len(s)
          /\ g = [at |-> now, api |-> api[q]]
    <3>1. grants \in Seq(Grant) /\ [at |-> now, api |-> api[q]] \in Grant
      BY <1>1, GrantIsDue
    <3>2. Len(grants) \in Nat
      BY <3>1
    <3> QED
      BY <3>1, <3>2
  <2>2. grants' = Append(s, g) /\ DOMAIN grants' = 1..(m + 1) /\ g.api = api[q] /\ g.at = now
    BY <1>1, <2>1, GrantIsDue
  <2>3. grants'[m + 1] = g /\ \A k \in 1..m : grants'[k] = s[k]
    BY <2>1, <2>2
  <2> SUFFICES ASSUME NEW j \in 1..(m + 1), NEW i \in 1..(j - 1)
               PROVE  /\ grants'[j].at - grants'[i].at >= (j - i) * GlobalInterval
                      /\ grants'[i].api = grants'[j].api =>
                           grants'[j].at - grants'[i].at >=
                             SlotsOf(grants', grants'[j].api, i, j - 1)
                               * ApiInterval(grants'[j].api)
    BY <2>2 DEF SlotsApart, SlotsOf, SlotSet
  <2>4. i \in 1..(m + 1) /\ i \in 1..m /\ j - 1 \in 0..m /\ grants'[i] = s[i]
    BY <2>3
  <2>5. \A a : SlotsOf(grants', a, i, j - 1) = SlotsOf(s, a, i, j - 1)
    BY <2>1, <2>2, <2>4, SlotsAppended
  <2>6. CASE j = m + 1
    <3>1. Spaced(i)
      BY <1>0, <2>1, <2>4 DEF LimiterInv
    <3>2. grants'[j] = g /\ j - 1 = m /\ (j - i) = Len(grants) + 1 - i
      BY <2>1, <2>3, <2>6
    <3>3. s[i].at \in Nat /\ s[i].api \in Apis
      <4>1. s[i] \in Grant
        BY <2>1, <2>4
      <4> QED
        BY <4>1, Numbers DEF Grant
    <3>4. now - s[i].at >= (j - i) * GlobalInterval
      <4>1. nextGlobal <= now /\ nextGlobal \in Nat
        BY <1>1, GrantIsDue
      <4>2. PICK x \in Nat : x = (j - i) * GlobalInterval
        <5>1. j - i \in Nat
          OBVIOUS
        <5> QED
          BY <5>1, Distributes, Numbers
      <4>3. nextGlobal - s[i].at >= x
        BY <2>1, <3>1, <3>2, <4>2 DEF Spaced
      <4>4. now - s[i].at >= x
        BY <1>0, <3>3, <4>1, <4>3
      <4> QED
        BY <4>2, <4>4
    <3>5. ASSUME s[i].api = g.api
          PROVE  now - s[i].at >= SlotsOf(s, g.api, i, m) * ApiInterval(g.api)
      <4>1. nextApi[g.api] <= now /\ nextApi[g.api] \in Nat
        BY <1>1, <2>2, GrantIsDue
      <4>2. PICK x \in Nat : x = SlotsOf(s, g.api, i, m) * ApiInterval(g.api)
        <5>1. SlotsOf(s, g.api, i, m) \in Nat
          BY <2>1, SlotsAreCounted
        <5> QED
          BY <3>3, <3>5, <5>1, Distributes, Numbers
      <4>3. nextApi[g.api] - s[i].at >= x
        BY <2>1, <3>1, <3>5, <4>2 DEF Spaced
      <4>4. now - s[i].at >= x
        BY <1>0, <3>3, <4>1, <4>3
      <4> QED
        BY <4>2, <4>4
    <3> QED
      BY <2>2, <2>4, <2>5, <3>2, <3>4, <3>5
  <2>7. CASE j # m + 1
    <3>1. j \in DOMAIN grants /\ grants'[j] = s[j]
      BY <2>1, <2>3, <2>7
    <3>2. /\ s[j].at - s[i].at >= (j - i) * GlobalInterval
          /\ s[i].api = s[j].api =>
               s[j].at - s[i].at >= SlotsOf(s, s[j].api, i, j - 1) * ApiInterval(s[j].api)
      BY <1>0, <2>1, <3>1 DEF SlotsApart, SlotsOf, SlotSet
    <3> QED
      BY <2>4, <2>5, <3>1, <3>2
  <2> QED
    BY <2>6, <2>7
<1>2. ASSUME UNCHANGED grants PROVE SlotsApart'
  BY <1>0, <1>2 DEF SlotsApart
<1> QED
  BY <1>0, <1>1, <1>2, LimiterCases

------------------------------------------------------------------------------
(* The slots of a minute. *)

\* What the interval of a rate is worth: the remainder that newRateLimiter drops
\* is less than the rate, and a fine rate has an interval that makes up for it.
LEMMA IntervalFacts ==
  ASSUME NEW n \in 1..Minute
  PROVE  /\ Interval(n) \in Nat /\ n * Interval(n) \in Nat
         /\ Minute = n * Interval(n) + (Minute % n) /\ Minute % n \in 0..(n - 1)
         /\ Fine(n) => Interval(n) >= n - 1
<1> DEFINE g == Minute \div n
           r == Minute % n
<1>1. Minute \in Nat /\ n \in Nat \ {0}
  BY RatesAssumption
<1>2. g \in Nat /\ r \in 0..(n - 1) /\ Minute = n * g + r
  BY <1>1
<1>3. n * g \in Nat
  BY <1>1, <1>2
<1>4. ASSUME n * (n - 1) <= Minute, g < n - 1 PROVE FALSE
  <2> HIDE DEF g, r
  <2>1. PICK k \in Nat : n - 1 = g + 1 + k
    <3>1. n - 1 = g + 1 + (n - 2 - g) /\ n - 2 - g \in Nat
      BY <1>1, <1>2, <1>4
    <3> QED
      BY <3>1
  <2>2. n * (n - 1) = n * g + n + n * k
    <3>1. \A a, b, c \in Nat : a * (b + 1 + c) = a * b + a + a * c
      OBVIOUS
    <3> QED
      BY <1>1, <1>2, <2>1, <3>1
  <2>3. n * k \in Nat
    BY <1>1, <2>1
  <2> QED
    BY <1>1, <1>2, <1>3, <1>4, <2>2, <2>3
<1>5. Fine(n) => g >= n - 1
  <2> SUFFICES ASSUME n * (n - 1) <= Minute PROVE g >= n - 1
    BY DEF Fine
  <2> HIDE DEF g
  <2> QED
    BY <1>1, <1>2, <1>4
<1>6. g = Interval(n) /\ n * g = n * Interval(n)
  BY DEF Interval
<1> HIDE DEF g, r
<1>7. Interval(n) \in Nat /\ (Fine(n) => Interval(n) >= n - 1)
  BY <1>2, <1>5, <1>6
<1>8. n * Interval(n) \in Nat /\ Minute = n * Interval(n) + r /\ r \in 0..(n - 1)
  BY <1>2, <1>3, <1>6
<1> QED
  BY <1>7, <1>8 DEF r

\* So many slots with their intervals between them fit into less than a minute.
LEMMA QuotaHolds ==
  ASSUME NEW n \in 1..Minute, Fine(n), NEW k \in Nat, k * Interval(n) < Minute
  PROVE  k + 1 <= Quota(n)
<1> DEFINE g == Interval(n)
<1>1. /\ Minute \in Nat /\ n \in Nat /\ g \in Nat /\ n * g \in Nat
      /\ Minute = n * g + (Minute % n) /\ Minute % n \in 0..(n - 1) /\ g >= n - 1
  BY IntervalFacts, RatesAssumption
<1>2. k * g \in Nat /\ k * g < Minute
  BY <1>1
<1> HIDE DEF g
<1>3. \A m \in Nat : k >= m => k * g >= m * g
  <2> SUFFICES ASSUME NEW m \in Nat, k >= m PROVE k * g >= m * g
    OBVIOUS
  <2>1. PICK d \in Nat : k = m + d
    <3>1. k - m \in Nat /\ k = m + (k - m)
      OBVIOUS
    <3> QED
      BY <3>1
  <2>2. \A a, b, c \in Nat : (a + b) * c = a * c + b * c /\ a * c \in Nat /\ b * c \in Nat
    OBVIOUS
  <2> QED
    BY <1>1, <2>1, <2>2
<1>4. CASE Minute % n = 0
  <2>1. ~(k >= n)
    BY <1>1, <1>2, <1>3, <1>4
  <2> QED
    BY <1>1, <1>4, <2>1 DEF Quota
<1>5. CASE Minute % n # 0
  <2>1. (n + 1) * g = n * g + g
    BY <1>1, Distributes
  <2>2. ~(k >= n + 1)
    BY <1>1, <1>2, <1>3, <2>1
  <2> QED
    BY <1>1, <1>5, <2>2 DEF Quota
<1> QED
  BY <1>4, <1>5

LEMMA GrantTimes ==
  ASSUME TypeOK
  PROVE  \A k \in DOMAIN grants : grants[k].at \in Nat
<1>1. PICK s \in Seq(Grant) : s = grants
  BY DEF TypeOK, Grant
<1>2. \A k \in DOMAIN s : s[k] \in Grant
  OBVIOUS
<1>3. \A g \in Grant : g.at \in Nat
  BY Numbers DEF Grant
<1> QED
  BY <1>1, <1>2, <1>3

\* Some slots of a minute lie between the first and the last of them, which are
\* less than a minute apart.
LEMMA EndsOf ==
  ASSUME TypeOK, NEW i \in DOMAIN grants, NEW S \in SUBSET MinuteFrom(i), S # {}
  PROVE  \E x, y \in S :
           /\ x <= y /\ S \subseteq x..y
           /\ x \in DOMAIN grants /\ y \in DOMAIN grants
           /\ grants[y].at - grants[x].at < Minute
<1> DEFINE m == Len(grants)
<1>1. m \in Nat /\ DOMAIN grants = 1..m
  BY DEF TypeOK
<1>2. S \in SUBSET (0..m) /\ S \in SUBSET Nat
  BY <1>1 DEF MinuteFrom
<1> HIDE DEF m
<1>3. PICK x \in S : \A k \in S : x <= k
  BY <1>2, LeastExists
<1>4. PICK y \in S : \A k \in S : k <= y
  BY <1>1, <1>2, GreatestExists
<1>5. \A k \in DOMAIN grants : grants[k].at \in Nat
  BY GrantTimes
<1>6. x \in DOMAIN grants /\ y \in DOMAIN grants
      /\ grants[x].at >= grants[i].at /\ grants[y].at <= grants[i].at + Minute - 1
  BY <1>5, RatesAssumption DEF MinuteFrom
<1>7. grants[y].at - grants[x].at < Minute
  BY <1>5, <1>6, RatesAssumption
<1>8. x <= y /\ S \subseteq x..y
  BY <1>2, <1>3, <1>4
<1> QED
  BY <1>6, <1>7, <1>8

\* Every spacing of slots bounds their number.
LEMMA SpacingCounts ==
  ASSUME NEW n \in 1..Minute, Fine(n), NEW S, IsFiniteSet(S), NEW B, IsFiniteSet(B),
         NEW y, S \subseteq B \union {y},
         NEW apart \in Int, apart < Minute, apart >= Cardinality(B) * Interval(n)
  PROVE  Cardinality(S) <= Quota(n)
<1>1. Cardinality(B) \in Nat /\ Cardinality(S) \in Nat
  BY FS_CardinalityType
<1>2. /\ IsFiniteSet(B \union {y})
      /\ Cardinality(B \union {y}) \in Nat /\ Cardinality(B \union {y}) <= Cardinality(B) + 1
  BY <1>1, FS_AddElement
<1>3. Cardinality(S) <= Cardinality(B \union {y})
  BY <1>2, FS_Subset
<1>4. PICK k \in Nat : k = Cardinality(B)
  BY <1>1
<1>5. k * Interval(n) \in Nat /\ Minute \in Nat
  BY <1>4, IntervalFacts, Distributes, RatesAssumption
<1>6. k + 1 <= Quota(n)
  BY <1>4, <1>5, QuotaHolds
<1>7. Quota(n) \in Nat
  BY DEF Quota
<1> QED
  BY <1>1, <1>2, <1>3, <1>4, <1>6, <1>7

LEMMA MinuteFollows ==
  ASSUME TypeOK, SlotsApart
  PROVE  MinuteHeld
<1> SUFFICES ASSUME NEW i \in DOMAIN grants
             PROVE  /\ Fine(GlobalPerMinute) =>
                         Cardinality(MinuteFrom(i)) <= Quota(GlobalPerMinute)
                    /\ \A a \in Apis : Fine(ApiPerMinute[a]) =>
                         Cardinality({k \in MinuteFrom(i) : grants[k].api = a})
                           <= Quota(ApiPerMinute[a])
  BY DEF MinuteHeld
<1>1. DOMAIN grants = 1..Len(grants) /\ Len(grants) \in Nat
  BY DEF TypeOK
<1>2. \A k \in DOMAIN grants : grants[k].at \in Nat
  BY GrantTimes
<1>3. /\ GlobalPerMinute \in 1..Minute /\ \A a \in Apis : ApiPerMinute[a] \in 1..Minute
      /\ \A n \in 1..Minute : Quota(n) \in Nat
  BY RatesAssumption DEF Quota
<1>4. IsFiniteSet(MinuteFrom(i))
  <2>1. IsFiniteSet(1..Len(grants)) /\ MinuteFrom(i) \in SUBSET (1..Len(grants))
    BY <1>1, FS_Interval DEF MinuteFrom
  <2> QED
    BY <2>1, FS_Subset
<1>5. ASSUME Fine(GlobalPerMinute)
      PROVE  Cardinality(MinuteFrom(i)) <= Quota(GlobalPerMinute)
  <2>1. i \in MinuteFrom(i)
    BY <1>2, RatesAssumption DEF MinuteFrom
  <2>2. PICK x \in MinuteFrom(i), y \in MinuteFrom(i) :
          /\ x <= y /\ MinuteFrom(i) \subseteq x..y
          /\ x \in DOMAIN grants /\ y \in DOMAIN grants
          /\ grants[y].at - grants[x].at < Minute
    BY <2>1, EndsOf
  <2>3. x \in Int /\ y \in Int /\ y - 1 \in Int
    BY <1>1, <2>2
  <2>4. IsFiniteSet(x..(y - 1)) /\ Cardinality(x..(y - 1)) = y - x
    BY <2>2, <2>3, FS_Interval
  <2>5. MinuteFrom(i) \subseteq (x..(y - 1)) \union {y}
    BY <2>2, <2>3
  <2>6. grants[y].at - grants[x].at >= (y - x) * GlobalInterval
    <3>1. CASE x = y
      <4>1. (y - x) * GlobalInterval = 0
        BY <2>3, <3>1, Numbers
      <4> QED
        BY <1>2, <2>2, <3>1, <4>1
    <3>2. CASE x # y
      <4>1. x \in 1..(y - 1)
        BY <1>1, <2>2, <3>2
      <4> QED
        BY <2>2, <4>1 DEF SlotsApart
    <3> QED
      BY <3>1, <3>2
  <2>7. grants[y].at - grants[x].at \in Int
    BY <1>2, <2>2
  <2> QED
    BY <1>3, <1>4, <1>5, <2>2, <2>4, <2>5, <2>6, <2>7, SpacingCounts DEF GlobalInterval
<1>6. ASSUME NEW a \in Apis, Fine(ApiPerMinute[a])
      PROVE  Cardinality({k \in MinuteFrom(i) : grants[k].api = a}) <= Quota(ApiPerMinute[a])
  <2> DEFINE S == {k \in MinuteFrom(i) : grants[k].api = a}
  <2>1. S \in SUBSET MinuteFrom(i) /\ IsFiniteSet(S)
    BY <1>4, FS_Subset
  <2>2. CASE S = {}
    <3>1. Cardinality(S) = 0
      BY <2>2, FS_EmptySet
    <3> HIDE DEF S
    <3>2. Quota(ApiPerMinute[a]) \in Nat
      BY <1>3
    <3> QED
      BY <3>1, <3>2 DEF S
  <2>3. CASE S # {}
    <3>1. PICK x \in S, y \in S :
            /\ x <= y /\ S \subseteq x..y
            /\ x \in DOMAIN grants /\ y \in DOMAIN grants
            /\ grants[y].at - grants[x].at < Minute
      BY <2>1, <2>3, EndsOf
    <3> DEFINE B == SlotSet(grants, a, x, y - 1)
    <3>2. x \in Int /\ y \in Int /\ y - 1 \in Int /\ grants[x].api = a /\ grants[y].api = a
      BY <1>1, <3>1
    <3>3. IsFiniteSet(B)
      BY <3>2, SlotsAreCounted
    <3>4. S \subseteq B \union {y}
      BY <3>1, <3>2 DEF SlotSet
    <3>5. grants[y].at - grants[x].at >= Cardinality(B) * ApiInterval(a)
      <4>1. CASE x = y
        <5>1. B = {}
          BY <3>2, <4>1 DEF SlotSet
        <5>2. Cardinality(B) = 0
          BY <5>1, FS_EmptySet
        <5>3. Cardinality(B) * ApiInterval(a) = 0
          BY <5>2, Numbers
        <5> HIDE DEF B
        <5> QED
          BY <1>2, <3>1, <4>1, <5>3
      <4>2. CASE x # y
        <5>1. x \in 1..(y - 1)
          BY <1>1, <3>1, <4>2
        <5> QED
          BY <3>1, <3>2, <5>1 DEF SlotsApart, SlotSet
      <4> QED
        BY <4>1, <4>2
    <3>6. grants[y].at - grants[x].at \in Int
      BY <1>2, <3>1
    <3> HIDE DEF S, B
    <3>7. Cardinality(S) <= Quota(ApiPerMinute[a])
      BY <1>3, <1>6, <2>1, <3>1, <3>3, <3>4, <3>5, <3>6, SpacingCounts DEF ApiInterval
    <3> QED
      BY <3>7 DEF S
  <2> QED
    BY <2>2, <2>3
<1> QED
  BY <1>5, <1>6

------------------------------------------------------------------------------
(* Everything together. *)

LEMMA ClientInv_Init == Init => ClientInv
<1> SUFFICES ASSUME Init PROVE ClientInv
  OBVIOUS
<1>1. TypeOK
  <2>1. NoResult \in [class : Classes, attempts : 0..MaxAttempts]
    BY Numbers DEF NoResult, Classes
  <2>2. grants \in Seq([at : 0..Horizon, api : Apis])
    BY DEF Init
  <2> QED
    BY <2>1, <2>2, Numbers DEF Init, TypeOK
<1>2. CallInv
  BY <1>1, Numbers DEF Init, CallInv, Paid, Backing, InTime, Running
<1>3. LimiterInv /\ SlotsApart
  BY DEF Init, LimiterInv, SlotsApart
<1>4. NoReservationAhead
  BY Numbers DEF Init, NoReservationAhead
<1> QED
  BY <1>1, <1>2, <1>3, <1>4 DEF ClientInv

LEMMA ClientInv_Next == ClientInv /\ [Next]_vars => ClientInv'
BY TypeOK_Next, CallInv_Next, LimiterInv_Next, NoReservationAhead_Next, SlotsApart_Next
   DEF ClientInv

LEMMA ClientAlways == Spec => []ClientInv
BY ClientInv_Init, ClientInv_Next, PTL DEF Spec

\* Every variable keeps its type: no attempt past MaxAttempts, no delay below zero
\* or past what a time.Duration holds.
THEOREM TypeCorrect == Spec => []TypeOK
BY ClientAlways, PTL DEF ClientInv

\* However the callers interleave, sleep, are cancelled or time out, two slots n
\* grants apart are n intervals apart, over all calls and over those of one API
\* (rateLimiter.Wait grants a slot only when both are due, and moves both on), and
\* no minute has more slots than configured, globally or for one API, with one more
\* where newRateLimiter had to round: what it rounds off is less than an interval.
THEOREM RateIsHeld == Spec => []RateHeld
<1>1. ClientInv => RateHeld
  BY MinuteFollows DEF ClientInv, RateHeld
<1> QED
  BY <1>1, ClientAlways, PTL

\* The limiter is never ahead of the clock by more than one interval: Wait keeps
\* nothing for a caller that sleeps.
THEOREM NothingIsReserved == Spec => []NoReservationAhead
BY ClientAlways, PTL DEF ClientInv

\* Every attempt of queryWithRetry, the retries included, took a slot of its own,
\* and the attempts that Query reports are the slots it was granted.
THEOREM AttemptsArePaid == Spec => []AttemptsPaid
<1>1. ClientInv => AttemptsPaid
  BY DEF ClientInv, CallInv, Paid, AttemptsPaid
<1> QED
  BY <1>1, ClientAlways, PTL

\* RetryConfig.backoff is min(2^(n-1) * BaseBackoff, MaxBackoff) before retry n,
\* for every configuration, without overflow, and bounds the sleep.
THEOREM BackoffIsExact == Spec => []BackoffExact
<1>1. ASSUME ClientInv PROVE BackoffExact
  <2> SUFFICES ASSUME NEW q \in Queries, pc[q] = "backoff"
               PROVE  LET doubled == BaseBackoff * 2^(attempt[q] - 1)
                          bound == IF doubled < MaxBackoff THEN doubled ELSE MaxBackoff IN
                      /\ Backoff[attempt[q]] = bound
                      /\ wake[q] <= now + bound
    BY DEF BackoffExact
  <2>1. attempt[q] \in 1..MaxAttempts
    BY <1>1 DEF ClientInv, TypeOK
  <2>2. Backoff[attempt[q]] = Bound(attempt[q])
    BY <2>1, BackoffIs
  <2>3. wake[q] <= now + Backoff[attempt[q]]
    BY <1>1 DEF ClientInv, CallInv, Backing
  <2>4. wake[q] <= now + Bound(attempt[q])
    BY <2>2, <2>3
  <2> QED
    BY <2>2, <2>4, Zenon DEF Bound, TwoTo
<1> QED
  BY <1>1, ClientAlways, PTL

\* A request is sent only for a call that is neither cancelled nor at its deadline:
\* every loop of queryWithRetry looks at the context last.
THEOREM SendsAreInTime == Spec => SendsInTime
<1> DEFINE Timely == \A q \in Queries : sent'[q] = sent[q] + 1 =>
                       ctx[q] = "live" /\ now < Deadline(q)
<1>1. ASSUME ClientInv, [Next]_vars PROVE Timely
  <2> SUFFICES ASSUME NEW p \in Queries, sent'[p] = sent[p] + 1
               PROVE  ctx[p] = "live" /\ now < Deadline(p)
    OBVIOUS
  <2>1. TypeOK /\ InTime(p) /\ sent[p] \in Nat
    BY <1>1 DEF ClientInv, CallInv, TypeOK
  <2>2. ~UNCHANGED sent
    BY <2>1
  <2>3. ASSUME NEW q \in Queries, NEW a \in Apis, Start(q, a) PROVE FALSE
    <3>1. sent' = [sent EXCEPT ![q] = 0]
      BY <2>3 DEF Start
    <3>2. DOMAIN sent = Queries
      BY <2>1 DEF TypeOK
    <3> QED
      BY <2>1, <3>1, <3>2
  <2>4. PICK q \in Queries : Send(q)
    <3>1. ~Tick /\ ~Rest /\ ~UNCHANGED vars
      BY <2>2 DEF Tick, Rest, vars, history
    <3>2. PICK q \in Queries : Cancel(q) \/ Step(q)
      BY <1>1, <2>3, <3>1 DEF Next
    <3>3. Send(q)
      BY <2>2, <3>2
         DEF Cancel, Step, history, CheckContext, Reserve, Awake, AnswerOk, AnswerFatal,
             AnswerRetryable, AnswerNever, BackoffOver
    <3> QED
      BY <3>3
  <2>5. q = p /\ Live(p) /\ pc[p] = "send"
    <3>1. Live(q) /\ pc[q] = "send" /\ sent' = [sent EXCEPT ![q] = @ + 1]
      BY <2>2, <2>4 DEF Send, Goto
    <3>2. sent \in [Queries -> Nat]
      BY <2>1 DEF TypeOK
    <3>3. q = p
      BY <2>1, <3>1, <3>2
    <3> QED
      BY <3>1, <3>3
  <2> QED
    BY <2>1, <2>5 DEF InTime, Running, Live
<1>2. ClientInv /\ [Next]_vars => [Timely]_vars
  BY <1>1
<1> HIDE DEF Timely
<1>3. Spec => [][Timely]_vars
  BY <1>2, ClientAlways, PTL DEF Spec
<1> QED
  BY <1>3 DEF SendsInTime, Timely
===============================================================================
