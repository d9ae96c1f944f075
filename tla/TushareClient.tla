----------------------------- MODULE TushareClient -----------------------------
(***************************************************************************)
(* Concurrent Client.Query calls of internal/infrastructure/tushare        *)
(* (client.go, resilience.go): every attempt takes a slot of the shared    *)
(* rate limiter, failures marked retryable are tried again after a         *)
(* jittered exponential backoff, and one deadline covers the whole call.   *)
(*                                                                         *)
(* Time is a counter.  A goroutine runs some time after what it waits for, *)
(* not at once; a context is done as soon as its deadline is reached.  The *)
(* provider answers with success, a failure worth retrying (429, 5xx, a    *)
(* temporary network error) or another failure; a request may be answered  *)
(* late or only ended by its context.                                      *)
(***************************************************************************)
EXTENDS Integers, Sequences, FiniteSets

CONSTANTS
  Queries,          \* goroutines that call Query, one call after the other
  Apis,             \* api_name
  Minute,           \* time.Minute in clock units
  GlobalPerMinute,  \* RateLimitConfig.GlobalPerMinute
  ApiPerMinute,     \* ApiPerMinute[a]: the override, or the default, for a
  MaxAttempts, BaseBackoff, MaxBackoff,  \* RetryConfig
  MaxDuration,      \* the largest time.Duration, math.MaxInt64
  Timeout,          \* ClientConfig.Timeout
  Horizon           \* bound: the clock stops here

ASSUME RatesAssumption ==
  /\ Minute \in Nat \ {0}
  /\ GlobalPerMinute \in 1..Minute
  /\ ApiPerMinute \in [Apis -> 1..Minute]
ASSUME RetryAssumption ==
  /\ MaxAttempts \in Nat \ {0}
  /\ BaseBackoff \in Nat \ {0} /\ MaxBackoff \in Nat /\ BaseBackoff <= MaxBackoff
  /\ MaxDuration \in Nat /\ MaxBackoff <= MaxDuration
  /\ Timeout \in Nat \ {0} /\ Horizon \in Nat

VARIABLES
  now,          \* the clock
  nextGlobal,   \* rateLimiter.nextGlobal
  nextApi,      \* rateLimiter.nextAPI
  pc, api,      \* per query: where it stands, what it asks for
  ctx,          \* per query: its context is live, cancelled or past deadline
  began,        \* per query: when the call began, so when its deadline is
  attempt,      \* per query: the loop variable of queryWithRetry
  wake,         \* per query: when its current sleep ends, 0 when it has none
  result,       \* per query: [class, attempts] that it returns and observes
  slots, sent,  \* history per query: slots granted, requests sent
  grants        \* history: the slots granted, oldest first

limiter == <<nextGlobal, nextApi>>
history == <<slots, sent, grants>>
vars == <<now, limiter, pc, api, ctx, began, attempt, wake, result, history>>

Classes == {"ok", "CANCELLED", "TIMEOUT", "UPSTREAM"}
NoResult == [class |-> "ok", attempts |-> 0]

TypeOK ==
  /\ now \in 0..Horizon
  /\ nextGlobal \in Nat /\ nextApi \in [Apis -> Nat]
  /\ pc \in [Queries -> {"idle", "check", "reserve", "sleep", "send", "flight",
                         "backoff", "done"}]
  /\ api \in [Queries -> Apis]
  /\ ctx \in [Queries -> {"live", "cancelled", "deadline"}]
  /\ began \in [Queries -> 0..Horizon]
  /\ attempt \in [Queries -> 1..MaxAttempts]
  /\ wake \in [Queries -> Nat]
  /\ result \in [Queries -> [class : Classes, attempts : 0..MaxAttempts]]
  /\ slots \in [Queries -> Nat] /\ sent \in [Queries -> Nat]
  /\ grants \in Seq([at : 0..Horizon, api : Apis])

Init ==
  /\ now = 0
  /\ nextGlobal = 0 /\ nextApi = [a \in Apis |-> 0]
  /\ pc = [q \in Queries |-> "idle"]
  /\ \E a \in Apis : api = [q \in Queries |-> a]
  /\ ctx = [q \in Queries |-> "live"]
  /\ began = [q \in Queries |-> 0]
  /\ attempt = [q \in Queries |-> 1]
  /\ wake = [q \in Queries |-> 0]
  /\ result = [q \in Queries |-> NoResult]
  /\ slots = [q \in Queries |-> 0] /\ sent = [q \in Queries |-> 0]
  /\ grants = << >>

------------------------------------------------------------------------------
(* Pure parts. *)

Later(s, t) == IF s > t THEN s ELSE t

\* Mutant: a rate of n makes n gaps between n + 1 slots of a minute.
IntervalClosed(perMinute) == Minute \div (perMinute + 1)

\* newRateLimiter: the integer division rounds the interval down.
Interval(perMinute) == Minute \div perMinute
GlobalInterval == Interval(GlobalPerMinute)
ApiInterval(a) == Interval(ApiPerMinute[a])

\* time.Duration arithmetic wraps around.
Wrap(d) == ((d + MaxDuration + 1) % (2 * (MaxDuration + 1))) - (MaxDuration + 1)

\* Mutant: double first and cap afterwards.
DoubledCapLast(d) == IF Wrap(2 * d) > MaxBackoff THEN MaxBackoff ELSE Wrap(2 * d)

\* One turn of the loop in RetryConfig.backoff: never doubled past the cap.
Doubled(d) == IF d > MaxBackoff \div 2 THEN MaxBackoff ELSE Wrap(2 * d)

\* RetryConfig.backoff before the jitter, for retry n.
Backoff[n \in 1..MaxAttempts] == IF n = 1 THEN BaseBackoff ELSE Doubled(Backoff[n - 1])

\* What Jitter may return, clamped to the delay.
Jittered(n) == IF Backoff[n] > 0 THEN 0..Backoff[n] ELSE {Backoff[n]}

\* classifyWaitError, classifyTransportError for a context that is done.
CtxClass(q) == IF ctx[q] = "cancelled" THEN "CANCELLED" ELSE "TIMEOUT"
Live(q) == ctx[q] = "live"

------------------------------------------------------------------------------
(* A Query call. *)

Goto(q, from, to) ==
  /\ pc[q] = from
  /\ pc' = [pc EXCEPT ![q] = to]

Finish(q, class, attempts) ==
  result' = [result EXCEPT ![q] = [class |-> class, attempts |-> attempts]]

Start(q, a) ==
  /\ pc[q] \in {"idle", "done"}
  /\ now + Timeout <= Horizon
  /\ pc' = [pc EXCEPT ![q] = "check"]
  /\ api' = [api EXCEPT ![q] = a]
  /\ ctx' = [ctx EXCEPT ![q] = "live"]
  /\ began' = [began EXCEPT ![q] = now]
  /\ attempt' = [attempt EXCEPT ![q] = 1]
  /\ result' = [result EXCEPT ![q] = NoResult]
  /\ slots' = [slots EXCEPT ![q] = 0] /\ sent' = [sent EXCEPT ![q] = 0]
  /\ UNCHANGED <<now, limiter, wake, grants>>

\* rateLimiter.Wait looks at the context before it takes the mutex.
CheckContext(q) ==
  /\ IF Live(q)
     THEN Goto(q, "check", "reserve") /\ UNCHANGED result
     ELSE Goto(q, "check", "done") /\ Finish(q, CtxClass(q), attempt[q] - 1)
  /\ UNCHANGED <<now, limiter, api, ctx, began, attempt, wake, history>>

\* The part of Wait under the mutex: take the slot that is free now, or sleep
\* until the slots known now are free and try again.
NextSlot(a) == Later(now, Later(nextGlobal, nextApi[a]))

\* Mutant: a call that has to sleep keeps the slot it waits for.
ReserveAhead(q) ==
  /\ pc[q] = "reserve"
  /\ nextGlobal' = NextSlot(api[q]) + GlobalInterval
  /\ nextApi' = [nextApi EXCEPT ![api[q]] = NextSlot(api[q]) + ApiInterval(api[q])]
  /\ slots' = [slots EXCEPT ![q] = @ + 1]
  /\ grants' = Append(grants, [at |-> now, api |-> api[q]])
  /\ Goto(q, "reserve", "send")
  /\ UNCHANGED <<now, api, ctx, began, attempt, wake, result, sent>>

\* Mutant: slots that nobody took are saved up.
TakeBanked(q) ==
  /\ nextGlobal' = nextGlobal + GlobalInterval
  /\ nextApi' = [nextApi EXCEPT ![api[q]] = now + ApiInterval(api[q])]
  /\ slots' = [slots EXCEPT ![q] = @ + 1]
  /\ grants' = Append(grants, [at |-> now, api |-> api[q]])

Take(q) ==
  /\ nextGlobal' = now + GlobalInterval
  /\ nextApi' = [nextApi EXCEPT ![api[q]] = now + ApiInterval(api[q])]
  /\ slots' = [slots EXCEPT ![q] = @ + 1]
  /\ grants' = Append(grants, [at |-> now, api |-> api[q]])

Reserve(q) ==
  /\ pc[q] = "reserve"
  /\ \/ /\ NextSlot(api[q]) = now
        /\ Goto(q, "reserve", "send")
        /\ Take(q)
        /\ UNCHANGED wake
     \/ /\ NextSlot(api[q]) > now
        /\ Goto(q, "reserve", "sleep")
        /\ wake' = [wake EXCEPT ![q] = NextSlot(api[q])]
        /\ UNCHANGED <<limiter, slots, grants>>
  /\ UNCHANGED <<now, api, ctx, began, attempt, result, sent>>

\* clock.Sleep returns ctx.Err() also when its timer fired.
Awake(q) ==
  /\ \/ Live(q) /\ now >= wake[q] /\ Goto(q, "sleep", "check") /\ UNCHANGED result
     \/ /\ ~Live(q) /\ Goto(q, "sleep", "done")
        /\ Finish(q, CtxClass(q), attempt[q] - 1)
  /\ wake' = [wake EXCEPT ![q] = 0]
  /\ UNCHANGED <<now, limiter, api, ctx, began, attempt, history>>

\* Mutant: the request is built without its context.
SendAnyway(q) ==
  /\ Goto(q, "send", "flight")
  /\ sent' = [sent EXCEPT ![q] = @ + 1]
  /\ UNCHANGED <<now, limiter, api, ctx, began, attempt, wake, result, slots, grants>>

\* queryOnce up to http.Client.Do, which sends nothing for a context that is
\* done but counts as an attempt all the same.
Send(q) ==
  /\ IF Live(q)
     THEN /\ Goto(q, "send", "flight")
          /\ sent' = [sent EXCEPT ![q] = @ + 1]
          /\ UNCHANGED result
     ELSE /\ Goto(q, "send", "done")
          /\ Finish(q, CtxClass(q), attempt[q])
          /\ UNCHANGED sent
  /\ UNCHANGED <<now, limiter, api, ctx, began, attempt, wake, slots, grants>>

\* The answer of the provider, and what queryWithRetry makes of it.
AnswerOk(q) ==
  /\ Goto(q, "flight", "done")
  /\ Finish(q, "ok", attempt[q])
  /\ UNCHANGED <<now, limiter, api, ctx, began, attempt, wake, history>>

AnswerFatal(q) ==
  /\ Goto(q, "flight", "done")
  /\ Finish(q, "UPSTREAM", attempt[q])
  /\ UNCHANGED <<now, limiter, api, ctx, began, attempt, wake, history>>

\* Mutant: MaxAttempts counts the retries only.
RetryOnceMore(q) ==
  /\ pc[q] = "flight"
  /\ Goto(q, "flight", "backoff")
  /\ \E jittered \in Jittered(attempt[q]) :
       wake' = [wake EXCEPT ![q] = now + jittered]
  /\ UNCHANGED <<now, limiter, api, ctx, began, attempt, result, history>>

\* 429, 5xx or a temporary network failure.
AnswerRetryable(q) ==
  /\ pc[q] = "flight"
  /\ IF attempt[q] = MaxAttempts
     THEN /\ Goto(q, "flight", "done")
          /\ Finish(q, "UPSTREAM", attempt[q])
          /\ UNCHANGED wake
     ELSE /\ Goto(q, "flight", "backoff")
          /\ \E jittered \in Jittered(attempt[q]) :
               wake' = [wake EXCEPT ![q] = now + jittered]
          /\ UNCHANGED result
  /\ UNCHANGED <<now, limiter, api, ctx, began, attempt, history>>

\* Mutant: a request is not ended by its context.
NeverEnded(q) == pc[q] = "flight" /\ ~Live(q) /\ UNCHANGED vars

\* The context ends the request.
AnswerNever(q) ==
  /\ ~Live(q)
  /\ Goto(q, "flight", "done")
  /\ Finish(q, CtxClass(q), attempt[q])
  /\ UNCHANGED <<now, limiter, api, ctx, began, attempt, wake, history>>

\* Mutant: a retry goes straight to the provider.
RetryAtOnce(q) ==
  /\ Live(q) /\ now >= wake[q]
  /\ Goto(q, "backoff", "send")
  /\ attempt' = [attempt EXCEPT ![q] = @ + 1]
  /\ wake' = [wake EXCEPT ![q] = 0]
  /\ UNCHANGED <<now, limiter, api, ctx, began, result, history>>

BackoffOver(q) ==
  /\ \/ /\ Live(q) /\ now >= wake[q]
        /\ Goto(q, "backoff", "check")
        /\ attempt' = [attempt EXCEPT ![q] = @ + 1]
        /\ UNCHANGED result
     \/ /\ ~Live(q)
        /\ Goto(q, "backoff", "done")
        /\ Finish(q, CtxClass(q), attempt[q])
        /\ UNCHANGED attempt
  /\ wake' = [wake EXCEPT ![q] = 0]
  /\ UNCHANGED <<now, limiter, api, ctx, began, history>>

------------------------------------------------------------------------------
(* The caller and the clock. *)

Running(q) == pc[q] \notin {"idle", "done"}
Deadline(q) == began[q] + Timeout

Cancel(q) ==
  /\ Running(q) /\ Live(q)
  /\ ctx' = [ctx EXCEPT ![q] = "cancelled"]
  /\ UNCHANGED <<now, limiter, pc, api, began, attempt, wake, result, history>>

\* A moment passes; contexts whose deadline it reaches are done.
Tick ==
  /\ now < Horizon
  /\ now' = now + 1
  /\ ctx' = [q \in Queries |->
               IF Running(q) /\ Live(q) /\ Deadline(q) <= now' THEN "deadline"
               ELSE ctx[q]]
  /\ UNCHANGED <<limiter, pc, api, began, attempt, wake, result, history>>

Step(q) ==
  \/ CheckContext(q) \/ Reserve(q) \/ Awake(q) \/ Send(q)
  \/ AnswerOk(q) \/ AnswerFatal(q) \/ AnswerRetryable(q) \/ AnswerNever(q)
  \/ BackoffOver(q)

\* Nobody calls any more.
Rest == (\A q \in Queries : ~Running(q)) /\ UNCHANGED vars

Next ==
  \/ Tick
  \/ Rest
  \/ \E q \in Queries :
       (\E a \in Apis : Start(q, a)) \/ Cancel(q) \/ Step(q)

Spec == Init /\ [][Next]_vars

\* Time passes and goroutines run; that the provider answers is not assumed.
FairSpec ==
  /\ Spec
  /\ WF_vars(Tick)
  /\ \A q \in Queries :
       /\ WF_vars(CheckContext(q)) /\ WF_vars(Reserve(q)) /\ WF_vars(Awake(q))
       /\ WF_vars(Send(q)) /\ WF_vars(AnswerNever(q)) /\ WF_vars(BackoffOver(q))

------------------------------------------------------------------------------
(* Properties. *)

\* Two slots n grants apart are n intervals apart, over all calls and over
\* those of one API: however the goroutines interleave there is no burst
\* (rateLimiter.Wait; docs/04-tushare.md: the burst capacity is 1).
SlotsApart ==
  \A j \in DOMAIN grants : \A i \in 1..(j - 1) :
    LET between == {k \in i..(j - 1) : grants[k].api = grants[j].api}
        apart == grants[j].at - grants[i].at IN
    /\ apart >= (j - i) * GlobalInterval
    /\ grants[i].api = grants[j].api =>
         apart >= Cardinality(between) * ApiInterval(grants[j].api)

\* What the rounding of the interval lets pass in a minute.  A minute has 6 * 10^10
\* units, so the condition is met by every rate up to 244,949.
Quota(perMinute) == IF Minute % perMinute = 0 THEN perMinute ELSE perMinute + 1
Fine(perMinute) == perMinute * (perMinute - 1) <= Minute

\* The slots granted in the minute that begins with slot i.
MinuteFrom(i) ==
  {k \in DOMAIN grants : grants[k].at \in grants[i].at..(grants[i].at + Minute - 1)}

\* No minute, wherever it begins, has more slots than configured, over all calls
\* and over those of one API; one more when the rate does not divide the minute
\* (docs/04-tushare.md: 100 per minute, 40 for stock_basic, configurable).
MinuteHeld ==
  \A i \in DOMAIN grants :
    /\ Fine(GlobalPerMinute) => Cardinality(MinuteFrom(i)) <= Quota(GlobalPerMinute)
    /\ \A a \in Apis : Fine(ApiPerMinute[a]) =>
         Cardinality({k \in MinuteFrom(i) : grants[k].api = a}) <= Quota(ApiPerMinute[a])

\* The rates hold, as distances in the limiter's own interval and as numbers per
\* minute, which the interval that newRateLimiter rounds down must still keep.
RateHeld == SlotsApart /\ MinuteHeld

\* Only a slot that was granted delays others: a call that sleeps, is cancelled
\* or times out while it waits holds nothing back.
NoReservationAhead ==
  /\ nextGlobal <= now + GlobalInterval
  /\ \A a \in Apis : nextApi[a] <= now + ApiInterval(a)

\* Every request, the retries included, has a slot of its own, and the number
\* of attempts that a call reports is the number of slots it was granted; one
\* more than it sent only when its context ended between the two.
AttemptsPaid ==
  \A q \in Queries :
    /\ sent[q] <= slots[q]
    /\ pc[q] = "done" =>
         /\ result[q].attempts = slots[q]
         /\ sent[q] < slots[q] =>
              sent[q] = slots[q] - 1 /\ result[q].class \in {"CANCELLED", "TIMEOUT"}

\* Before retry n the call sleeps at most min(2^(n-1) * BaseBackoff, MaxBackoff),
\* computed without overflow however large the configured durations are
\* (RetryConfig.backoff; docs/04-tushare.md: exponential backoff, full jitter).
BackoffExact ==
  \A q \in Queries : pc[q] = "backoff" =>
    LET doubled == BaseBackoff * 2^(attempt[q] - 1)
        bound == IF doubled < MaxBackoff THEN doubled ELSE MaxBackoff IN
    /\ Backoff[attempt[q]] = bound
    /\ wake[q] <= now + bound

\* One deadline covers waiting, backoff and all attempts: nothing is sent for a
\* call that is past it or cancelled.
SendsInTime ==
  [][\A q \in Queries : sent'[q] = sent[q] + 1 =>
       ctx[q] = "live" /\ now < Deadline(q)]_vars

\* Every call ends, whatever the other callers and the provider do.
QueryEnds == \A q \in Queries : Running(q) ~> ~Running(q)
===============================================================================
