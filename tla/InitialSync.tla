------------------------------ MODULE InitialSync ------------------------------
(***************************************************************************)
(* `stockquant sync initial`: InitialMarketSyncService.Sync of             *)
(* internal/app/initial_market_sync.go over InitialMarketDataProvider of   *)
(* internal/infrastructure/tushare/initial_provider.go.  A sync fetches    *)
(* the stocks one listing status after the other, then the calendar of     *)
(* each exchange year by year, checks all of it, and writes the stocks and *)
(* the calendars in two transactions.                                      *)
(*                                                                         *)
(* The registry behind stock_basic changes while a sync runs; an answer of *)
(* stock_basic may be cut at the provider's row limit, an answer of        *)
(* trade_cal may miss a day or have one too many; a call may fail; the     *)
(* process may die.  Days are numbered; whether a day is open is left out. *)
(* The identity of a stock is its exchange, market and listing date, which *)
(* the provider may correct, as it may the delisting date.                 *)
(***************************************************************************)
EXTENDS Integers, Sequences, FiniteSets

CONSTANTS
  Codes,        \* ts_code
  Identities,   \* exchange, market and list_date of a stock
  Dates,        \* delist_date
  NoDate,       \* delist_date is null
  RowLimit,     \* initialStockBasicMaxRows
  Days,         \* an interval of day numbers
  YearOf,       \* YearOf[d]: the calendar year of a day
  NoStock,      \* no such row
  MaxChanges    \* bound: changes of the registry

Statuses == <<"L", "D", "P">>       \* in the order they are fetched
Exchanges == <<"SSE", "SZSE">>
Listed == {Statuses[i] : i \in DOMAIN Statuses}

\* What passes validateInitialStock: a delisted stock has its date.
Stock == {s \in [status : Listed, identity : Identities, delisted : Dates \union {NoDate}] :
            s.status = "D" => s.delisted # NoDate}

ASSUME DaysAssumption ==
  /\ Days \subseteq Int /\ IsFiniteSet(Days)
  /\ \A d, e \in Days : d..e \subseteq Days
  /\ YearOf \in [Days -> Nat]
  /\ \A d, e \in Days : d <= e => YearOf[d] <= YearOf[e]
  /\ \A d, e \in Days : \A y \in YearOf[d]..YearOf[e] : \E m \in Days : YearOf[m] = y
ASSUME StocksAssumption ==
  /\ NoStock \notin Stock /\ NoDate \notin Dates
  /\ RowLimit \in Nat /\ MaxChanges \in Nat

VARIABLES
  registry,         \* the provider's truth: code -> Stock or NoStock
  changes,          \* how often it changed
  stocks,           \* t_stock: code -> Stock or NoStock
  days,             \* t_trade_calendar: exchange -> the days it has rows for
  pc, from, through,   \* where the sync stands; its range
  part, year,       \* index of the status or exchange to fetch; its next year
  merged,           \* the stocks fetched so far: code -> Stock or NoStock
  rows,             \* calendar rows of this exchange: how many for each day
  accepted,         \* per exchange: the days of its checked calendar rows
  result,           \* "ok", or the apperror code of the failure
  seenAs,           \* history: the stocks this sync was told of, per code
  moved,            \* history: codes that changed since the sync began
  honest,           \* history: so far every answer was right, or cut at the limit
  cut,              \* history: an answer about stocks was cut at the limit
  written           \* history: the days of the ranges that were committed

database == <<stocks, days>>
world == <<registry, changes>>
range == <<from, through>>
history == <<seenAs, moved, honest, cut, written>>
fetched == <<merged, rows, accepted>>
vars == <<world, database, pc, range, part, year, fetched, result, history>>

\* "UPSTREAM" stands for every code of a failed call (timeout, permission, ...).
Failures == {"UPSTREAM", "DATA_INCOMPLETE", "INTERNAL"}

TypeOK ==
  /\ registry \in [Codes -> Stock \union {NoStock}]
  /\ changes \in 0..MaxChanges
  /\ stocks \in [Codes -> Stock \union {NoStock}]
  /\ days \in [{"SSE", "SZSE"} -> SUBSET Days]
  /\ pc \in {"idle", "stocks", "calendar", "check", "write", "writeDays", "done"}
  /\ from \in Days /\ through \in Days
  /\ part \in 1..3
  /\ year \in {YearOf[d] : d \in Days}
  /\ merged \in [Codes -> Stock \union {NoStock}]
  /\ rows \in [Days -> Nat]
  /\ accepted \in [{"SSE", "SZSE"} -> SUBSET Days]
  /\ result \in {"ok"} \union Failures
  /\ seenAs \in [Codes -> SUBSET Stock]
  /\ moved \subseteq Codes
  /\ honest \in BOOLEAN /\ cut \in BOOLEAN
  /\ written \subseteq Days

Nothing == [c \in Codes |-> NoStock]
NoRows == [d \in Days |-> 0]
NoDays == [e \in {"SSE", "SZSE"} |-> {}]

Init ==
  /\ registry \in [Codes -> Stock \union {NoStock}]
  /\ changes = 0
  /\ stocks = Nothing
  /\ days = NoDays
  /\ pc = "idle"
  /\ from \in Days /\ through = from
  /\ part = 1 /\ year = YearOf[from]
  /\ merged = Nothing /\ rows = NoRows /\ accepted = NoDays
  /\ result = "ok"
  /\ seenAs = [c \in Codes |-> {}] /\ moved = {}
  /\ honest = TRUE /\ cut = FALSE
  /\ written = {}

------------------------------------------------------------------------------
(* Pure parts. *)

\* Mutant: the status fetched last wins.
PriorityLastWins(status) ==
  CASE status = "P" -> 3 [] status = "D" -> 2 [] status = "L" -> 1

\* stockStatusPriority
Priority(status) == CASE status = "D" -> 3 [] status = "L" -> 2 [] status = "P" -> 1

\* Two delisting dates that differ cannot be merged; one that is missing can.
DatesDiffer(d, e) == d # NoDate /\ e # NoDate /\ d # e

\* Mutant: the delisting date of the second answer is not taken over.
MergedUndated(current, candidate) ==
  [current EXCEPT !.status = IF Priority(candidate.status) > Priority(@)
                             THEN candidate.status ELSE @]

\* mergeInitialStock for two answers about one code that can be merged; the name
\* goes with the status.
Merged(current, candidate) ==
  [status |-> IF Priority(candidate.status) > Priority(current.status)
              THEN candidate.status ELSE current.status,
   identity |-> current.identity,
   delisted |-> IF current.delisted = NoDate THEN candidate.delisted
                ELSE current.delisted]

Merge(current, candidate) ==
  IF current = NoStock THEN candidate ELSE Merged(current, candidate)

\* Mutant: the end of the range is taken as exclusive.
YearPartOpen(y) == {d \in from..(through - 1) : YearOf[d] = y}

\* calendarYearRange: the asked part of the range that lies in year y.
YearPart(y) == {d \in from..through : YearOf[d] = y}

\* Mutant: rows are counted, not the dates they are for.
CoveredByCount ==
  LET total[d \in Int] ==
        IF d < from THEN 0 ELSE total[d - 1] + rows[d]
  IN total[through] = through - from + 1

\* inclusiveCalendarDayCount against the distinct dates that came.
Covered ==
  Cardinality({d \in Days : rows[d] > 0}) = through - from + 1

------------------------------------------------------------------------------
(* The sync. *)

Begin(f, t) ==
  /\ pc \in {"idle", "done"} /\ f <= t
  /\ pc' = "stocks"
  /\ from' = f /\ through' = t
  /\ part' = 1
  /\ result' = "ok"
  /\ seenAs' = [c \in Codes |-> {}] /\ moved' = {}
  /\ honest' = TRUE /\ cut' = FALSE
  /\ UNCHANGED <<world, database, year, fetched, written>>

\* What was fetched goes with the call.
Forget == merged' = Nothing /\ rows' = NoRows /\ accepted' = NoDays

Fail(class) ==
  /\ pc' = "done"
  /\ result' = class
  /\ Forget
  /\ UNCHANGED <<world, database, range, part, year, seenAs, moved, cut, written>>

\* The codes of the status asked for.
Asked == {c \in Codes : /\ registry[c] # NoStock
                        /\ registry[c].status = Statuses[part]}

\* The codes that an answer of stock_basic may be about: all of them, or as many
\* as the limit allows.  More rows than the limit are refused (FetchFails), and
\* just as many pass, whether the provider had more or not.
Answers == {told \in SUBSET Asked : /\ told = Asked \/ Cardinality(told) = RowLimit
                                    /\ Cardinality(told) <= RowLimit}

\* mergeInitialStock refuses a code that comes back with another identity or
\* another delisting date.
Conflicting(c) ==
  /\ merged[c] # NoStock
  /\ \/ merged[c].identity # registry[c].identity
     \/ DatesDiffer(merged[c].delisted, registry[c].delisted)

\* Mutant: stocks whose listing is suspended are not asked for.
AfterStatusSkipP == IF part = 2 THEN "calendar" ELSE "stocks"

\* Mutant: the loop over the statuses runs once too often.
AfterStatusPast == IF part > Len(Statuses) THEN "calendar" ELSE "stocks"

AfterStatus == IF part = Len(Statuses) THEN "calendar" ELSE "stocks"

FetchStocks ==
  /\ pc = "stocks"
  /\ \E told \in Answers :
       /\ \A c \in told : ~Conflicting(c)
       /\ merged' = [c \in Codes |->
                       IF c \in told THEN Merge(merged[c], registry[c])
                       ELSE merged[c]]
       /\ seenAs' = [c \in Codes |->
                       IF c \in told THEN seenAs[c] \union {registry[c]}
                       ELSE seenAs[c]]
       /\ cut' = (cut \/ told # Asked)
  /\ pc' = AfterStatus
  /\ part' = IF pc' = "calendar" THEN 1 ELSE part + 1
  /\ year' = YearOf[from]
  /\ UNCHANGED <<world, database, range, rows, accepted, result, moved, honest, written>>

\* The conflict errors are not classified, which CodeOf reports as INTERNAL.
RefuseConflict ==
  /\ pc = "stocks" /\ \E told \in Answers : \E c \in told : Conflicting(c)
  /\ Fail("INTERNAL")
  /\ honest' = honest

\* One year of one exchange: the provider answers what it was asked, or leaves
\* a day out, or adds one.
FetchCalendar ==
  /\ pc = "calendar"
  /\ \E missing \in SUBSET YearPart(year), extra \in SUBSET Days :
       /\ Cardinality(missing) + Cardinality(extra) <= 1
       /\ rows' = [d \in Days |->
                     rows[d] + (IF d \in YearPart(year) \ missing THEN 1 ELSE 0)
                             + (IF d \in extra THEN 1 ELSE 0)]
       /\ honest' = (honest /\ missing = {} /\ extra = {})
  /\ IF year = YearOf[through]
     THEN pc' = "check" /\ UNCHANGED year
     ELSE year' = year + 1 /\ UNCHANGED pc
  /\ UNCHANGED <<world, database, range, part, merged, accepted, result, seenAs, moved,
                 cut, written>>

Outside == \E d \in Days : rows[d] > 0 /\ d \notin from..through

\* fetchCalendars on the rows of one exchange; then the next one, or writing.
AcceptCalendar ==
  /\ pc = "check" /\ ~Outside /\ Covered
  /\ accepted' = [accepted EXCEPT ![Exchanges[part]] = {d \in Days : rows[d] > 0}]
  /\ rows' = NoRows
  /\ IF part = Len(Exchanges)
     THEN pc' = "write" /\ UNCHANGED <<part, year>>
     ELSE pc' = "calendar" /\ part' = part + 1 /\ year' = YearOf[from]
  /\ UNCHANGED <<world, database, range, merged, result, history>>

RefuseCalendar ==
  /\ pc = "check" /\ (Outside \/ ~Covered)
  /\ Fail("DATA_INCOMPLETE")
  /\ honest' = honest

\* Two rows for one day disagree; the error is not classified.  Of two faults the
\* one whose row comes first is reported.
RefuseContradiction ==
  /\ pc = "check" /\ \E d \in Days : rows[d] > 1
  /\ Fail("INTERNAL")
  /\ honest' = honest

\* A call fails, the context ends, or the answer is malformed: too many rows, an
\* invalid or misplaced row, a delisted stock without its date.  A context that
\* ended before the first call is reported without a code.
FetchFails(class) ==
  /\ pc \in {"stocks", "calendar"}
  /\ class = "INTERNAL" => pc = "stocks" /\ part = 1
  /\ Fail(class)
  /\ honest' = FALSE

\* stocks.Upsert, one transaction.
WriteStocks ==
  /\ pc = "write"
  /\ stocks' = [c \in Codes |->
                  IF merged[c] # NoStock THEN merged[c] ELSE stocks[c]]
  /\ pc' = "writeDays"
  /\ UNCHANGED <<world, days, range, part, year, fetched, result, history>>

\* calendars.Upsert, another one.  The answer to its commit may be lost.
WriteCalendars ==
  /\ pc = "writeDays"
  /\ days' = [e \in DOMAIN days |-> days[e] \union accepted[e]]
  /\ written' = written \union (from..through)
  /\ \E answered \in BOOLEAN :
       /\ result' = IF answered THEN "ok" ELSE "INTERNAL"
       /\ honest' = (honest /\ answered)
  /\ pc' = "done"
  /\ Forget
  /\ UNCHANGED <<world, stocks, range, part, year, seenAs, moved, cut>>

\* A transaction is rolled back, the context ends, or a commit is not answered.
WriteFails ==
  /\ pc \in {"write", "writeDays"}
  /\ Fail("INTERNAL")
  /\ honest' = FALSE

Crash ==
  /\ pc \notin {"idle", "done"}
  /\ pc' = "idle"
  /\ Forget
  /\ UNCHANGED <<world, database, range, part, year, result, history>>

\* The registry lists a stock, suspends or resumes a listing, delists it, or
\* corrects its identity or its delisting date.
Change(c, new) ==
  /\ changes < MaxChanges
  /\ new # registry[c]
  /\ registry[c] # NoStock /\ registry[c].status = "D" => new.status = "D"
  /\ registry' = [registry EXCEPT ![c] = new]
  /\ changes' = changes + 1
  /\ moved' = moved \union {c}
  /\ UNCHANGED <<database, pc, range, part, year, fetched, result, seenAs,
                 honest, cut, written>>

Next ==
  \/ \E f, t \in Days : Begin(f, t)
  \/ FetchStocks \/ RefuseConflict
  \/ FetchCalendar \/ AcceptCalendar \/ RefuseCalendar \/ RefuseContradiction
  \/ \E class \in Failures : FetchFails(class)
  \/ WriteStocks \/ WriteCalendars \/ WriteFails
  \/ Crash
  \/ \E c \in Codes, new \in Stock : Change(c, new)

Spec == Init /\ [][Next]_vars

------------------------------------------------------------------------------
(* Properties. *)

\* Both exchanges have a calendar row for every day of every range that was
\* written and for no other: no answer with a day missing, doubled or out of
\* range, and no failure or death half way, leaves a hole or an exchange behind
\* (fetchCalendars checks before either Upsert, each Upsert is a transaction).
CalendarWhole == \A e \in DOMAIN days : days[e] = written

\* After a sync that returns nil every stock whose registry entry stood still
\* during it is stored as it is, whatever its listing status.  Only an answer
\* that the provider cut at the row limit loses one: a list of exactly
\* initialStockBasicMaxRows rows passes as a whole one.
StocksStored ==
  pc = "done" /\ result = "ok" /\ ~cut =>
    \A c \in Codes \ moved : registry[c] # NoStock => stocks[c] = registry[c]

\* A stock that changed its status while the three statuses were fetched is
\* merged by D > L > P (docs/04-tushare.md), whichever came first, its identity
\* is that of every answer about it, and a delisting date that any answer had is
\* kept and was contradicted by none.
MergedByPriority ==
  \A c \in Codes : merged[c] # NoStock =>
    LET told == {s.status : s \in seenAs[c]}
        dates == {s.delisted : s \in seenAs[c]} IN
    /\ merged[c].status \in told
    /\ "D" \in told => merged[c].status = "D"
    /\ "P" = merged[c].status => told = {"P"}
    /\ \A s \in seenAs[c] : s.identity = merged[c].identity
    /\ merged[c].delisted \in dates /\ dates \subseteq {merged[c].delisted, NoDate}

\* An honest provider is never refused: when every call was answered as asked,
\* no transaction failed and no stock changed, the sync succeeds.
HonestAccepted ==
  pc = "done" /\ honest /\ moved = {} => result = "ok"

\* docs/04-tushare.md, the initial import: conflicting identities count as
\* incomplete data.
ConflictIsIncomplete ==
  [][(\E c \in Asked : Conflicting(c)) /\ pc = "stocks" /\ pc' = "done" =>
       result' \in {"DATA_INCOMPLETE", "UPSTREAM"}]_vars
===============================================================================
