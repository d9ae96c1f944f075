--------------------------- MODULE InitialSyncProofs ---------------------------
(***************************************************************************)
(* Proofs about InitialSync for any codes, identities, days and calendar   *)
(* years: types, whole calendars, stored stocks, the merge by priority,    *)
(* and that an honest provider is never refused.                           *)
(***************************************************************************)
EXTENDS InitialSync, FiniteSetTheorems, TLAPS

Fetching == pc \in {"calendar", "check"}
Fetched == pc \in {"calendar", "check", "write", "writeDays"}

\* Where the loops stand.
LoopInv ==
  /\ from <= through
  /\ Fetching => part \in 1..2
  /\ pc = "calendar" => YearOf[from] <= year /\ year <= YearOf[through]
  /\ ~Fetching => rows = NoRows
  /\ pc \in {"idle", "done"} => merged = Nothing

\* The exchanges whose rows were checked have a row for every day of the range.
AcceptedInv ==
  /\ Fetching /\ part = 2 => accepted["SSE"] = from..through
  /\ pc \in {"write", "writeDays"} =>
       \A e \in {"SSE", "SZSE"} : accepted[e] = from..through

\* An honest provider has answered one row for each day of the range that lies
\* in a year already asked for.
HonestInv ==
  Fetching /\ honest =>
    \A d \in Days :
      rows[d] = IF d \in from..through /\ (pc = "check" \/ YearOf[d] < year) THEN 1 ELSE 0

\* A stock that stands still is told as it is, if at all; unless an answer was
\* cut, it is merged once its status has been asked for, and stored once the
\* stocks are written.
Still(c) ==
  /\ seenAs[c] \subseteq {registry[c]}
  /\ registry[c] # NoStock /\ ~cut =>
       /\ pc = "stocks" =>
            \A i \in 1..(part - 1) : registry[c].status = Statuses[i] => merged[c] = registry[c]
       /\ Fetched => merged[c] = registry[c]
       /\ pc = "writeDays" => stocks[c] = registry[c]

StillInv == \A c \in Codes \ moved : Still(c)

\* What was not merged was not told.
ToldInv ==
  pc \notin {"idle", "done"} =>
    \A c \in Codes : merged[c] = NoStock => seenAs[c] = {}

SyncInv ==
  /\ TypeOK /\ LoopInv /\ AcceptedInv /\ HonestInv /\ StillInv /\ ToldInv
  /\ CalendarWhole /\ StocksStored /\ MergedByPriority /\ HonestAccepted

------------------------------------------------------------------------------
(* Statuses, exchanges, days. *)

LEMMA Constants ==
  /\ Len(Statuses) = 3 /\ Listed = {"L", "D", "P"}
  /\ Statuses[1] = "L" /\ Statuses[2] = "D" /\ Statuses[3] = "P"
  /\ Len(Exchanges) = 2 /\ Exchanges[1] = "SSE" /\ Exchanges[2] = "SZSE"
BY DEF Statuses, Exchanges, Listed

LEMMA DayFacts ==
  /\ Days \subseteq Int /\ YearOf \in [Days -> Nat]
  /\ \A d, e \in Days : d <= e => YearOf[d] <= YearOf[e]
  /\ \A d, e \in Days : d..e \subseteq Days
BY DaysAssumption

\* Every failed call ends like this; an honest one is a refusal.
Failed(class) ==
  /\ pc \notin {"idle", "done"} /\ class \in Failures
  /\ Fail(class)
  /\ honest' \in {honest, FALSE}
  /\ honest' => RefuseConflict \/ RefuseCalendar \/ RefuseContradiction

LEMMA Cases ==
  ASSUME [Next]_vars, TypeOK
  PROVE  \/ \E f, t \in Days : Begin(f, t)
         \/ FetchStocks \/ FetchCalendar \/ AcceptCalendar
         \/ WriteStocks \/ WriteCalendars \/ Crash
         \/ \E class \in Failures : Failed(class)
         \/ \E c \in Codes, new \in Stock : Change(c, new)
         \/ UNCHANGED vars
<1>1. ASSUME RefuseConflict PROVE Failed("INTERNAL") /\ "INTERNAL" \in Failures
  BY <1>1 DEF RefuseConflict, Failed, Failures
<1>2. ASSUME RefuseCalendar
      PROVE  Failed("DATA_INCOMPLETE") /\ "DATA_INCOMPLETE" \in Failures
  BY <1>2 DEF RefuseCalendar, Failed, Failures
<1>3. ASSUME RefuseContradiction PROVE Failed("INTERNAL") /\ "INTERNAL" \in Failures
  BY <1>3 DEF RefuseContradiction, Failed, Failures
<1>4. ASSUME NEW class \in Failures, FetchFails(class) PROVE Failed(class)
  BY <1>4 DEF FetchFails, Failed
<1>5. ASSUME WriteFails PROVE Failed("INTERNAL") /\ "INTERNAL" \in Failures
  BY <1>5 DEF WriteFails, Failed, Failures
<1> QED
  BY <1>1, <1>2, <1>3, <1>4, <1>5 DEF Next

\* One answer of stock_basic that is merged.
Told(told) ==
  /\ \A c \in told : ~Conflicting(c)
  /\ merged' = [c \in Codes |->
                  IF c \in told THEN Merge(merged[c], registry[c]) ELSE merged[c]]
  /\ seenAs' = [c \in Codes |->
                  IF c \in told THEN seenAs[c] \union {registry[c]} ELSE seenAs[c]]
  /\ cut' = (cut \/ told # Asked)

LEMMA FetchIs ==
  ASSUME FetchStocks
  PROVE  \E told \in Answers : Told(told)
BY DEF FetchStocks, Told

------------------------------------------------------------------------------
(* Types. *)

LEMMA StockFacts ==
  ASSUME NEW s \in Stock
  PROVE  /\ s.status \in {"L", "D", "P"} /\ s.identity \in Identities
         /\ s.delisted \in Dates \union {NoDate}
         /\ s.status = "D" => s.delisted # NoDate
         /\ s = [status |-> s.status, identity |-> s.identity, delisted |-> s.delisted]
         /\ s # NoStock
BY Constants, StocksAssumption DEF Stock

\* Merging makes a stock, a delisted one with its date among them.
LEMMA MergeType ==
  ASSUME NEW s \in Stock \union {NoStock}, NEW t \in Stock
  PROVE  Merge(s, t) \in Stock
<1>1. CASE s = NoStock
  BY <1>1 DEF Merge
<1>2. CASE s # NoStock
  <2> DEFINE m == Merged(s, t)
  <2>1. s \in Stock
    BY <1>2
  <2>2. m.status \in {s.status, t.status} /\ m.identity = s.identity
        /\ m.delisted = IF s.delisted = NoDate THEN t.delisted ELSE s.delisted
    BY DEF Merged
  <2>3. m \in [status : Listed, identity : Identities, delisted : Dates \union {NoDate}]
    BY <2>1, StockFacts, Constants DEF Merged
  <2>4. m.status = "D" => m.delisted # NoDate
    BY <2>1, <2>2, StockFacts
  <2>5. Merge(s, t) = m
    BY <1>2 DEF Merge
  <2> HIDE DEF m
  <2> QED
    BY <2>3, <2>4, <2>5 DEF Stock
<1> QED
  BY <1>1, <1>2

\* A stock merged with itself is the same.
LEMMA MergeSame ==
  ASSUME NEW s \in Stock
  PROVE  Merge(s, s) = s /\ Merge(NoStock, s) = s
BY StockFacts DEF Merge, Merged

LEMMA ForgetType ==
  ASSUME Forget
  PROVE  /\ merged' \in [Codes -> Stock \union {NoStock}]
         /\ rows' \in [Days -> Nat]
         /\ accepted' \in [{"SSE", "SZSE"} -> SUBSET Days]
BY DEF Forget, Nothing, NoRows, NoDays

LEMMA TypeOK_Next == SyncInv /\ [Next]_vars => TypeOK'
<1> SUFFICES ASSUME SyncInv, [Next]_vars PROVE TypeOK'
  OBVIOUS
<1>0. TypeOK /\ LoopInv
  BY DEF SyncInv
<1> USE <1>0 DEF TypeOK, world, database, range, fetched, history
<1>1. ASSUME NEW f \in Days, NEW t \in Days, Begin(f, t) PROVE TypeOK'
  <2>1. pc' = "stocks" /\ part' = 1 /\ from' = f /\ through' = t /\ result' = "ok"
    BY <1>1 DEF Begin
  <2>2. seenAs' = [c \in Codes |-> {}] /\ moved' = {} /\ honest' = TRUE /\ cut' = FALSE
    BY <1>1 DEF Begin
  <2>3. UNCHANGED <<registry, changes, stocks, days, year, merged, rows, accepted, written>>
    BY <1>1 DEF Begin
  <2>4. part' \in 1..3
    BY <2>1
  <2>5. seenAs' \in [Codes -> SUBSET Stock] /\ moved' \subseteq Codes
        /\ honest' \in BOOLEAN /\ cut' \in BOOLEAN
    BY <2>2
  <2>6. result' \in {"ok"} \union Failures
    BY <2>1
  <2>7. pc' \in {"idle", "stocks", "calendar", "check", "write", "writeDays", "done"}
        /\ from' \in Days /\ through' \in Days
    BY <2>1
  <2>8. /\ registry' \in [Codes -> Stock \union {NoStock}] /\ changes' \in 0..MaxChanges
        /\ stocks' \in [Codes -> Stock \union {NoStock}]
        /\ days' \in [{"SSE", "SZSE"} -> SUBSET Days]
        /\ merged' \in [Codes -> Stock \union {NoStock}]
    BY <2>3
  <2>9. /\ year' \in {YearOf[d] : d \in Days}
        /\ rows' \in [Days -> Nat]
        /\ accepted' \in [{"SSE", "SZSE"} -> SUBSET Days]
        /\ written' \subseteq Days
    BY <2>3
  <2> QED
    BY <2>4, <2>5, <2>6, <2>7, <2>8, <2>9
<1>2. CASE FetchStocks
  <2> PICK told \in Answers : Told(told)
    BY <1>2, FetchIs
  <2>1. told \subseteq Codes /\ \A c \in told : registry[c] \in Stock
    BY DEF Answers, Asked
  <2>2. merged' \in [Codes -> Stock \union {NoStock}]
    <3>1. \A c \in told : Merge(merged[c], registry[c]) \in Stock
      BY <2>1, MergeType
    <3> QED
      BY <3>1 DEF Told
  <2>3. seenAs' \in [Codes -> SUBSET Stock] /\ cut' \in BOOLEAN
    BY <2>1 DEF Told
  <2>4. pc' \in {"stocks", "calendar"} /\ part' \in 1..3
    BY <1>2, Constants DEF FetchStocks, AfterStatus
  <2>5. year' \in {YearOf[d] : d \in Days}
    BY <1>2 DEF FetchStocks
  <2> QED
    BY <1>2, <2>2, <2>3, <2>4, <2>5 DEF FetchStocks
<1>3. CASE FetchCalendar
  <2>1. rows' \in [Days -> Nat] /\ honest' \in BOOLEAN
    BY <1>3 DEF FetchCalendar
  <2>2. year' \in {YearOf[d] : d \in Days}
    <3>1. CASE year = YearOf[through]
      BY <1>3, <3>1 DEF FetchCalendar
    <3>2. CASE year # YearOf[through]
      <4>1. YearOf[from] \in Nat /\ YearOf[through] \in Nat /\ year \in Nat
        BY DayFacts
      <4>2. year' = year + 1 /\ year + 1 \in YearOf[from]..YearOf[through]
        BY <1>3, <3>2, <4>1 DEF FetchCalendar, LoopInv
      <4> QED
        BY <4>2, DaysAssumption
    <3> QED
      BY <3>1, <3>2
  <2>3. pc' \in {"check", "calendar"}
    BY <1>3 DEF FetchCalendar
  <2> QED
    BY <1>3, <2>1, <2>2, <2>3 DEF FetchCalendar
<1>4. CASE AcceptCalendar
  <2>1. part \in 1..2 /\ Exchanges[part] \in {"SSE", "SZSE"}
    BY <1>4, Constants DEF AcceptCalendar, LoopInv, Fetching
  <2>2. accepted' \in [{"SSE", "SZSE"} -> SUBSET Days] /\ rows' \in [Days -> Nat]
    BY <1>4, <2>1 DEF AcceptCalendar, NoRows
  <2>3. pc' \in {"write", "calendar"} /\ part' \in 1..3
        /\ year' \in {YearOf[d] : d \in Days}
    BY <1>4, <2>1, Constants DEF AcceptCalendar
  <2> QED
    BY <1>4, <2>2, <2>3 DEF AcceptCalendar
<1>5. CASE WriteStocks
  BY <1>5 DEF WriteStocks
<1>6. CASE WriteCalendars
  <2>1. days' \in [{"SSE", "SZSE"} -> SUBSET Days] /\ written' \subseteq Days
    BY <1>6, DayFacts DEF WriteCalendars
  <2>2. result' \in {"ok"} \union Failures /\ honest' \in BOOLEAN
    BY <1>6 DEF WriteCalendars, Failures
  <2> QED
    BY <1>6, <2>1, <2>2, ForgetType DEF WriteCalendars
<1>7. CASE Crash
  BY <1>7, ForgetType DEF Crash
<1>8. ASSUME NEW class \in Failures, Failed(class) PROVE TypeOK'
  BY <1>8, ForgetType DEF Failed, Fail
<1>9. ASSUME NEW c \in Codes, NEW new \in Stock, Change(c, new) PROVE TypeOK'
  BY <1>9, StocksAssumption DEF Change
<1>10. CASE UNCHANGED vars
  BY <1>10 DEF vars
<1> QED
  BY <1>1, <1>2, <1>3, <1>4, <1>5, <1>6, <1>7, <1>8, <1>9, <1>10, Cases

------------------------------------------------------------------------------
(* Loops and calendars. *)

LEMMA LoopInv_Next == SyncInv /\ [Next]_vars => LoopInv'
<1> SUFFICES ASSUME SyncInv, [Next]_vars PROVE LoopInv'
  OBVIOUS
<1>0. TypeOK /\ LoopInv
  BY DEF SyncInv
<1>a. from \in Days /\ through \in Days /\ YearOf[from] \in Nat /\ YearOf[through] \in Nat
      /\ YearOf[from] <= YearOf[through] /\ year \in Nat
  BY <1>0, DayFacts DEF TypeOK, LoopInv
<1> USE <1>0 DEF LoopInv, Fetching, world, database, range, fetched, history
<1>1. ASSUME NEW f \in Days, NEW t \in Days, Begin(f, t) PROVE LoopInv'
  BY <1>1 DEF Begin
<1>2. CASE FetchStocks
  BY <1>2, <1>a, Constants DEF FetchStocks, AfterStatus, TypeOK
<1>3. CASE FetchCalendar
  BY <1>3, <1>a DEF FetchCalendar
<1>4. CASE AcceptCalendar
  BY <1>4, <1>a, Constants DEF AcceptCalendar
<1>5. CASE WriteStocks \/ WriteCalendars \/ Crash \/ UNCHANGED vars
  BY <1>5 DEF WriteStocks, WriteCalendars, Crash, Forget, vars
<1>6. ASSUME NEW class \in Failures, Failed(class) PROVE LoopInv'
  BY <1>6 DEF Failed, Fail, Forget
<1>7. ASSUME NEW c \in Codes, NEW new \in Stock, Change(c, new) PROVE LoopInv'
  BY <1>7 DEF Change
<1> QED
  BY <1>1, <1>2, <1>3, <1>4, <1>5, <1>6, <1>7, Cases

\* As many different days as the range has, none outside: all of them.
LEMMA CoveredIsWhole ==
  ASSUME TypeOK, LoopInv, ~Outside, Covered
  PROVE  {d \in Days : rows[d] > 0} = from..through
<1>1. from \in Int /\ through \in Int /\ from <= through
  BY DayFacts DEF TypeOK, LoopInv
<1>2. IsFiniteSet(from..through) /\ Cardinality(from..through) = through - from + 1
  BY <1>1, FS_Interval
<1>3. {d \in Days : rows[d] > 0} \in SUBSET (from..through)
  BY DEF Outside
<1> QED
  BY <1>2, <1>3, FS_Subset DEF Covered

LEMMA AcceptedInv_Next == SyncInv /\ [Next]_vars => AcceptedInv'
<1> SUFFICES ASSUME SyncInv, [Next]_vars PROVE AcceptedInv'
  OBVIOUS
<1>0. TypeOK /\ LoopInv /\ AcceptedInv
  BY DEF SyncInv
<1> USE <1>0 DEF AcceptedInv, Fetching, world, database, range, fetched, history
<1>1. ASSUME NEW f \in Days, NEW t \in Days, Begin(f, t) PROVE AcceptedInv'
  BY <1>1 DEF Begin
<1>2. CASE FetchStocks
  BY <1>2 DEF FetchStocks, AfterStatus
<1>3. CASE FetchCalendar
  BY <1>3 DEF FetchCalendar
<1>4. CASE AcceptCalendar
  <2>1. part \in 1..2 /\ part = IF Exchanges[part] = "SSE" THEN 1 ELSE 2
    BY <1>4, Constants DEF AcceptCalendar, LoopInv
  <2>2. accepted' = [accepted EXCEPT ![Exchanges[part]] = from..through]
    BY <1>4, CoveredIsWhole DEF AcceptCalendar
  <2>3. CASE part = 1
    <3>1. accepted'["SSE"] = from..through
      BY <2>2, <2>3, Constants DEF TypeOK
    <3> QED
      BY <1>4, <2>3, <3>1, Constants DEF AcceptCalendar
  <2>4. CASE part = 2
    <3>1. accepted'["SSE"] = from..through /\ accepted'["SZSE"] = from..through
      BY <1>4, <2>2, <2>4, Constants DEF TypeOK, AcceptCalendar
    <3> QED
      BY <1>4, <2>4, <3>1, Constants DEF AcceptCalendar
  <2> QED
    BY <2>1, <2>3, <2>4
<1>5. CASE WriteStocks \/ WriteCalendars \/ Crash \/ UNCHANGED vars
  BY <1>5 DEF WriteStocks, WriteCalendars, Crash, vars
<1>6. ASSUME NEW class \in Failures, Failed(class) PROVE AcceptedInv'
  BY <1>6 DEF Failed, Fail
<1>7. ASSUME NEW c \in Codes, NEW new \in Stock, Change(c, new) PROVE AcceptedInv'
  BY <1>7 DEF Change
<1> QED
  BY <1>1, <1>2, <1>3, <1>4, <1>5, <1>6, <1>7, Cases

LEMMA CalendarWhole_Next == SyncInv /\ [Next]_vars => CalendarWhole'
<1> SUFFICES ASSUME SyncInv, [Next]_vars PROVE CalendarWhole'
  OBVIOUS
<1>0. TypeOK /\ AcceptedInv /\ CalendarWhole
  BY DEF SyncInv
<1>1. CASE WriteCalendars
  <2>1. DOMAIN days = {"SSE", "SZSE"} /\ pc \in {"write", "writeDays"}
    BY <1>0, <1>1 DEF TypeOK, WriteCalendars
  <2>2. \A e \in {"SSE", "SZSE"} : accepted[e] = from..through /\ days[e] = written
    BY <1>0, <2>1 DEF AcceptedInv, CalendarWhole
  <2>3. days' = [e \in {"SSE", "SZSE"} |-> days[e] \union accepted[e]]
        /\ written' = written \union (from..through)
    BY <1>1, <2>1 DEF WriteCalendars
  <2> QED
    BY <2>2, <2>3 DEF CalendarWhole
<1>2. ASSUME UNCHANGED <<days, written>> PROVE CalendarWhole'
  BY <1>0, <1>2 DEF CalendarWhole
<1>3. CASE ~WriteCalendars
  BY <1>0, <1>2, <1>3, Cases
     DEF Begin, FetchStocks, FetchCalendar, AcceptCalendar, WriteStocks, Crash, Failed,
         Fail, Change, vars, database, history
<1> QED
  BY <1>1, <1>3

------------------------------------------------------------------------------
(* An honest provider. *)

LEMMA HonestInv_Next == SyncInv /\ [Next]_vars => HonestInv'
<1> SUFFICES ASSUME SyncInv, [Next]_vars PROVE HonestInv'
  OBVIOUS
<1>0. TypeOK /\ LoopInv /\ HonestInv
  BY DEF SyncInv
<1>a. /\ from \in Days /\ through \in Days /\ from \in Int /\ through \in Int
      /\ from..through \subseteq Days /\ year \in Nat
      /\ \A d \in Days : d \in Int /\ YearOf[d] \in Nat
      /\ \A d \in from..through : YearOf[from] <= YearOf[d] /\ YearOf[d] <= YearOf[through]
  <2>1. from \in Days /\ through \in Days /\ from \in Int /\ through \in Int
        /\ from..through \subseteq Days /\ year \in Nat
    BY <1>0, DayFacts DEF TypeOK
  <2>2. \A d \in Days : d \in Int /\ YearOf[d] \in Nat
    BY DayFacts
  <2>3. \A d \in from..through : YearOf[from] <= YearOf[d] /\ YearOf[d] <= YearOf[through]
    BY <2>1, DayFacts
  <2> QED
    BY <2>1, <2>2, <2>3
<1> USE DEF Fetching, world, database, range, fetched, history
<1>b. ASSUME rows' = NoRows, year' = YearOf[from], UNCHANGED <<from, through>>,
             pc' = "calendar"
      PROVE  HonestInv'
  BY <1>a, <1>b DEF HonestInv, NoRows
<1>1. ASSUME NEW f \in Days, NEW t \in Days, Begin(f, t) PROVE HonestInv'
  BY <1>1 DEF Begin, HonestInv
<1>2. CASE FetchStocks
  <2>1. CASE pc' = "calendar"
    BY <1>0, <1>2, <1>b, <2>1 DEF FetchStocks, LoopInv
  <2>2. CASE pc' # "calendar"
    BY <1>2, <2>2 DEF FetchStocks, AfterStatus, HonestInv
  <2> QED
    BY <2>1, <2>2
<1>3. CASE FetchCalendar
  <2> SUFFICES ASSUME honest', NEW d \in Days
               PROVE  rows'[d] = IF d \in from..through /\ (pc' = "check" \/ YearOf[d] < year')
                                 THEN 1 ELSE 0
    BY <1>3 DEF HonestInv, FetchCalendar
  <2>1. /\ honest
        /\ rows'[d] = rows[d] + (IF d \in YearPart(year) THEN 1 ELSE 0)
    <3>1. PICK missing \in SUBSET YearPart(year), extra \in SUBSET Days :
            /\ rows' = [e \in Days |->
                          rows[e] + (IF e \in YearPart(year) \ missing THEN 1 ELSE 0)
                                  + (IF e \in extra THEN 1 ELSE 0)]
            /\ honest' = (honest /\ missing = {} /\ extra = {})
      BY <1>3, Zenon DEF FetchCalendar
    <3>2. honest /\ missing = {} /\ extra = {}
      BY <3>1
    <3>3. rows[d] \in Nat
      BY <1>0 DEF TypeOK
    <3>4. rows'[d] = rows[d] + (IF d \in YearPart(year) \ missing THEN 1 ELSE 0)
                             + (IF d \in extra THEN 1 ELSE 0)
      BY <3>1
    <3> QED
      BY <3>2, <3>3, <3>4
  <2>2. rows[d] = IF d \in from..through /\ YearOf[d] < year THEN 1 ELSE 0
    BY <1>0, <1>3, <2>1 DEF FetchCalendar, HonestInv
  <2>3. d \in YearPart(year) <=> d \in from..through /\ YearOf[d] = year
    BY DEF YearPart
  <2>4. CASE year = YearOf[through]
    <3>1. pc' = "check"
      BY <1>3, <2>4 DEF FetchCalendar
    <3>2. d \in from..through => YearOf[d] <= year
      BY <1>a, <2>4
    <3> QED
      BY <1>a, <2>1, <2>2, <2>3, <3>1, <3>2
  <2>5. CASE year # YearOf[through]
    <3>1. pc' = "calendar" /\ year' = year + 1
      BY <1>3, <2>5 DEF FetchCalendar
    <3> QED
      BY <1>a, <2>1, <2>2, <2>3, <3>1
  <2> QED
    BY <2>4, <2>5
<1>4. CASE AcceptCalendar
  <2>1. CASE pc' = "calendar"
    BY <1>4, <1>b, <2>1 DEF AcceptCalendar
  <2>2. CASE pc' # "calendar"
    BY <1>4, <2>2 DEF AcceptCalendar, HonestInv
  <2> QED
    BY <2>1, <2>2
<1>5. CASE WriteStocks \/ WriteCalendars \/ Crash
  BY <1>5 DEF WriteStocks, WriteCalendars, Crash, HonestInv
<1>6. ASSUME NEW class \in Failures, Failed(class) PROVE HonestInv'
  BY <1>6 DEF Failed, Fail, HonestInv
<1>7. ASSUME \/ \E c \in Codes, new \in Stock : Change(c, new)
             \/ UNCHANGED vars
      PROVE  HonestInv'
  BY <1>0, <1>7 DEF Change, vars, HonestInv
<1> QED
  BY <1>0, <1>1, <1>2, <1>3, <1>4, <1>5, <1>6, <1>7, Cases

\* The rows of an honest provider pass the checks of fetchCalendars.
LEMMA HonestPasses ==
  ASSUME SyncInv, honest, pc = "check"
  PROVE  ~Outside /\ Covered /\ \A d \in Days : ~(rows[d] > 1)
<1>1. \A d \in Days : rows[d] = IF d \in from..through THEN 1 ELSE 0
  BY DEF SyncInv, HonestInv, Fetching
<1>2. from \in Int /\ through \in Int /\ from..through \subseteq Days /\ from <= through
  BY DayFacts DEF SyncInv, TypeOK, LoopInv
<1>3. {d \in Days : rows[d] > 0} = from..through
  BY <1>1, <1>2
<1>4. Cardinality(from..through) = through - from + 1
  BY <1>2, FS_Interval
<1>5. ~Outside
  BY <1>1 DEF Outside
<1>6. Covered
  BY <1>3, <1>4 DEF Covered
<1>7. \A d \in Days : ~(rows[d] > 1)
  BY <1>1
<1> QED
  BY <1>5, <1>6, <1>7

------------------------------------------------------------------------------
(* Stocks. *)

LEMMA ToldInv_Next == SyncInv /\ [Next]_vars => ToldInv'
<1> SUFFICES ASSUME SyncInv, [Next]_vars PROVE ToldInv'
  OBVIOUS
<1>0. TypeOK /\ ToldInv
  BY DEF SyncInv
<1> USE <1>0 DEF ToldInv, world, database, range, fetched, history
<1>1. CASE FetchStocks
  <2> SUFFICES ASSUME NEW c \in Codes, merged'[c] = NoStock PROVE seenAs'[c] = {}
    BY DEF ToldInv
  <2> PICK told \in Answers : Told(told)
    BY <1>1, FetchIs
  <2>1. CASE c \in told
    <3>1. registry[c] \in Stock /\ merged[c] \in Stock \union {NoStock}
      BY <2>1 DEF Answers, Asked, TypeOK
    <3>2. merged'[c] = Merge(merged[c], registry[c]) /\ merged'[c] \in Stock
      BY <2>1, <3>1, MergeType DEF Told
    <3> QED
      BY <3>2, StocksAssumption
  <2>2. CASE c \notin told
    <3>1. merged[c] = NoStock /\ seenAs'[c] = seenAs[c]
      BY <2>2 DEF Told
    <3> QED
      BY <1>1, <3>1 DEF FetchStocks
  <2> QED
    BY <2>1, <2>2
<1>2. ASSUME UNCHANGED <<merged, seenAs>>, pc \notin {"idle", "done"} PROVE ToldInv'
  BY <1>2
<1>3. ASSUME \/ FetchCalendar \/ AcceptCalendar \/ WriteStocks
             \/ UNCHANGED vars
             \/ \E c \in Codes, new \in Stock : Change(c, new)
      PROVE  UNCHANGED <<merged, seenAs>> /\ (pc' = pc \/ pc \notin {"idle", "done"})
  BY <1>3 DEF FetchCalendar, AcceptCalendar, WriteStocks, Change, vars
<1>4. ASSUME \/ WriteCalendars \/ Crash
             \/ \E class \in Failures : Failed(class)
             \/ \E f, t \in Days : Begin(f, t)
      PROVE  pc' \in {"idle", "done"} \/ \A c \in Codes : seenAs'[c] = {}
  BY <1>4 DEF WriteCalendars, Crash, Failed, Fail, Begin
<1> QED
  BY <1>1, <1>2, <1>3, <1>4, Cases

\* What MergedByPriority says of one code.
Follows(answers, stock) ==
  LET told == {s.status : s \in answers}
      dates == {s.delisted : s \in answers} IN
  /\ stock.status \in told
  /\ "D" \in told => stock.status = "D"
  /\ "P" = stock.status => told = {"P"}
  /\ \A s \in answers : s.identity = stock.identity
  /\ stock.delisted \in dates /\ dates \subseteq {stock.delisted, NoDate}

\* mergeInitialStock keeps it when it merges one more answer.
LEMMA MergeFollows ==
  ASSUME NEW answers \in SUBSET Stock, NEW stock \in Stock, NEW new \in Stock,
         Follows(answers, stock), stock.identity = new.identity,
         ~DatesDiffer(stock.delisted, new.delisted)
  PROVE  Follows(answers \union {new}, Merged(stock, new))
<1> DEFINE m == Merged(stock, new)
           told == {s.status : s \in answers}
           told2 == {s.status : s \in answers \union {new}}
           dates == {s.delisted : s \in answers}
           dates2 == {s.delisted : s \in answers \union {new}}
<1>1. /\ told2 = told \union {new.status} /\ dates2 = dates \union {new.delisted}
      /\ told \subseteq {"L", "D", "P"}
  BY StockFacts
<1>2. /\ stock.status \in told
      /\ "D" \in told => stock.status = "D"
      /\ "P" = stock.status => told = {"P"}
      /\ \A s \in answers : s.identity = stock.identity
      /\ stock.delisted \in dates /\ dates \subseteq {stock.delisted, NoDate}
  BY DEF Follows
<1>3. /\ m.identity = stock.identity
      /\ m.status = IF Priority(new.status) > Priority(stock.status)
                    THEN new.status ELSE stock.status
      /\ m.delisted = IF stock.delisted = NoDate THEN new.delisted ELSE stock.delisted
  BY DEF Merged
<1>4. stock.status \in {"L", "D", "P"} /\ new.status \in {"L", "D", "P"}
  BY StockFacts
<1> HIDE DEF m, told, told2, dates, dates2
<1>5. /\ m.status \in told2
      /\ "D" \in told2 => m.status = "D"
      /\ "P" = m.status => told2 = {"P"}
  <2>1. CASE Priority(new.status) > Priority(stock.status)
    <3>1. m.status = new.status /\ new.status # "P" /\ stock.status # "D"
      BY <1>3, <1>4, <2>1 DEF Priority
    <3> QED
      BY <1>1, <1>2, <3>1
  <2>2. CASE ~(Priority(new.status) > Priority(stock.status))
    <3>1. /\ m.status = stock.status /\ (new.status = "D" => stock.status = "D")
          /\ stock.status = "P" => new.status = "P"
      BY <1>3, <1>4, <2>2 DEF Priority
    <3> QED
      BY <1>1, <1>2, <3>1
  <2> QED
    BY <2>1, <2>2
<1>6. \A s \in answers \union {new} : s.identity = m.identity
  BY <1>2, <1>3
<1>7. m.delisted \in dates2 /\ dates2 \subseteq {m.delisted, NoDate}
  <2>1. CASE stock.delisted = NoDate
    BY <1>1, <1>2, <1>3, <2>1
  <2>2. CASE stock.delisted # NoDate
    <3>1. new.delisted \in {stock.delisted, NoDate}
      BY <2>2 DEF DatesDiffer
    <3> QED
      BY <1>1, <1>2, <1>3, <2>2, <3>1
  <2> QED
    BY <2>1, <2>2
<1> QED
  BY <1>5, <1>6, <1>7 DEF Follows, m, told2, dates2

\* Of a stock that was told in one way only, that is what was merged.
LEMMA OneWay ==
  ASSUME NEW stock \in Stock, NEW r \in Stock, NEW answers, answers \subseteq {r},
         Follows(answers, stock)
  PROVE  stock = r
<1>1. answers = {r}
  BY DEF Follows
<1>2. stock.status = r.status /\ stock.identity = r.identity /\ stock.delisted = r.delisted
  BY <1>1 DEF Follows
<1> QED
  BY <1>2, StockFacts

LEMMA MergedByPriority_Next == SyncInv /\ [Next]_vars => MergedByPriority'
<1> SUFFICES ASSUME SyncInv, [Next]_vars PROVE MergedByPriority'
  OBVIOUS
<1>0. TypeOK /\ LoopInv /\ ToldInv /\ MergedByPriority
  BY DEF SyncInv
<1> USE DEF world, database, range, fetched, history
<1>1. CASE FetchStocks
  <2> PICK told \in Answers : Told(told)
    BY <1>1, FetchIs
  <2> SUFFICES ASSUME NEW c \in Codes, merged'[c] # NoStock
               PROVE  Follows(seenAs'[c], merged'[c])
    BY DEF MergedByPriority, Follows
  <2>1. merged[c] # NoStock => Follows(seenAs[c], merged[c])
    BY <1>0 DEF MergedByPriority, Follows
  <2>2. CASE c \notin told
    <3>1. merged'[c] = merged[c] /\ seenAs'[c] = seenAs[c]
      BY <2>2 DEF Told
    <3> QED
      BY <2>1, <3>1
  <2>3. CASE c \in told
    <3>1. registry[c] \in Stock
      BY <1>0, <2>3 DEF Answers, Asked, TypeOK
    <3>2. merged'[c] = Merge(merged[c], registry[c])
          /\ seenAs'[c] = seenAs[c] \union {registry[c]}
      BY <2>3 DEF Told
    <3>3. CASE merged[c] = NoStock
      <4>1. seenAs[c] = {} /\ merged'[c] = registry[c]
        BY <1>0, <1>1, <3>2, <3>3 DEF ToldInv, FetchStocks, Merge
      <4> QED
        BY <3>2, <4>1 DEF Follows
    <3>4. CASE merged[c] # NoStock
      <4>1. merged[c] \in Stock /\ seenAs[c] \in SUBSET Stock
        BY <1>0, <3>4 DEF TypeOK
      <4>2. /\ merged[c].identity = registry[c].identity
            /\ ~DatesDiffer(merged[c].delisted, registry[c].delisted)
        BY <2>3, <3>4 DEF Told, Conflicting
      <4>3. Follows(seenAs[c] \union {registry[c]}, Merged(merged[c], registry[c]))
        BY <2>1, <3>1, <3>4, <4>1, <4>2, MergeFollows
      <4> QED
        BY <3>2, <3>4, <4>3 DEF Merge
    <3> QED
      BY <3>3, <3>4
  <2> QED
    BY <2>2, <2>3
<1>2. ASSUME UNCHANGED <<merged, seenAs>> PROVE MergedByPriority'
  BY <1>0, <1>2 DEF MergedByPriority
<1>3. ASSUME \/ FetchCalendar \/ AcceptCalendar \/ WriteStocks
             \/ UNCHANGED vars
             \/ \E c \in Codes, new \in Stock : Change(c, new)
      PROVE  UNCHANGED <<merged, seenAs>>
  BY <1>3 DEF FetchCalendar, AcceptCalendar, WriteStocks, Change, vars
<1>4. ASSUME merged' = Nothing PROVE MergedByPriority'
  BY <1>4 DEF MergedByPriority, Nothing
<1>5. ASSUME \/ WriteCalendars \/ Crash
             \/ \E class \in Failures : Failed(class)
      PROVE  merged' = Nothing
  BY <1>5 DEF WriteCalendars, Crash, Failed, Fail, Forget
<1>6. ASSUME NEW f \in Days, NEW t \in Days, Begin(f, t) PROVE merged' = Nothing
  BY <1>0, <1>6 DEF Begin, LoopInv
<1>7. \/ FetchStocks \/ UNCHANGED <<merged, seenAs>> \/ merged' = Nothing
  BY <1>0, <1>3, <1>5, <1>6, Cases
<1> QED
  BY <1>1, <1>2, <1>4, <1>7

LEMMA StillInv_Next == SyncInv /\ [Next]_vars => StillInv'
<1> SUFFICES ASSUME SyncInv, [Next]_vars, NEW c \in Codes \ moved'
             PROVE  Still(c)'
  BY DEF StillInv
<1>0. TypeOK /\ LoopInv /\ ToldInv /\ MergedByPriority /\ StillInv
  BY DEF SyncInv
<1> USE DEF Fetched, world, database, range, fetched, history
<1>1. ASSUME NEW f \in Days, NEW t \in Days, Begin(f, t)
      PROVE  Still(c)'
  BY <1>1 DEF Begin, Still
<1>2. CASE FetchStocks
  <2> PICK told \in Answers : Told(told)
    BY <1>2, FetchIs
  <2>1. moved' = moved /\ registry' = registry
    BY <1>2 DEF FetchStocks
  <2>2. seenAs[c] \subseteq {registry[c]}
    BY <1>0, <2>1 DEF StillInv, Still
  <2>3. ASSUME c \in told PROVE merged'[c] = registry[c]
    <3>1. registry[c] \in Stock /\ merged[c] \in Stock \union {NoStock}
      BY <1>0, <2>3 DEF Answers, Asked, TypeOK
    <3>2. merged[c] \in {NoStock, registry[c]}
      BY <1>0, <2>2, <3>1, OneWay DEF MergedByPriority, Follows
    <3> QED
      BY <2>3, <3>1, <3>2, MergeSame DEF Told
  <2>4. ASSUME registry[c] # NoStock, ~cut', NEW i \in 1..part,
               registry[c].status = Statuses[i]
        PROVE  merged'[c] = registry[c]
    <3>1. told = Asked /\ ~cut
      BY <2>4 DEF Told
    <3>2. CASE c \in told
      BY <2>3, <3>2
    <3>3. CASE c \notin told
      <4>1. i # part
        BY <2>4, <3>1, <3>3 DEF Asked
      <4>2. i \in 1..(part - 1)
        BY <1>0, <4>1 DEF TypeOK
      <4>3. merged[c] = registry[c]
        BY <1>0, <1>2, <2>1, <2>4, <3>1, <4>2 DEF StillInv, Still, FetchStocks
      <4> QED
        BY <3>3, <4>3 DEF Told
    <3> QED
      BY <3>2, <3>3
  <2>5. seenAs'[c] \subseteq {registry[c]}
    BY <2>2 DEF Told
  <2>6. CASE part = 3
    <3>1. pc' = "calendar"
      BY <1>2, <2>6, Constants DEF FetchStocks, AfterStatus
    <3>2. registry[c] # NoStock => \E i \in 1..3 : registry[c].status = Statuses[i]
      <4>1. registry[c] # NoStock => registry[c].status \in {"L", "D", "P"}
        BY <1>0, StockFacts DEF TypeOK
      <4> QED
        BY <4>1, Constants
    <3> QED
      BY <2>1, <2>4, <2>5, <2>6, <3>1, <3>2 DEF Still
  <2>7. CASE part # 3
    <3>1. pc' = "stocks" /\ part' = part + 1
      BY <1>2, <2>7, Constants DEF FetchStocks, AfterStatus
    <3>2. 1..(part' - 1) = 1..part
      BY <1>0, <3>1 DEF TypeOK
    <3> QED
      BY <2>1, <2>4, <2>5, <3>1, <3>2 DEF Still
  <2> QED
    BY <2>6, <2>7
<1>3. CASE FetchCalendar \/ AcceptCalendar
  <2>1. /\ UNCHANGED <<registry, moved, merged, seenAs, cut>>
        /\ pc \in {"calendar", "check"} /\ pc' \in {"calendar", "check", "write"}
    BY <1>3 DEF FetchCalendar, AcceptCalendar
  <2> QED
    BY <1>0, <2>1 DEF StillInv, Still
<1>4. CASE WriteStocks
  <2>1. /\ UNCHANGED <<registry, moved, merged, seenAs, cut>>
        /\ pc = "write" /\ pc' = "writeDays"
        /\ stocks'[c] = IF merged[c] # NoStock THEN merged[c] ELSE stocks[c]
    BY <1>4 DEF WriteStocks
  <2> QED
    BY <1>0, <2>1 DEF StillInv, Still
<1>5. CASE WriteCalendars \/ Crash \/ \E class \in Failures : Failed(class)
  <2>1. UNCHANGED <<registry, moved, seenAs, cut>> /\ pc' \in {"idle", "done"}
    BY <1>5 DEF WriteCalendars, Crash, Failed, Fail
  <2> QED
    BY <1>0, <2>1 DEF StillInv, Still
<1>6. ASSUME NEW d \in Codes, NEW new \in Stock, Change(d, new)
      PROVE  /\ UNCHANGED <<pc, part, merged, seenAs, stocks, cut>>
             /\ registry'[c] = registry[c] /\ c \in Codes \ moved
  BY <1>0, <1>6 DEF Change, TypeOK
<1>7. ASSUME UNCHANGED <<pc, part, merged, seenAs, stocks, cut>>,
             registry'[c] = registry[c], c \in Codes \ moved
      PROVE  Still(c)'
  BY <1>0, <1>7 DEF StillInv, Still
<1>8. ASSUME \E d \in Codes, new \in Stock : Change(d, new) PROVE Still(c)'
  BY <1>6, <1>7, <1>8
<1>9. CASE UNCHANGED vars
  <2>1. /\ UNCHANGED <<pc, part, merged, seenAs, stocks, cut>>
        /\ registry'[c] = registry[c] /\ c \in Codes \ moved
    BY <1>9 DEF vars
  <2> QED
    BY <2>1, <1>7
<1> QED
  BY <1>0, <1>1, <1>2, <1>3, <1>4, <1>5, <1>8, <1>9, Cases

LEMMA StocksStored_Next == SyncInv /\ [Next]_vars => StocksStored'
<1> SUFFICES ASSUME SyncInv, [Next]_vars PROVE StocksStored'
  OBVIOUS
<1>0. TypeOK /\ StillInv /\ StocksStored
  BY DEF SyncInv
<1> USE DEF world, database, range, fetched, history
<1>1. CASE WriteCalendars
  <2>1. pc = "writeDays" /\ UNCHANGED <<registry, stocks, moved, cut>>
    BY <1>1 DEF WriteCalendars
  <2>2. ~cut => \A c \in Codes \ moved : registry[c] # NoStock => stocks[c] = registry[c]
    BY <1>0, <2>1 DEF StillInv, Still
  <2> QED
    BY <2>1, <2>2 DEF StocksStored
<1>2. ASSUME NEW class \in Failures, Failed(class) PROVE StocksStored'
  BY <1>2 DEF Failed, Fail, Failures, StocksStored
<1>3. ASSUME NEW d \in Codes, NEW new \in Stock, Change(d, new) PROVE StocksStored'
  <2>1. /\ UNCHANGED <<pc, result, stocks, cut>> /\ moved' = moved \union {d}
        /\ registry' = [registry EXCEPT ![d] = new]
    BY <1>3 DEF Change
  <2>2. \A c \in Codes \ moved' : c \in Codes \ moved /\ registry'[c] = registry[c]
    BY <1>0, <2>1 DEF TypeOK
  <2> QED
    BY <1>0, <2>1, <2>2 DEF StocksStored
<1>4. ASSUME \E f, t \in Days : Begin(f, t) PROVE pc' # "done"
  BY <1>4 DEF Begin
<1>5. CASE FetchStocks \/ FetchCalendar \/ AcceptCalendar \/ WriteStocks \/ Crash
  <2>1. pc' # "done"
    BY <1>0, <1>5
       DEF FetchStocks, AfterStatus, FetchCalendar, AcceptCalendar, WriteStocks, Crash
  <2> QED
    BY <2>1 DEF StocksStored
<1>6. CASE UNCHANGED vars
  BY <1>0, <1>6 DEF vars, StocksStored
<1>7. ASSUME pc' # "done" PROVE StocksStored'
  BY <1>7 DEF StocksStored
<1> QED
  BY <1>0, <1>1, <1>2, <1>3, <1>4, <1>5, <1>6, <1>7, Cases

\* Nothing that stood still is refused for its identity or its date.
LEMMA NoConflict ==
  ASSUME SyncInv, moved = {}
  PROVE  \A told \in Answers : \A c \in told : ~Conflicting(c)
<1>1. StillInv /\ MergedByPriority /\ TypeOK
  BY DEF SyncInv
<1> SUFFICES ASSUME NEW c \in Codes, registry[c] # NoStock, merged[c] # NoStock
             PROVE  merged[c] = registry[c]
  BY DEF Conflicting, DatesDiffer, Answers, Asked
<1>2. registry[c] \in Stock /\ merged[c] \in Stock
  BY <1>1 DEF TypeOK
<1>3. Follows(seenAs[c], merged[c]) /\ seenAs[c] \subseteq {registry[c]}
  BY <1>1 DEF MergedByPriority, Follows, StillInv, Still
<1> QED
  BY <1>2, <1>3, OneWay

LEMMA HonestAccepted_Next == SyncInv /\ [Next]_vars => HonestAccepted'
<1> SUFFICES ASSUME SyncInv, [Next]_vars PROVE HonestAccepted'
  OBVIOUS
<1>0. TypeOK /\ HonestAccepted
  BY DEF SyncInv
<1> USE DEF world, database, range, fetched, history
<1>1. CASE WriteCalendars
  BY <1>0, <1>1 DEF WriteCalendars, HonestAccepted, TypeOK
<1>2. ASSUME NEW class \in Failures, Failed(class), honest', moved' = {} PROVE FALSE
  <2>1. honest /\ moved = {}
    BY <1>0, <1>2 DEF Failed, Fail, TypeOK
  <2>2. ~RefuseConflict
    BY <2>1, NoConflict DEF RefuseConflict
  <2>3. ~RefuseCalendar /\ ~RefuseContradiction
    BY <2>1, HonestPasses DEF RefuseCalendar, RefuseContradiction
  <2> QED
    BY <1>2, <2>2, <2>3 DEF Failed
<1>3. ASSUME \E class \in Failures : Failed(class) PROVE HonestAccepted'
  BY <1>2, <1>3 DEF HonestAccepted
<1>4. ASSUME NEW d \in Codes, NEW new \in Stock, Change(d, new) PROVE HonestAccepted'
  BY <1>4 DEF Change, HonestAccepted
<1>5. ASSUME \E f, t \in Days : Begin(f, t) PROVE pc' # "done"
  BY <1>5 DEF Begin
<1>6. CASE FetchStocks \/ FetchCalendar \/ AcceptCalendar \/ WriteStocks \/ Crash
  <2>1. pc' # "done"
    BY <1>0, <1>6
       DEF FetchStocks, AfterStatus, FetchCalendar, AcceptCalendar, WriteStocks, Crash
  <2> QED
    BY <2>1 DEF HonestAccepted
<1>7. CASE UNCHANGED vars
  BY <1>0, <1>7 DEF vars, HonestAccepted
<1>8. ASSUME pc' # "done" PROVE HonestAccepted'
  BY <1>8 DEF HonestAccepted
<1> QED
  BY <1>0, <1>1, <1>3, <1>4, <1>5, <1>6, <1>7, <1>8, Cases

------------------------------------------------------------------------------
(* Everything together. *)

LEMMA SyncInv_Init == Init => SyncInv
<1> SUFFICES ASSUME Init PROVE SyncInv
  OBVIOUS
<1>1. TypeOK
  <2>1. registry \in [Codes -> Stock \union {NoStock}]
    BY DEF Init
  <2>2. /\ merged \in [Codes -> Stock \union {NoStock}]
        /\ stocks \in [Codes -> Stock \union {NoStock}]
        /\ rows \in [Days -> Nat]
        /\ accepted \in [{"SSE", "SZSE"} -> SUBSET Days]
        /\ days \in [{"SSE", "SZSE"} -> SUBSET Days]
    BY DEF Init, Nothing, NoRows, NoDays
  <2>3. from \in Days /\ through \in Days /\ year \in {YearOf[d] : d \in Days}
    BY DEF Init
  <2>4. changes \in 0..MaxChanges /\ part \in 1..3
    BY StocksAssumption DEF Init
  <2>5. seenAs \in [Codes -> SUBSET Stock] /\ moved \subseteq Codes
        /\ written \subseteq Days
    BY DEF Init
  <2>6. pc = "idle" /\ result = "ok" /\ honest = TRUE /\ cut = FALSE
    BY DEF Init
  <2> QED
    BY <2>1, <2>2, <2>3, <2>4, <2>5, <2>6 DEF TypeOK
<1>2. LoopInv
  BY DayFacts DEF Init, LoopInv, Fetching
<1>3. AcceptedInv /\ HonestInv /\ ToldInv
  BY DEF Init, AcceptedInv, HonestInv, ToldInv, Fetching
<1>4. StillInv
  BY DEF Init, StillInv, Still, Fetched
<1>5. CalendarWhole
  BY DEF Init, CalendarWhole, NoDays
<1>6. StocksStored /\ HonestAccepted
  BY DEF Init, StocksStored, HonestAccepted
<1>7. MergedByPriority
  BY DEF Init, MergedByPriority, Nothing
<1> QED
  BY <1>1, <1>2, <1>3, <1>4, <1>5, <1>6, <1>7 DEF SyncInv

LEMMA SyncAlways == Spec => []SyncInv
<1>1. SyncInv /\ [Next]_vars => SyncInv'
  BY TypeOK_Next, LoopInv_Next, AcceptedInv_Next, HonestInv_Next, StillInv_Next, ToldInv_Next,
     CalendarWhole_Next, StocksStored_Next, MergedByPriority_Next, HonestAccepted_Next
     DEF SyncInv
<1> QED
  BY SyncInv_Init, <1>1, PTL DEF Spec

\* Every variable keeps its type; the year asked for next is one the calendar has.
THEOREM TypeCorrect == Spec => []TypeOK
BY SyncAlways, PTL DEF SyncInv

\* Both exchanges hold a calendar row for every day of every range that was
\* committed and for no other, whatever the provider left out, doubled or added
\* and wherever a sync failed or died: fetchCalendars compares the number of
\* different dates with the length of the range and refuses a date outside it,
\* and as many days as the range has, none outside, are all of them.
THEOREM CalendarStaysWhole == Spec => []CalendarWhole
BY SyncAlways, PTL DEF SyncInv

\* After Sync returns nil a stock that stood still since it began is stored as it
\* is, unless the provider cut an answer at its row limit: its status is one of
\* the three that are fetched, mergeInitialStock keeps what it was told of it, and
\* both transactions have committed.
THEOREM StillStocksAreStored == Spec => []StocksStored
BY SyncAlways, PTL DEF SyncInv

\* What a code was merged to has the status that comes first in D > L > P among
\* the answers about it, whatever the order in which they came, the identity of
\* all of them and the one delisting date they had: stockStatusPriority and
\* mergeInitialStock.
THEOREM MergeFollowsPriority == Spec => []MergedByPriority
BY SyncAlways, PTL DEF SyncInv

\* A sync whose every call is answered as asked, and during which no stock
\* changes, succeeds: neither a conflict between answers nor the checks of the
\* calendar refuse it.
THEOREM HonestIsAccepted == Spec => []HonestAccepted
BY SyncAlways, PTL DEF SyncInv
===============================================================================
