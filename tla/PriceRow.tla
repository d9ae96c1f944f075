-------------------------------- MODULE PriceRow --------------------------------
(***************************************************************************)
(* The way of one provider row with numbers in it: decoded and mapped      *)
(* (tushare/mapping.go: daily, adj_factor, stk_limit), written by the      *)
(* market repository to DECIMAL columns and read back as text              *)
(* (mysql/repositories.go).  A stk_limit row is only mapped.               *)
(***************************************************************************)
EXTENDS Decimal, FiniteSets

CONSTANTS
  Rows,                                    \* rows the provider may answer
  Missing,                                 \* a field that is absent or null
  NotANumber,                              \* a field with another JSON value
  PriceColumn, AmountColumn, FactorColumn, \* [precision, scale] of DECIMAL
  Thousand                                 \* yuan in the provider's unit

Prices == {"open", "high", "low", "close"}
Limits == {"up_limit", "down_limit"}

\* Of the optional fields of a row, all decoded alike, the model has one.
Optional(kind) == IF kind = "adj_factor" THEN {} ELSE {"pre_close"}
Required(kind) ==
  CASE kind = "daily" -> Prices \union {"vol", "amount"}
    [] kind = "adj_factor" -> {"adj_factor"}
    [] kind = "stk_limit" -> Limits

Column(f) ==
  IF f \in {"vol", "amount"} THEN AmountColumn
  ELSE IF f = "adj_factor" THEN FactorColumn ELSE PriceColumn

\* A row is of a known kind and has the fields of it; a field is a literal, is
\* missing, or is something else.
Literals == [coef : Int, frac : Nat, exp : Int]
ASSUME RowsAssumption ==
  \A r \in Rows :
    /\ r.kind \in {"daily", "adj_factor", "stk_limit"}
    /\ r.named \in BOOLEAN /\ r.meta \in BOOLEAN
    /\ Required(r.kind) \subseteq DOMAIN r.cells
    /\ \A f \in DOMAIN r.cells : r.cells[f] \in {Missing, NotANumber}
                                  \/ r.cells[f] \in Literals

\* The parser takes every text that a column can produce, also an amount's
\* before its zeros are dropped: 256 characters are more than 24 digits.
ASSUME ColumnsAssumption ==
  \A col \in {PriceColumn, AmountColumn, FactorColumn} :
    /\ col.precision \in Nat \ {0} /\ col.scale \in 0..col.precision
    /\ col.precision <= MaxDigits /\ col.precision + 2 <= MaxText
ASSUME ThousandAssumption ==
  /\ Thousand \in Nat \ {0} /\ Thousand = Ten[Digits(Thousand) - 1]
  /\ AmountColumn.precision + Digits(Thousand) + 1 <= MaxText

VARIABLES
  raw,     \* [kind, cells, named, meta]: the row; "named" says that ts_code and
           \* trade_date are right, "meta" that fetched_at and source_hash are
  stage,   \* how far the row has come
  item,    \* the mapped record: a Decimal per field
  stored,  \* the row of the table: per column an integer in units of its scale
  got      \* what ListByCode or ListByDate returns for it

vars == <<raw, stage, item, stored, got>>

Nothing == << >>

Init ==
  /\ raw \in Rows
  /\ stage = "fetched"
  /\ item = Nothing /\ stored = Nothing /\ got = Nothing

------------------------------------------------------------------------------
(* mapping.go *)

\* requiredDecimal, optionalDecimal
IsNumber(cell) == cell \notin {Missing, NotANumber} /\ Parses(cell)
Decodable(row) ==
  /\ row.named
  /\ \A f \in Required(row.kind) : IsNumber(row.cells[f])
  /\ \A f \in Optional(row.kind) \intersect DOMAIN row.cells :
       row.cells[f] = Missing \/ IsNumber(row.cells[f])

Number(row, f) == Parts(row.cells[f])

Consistent(open, high, low, close) ==
  /\ AtMost(open, high) /\ AtMost(close, high)
  /\ AtMost(low, open) /\ AtMost(low, close)
  /\ AtMost(low, high)

PositiveFits(row, f) == Fits(Number(row, f), Column(f)) /\ Positive(Number(row, f))

DailyMappable(row) ==
  LET amount == Number(row, "amount") vol == Number(row, "vol") IN
  /\ row.meta
  /\ Parses(ProductText(amount, Thousand))
  /\ Fits(Product(amount, Thousand), AmountColumn) /\ Fits(vol, AmountColumn)
  /\ \A f \in Prices : PositiveFits(row, f)
  /\ ~Negative(vol) /\ ~Negative(amount)
  /\ Consistent(Number(row, "open"), Number(row, "high"),
                Number(row, "low"), Number(row, "close"))

Mappable(row) ==
  /\ Decodable(row)
  /\ CASE row.kind = "daily" -> DailyMappable(row)
       [] row.kind = "adj_factor" -> row.meta /\ PositiveFits(row, "adj_factor")
       [] row.kind = "stk_limit" -> \A f \in Limits : PositiveFits(row, f)

Mapped(row) ==
  [f \in Required(row.kind) |->
     IF f = "amount" THEN Product(Number(row, f), Thousand) ELSE Number(row, f)]

Map ==
  /\ stage = "fetched"
  /\ IF Mappable(raw) THEN stage' = "mapped" /\ item' = Mapped(raw)
     ELSE stage' = "refused" /\ UNCHANGED item
  /\ UNCHANGED <<raw, stored, got>>

------------------------------------------------------------------------------
(* repositories.go and its columns *)

\* validateDecimal: prices and factors are positive, amounts not negative.
Storable(f) ==
  /\ Fits(item[f], Column(f))
  /\ IF f \in {"vol", "amount"} THEN ~Negative(item[f]) ELSE Positive(item[f])

\* validateDailyPrice, validateAdjFactor
Acceptable ==
  /\ \A f \in DOMAIN item : Storable(f)
  /\ raw.kind = "daily" =>
       Consistent(item["open"], item["high"], item["low"], item["close"])

\* MySQL rounds a value to the scale of its column, and refuses one whose integer
\* part is too long.
Units(d, col) ==
  (2 * d.coef * Ten[col.scale] + Ten[d.scale]) \div (2 * Ten[d.scale])
InRange(d, col) == AbsOf(Units(d, col)) < Ten[col.precision]

Upsert ==
  /\ stage = "mapped" /\ raw.kind # "stk_limit"
  /\ IF Acceptable /\ \A f \in DOMAIN item : InRange(item[f], Column(f))
     THEN stage' = "stored" /\ stored' = [f \in DOMAIN item |-> Units(item[f], Column(f))]
     ELSE stage' = "rejected" /\ UNCHANGED stored
  /\ UNCHANGED <<raw, item, got>>

\* CAST(column AS CHAR) has as many decimals as the column.
CastText(f) == TextOf([coef |-> stored[f], scale |-> Column(f).scale])
Readable == \A f \in DOMAIN stored : Parses(CastText(f))
AsRead == [f \in DOMAIN stored |-> Parts(CastText(f))]

\* readDailyPrices, adjFactorRepository.ListByCode and ListByDate
Read ==
  /\ stage = "stored"
  /\ IF Readable THEN stage' = "read" /\ got' = AsRead
     ELSE stage' = "unreadable" /\ UNCHANGED got
  /\ UNCHANGED <<raw, item, stored>>

Done ==
  /\ \/ stage \in {"refused", "rejected", "unreadable", "read"}
     \/ stage = "mapped" /\ raw.kind = "stk_limit"
  /\ UNCHANGED vars

Next == Map \/ Upsert \/ Read \/ Done

Spec == Init /\ [][Next]_vars

------------------------------------------------------------------------------
(* Properties. *)

\* The value of a literal times 10^places, and whether it is a whole number.
Scaled(l, places) ==
  LET e == l.exp - l.frac + places IN
  IF e >= 0 THEN l.coef * Ten[e] ELSE l.coef \div Ten[-e]
Whole(l, places) ==
  LET e == l.exp - l.frac + places IN e < 0 => l.coef % Ten[-e] = 0

\* The column holds the literal, times 10^shift, without rounding.
Holds(col, l, shift) ==
  /\ Whole(l, col.scale + shift)
  /\ AbsOf(Scaled(l, col.scale + shift)) < Ten[col.precision]

Shift(f) == IF f = "amount" THEN Digits(Thousand) - 1 ELSE 0

\* The mapping accepts exactly the rows whose numbers are there, have the right
\* sign and order, and fit their columns without rounding: nothing is rounded
\* silently and no row that could be stored is refused (docs/04-tushare.md:
\* values beyond precision or scale are errors, never rounded).
AcceptedExactly ==
  stage # "fetched" =>
    LET fields == Required(raw.kind)
        cell(f) == raw.cells[f]
        units(f) == Scaled(cell(f), Column(f).scale + Shift(f)) IN
    (stage # "refused") <=>
      /\ raw.named /\ (raw.meta \/ raw.kind = "stk_limit")
      /\ \A f \in fields : IsNumber(cell(f)) /\ Holds(Column(f), cell(f), Shift(f))
      /\ \A f \in Optional(raw.kind) \intersect DOMAIN raw.cells :
           cell(f) = Missing \/ IsNumber(cell(f))
      /\ \A f \in fields : units(f) > 0 \/ (f \in {"vol", "amount"} /\ units(f) = 0)
      /\ raw.kind = "daily" =>
           \A f \in Prices : units("low") <= units(f) /\ units(f) <= units("high")

\* A row that was mapped is stored, so that it does not take the rest of its batch
\* down, the table has the provider's numbers (the amount in yuan) exactly, and
\* what is read back is the record that was written, in the same form.
StoredExactly ==
  /\ stage \notin {"rejected", "unreadable"}
  /\ stage \in {"stored", "read"} =>
       \A f \in DOMAIN stored :
         stored[f] = Scaled(raw.cells[f], Column(f).scale + Shift(f))
  /\ stage = "read" => got = item
===============================================================================
