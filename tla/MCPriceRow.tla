------------------------------ MODULE MCPriceRow ------------------------------
(* DECIMAL(3,1) for prices, DECIMAL(5,1) for amounts and DECIMAL(4,2) for the  *)
(* factor stand for (20,6), (24,4) and (24,10); the parser's limits are scaled *)
(* down with them but, as in the code, exceed what the columns hold.           *)
EXTENDS PriceRow, TLC

Lit(c, f, e) == [coef |-> c, frac |-> f, exp |-> e]

\* 5.0  1e1  10.0  99.9  0.1  1e-1  100  1.25  0.10  0  -1  and beyond the limits 1e5, 0.000000001
MCPrices == {Lit(50, 1, 0), Lit(1, 0, 1), Lit(100, 1, 0), Lit(999, 1, 0),
             Lit(1, 1, 0), Lit(1, 0, -1), Lit(100, 0, 0), Lit(125, 2, 0),
             Lit(10, 2, 0), Lit(0, 0, 0), Lit(-1, 0, 0), Lit(1, 0, 5), Lit(1, 9, 0)}

\* In thousands of yuan: 0.0001 is the smallest that fits, 9.9999 the largest.
MCAmounts == {Lit(0, 2, 0), Lit(1, 4, 0), Lit(99999, 4, 0), Lit(10, 0, 0),
              Lit(1, 5, 0), Lit(12, 1, -3), Lit(5, 0, 1), Lit(-2, 0, 0)}
MCVolumes == {Lit(0, 0, 0), Lit(99999, 1, 0), Lit(1, 0, 4), Lit(15, 2, 0),
              Lit(-5, 0, 0), Lit(123456, 0, 0)}
MCFactors == MCPrices \union {Lit(1, 2, 0), Lit(1, 3, 0), Lit(1000, 3, 0),
                              Lit(9999, 2, 0), Lit(1, 0, 2)}

NoValue == {Missing, NotANumber}
Good == Lit(50, 1, 0)

DailyCells(o, h, l, c, v, m, p) ==
  ("open" :> o) @@ ("high" :> h) @@ ("low" :> l) @@ ("close" :> c) @@
  ("vol" :> v) @@ ("amount" :> m) @@ ("pre_close" :> p)

Row(kind, cells) == [kind |-> kind, cells |-> cells, named |-> TRUE, meta |-> TRUE]

MCRows ==
  {Row("daily", DailyCells(o, h, l, c, Good, Good, Missing)) :
     o \in MCPrices, h \in MCPrices, l \in MCPrices, c \in MCPrices}
  \union
  {Row("daily", DailyCells(Good, h, Good, Good, v, m, p)) :
     h \in {Good} \union NoValue, v \in MCVolumes \union NoValue,
     m \in MCAmounts \union NoValue, p \in {Lit(1, 0, 5), Good} \union NoValue}
  \union
  {Row("adj_factor", "adj_factor" :> f) : f \in MCFactors \union NoValue}
  \union
  {Row("stk_limit", ("up_limit" :> u) @@ ("down_limit" :> d) @@ ("pre_close" :> p)) :
     u \in MCPrices \union NoValue, d \in MCPrices \union NoValue,
     p \in {Good} \union NoValue}
  \union
  {[kind |-> k, cells |-> DailyCells(Good, Good, Good, Good, Good, Good, Missing)
                            @@ [f \in {"adj_factor"} \union Limits |-> Good],
    named |-> n, meta |-> m] :
     k \in {"daily", "adj_factor", "stk_limit"}, n \in BOOLEAN, m \in BOOLEAN}

MCPriceColumn == [precision |-> 3, scale |-> 1]
MCAmountColumn == [precision |-> 5, scale |-> 1]
MCFactorColumn == [precision |-> 4, scale |-> 2]
================================================================================
