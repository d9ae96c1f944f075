-------------------------------- MODULE Decimal --------------------------------
(***************************************************************************)
(* types.Decimal of internal/shared/types/decimal.go: exact base-ten       *)
(* numbers, parsed from text and kept in a normalized form.                *)
(*                                                                         *)
(* A text that matches decimalPattern is a literal [coef, frac, exp]: its  *)
(* digits as one signed integer, how many of them follow the point, and    *)
(* its exponent, written in the shortest way and only when it is not 0.    *)
(* A Decimal is [coef, scale], the value coef / 10^scale.                  *)
(***************************************************************************)
EXTENDS Integers

CONSTANTS
  MaxText,      \* longest text ParseDecimal takes: 256
  MaxExponent,  \* largest exponent, in size: 256
  MaxDigits     \* longest normalized coefficient, its sign included: 256

ASSUME LimitsAssumption ==
  MaxText \in Nat /\ MaxExponent \in Nat /\ MaxDigits \in Nat

AbsOf(n) == IF n < 0 THEN -n ELSE n
Greater(m, n) == IF m > n THEN m ELSE n

\* Powers of ten.
Ten[n \in Nat] == IF n = 0 THEN 1 ELSE 10 * Ten[n - 1]

\* Length of a number's decimal digits and of its sign.
DigitsOf[m \in Nat] == IF m < 10 THEN 1 ELSE 1 + DigitsOf[m \div 10]
Digits(n) == DigitsOf[AbsOf(n)]
Sign(n) == IF n < 0 THEN 1 ELSE 0

TextLen(l) ==
  Sign(l.coef) + Greater(Digits(l.coef), l.frac + 1)
  + (IF l.frac > 0 THEN 1 ELSE 0)
  + (IF l.exp # 0 THEN 1 + Sign(l.exp) + Digits(l.exp) ELSE 0)

\* Mutant: the trailing zeros stay.
PartsKeepZeros(l) ==
  LET s == l.frac - l.exp IN
  IF s < 0 THEN [coef |-> l.coef * Ten[-s], scale |-> 0]
  ELSE [coef |-> l.coef, scale |-> s]

\* How many of the last s digits of c are zeros that nothing follows.
TrailingZeros(c, s) ==
  CHOOSE k \in 0..s : c % Ten[k] = 0 /\ \A j \in (k + 1)..s : c % Ten[j] # 0

\* decimalParts: shift the point by the exponent, then drop the zeros that
\* trail behind the point.
Parts(l) ==
  LET s == l.frac - l.exp
      zeros == TrailingZeros(l.coef, s) IN
  IF s < 0 THEN [coef |-> l.coef * Ten[-s], scale |-> 0]
  ELSE [coef |-> l.coef \div Ten[zeros], scale |-> s - zeros]

\* ParseDecimal accepts the text.
Parses(l) ==
  /\ TextLen(l) <= MaxText
  /\ AbsOf(l.exp) <= MaxExponent
  /\ LET c == Parts(l).coef IN Sign(c) + Digits(c) <= MaxDigits

\* formatDecimal, Decimal.String: no exponent.
TextOf(d) == [coef |-> d.coef, frac |-> d.scale, exp |-> 0]

\* Mutant: counts all digits against the precision.
FitsTotal(d, col) ==
  d.scale <= col.scale /\ Digits(d.coef) <= col.precision

\* Decimal.Fits for DECIMAL(precision, scale).
Fits(d, col) ==
  LET integerDigits == IF d.coef = 0 THEN 0 ELSE Greater(Digits(d.coef) - d.scale, 0) IN
  d.scale <= col.scale /\ integerDigits <= col.precision - col.scale

\* Decimal.MultiplyInt64: the literal that is parsed again, then its value.
ProductText(d, n) == TextOf([d EXCEPT !.coef = @ * n])
Product(d, n) == Parts(ProductText(d, n))

\* Decimal.Cmp, as the exact comparison d <= e; the sign tells it from zero.
AtMost(d, e) == d.coef * Ten[e.scale] <= e.coef * Ten[d.scale]
Positive(d) == d.coef > 0
Negative(d) == d.coef < 0
===============================================================================
