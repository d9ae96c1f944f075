---------------------------- MODULE PriceRowProofs ----------------------------
(***************************************************************************)
(* Proofs about Decimal and PriceRow for numbers of any size, any columns, *)
(* and any limits of the parser that exceed what the columns hold: a row   *)
(* is accepted exactly when its numbers fit, stored exactly, and read back *)
(* as it was written.                                                      *)
(***************************************************************************)
EXTENDS PriceRow, LeastNumber

------------------------------------------------------------------------------
(* Powers of ten. *)

LEMMA TenDef ==
  /\ Ten \in [Nat -> Nat]
  /\ \A n \in Nat : Ten[n] = IF n = 0 THEN 1 ELSE 10 * Ten[n - 1]
<1> DEFINE zero == {0}
           one == [n \in Nat |-> 1]
           before == [n \in Nat |-> IF n = 0 THEN 0 ELSE n - 1]
           times == [v \in Nat |-> 10 * v]
           Is(f) == f = [n \in Nat |-> IF n = 0 THEN 1 ELSE 10 * f[n - 1]]
<1>1. PICK f \in [Nat -> Nat] :
        Recurs(f, zero, one, before, times)
  <2>1. /\ one \in [Nat -> Nat] /\ before \in [Nat -> Nat] /\ times \in [Nat -> Nat]
        /\ \A n \in Nat \ zero : before[n] < n
    OBVIOUS
  <2> HIDE DEF zero, one, before, times
  <2> QED
    BY <2>1, RecursionExists, Zenon
<1>2. Is(f)
  <2>1. ASSUME NEW n \in Nat PROVE f[n] = IF n = 0 THEN 1 ELSE 10 * f[n - 1]
    <3>1. one[n] = 1 /\ (n \in zero <=> n = 0) /\ (n # 0 => before[n] = n - 1 /\ n - 1 \in Nat)
      OBVIOUS
    <3>2. \A v \in Nat : times[v] = 10 * v
      OBVIOUS
    <3>3. f[n] = IF n \in zero THEN one[n] ELSE times[f[before[n]]]
      BY <1>1 DEF Recurs
    <3> HIDE DEF zero, one, before, times
    <3>4. n # 0 => f[n - 1] \in Nat
      BY <3>1
    <3> QED
      BY <3>1, <3>2, <3>3, <3>4
  <2> QED
    BY <2>1
<1>3. Ten = CHOOSE g : Is(g)
  BY DEF Ten
<1>4. Is(Ten)
  <2> HIDE DEF Is
  <2> QED
    BY <1>2, <1>3
<1>5. ASSUME NEW n \in Nat PROVE Ten[n] = IF n = 0 THEN 1 ELSE 10 * Ten[n - 1]
  BY <1>4
<1>6. DOMAIN Ten = Nat
  BY <1>4
<1> DEFINE Bad == {n \in Nat : Ten[n] \notin Nat}
<1>7. Bad = {}
  <2> SUFFICES ASSUME Bad # {} PROVE FALSE
    OBVIOUS
  <2>1. PICK n \in Bad : \A k \in Bad : n <= k
    BY LeastExists
  <2>2. n # 0 /\ n - 1 \in Nat /\ n - 1 \notin Bad
    BY <1>5, <2>1
  <2> QED
    BY <1>5, <2>2
<1>8. Ten \in [Nat -> Nat]
  <2>1. Ten = [n \in Nat |-> Ten[n]]
    BY <1>4
  <2>2. \A n \in Nat : Ten[n] \in Nat
    BY <1>7
  <2> HIDE DEF Is
  <2> QED
    BY <2>1, <2>2
<1> QED
  BY <1>5, <1>8

LEMMA TenFacts ==
  /\ Ten[0] = 1 /\ Ten[1] = 10
  /\ \A n \in Nat : Ten[n] \in Nat \ {0} /\ Ten[n + 1] = 10 * Ten[n]
<1>1. Ten[0] = 1 /\ Ten[1] = 10
  <2>1. Ten[0] = 1
    BY TenDef
  <2> QED
    BY <2>1, TenDef
<1>2. \A n \in Nat : Ten[n] \in Nat /\ Ten[n + 1] = 10 * Ten[n]
  BY TenDef
<1> DEFINE Bad == {n \in Nat : Ten[n] = 0}
<1>3. Bad = {}
  <2> SUFFICES ASSUME Bad # {} PROVE FALSE
    OBVIOUS
  <2>1. PICK n \in Bad : \A k \in Bad : n <= k
    BY LeastExists
  <2>2. n # 0 /\ n - 1 \in Nat /\ n - 1 \notin Bad
    BY <1>1, <2>1
  <2>3. Ten[n] = 10 * Ten[n - 1] /\ Ten[n - 1] \in Nat
    BY <2>2, TenDef
  <2> QED
    BY <2>2, <2>3
<1> QED
  BY <1>1, <1>2, <1>3

LEMMA TenAdds == \A m, n \in Nat : Ten[m + n] = Ten[m] * Ten[n]
<1> SUFFICES ASSUME NEW m \in Nat PROVE \A n \in Nat : Ten[m + n] = Ten[m] * Ten[n]
  OBVIOUS
<1> DEFINE Bad == {n \in Nat : Ten[m + n] # Ten[m] * Ten[n]}
<1> SUFFICES ASSUME Bad # {} PROVE FALSE
  OBVIOUS
<1>1. PICK n \in Bad : \A k \in Bad : n <= k
  BY LeastExists
<1>2. n # 0
  BY TenFacts
<1>3. n - 1 \in Nat /\ Ten[m + (n - 1)] = Ten[m] * Ten[n - 1]
  BY <1>1, <1>2
<1>4. Ten[n] = 10 * Ten[n - 1] /\ Ten[m + n] = 10 * Ten[m + (n - 1)]
  <2>1. (n - 1) + 1 = n /\ (m + (n - 1)) + 1 = m + n /\ m + (n - 1) \in Nat
    BY <1>3
  <2> QED
    BY <1>3, <2>1, TenFacts
<1>5. \A a, b \in Nat : a * (10 * b) = 10 * (a * b)
  OBVIOUS
<1>6. Ten[m] \in Nat /\ Ten[n - 1] \in Nat
  BY <1>3, TenFacts
<1> QED
  BY <1>3, <1>4, <1>5, <1>6

LEMMA TenType == \A n \in Nat : Ten[n] \in Nat \ {0} /\ Ten[n] \in Int
BY TenFacts

LEMMA TenSum ==
  ASSUME NEW m \in Nat, NEW n \in Nat, NEW x, x = m + n
  PROVE  Ten[x] = Ten[m] * Ten[n]
BY TenAdds

LEMMA TenGrows == \A m, n \in Nat : m <= n => Ten[m] <= Ten[n]
<1> SUFFICES ASSUME NEW m \in Nat, NEW n \in Nat, m <= n PROVE Ten[m] <= Ten[n]
  OBVIOUS
<1>1. n - m \in Nat /\ m + (n - m) = n
  OBVIOUS
<1>2. Ten[n] = Ten[m] * Ten[n - m]
  BY <1>1, TenAdds
<1>3. \A a, b \in Nat \ {0} : a <= a * b
  OBVIOUS
<1>4. Ten[m] \in Nat \ {0} /\ Ten[n - m] \in Nat \ {0}
  BY <1>1, TenType
<1> QED
  BY <1>2, <1>3, <1>4

------------------------------------------------------------------------------
(* Division, comparison under a common factor. *)

LEMMA Divides ==
  ASSUME NEW a \in Int, NEW b \in Nat \ {0}
  PROVE  /\ a % b = 0 => a \div b \in Int /\ a = (a \div b) * b
         /\ \A q \in Int : a = q * b => a % b = 0 /\ a \div b = q
<1>1. a = b * (a \div b) + (a % b) /\ a \div b \in Int /\ a % b \in 0..(b - 1)
  OBVIOUS
<1>2. a % b = 0 => a = (a \div b) * b
  BY <1>1
<1>3. ASSUME NEW q \in Int, a = q * b PROVE a % b = 0 /\ a \div b = q
  <2> DEFINE k == a \div b
             r == a % b
  <2>1. k \in Int /\ r \in Nat /\ r < b /\ q * b = b * k + r
    BY <1>1, <1>3
  <2> HIDE DEF k, r
  <2>2. (q - k) * b = r
    BY <2>1
  <2>3. CASE q - k = 0
    BY <2>1, <2>2, <2>3 DEF k, r
  <2>4. CASE q - k >= 1
    <3>1. \A x, y \in Nat \ {0} : x * y >= y
      OBVIOUS
    <3>2. (q - k) * b >= b
      BY <2>1, <2>4, <3>1
    <3> QED
      BY <2>1, <2>2, <3>2
  <2>5. CASE q - k <= -1
    <3>1. \A x, y \in Nat \ {0} : (-x) * y < 0
      OBVIOUS
    <3>2. k - q \in Nat \ {0} /\ q - k = -(k - q)
      BY <2>1, <2>5
    <3>3. (q - k) * b < 0
      BY <3>1, <3>2
    <3> QED
      BY <2>1, <2>2, <3>3
  <2> QED
    BY <2>1, <2>3, <2>4, <2>5
<1> QED
  BY <1>1, <1>2, <1>3

LEMMA SameFactor ==
  ASSUME NEW a \in Int, NEW b \in Int, NEW c \in Nat \ {0}
  PROVE  /\ a * c <= b * c <=> a <= b
         /\ a * c < b * c <=> a < b
         /\ a * c = b * c <=> a = b
         /\ AbsOf(a * c) = AbsOf(a) * c
<1>1. \A x, y \in Nat \ {0} : x * y > 0
  OBVIOUS
<1>2. a < b => a * c < b * c
  <2>1. ASSUME a < b PROVE a * c < b * c
    <3>1. (b - a) * c > 0
      BY <1>1, <2>1
    <3> QED
      BY <3>1
  <2> QED
    BY <2>1
<1>3. b < a => b * c < a * c
  <2>1. ASSUME b < a PROVE b * c < a * c
    <3>1. (a - b) * c > 0
      BY <1>1, <2>1
    <3> QED
      BY <3>1
  <2> QED
    BY <2>1
<1>4. a * c \in Int /\ b * c \in Int
  OBVIOUS
<1>5. a = b => a * c = b * c
  OBVIOUS
<1>6. AbsOf(a * c) = AbsOf(a) * c
  <2>1. CASE a < 0
    <3>1. (-a) * c > 0 /\ (-a) * c = -(a * c)
      BY <1>1, <2>1
    <3> QED
      BY <1>4, <2>1, <3>1 DEF AbsOf
  <2>2. CASE a = 0
    BY <2>2 DEF AbsOf
  <2>3. CASE a > 0
    <3>1. a * c > 0
      BY <1>1, <2>3
    <3> QED
      BY <1>4, <2>3, <3>1 DEF AbsOf
  <2> QED
    BY <2>1, <2>2, <2>3
<1> QED
  BY <1>2, <1>3, <1>4, <1>5, <1>6

------------------------------------------------------------------------------
(* Digits. *)

LEMMA DigitsDef ==
  \A m \in Nat : /\ DigitsOf[m] \in Nat \ {0}
                 /\ DigitsOf[m] = IF m < 10 THEN 1 ELSE 1 + DigitsOf[m \div 10]
<1> DEFINE short == 0..9
           one == [n \in Nat |-> 1]
           shorter == [n \in Nat |-> n \div 10]
           more == [v \in Nat \ {0} |-> 1 + v]
           Is(f) == f = [m \in Nat |-> IF m < 10 THEN 1 ELSE 1 + f[m \div 10]]
<1>1. PICK f \in [Nat -> Nat \ {0}] : Recurs(f, short, one, shorter, more)
  <2>1. one \in [Nat -> Nat \ {0}] /\ more \in [Nat \ {0} -> Nat \ {0}]
    OBVIOUS
  <2>2. shorter \in [Nat -> Nat]
    OBVIOUS
  <2>3. \A n \in Nat \ short : shorter[n] < n
    OBVIOUS
  <2> HIDE DEF short, one, shorter, more
  <2> QED
    BY <2>1, <2>2, <2>3, RecursionExists, Zenon
<1>2. Is(f)
  <2>1. ASSUME NEW m \in Nat PROVE f[m] = IF m < 10 THEN 1 ELSE 1 + f[m \div 10]
    <3>1. one[m] = 1 /\ (m \in short <=> m < 10) /\ shorter[m] = m \div 10 /\ m \div 10 \in Nat
      OBVIOUS
    <3>2. \A v \in Nat \ {0} : more[v] = 1 + v
      OBVIOUS
    <3>3. f[m] = IF m \in short THEN one[m] ELSE more[f[shorter[m]]]
      BY <1>1 DEF Recurs
    <3> HIDE DEF short, one, shorter, more
    <3> QED
      BY <3>1, <3>2, <3>3
  <2> QED
    BY <2>1
<1>3. DigitsOf = CHOOSE g : Is(g)
  BY DEF DigitsOf
<1>4. Is(DigitsOf)
  <2> HIDE DEF Is
  <2> QED
    BY <1>2, <1>3
<1>5. ASSUME NEW m \in Nat
      PROVE  DigitsOf[m] = IF m < 10 THEN 1 ELSE 1 + DigitsOf[m \div 10]
  BY <1>4
<1> DEFINE Bad == {m \in Nat : DigitsOf[m] \notin Nat \ {0}}
<1>6. Bad = {}
  <2> SUFFICES ASSUME Bad # {} PROVE FALSE
    OBVIOUS
  <2>1. PICK m \in Bad : \A k \in Bad : m <= k
    BY LeastExists
  <2>2. ~(m < 10)
    BY <1>5
  <2>3. m \div 10 \in Nat /\ m \div 10 < m
    BY <2>2
  <2>4. m \div 10 \notin Bad
    BY <2>1, <2>3
  <2>5. DigitsOf[m] = 1 + DigitsOf[m \div 10]
    BY <1>5, <2>2
  <2> QED
    BY <2>3, <2>4, <2>5
<1> QED
  BY <1>5, <1>6

\* A number has at most k digits if it is less than 10^k.
LEMMA DigitsBound ==
  \A m \in Nat, k \in Nat \ {0} : DigitsOf[m] <= k <=> m < Ten[k]
<1> DEFINE Bad == {m \in Nat : \E k \in Nat \ {0} : ~(DigitsOf[m] <= k <=> m < Ten[k])}
<1> SUFFICES ASSUME Bad # {} PROVE FALSE
  OBVIOUS
<1>1. PICK m \in Bad : \A j \in Bad : m <= j
  BY LeastExists
<1>2. PICK k \in Nat \ {0} : ~(DigitsOf[m] <= k <=> m < Ten[k])
  BY <1>1
<1>3. Ten[k] \in Nat \ {0} /\ Ten[1] = 10 /\ Ten[1] <= Ten[k]
  BY TenFacts, TenGrows
<1>4. CASE m < 10
  BY <1>2, <1>3, <1>4, DigitsDef
<1>5. CASE m >= 10
  <2>1. /\ m \div 10 \in Nat /\ m \div 10 < m /\ m \div 10 \notin Bad
        /\ DigitsOf[m] = 1 + DigitsOf[m \div 10] /\ DigitsOf[m \div 10] \in Nat \ {0}
    <3>1. m \div 10 \in Nat /\ m \div 10 < m
      BY <1>5
    <3> QED
      BY <1>1, <1>5, <3>1, DigitsDef
  <2>2. CASE k = 1
    BY <1>2, <1>3, <1>5, <2>1, <2>2
  <2>3. CASE k > 1
    <3>1. k - 1 \in Nat \ {0} /\ (k - 1) + 1 = k
      BY <2>3
    <3>2. DigitsOf[m \div 10] <= k - 1 <=> m \div 10 < Ten[k - 1]
      BY <2>1, <3>1
    <3>3. Ten[k] = 10 * Ten[k - 1] /\ Ten[k - 1] \in Nat
      BY <3>1, TenFacts
    <3>4. m \div 10 < Ten[k - 1] <=> m < 10 * Ten[k - 1]
      BY <3>3
    <3> QED
      BY <1>2, <2>1, <3>1, <3>2, <3>3, <3>4
  <2> QED
    BY <2>2, <2>3
<1> QED
  BY <1>4, <1>5

LEMMA DigitsFacts ==
  ASSUME NEW n \in Int
  PROVE  /\ AbsOf(n) \in Nat /\ Digits(n) \in Nat \ {0}
         /\ \A k \in Nat \ {0} : Digits(n) <= k <=> AbsOf(n) < Ten[k]
<1>1. AbsOf(n) \in Nat
  BY DEF AbsOf
<1> QED
  BY <1>1, DigitsDef, DigitsBound DEF Digits

------------------------------------------------------------------------------
(* The normal form. *)

\* No digit behind the point could be dropped.
Normal(d) ==
  /\ d = [coef |-> d.coef, scale |-> d.scale] /\ d.coef \in Int /\ d.scale \in Nat
  /\ \A i \in 1..d.scale : d.coef % Ten[i] # 0

\* d in units of 10^-places, when it has no more than so many decimals.
InUnits(d, places) == d.coef * Ten[places - d.scale]

LEMMA ZerosFacts ==
  ASSUME NEW c \in Int, NEW s \in Nat
  PROVE  /\ TrailingZeros(c, s) \in 0..s
         /\ c % Ten[TrailingZeros(c, s)] = 0
         /\ \A j \in (TrailingZeros(c, s) + 1)..s : c % Ten[j] # 0
<1> DEFINE Z == {k \in 0..s : c % Ten[k] = 0}
<1>1. 0 \in Z
  BY TenFacts
<1>2. PICK z \in Z : \A k \in Z : k <= z
  <2>1. Z \in SUBSET (0..s) /\ Z # {}
    BY <1>1
  <2> HIDE DEF Z
  <2> QED
    BY <2>1, GreatestExists
<1>3. z \in 0..s /\ c % Ten[z] = 0 /\ \A j \in (z + 1)..s : c % Ten[j] # 0
  <2>1. ASSUME NEW j \in (z + 1)..s, c % Ten[j] = 0 PROVE FALSE
    <3>1. j \in Z
      BY <2>1
    <3> QED
      BY <1>2, <3>1
  <2> QED
    BY <2>1
<1> QED
  BY <1>3 DEF TrailingZeros

\* The two cases of decimalParts.
LEMMA PartsCases ==
  ASSUME NEW l \in Literals
  PROVE  LET s == l.frac - l.exp IN
         \/ /\ s < 0 /\ -s \in Nat
            /\ Parts(l) = [coef |-> l.coef * Ten[-s], scale |-> 0]
         \/ /\ s >= 0 /\ s \in Nat
            /\ \E z \in 0..s, k \in Int :
                 /\ Parts(l) = [coef |-> k, scale |-> s - z]
                 /\ l.coef = k * Ten[z]
                 /\ \A j \in (z + 1)..s : l.coef % Ten[j] # 0
<1> DEFINE s == l.frac - l.exp
           z == TrailingZeros(l.coef, s)
           k == l.coef \div Ten[z]
<1>0. l.coef \in Int /\ l.frac \in Nat /\ l.exp \in Int /\ s \in Int
  BY DEF Literals
<1>1. CASE s < 0
  BY <1>0, <1>1 DEF Parts
<1>2. CASE s >= 0
  <2>1. s \in Nat
    BY <1>0, <1>2
  <2>2. z \in 0..s /\ l.coef % Ten[z] = 0 /\ \A j \in (z + 1)..s : l.coef % Ten[j] # 0
    BY <1>0, <2>1, ZerosFacts
  <2>3. Ten[z] \in Nat \ {0}
    BY <2>2, TenFacts
  <2>4. k \in Int /\ l.coef = k * Ten[z]
    BY <1>0, <2>2, <2>3, Divides
  <2>5. Parts(l) = [coef |-> k, scale |-> s - z]
    <3>1. ~(s < 0)
      BY <1>0, <1>2
    <3> QED
      BY <3>1 DEF Parts
  <2> HIDE DEF z, k
  <2> QED
    BY <1>2, <2>1, <2>2, <2>4, <2>5
<1> QED
  BY <1>0, <1>1, <1>2

LEMMA PartsNormal == \A l \in Literals : Normal(Parts(l))
<1> SUFFICES ASSUME NEW l \in Literals PROVE Normal(Parts(l))
  OBVIOUS
<1> DEFINE s == l.frac - l.exp
<1>0. l.coef \in Int /\ l.frac \in Nat /\ l.exp \in Int
  BY DEF Literals
<1>1. CASE s < 0
  <2>1. -s \in Nat /\ Parts(l) = [coef |-> l.coef * Ten[-s], scale |-> 0]
    BY <1>1, PartsCases
  <2>2. l.coef * Ten[-s] \in Int
    BY <1>0, <2>1, TenFacts
  <2> QED
    BY <2>1, <2>2 DEF Normal
<1>2. CASE ~(s < 0)
  <2>1. s \in Nat
    BY <1>0, <1>2
  <2>2. PICK z \in 0..s, k \in Int :
          /\ Parts(l) = [coef |-> k, scale |-> s - z] /\ l.coef = k * Ten[z]
          /\ \A j \in (z + 1)..s : l.coef % Ten[j] # 0
    BY <1>2, PartsCases
  <2>3. ASSUME NEW i \in 1..(s - z), k % Ten[i] = 0 PROVE FALSE
    <3>1. i \in Nat /\ z \in Nat /\ z + i \in (z + 1)..s /\ i + z = z + i
      BY <2>1
    <3>2. Ten[i] \in Nat \ {0} /\ Ten[i] \in Int /\ Ten[z] \in Int
          /\ Ten[z + i] \in Nat \ {0}
      <4>1. z + i \in Nat
        BY <3>1
      <4> QED
        BY <3>1, <4>1, TenType
    <3>s. Ten[z + i] = Ten[i] * Ten[z]
      BY <3>1, TenSum
    <3>3. PICK q \in Int : k = q * Ten[i]
      BY <2>3, <3>2, Divides
    <3>4. \A a, b, c \in Int : (a * b) * c = a * (b * c)
      OBVIOUS
    <3>5. l.coef = q * Ten[z + i]
      BY <2>2, <3>2, <3>s, <3>3, <3>4
    <3>6. l.coef % Ten[z + i] = 0
      BY <1>0, <3>2, <3>5, Divides
    <3> QED
      BY <2>2, <3>1, <3>6
  <2>4. s - z \in Nat
    BY <2>1
  <2> QED
    BY <2>2, <2>3, <2>4 DEF Normal
<1> QED
  BY <1>1, <1>2

\* Dropping zeros keeps the value: d has no more than `places` decimals when the
\* literal is a whole number of units, and then it is the same number of them.
LEMMA PartsUnits ==
  ASSUME NEW l \in Literals, NEW places \in Nat
  PROVE  /\ Parts(l).scale <= places <=> Whole(l, places)
         /\ Parts(l).scale <= places => Scaled(l, places) = InUnits(Parts(l), places)
<1> DEFINE s == l.frac - l.exp
           e == l.exp - l.frac + places
<1>0. l.coef \in Int /\ l.frac \in Nat /\ l.exp \in Int /\ s \in Int /\ e = places - s
  BY DEF Literals
<1>t. \A a, b, c \in Int : (a * b) * c = a * (b * c)
  OBVIOUS
<1>1. CASE s < 0
  <2>1. -s \in Nat /\ Parts(l) = [coef |-> l.coef * Ten[-s], scale |-> 0]
    BY <1>1, PartsCases
  <2>2. e \in Nat /\ e = -s + places
    BY <1>0, <1>1
  <2>3. Ten[e] = Ten[-s] * Ten[places] /\ Ten[-s] \in Int /\ Ten[places] \in Int
    <3> HIDE DEF e, s
    <3>1. Ten[e] = Ten[-s] * Ten[places]
      BY <2>1, <2>2, TenSum
    <3> QED
      BY <2>1, <3>1, TenType
  <2>4. Whole(l, places) /\ Scaled(l, places) = l.coef * Ten[e]
    BY <2>2 DEF Whole, Scaled
  <2>5. InUnits(Parts(l), places) = (l.coef * Ten[-s]) * Ten[places]
    BY <2>1 DEF InUnits
  <2> QED
    BY <1>0, <1>t, <2>1, <2>3, <2>4, <2>5
<1>2. CASE ~(s < 0)
  <2>1. s \in Nat
    BY <1>0, <1>2
  <2>2. PICK z \in 0..s, k \in Int :
          /\ Parts(l) = [coef |-> k, scale |-> s - z] /\ l.coef = k * Ten[z]
          /\ \A j \in (z + 1)..s : l.coef % Ten[j] # 0
    BY <1>2, PartsCases
  <2>3. Ten[z] \in Int /\ s - z \in Nat
    BY <2>1, TenFacts
  <2>4. CASE s <= places
    <3>1. e \in Nat /\ s - z <= places
      BY <1>0, <2>1, <2>4
    <3>2. Whole(l, places) /\ Scaled(l, places) = l.coef * Ten[e]
      BY <3>1 DEF Whole, Scaled
    <3>3. z + e = places - (s - z) /\ z \in Nat
      BY <1>0, <2>1
    <3>4. Ten[places - (s - z)] = Ten[z] * Ten[e] /\ Ten[e] \in Int
      <4>1. places - (s - z) = z + e
        BY <3>3
      <4>2. Ten[places - (s - z)] = Ten[z] * Ten[e]
        BY <3>1, <3>3, <4>1, TenSum
      <4> QED
        BY <3>1, <4>2, TenType
    <3>5. InUnits(Parts(l), places) = k * Ten[places - (s - z)]
      BY <2>2 DEF InUnits
    <3> QED
      BY <1>t, <2>2, <2>3, <3>1, <3>2, <3>4, <3>5
  <2>5. CASE ~(s <= places)
    <3>1. -e \in Nat /\ -e = s - places /\ -e \in 1..s /\ ~(e >= 0) /\ e < 0
      BY <1>0, <2>1, <2>5
    <3>2. Ten[-e] \in Nat \ {0}
      BY <3>1, TenFacts
    <3>3. Whole(l, places) <=> l.coef % Ten[-e] = 0
      BY <3>1 DEF Whole
    <3>4. Scaled(l, places) = l.coef \div Ten[-e]
      BY <3>1 DEF Scaled
    <3>5. ASSUME s - z <= places
          PROVE  /\ l.coef = InUnits(Parts(l), places) * Ten[-e]
                 /\ InUnits(Parts(l), places) \in Int
      <4>1. z - (-e) \in Nat /\ (z - (-e)) + (-e) = z /\ places - (s - z) = z - (-e)
        BY <1>0, <2>1, <3>1, <3>5
      <4>2. Ten[z] = Ten[z - (-e)] * Ten[-e] /\ Ten[z - (-e)] \in Int
        <5>1. z = (z - (-e)) + (-e) /\ z - (-e) \in Nat /\ -e \in Nat
          BY <3>1, <4>1
        <5> HIDE DEF e, s
        <5>2. Ten[z] = Ten[z - (-e)] * Ten[-e]
          BY <5>1, TenSum
        <5> QED
          BY <4>1, <5>2, TenType
      <4>3. InUnits(Parts(l), places) = k * Ten[z - (-e)]
        BY <2>2, <4>1 DEF InUnits
      <4> QED
        BY <1>t, <2>2, <3>2, <4>2, <4>3
    <3>6. s - z <= places => l.coef % Ten[-e] = 0
                             /\ l.coef \div Ten[-e] = InUnits(Parts(l), places)
      BY <1>0, <3>2, <3>5, Divides
    <3>7. ~(s - z <= places) => l.coef % Ten[-e] # 0
      <4>1. ~(s - z <= places) => -e \in (z + 1)..s
        BY <1>0, <2>1, <3>1
      <4> QED
        BY <2>2, <4>1
    <3>8. Parts(l).scale = s - z
      BY <2>2
    <3> QED
      BY <3>3, <3>4, <3>6, <3>7, <3>8
  <2> QED
    BY <2>4, <2>5
<1> QED
  BY <1>1, <1>2

\* A number in units of a column's scale and read back as text is the same number
\* in the same form: what was normal has the zeros of its column, and only them.
LEMMA ReadBack ==
  ASSUME NEW d, Normal(d), NEW places \in Nat, d.scale <= places
  PROVE  Parts([coef |-> InUnits(d, places), frac |-> places, exp |-> 0]) = d
<1> DEFINE l == [coef |-> InUnits(d, places), frac |-> places, exp |-> 0]
           u == places - d.scale
<1>1. d.coef \in Int /\ d.scale \in Nat /\ u \in 0..places
      /\ d = [coef |-> d.coef, scale |-> d.scale]
  BY DEF Normal
<1>2. Ten[u] \in Nat \ {0} /\ Ten[u] \in Int
  BY <1>1, TenType
<1>3. InUnits(d, places) = d.coef * Ten[u] /\ InUnits(d, places) \in Int
  BY <1>1, <1>2 DEF InUnits
<1>4. l \in Literals /\ l.frac - l.exp = places /\ l.coef = d.coef * Ten[u]
  BY <1>3 DEF Literals
<1> HIDE DEF l
<1>5. PICK z \in 0..places, k \in Int :
        /\ Parts(l) = [coef |-> k, scale |-> places - z] /\ l.coef = k * Ten[z]
        /\ \A j \in (z + 1)..places : l.coef % Ten[j] # 0
  BY <1>4, PartsCases
<1>6. ~(z < u)
  <2>1. l.coef % Ten[u] = 0
    <3>1. l.coef \in Int
      BY <1>3, <1>4
    <3> QED
      BY <1>1, <1>2, <1>4, <3>1, Divides
  <2> QED
    BY <1>1, <1>5, <2>1
<1>7. ~(z > u)
  <2> SUFFICES ASSUME z > u PROVE FALSE
    OBVIOUS
  <2> DEFINE i == z - u
  <2>1. i \in 1..d.scale /\ i \in Nat /\ z = i + u /\ u \in Nat
    BY <1>1
  <2> HIDE DEF i, u
  <2>2. Ten[z] = Ten[i] * Ten[u]
    BY <2>1, TenSum
  <2>3. Ten[i] \in Nat \ {0} /\ Ten[i] \in Int
    BY <2>1, TenType
  <2>4. \A a, b, c \in Int : (a * b) * c = a * (b * c)
    OBVIOUS
  <2>5. d.coef * Ten[u] = (k * Ten[i]) * Ten[u] /\ k * Ten[i] \in Int
    BY <1>2, <1>4, <1>5, <2>2, <2>3, <2>4
  <2>6. d.coef = k * Ten[i]
    BY <1>1, <1>2, <2>5, SameFactor
  <2>7. d.coef % Ten[i] = 0
    BY <1>1, <2>3, <2>6, Divides
  <2> QED
    BY <2>1, <2>7 DEF Normal
<1>8. z = u
  BY <1>1, <1>5, <1>6, <1>7
<1>9. k = d.coef
  BY <1>1, <1>2, <1>4, <1>5, <1>8, SameFactor
<1>10. places - z = d.scale
  BY <1>1, <1>8
<1> QED
  BY <1>1, <1>5, <1>9, <1>10 DEF l

\* What decimalParts makes of a Decimal's own text (formatDecimal) is the same Decimal,
\* coefficient and scale and not only the value: the methods that parse a Decimal's
\* text again (Fits, Cmp, MultiplyInt64) see what ParseDecimal saw.
THEOREM OwnTextReadsBack ==
  \A l \in Literals : Parts(TextOf(Parts(l))) = Parts(l)
<1> SUFFICES ASSUME NEW l \in Literals PROVE Parts(TextOf(Parts(l))) = Parts(l)
  OBVIOUS
<1> DEFINE d == Parts(l)
<1>1. Normal(d)
  BY PartsNormal
<1> HIDE DEF d
<1>2. d.coef \in Int /\ d.scale \in Nat /\ d.scale <= d.scale /\ d.scale - d.scale = 0
  BY <1>1 DEF Normal
<1>3. InUnits(d, d.scale) = d.coef
  BY <1>2, TenFacts DEF InUnits
<1>4. TextOf(d) = [coef |-> InUnits(d, d.scale), frac |-> d.scale, exp |-> 0]
  BY <1>3 DEF TextOf
<1> QED
  BY <1>1, <1>2, <1>4, ReadBack DEF d

------------------------------------------------------------------------------
(* Columns. *)

IsColumn(col) == col.precision \in Nat \ {0} /\ col.scale \in 0..col.precision

\* Decimal.Fits counts digits; what it decides is that the column holds the number
\* without rounding.
LEMMA FitsExactly ==
  ASSUME NEW d, Normal(d), NEW col, IsColumn(col)
  PROVE  Fits(d, col) <=> /\ d.scale <= col.scale
                          /\ AbsOf(InUnits(d, col.scale)) < Ten[col.precision]
<1> DEFINE c == d.coef
           u == col.scale - d.scale
           k == col.precision - u
<1>1. /\ c \in Int /\ d.scale \in Nat /\ col.precision \in Nat \ {0} /\ col.scale \in Nat
      /\ col.scale <= col.precision
  BY DEF Normal, IsColumn
<1>2. CASE ~(d.scale <= col.scale)
  BY <1>2 DEF Fits
<1>3. CASE d.scale <= col.scale
  <2>1. u \in Nat /\ k \in Nat /\ col.precision = k + u
        /\ col.precision - col.scale \in Nat
    BY <1>1, <1>3
  <2>2. Ten[u] \in Nat \ {0} /\ Ten[k] \in Nat \ {0} /\ Ten[k] \in Int
    BY <2>1, TenType
  <2>3. Ten[col.precision] = Ten[k] * Ten[u]
    <3> HIDE DEF k, u
    <3> QED
      BY <2>1, TenSum
  <2>4. AbsOf(c) \in Nat /\ AbsOf(c) \in Int /\ Digits(c) \in Nat \ {0}
        /\ (k >= 1 => (Digits(c) <= k <=> AbsOf(c) < Ten[k]))
    <3>1. /\ AbsOf(c) \in Nat /\ Digits(c) \in Nat \ {0}
          /\ \A j \in Nat \ {0} : Digits(c) <= j <=> AbsOf(c) < Ten[j]
      BY <1>1, DigitsFacts
    <3>2. k >= 1 => k \in Nat \ {0}
      BY <2>1
    <3> QED
      BY <3>1, <3>2
  <2>5. InUnits(d, col.scale) = c * Ten[u]
    BY DEF InUnits
  <2>6. AbsOf(c * Ten[u]) = AbsOf(c) * Ten[u]
    <3> HIDE DEF c, u
    <3> QED
      BY <1>1, <2>2, SameFactor
  <2>7. AbsOf(c) * Ten[u] < Ten[k] * Ten[u] <=> AbsOf(c) < Ten[k]
    <3> HIDE DEF c, u, k
    <3> QED
      BY <2>2, <2>4, SameFactor
  <2>8. Fits(d, col) <=> c = 0 \/ Digits(c) <= k
    <3>1. CASE c = 0
      BY <1>3, <2>1, <3>1 DEF Fits
    <3>2. CASE c # 0
      <4>1. Fits(d, col) <=>
              Greater(Digits(c) - d.scale, 0) <= col.precision - col.scale
        BY <1>3, <3>2 DEF Fits
      <4>2. Greater(Digits(c) - d.scale, 0) <= col.precision - col.scale
              <=> Digits(c) <= k
        BY <1>1, <2>1, <2>4 DEF Greater
      <4> QED
        BY <3>2, <4>1, <4>2
    <3> QED
      BY <3>1, <3>2
  <2>9. c = 0 \/ Digits(c) <= k <=> AbsOf(c) < Ten[k]
    <3>1. c = 0 <=> AbsOf(c) < 1
      BY <1>1 DEF AbsOf
    <3>2. Ten[k] >= 1 /\ (k = 0 => Ten[k] = 1)
      BY <2>2, TenFacts
    <3>3. CASE k = 0
      BY <2>4, <3>1, <3>2, <3>3
    <3>4. CASE k >= 1
      BY <2>2, <2>4, <3>1, <3>2, <3>4
    <3> QED
      BY <2>1, <3>3, <3>4
  <2> HIDE DEF c, u, k
  <2> QED
    BY <1>3, <2>3, <2>5, <2>6, <2>7, <2>8, <2>9
<1> QED
  BY <1>2, <1>3

\* A literal that was parsed fits a column, by Decimal.Fits, exactly when its value is a
\* whole number of the column's units, and of no more digits than the column has.
THEOREM FitsIsExact ==
  ASSUME NEW l \in Literals, NEW col, IsColumn(col)
  PROVE  Fits(Parts(l), col) <=> Holds(col, l, 0)
<1>1. Normal(Parts(l)) /\ col.scale \in Nat /\ col.scale + 0 = col.scale
  BY PartsNormal DEF IsColumn
<1>2. /\ Parts(l).scale <= col.scale <=> Whole(l, col.scale)
      /\ Parts(l).scale <= col.scale => Scaled(l, col.scale) = InUnits(Parts(l), col.scale)
  BY <1>1, PartsUnits
<1>3. Fits(Parts(l), col) <=> /\ Parts(l).scale <= col.scale
                              /\ AbsOf(InUnits(Parts(l), col.scale)) < Ten[col.precision]
  BY <1>1, FitsExactly
<1> QED
  BY <1>1, <1>2, <1>3 DEF Holds

------------------------------------------------------------------------------
(* The amount, in thousands of yuan. *)

\* Multiplying by 10^t shifts the point by t, also after the zeros are dropped.
LEMMA ProductUnits ==
  ASSUME NEW d, Normal(d), NEW t \in Nat, NEW places \in Nat
  PROVE  /\ ProductText(d, Ten[t]) \in Literals
         /\ Product(d, Ten[t]).scale <= places <=> d.scale <= places + t
         /\ d.scale <= places + t =>
              InUnits(Product(d, Ten[t]), places) = InUnits(d, places + t)
<1> DEFINE c == d.coef
           s == d.scale
           l == ProductText(d, Ten[t])
           e == places - s
<1>1. /\ c \in Int /\ s \in Nat /\ d = [coef |-> c, scale |-> s] /\ e \in Int
      /\ \A i \in 1..s : c % Ten[i] # 0
  BY DEF Normal
<1>2. Ten[t] \in Nat \ {0} /\ Ten[t] \in Int
  BY TenType
<1>3. l = [coef |-> c * Ten[t], frac |-> s, exp |-> 0]
  BY <1>1 DEF ProductText, TextOf
<1>4. c * Ten[t] \in Int
  BY <1>1, <1>2
<1>5. l \in Literals
  BY <1>1, <1>3, <1>4 DEF Literals
<1>6. l.coef = c * Ten[t] /\ l.exp - l.frac + places = e
  BY <1>1, <1>3
<1>7. Product(d, Ten[t]) = Parts(l)
  BY DEF Product
<1>t. \A x, y, z \in Int : (x * y) * z = x * (y * z)
  OBVIOUS
<1> HIDE DEF l, c, s, e
<1>8. /\ Parts(l).scale <= places <=> Whole(l, places)
      /\ Parts(l).scale <= places => Scaled(l, places) = InUnits(Parts(l), places)
  BY <1>5, PartsUnits
<1>9. /\ Whole(l, places) <=> s <= places + t
      /\ s <= places + t => Scaled(l, places) = InUnits(d, places + t)
  <2>1. s <= places + t => InUnits(d, places + t) = c * Ten[(places + t) - s]
    BY DEF InUnits, c, s
  <2>2. CASE e >= 0
    <3>1. e \in Nat /\ (places + t) - s = t + e /\ s <= places + t
      BY <1>1, <2>2 DEF e
    <3>2. Whole(l, places) /\ Scaled(l, places) = (c * Ten[t]) * Ten[e]
      BY <1>6, <3>1 DEF Whole, Scaled
    <3>3. Ten[(places + t) - s] = Ten[t] * Ten[e] /\ Ten[e] \in Int
      <4>1. Ten[(places + t) - s] = Ten[t] * Ten[e]
        BY <3>1, TenSum
      <4> QED
        BY <3>1, <4>1, TenType
    <3> QED
      BY <1>1, <1>2, <1>t, <2>1, <3>1, <3>2, <3>3
  <2>3. CASE e < 0
    <3> DEFINE j == -e
    <3>1. j \in Nat \ {0} /\ j \in Nat /\ j <= s /\ ~(e >= 0) /\ j = s - places
      BY <1>1, <2>3 DEF e
    <3>2. Ten[j] \in Nat \ {0} /\ Ten[j] \in Int
      BY <3>1, TenType
    <3>3. (Whole(l, places) <=> (c * Ten[t]) % Ten[j] = 0)
          /\ Scaled(l, places) = (c * Ten[t]) \div Ten[j]
      BY <1>6, <2>3, <3>1 DEF Whole, Scaled
    <3> HIDE DEF j
    <3>4. CASE j <= t
      <4>1. PICK r \in Nat : t = r + j /\ (places + t) - s = r /\ s <= places + t
        <5>1. t - j \in Nat /\ t = (t - j) + j /\ (places + t) - s = t - j /\ s <= places + t
          BY <1>1, <3>1, <3>4
        <5> QED
          BY <5>1
      <4>2. Ten[r] \in Int /\ c * Ten[r] \in Int
        <5>1. Ten[r] \in Int
          BY TenType
        <5> QED
          BY <1>1, <5>1
      <4>3. Ten[t] = Ten[r] * Ten[j]
        BY <3>1, <4>1, TenSum
      <4>4. c * Ten[t] = (c * Ten[r]) * Ten[j]
        BY <1>1, <1>t, <3>2, <4>2, <4>3
      <4>5. (c * Ten[t]) % Ten[j] = 0 /\ (c * Ten[t]) \div Ten[j] = c * Ten[r]
        BY <1>4, <3>2, <4>2, <4>4, Divides
      <4> QED
        BY <2>1, <3>3, <4>1, <4>5
    <3>5. CASE ~(j <= t)
      <4>1. ~(s <= places + t)
        BY <1>1, <3>1, <3>5
      <4>2. ASSUME (c * Ten[t]) % Ten[j] = 0 PROVE FALSE
        <5>1. PICK q \in Int : c * Ten[t] = q * Ten[j]
          BY <1>4, <3>2, <4>2, Divides
        <5> DEFINE i == j - t
        <5>2. i \in 1..s /\ i \in Nat /\ j = i + t
          BY <1>1, <3>1, <3>5
        <5> HIDE DEF i
        <5>3. Ten[j] = Ten[i] * Ten[t]
          BY <5>2, TenSum
        <5>4. Ten[i] \in Nat \ {0} /\ Ten[i] \in Int
          BY <5>2, TenType
        <5>5. c * Ten[t] = (q * Ten[i]) * Ten[t] /\ q * Ten[i] \in Int
          BY <1>2, <1>t, <5>1, <5>3, <5>4
        <5>6. c = q * Ten[i]
          BY <1>1, <1>2, <5>5, SameFactor
        <5>7. c % Ten[i] = 0
          BY <1>1, <5>4, <5>6, Divides
        <5> QED
          BY <1>1, <5>2, <5>7
      <4> QED
        BY <3>3, <4>1, <4>2
    <3> QED
      BY <3>4, <3>5
  <2> QED
    BY <1>1, <2>2, <2>3
<1>10. l = ProductText(d, Ten[t]) /\ s = d.scale
  BY DEF l, s
<1> QED
  BY <1>5, <1>7, <1>8, <1>9, <1>10

\* A number that a column holds has no more digits than the column: the parser
\* takes it in every form the program writes.
LEMMA HeldDigits ==
  ASSUME NEW d, Normal(d), NEW col, IsColumn(col), NEW places \in Nat,
         d.scale <= places, AbsOf(InUnits(d, places)) < Ten[col.precision]
  PROVE  AbsOf(d.coef) < Ten[col.precision] /\ Digits(d.coef) <= col.precision
<1>1. d.coef \in Int /\ places - d.scale \in Nat /\ col.precision \in Nat \ {0}
  BY DEF Normal, IsColumn
<1>2. Ten[places - d.scale] \in Nat \ {0} /\ Ten[col.precision] \in Nat
  BY <1>1, TenType
<1>3. AbsOf(InUnits(d, places)) = AbsOf(d.coef) * Ten[places - d.scale]
  <2>1. AbsOf(d.coef * Ten[places - d.scale]) = AbsOf(d.coef) * Ten[places - d.scale]
    BY <1>1, <1>2, SameFactor
  <2> QED
    BY <2>1 DEF InUnits
<1>4. /\ AbsOf(d.coef) \in Nat
      /\ Digits(d.coef) <= col.precision <=> AbsOf(d.coef) < Ten[col.precision]
  BY <1>1, DigitsFacts
<1>5. \A a \in Nat, b \in Nat \ {0} : a <= a * b
  OBVIOUS
<1>6. AbsOf(d.coef) <= AbsOf(d.coef) * Ten[places - d.scale]
  BY <1>2, <1>4, <1>5
<1>7. \A a, b, c \in Nat : a <= b /\ b < c => a < c
  OBVIOUS
<1>8. AbsOf(d.coef) * Ten[places - d.scale] \in Nat
  BY <1>2, <1>4
<1>9. AbsOf(d.coef) < Ten[col.precision]
  BY <1>2, <1>3, <1>4, <1>6, <1>7, <1>8
<1> QED
  BY <1>4, <1>9

LEMMA UnitsSign ==
  ASSUME NEW d, Normal(d), NEW places \in Nat, d.scale <= places
  PROVE  /\ InUnits(d, places) \in Int
         /\ Positive(d) <=> InUnits(d, places) > 0
         /\ Negative(d) <=> InUnits(d, places) < 0
<1>1. d.coef \in Int /\ places - d.scale \in Nat
  BY DEF Normal
<1>2. Ten[places - d.scale] \in Nat \ {0}
  BY <1>1, TenType
<1>3. \A a \in Int, b \in Nat \ {0} : a * b \in Int
  OBVIOUS
<1>4. InUnits(d, places) \in Int
  BY <1>1, <1>2, <1>3 DEF InUnits
<1>5. 0 * Ten[places - d.scale] = 0
  BY <1>2
<1>6. d.coef * Ten[places - d.scale] < 0 * Ten[places - d.scale] <=> d.coef < 0
  BY <1>1, <1>2, SameFactor
<1>7. 0 * Ten[places - d.scale] < d.coef * Ten[places - d.scale] <=> 0 < d.coef
  BY <1>1, <1>2, SameFactor
<1> QED
  BY <1>1, <1>4, <1>5, <1>6, <1>7 DEF InUnits, Positive, Negative

\* Decimal.Cmp agrees with the order of the units.
LEMMA UnitsOrder ==
  ASSUME NEW d, Normal(d), NEW e, Normal(e), NEW places \in Nat,
         d.scale <= places, e.scale <= places
  PROVE  AtMost(d, e) <=> InUnits(d, places) <= InUnits(e, places)
<1> DEFINE m == places - d.scale
           n == places - e.scale
           A == Ten[d.scale]
           B == Ten[e.scale]
           M == Ten[m]
           N == Ten[n]
           T == Ten[places]
           x == d.coef
           y == e.coef
<1>1. /\ x \in Int /\ y \in Int /\ d.scale \in Nat /\ e.scale \in Nat
      /\ m \in Nat /\ n \in Nat /\ places = m + d.scale /\ places = n + e.scale
  BY DEF Normal
<1>2. /\ A \in Nat \ {0} /\ B \in Nat \ {0} /\ M \in Nat \ {0} /\ N \in Nat \ {0}
      /\ T \in Nat \ {0}
  BY <1>1, TenType
<1>3. T = M * A
  BY <1>1, TenSum
<1>4. T = N * B
  BY <1>1, TenSum
<1>5. AtMost(d, e) <=> x * B <= y * A
  BY DEF AtMost
<1>6. InUnits(d, places) = x * M /\ InUnits(e, places) = y * N
  BY DEF InUnits
<1> HIDE DEF m, n, A, B, M, N, T, x, y
<1>7. \A a, b, c, g \in Int : (a * b) * (c * g) = (a * c) * (g * b)
  OBVIOUS
<1>8. \A a, b, c, g \in Int : (a * b) * (c * g) = (a * c) * (b * g)
  OBVIOUS
<1>9. (x * B) * T = (x * M) * (A * B)
  BY <1>1, <1>2, <1>3, <1>7
<1>10. (y * A) * T = (y * N) * (A * B)
  <2>1. A \in Int /\ B \in Int /\ N \in Int
    BY <1>2
  <2>2. (y * A) * (N * B) = (y * N) * (A * B)
    BY <1>1, <1>8, <2>1
  <2> QED
    BY <1>4, <2>2
<1>11. A * B \in Nat \ {0} /\ x * B \in Int /\ y * A \in Int /\ x * M \in Int /\ y * N \in Int
  <2>1. \A a, b \in Nat \ {0} : a * b \in Nat \ {0}
    OBVIOUS
  <2>2. \A a \in Int, b \in Nat \ {0} : a * b \in Int
    OBVIOUS
  <2> QED
    BY <1>1, <1>2, <2>1, <2>2
<1>12. x * B <= y * A <=> (x * B) * T <= (y * A) * T
  BY <1>2, <1>11, SameFactor
<1>13. x * M <= y * N <=> (x * M) * (A * B) <= (y * N) * (A * B)
  BY <1>11, SameFactor
<1> QED
  BY <1>5, <1>6, <1>9, <1>10, <1>12, <1>13

\* The row's amount fits its column exactly when the column holds it in yuan.
LEMMA AmountFits ==
  ASSUME NEW l \in Literals, NEW t \in Nat, NEW col, IsColumn(col)
  PROVE  /\ Normal(Product(Parts(l), Ten[t]))
         /\ Fits(Product(Parts(l), Ten[t]), col) <=> Holds(col, l, t)
         /\ Holds(col, l, t) =>
              /\ Product(Parts(l), Ten[t]).scale <= col.scale
              /\ InUnits(Product(Parts(l), Ten[t]), col.scale)
                   = Scaled(l, col.scale + t)
<1> DEFINE d == Parts(l)
           p == Product(d, Ten[t])
<1>1. Normal(d) /\ col.scale \in Nat /\ col.scale + t \in Nat
  BY PartsNormal DEF IsColumn
<1>2. /\ d.scale <= col.scale + t <=> Whole(l, col.scale + t)
      /\ d.scale <= col.scale + t => Scaled(l, col.scale + t) = InUnits(d, col.scale + t)
  BY <1>1, PartsUnits
<1>3. /\ ProductText(d, Ten[t]) \in Literals
      /\ p.scale <= col.scale <=> d.scale <= col.scale + t
      /\ d.scale <= col.scale + t => InUnits(p, col.scale) = InUnits(d, col.scale + t)
  BY <1>1, ProductUnits
<1>4. Normal(p)
  BY <1>3, PartsNormal DEF Product
<1>5. Fits(p, col) <=> /\ p.scale <= col.scale
                       /\ AbsOf(InUnits(p, col.scale)) < Ten[col.precision]
  BY <1>4, FitsExactly
<1> HIDE DEF p, d
<1> QED
  BY <1>2, <1>3, <1>4, <1>5 DEF Holds, p, d

\* A text with few digits and decimals, and no exponent, is read whatever it says.
LEMMA ShortTextParses ==
  ASSUME NEW c \in Int, c >= 0, NEW s \in Nat, NEW n \in Nat \ {0},
         Digits(c) <= n, s <= n, n + 2 <= MaxText,
         LET k == Parts([coef |-> c, frac |-> s, exp |-> 0]).coef
         IN  k \in Int /\ k >= 0 /\ Digits(k) <= MaxDigits
  PROVE  Parses([coef |-> c, frac |-> s, exp |-> 0])
<1> DEFINE l == [coef |-> c, frac |-> s, exp |-> 0]
           k == Parts(l).coef
<1>1. Digits(c) \in Nat /\ Digits(k) \in Nat
  BY DigitsFacts
<1>2. l.coef = c /\ l.frac = s /\ l.exp = 0
  OBVIOUS
<1>3. k \in Int /\ k >= 0 /\ Digits(k) <= MaxDigits
  OBVIOUS
<1> HIDE DEF l, k
<1>4. Sign(k) + Digits(k) <= MaxDigits
  BY <1>1, <1>3 DEF Sign
<1>5. TextLen(l) = Greater(Digits(c), s + 1) + (IF s > 0 THEN 1 ELSE 0)
  <2>1. Sign(c) = 0
    BY DEF Sign
  <2>2. Greater(Digits(c), s + 1) \in Nat
    BY <1>1 DEF Greater
  <2> QED
    BY <1>2, <2>1, <2>2 DEF TextLen
<1>6. TextLen(l) <= MaxText
  <2>1. Greater(Digits(c), s + 1) <= n + 1 /\ Greater(Digits(c), s + 1) \in Nat
    BY <1>1 DEF Greater
  <2> QED
    BY <1>5, <2>1, LimitsAssumption
<1>7. AbsOf(l.exp) <= MaxExponent
  BY <1>2, LimitsAssumption DEF AbsOf
<1>8. l = [coef |-> c, frac |-> s, exp |-> 0] /\ k = Parts(l).coef
  BY DEF l, k
<1> QED
  BY <1>4, <1>6, <1>7, <1>8 DEF Parses

\* MySQL rounds nothing away from a number that has no more decimals than the column.
LEMMA NothingRounded ==
  ASSUME NEW d, Normal(d), NEW col, IsColumn(col), d.scale <= col.scale
  PROVE  Units(d, col) = InUnits(d, col.scale)
<1> DEFINE u == col.scale - d.scale
           A == Ten[d.scale]
           U == Ten[u]
           S == Ten[col.scale]
           c == d.coef
           x == c * U
           a == 2 * A
<1>1. c \in Int /\ d.scale \in Nat /\ u \in Nat /\ col.scale \in Nat /\ col.scale = u + d.scale
  BY DEF Normal, IsColumn
<1>2. A \in Nat \ {0} /\ U \in Nat \ {0} /\ S \in Nat \ {0}
  BY <1>1, TenType
<1>3. S = U * A
  BY <1>1, TenSum
<1>4. Units(d, col) = ((2 * c) * S + A) \div (2 * A)
  BY DEF Units
<1>5. InUnits(d, col.scale) = c * U
  BY DEF InUnits
<1> HIDE DEF u, A, U, S, c
<1>6. \A p, q, r \in Int : (2 * p) * (q * r) = (p * q) * (2 * r)
  OBVIOUS
<1>7. x \in Int /\ a \in Nat \ {0} /\ (2 * c) * S = x * a
  <2>1. \A p, q \in Int : p * q \in Int
    OBVIOUS
  <2>2. U \in Int /\ A \in Int
    BY <1>2
  <2> QED
    BY <1>1, <1>2, <1>3, <1>6, <2>1, <2>2
<1>8. A < a /\ A \in Nat
  BY <1>2
<1> HIDE DEF x, a
<1>9. (x * a + A) \div a = x
  <2>1. PICK y \in Int : y = x * a
    <3>1. \A p, q \in Int : p * q \in Int
      OBVIOUS
    <3> QED
      BY <1>7, <3>1
  <2>2. /\ y + A = a * ((y + A) \div a) + ((y + A) % a)
        /\ (y + A) \div a \in Int /\ (y + A) % a \in 0..(a - 1)
    BY <1>7, <1>8, <2>1
  <2>3. PICK q \in Int, r \in Int :
          q = (y + A) \div a /\ r = (y + A) % a /\ y + A = a * q + r /\ 0 <= r /\ r < a
    BY <2>2, <1>7
  <2>4. y + A = a * q + r /\ 0 <= r /\ r < a
    BY <2>3
  <2>5. PICK w \in Int : w = (q - x) * a /\ w = A - r
    <3>1. \A m, n, b \in Int : (m - n) * b = b * m - n * b /\ b * m \in Int
      OBVIOUS
    <3>2. a \in Int
      BY <1>7
    <3>3. PICK v \in Int : v = a * q
      BY <3>1, <3>2
    <3>4. (q - x) * a = v - y
      BY <1>7, <2>1, <3>1, <3>2, <3>3
    <3>5. y + A = v + r
      BY <2>4, <3>3
    <3>6. v - y = A - r
      BY <1>8, <2>1, <3>5
    <3> QED
      BY <1>8, <3>4, <3>6
  <2>6. \A m, b \in Nat \ {0} : m * b >= b /\ (-m) * b <= -b
    OBVIOUS
  <2>7. ~(q - x >= 1)
    <3>1. ASSUME q - x >= 1 PROVE w >= a
      <4>1. q - x \in Nat \ {0}
        BY <1>7, <3>1
      <4> QED
        BY <1>7, <2>5, <2>6, <4>1
    <3> QED
      BY <1>7, <1>8, <2>4, <2>5, <3>1
  <2>9. ~(q - x <= -1)
    <3>1. ASSUME q - x <= -1 PROVE w <= -a
      <4>1. x - q \in Nat \ {0} /\ q - x = -(x - q)
        BY <1>7, <3>1
      <4> QED
        BY <1>7, <2>5, <2>6, <4>1
    <3> QED
      BY <1>7, <1>8, <2>4, <2>5, <3>1
  <2>8. q = x
    BY <1>7, <2>7, <2>9
  <2> QED
    BY <2>1, <2>3, <2>8
<1> QED
  BY <1>4, <1>5, <1>7, <1>9 DEF x, a

------------------------------------------------------------------------------
(* A row of the provider. *)

CellUnits(row, f) == Scaled(row.cells[f], Column(f).scale + Shift(f))
FieldHolds(row, f) == Holds(Column(f), row.cells[f], Shift(f))

LEMMA Constants ==
  /\ \A f : /\ IsColumn(Column(f)) /\ Shift(f) \in Nat
            /\ Column(f).scale + Shift(f) \in Nat
            /\ Column(f).precision <= MaxDigits /\ Column(f).precision + 2 <= MaxText
  /\ Digits(Thousand) \in Nat /\ Shift("amount") = Digits(Thousand) - 1
  /\ Thousand = Ten[Shift("amount")]
  /\ AmountColumn.precision + Shift("amount") + 2 <= MaxText
  /\ Column("amount") = AmountColumn
<1>1. Digits(Thousand) \in Nat \ {0}
  BY ThousandAssumption, DigitsFacts
<1>2. \A f : Shift(f) \in Nat
  BY <1>1 DEF Shift
<1>3. \A f : Column(f) \in {PriceColumn, AmountColumn, FactorColumn}
  BY DEF Column
<1>4. \A f : /\ IsColumn(Column(f)) /\ Column(f).scale \in Nat
             /\ Column(f).precision <= MaxDigits /\ Column(f).precision + 2 <= MaxText
  BY <1>3, ColumnsAssumption DEF IsColumn
<1>5. Shift("amount") = Digits(Thousand) - 1
  BY DEF Shift
<1>6. Column("amount") = AmountColumn
  BY DEF Column
<1>7. AmountColumn.precision + Shift("amount") + 2 <= MaxText
  <2>1. AmountColumn.precision \in Nat
    BY ColumnsAssumption
  <2> QED
    BY <1>1, <1>5, <2>1, ThousandAssumption
<1>8. Thousand = Ten[Shift("amount")]
  BY <1>5, ThousandAssumption
<1>9. ASSUME NEW f PROVE Column(f).scale + Shift(f) \in Nat
  BY <1>2, <1>4
<1> QED
  BY <1>1, <1>2, <1>4, <1>5, <1>6, <1>7, <1>8, <1>9

\* The number as it was parsed: its sign is that of its units.
LEMMA FieldSign ==
  ASSUME NEW row \in Rows, NEW f, row.cells[f] \in Literals, FieldHolds(row, f)
  PROVE  /\ CellUnits(row, f) \in Int
         /\ Positive(Number(row, f)) <=> CellUnits(row, f) > 0
         /\ Negative(Number(row, f)) <=> CellUnits(row, f) < 0
         /\ Number(row, f).scale <= Column(f).scale + Shift(f)
         /\ CellUnits(row, f) = InUnits(Number(row, f), Column(f).scale + Shift(f))
<1> DEFINE d == Number(row, f)
           n == Column(f).scale + Shift(f)
<1>1. Normal(d) /\ n \in Nat
  BY PartsNormal, Constants DEF Number
<1>2. d.scale <= n
  BY <1>1, PartsUnits DEF FieldHolds, Holds, Number
<1>3. CellUnits(row, f) = InUnits(d, n)
  BY <1>1, <1>2, PartsUnits DEF CellUnits, Number
<1> QED
  BY <1>1, <1>2, <1>3, UnitsSign

\* The number as it is mapped, and its column.
MappedField(row, f) ==
  IF f = "amount" THEN Product(Number(row, f), Thousand) ELSE Number(row, f)

LEMMA FieldMapped ==
  ASSUME NEW row \in Rows, NEW f, row.cells[f] \in Literals
  PROVE  /\ Normal(MappedField(row, f))
         /\ Fits(MappedField(row, f), Column(f)) <=> FieldHolds(row, f)
         /\ FieldHolds(row, f) =>
              /\ MappedField(row, f).scale <= Column(f).scale
              /\ InUnits(MappedField(row, f), Column(f).scale) = CellUnits(row, f)
<1>1. IsColumn(Column(f)) /\ Shift("amount") \in Nat /\ Thousand = Ten[Shift("amount")]
  BY Constants
<1>2. CASE f = "amount"
  <2>1. MappedField(row, f) = Product(Parts(row.cells[f]), Ten[Shift("amount")])
    BY <1>1, <1>2 DEF MappedField, Number
  <2> QED
    BY <1>1, <1>2, <2>1, AmountFits DEF FieldHolds, CellUnits
<1>3. CASE f # "amount"
  <2>1. MappedField(row, f) = Parts(row.cells[f]) /\ Shift(f) = 0
    BY <1>3 DEF MappedField, Number, Shift
  <2>2. Column(f).scale \in Nat /\ Column(f).scale + 0 = Column(f).scale
    BY <1>1 DEF IsColumn
  <2>3. Normal(Parts(row.cells[f]))
    BY PartsNormal
  <2>4. Fits(Parts(row.cells[f]), Column(f)) <=> Holds(Column(f), row.cells[f], 0)
    BY <1>1, FitsIsExact
  <2>5. Holds(Column(f), row.cells[f], 0) => Whole(row.cells[f], Column(f).scale)
    BY <2>2 DEF Holds
  <2>6. /\ Parts(row.cells[f]).scale <= Column(f).scale <=> Whole(row.cells[f], Column(f).scale)
        /\ Parts(row.cells[f]).scale <= Column(f).scale =>
             Scaled(row.cells[f], Column(f).scale) = InUnits(Parts(row.cells[f]), Column(f).scale)
    BY <2>2, PartsUnits
  <2> QED
    BY <2>1, <2>2, <2>3, <2>4, <2>5, <2>6 DEF FieldHolds, CellUnits
<1> QED
  BY <1>2, <1>3

\* An amount that fits in yuan is parsed again after it was multiplied.
LEMMA AmountParses ==
  ASSUME NEW row \in Rows, row.cells["amount"] \in Literals,
         FieldHolds(row, "amount"), CellUnits(row, "amount") >= 0
  PROVE  Parses(ProductText(Number(row, "amount"), Thousand))
<1> DEFINE d == Number(row, "amount")
           t == Shift("amount")
           col == AmountColumn
           p == Product(d, Thousand)
           c == d.coef * Thousand
<1>1. /\ IsColumn(col) /\ t \in Nat /\ Thousand = Ten[t] /\ Column("amount") = col
      /\ col.precision <= MaxDigits /\ col.precision + t + 2 <= MaxText
      /\ col.scale + t \in Nat
  BY Constants
<1>2. col.precision \in Nat \ {0} /\ col.scale \in Nat /\ col.scale <= col.precision
  BY <1>1 DEF IsColumn
<1>3. Normal(d)
  BY PartsNormal DEF Number
<1>4. /\ CellUnits(row, "amount") \in Int
      /\ (Negative(d) <=> CellUnits(row, "amount") < 0)
      /\ d.scale <= col.scale + t
      /\ CellUnits(row, "amount") = InUnits(d, col.scale + t)
  BY <1>1, FieldSign
<1>5. d.coef \in Int /\ d.coef >= 0 /\ d.scale \in Nat
  BY <1>3, <1>4 DEF Normal, Negative
<1>6. AbsOf(InUnits(d, col.scale + t)) < Ten[col.precision]
  BY <1>1, <1>4 DEF FieldHolds, Holds, CellUnits
<1>7. AbsOf(d.coef) < Ten[col.precision]
  BY <1>1, <1>3, <1>4, <1>6, HeldDigits
<1>8. Ten[t] \in Nat \ {0} /\ Ten[col.precision] \in Nat
  BY <1>1, <1>2, TenType
<1>9. c \in Int /\ c >= 0
  <2>1. \A x, y \in Nat : x * y \in Nat
    OBVIOUS
  <2> QED
    BY <1>1, <1>5, <1>8, <2>1
<1>10. Digits(c) <= col.precision + t
  <2>1. AbsOf(c) = AbsOf(d.coef) * Ten[t]
    BY <1>1, <1>5, <1>8, SameFactor
  <2>2. Ten[col.precision + t] = Ten[col.precision] * Ten[t]
    BY <1>1, <1>2, TenSum
  <2>3. AbsOf(d.coef) \in Int
    BY <1>5 DEF AbsOf
  <2>4. AbsOf(c) < Ten[col.precision + t]
    BY <1>7, <1>8, <2>1, <2>2, <2>3, SameFactor
  <2>5. col.precision + t \in Nat \ {0}
    BY <1>1, <1>2
  <2> QED
    BY <1>9, <2>4, <2>5, DigitsFacts
<1>11. ProductText(d, Thousand) = [coef |-> c, frac |-> d.scale, exp |-> 0]
  BY <1>3 DEF ProductText, TextOf, Normal
<1>12. Normal(p) /\ p.scale <= col.scale /\ InUnits(p, col.scale) = CellUnits(row, "amount")
  <2>1. p = MappedField(row, "amount")
    BY DEF MappedField
  <2> HIDE DEF p
  <2> QED
    BY <1>1, <2>1, FieldMapped
<1>13. p.coef \in Int /\ p.coef >= 0 /\ Digits(p.coef) <= MaxDigits
  <2>1. p.coef \in Int /\ p.coef >= 0
    BY <1>2, <1>4, <1>12, UnitsSign DEF Normal, Negative
  <2>2. Digits(p.coef) <= col.precision
    BY <1>1, <1>2, <1>4, <1>6, <1>12, HeldDigits
  <2>3. Digits(p.coef) \in Nat
    BY <2>1, DigitsFacts
  <2> QED
    BY <1>1, <1>2, <2>1, <2>2, <2>3, LimitsAssumption
<1>14. p = Parts([coef |-> c, frac |-> d.scale, exp |-> 0])
  BY <1>11 DEF Product
<1>15. col.precision + t \in Nat \ {0} /\ d.scale <= col.precision + t
       /\ (col.precision + t) + 2 <= MaxText
  BY <1>1, <1>2, <1>4, <1>5
<1> HIDE DEF c, p, d
<1> QED
  BY <1>5, <1>9, <1>10, <1>11, <1>13, <1>14, <1>15, ShortTextParses DEF d

------------------------------------------------------------------------------
(* What the mapping accepts. *)

\* What AcceptedExactly says of a row that is not refused.
Fine(row) ==
  LET fields == Required(row.kind)
      cell(f) == row.cells[f] IN
  /\ row.named /\ (row.meta \/ row.kind = "stk_limit")
  /\ \A f \in fields : IsNumber(cell(f)) /\ FieldHolds(row, f)
  /\ \A f \in Optional(row.kind) \intersect DOMAIN row.cells :
       cell(f) = Missing \/ IsNumber(cell(f))
  /\ \A f \in fields :
       CellUnits(row, f) > 0 \/ (f \in {"vol", "amount"} /\ CellUnits(row, f) = 0)
  /\ row.kind = "daily" =>
       \A f \in Prices : /\ CellUnits(row, "low") <= CellUnits(row, f)
                         /\ CellUnits(row, f) <= CellUnits(row, "high")

LEMMA NumbersAreLiterals ==
  ASSUME NEW row \in Rows, \A f \in Required(row.kind) : IsNumber(row.cells[f])
  PROVE  \A f \in Required(row.kind) : row.cells[f] \in Literals
BY RowsAssumption DEF IsNumber

LEMMA PositiveFitsIff ==
  ASSUME NEW row \in Rows, NEW f, f # "amount", row.cells[f] \in Literals
  PROVE  PositiveFits(row, f) <=> FieldHolds(row, f) /\ CellUnits(row, f) > 0
<1>1. MappedField(row, f) = Number(row, f)
  BY DEF MappedField
<1>2. Fits(Number(row, f), Column(f)) <=> FieldHolds(row, f)
  BY <1>1, FieldMapped
<1>3. FieldHolds(row, f) => (Positive(Number(row, f)) <=> CellUnits(row, f) > 0)
  BY FieldSign
<1> QED
  BY <1>2, <1>3 DEF PositiveFits

\* The checks of a daily price on open, high, low and close are an order on them.
LEMMA ConsistentIff ==
  ASSUME NEW row \in Rows,
         \A f \in Prices : row.cells[f] \in Literals /\ FieldHolds(row, f)
  PROVE  Consistent(Number(row, "open"), Number(row, "high"),
                    Number(row, "low"), Number(row, "close"))
         <=> \A f \in Prices : /\ CellUnits(row, "low") <= CellUnits(row, f)
                               /\ CellUnits(row, f) <= CellUnits(row, "high")
<1>1. ASSUME NEW f \in Prices, NEW g \in Prices
      PROVE  AtMost(Number(row, f), Number(row, g)) <=> CellUnits(row, f) <= CellUnits(row, g)
  <2> DEFINE n == PriceColumn.scale
  <2>1. /\ Column(f).scale + Shift(f) = n /\ Column(g).scale + Shift(g) = n /\ n \in Nat
    <3>1. Column(f) = PriceColumn /\ Column(g) = PriceColumn /\ Shift(f) = 0 /\ Shift(g) = 0
      BY DEF Column, Shift, Prices
    <3>2. n \in Nat
      BY ColumnsAssumption
    <3> QED
      BY <3>1, <3>2
  <2>2. Number(row, f).scale <= n /\ CellUnits(row, f) = InUnits(Number(row, f), n)
    BY <2>1, FieldSign
  <2>3. Number(row, g).scale <= n /\ CellUnits(row, g) = InUnits(Number(row, g), n)
    BY <2>1, FieldSign
  <2>4. Normal(Number(row, f)) /\ Normal(Number(row, g))
    BY PartsNormal DEF Number
  <2> QED
    BY <2>1, <2>2, <2>3, <2>4, UnitsOrder
<1>2. \A f \in Prices : CellUnits(row, f) \in Int
  BY FieldSign
<1>3. /\ "open" \in Prices /\ "high" \in Prices /\ "low" \in Prices /\ "close" \in Prices
      /\ \A f \in Prices : f = "open" \/ f = "high" \/ f = "low" \/ f = "close"
  BY DEF Prices
<1>4. Consistent(Number(row, "open"), Number(row, "high"),
                 Number(row, "low"), Number(row, "close"))
      <=> /\ CellUnits(row, "open") <= CellUnits(row, "high")
          /\ CellUnits(row, "close") <= CellUnits(row, "high")
          /\ CellUnits(row, "low") <= CellUnits(row, "open")
          /\ CellUnits(row, "low") <= CellUnits(row, "close")
          /\ CellUnits(row, "low") <= CellUnits(row, "high")
  BY <1>1, <1>3 DEF Consistent
<1> QED
  BY <1>2, <1>3, <1>4

LEMMA MappableIff ==
  ASSUME NEW row \in Rows
  PROVE  Mappable(row) <=> Fine(row)
<1>1. ~Decodable(row) => ~Mappable(row) /\ ~Fine(row)
  BY DEF Mappable, Fine, Decodable
<1>2. ASSUME Decodable(row) PROVE Mappable(row) <=> Fine(row)
  <2>1. /\ \A f \in Required(row.kind) : IsNumber(row.cells[f])
        /\ \A f \in Optional(row.kind) \intersect DOMAIN row.cells :
             row.cells[f] = Missing \/ IsNumber(row.cells[f])
        /\ row.named /\ row.meta \in BOOLEAN
    BY <1>2, RowsAssumption DEF Decodable
  <2>2. \A f \in Required(row.kind) : row.cells[f] \in Literals
    BY <2>1, NumbersAreLiterals
  <2> DEFINE Held == \A f \in Required(row.kind) : FieldHolds(row, f)
             Signs == \A f \in Required(row.kind) :
                        CellUnits(row, f) > 0
                        \/ (f \in {"vol", "amount"} /\ CellUnits(row, f) = 0)
             Order == \A f \in Prices : /\ CellUnits(row, "low") <= CellUnits(row, f)
                                        /\ CellUnits(row, f) <= CellUnits(row, "high")
             Meta == row.meta \/ row.kind = "stk_limit"
  <2>3. Fine(row) <=> Meta /\ Held /\ Signs /\ (row.kind = "daily" => Order)
    BY <2>1 DEF Fine
  <2>4. CASE row.kind = "adj_factor"
    <3>1. Required(row.kind) = {"adj_factor"}
      BY <2>4 DEF Required
    <3>2. Mappable(row) <=> row.meta /\ PositiveFits(row, "adj_factor")
      BY <1>2, <2>4 DEF Mappable
    <3>3. PositiveFits(row, "adj_factor")
            <=> FieldHolds(row, "adj_factor") /\ CellUnits(row, "adj_factor") > 0
      BY <2>2, <3>1, PositiveFitsIff
    <3> QED
      BY <2>3, <2>4, <3>1, <3>2, <3>3
  <2>5. CASE row.kind = "stk_limit"
    <3>1. Required(row.kind) = Limits /\ \A f \in Limits : f \notin {"vol", "amount"}
      BY <2>5 DEF Required, Limits
    <3>2. Mappable(row) <=> \A f \in Limits : PositiveFits(row, f)
      BY <1>2, <2>5 DEF Mappable
    <3>3. \A f \in Limits : PositiveFits(row, f) <=> FieldHolds(row, f) /\ CellUnits(row, f) > 0
      BY <2>2, <3>1, PositiveFitsIff
    <3> QED
      BY <2>3, <2>5, <3>1, <3>2, <3>3
  <2>6. CASE row.kind = "daily"
    <3>1. /\ Required(row.kind) = Prices \union {"vol", "amount"}
          /\ \A f \in Prices : f \notin {"vol", "amount"}
      BY <2>6 DEF Required, Prices
    <3>2. Mappable(row) <=> DailyMappable(row)
      BY <1>2, <2>6 DEF Mappable
    <3>3. \A f \in Prices : PositiveFits(row, f) <=> FieldHolds(row, f) /\ CellUnits(row, f) > 0
      BY <2>2, <3>1, PositiveFitsIff
    <3>4. (\A f \in Prices : FieldHolds(row, f)) =>
            (Consistent(Number(row, "open"), Number(row, "high"),
                        Number(row, "low"), Number(row, "close")) <=> Order)
      BY <2>2, <3>1, ConsistentIff
    <3>5. /\ Fits(Product(Number(row, "amount"), Thousand), AmountColumn)
               <=> FieldHolds(row, "amount")
          /\ Fits(Number(row, "vol"), AmountColumn) <=> FieldHolds(row, "vol")
      <4>1. /\ MappedField(row, "amount") = Product(Number(row, "amount"), Thousand)
            /\ MappedField(row, "vol") = Number(row, "vol")
            /\ Column("amount") = AmountColumn /\ Column("vol") = AmountColumn
        BY DEF MappedField, Column
      <4>2. row.cells["amount"] \in Literals /\ row.cells["vol"] \in Literals
        BY <2>2, <3>1
      <4>3. Fits(MappedField(row, "amount"), Column("amount")) <=> FieldHolds(row, "amount")
        BY <4>2, FieldMapped
      <4>4. Fits(MappedField(row, "vol"), Column("vol")) <=> FieldHolds(row, "vol")
        BY <4>2, FieldMapped
      <4> QED
        BY <4>1, <4>3, <4>4
    <3>6. \A f \in {"vol", "amount"} :
            FieldHolds(row, f) => /\ CellUnits(row, f) \in Int
                                  /\ (~Negative(Number(row, f)) <=> CellUnits(row, f) >= 0)
      <4>1. ASSUME NEW f \in {"vol", "amount"}, FieldHolds(row, f)
            PROVE  /\ CellUnits(row, f) \in Int
                   /\ ~Negative(Number(row, f)) <=> CellUnits(row, f) >= 0
        <5>1. row.cells[f] \in Literals
          BY <2>2, <3>1
        <5>2. CellUnits(row, f) \in Int /\ (Negative(Number(row, f)) <=> CellUnits(row, f) < 0)
          BY <4>1, <5>1, FieldSign
        <5> QED
          BY <5>2
      <4> QED
        BY <4>1
    <3>7. FieldHolds(row, "amount") /\ CellUnits(row, "amount") >= 0
            => Parses(ProductText(Number(row, "amount"), Thousand))
      <4>1. row.cells["amount"] \in Literals
        BY <2>2, <3>1
      <4> QED
        BY <4>1, AmountParses
    <3>8. Held <=> /\ \A f \in Prices : FieldHolds(row, f)
                   /\ FieldHolds(row, "vol") /\ FieldHolds(row, "amount")
      BY <3>1
    <3>9. Held => (Signs <=> /\ \A f \in Prices : CellUnits(row, f) > 0
                             /\ CellUnits(row, "vol") >= 0 /\ CellUnits(row, "amount") >= 0)
      <4>1. Signs <=> /\ \A f \in Prices : CellUnits(row, f) > 0
                      /\ CellUnits(row, "vol") > 0 \/ CellUnits(row, "vol") = 0
                      /\ CellUnits(row, "amount") > 0 \/ CellUnits(row, "amount") = 0
        BY <3>1
      <4>2. Held => CellUnits(row, "vol") \in Int /\ CellUnits(row, "amount") \in Int
        BY <3>6, <3>8
      <4>3. \A u \in Int : u > 0 \/ u = 0 <=> u >= 0
        OBVIOUS
      <4> HIDE DEF Held, Signs
      <4> QED
        BY <4>1, <4>2, <4>3
    <3>10. Meta <=> row.meta
      BY <2>6
    <3> HIDE DEF Held, Signs, Order, Meta
    <3>11. DailyMappable(row) <=>
             /\ row.meta
             /\ Parses(ProductText(Number(row, "amount"), Thousand))
             /\ Fits(Product(Number(row, "amount"), Thousand), AmountColumn)
             /\ Fits(Number(row, "vol"), AmountColumn)
             /\ \A f \in Prices : PositiveFits(row, f)
             /\ ~Negative(Number(row, "vol")) /\ ~Negative(Number(row, "amount"))
             /\ Consistent(Number(row, "open"), Number(row, "high"),
                           Number(row, "low"), Number(row, "close"))
      BY DEF DailyMappable
    <3>12. Mappable(row) => Held /\ Signs /\ Order /\ Meta
      BY <3>2, <3>3, <3>4, <3>5, <3>6, <3>8, <3>9, <3>10, <3>11
    <3>13. Held /\ Signs /\ Order /\ Meta => Mappable(row)
      BY <3>2, <3>3, <3>4, <3>5, <3>6, <3>7, <3>8, <3>9, <3>10, <3>11
    <3> QED
      BY <2>3, <2>6, <3>12, <3>13
  <2>7. row.kind = "daily" \/ row.kind = "adj_factor" \/ row.kind = "stk_limit"
    BY RowsAssumption
  <2> QED
    BY <2>4, <2>5, <2>6, <2>7
<1> QED
  BY <1>1, <1>2

------------------------------------------------------------------------------
(* What the table takes and gives back. *)

LEMMA MappedRow ==
  \A row : /\ DOMAIN Mapped(row) = Required(row.kind)
           /\ \A f \in Required(row.kind) : Mapped(row)[f] = MappedField(row, f)
BY DEF Mapped, MappedField

\* A mapped number is stored as the provider's, in a text the parser reads back to it.
LEMMA FieldStored ==
  ASSUME NEW row \in Rows, Fine(row), NEW f \in Required(row.kind)
  PROVE  LET d == MappedField(row, f)
             col == Column(f)
             text == TextOf([coef |-> Units(d, col), scale |-> col.scale]) IN
         /\ Units(d, col) = CellUnits(row, f)
         /\ InRange(d, col)
         /\ Fits(d, col)
         /\ IF f \in {"vol", "amount"} THEN ~Negative(d) ELSE Positive(d)
         /\ Parses(text) /\ Parts(text) = d
<1> DEFINE d == MappedField(row, f)
           col == Column(f)
           u == CellUnits(row, f)
           p == col.precision
           n == col.scale
<1>1. /\ row.cells[f] \in Literals /\ FieldHolds(row, f)
      /\ u > 0 \/ (f \in {"vol", "amount"} /\ u = 0)
  BY NumbersAreLiterals DEF Fine
<1>2. /\ IsColumn(col) /\ p \in Nat \ {0} /\ n \in Nat /\ n <= p
      /\ p <= MaxDigits /\ p + 2 <= MaxText
  BY Constants DEF IsColumn
<1>3. Normal(d) /\ Fits(d, col) /\ d.scale <= n /\ InUnits(d, n) = u
  BY <1>1, FieldMapped
<1>4. Units(d, col) = u
  BY <1>2, <1>3, NothingRounded
<1>5. AbsOf(u) < Ten[p]
  BY <1>1 DEF FieldHolds, Holds, CellUnits
<1>6. InRange(d, col)
  BY <1>4, <1>5 DEF InRange
<1>7. u \in Int /\ (Positive(d) <=> u > 0) /\ (Negative(d) <=> u < 0)
  BY <1>2, <1>3, UnitsSign
<1>8. u >= 0 /\ ~Negative(d) /\ (f \notin {"vol", "amount"} => Positive(d))
  BY <1>1, <1>7
<1>9. TextOf([coef |-> Units(d, col), scale |-> n]) = [coef |-> u, frac |-> n, exp |-> 0]
  BY <1>4 DEF TextOf
<1>10. Parts([coef |-> u, frac |-> n, exp |-> 0]) = d
  BY <1>2, <1>3, ReadBack
<1>11. Digits(u) <= p
  BY <1>2, <1>5, <1>7, DigitsFacts
<1>12. d.coef \in Int /\ d.coef >= 0 /\ Digits(d.coef) <= MaxDigits
  <2>1. d.coef \in Int /\ d.coef >= 0
    BY <1>3, <1>8 DEF Normal, Negative
  <2>2. Digits(d.coef) <= p
    BY <1>2, <1>3, <1>5, HeldDigits
  <2>3. Digits(d.coef) \in Nat
    BY <2>1, DigitsFacts
  <2> QED
    BY <1>2, <2>1, <2>2, <2>3, LimitsAssumption
<1>13. Parses([coef |-> u, frac |-> n, exp |-> 0])
  <2> HIDE DEF d, u, p, n
  <2> QED
    BY <1>2, <1>7, <1>8, <1>10, <1>11, <1>12, ShortTextParses
<1> QED
  BY <1>3, <1>4, <1>6, <1>8, <1>9, <1>10, <1>13

------------------------------------------------------------------------------
(* The way of a row. *)

\* Every stage after the mapping follows from the row, and no stage is a dead end.
RowInv ==
  /\ raw \in Rows
  /\ stage \in {"fetched", "refused", "mapped", "stored", "read"}
  /\ stage = "refused" => ~Mappable(raw)
  /\ stage \in {"mapped", "stored", "read"} => Mappable(raw) /\ item = Mapped(raw)
  /\ stage \in {"stored", "read"} =>
       /\ raw.kind # "stk_limit"
       /\ stored = [f \in DOMAIN item |-> Units(item[f], Column(f))]
  /\ stage = "read" => got = item

LEMMA Starts == Init => RowInv
BY DEF Init, RowInv

LEMMA Maps == RowInv /\ Map => RowInv'
<1> SUFFICES ASSUME RowInv, Map PROVE RowInv'
  OBVIOUS
<1>1. raw \in Rows /\ raw' = raw
  BY DEF RowInv, Map
<1>2. CASE Mappable(raw)
  <2>1. stage' = "mapped" /\ item' = Mapped(raw)
    BY <1>2 DEF Map
  <2>2. Mappable(raw)'
    BY <1>1, <1>2 DEF Mappable, Decodable, DailyMappable, PositiveFits, Number, IsNumber,
       Fits, Column
  <2>3. Mapped(raw)' = Mapped(raw)
    BY <1>1 DEF Mapped, Number
  <2> QED
    BY <1>1, <2>1, <2>2, <2>3 DEF RowInv
<1>3. CASE ~Mappable(raw)
  <2>1. stage' = "refused"
    BY <1>3 DEF Map
  <2>2. ~Mappable(raw)'
    BY <1>1, <1>3 DEF Mappable
  <2> QED
    BY <1>1, <2>1, <2>2 DEF RowInv
<1> QED
  BY <1>2, <1>3

\* A mapped row is never rejected: what was mapped is acceptable to the repository.
LEMMA MappedAcceptable ==
  ASSUME RowInv, stage = "mapped", raw.kind # "stk_limit"
  PROVE  Acceptable /\ \A f \in DOMAIN item : InRange(item[f], Column(f))
<1>1. /\ raw \in Rows /\ Fine(raw) /\ item = Mapped(raw)
      /\ DOMAIN item = Required(raw.kind)
      /\ \A f \in Required(raw.kind) : item[f] = MappedField(raw, f)
  BY MappableIff, MappedRow DEF RowInv
<1>2. \A f \in DOMAIN item : Storable(f) /\ InRange(item[f], Column(f))
  BY <1>1, FieldStored DEF Storable
<1>3. ASSUME raw.kind = "daily"
      PROVE  Consistent(item["open"], item["high"], item["low"], item["close"])
  <2>1. /\ Prices \subseteq Required(raw.kind)
        /\ \A f \in Prices : f # "amount"
        /\ "open" \in Prices /\ "high" \in Prices /\ "low" \in Prices /\ "close" \in Prices
    BY <1>3 DEF Required, Prices
  <2>2. \A f \in Prices : item[f] = Number(raw, f)
    BY <1>1, <2>1 DEF MappedField
  <2>3. \A f \in Prices : raw.cells[f] \in Literals /\ FieldHolds(raw, f)
    BY <1>1, <2>1, NumbersAreLiterals DEF Fine
  <2>4. Consistent(Number(raw, "open"), Number(raw, "high"),
                   Number(raw, "low"), Number(raw, "close"))
    BY <1>1, <1>3, <2>3, ConsistentIff DEF Fine
  <2> QED
    BY <2>1, <2>2, <2>4
<1> QED
  BY <1>2, <1>3 DEF Acceptable

LEMMA Stores == RowInv /\ Upsert => RowInv'
<1> SUFFICES ASSUME RowInv, Upsert PROVE RowInv'
  OBVIOUS
<1>1. /\ stage = "mapped" /\ raw.kind # "stk_limit"
      /\ raw' = raw /\ item' = item
  BY DEF Upsert
<1>2. Acceptable /\ \A f \in DOMAIN item : InRange(item[f], Column(f))
  BY <1>1, MappedAcceptable
<1>3. stage' = "stored" /\ stored' = [f \in DOMAIN item |-> Units(item[f], Column(f))]
  BY <1>2 DEF Upsert
<1>4. Mappable(raw)' /\ Mapped(raw)' = Mapped(raw) /\ Mappable(raw) /\ item = Mapped(raw)
  BY <1>1 DEF RowInv
<1>5. [f \in DOMAIN item |-> Units(item[f], Column(f))]'
        = [f \in DOMAIN item |-> Units(item[f], Column(f))]
  BY <1>1
<1> QED
  BY <1>1, <1>3, <1>4, <1>5 DEF RowInv

\* What is read is what was written.
LEMMA StoredReadable ==
  ASSUME RowInv, stage = "stored"
  PROVE  Readable /\ AsRead = item
<1>1. /\ raw \in Rows /\ Fine(raw) /\ item = Mapped(raw)
      /\ stored = [f \in DOMAIN item |-> Units(item[f], Column(f))]
      /\ DOMAIN item = Required(raw.kind)
      /\ \A f \in Required(raw.kind) : item[f] = MappedField(raw, f)
  BY MappableIff, MappedRow DEF RowInv
<1>2. ASSUME NEW f \in DOMAIN stored
      PROVE  Parses(CastText(f)) /\ Parts(CastText(f)) = item[f]
  <2>1. f \in Required(raw.kind) /\ stored[f] = Units(MappedField(raw, f), Column(f))
    BY <1>1
  <2>2. CastText(f) = TextOf([coef |-> Units(MappedField(raw, f), Column(f)),
                              scale |-> Column(f).scale])
    BY <2>1 DEF CastText
  <2> QED
    BY <1>1, <2>1, <2>2, FieldStored
<1>3. Readable
  BY <1>2 DEF Readable
<1>4. AsRead = item
  <2>1. DOMAIN stored = DOMAIN item
    BY <1>1
  <2>2. item = [f \in DOMAIN item |-> item[f]]
    BY <1>1 DEF Mapped
  <2>3. AsRead = [f \in DOMAIN stored |-> item[f]]
    BY <1>2 DEF AsRead
  <2> QED
    BY <2>1, <2>2, <2>3
<1> QED
  BY <1>3, <1>4

LEMMA Reads == RowInv /\ Read => RowInv'
<1> SUFFICES ASSUME RowInv, Read PROVE RowInv'
  OBVIOUS
<1>1. stage = "stored" /\ raw' = raw /\ item' = item /\ stored' = stored
  BY DEF Read
<1>2. stage' = "read" /\ got' = item
  BY <1>1, StoredReadable DEF Read
<1>3. /\ Mappable(raw)' /\ Mapped(raw)' = Mapped(raw)
      /\ [f \in DOMAIN item |-> Units(item[f], Column(f))]'
           = [f \in DOMAIN item |-> Units(item[f], Column(f))]
  BY <1>1 DEF RowInv
<1> QED
  BY <1>1, <1>2, <1>3 DEF RowInv

LEMMA Unchanging == RowInv /\ UNCHANGED vars => RowInv'
<1> SUFFICES ASSUME RowInv, UNCHANGED vars PROVE RowInv'
  OBVIOUS
<1>1. raw' = raw /\ stage' = stage /\ item' = item /\ stored' = stored /\ got' = got
  BY DEF vars
<1>2. /\ Mappable(raw)' <=> Mappable(raw)
      /\ Mapped(raw)' = Mapped(raw)
      /\ [f \in DOMAIN item |-> Units(item[f], Column(f))]'
           = [f \in DOMAIN item |-> Units(item[f], Column(f))]
  BY <1>1
<1> QED
  BY <1>1, <1>2 DEF RowInv

LEMMA Inductive == RowInv /\ [Next]_vars => RowInv'
BY Maps, Stores, Reads, Unchanging DEF Next, Done

LEMMA Invariance == Spec => []RowInv
BY Starts, Inductive, PTL DEF Spec

\* The mapping of daily, adj_factor and stk_limit rows refuses a row exactly when one
\* of its numbers is absent, has the wrong sign or order, or would be rounded by its
\* column: for literals of any size, and every column that the parser's limits exceed.
THEOREM AcceptsExactly == Spec => []AcceptedExactly
<1>1. RowInv => AcceptedExactly
  <2> SUFFICES ASSUME RowInv PROVE AcceptedExactly
    OBVIOUS
  <2>1. Mappable(raw) <=> Fine(raw)
    BY MappableIff DEF RowInv
  <2>2. stage # "fetched" => (stage # "refused" <=> Mappable(raw))
    BY DEF RowInv
  <2>3. stage # "fetched" => (stage # "refused" <=> Fine(raw))
    BY <2>1, <2>2
  <2> QED
    BY <2>3 DEF AcceptedExactly, Fine, FieldHolds, CellUnits
<1> QED
  BY <1>1, Invariance, PTL

\* A row that was mapped is never rejected by the repository, the table has its numbers
\* exactly, and the record that is read back is the one that was written.
THEOREM StoresExactly == Spec => []StoredExactly
<1>1. RowInv => StoredExactly
  <2> SUFFICES ASSUME RowInv PROVE StoredExactly
    OBVIOUS
  <2>1. ASSUME stage \in {"stored", "read"}, NEW f \in DOMAIN stored
        PROVE  stored[f] = Scaled(raw.cells[f], Column(f).scale + Shift(f))
    <3>1. /\ raw \in Rows /\ Fine(raw) /\ f \in Required(raw.kind)
          /\ stored[f] = Units(MappedField(raw, f), Column(f))
      BY <2>1, MappableIff, MappedRow DEF RowInv
    <3> QED
      BY <3>1, FieldStored DEF CellUnits
  <2>2. stage \notin {"rejected", "unreadable"} /\ (stage = "read" => got = item)
    BY DEF RowInv
  <2> QED
    BY <2>1, <2>2 DEF StoredExactly
<1> QED
  BY <1>1, Invariance, PTL
===============================================================================
