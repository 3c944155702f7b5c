----------------------------- MODULE Fees_proofs -----------------------------
(***************************************************************************)
(* What the conversions of Money promise, for every amount, and what the   *)
(* fee rules of Fees do, for every amount whose fee computes within 64     *)
(* bits.                                                                   *)
(***************************************************************************)
EXTENDS Fees, TLAPS

-----------------------------------------------------------------------------
(***************************************************************************)
(* Money.                                                                  *)
(***************************************************************************)
USE DEF NoSign, Plus, Minus, NoDigits

\* A remainder is within its divisor.
LEMMA ModRange ==
    ASSUME NEW a \in Int, NEW n \in Nat, n > 0
    PROVE  a % n \in 0 .. n-1
OBVIOUS

\* A number already in range is its own remainder.
LEMMA ModSmall ==
    ASSUME NEW n \in Nat, n > 0, NEW a \in 0 .. n-1
    PROVE  a % n = a
OBVIOUS

\* Arithmetic on int64 stays in int64.
LEMMA WrapRange ==
    ASSUME NEW x \in Int
    PROVE  Wrap(x) \in Int64
BY ModRange, HalfRangeAssumption DEF Wrap, Int64

\* What fits in 64 bits is kept as it is.
LEMMA WrapExact ==
    ASSUME NEW x \in Int64
    PROVE  Wrap(x) = x
BY ModSmall, HalfRangeAssumption DEF Wrap, Int64

\* A number is its quotient times the divisor, and the remainder.
LEMMA DivMod ==
    ASSUME NEW a \in Int, NEW n \in Nat, n > 0
    PROVE  a \div n \in Int /\ a % n \in 0 .. n-1 /\ a = n * (a \div n) + (a % n)
<1> DEFINE m == n * (a \div n)
           r == a % n
<1>1. a \div n \in Int
  OBVIOUS
<1>2. r \in 0 .. n-1
  OBVIOUS
<1>3. r = a - m
  OBVIOUS
<1>4. m \in Int
  BY <1>1
<1> HIDE DEF m, r
<1>5. a = m + r
  BY <1>2, <1>3, <1>4
<1>q. QED BY <1>1, <1>2, <1>5, Zenon DEF m, r

\* A number has one remainder only.
LEMMA SameRemainder ==
    ASSUME NEW n \in Nat, n > 0, NEW p \in Int, NEW q \in Int,
           NEW r \in 0 .. n-1, NEW s \in 0 .. n-1, n * p + r = n * q + s
    PROVE  r = s
<1>1. n * (p - q) = s - r
  BY SMT
<1>2. p - q = 0
  <2>1. CASE p - q >= 1
    <3>1. n * (p - q) >= n
      BY <2>1, SMT
    <3>q. QED BY <1>1, <3>1, SMT
  <2>2. CASE p - q <= -1
    <3>1. n * (p - q) <= -n
      BY <2>2, SMT
    <3>q. QED BY <1>1, <3>1, SMT
  <2>q. QED BY <2>1, <2>2, SMT
<1>q. QED BY <1>1, <1>2, SMT

\* Wrapping adds a multiple of the 2^64 there are.
LEMMA WrapBy ==
    ASSUME NEW x \in Int
    PROVE  \E k \in Int : Wrap(x) = x + (2 * HalfRange) * k /\ Wrap(x) \in Int64
<1> DEFINE n == 2 * HalfRange
<1>1. n \in Nat /\ n > 0
  BY HalfRangeAssumption
<1>2. CASE x \in Int64
  <2>1. Wrap(x) = x + n * 0
    BY <1>1, <1>2 DEF Wrap
  <2>q. QED BY <1>1, <1>2, <2>1 DEF Int64, Wrap
<1>3. CASE x \notin Int64
  <2> DEFINE a == x + HalfRange
  <2>1. a \in Int
    BY HalfRangeAssumption
  <2> HIDE DEF n, a
  <2>2. a \div n \in Int /\ a % n \in 0 .. n-1 /\ a = n * (a \div n) + (a % n)
    BY <1>1, <2>1, DivMod
  <2>3. Wrap(x) = (a % n) - HalfRange
    BY <1>3 DEF Wrap, a, n
  <2>4. Wrap(x) \in Int64
    BY <2>2, <2>3, HalfRangeAssumption DEF Int64, n
  <2>5. (a % n) = a + n * (-(a \div n))
    BY <1>1, <2>1, <2>2
  <2> DEFINE m == n * (-(a \div n))
             r == a % n
  <2>6. m \in Int
    BY <1>1, <2>2
  <2>7. Wrap(x) = r - HalfRange /\ r = a + m
    BY <2>3, <2>5
  <2> HIDE DEF m, r
  <2>8. Wrap(x) = (a + m) - HalfRange
    BY <2>7
  <2>9. Wrap(x) = x + m
    BY <2>6, <2>8, HalfRangeAssumption DEF a
  <2>10. Wrap(x) = x + n * (-(a \div n))
    BY <2>9 DEF m
  <2>q. QED BY <2>2, <2>4, <2>10 DEF n
<1>q. QED BY <1>2, <1>3

\* There is one number of 64 bits that differs by such a multiple.
LEMMA WrapUnique ==
    ASSUME NEW x \in Int, NEW y \in Int64, NEW k \in Int, y = x + (2 * HalfRange) * k
    PROVE  Wrap(x) = y
<1> DEFINE n == 2 * HalfRange
<1>1. n \in Nat /\ n > 0
  BY HalfRangeAssumption
<1>2. PICK j \in Int : Wrap(x) = x + n * j /\ Wrap(x) \in Int64
  BY WrapBy
<1>3. Wrap(x) + HalfRange \in 0 .. n-1 /\ y + HalfRange \in 0 .. n-1
  BY <1>2, HalfRangeAssumption DEF Int64
<1> HIDE DEF n
<1>4. n * k + (Wrap(x) + HalfRange) = n * j + (y + HalfRange)
  <2>1. y = x + n * k
    BY DEF n
  <2>2. n * k \in Int /\ n * j \in Int /\ y \in Int /\ HalfRange \in Int
    BY <1>1, HalfRangeAssumption DEF Int64
  <2>q. QED BY <1>2, <2>1, <2>2
<1>5. Wrap(x) + HalfRange = y + HalfRange
  BY <1>1, <1>3, <1>4, SameRemainder
<1>q. QED BY <1>2, <1>5, HalfRangeAssumption DEF Int64

\* Numbers that differ by such a multiple wrap to the same.
LEMMA WrapSame ==
    ASSUME NEW x \in Int, NEW y \in Int, NEW k \in Int, y = x + (2 * HalfRange) * k
    PROVE  Wrap(x) = Wrap(y)
<1> DEFINE n == 2 * HalfRange
<1>1. n \in Int
  BY HalfRangeAssumption
<1>2. PICK j \in Int : Wrap(y) = y + n * j /\ Wrap(y) \in Int64
  BY WrapBy
<1> HIDE DEF n
<1>3. Wrap(y) = x + n * (k + j)
  <2>1. n * (k + j) = n * k + n * j
    BY <1>1
  <2>2. y = x + n * k
    BY DEF n
  <2>3. n * k \in Int /\ n * j \in Int
    BY <1>1
  <2>q. QED BY <1>2, <2>1, <2>2, <2>3
<1>4. k + j \in Int
  OBVIOUS
<1>q. QED BY <1>2, <1>3, <1>4, WrapUnique DEF n

\* Wrapping before an addition, after it or both is the same.
LEMMA WrapPlus ==
    ASSUME NEW x \in Int, NEW y \in Int
    PROVE  /\ Wrap(x + y) = Wrap(Wrap(x) + Wrap(y))
           /\ Wrap(x + y) = Wrap(Wrap(x) + y)
           /\ Wrap(x + y) = Wrap(x + Wrap(y))
<1> DEFINE n == 2 * HalfRange
<1>1. n \in Int
  BY HalfRangeAssumption
<1>2. PICK j \in Int : Wrap(y) = y + n * j /\ Wrap(y) \in Int64
  BY WrapBy
<1>3. PICK k \in Int : Wrap(x) = x + n * k /\ Wrap(x) \in Int64
  BY WrapBy
<1>4. Wrap(x) \in Int /\ Wrap(y) \in Int
  BY <1>2, <1>3, HalfRangeAssumption DEF Int64
<1>5. n * (k + j) = n * k + n * j /\ n * k \in Int /\ n * j \in Int
  BY <1>1
<1> HIDE DEF n
<1>6. /\ Wrap(x) + Wrap(y) = (x + y) + n * (k + j)
      /\ Wrap(x) + y = (x + y) + n * k
      /\ x + Wrap(y) = (x + y) + n * j
  BY <1>2, <1>3, <1>5
<1>7. /\ x + y \in Int /\ k + j \in Int /\ Wrap(x) + Wrap(y) \in Int
      /\ Wrap(x) + y \in Int /\ x + Wrap(y) \in Int
  BY <1>4
<1>q. QED BY <1>6, <1>7, WrapSame DEF n

\* Quotient and remainder of an amount that is not negative.
LEMMA Hundredths ==
    ASSUME NEW m \in Nat
    PROVE  /\ m \div 100 \in Nat
           /\ m - 100 * (m \div 100) \in 0 .. 99
           /\ m \div 100 <= m
OBVIOUS

\* An amount that is not negative is formatted as whole and fraction.
LEMMA FormatNonNegative ==
    ASSUME NEW m \in Nat
    PROVE  FormatMinorUnits(m) =
             [sign |-> NoSign, whole |-> m \div 100, points |-> 1, fracSign |-> NoSign,
              fracDigits |-> 2, frac |-> m - 100 * (m \div 100)]
<1>1. Quo(m, 100) = m \div 100 /\ Rem(m, 100) = m - 100 * (m \div 100)
  BY DEF Quo, Rem
<1>2. Abs(m \div 100) = m \div 100 /\ Abs(m - 100 * (m \div 100)) = m - 100 * (m \div 100)
  BY Hundredths DEF Abs
<1>3. ~(m \div 100 < 0) /\ ~(m - 100 * (m \div 100) < 0)
  BY Hundredths
<1> QED BY <1>1, <1>2, <1>3, Zenon DEF FormatMinorUnits

\* An amount that is not negative survives being written and read back, up to
\* the largest int64 (money.go, FormatMinorUnits and ParseMinorUnits).
THEOREM AmountsReadBack ==
    ASSUME NEW m \in Nat, m < HalfRange
    PROVE  Converts(FormatMinorUnits(m)) /\ ParseMinorUnits(FormatMinorUnits(m)) = m
<1> DEFINE d == FormatMinorUnits(m)
<1>1. /\ d.sign = NoSign /\ d.whole = m \div 100 /\ d.points = 1 /\ d.fracSign = NoSign
      /\ d.fracDigits = 2 /\ d.frac = m - 100 * (m \div 100)
  BY FormatNonNegative
<1>2. d # Malformed
  <2>1. ASSUME NEW w \in Nat, NEW f \in 0 .. 99
        PROVE  [sign |-> NoSign, whole |-> w, points |-> 1, fracSign |-> NoSign,
                fracDigits |-> 2, frac |-> f] \in Decimal
    BY DEF Decimal
  <2>2. m \div 100 \in Nat /\ m - 100 * (m \div 100) \in 0 .. 99
    BY Hundredths
  <2>3. [sign |-> NoSign, whole |-> m \div 100, points |-> 1, fracSign |-> NoSign,
         fracDigits |-> 2, frac |-> m - 100 * (m \div 100)] \in Decimal
    BY <2>1, <2>2, Zenon
  <2>4. d \in Decimal
    BY <2>3, FormatNonNegative, Zenon
  <2> QED BY <2>4, MalformedAssumption
<1> HIDE DEF d
<1>3. FracLength(d) = 2
  BY <1>1 DEF FracLength
<1>4. Converts(d)
  BY <1>1, <1>2, <1>3, Hundredths, HalfRangeAssumption DEF Converts, NoDigits
<1>5. d.whole * 100 + FracValue(d) = m
  BY <1>1, <1>3, Hundredths DEF FracValue
<1>6. m \in Int64
  BY HalfRangeAssumption DEF Int64
<1> QED BY <1>4, <1>5, <1>6, WrapExact DEF ParseMinorUnits, d

\* The value of what follows the point.
LEMMA FractionRange ==
    ASSUME NEW d \in Decimal, Converts(d)
    PROVE  /\ FracValue(d) \in -9 .. 99
           /\ d.fracSign # Minus => FracValue(d) >= 0
<1>1. /\ d.points \in {0, 1} /\ d.fracSign \in {NoSign, Plus, Minus}
      /\ d.fracDigits \in 0 .. 3 /\ d.frac \in 0 .. 999
      /\ d.fracDigits = 0 => d.frac = 0
      /\ d.fracDigits = 1 => d.frac <= 9
      /\ d.fracDigits = 2 => d.frac <= 99
      /\ d.points = 1 => FracLength(d) \in {1, 2}
  BY DEF Decimal, Converts
<1>2. CASE d.points = 0
  BY <1>2 DEF FracValue
<1>3. CASE d.points = 1 /\ d.fracSign = NoSign
  <2>1. FracLength(d) = d.fracDigits /\ d.fracDigits \in {1, 2}
    BY <1>1, <1>3 DEF FracLength
  <2>2. FracValue(d) = IF d.fracDigits = 1 THEN 10 * d.frac ELSE d.frac
    BY <1>1, <1>3, <2>1 DEF FracValue
  <2>3. CASE d.fracDigits = 1
    <3>1. d.frac \in 0 .. 9
      BY <1>1, <2>3
    <3> QED BY <1>3, <2>2, <2>3, <3>1
  <2>4. CASE d.fracDigits = 2
    <3>1. d.frac \in 0 .. 99
      BY <1>1, <2>4
    <3> QED BY <1>3, <2>2, <2>4, <3>1
  <2> QED BY <2>1, <2>3, <2>4
<1>4. CASE d.points = 1 /\ d.fracSign \in {Plus, Minus}
  BY <1>1, <1>4 DEF FracValue, FracLength
<1> QED BY <1>1, <1>2, <1>3, <1>4

\* Text that converts yields an int64.
LEMMA ParsedAmounts ==
    ASSUME NEW d \in Decimal, Converts(d)
    PROVE  ParseMinorUnits(d) \in Int64
<1>1. d.whole \in Nat
  BY DEF Decimal, Converts
<1> QED BY <1>1, FractionRange, WrapRange DEF ParseMinorUnits

\* Text that converts denotes an amount of its own sign and size, unless it
\* has a minus after the point or a whole part beyond a hundredth of the range
\* (money.go, ParseMinorUnits).
THEOREM AmountsAreExact ==
    ASSUME NEW d \in Decimal, Converts(d), d.whole * 100 + 99 < HalfRange,
           d.fracSign # Minus
    PROVE  /\ ParseMinorUnits(d) = d.whole * 100 + FracValue(d)
           /\ ParseMinorUnits(d) >= 0
<1>1. d.whole \in Nat
  BY DEF Decimal, Converts
<1>2. d.whole * 100 + FracValue(d) \in Int64
  BY <1>1, FractionRange, HalfRangeAssumption DEF Int64
<1> QED BY <1>1, <1>2, FractionRange, WrapExact DEF ParseMinorUnits

-----------------------------------------------------------------------------
(***************************************************************************)
(* Fees.                                                                   *)
(***************************************************************************)
\* The fee of bp basis points of g computes within 64 bits.
Fits(g, bp) == g * bp + 5000 < HalfRange

\* fee is amount ten-thousandths rounded to a whole number, halves upwards.
IsRounded(fee, amount) ==
    /\ fee \in Nat
    /\ 10000 * fee - 5000 <= amount
    /\ amount < 10000 * fee + 5000

\* A fee of bp basis points is the nearest whole number of satang, halves
\* rounded up (detect.go, pctMinor).
THEOREM HalfUp ==
    ASSUME NEW g \in Nat, NEW bp \in Nat, Fits(g, bp)
    PROVE  IsRounded(pctMinor(g, bp), g * bp)
<1> DEFINE x == g * bp + 5000
<1>1. x \in Nat
  OBVIOUS
<1>2. Wrap(x) = x
  BY <1>1, WrapExact, HalfRangeAssumption DEF Int64, Fits
<1>3. pctMinor(g, bp) = x \div 10000
  BY <1>1, <1>2 DEF pctMinor, Quo
<1>4. x \div 10000 \in Nat /\ 10000 * (x \div 10000) <= x /\ x < 10000 * (x \div 10000) + 10000
  <2> HIDE DEF x
  <2> QED BY <1>1, SMT
<1> QED BY <1>3, <1>4, SMT DEF IsRounded

\* The three names differ.
LEMMA AcquirersDiffer == Thai # Global /\ Thai # Prompt /\ Global # Prompt
BY DEF Thai, Global, Prompt

\* Each rule as one rate.
LEMMA FeeByRate ==
    ASSUME NEW g \in Nat
    PROVE  /\ ExpectedFee(Thai, g) = pctMinor(g, 250)
           /\ ExpectedFee(Global, g) = Wrap(1000 + pctMinor(g, 200))
           /\ ExpectedFee(Prompt, g) = pctMinor(g, PromptRate(g))
           /\ PromptRate(g) \in {150, 180, 220}
           /\ g < 34 => PromptRate(g) = 150
BY AcquirersDiffer, SMT DEF ExpectedFee, PromptRate

\* A fee that fits at 250 basis points fits at every lower rate.
LEMMA LowerRates ==
    ASSUME NEW g \in Nat, Fits(g, 250), NEW bp \in {150, 180, 200, 220, 250}
    PROVE  bp \in Nat /\ IsRounded(pctMinor(g, bp), g * bp)
<1>1. bp \in Nat /\ Fits(g, bp)
  BY HalfRangeAssumption, SMT DEF Fits
<1> QED BY <1>1, HalfUp, Zenon

\* GlobalPay's fee without the wrapping.
LEMMA GlobalFee ==
    ASSUME NEW g \in Nat, Fits(g, 200), HalfRange > 2000
    PROVE  /\ pctMinor(g, 200) \in Nat
           /\ ExpectedFee(Global, g) = 1000 + pctMinor(g, 200)
<1>1. IsRounded(pctMinor(g, 200), g * 200)
  BY HalfUp
<1>2. 1000 + pctMinor(g, 200) \in Int64
  BY <1>1, HalfRangeAssumption, SMT DEF Int64, IsRounded, Fits
<1> QED BY <1>1, <1>2, FeeByRate, WrapExact DEF IsRounded

\* Neither ThaiAcquirer nor PromptPay is expected to take more than the
\* payment, so their predicted net is never negative (detect.go, ExpectedFee;
\* forecast.go, net).
THEOREM FeeWithinPayment ==
    ASSUME NEW a \in {Thai, Prompt}, NEW g \in Nat, Fits(g, 250)
    PROVE  ExpectedFee(a, g) \in 0 .. g
<1>1. PICK bp \in {150, 180, 220, 250} : ExpectedFee(a, g) = pctMinor(g, bp)
  BY FeeByRate
<1>2. bp \in Nat /\ IsRounded(pctMinor(g, bp), g * bp)
  BY <1>1, LowerRates
<1>3. g * bp <= g * 250
  BY <1>1, SMT
<1>4. pctMinor(g, bp) \in 0 .. g
  BY <1>2, <1>3, SMT DEF IsRounded
<1> QED BY <1>1, <1>4

\* GlobalPay's fixed part exceeds a payment below 10.20 baht, and only there
\* the predicted net is negative (detect.go, ExpectedFee; forecast.go, net).
THEOREM GlobalPayFixedPart ==
    ASSUME NEW g \in Nat, Fits(g, 200), HalfRange > 2000
    PROVE  g < ExpectedFee(Global, g) <=> g < 1020
<1>1. IsRounded(pctMinor(g, 200), g * 200)
  BY HalfUp
<1> QED BY <1>1, GlobalFee, SMT DEF IsRounded

\* The payments on which no fee is expected, and any fee beyond rounding an
\* infinite deviation: less than 0.20 baht at ThaiAcquirer, less than 0.34 baht
\* at PromptPay, none at GlobalPay (detect.go, Detect).
THEOREM FreeOfCharge ==
    ASSUME NEW g \in Nat, Fits(g, 250), HalfRange > 2000
    PROVE  /\ ExpectedFee(Thai, g) = 0 <=> g < 20
           /\ ExpectedFee(Prompt, g) = 0 <=> g < 34
           /\ ExpectedFee(Global, g) # 0
<1>1. ExpectedFee(Thai, g) = 0 <=> g < 20
  <2>1. IsRounded(pctMinor(g, 250), g * 250)
    BY LowerRates
  <2> QED BY <2>1, FeeByRate, SMT DEF IsRounded
<1>2. ExpectedFee(Prompt, g) = 0 <=> g < 34
  <2>1. CASE g < 34
    <3>1. IsRounded(pctMinor(g, 150), g * 150)
      BY LowerRates
    <3>2. ExpectedFee(Prompt, g) = pctMinor(g, 150)
      BY <2>1, FeeByRate
    <3> QED BY <2>1, <3>1, <3>2, SMT DEF IsRounded
  <2>2. CASE g >= 34
    <3>1. PICK bp \in {150, 180, 220} : ExpectedFee(Prompt, g) = pctMinor(g, bp)
      BY FeeByRate
    <3>2. IsRounded(pctMinor(g, bp), g * bp)
      BY <3>1, LowerRates
    <3>3. g * bp >= 34 * 150
      BY <2>2, <3>1, SMT
    <3> QED BY <2>2, <3>1, <3>2, <3>3, SMT DEF IsRounded
  <2> QED BY <2>1, <2>2, SMT
<1>3. ExpectedFee(Global, g) # 0
  <2>1. Fits(g, 200)
    BY HalfRangeAssumption, SMT DEF Fits
  <2> QED BY <2>1, GlobalFee, SMT
<1> QED BY <1>1, <1>2, <1>3
=============================================================================
