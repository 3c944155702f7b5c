-------------------------------- MODULE Money --------------------------------
(***************************************************************************)
(* internal/domain/money.go: amounts as decimal text and as minor units    *)
(* (satang), the latter an int64 that wraps around.                        *)
(*                                                                         *)
(* A decimal text is kept as its parts: the sign, the digits before the    *)
(* point (their value, or NoDigits), and what follows the point, which may *)
(* start with a sign of its own.  Text of any other shape converts in no   *)
(* case and is Malformed.  Surrounding spaces, which ParseMinorUnits       *)
(* trims, and leading zeros of the whole part are left out.                *)
(***************************************************************************)
EXTENDS Integers

CONSTANTS HalfRange,    \* 2^63: int64 is -HalfRange .. HalfRange-1
          Malformed     \* stands for a column that does not convert

ASSUME HalfRangeAssumption == HalfRange \in Nat \ {0}

Int64 == -HalfRange .. HalfRange-1

\* Two's complement: what is left of x in 64 bits.
Wrap(x) == IF x \in Int64 THEN x ELSE ((x + HalfRange) % (2 * HalfRange)) - HalfRange

\* Go's division truncates towards zero, and the remainder takes the sign of
\* the dividend.
Quo(a, b) == IF a >= 0 THEN a \div b ELSE -((-a) \div b)
Rem(a, b) == a - b * Quo(a, b)

Abs(x) == IF x >= 0 THEN x ELSE -x

-----------------------------------------------------------------------------
NoSign == 0
Plus   == 1
Minus  == -1

NoDigits == -1

\* points is 1 when there is a point.  fracDigits counts the digits after it
\* (and after a sign there), frac is their value; three stands for three or more.
Decimal ==
    {d \in [sign: {NoSign, Plus, Minus}, whole: Nat \cup {NoDigits}, points: {0, 1},
            fracSign: {NoSign, Plus, Minus}, fracDigits: 0 .. 3, frac: 0 .. 999] :
        /\ d.fracDigits = 0 => d.frac = 0
        /\ d.fracDigits = 1 => d.frac <= 9
        /\ d.fracDigits = 2 => d.frac <= 99}

ASSUME MalformedAssumption == Malformed \notin Decimal /\ Malformed \notin Int

\* The length of the text after the point.
FracLength(d) == IF d.fracSign = NoSign THEN d.fracDigits ELSE d.fracDigits + 1

\* A lone character after the point gets a zero appended: "5" is 50, "+" is +0.
FracValue(d) ==
    IF d.points = 0 THEN 0
    ELSE IF FracLength(d) = 1 THEN 10 * d.frac
    ELSE IF d.fracSign = Minus THEN -d.frac ELSE d.frac

\* ParseMinorUnits returns no error.  Only a leading minus is looked for; both
\* parts then go through strconv.ParseInt, which takes a sign, needs a digit
\* and refuses what does not fit in 64 bits.
Converts(d) ==
    /\ d # Malformed
    /\ d.sign # Minus
    /\ d.whole # NoDigits /\ d.whole < HalfRange
    /\ d.points = 1 => FracLength(d) \in {1, 2}

ParseMinorUnits(d) == Wrap(d.whole * 100 + FracValue(d))

\* Faulty variant of FormatMinorUnits: "%d.%d".
FormatUnpadded(minor) ==
    LET frac == Rem(minor, 100)
    IN  [sign       |-> IF Quo(minor, 100) < 0 THEN Minus ELSE NoSign,
         whole      |-> Abs(Quo(minor, 100)),
         points     |-> 1,
         fracSign   |-> IF frac < 0 THEN Minus ELSE NoSign,
         fracDigits |-> IF Abs(frac) < 10 THEN 1 ELSE 2,
         frac       |-> Abs(frac)]

\* "%d.%02d": a negative remainder brings its own sign, which counts as one of
\* the two characters.
FormatMinorUnits(minor) ==
    LET whole == Quo(minor, 100)
        frac  == Rem(minor, 100)
    IN  [sign       |-> IF whole < 0 THEN Minus ELSE NoSign,
         whole      |-> Abs(whole),
         points     |-> 1,
         fracSign   |-> IF frac < 0 THEN Minus ELSE NoSign,
         fracDigits |-> IF frac < 0 /\ frac > -10 THEN 1 ELSE 2,
         frac       |-> Abs(frac)]

\* Decimal text that is also a JSON number: no sign but a leading minus, and
\* digits on both sides of a point.
JSONNumber(d) ==
    /\ d # Malformed
    /\ d.sign # Plus /\ d.whole # NoDigits
    /\ d.points = 1 => d.fracSign = NoSign /\ d.fracDigits > 0
=============================================================================
