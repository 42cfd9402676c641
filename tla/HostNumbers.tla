----------------------------- MODULE HostNumbers -----------------------------
(***************************************************************************)
(* The numbers of the subgraph host: BigInt values as the bytes of a two's  *)
(* complement in the memory of the instance, BigDecimal values as a BigInt  *)
(* of digits and one of an exponent, and the operations the host offers on  *)
(* them.  A call that throws has the result <<>>, others a sequence of one  *)
(* value.  The sizes of bytes, of the words of decimal.js and of the        *)
(* precision are parameters: small ones reach the same borders.             *)
(***************************************************************************)
EXTENDS Integers, SequencesExt, FiniteSetsExt, Bitwise

CONSTANTS
    Byte,       \* values of a byte (256)
    LogBase,    \* digits in a word of decimal.js (7)
    Precision,  \* significant digits (34)
    MinExp,     \* least exponent (-6143)
    MaxExp      \* greatest exponent (6144)

ASSUME HostNumbersAssumption ==
    /\ Byte \in {2^k : k \in 1..8}
    /\ LogBase \in Nat \ {0} /\ Precision \in Nat \ {0}
    /\ MinExp \in Int /\ MaxExp \in Int /\ MinExp < 0 /\ MaxExp > 0

Magnitude(n) == IF n < 0 THEN -n ELSE n
Sign(n) == IF n < 0 THEN -1 ELSE 1

-------------------------------------------------------------------------------
(* BigInt.                                                                   *)

\* bytes of the magnitude, none for 0
ByteLength(n) == Min({k \in 0..14 : Magnitude(n) < Byte^k})

\* mutant: no byte for the sign
NoSignByte(n) ==
    LET size == Max({1, ByteLength(n)}) IN
    [i \in 1..size |-> ((n % Byte^size) \div Byte^(i - 1)) % Byte]

\* bigInt.fromString: the bytes of the magnitude and one more
IntBytes(n) ==
    LET size == ByteLength(n) + 1 IN
    [i \in 1..size |-> ((n % Byte^size) \div Byte^(i - 1)) % Byte]

\* typeConversion.bigIntToString: the highest bit of the bytes is the sign
IntOf(bytes) ==
    LET unsigned == FoldRight(LAMBDA b, n : b + Byte * n, bytes, 0)
        range == Byte^Len(bytes)
    IN  IF 2 * unsigned >= range THEN unsigned - range ELSE unsigned

\* plus, minus and times
Plus(x, y) == <<IntBytes(IntOf(x) + IntOf(y))>>
Minus(x, y) == <<IntBytes(IntOf(x) - IntOf(y))>>
Times(x, y) == <<IntBytes(IntOf(x) * IntOf(y))>>

\* dividedBy, towards zero
DividedBy(x, y) ==
    LET m == IntOf(x)  n == IntOf(y) IN
    IF n = 0 THEN <<>>
    ELSE <<IntBytes(Sign(m) * Sign(n) * (Magnitude(m) \div Magnitude(n)))>>

\* mod: of the ethers library, which takes no divisor below 1 and gives no
\* remainder below 0
Mod(x, y) ==
    LET m == IntOf(x)  n == IntOf(y) IN
    IF n <= 0 THEN <<>> ELSE <<IntBytes(m % n)>>

\* leftShift and rightShift: not of negative numbers
LeftShift(x, bits) ==
    IF IntOf(x) < 0 THEN <<>> ELSE <<IntBytes(IntOf(x) * 2^bits)>>
RightShift(x, bits) ==
    IF IntOf(x) < 0 THEN <<>> ELSE <<IntBytes(IntOf(x) \div 2^bits)>>

\* bitAnd and bitOr: not of negative numbers
BitAnd(x, y) ==
    IF IntOf(x) < 0 \/ IntOf(y) < 0 THEN <<>> ELSE <<IntBytes(IntOf(x) & IntOf(y))>>
BitOr(x, y) ==
    IF IntOf(x) < 0 \/ IntOf(y) < 0 THEN <<>> ELSE <<IntBytes(IntOf(x) | IntOf(y))>>

\* pow
Power(n, k) == IF k = 0 THEN 1 ELSE n^k
Pow(x, k) == <<IntBytes(Power(IntOf(x), k))>>

-------------------------------------------------------------------------------
(* Decimals: n * 10^x.                                                       *)

DigitCount(n) == Max({1, Min({k \in 0..9 : Magnitude(n) < 10^k})})

\* digits of a natural number, the highest first
Digits(n) == LET k == DigitCount(n) IN [i \in 1..k |-> (n \div 10^(k - i)) % 10]
Number(digits) == FoldLeft(LAMBDA n, d : 10 * n + d, 0, digits)

TrailingZeros(n) == IF n = 0 THEN 0 ELSE Max({k \in 0..DigitCount(n) - 1 : n % 10^k = 0})

\* as decimal.js has it: no zeros at the end
Normal(d) ==
    IF d.n = 0 THEN [n |-> 0, x |-> 0]
    ELSE LET k == TrailingZeros(Magnitude(d.n))
         IN  [n |-> Sign(d.n) * (Magnitude(d.n) \div 10^k), x |-> d.x + k]

\* mutant: digits beyond the precision are cut off
Truncated(d) ==
    LET k == DigitCount(d.n) - Precision IN
    IF k <= 0 THEN Normal(d)
    ELSE Normal([n |-> Sign(d.n) * (Magnitude(d.n) \div 10^k), x |-> d.x + k])

\* new GraphDecimal: significant digits, half away from zero
Rounded(d) ==
    LET k == DigitCount(d.n) - Precision IN
    IF k <= 0 THEN Normal(d)
    ELSE Normal([n |-> Sign(d.n) * ((Magnitude(d.n) + 5 * 10^(k - 1)) \div 10^k), x |-> d.x + k])

\* the exponent e of decimal.js, of the first digit
Exponent(d) == DigitCount(d.n) + d.x - 1

\* the words d of decimal.js: the point is at the border of two words
Words(d) ==
    LET digits == Digits(Magnitude(d.n))
        head == (Exponent(d) % LogBase) + 1
        rest == Max({0, Len(digits) - head})
        count == (rest + LogBase - 1) \div LogBase
        at(i) == IF i <= Len(digits) THEN digits[i] ELSE 0
        word(a, b) == Number([i \in 1..(b - a + 1) |-> at(a + i - 1)])
    IN  <<word(1, head)>> \o
        [j \in 1..count |-> word(head + (j - 1) * LogBase + 1, head + j * LogBase)]

Zeros(k) == [i \in 1..k |-> 0]
WithoutZeros(w) == Digits(w \div 10^TrailingZeros(w))

\* mutant: words after the first one without their leading zeros
Unpadded(words) ==
    IF Len(words) = 1 THEN IF words[1] = 0 THEN <<0>> ELSE WithoutZeros(words[1])
    ELSE FoldLeft(LAMBDA s, w : s \o Digits(w), <<>>, Front(words)) \o WithoutZeros(Last(words))

\* _digitsToString
DigitsToString(words) ==
    LET padded(w) == Zeros(LogBase - DigitCount(w)) \o Digits(w)
        last == Last(words)
    IN  IF Len(words) = 1 THEN IF words[1] = 0 THEN <<0>> ELSE WithoutZeros(words[1])
        ELSE FoldLeft(LAMBDA s, w : s \o padded(w), Digits(words[1]), Tail(Front(words)))
             \o Zeros(LogBase - DigitCount(last)) \o WithoutZeros(last)

GraphDigitsAndExp(d) ==
    LET digits == DigitsToString(Words(d))
    IN  [digits |-> digits, exp |-> Exponent(d) - Len(digits) + 1]

\* _checkOutOfRange
OutOfRange(d) == GraphDigitsAndExp(d).exp \notin MinExp..MaxExp

\* bigDecimal.fromString
FromString(d) ==
    LET r == Rounded(d)
        g == GraphDigitsAndExp(r)
    IN  [digits |-> IntBytes(Sign(r.n) * Number(g.digits)), exp |-> IntBytes(g.exp)]

\* bigDecimal.toString
Decimal(b) ==
    LET d == Rounded([n |-> IntOf(b.digits), x |-> IntOf(b.exp)])
    IN  IF OutOfRange(d) THEN <<>> ELSE <<d>>

\* an operation on two decimals of the instance, with its exact result, rounded by
\* decimal.js to the same precision as the result
DecimalOp(x, y, exact) ==
    IF Decimal(x) = <<>> \/ Decimal(y) = <<>> \/ exact = <<>> THEN <<>>
    ELSE IF OutOfRange(Rounded(exact[1])) THEN <<>>
    ELSE <<FromString(Rounded(exact[1]))>>

Sum(d, e) ==
    LET x == Min({d.x, e.x})
    IN  [n |-> d.n * 10^(d.x - x) + e.n * 10^(e.x - x), x |-> x]
Negative(d) == [d EXCEPT !.n = -@]
Product(d, e) == [n |-> d.n * e.n, x |-> d.x + e.x]

\* the first digits of a quotient, enough to round it
Quotient(d, e) ==
    LET k == Precision + DigitCount(e.n)
    IN  [n |-> Sign(d.n) * Sign(e.n) * ((Magnitude(d.n) * 10^k) \div Magnitude(e.n)), x |-> d.x - e.x - k]

Of(x) == Decimal(x)[1]
DecimalPlus(x, y) == DecimalOp(x, y, <<Sum(Of(x), Of(y))>>)
DecimalMinus(x, y) == DecimalOp(x, y, <<Sum(Of(x), Negative(Of(y)))>>)
DecimalTimes(x, y) == DecimalOp(x, y, <<Product(Of(x), Of(y))>>)
DecimalDividedBy(x, y) ==
    DecimalOp(x, y, IF Of(y).n = 0 THEN <<>> ELSE <<Quotient(Of(x), Of(y))>>)

\* bigInt.dividedByDecimal: the integer is rounded before it is divided
IntDividedByDecimal(x, y) ==
    LET d == Rounded([n |-> IntOf(x), x |-> 0]) IN
    IF OutOfRange(d) THEN <<>> ELSE DecimalDividedBy(FromString(d), y)

===============================================================================
