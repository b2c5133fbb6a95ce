----------------------------- MODULE JanusShare -----------------------------
(***************************************************************************)
(* When a candidate is a share (the end of the loop of mine_job_v2_2 in    *)
(* verusopt/verus_clhash_opt.cpp): its VerusHash times a power of its      *)
(* triple SHA-256 lies below the target.  Both are fractions, computed in  *)
(* CustomFloat (shared/src/block/header/custom_float.hpp), a sign, an      *)
(* exponent and a mantissa of 32 bits; in pool mode the target is made of  *)
(* the pool's difficulty, with 22 bits (TargetV2, difficulty.hpp).         *)
(*                                                                         *)
(* Widths are parameters.  A float is 0 or has a mantissa with a leading   *)
(* one: its value is man / 2^Width * 2^exp.                                *)
(***************************************************************************)
EXTENDS Integers, Sequences

CONSTANTS
    Width,        \* bits of a mantissa (32)
    DigitWidth,   \* bits of a target's digits (22)
    ByteWidth,    \* bits of a byte (8); four of them are a mantissa
    HashBytes,    \* bytes of a hash (32)
    VerusStarts,  \* the VerusHashes to look at, by their first bytes
    HashStarts,   \* the numbers a hash of the kernel begins with
    Difficulties  \* difficulties of the pool, as [exp, man]

(* From 12 bits on, up to the 32 of the code, the polynomials are near     *)
(* enough to their functions; with 4 they are too coarse.  A target has at *)
(* least two digits and fewer than a mantissa.                             *)
ASSUME WidthAssumption ==
    /\ ByteWidth \in 3 .. 8 /\ Width = 4 * ByteWidth
    /\ DigitWidth \in 2 .. Width - 1
    /\ HashBytes \in Nat /\ HashBytes >= 4

ASSUME InputAssumption ==
    /\ VerusStarts \subseteq Seq(0 .. 2^ByteWidth - 1) /\ HashStarts \subseteq Nat
    /\ Difficulties \subseteq [exp : Int, man : 2^(Width - 1) .. 2^Width - 1]

VARIABLE share  \* the candidate that is looked at

NoShare == [stage |-> "none"]

Half == 2^(Width - 1)
One  == 2^Width
IsMantissa(m) == Half <= m /\ m < One

Float(e, m, p) == [exp |-> e, man |-> m, pos |-> p]
Zero(x)   == [x EXCEPT !.man = 0]
IsZero(x) == x.man = 0

(* shift_left: leading zeros are moved into the exponent.                  *)
LeadingZeros(m) == CHOOSE k \in 0 .. Width - 1 : IsMantissa(m * 2^k)
ShiftLeft(e, m, p) == Float(e - LeadingZeros(m), m * 2^LeadingZeros(m), p)
(* shift_right, for a sum of two mantissas.                                *)
ShiftRight(e, m, p) == IF m < One THEN Float(e, m, p) ELSE Float(e + 1, m \div 2, p)

FromInt(i) ==
    IF i = 0 THEN Float(0, 0, TRUE)
    ELSE IF i > 0 THEN ShiftLeft(Width, i, TRUE) ELSE ShiftLeft(Width, -i, FALSE)
FromExponent(e) == Float(e + 1, Half, TRUE)

(***************************************************************************)
(* operator+= and operator*=                                               *)
(***************************************************************************)
Negative(x) == [x EXCEPT !.pos = ~@]

(* x has the greater exponent; the digits of y that do not fit are lost.   *)
FloatSumOrdered(x, y) ==
    LET d       == x.exp - y.exp
        operand == IF d < Width THEN y.man \div 2^d ELSE 0
    IN  CASE x.pos = y.pos -> ShiftRight(x.exp, x.man + operand, x.pos)
          [] x.pos # y.pos /\ operand = x.man -> Zero(x)
          [] x.pos # y.pos /\ operand > x.man -> ShiftLeft(y.exp, operand - x.man, y.pos)
          [] OTHER -> ShiftLeft(x.exp, x.man - operand, x.pos)

FloatSum(x, y) ==
    CASE IsZero(x) -> y
      [] ~IsZero(x) /\ IsZero(y) -> x
      [] OTHER -> IF x.exp < y.exp THEN FloatSumOrdered(y, x) ELSE FloatSumOrdered(x, y)

FloatProduct(x, y) ==
    IF IsZero(x) \/ IsZero(y) THEN Zero(x)
    ELSE LET t == x.man * y.man
         IN  IF t < One * Half
             THEN Float(x.exp + y.exp - 1, (2 * t) \div One, x.pos = y.pos)
             ELSE Float(x.exp + y.exp, t \div One, x.pos = y.pos)

(* The constants, the first Width of the 32 bits that two halves make.     *)
Coefficient(e, high, low, p) ==
    Float(e, (high * One + (low * One) \div 2^16) \div 2^16, p)

(* c[1] + x * (c[2] + x * (c[3] + x * c[4]))                               *)
Cubic(c, x) == FloatSum(c[1], FloatProduct(x, FloatSum(c[2], FloatProduct(x, FloatSum(c[3], FloatProduct(x, c[4]))))))

(***************************************************************************)
(* log2, pow2 and pow                                                      *)
(***************************************************************************)
LogCoefficients ==
    << Coefficient(2, 52663, 16359, FALSE), Coefficient(3, 51640, 1773, TRUE),
       Coefficient(3, 36278, 30667, FALSE), Coefficient(1, 43828, 61860, TRUE) >>
Log2(x) == FloatSum(FromInt(x.exp), Cubic(LogCoefficients, [x EXCEPT !.exp = 0]))

PowCoefficients ==
    << Coefficient(1, 32774, 56617, TRUE), Coefficient(0, 46004, 43246, TRUE),
       Coefficient(-2, 53565, 57873, TRUE), Coefficient(-3, 48947, 5668, TRUE) >>
Pow2Fraction(f) == Cubic(PowCoefficients, f)

(* pow2 of a number of at least one: its integer and its fractional part.  *)
IntegerPart(x) == x.man \div 2^(Width - x.exp)
FractionalPart(x) == (x.man * 2^x.exp) % One
Pow2Big(x) ==
    LET e == IntegerPart(x)
        f == ShiftLeft(0, FractionalPart(x), TRUE)
    IN  IF FractionalPart(x) = 0
        THEN FromExponent(IF x.pos THEN e ELSE -e)
        ELSE LET r == Pow2Fraction(IF x.pos THEN f ELSE FloatSum(FromInt(1), Negative(f)))
             IN  [r EXCEPT !.exp = IF x.pos THEN @ + e ELSE -(@ + e - 1)]

(* Faulty: the exponent of 2^(1+x) is decreased by one.                    *)
Pow2SmallDecreased(x) ==
    IF x.pos THEN Pow2Fraction(x)
    ELSE LET r == Pow2Fraction(FloatSum(FromInt(1), x)) IN [r EXCEPT !.exp = -@ - 1]

(* Of a number below one; 2^(1+x) has the exponent 1, and 2^x then has 0.  *)
Pow2Small(x) ==
    IF x.pos THEN Pow2Fraction(x)
    ELSE LET r == Pow2Fraction(FloatSum(FromInt(1), x)) IN [r EXCEPT !.exp = -@ + 1]

Pow2(x) == CASE IsZero(x) -> FromInt(1)
             [] ~IsZero(x) /\ x.exp > 0 -> Pow2Big(x)
             [] OTHER -> Pow2Small(x)

(* 0.7 *)
Factor == Coefficient(0, 45875, 13107, TRUE)
LogPower(x) == FloatProduct(Factor, Log2(x))
Power(x) == Pow2(LogPower(x))

(***************************************************************************)
(* The hashes of a candidate                                               *)
(***************************************************************************)
AllOnes == 2^ByteWidth - 1
LeadingZeroBytes(h) ==
    IF \A i \in 1 .. Len(h) : h[i] = 0 THEN Len(h)
    ELSE CHOOSE k \in 0 .. Len(h) - 1 : h[k + 1] # 0 /\ \A i \in 1 .. k : h[i] = 0
ByteAt(h, i) == IF i <= Len(h) THEN h[i] ELSE AllOnes

(* CustomFloat(Hash): the four bytes behind the leading zeros.             *)
FloatOf(h) ==
    LET k == LeadingZeroBytes(h)
        m == ((ByteAt(h, k + 1) * 2^ByteWidth + ByteAt(h, k + 2)) * 2^ByteWidth
               + ByteAt(h, k + 3)) * 2^ByteWidth + ByteAt(h, k + 4)
    IN  ShiftLeft(-k * ByteWidth, m, TRUE)

Filled(start, byte) == [i \in 1 .. HashBytes |-> IF i <= Len(start) THEN start[i] ELSE byte]

(* dummySha256tHash: the 32 bits the kernel passes on, then ones only.     *)
StartBytes(n) == [i \in 1 .. 4 |-> (n \div 2^((4 - i) * ByteWidth)) % 2^ByteWidth]
Sha256t(n) == Filled(StartBytes(n), AllOnes)

(***************************************************************************)
(* TargetV2(double)                                                        *)
(***************************************************************************)
(* The difficulty is man / 2^Width * 2^exp like a float.  frexp and the    *)
(* inverse of its coefficient, cut to DigitWidth digits.  Left out is the  *)
(* clamp of the zeros at 3 * 256, for targets that a product of two hashes *)
(* of 32 bytes never meets.                                                *)
TargetOf(d) ==
    IF d.exp < 1 \/ (d.exp = 1 /\ d.man = Half)
    THEN [zeros |-> 0, bits |-> 2^DigitWidth - 1]
    ELSE [zeros |-> d.exp - 1,
          bits |-> IF d.man = Half THEN 2^DigitWidth - 1
                   ELSE (One * 2^(DigitWidth - 1)) \div d.man]

(* Faulty: the digits are compared without being brought to one width.     *)
BelowUnshifted(x, t) ==
    \/ t.zeros < -x.exp
    \/ t.zeros = -x.exp /\ x.man < t.bits

(* operator<(CustomFloat, TargetV2)                                        *)
Below(x, t) ==
    \/ t.zeros < -x.exp
    \/ t.zeros = -x.exp /\ x.man < t.bits * 2^(Width - DigitWidth)

(***************************************************************************)
(* The steps of a candidate                                                *)
(***************************************************************************)
InitShare == share = NoShare

(* pow(sha256tFloat, factor), for the candidates whose hashStart the       *)
(* worker does not skip.                                                   *)
TakePower ==
    /\ share = NoShare
    /\ \E n \in HashStarts :
         share' = [stage |-> "power", sha |-> FloatOf(Sha256t(n)),
                   log |-> LogPower(FloatOf(Sha256t(n))),
                   power |-> Power(FloatOf(Sha256t(n)))]

Compare ==
    /\ share.stage = "power"
    /\ \E start \in VerusStarts, byte \in {0, AllOnes}, d \in Difficulties :
         LET janus == FloatProduct(FloatOf(Filled(start, byte)), share.power)
         IN  share' = [stage |-> "compared", janus |-> janus, difficulty |-> d,
                       isShare |-> Below(janus, TargetOf(d))]

NextShare == TakePower \/ Compare

SpecShare == InitShare /\ [][NextShare]_share

(***************************************************************************)
(* Properties                                                              *)
(***************************************************************************)
(* With y = 0.7 * log2(sha) as computed and n = floor(-y), the power of    *)
(* two lies between 2^-(n+1) and 2^-n: it is the right one up to less than *)
(* a factor of two although pow2 treats integers, fractions and exponents  *)
(* apart and its polynomial is not exact at their seams.  y is never       *)
(* positive, so that the product with the VerusHash has no positive        *)
(* exponent (assert(hashproduct.exponent() <= 0)).                         *)
PowBracketed ==
    share.stage = "power" =>
        LET y == share.log
            n == IF IsZero(y) \/ y.exp <= 0 THEN 0 ELSE IntegerPart(y)
        IN  /\ IsZero(y) \/ ~y.pos
            /\ share.power.pos
            /\ \/ share.power.exp = -n /\ IsMantissa(share.power.man)
               \/ share.power = FromExponent(-n)

(* What is taken for a share is one: its number is below the inverse of    *)
(* the pool's difficulty (which counts as 1 when it is less).  What is not *)
(* taken for one misses it by no more than the last digit of a target.     *)
AtLeastOne(d) == IF d.exp < 1 THEN FromInt(1) ELSE d
ShareMeetsDifficulty ==
    share.stage = "compared" =>
        LET d == AtLeastOne(share.difficulty)
            e == share.janus.exp + d.exp
        IN  /\ share.janus.exp <= 0
            /\ share.isShare =>
                  e <= 0 \/ (e = 1 /\ 2 * share.janus.man * d.man < One * One)
            /\ ~share.isShare =>
                  \/ e >= 2
                  \/ /\ e \in {0, 1}
                     /\ 2^e * share.janus.man * d.man >=
                           One * (One - 2^(Width - DigitWidth + 1))
=============================================================================
