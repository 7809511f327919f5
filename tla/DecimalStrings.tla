---------------------------- MODULE DecimalStrings ----------------------------
(***************************************************************************)
(* The decimal arithmetic of the balance script.  Lua has only doubles, so *)
(* the script adds and subtracts amounts digit by digit on strings.  A     *)
(* decimal is a sign and two sequences of digits; the scan from right to   *)
(* left with a carry or a borrow is the code's.                            *)
(***************************************************************************)
EXTENDS Integers, SequencesExt, Evaluation

CONSTANTS
    IntDigits, FracDigits,  \* digits before and after the point, at most
    Significant,            \* digits a double tells apart
    Operands                \* magnitudes, in units of the last place

ASSUME DecimalsAssumption ==
    /\ IntDigits \in Nat \ {0} /\ FracDigits \in Nat /\ Significant \in Nat \ {0}
    /\ Operands \subseteq 0..(10^Significant - 1)

Magnitude(d) == [d EXCEPT !.neg = FALSE]
Negated(d) == [d EXCEPT !.neg = TRUE]

\* Pads a sequence of digits with zeros to length n, on the left or the right.
Zeros(n) == [i \in 1..n |-> 0]
PadLeft(s, n) == Zeros(n - Len(s)) \o s
PadRight(s, n) == s \o Zeros(n - Len(s))

LongerOf(s, t) == IF Len(s) > Len(t) THEN Len(s) ELSE Len(t)

\* Both operands as digits of one length, the point left out.
Aligned(d, e) ==
    LET frac == LongerOf(d.frac, e.frac)
        int == LongerOf(d.int, e.int)
        digits(x) == PadLeft(x.int, int) \o PadRight(x.frac, frac)
    IN  [a |-> digits(d), b |-> digits(e), point |-> int]

RtrimZeros(frac) ==
    SubSeq(frac, 1, CHOOSE n \in 0..Len(frac) :
      (n = 0 \/ frac[n] # 0) /\ \A i \in (n + 1)..Len(frac) : frac[i] = 0)

LtrimZeros(int) ==
    IF \A i \in DOMAIN int : int[i] = 0 THEN <<0>>
    ELSE SubSeq(int, CHOOSE n \in DOMAIN int : int[n] # 0 /\ \A i \in 1..(n - 1) : int[i] = 0, Len(int))

Point(digits, point) ==
    [neg |-> FALSE, int |-> SubSeq(digits, 1, point),
     frac |-> RtrimZeros(SubSeq(digits, point + 1, Len(digits)))]

\* From the last digit to the first: Digit gives the digit and what is carried.
Scan(x, Digit(_, _, _)) ==
    FoldRight(LAMBDA pair, s :
                LET d == Digit(pair[1], pair[2], s.carry) IN
                [digits |-> <<d.digit>> \o s.digits, carry |-> d.carry],
              [i \in DOMAIN x.a |-> <<x.a[i], x.b[i]>>], [digits |-> <<>>, carry |-> 0])

\* Two magnitudes added; a last carry is a digit of its own.
AddMagnitudes(d, e) ==
    LET x == Aligned(d, e)
        s == Scan(x, LAMBDA a, b, carry : [digit |-> (a + b + carry) % 10, carry |-> (a + b + carry) \div 10])
    IN  IF s.carry > 0 THEN Point(<<s.carry>> \o s.digits, x.point + 1) ELSE Point(s.digits, x.point)

\* A seeded fault for TLC: the borrow stops at the decimal point.
SubMagnitudesNoBorrow(d, e) ==
    LET x == Aligned(d, e)
        part(lo, hi) == Scan([a |-> SubSeq(x.a, lo, hi), b |-> SubSeq(x.b, lo, hi)],
                             LAMBDA a, b, borrow : [digit |-> (a - b - borrow) % 10,
                                                    carry |-> IF a - b - borrow < 0 THEN 1 ELSE 0])
        r == Point(part(1, x.point).digits \o part(x.point + 1, Len(x.a)).digits, x.point)
    IN  [r EXCEPT !.int = LtrimZeros(@)]

\* The smaller magnitude taken from the larger; a last borrow is dropped.
SubMagnitudes(d, e) ==
    LET x == Aligned(d, e)
        s == Scan(x, LAMBDA a, b, borrow : [digit |-> (a - b - borrow) % 10,
                                            carry |-> IF a - b - borrow < 0 THEN 1 ELSE 0])
        r == Point(s.digits, x.point)
    IN  [r EXCEPT !.int = LtrimZeros(@)]

-----------------------------------------------------------------------------
(* Values: decimals of at most IntDigits and FracDigits digits, in units of *)
(* the last place.                                                          *)

Number(digits) == FoldLeft(LAMBDA n, digit : 10 * n + digit, 0, digits)

\* The value in units of 10^-FracDigits.
Value(d) ==
    LET abs == Number(d.int \o PadRight(d.frac, FracDigits)) IN IF d.neg THEN -abs ELSE abs

Digits(n, len) == [i \in 1..len |-> (n \div 10^(len - i)) % 10]

\* The string Go's decimal prints for n units.
Decimal(n) ==
    LET abs == IF n < 0 THEN -n ELSE n
        unit == 10^FracDigits
    IN  [neg |-> n < 0, int |-> LtrimZeros(Digits(abs \div unit, IntDigits)),
         frac |-> RtrimZeros(Digits(abs % unit, FracDigits))]

-----------------------------------------------------------------------------
(* add_decimal, sub_decimal *)

\* tonumber: a double keeps the leading Significant digits, to the nearest.
ToNumber(d) ==
    LET v == Value(d)
        lost == 10^(CHOOSE n \in 0..(IntDigits + FracDigits + 1) :
                  /\ v < 10^(n + Significant)
                  /\ n > 0 => v >= 10^(n - 1 + Significant))
    IN  ((2 * v + lost) \div (2 * lost)) * lost

\* The recursive calls only move signs: each case ends in two magnitudes.
SubUnsigned(d, e) ==
    IF ToNumber(d) < ToNumber(e) THEN Negated(SubMagnitudes(e, d)) ELSE SubMagnitudes(d, e)

AddDecimal(d, e) ==
    LET p == Magnitude(d) q == Magnitude(e) IN
    CASE d.neg /\ e.neg -> Negated(AddMagnitudes(p, q))
      [] d.neg /\ ~e.neg -> SubUnsigned(q, p)
      [] ~d.neg /\ e.neg -> SubUnsigned(p, q)
      [] OTHER -> AddMagnitudes(p, q)

SubDecimal(d, e) ==
    LET p == Magnitude(d) q == Magnitude(e) IN
    CASE d.neg /\ e.neg -> SubUnsigned(q, p)
      [] d.neg /\ ~e.neg -> Negated(AddMagnitudes(p, q))
      [] ~d.neg /\ e.neg -> AddMagnitudes(p, q)
      [] OTHER -> SubUnsigned(p, q)

StartsWithMinus(d) == d.neg

MinDecimal(d, e) == IF StartsWithMinus(SubDecimal(d, e)) THEN d ELSE e

-----------------------------------------------------------------------------
(* Properties *)

Integral == Operands \cup {-k : k \in Operands}
ChooseDecimals == \E m, n \in Integral : input' = [of |-> "decimals", left |-> m, right |-> n]

\* As far as a double tells the operands apart, sums and differences are
\* exact, in the form Go prints, and their sign decides insufficient funds
\* and repayments rightly: no carry, borrow or trailing zero goes wrong.
DecimalsAreExact ==
    input.of = "decimals" =>
      LET m == input.left
          n == input.right
          x == Decimal(m)
          y == Decimal(n)
      IN
      /\ AddDecimal(x, y) = Decimal(m + n)
      /\ SubDecimal(x, y) = Decimal(m - n)
      /\ StartsWithMinus(SubDecimal(x, y)) <=> m < n
      /\ MinDecimal(x, y) = Decimal(IF m < n THEN m ELSE n)
=============================================================================
