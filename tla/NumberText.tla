------------------------------ MODULE NumberText ------------------------------
(***************************************************************************)
(* How a double is written by lsb_outputfd (src/util/output_buffer.c) and  *)
(* read back by Lua.  Doubles are counted in quarters of the last decimal  *)
(* place that is written, the finest distinction lsb_outputfd makes.       *)
(***************************************************************************)
EXTENDS Integers, SequencesExt

CONSTANTS
  precision,   \* decimal places written: 8 in the code
  INT_MAX      \* the largest int

ASSUME NumberAssumption == precision \in Nat \ {0} /\ INT_MAX \in Nat \ {0}

INT_MIN == -INT_MAX - 1

magnitude == 10 ^ precision

\* True of every power, but nothing the provers know.
ASSUME MagnitudeAssumption == magnitude \in Nat \ {0}

Unit == 4 * magnitude      \* the double 1.0

\* Characters: digits are 0 .. 9; what is printed for a negative remainder is
\* some other character.
Point == 10
Minus == 11

\* Conversion of a double that is not negative to int.  Out of range it is
\* undefined: the processors either give INT_MIN or the nearest int.
ToInt(d) == IF d \div Unit <= INT_MAX THEN {d \div Unit} ELSE {INT_MIN, INT_MAX}

\* Division and remainder of C go towards 0.
Quotient(n) == IF n < 0 THEN -((-n) \div 10) ELSE n \div 10
Remainder(n) == n - 10 * Quotient(n)

\* The digits of the number; the loop ends at 0 or below.
NumberDigits(number) ==
  LET digits[n \in INT_MIN .. INT_MAX + 1] ==
        (IF Quotient(n) > 0 THEN digits[Quotient(n)] ELSE <<>>) \o <<Remainder(n)>>
  IN  digits[number]

\* The point and the decimal places without the zeros at the end.
FractionDigits(fraction) ==
  LET place(x) == (fraction \div 10 ^ (precision - x)) % 10
      last == CHOOSE x \in 0 .. precision :
                /\ x > 0 => place(x) # 0
                /\ \A y \in x + 1 .. precision : place(y) = 0
  IN  IF fraction = 0 THEN <<>> ELSE <<Point>> \o [x \in 1 .. last |-> place(x)]

\* Bankers rounding, with an exception for the smallest fraction
RoundsUp(fraction, diff) ==
  \/ diff > 2
  \/ diff = 2 /\ (fraction = 0 \/ fraction % 2 = 1)

\* Rounding; diff: what is left behind the fraction, in quarters.  Only a
\* fraction that is rounded up for more than a half is carried.
Rounded(number, fraction, diff) ==
  IF diff > 2 /\ fraction + 1 >= magnitude THEN <<number + 1, 0>>
  ELSE <<number, IF RoundsUp(fraction, diff) THEN fraction + 1 ELSE fraction>>

\* The texts of a double in the range of int.  Where the number has become
\* INT_MIN, what is left is a multiple of 2^32: the fraction is 0 and diff huge.
lsb_outputfd(d) ==
  LET abs == IF d < 0 THEN -d ELSE d
      rounded(number) ==
        IF number < 0 THEN Rounded(number, 0, 3)
        ELSE LET tmp == abs - number * Unit IN Rounded(number, tmp \div 4, tmp % 4)
      text(r) == (IF d < 0 THEN <<Minus>> ELSE <<>>)
                 \o NumberDigits(r[1]) \o FractionDigits(r[2])
  IN  {text(rounded(number)) : number \in ToInt(abs)}

InRange(d) == d >= INT_MIN * Unit /\ d <= INT_MAX * Unit

Digit == 0 .. 9

\* What Lua makes of a text: a chunk with anything but a number does not compile.
IsNumeral(text) ==
  LET digits == IF text[1] = Minus THEN Tail(text) ELSE text
      points == {i \in DOMAIN digits : digits[i] = Point}
  IN  /\ digits # <<>>
      /\ \A i \in DOMAIN digits : digits[i] \in Digit \cup {Point}
      /\ \A i, j \in points : i = j
      /\ \E i \in DOMAIN digits : digits[i] \in Digit

ReadNumeral(text) ==
  LET digits == IF text[1] = Minus THEN Tail(text) ELSE text
      point == IF Point \in ToSet(digits) THEN CHOOSE i \in DOMAIN digits : digits[i] = Point
               ELSE Len(digits) + 1
      weight(i) == IF i < point THEN Unit * 10 ^ (point - 1 - i)
                   ELSE Unit \div 10 ^ (i - point)
      value == FoldLeftDomain(LAMBDA sum, i : IF i = point THEN sum ELSE sum + digits[i] * weight(i),
                              0, digits)
  IN  IF text[1] = Minus THEN -value ELSE value
===============================================================================
