------------------------------ MODULE Numbers ------------------------------
(***************************************************************************)
(* Numbers as cells and as text: the conversions of src/kernel.c between   *)
(* <# and ?number, and the words that print numbers.  A cell has         *)
(* 2 * Half values; INT32 is its value with a sign, NUM32 without.  Text   *)
(* is a sequence of character codes.                                       *)
(***************************************************************************)
EXTENDS Integers, SequencesExt

CONSTANT Half          \* 2^31 for 32 bits

ASSUME CellAssumption == Half \in Nat \ {0}

Cells == - Half .. Half - 1
Unsigned(n) == n % (2 * Half)
Signed(n) == LET u == Unsigned(n) IN IF u < Half THEN u ELSE u - 2 * Half

Minus == 45
Space == 32
Zero == 48
LowerA == 97
LowerZ == 122
----------------------------------------------------------------------------
\* Mutant of #: the letters follow the digits with a gap of one.
DigitTooHigh(d) == d + (IF d > 9 THEN LowerA - 9 ELSE Zero)

\* The character of a digit, in #.
Digit(d) == d + (IF d > 9 THEN LowerA - 10 ELSE Zero)

\* <# #s: the digits of n, which # takes as unsigned, the last digit first.
Sharps(n, base) ==
  LET text[u \in 0 .. 2 * Half - 1] ==
        IF u < base THEN <<Digit(u)>> ELSE Append(text[u \div base], Digit(u % base))
  IN  text[Unsigned(n)]

\* abs and - leave the smallest cell, which has no opposite, as it is.
Negate(n) == Signed(- n)
Abs(n) == IF n < 0 THEN Negate(n) ELSE n

\* The sign goes before the digits.
WithSign(n, digits) == IF n < 0 THEN <<Minus>> \o digits ELSE digits
Spaces(n) == IF n > 0 THEN [i \in 1 .. n |-> Space] ELSE <<>>

Dot(n, base) == WithSign(n, Sharps(Abs(n), base)) \o <<Space>>
DotR(n, w, base) == LET s == WithSign(n, Sharps(Abs(n), base)) IN Spaces(w - Len(s)) \o s
UDot(n, base) == Sharps(n, base) \o <<Space>>
UDotR(n, w, base) == LET s == Sharps(n, base) IN Spaces(w - Len(s)) \o s
----------------------------------------------------------------------------
\* The value of a character, at least the base when it is not a digit.
DigitValue(c, base) == CASE c \in Zero .. Zero + 9 -> c - Zero
                         [] c \in LowerA .. LowerZ -> c - LowerA + 10
                         [] OTHER -> base

\* convert: digits are taken up to the first character that is not one.  The
\* product and the sum keep the width of a cell.
Digits(text, base) ==
  CHOOSE k \in 0 .. Len(text) :
    /\ \A i \in 1 .. k : DigitValue(text[i], base) < base
    /\ k < Len(text) => DigitValue(text[k + 1], base) >= base

Convert(text, base) ==
  LET k == Digits(text, base)
      value[i \in 0 .. k] ==
        IF i = 0 THEN 0 ELSE Signed(value[i - 1] * base + DigitValue(text[i], base))
  IN  [n |-> value[k], rest |-> SubSeq(text, k + 1, Len(text))]

\* ?number: the recognizer of the vocabulary forth.
QNumber(text, base) ==
  LET negative == text # <<>> /\ Head(text) = Minus
      c == Convert(IF negative THEN Tail(text) ELSE text, base)
  IN  IF c.rest # <<>> THEN [found |-> FALSE]
      ELSE [found |-> TRUE, n |-> IF negative THEN Negate(c.n) ELSE c.n]
----------------------------------------------------------------------------
\* The text is one word, with space around it, which is read as n.
Reads(text, n, base) ==
  LET shown == {k \in DOMAIN text : text[k] # Space}
  IN  \E i, j \in shown : /\ shown = i .. j
                          /\ QNumber(SubSeq(text, i, j), base) = [found |-> TRUE, n |-> n]

(***************************************************************************)
(* What . and .r print, ?number reads as the same cell, the smallest one   *)
(* and zero included; what u. and u.r print, it reads as the same bits.    *)
(* The digits of bases above 36 are characters that ?number does not take  *)
(* for digits (kernel.c, dosharp, doconvert, doqnumber).                   *)
(***************************************************************************)
ReadBack(base) ==
  base \in 2 .. 36 => \A n \in Cells : /\ Reads(Dot(n, base), n, base)
                                       /\ Reads(DotR(n, 3, base), n, base)
                                       /\ Reads(UDot(n, base), n, base)
                                       /\ Reads(UDotR(n, 3, base), n, base)
============================================================================
