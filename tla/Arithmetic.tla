------------------------------ MODULE Arithmetic ------------------------------
(***************************************************************************)
(* Integer and floating-point arithmetic of the interpreter's instructions *)
(* as the C++ code computes it: on bit patterns, with conversions between  *)
(* signed and unsigned numbers of the width of the operand.                *)
(*                                                                         *)
(* A float is a number of halves, or NaN; numbers too large for any        *)
(* integer type stand for the infinities as well.                          *)
(***************************************************************************)
EXTENDS Integers

CONSTANT NaN

\* The bit pattern of a number, and the number a pattern stands for, w bits wide.
Pattern(x, w) == x % (2 ^ w)
Signed(p, w) == IF p >= 2 ^ (w - 1) THEN p - 2 ^ w ELSE p

Least(w) == -(2 ^ (w - 1))
Greatest(w) == 2 ^ (w - 1) - 1

\* Unsigned arithmetic on the patterns, which cannot overflow.
WrapSigned(op, a, b, w) ==
  LET x == Pattern(a, w)
      y == Pattern(b, w)
      result == CASE op = "add" -> x + y [] op = "sub" -> x - y [] op = "mul" -> x * y
  IN  Signed(Pattern(result, w), w)

\* C++ division truncates; it is undefined for zero, and for the least number and -1.
Quotient(a, b) ==
  LET Magnitude(n) == IF n < 0 THEN -n ELSE n
      q == Magnitude(a) \div Magnitude(b)
  IN  IF (a < 0) = (b < 0) THEN q ELSE -q

DivisionIsUndefined(a, b, w) == b = 0 \/ (a = Least(w) /\ b = -1)

Remainder(a, b) == a - Quotient(a, b) * b

\* Signed overflow of a negation is undefined as well, but compiles to one instruction
\* that wraps.
Negated(a, w) == Signed(Pattern(-a, w), w)

\* The distance is an int whose pattern is masked with the width less one.
\* Mutant: distances are masked for an int even if a long is shifted.
ShiftedByIntMask(a, distance, w, intBits, kind) ==
  LET offset == Pattern(distance, intBits) % intBits
      target == IF kind = "ushr" THEN Pattern(a, w) ELSE a
  IN  Signed(Pattern(IF kind = "shl" THEN target * 2 ^ offset ELSE target \div (2 ^ offset), w), w)

Shifted(a, distance, w, intBits, kind) ==
  LET offset == Pattern(distance, intBits) % w
      target == IF kind = "ushr" THEN Pattern(a, w) ELSE a
  IN  Signed(Pattern(IF kind = "shl" THEN target * 2 ^ offset ELSE target \div (2 ^ offset), w), w)

\* Comparisons with NaN are all false.
Compared(a, b, notEqual) ==
  CASE NaN \in {a, b} -> notEqual
    [] NaN \notin {a, b} /\ a > b -> 1
    [] NaN \notin {a, b} /\ a = b -> 0
    [] NaN \notin {a, b} /\ a < b -> -1

\* To a narrower or wider integer type; char is the one that is unsigned.
CastInteger(a, w, unsigned) == IF unsigned THEN Pattern(a, w) ELSE Signed(Pattern(a, w), w)

\* The greatest number has no float of its own where the type has more bits than a
\* float has digits: it is rounded up.
CastFloatToInt(v, w) ==
  IF v = NaN THEN 0
  ELSE LET truncated == IF v > 0 THEN v \div 2 ELSE -((-v) \div 2)
       IN  IF Greatest(w) + 1 > truncated /\ Least(w) < truncated THEN truncated
           ELSE IF truncated < 0 THEN Least(w) ELSE Greatest(w)
=============================================================================
