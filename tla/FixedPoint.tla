----------------------------- MODULE FixedPoint -----------------------------
(***************************************************************************)
(* The fixed-point numbers of dsp/register.go.  A Register is an int32     *)
(* holding an S8.23 number; a value is modelled by that integer.  One is   *)
(* the integer that represents 1.0 (2^23 in the code), Word is half the    *)
(* range of an int32 (2^31), so a small instance keeps the proportions     *)
(* with much smaller numbers.  Go's arithmetic shift right is the flooring *)
(* division \div, and n & (2^k - 1) is n % 2^k.                            *)
(***************************************************************************)
EXTENDS Integers

CONSTANTS
  One,                     \* 1.0: 2^23
  Word,                    \* int32 is -Word .. Word-1: 2^31
  Disable24BitsClamping    \* settings.Disable24BitsClamping

ASSUME FixedPointAssumption ==
  /\ One \in Nat \ {0}
  /\ Word \in Nat
  /\ Word >= 8 * One
  /\ Disable24BitsClamping \in BOOLEAN

Int32 == -Word .. Word - 1
Fix24 == -One .. One - 1        \* what 24 bits hold: [-1.0, 1.0)
Unit  == -One .. One            \* [-1.0, 1.0], what SetFloat64 accepts
Raw24 == 0 .. 2 * One - 1       \* a 24-bit pattern, as a delay RAM cell keeps it
Coefficient == -2 * One .. 2 * One - 1   \* S1.14 and S1.9 arguments, as S8.23

\* The value an int32 computation leaves when its exact result is v.
Wrap(v) == ((v + Word) % (2 * Word)) - Word

-----------------------------------------------------------------------------
(* Methods of Register *)

\* Mutant: the lower limit is forgotten.
SaturateAbove(v) == IF v > One - 1 THEN One - 1 ELSE v

Saturate(v) == IF v > One - 1 THEN One - 1 ELSE IF v < -One THEN -One ELSE v

Clamp24Bit(v) == IF Disable24BitsClamping THEN v ELSE Saturate(v)

\* Mutant: a sum that is not clamped.
AddWithoutClamp(a, b) == Wrap(a + b)

Add(a, b)  == Clamp24Bit(Wrap(a + b))
Sub(a, b)  == Clamp24Bit(Wrap(a - b))
Mult(a, b) == Clamp24Bit(Wrap((a * b) \div One))

\* No clamping here: Abs(-1.0) is +1.0, one past the largest 24-bit value.
Abs(a) == IF a < 0 THEN Wrap(-a) ELSE a

\* Mutant: all the bits are kept.
KeepAllBits(v) == v

\* ToQFormat(0, 23): the low 24 bits.
ToQFormat(v) == v % (2 * One)

\* SetWithIntsAndFracs(raw, 0, 23) with extendSign: back from 24 bits.
SignExtend(raw) == IF raw >= One THEN raw - 2 * One ELSE raw

\* Extend24to32, the mask of AND, OR and XOR: a mask whose bit 23 is set
\* comes back negated, not sign-extended.
Extend24to32(n) ==
  LET value == n % (2 * One) IN IF value >= One THEN -value ELSE value

\* SetClampedFloat64, for a finite value: 0.99999 stands for anything >= 1.0.
SetClampedFloat64(v) ==
  IF v >= One THEN One - 1 ELSE IF v < -One THEN -One ELSE v

\* SetFloat64 accepts a value (its Assert holds).
FloatAccepted(v) == v \in Unit

\* int(a / b) of a float quotient: truncation towards zero.
Truncate(a, b) == IF a >= 0 THEN a \div b ELSE -((-a) \div b)
=============================================================================
