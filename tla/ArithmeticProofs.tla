-------------------------- MODULE ArithmeticProofs --------------------------
(***************************************************************************)
(* Facts about numbers that the proofs about the emulator share: remainder *)
(* and quotient, induction, and functions defined by iteration.            *)
(***************************************************************************)
EXTENDS Integers, WellFoundedInduction, TLAPS

(* Division and remainder by a positive number. *)
LEMMA DivMod ==
  ASSUME NEW a \in Int, NEW b \in Nat \ {0}
  PROVE  /\ a \div b \in Int /\ a % b \in 0 .. b - 1
         /\ a = b * (a \div b) + (a % b)
  BY Z3

\* The remainder is the only number of its range at a multiple of b from a.
LEMMA ModUnique ==
  ASSUME NEW a \in Int, NEW b \in Nat \ {0}, NEW q \in Int, NEW r \in 0 .. b - 1,
         a = b * q + r
  PROVE  a % b = r
<1>1. a % b \in 0 .. b - 1 /\ a \div b \in Int /\ a = b * (a \div b) + (a % b)
  BY DivMod
<1>2. b * (a \div b - q) = r - (a % b)
  BY <1>1
<1>3. a \div b - q = 0
  BY <1>1, <1>2
<1> QED BY <1>1, <1>2, <1>3

-----------------------------------------------------------------------------
(* Induction.  The library states it for operators, which these provers    *)
(* cannot instantiate; for sets it follows from the least element.         *)

LEMMA Least ==
  ASSUME NEW T, T \subseteq Nat, T # {}
  PROVE  \E n \in T : \A m \in T : n <= m
<1> DEFINE R == OpToRel(<, Nat)
<1>1. IsWellFoundedOn(R, Nat)
  BY NatLessThanWellFounded
<1>2. \A m, n \in Nat : m < n => <<m, n>> \in R
  BY DEF OpToRel
<1> HIDE DEF R
<1>3. PICK n \in T : \A m \in T : ~(<<m, n>> \in R)
  BY <1>1, WFMin
<1>4. n \in Nat /\ \A m \in T : m \in Nat /\ ~(m < n)
  BY <1>2, <1>3
<1>5. \A m \in T : n <= m
  BY <1>4
<1> QED BY <1>5

LEMMA Induct ==
  ASSUME NEW S, 0 \in S, \A n \in Nat : n \in S => n + 1 \in S
  PROVE  Nat \subseteq S
<1> SUFFICES ASSUME Nat \ S # {} PROVE FALSE
  OBVIOUS
<1>1. PICK n \in Nat \ S : \A m \in Nat \ S : n <= m
  BY Least
<1>2. n # 0 /\ n - 1 \in Nat
  OBVIOUS
<1>3. n - 1 \in S
  BY <1>1, <1>2
<1> QED BY <1>2, <1>3

-----------------------------------------------------------------------------
(* Iteration.  f is what F makes of the start in the first n steps.        *)

IteratesTo(f, n, start, F) ==
  f[0] = start /\ \A i \in 0 .. n - 1 : f[i + 1] = F[<<i, f[i]>>]

LEMMA IterateOnce ==
  ASSUME NEW start, NEW F, NEW n \in Nat, NEW m \in Nat, n <= m,
         NEW f, IteratesTo(f, n, start, F),
         NEW g, IteratesTo(g, m, start, F)
  PROVE  \A i \in 0 .. n : f[i] = g[i]
<1> DEFINE T == {i \in Nat : i <= n => f[i] = g[i]}
<1>1. 0 \in T
  BY DEF IteratesTo
<1>2. ASSUME NEW i \in Nat, i \in T PROVE i + 1 \in T
  <2> SUFFICES ASSUME i + 1 <= n PROVE f[i + 1] = g[i + 1]
    OBVIOUS
  <2>1. i \in 0 .. n - 1 /\ i \in 0 .. m - 1 /\ f[i] = g[i]
    BY <1>2
  <2> QED BY <2>1 DEF IteratesTo
<1> HIDE DEF T
<1>3. Nat \subseteq T
  BY <1>1, <1>2, Induct
<1> QED BY <1>3 DEF T

LEMMA IterateSome ==
  ASSUME NEW S, NEW start \in S, NEW F \in [Nat \X S -> S]
  PROVE  \A n \in Nat : \E f \in [0 .. n -> S] : IteratesTo(f, n, start, F)
<1> DEFINE T == {n \in Nat : \E f \in [0 .. n -> S] : IteratesTo(f, n, start, F)}
<1>1. 0 \in T
  <2>1. [i \in 0 .. 0 |-> start] \in [0 .. 0 -> S] /\ IteratesTo([i \in 0 .. 0 |-> start], 0, start, F)
    BY DEF IteratesTo
  <2> QED BY <2>1
<1>2. ASSUME NEW n \in Nat, n \in T PROVE n + 1 \in T
  <2>1. PICK f \in [0 .. n -> S] : IteratesTo(f, n, start, F)
    BY <1>2
  <2> DEFINE g == [i \in 0 .. n + 1 |-> IF i = n + 1 THEN F[<<n, f[n]>>] ELSE f[i]]
  <2>2. f[n] \in S /\ <<n, f[n]>> \in Nat \X S
    OBVIOUS
  <2>3. F[<<n, f[n]>>] \in S
    BY <2>2
  <2>4. g \in [0 .. n + 1 -> S]
    BY <2>3
  <2>5. g[n + 1] = F[<<n, f[n]>>] /\ \A i \in 0 .. n : g[i] = f[i]
    OBVIOUS
  <2> HIDE DEF g
  <2>6. ASSUME NEW i \in 0 .. (n + 1) - 1 PROVE g[i + 1] = F[<<i, g[i]>>]
    <3>1. CASE i = n
      BY <2>5, <3>1
    <3>2. CASE i # n
      <4>1. i \in 0 .. n - 1 /\ i + 1 \in 0 .. n /\ i \in 0 .. n
        BY <3>2
      <4> QED BY <2>1, <2>5, <4>1 DEF IteratesTo
    <3> QED BY <3>1, <3>2
  <2>7. IteratesTo(g, n + 1, start, F)
    BY <2>1, <2>5, <2>6 DEF IteratesTo
  <2> QED BY <2>4, <2>7
<1> HIDE DEF T
<1>3. Nat \subseteq T
  BY <1>1, <1>2, Induct
<1> QED BY <1>3 DEF T

Iterates(f, S, start, F) ==
  f \in [Nat -> S] /\ f[0] = start /\ \A n \in Nat : f[n + 1] = F[<<n, f[n]>>]

LEMMA Iteration ==
  ASSUME NEW S, NEW start \in S, NEW F \in [Nat \X S -> S]
  PROVE  \E f : Iterates(f, S, start, F)
<1> DEFINE up == [n \in Nat |-> CHOOSE f \in [0 .. n -> S] : IteratesTo(f, n, start, F)]
           f == [n \in Nat |-> up[n][n]]
<1>1. \A n \in Nat : up[n] \in [0 .. n -> S] /\ IteratesTo(up[n], n, start, F)
  BY IterateSome
<1> HIDE DEF up
<1>2. f \in [Nat -> S]
  BY <1>1
<1>3. f[0] = start
  BY <1>1 DEF IteratesTo
<1>4. ASSUME NEW n \in Nat PROVE f[n + 1] = F[<<n, f[n]>>]
  <2>1. /\ up[n] \in [0 .. n -> S] /\ IteratesTo(up[n], n, start, F)
        /\ up[n + 1] \in [0 .. n + 1 -> S] /\ IteratesTo(up[n + 1], n + 1, start, F)
    BY <1>1
  <2>2. \A i \in 0 .. n : up[n][i] = up[n + 1][i]
    <3>1. \A x, y : IteratesTo(x, n, start, F) /\ IteratesTo(y, n + 1, start, F)
                    => \A i \in 0 .. n : x[i] = y[i]
      <4>1. n + 1 \in Nat /\ n <= n + 1
        OBVIOUS
      <4> QED BY <4>1, IterateOnce
    <3> QED BY <2>1, <3>1, Zenon
  <2>3. up[n + 1][n + 1] = F[<<n, up[n + 1][n]>>]
    BY <2>1 DEF IteratesTo
  <2> QED BY <2>2, <2>3
<1> HIDE DEF f
<1> QED BY <1>2, <1>3, <1>4 DEF Iterates
=============================================================================
