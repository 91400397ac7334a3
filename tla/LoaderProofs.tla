---------------------------- MODULE LoaderProofs ----------------------------
(***************************************************************************)
(* Program files and words, for every file, every program number and every *)
(* 32-bit word: what is decoded, where a program ends, what it reports,    *)
(* and that an instruction is all of its word.                             *)
(***************************************************************************)
EXTENDS Loader, ArithmeticProofs, SequenceTheorems, TLAPS

(* Sums *)

LEMMA SumsUnfold ==
  ASSUME NEW start \in Int, NEW terms \in Seq(Int)
  PROVE  /\ Sums(start, terms) \in [0 .. Len(terms) -> Int]
         /\ Sums(start, terms)[0] = start
         /\ \A k \in 1 .. Len(terms) : Sums(start, terms)[k] = Sums(start, terms)[k - 1] + terms[k]
<1> DEFINE n == Len(terms)
           F == [x \in Nat \X Int |-> IF x[1] < n THEN x[2] + terms[x[1] + 1] ELSE x[2]]
<1>0. n \in Nat /\ \A k \in 1 .. n : terms[k] \in Int
  OBVIOUS
<1>1. F \in [Nat \X Int -> Int]
  <2>1. \A x \in Nat \X Int : (IF x[1] < n THEN x[2] + terms[x[1] + 1] ELSE x[2]) \in Int
    <3> TAKE x \in Nat \X Int
    <3>1. x[1] \in Nat /\ x[2] \in Int
      OBVIOUS
    <3>2. x[1] < n => x[1] + 1 \in 1 .. n
      BY <1>0, <3>1
    <3> QED BY <1>0, <3>1, <3>2
  <2> QED BY <2>1
<1>2. \A k \in Nat : \A y \in Int : F[<<k, y>>] = IF k < n THEN y + terms[k + 1] ELSE y
  OBVIOUS
<1> HIDE DEF F, n
<1>3. PICK g : Iterates(g, Int, start, F)
  BY <1>1, Iteration
<1>4. g \in [Nat -> Int] /\ g[0] = start /\ \A k \in Nat : g[k + 1] = F[<<k, g[k]>>]
  BY <1>3 DEF Iterates
<1> DEFINE f == [k \in 0 .. n |-> g[k]]
<1>5. f \in [0 .. n -> Int] /\ f[0] = start /\ \A k \in 0 .. n : f[k] = g[k]
  BY <1>0, <1>4
<1> HIDE DEF f
<1>6. \A k \in 0 .. n : k # 0 => f[k] = f[k - 1] + terms[k]
  <2> TAKE k \in 0 .. n
  <2> HAVE k # 0
  <2>1. k - 1 \in Nat /\ (k - 1) + 1 = k /\ k - 1 < n /\ k - 1 \in 0 .. n /\ k \in Nat
    BY <1>0
  <2>2. g[(k - 1) + 1] = F[<<k - 1, g[k - 1]>>] /\ g[k - 1] \in Int
    BY <1>4, <2>1
  <2>3. F[<<k - 1, g[k - 1]>>] = g[k - 1] + terms[(k - 1) + 1]
    BY <1>2, <2>1, <2>2
  <2> QED BY <1>5, <2>1, <2>2, <2>3
<1>7. f = [k \in 0 .. n |-> IF k = 0 THEN start ELSE f[k - 1] + terms[k]]
  BY <1>5, <1>6
<1>8. Sums(start, terms) = CHOOSE h : h = [k \in 0 .. n |-> IF k = 0 THEN start ELSE h[k - 1] + terms[k]]
  BY DEF Sums, n
<1> DEFINE S == Sums(start, terms)
<1>9. S = [k \in 0 .. n |-> IF k = 0 THEN start ELSE S[k - 1] + terms[k]]
  BY <1>7, <1>8
<1> HIDE DEF S
<1>10. S[0] = start /\ \A k \in 1 .. n : S[k] = S[k - 1] + terms[k]
  BY <1>0, <1>9
<1>11. \A k \in 0 .. n : S[k] \in Int
  <2> DEFINE N == {k \in Nat : k <= n => S[k] \in Int}
  <2>1. 0 \in N
    BY <1>10
  <2>2. ASSUME NEW k \in Nat, k \in N PROVE k + 1 \in N
    <3> SUFFICES ASSUME k + 1 <= n PROVE S[k + 1] \in Int
      OBVIOUS
    <3>1. k + 1 \in 1 .. n /\ (k + 1) - 1 = k /\ S[k] \in Int
      BY <1>0, <2>2
    <3>2. S[k + 1] = S[k] + terms[k + 1] /\ terms[k + 1] \in Int
      BY <1>0, <1>10, <3>1
    <3> QED BY <3>1, <3>2
  <2> HIDE DEF N
  <2>3. Nat \subseteq N
    BY <2>1, <2>2, Induct
  <2> QED BY <1>0, <2>3 DEF N
<1>12. S \in [0 .. n -> Int]
  BY <1>9, <1>11
<1> QED BY <1>10, <1>12 DEF S, n

\* The sum of a sequence of up to five terms.
LEMMA SumOf ==
  ASSUME NEW start \in Int, NEW terms \in Seq(Int)
  PROVE  /\ Sums(start, terms)[0] = start
         /\ Len(terms) >= 1 => Sums(start, terms)[1] = start + terms[1]
         /\ Len(terms) >= 2 => Sums(start, terms)[2] = start + terms[1] + terms[2]
         /\ Len(terms) >= 3 => Sums(start, terms)[3] = start + terms[1] + terms[2] + terms[3]
         /\ Len(terms) >= 4 => Sums(start, terms)[4] = start + terms[1] + terms[2] + terms[3] + terms[4]
         /\ Len(terms) >= 5 => Sums(start, terms)[5]
                                 = start + terms[1] + terms[2] + terms[3] + terms[4] + terms[5]
<1> DEFINE S == Sums(start, terms)
<1>1. S[0] = start /\ \A k \in 1 .. Len(terms) : S[k] = S[k - 1] + terms[k]
  BY SumsUnfold
<1> HIDE DEF S
<1>2. Len(terms) \in Nat
  OBVIOUS
<1>3. Len(terms) >= 1 => S[1] = start + terms[1]
  BY <1>1, <1>2
<1>4. Len(terms) >= 2 => S[2] = start + terms[1] + terms[2]
  BY <1>1, <1>2, <1>3
<1>5. Len(terms) >= 3 => S[3] = start + terms[1] + terms[2] + terms[3]
  BY <1>1, <1>2, <1>4
<1>6. Len(terms) >= 4 => S[4] = start + terms[1] + terms[2] + terms[3] + terms[4]
  BY <1>1, <1>2, <1>5
<1>7. Len(terms) >= 5 => S[5] = start + terms[1] + terms[2] + terms[3] + terms[4] + terms[5]
  BY <1>1, <1>2, <1>6
<1> QED BY <1>1, <1>3, <1>4, <1>5, <1>6, <1>7 DEF S

-----------------------------------------------------------------------------
(* The operands of a word *)

Delays  == {"RDA", "RMPA", "WRA", "WRAP"}
Regs    == {"RDAX", "RDFX", "WRAX", "WRHX", "WRLX", "MAXX"}
Scales  == {"LOG", "EXP", "SOF"}

Args(w, name) == [i \in DOMAIN ArgLens(name) |-> Arg(w, name, i)]

LEMMA Positions ==
  ASSUME NEW name, NEW lens \in Seq(Nat), ArgLens(name) = lens
  PROVE  /\ BitPos(name, 1) = 5
         /\ Len(lens) >= 1 => BitPos(name, 2) = 5 + lens[1]
         /\ Len(lens) >= 2 => BitPos(name, 3) = 5 + lens[1] + lens[2]
         /\ Len(lens) >= 3 => BitPos(name, 4) = 5 + lens[1] + lens[2] + lens[3]
         /\ Len(lens) >= 4 => BitPos(name, 5) = 5 + lens[1] + lens[2] + lens[3] + lens[4]
<1>1. lens \in Seq(Int) /\ 5 \in Int
  OBVIOUS
<1>2. /\ BitPos(name, 1) = Sums(5, lens)[0] /\ BitPos(name, 2) = Sums(5, lens)[1]
      /\ BitPos(name, 3) = Sums(5, lens)[2] /\ BitPos(name, 4) = Sums(5, lens)[3]
      /\ BitPos(name, 5) = Sums(5, lens)[4]
  BY DEF BitPos
<1> QED BY <1>1, <1>2, SumOf

LEMMA LensOf ==
  ASSUME NEW name
  PROVE  /\ name \in Delays => ArgLens(name) = <<16, 11>>
         /\ name \in Regs => ArgLens(name) = <<6, 5, 16>>
         /\ name = "MULX" => ArgLens(name) = <<6, 21>>
         /\ name \in Scales => ArgLens(name) = <<11, 16>>
         /\ name \in Masks => ArgLens(name) = <<4, 24>>
         /\ name = "SKP" => ArgLens(name) = <<16, 6, 5>>
         /\ name = "WLDR" => ArgLens(name) = <<2, 6, 16, 1, 2>>
         /\ name = "WLDS" => ArgLens(name) = <<15, 9, 1, 2>>
         /\ name = "JAM" => ArgLens(name) = <<1, 25>>
         /\ name = "CHO" => ArgLens(name) = <<16, 2, 1, 6, 2>>
         /\ name = "" => ArgLens(name) = <<>>
  BY DEF ArgLens, Delays, Regs, Scales, Masks

LEMMA BlankOf ==
  ASSUME NEW name
  PROVE  /\ name \in Delays \cup Scales \cup {"WLDS", "JAM", "CHO", ""} =>
              BlankArg(name) = 0 /\ name \notin Masks
         /\ name \in Regs \cup {"MULX", "WLDR"} => BlankArg(name) = 2 /\ name \notin Masks
         /\ name \in Masks => BlankArg(name) = 1
         /\ name = "SKP" => BlankArg(name) = 1 /\ name \notin Masks
  BY DEF BlankArg, Delays, Regs, Scales, Masks

LEMMA ArgsDelays ==
  ASSUME NEW w, NEW name \in Delays
  PROVE  Args(w, name) = <<Bits(w, 5, 16), Bits(w, 21, 11)>>
<1>1. ArgLens(name) = <<16, 11>> /\ BlankArg(name) = 0 /\ name \notin Masks
  BY LensOf, BlankOf
<1>2. BitPos(name, 1) = 5 /\ BitPos(name, 2) = 21
  <2> DEFINE lens == <<16, 11>>
  <2>1. lens \in Seq(Nat) /\ Len(lens) = 2 /\ lens[1] = 16 /\ lens[2] = 11
    OBVIOUS
  <2>2. ArgLens(name) = lens
    BY <1>1
  <2> HIDE DEF lens
  <2>3. /\ BitPos(name, 1) = 5
        /\ (Len(lens) >= 1 => BitPos(name, 2) = 5 + lens[1])
    BY <2>1, <2>2, Positions
  <2> QED BY <2>1, <2>3
<1> QED BY <1>1, <1>2 DEF Args, Arg

LEMMA ArgsRegs ==
  ASSUME NEW w, NEW name \in Regs
  PROVE  Args(w, name) = <<Bits(w, 5, 6), 0, Bits(w, 16, 16)>>
<1>1. ArgLens(name) = <<6, 5, 16>> /\ BlankArg(name) = 2 /\ name \notin Masks
  BY LensOf, BlankOf
<1>2. BitPos(name, 1) = 5 /\ BitPos(name, 2) = 11 /\ BitPos(name, 3) = 16
  <2> DEFINE lens == <<6, 5, 16>>
  <2>1. lens \in Seq(Nat) /\ Len(lens) = 3 /\ lens[1] = 6 /\ lens[2] = 5 /\ lens[3] = 16
    OBVIOUS
  <2>2. ArgLens(name) = lens
    BY <1>1
  <2> HIDE DEF lens
  <2>3. /\ BitPos(name, 1) = 5
        /\ (Len(lens) >= 1 => BitPos(name, 2) = 5 + lens[1])
        /\ (Len(lens) >= 2 => BitPos(name, 3) = 5 + lens[1] + lens[2])
    BY <2>1, <2>2, Positions
  <2> QED BY <2>1, <2>3
<1> QED BY <1>1, <1>2 DEF Args, Arg

LEMMA ArgsMULX ==
  ASSUME NEW w, NEW name, name = "MULX"
  PROVE  Args(w, name) = <<Bits(w, 5, 6), 0>>
<1>1. ArgLens(name) = <<6, 21>> /\ BlankArg(name) = 2 /\ name \notin Masks
  BY LensOf, BlankOf
<1>2. BitPos(name, 1) = 5 /\ BitPos(name, 2) = 11
  <2> DEFINE lens == <<6, 21>>
  <2>1. lens \in Seq(Nat) /\ Len(lens) = 2 /\ lens[1] = 6 /\ lens[2] = 21
    OBVIOUS
  <2>2. ArgLens(name) = lens
    BY <1>1
  <2> HIDE DEF lens
  <2>3. /\ BitPos(name, 1) = 5
        /\ (Len(lens) >= 1 => BitPos(name, 2) = 5 + lens[1])
    BY <2>1, <2>2, Positions
  <2> QED BY <2>1, <2>3
<1> QED BY <1>1, <1>2 DEF Args, Arg

LEMMA ArgsScales ==
  ASSUME NEW w, NEW name \in Scales
  PROVE  Args(w, name) = <<Bits(w, 5, 11), Bits(w, 16, 16)>>
<1>1. ArgLens(name) = <<11, 16>> /\ BlankArg(name) = 0 /\ name \notin Masks
  BY LensOf, BlankOf
<1>2. BitPos(name, 1) = 5 /\ BitPos(name, 2) = 16
  <2> DEFINE lens == <<11, 16>>
  <2>1. lens \in Seq(Nat) /\ Len(lens) = 2 /\ lens[1] = 11 /\ lens[2] = 16
    OBVIOUS
  <2>2. ArgLens(name) = lens
    BY <1>1
  <2> HIDE DEF lens
  <2>3. /\ BitPos(name, 1) = 5
        /\ (Len(lens) >= 1 => BitPos(name, 2) = 5 + lens[1])
    BY <2>1, <2>2, Positions
  <2> QED BY <2>1, <2>3
<1> QED BY <1>1, <1>2 DEF Args, Arg

LEMMA ArgsMasks ==
  ASSUME NEW w, NEW name \in Masks
  PROVE  Args(w, name) = <<0, w \div 2^8>>
<1>1. ArgLens(name) = <<4, 24>> /\ BlankArg(name) = 1 /\ name \in Masks
  BY LensOf, BlankOf
<1>2. BitPos(name, 1) = 5 /\ BitPos(name, 2) = 9
  <2> DEFINE lens == <<4, 24>>
  <2>1. lens \in Seq(Nat) /\ Len(lens) = 2 /\ lens[1] = 4 /\ lens[2] = 24
    OBVIOUS
  <2>2. ArgLens(name) = lens
    BY <1>1
  <2> HIDE DEF lens
  <2>3. /\ BitPos(name, 1) = 5
        /\ (Len(lens) >= 1 => BitPos(name, 2) = 5 + lens[1])
    BY <2>1, <2>2, Positions
  <2> QED BY <2>1, <2>3
<1> QED BY <1>1, <1>2 DEF Args, Arg

LEMMA ArgsSKP ==
  ASSUME NEW w, NEW name, name = "SKP"
  PROVE  Args(w, name) = <<0, Bits(w, 21, 6), Bits(w, 27, 5)>>
<1>1. ArgLens(name) = <<16, 6, 5>> /\ BlankArg(name) = 1 /\ name \notin Masks
  BY LensOf, BlankOf
<1>2. BitPos(name, 1) = 5 /\ BitPos(name, 2) = 21 /\ BitPos(name, 3) = 27
  <2> DEFINE lens == <<16, 6, 5>>
  <2>1. lens \in Seq(Nat) /\ Len(lens) = 3 /\ lens[1] = 16 /\ lens[2] = 6 /\ lens[3] = 5
    OBVIOUS
  <2>2. ArgLens(name) = lens
    BY <1>1
  <2> HIDE DEF lens
  <2>3. /\ BitPos(name, 1) = 5
        /\ (Len(lens) >= 1 => BitPos(name, 2) = 5 + lens[1])
        /\ (Len(lens) >= 2 => BitPos(name, 3) = 5 + lens[1] + lens[2])
    BY <2>1, <2>2, Positions
  <2> QED BY <2>1, <2>3
<1> QED BY <1>1, <1>2 DEF Args, Arg

LEMMA ArgsWLDR ==
  ASSUME NEW w, NEW name, name = "WLDR"
  PROVE  Args(w, name) = <<Bits(w, 5, 2), 0, Bits(w, 13, 16), Bits(w, 29, 1), Bits(w, 30, 2)>>
<1>1. ArgLens(name) = <<2, 6, 16, 1, 2>> /\ BlankArg(name) = 2 /\ name \notin Masks
  BY LensOf, BlankOf
<1>2. /\ BitPos(name, 1) = 5
      /\ BitPos(name, 2) = 7
      /\ BitPos(name, 3) = 13
      /\ BitPos(name, 4) = 29
      /\ BitPos(name, 5) = 30
  <2> DEFINE lens == <<2, 6, 16, 1, 2>>
  <2>1. /\ lens \in Seq(Nat)
        /\ Len(lens) = 5
        /\ lens[1] = 2
        /\ lens[2] = 6
        /\ lens[3] = 16
        /\ lens[4] = 1
        /\ lens[5] = 2
    OBVIOUS
  <2>2. ArgLens(name) = lens
    BY <1>1
  <2> HIDE DEF lens
  <2>3. /\ BitPos(name, 1) = 5
        /\ (Len(lens) >= 1 => BitPos(name, 2) = 5 + lens[1])
        /\ (Len(lens) >= 2 => BitPos(name, 3) = 5 + lens[1] + lens[2])
        /\ (Len(lens) >= 3 => BitPos(name, 4) = 5 + lens[1] + lens[2] + lens[3])
        /\ (Len(lens) >= 4 => BitPos(name, 5) = 5 + lens[1] + lens[2] + lens[3] + lens[4])
    BY <2>1, <2>2, Positions
  <2> QED BY <2>1, <2>3
<1> QED BY <1>1, <1>2 DEF Args, Arg

LEMMA ArgsWLDS ==
  ASSUME NEW w, NEW name, name = "WLDS"
  PROVE  Args(w, name) = <<Bits(w, 5, 15), Bits(w, 20, 9), Bits(w, 29, 1), Bits(w, 30, 2)>>
<1>1. ArgLens(name) = <<15, 9, 1, 2>> /\ BlankArg(name) = 0 /\ name \notin Masks
  BY LensOf, BlankOf
<1>2. BitPos(name, 1) = 5 /\ BitPos(name, 2) = 20 /\ BitPos(name, 3) = 29 /\ BitPos(name, 4) = 30
  <2> DEFINE lens == <<15, 9, 1, 2>>
  <2>1. lens \in Seq(Nat) /\ Len(lens) = 4 /\ lens[1] = 15 /\ lens[2] = 9 /\ lens[3] = 1 /\ lens[4] = 2
    OBVIOUS
  <2>2. ArgLens(name) = lens
    BY <1>1
  <2> HIDE DEF lens
  <2>3. /\ BitPos(name, 1) = 5
        /\ (Len(lens) >= 1 => BitPos(name, 2) = 5 + lens[1])
        /\ (Len(lens) >= 2 => BitPos(name, 3) = 5 + lens[1] + lens[2])
        /\ (Len(lens) >= 3 => BitPos(name, 4) = 5 + lens[1] + lens[2] + lens[3])
    BY <2>1, <2>2, Positions
  <2> QED BY <2>1, <2>3
<1> QED BY <1>1, <1>2 DEF Args, Arg

LEMMA ArgsJAM ==
  ASSUME NEW w, NEW name, name = "JAM"
  PROVE  Args(w, name) = <<Bits(w, 5, 1), Bits(w, 6, 25)>>
<1>1. ArgLens(name) = <<1, 25>> /\ BlankArg(name) = 0 /\ name \notin Masks
  BY LensOf, BlankOf
<1>2. BitPos(name, 1) = 5 /\ BitPos(name, 2) = 6
  <2> DEFINE lens == <<1, 25>>
  <2>1. lens \in Seq(Nat) /\ Len(lens) = 2 /\ lens[1] = 1 /\ lens[2] = 25
    OBVIOUS
  <2>2. ArgLens(name) = lens
    BY <1>1
  <2> HIDE DEF lens
  <2>3. /\ BitPos(name, 1) = 5
        /\ (Len(lens) >= 1 => BitPos(name, 2) = 5 + lens[1])
    BY <2>1, <2>2, Positions
  <2> QED BY <2>1, <2>3
<1> QED BY <1>1, <1>2 DEF Args, Arg

LEMMA ArgsCHO ==
  ASSUME NEW w, NEW name, name = "CHO"
  PROVE  Args(w, name) = <<Bits(w, 5, 16), Bits(w, 21, 2), Bits(w, 23, 1), Bits(w, 24, 6), Bits(w, 30, 2)>>
<1>1. ArgLens(name) = <<16, 2, 1, 6, 2>> /\ BlankArg(name) = 0 /\ name \notin Masks
  BY LensOf, BlankOf
<1>2. /\ BitPos(name, 1) = 5
      /\ BitPos(name, 2) = 21
      /\ BitPos(name, 3) = 23
      /\ BitPos(name, 4) = 24
      /\ BitPos(name, 5) = 30
  <2> DEFINE lens == <<16, 2, 1, 6, 2>>
  <2>1. /\ lens \in Seq(Nat)
        /\ Len(lens) = 5
        /\ lens[1] = 16
        /\ lens[2] = 2
        /\ lens[3] = 1
        /\ lens[4] = 6
        /\ lens[5] = 2
    OBVIOUS
  <2>2. ArgLens(name) = lens
    BY <1>1
  <2> HIDE DEF lens
  <2>3. /\ BitPos(name, 1) = 5
        /\ (Len(lens) >= 1 => BitPos(name, 2) = 5 + lens[1])
        /\ (Len(lens) >= 2 => BitPos(name, 3) = 5 + lens[1] + lens[2])
        /\ (Len(lens) >= 3 => BitPos(name, 4) = 5 + lens[1] + lens[2] + lens[3])
        /\ (Len(lens) >= 4 => BitPos(name, 5) = 5 + lens[1] + lens[2] + lens[3] + lens[4])
    BY <2>1, <2>2, Positions
  <2> QED BY <2>1, <2>3
<1> QED BY <1>1, <1>2 DEF Args, Arg

LEMMA ArgsNone ==
  ASSUME NEW w
  PROVE  Args(w, "") = <<>>
<1>1. ArgLens("") = <<>>
  BY LensOf
<1>2. DOMAIN ArgLens("") = {}
  <2>1. \A lens : lens = <<>> => DOMAIN lens = {}
    OBVIOUS
  <2> QED BY <1>1, <2>1, Zenon
<1>3. Args(w, "") = [i \in {} |-> Arg(w, "", i)]
  BY <1>2 DEF Args
<1>4. <<>> = [i \in {} |-> Arg(w, "", i)]
  OBVIOUS
<1> QED BY <1>3, <1>4

-----------------------------------------------------------------------------
(* The name of a word *)

LEMMA MnemonicOf ==
  /\ Mnemonic(0) = "RDA" /\ Mnemonic(1) = "RMPA" /\ Mnemonic(2) = "WRA"
  /\ Mnemonic(3) = "WRAP" /\ Mnemonic(4) = "RDAX" /\ Mnemonic(5) = "RDFX"
  /\ Mnemonic(6) = "WRAX" /\ Mnemonic(7) = "WRHX" /\ Mnemonic(8) = "WRLX"
  /\ Mnemonic(9) = "MAXX" /\ Mnemonic(10) = "MULX" /\ Mnemonic(11) = "LOG"
  /\ Mnemonic(12) = "EXP" /\ Mnemonic(13) = "SOF" /\ Mnemonic(14) = "AND"
  /\ Mnemonic(15) = "OR" /\ Mnemonic(16) = "XOR" /\ Mnemonic(17) = "SKP"
  /\ Mnemonic(18) = "WLDR" /\ Mnemonic(19) = "JAM" /\ Mnemonic(20) = "CHO"
<1>1. Len(Mnemonics) = 21
  BY DEF Mnemonics
<1>2. \A o \in 0 .. 20 : Mnemonic(o) = Mnemonics[o + 1]
  <2> TAKE o \in 0 .. 20
  <2>1. o < Len(Mnemonics)
    BY <1>1
  <2> QED BY <2>1, Zenon DEF Mnemonic
<1>4. /\ Mnemonic(0) = "RDA" /\ Mnemonic(1) = "RMPA" /\ Mnemonic(2) = "WRA"
      /\ Mnemonic(3) = "WRAP" /\ Mnemonic(4) = "RDAX" /\ Mnemonic(5) = "RDFX"
      /\ Mnemonic(6) = "WRAX"
  <2>1. /\ Mnemonics[1] = "RDA" /\ Mnemonics[2] = "RMPA" /\ Mnemonics[3] = "WRA"
        /\ Mnemonics[4] = "WRAP" /\ Mnemonics[5] = "RDAX" /\ Mnemonics[6] = "RDFX"
        /\ Mnemonics[7] = "WRAX"
    BY DEF Mnemonics
  <2>2. /\ Mnemonic(0) = Mnemonics[1] /\ Mnemonic(1) = Mnemonics[2] /\ Mnemonic(2) = Mnemonics[3]
        /\ Mnemonic(3) = Mnemonics[4] /\ Mnemonic(4) = Mnemonics[5] /\ Mnemonic(5) = Mnemonics[6]
        /\ Mnemonic(6) = Mnemonics[7]
    BY <1>2
  <2> QED BY <2>1, <2>2
<1>5. /\ Mnemonic(7) = "WRHX" /\ Mnemonic(8) = "WRLX" /\ Mnemonic(9) = "MAXX"
      /\ Mnemonic(10) = "MULX" /\ Mnemonic(11) = "LOG" /\ Mnemonic(12) = "EXP"
      /\ Mnemonic(13) = "SOF"
  <2>1. /\ Mnemonics[8] = "WRHX" /\ Mnemonics[9] = "WRLX" /\ Mnemonics[10] = "MAXX"
        /\ Mnemonics[11] = "MULX" /\ Mnemonics[12] = "LOG" /\ Mnemonics[13] = "EXP"
        /\ Mnemonics[14] = "SOF"
    BY DEF Mnemonics
  <2>2. /\ Mnemonic(7) = Mnemonics[8] /\ Mnemonic(8) = Mnemonics[9] /\ Mnemonic(9) = Mnemonics[10]
        /\ Mnemonic(10) = Mnemonics[11] /\ Mnemonic(11) = Mnemonics[12] /\ Mnemonic(12) = Mnemonics[13]
        /\ Mnemonic(13) = Mnemonics[14]
    BY <1>2
  <2> QED BY <2>1, <2>2
<1>6. /\ Mnemonic(14) = "AND" /\ Mnemonic(15) = "OR" /\ Mnemonic(16) = "XOR"
      /\ Mnemonic(17) = "SKP" /\ Mnemonic(18) = "WLDR" /\ Mnemonic(19) = "JAM"
      /\ Mnemonic(20) = "CHO"
  <2>1. /\ Mnemonics[15] = "AND" /\ Mnemonics[16] = "OR" /\ Mnemonics[17] = "XOR"
        /\ Mnemonics[18] = "SKP" /\ Mnemonics[19] = "WLDR" /\ Mnemonics[20] = "JAM"
        /\ Mnemonics[21] = "CHO"
    BY DEF Mnemonics
  <2>2. /\ Mnemonic(14) = Mnemonics[15] /\ Mnemonic(15) = Mnemonics[16] /\ Mnemonic(16) = Mnemonics[17]
        /\ Mnemonic(17) = Mnemonics[18] /\ Mnemonic(18) = Mnemonics[19] /\ Mnemonic(19) = Mnemonics[20]
        /\ Mnemonic(20) = Mnemonics[21]
    BY <1>2
  <2> QED BY <2>1, <2>2
<1> QED BY <1>4, <1>5, <1>6

LEMMA NoMnemonic == \A o \in 21 .. 31 : Mnemonic(o) = ""
<1> TAKE o \in 21 .. 31
<1>1. ~(o < Len(Mnemonics))
  BY DEF Mnemonics
<1> QED BY <1>1, Zenon DEF Mnemonic

\* What a word is called before its operands are looked at.
LEMMA NameOf ==
  ASSUME NEW w \in Int
  PROVE  /\ w % 32 \in 0 .. 31
         /\ w % 32 \in 0 .. 3 => BasicName(w) \in Delays
         /\ w % 32 \in 4 .. 9 => BasicName(w) \in Regs
         /\ w % 32 \in 11 .. 13 => BasicName(w) \in Scales
         /\ w % 32 \in 14 .. 16 => BasicName(w) \in Masks
         /\ w % 32 = 4 => BasicName(w) = "RDAX"
         /\ w % 32 = 5 => BasicName(w) = "RDFX"
         /\ w % 32 = 6 => BasicName(w) = "WRAX"
         /\ w % 32 = 7 => BasicName(w) = "WRHX"
         /\ w % 32 = 8 => BasicName(w) = "WRLX"
         /\ w % 32 = 9 => BasicName(w) = "MAXX"
         /\ w % 32 = 10 => BasicName(w) = "MULX"
         /\ w % 32 = 14 => BasicName(w) = "AND"
         /\ w % 32 = 15 => BasicName(w) = "OR"
         /\ w % 32 = 16 => BasicName(w) = "XOR"
         /\ w % 32 = 17 => BasicName(w) = "SKP"
         /\ w % 32 = 18 => BasicName(w) = IF Bits(w, 30, 2) = 0 THEN "WLDS" ELSE "WLDR"
         /\ w % 32 = 19 => BasicName(w) = "JAM"
         /\ w % 32 = 20 => BasicName(w) = "CHO"
         /\ w % 32 > 20 => BasicName(w) = ""
<1> DEFINE o == w % 32
<1>1. o \in 0 .. 31
  BY DivMod
<1>2. o # 18 => BasicName(w) = Mnemonic(o)
  BY DEF BasicName
<1>3. o = 18 => BasicName(w) = IF Bits(w, 30, 2) = 0 THEN "WLDS" ELSE Mnemonic(18)
  BY DEF BasicName
<1> HIDE DEF o
<1>4. Mnemonic(18) = "WLDR"
  BY MnemonicOf
<1>5. /\ o \in 0 .. 3 => Mnemonic(o) \in Delays
      /\ o \in 4 .. 9 => Mnemonic(o) \in Regs
      /\ o \in 11 .. 13 => Mnemonic(o) \in Scales
      /\ o \in 14 .. 16 => Mnemonic(o) \in Masks
  <2>1. o \in 0 .. 3 => o = 0 \/ o = 1 \/ o = 2 \/ o = 3
    OBVIOUS
  <2>2. o \in 4 .. 9 => o = 4 \/ o = 5 \/ o = 6 \/ o = 7 \/ o = 8 \/ o = 9
    OBVIOUS
  <2>3. o \in 11 .. 13 => o = 11 \/ o = 12 \/ o = 13
    OBVIOUS
  <2>4. o \in 14 .. 16 => o = 14 \/ o = 15 \/ o = 16
    OBVIOUS
  <2>5. o \in 0 .. 3 => Mnemonic(o) \in Delays
    BY <2>1, MnemonicOf, Zenon DEF Delays
  <2>6. o \in 4 .. 9 => Mnemonic(o) \in Regs
    BY <2>2, MnemonicOf, Zenon DEF Regs
  <2>7. o \in 11 .. 13 => Mnemonic(o) \in Scales
    BY <2>3, MnemonicOf, Zenon DEF Scales
  <2>8. o \in 14 .. 16 => Mnemonic(o) \in Masks
    BY <2>4, MnemonicOf, Zenon DEF Masks
  <2> QED BY <2>5, <2>6, <2>7, <2>8
<1>6. /\ o \in 0 .. 3 => BasicName(w) \in Delays
      /\ o \in 4 .. 9 => BasicName(w) \in Regs
      /\ o \in 11 .. 13 => BasicName(w) \in Scales
      /\ o \in 14 .. 16 => BasicName(w) \in Masks
  BY <1>2, <1>5
<1>7. /\ o = 4 => BasicName(w) = "RDAX"
      /\ o = 5 => BasicName(w) = "RDFX"
      /\ o = 6 => BasicName(w) = "WRAX"
      /\ o = 7 => BasicName(w) = "WRHX"
      /\ o = 8 => BasicName(w) = "WRLX"
      /\ o = 9 => BasicName(w) = "MAXX"
      /\ o = 10 => BasicName(w) = "MULX"
  BY <1>1, <1>2, MnemonicOf
<1>8. /\ o = 14 => BasicName(w) = "AND"
      /\ o = 15 => BasicName(w) = "OR"
      /\ o = 16 => BasicName(w) = "XOR"
      /\ o = 17 => BasicName(w) = "SKP"
      /\ o = 19 => BasicName(w) = "JAM"
      /\ o = 20 => BasicName(w) = "CHO"
      /\ o > 20 => BasicName(w) = ""
  <2>1. o > 20 => o \in 21 .. 31 /\ o # 18
    BY <1>1
  <2>2. o \in 21 .. 31 => Mnemonic(o) = ""
    BY NoMnemonic
  <2> QED BY <1>2, <2>1, <2>2, MnemonicOf
<1> QED BY <1>1, <1>3, <1>4, <1>6, <1>7, <1>8 DEF o
\* The names words have before their operands are looked at.
Names == Delays \cup Regs \cup Scales \cup Masks \cup {"MULX", "SKP", "WLDR", "WLDS", "JAM", "CHO", ""}

LEMMA AliasOf ==
  ASSUME NEW name \in Names, NEW args
  PROVE  /\ Alias(name, args) \in {"SKP", "NOP"} <=> name = "SKP"
         /\ Alias(name, args) \in Masks => name \in Masks
         /\ Alias(name, args) = "WRAX" <=> name = "WRAX"
         /\ Alias(name, args) \in {"RDAX", "MULX", "LDAX"}
              <=> name \in {"RDAX", "MULX"} \/ (name = "RDFX" /\ args[2] = 0 /\ args[3] = 0)
<1>2. Alias(name, args) \in Masks => name \in Masks
  BY SMT DEF Alias, Masks
<1>3. Alias(name, args) = "WRAX" <=> name = "WRAX"
  BY SMT DEF Alias
<1>4. name \notin {"LDAX", "NOP", "CLR", "NOT", "ABSA"}
  BY DEF Names, Delays, Regs, Scales, Masks
<1>1. Alias(name, args) \in {"SKP", "NOP"} <=> name = "SKP"
  BY <1>4, SMT DEF Alias
<1>5. Alias(name, args) \in {"RDAX", "MULX", "LDAX"}
        <=> name \in {"RDAX", "MULX"} \/ (name = "RDFX" /\ args[2] = 0 /\ args[3] = 0)
  BY <1>4, SMT DEF Alias
<1> QED BY <1>1, <1>2, <1>3, <1>5

\* A word's name is that of its opcode and no other's.
LEMMA OpcodeNamed ==
  ASSUME NEW w \in Int
  PROVE  /\ BasicName(w) \in Names
         /\ BasicName(w) = "SKP" => w % 32 = 17
         /\ BasicName(w) = "RDAX" => w % 32 = 4
         /\ BasicName(w) = "RDFX" => w % 32 = 5
         /\ BasicName(w) = "WRAX" => w % 32 = 6
         /\ BasicName(w) = "MULX" => w % 32 = 10
         /\ BasicName(w) \in Masks => w % 32 \in 14 .. 16
<1> DEFINE o == w % 32
           n == BasicName(w)
           Told == /\ n \in Names
                   /\ n = "SKP" => o = 17
                   /\ n = "RDAX" => o = 4
                   /\ n = "RDFX" => o = 5
                   /\ n = "WRAX" => o = 6
                   /\ n = "MULX" => o = 10
                   /\ n \in Masks => o \in 14 .. 16
<1>1. /\ o \in 0 .. 31
      /\ o \in 0 .. 3 => n \in Delays
      /\ o \in 11 .. 13 => n \in Scales
      /\ o = 4 => n = "RDAX"
      /\ o = 5 => n = "RDFX"
      /\ o = 6 => n = "WRAX"
      /\ o = 7 => n = "WRHX"
      /\ o = 8 => n = "WRLX"
      /\ o = 9 => n = "MAXX"
      /\ o = 10 => n = "MULX"
  BY NameOf
<1>2. /\ o \in 14 .. 16 => n \in Masks
      /\ o = 17 => n = "SKP"
      /\ o = 18 => n = "WLDS" \/ n = "WLDR"
      /\ o = 19 => n = "JAM"
      /\ o = 20 => n = "CHO"
      /\ o > 20 => n = ""
  BY NameOf
<1> HIDE DEF o, n
<1>3. ASSUME o \in 0 .. 10 PROVE Told
  <2>1. o = 4 \/ o = 5 \/ o = 6 \/ o = 7 \/ o = 8 \/ o = 9 \/ o = 10 \/ o \in 0 .. 3
    BY <1>3
  <2> QED BY <2>1, <1>1 DEF Names, Delays, Regs, Masks
<1>4. ASSUME o \in 11 .. 31 PROVE Told
  <2>1. o = 17 \/ o = 18 \/ o = 19 \/ o = 20 \/ o > 20 \/ o \in 11 .. 13 \/ o \in 14 .. 16
    BY <1>4
  <2>2. CASE o \in 14 .. 16
    BY <2>2, <1>2 DEF Names, Masks
  <2>3. CASE o = 17 \/ o = 18 \/ o = 19 \/ o = 20 \/ o > 20 \/ o \in 11 .. 13
    BY <2>3, <1>1, <1>2 DEF Names, Scales, Masks
  <2> QED BY <2>1, <2>2, <2>3
<1>5. Told
  BY <1>1, <1>3, <1>4
<1> QED BY <1>5 DEF o, n

LEMMA DecodeParts ==
  ASSUME NEW w
  PROVE  /\ DecodeOp(w).name = Alias(BasicName(w), Args(w, BasicName(w)))
         /\ DecodeOp(w).args = Args(w, BasicName(w))
  BY DEF DecodeOp, Args

\* A program ends at the words that say so by their bits.
LEMMA EndsIfTerminates ==
  ASSUME NEW w \in Int
  PROVE  EndsProgram(DecodeOp(w)) <=> Terminates(w)
<1>1. DecodeOp(w).name \in {"SKP", "NOP"} <=> BasicName(w) = "SKP"
  BY OpcodeNamed, DecodeParts, AliasOf
<1>2. BasicName(w) = "SKP" <=> w % 32 = 17
  BY OpcodeNamed, NameOf
<1>3. BasicName(w) = "SKP" => DecodeOp(w).args[2] = Bits(w, 21, 6)
  BY DecodeParts, ArgsSKP
<1> QED BY <1>1, <1>2, <1>3 DEF EndsProgram, Terminates

\* What the scans see of the words that read a register.
ReadsPlainly(w) == ReadsRegister(w) /\ ~Overlooked(w)

\* The scans see these, and of those that write one the WRAX.
LEMMA ScansSee ==
  ASSUME NEW w \in Int
  PROVE  /\ DecodeOp(w).name \in {"RDAX", "MULX", "LDAX"} <=> ReadsPlainly(w)
         /\ DecodeOp(w).name = "WRAX" <=> w % 32 = 6
         /\ ReadsPlainly(w) \/ w % 32 = 6 => DecodeOp(w).args[1] = Bits(w, 5, 6)
<1> DEFINE n == BasicName(w)
           a == Args(w, n)
<1>1. /\ n = "RDAX" <=> w % 32 = 4
      /\ n = "RDFX" <=> w % 32 = 5
      /\ n = "WRAX" <=> w % 32 = 6
      /\ n = "MULX" <=> w % 32 = 10
  BY OpcodeNamed, NameOf
<1>2. n \in Names
  BY OpcodeNamed
<1>3. DecodeOp(w).name = Alias(n, a) /\ DecodeOp(w).args = a
  BY DecodeParts
<1>4. n \in {"RDAX", "RDFX", "WRAX"} => a = <<Bits(w, 5, 6), 0, Bits(w, 16, 16)>>
  BY ArgsRegs DEF Regs
<1>5. n = "MULX" => a = <<Bits(w, 5, 6), 0>>
  BY ArgsMULX
<1> HIDE DEF n, a
<1>6. n = "RDFX" => a[2] = 0 /\ a[3] = Bits(w, 16, 16)
  BY <1>4
<1>7. n \in {"RDAX", "RDFX", "WRAX", "MULX"} => a[1] = Bits(w, 5, 6)
  BY <1>4, <1>5
<1>8. Alias(n, a) = "WRAX" <=> n = "WRAX"
  BY <1>2, AliasOf
<1>9. Alias(n, a) \in {"RDAX", "MULX", "LDAX"}
        <=> n \in {"RDAX", "MULX"} \/ (n = "RDFX" /\ a[2] = 0 /\ a[3] = 0)
  BY <1>2, AliasOf
<1>10. ReadsPlainly(w) <=> n \in {"RDAX", "MULX"} \/ (n = "RDFX" /\ Bits(w, 16, 16) = 0)
  BY <1>1 DEF ReadsPlainly, ReadsRegister, Overlooked
<1> QED BY <1>1, <1>3, <1>6, <1>7, <1>8, <1>9, <1>10

\* The operands of a word are small; those of the masks are signed.
LEMMA OperandsSmall ==
  ASSUME NEW w \in Int32
  PROVE  /\ DecodeOp(w).args \in Seq(-2^23 .. 2^25 - 1)
         /\ DecodeOp(w).name \in Masks => DecodeOp(w).args[2] < 2^23
<1> DEFINE n == BasicName(w)
           a == Args(w, n)
           R == -2^23 .. 2^25 - 1
<1>0. w \in Int
  BY SMT DEF Int32
<1>1. DecodeOp(w).name = Alias(n, a) /\ DecodeOp(w).args = a
  BY DecodeParts
<1>2. n \in Names
  BY <1>0, OpcodeNamed
<1>3. Alias(n, a) \in Masks => n \in Masks
  BY <1>2, AliasOf
<1>5. /\ Bits(w, 5, 16) \in 0 .. 2^16 - 1 /\ Bits(w, 21, 11) \in 0 .. 2^11 - 1
      /\ Bits(w, 5, 6) \in 0 .. 2^6 - 1 /\ Bits(w, 16, 16) \in 0 .. 2^16 - 1
      /\ Bits(w, 5, 11) \in 0 .. 2^11 - 1 /\ Bits(w, 21, 6) \in 0 .. 2^6 - 1
      /\ Bits(w, 27, 5) \in 0 .. 2^5 - 1 /\ Bits(w, 5, 2) \in 0 .. 2^2 - 1
      /\ Bits(w, 13, 16) \in 0 .. 2^16 - 1 /\ Bits(w, 29, 1) \in 0 .. 2^1 - 1
      /\ Bits(w, 30, 2) \in 0 .. 2^2 - 1 /\ Bits(w, 5, 15) \in 0 .. 2^15 - 1
  BY <1>0, SMT DEF Bits
<1>6. /\ Bits(w, 20, 9) \in 0 .. 2^9 - 1 /\ Bits(w, 5, 1) \in 0 .. 2^1 - 1
      /\ Bits(w, 6, 25) \in 0 .. 2^25 - 1 /\ Bits(w, 21, 2) \in 0 .. 2^2 - 1
      /\ Bits(w, 23, 1) \in 0 .. 2^1 - 1 /\ Bits(w, 24, 6) \in 0 .. 2^6 - 1
  BY <1>0, SMT DEF Bits
<1>7. w \div 2^8 \in -2^23 .. 2^23 - 1
  BY SMT DEF Int32
<1>8. /\ n \in Delays => a = <<Bits(w, 5, 16), Bits(w, 21, 11)>>
      /\ n \in Regs => a = <<Bits(w, 5, 6), 0, Bits(w, 16, 16)>>
      /\ n = "MULX" => a = <<Bits(w, 5, 6), 0>>
      /\ n \in Scales => a = <<Bits(w, 5, 11), Bits(w, 16, 16)>>
      /\ n \in Masks => a = <<0, w \div 2^8>>
      /\ n = "SKP" => a = <<0, Bits(w, 21, 6), Bits(w, 27, 5)>>
  BY ArgsDelays, ArgsRegs, ArgsMULX, ArgsScales, ArgsMasks, ArgsSKP
<1>9. /\ n = "WLDR" => a = <<Bits(w, 5, 2), 0, Bits(w, 13, 16), Bits(w, 29, 1), Bits(w, 30, 2)>>
      /\ n = "WLDS" => a = <<Bits(w, 5, 15), Bits(w, 20, 9), Bits(w, 29, 1), Bits(w, 30, 2)>>
      /\ n = "JAM" => a = <<Bits(w, 5, 1), Bits(w, 6, 25)>>
      /\ n = "CHO" => a = <<Bits(w, 5, 16), Bits(w, 21, 2), Bits(w, 23, 1), Bits(w, 24, 6), Bits(w, 30, 2)>>
  BY ArgsWLDR, ArgsWLDS, ArgsJAM, ArgsCHO
<1>10. n = "" => a = <<>>
  BY ArgsNone
<1> HIDE DEF n, a, R
<1>11. /\ Bits(w, 5, 16) \in R /\ Bits(w, 21, 11) \in R /\ Bits(w, 5, 6) \in R
       /\ Bits(w, 16, 16) \in R /\ Bits(w, 5, 11) \in R /\ Bits(w, 21, 6) \in R
       /\ Bits(w, 27, 5) \in R /\ Bits(w, 5, 2) \in R /\ Bits(w, 13, 16) \in R
       /\ Bits(w, 29, 1) \in R /\ Bits(w, 30, 2) \in R /\ Bits(w, 5, 15) \in R
  BY <1>5, SMT DEF R
<1>12. /\ Bits(w, 20, 9) \in R /\ Bits(w, 5, 1) \in R /\ Bits(w, 6, 25) \in R
       /\ Bits(w, 21, 2) \in R /\ Bits(w, 23, 1) \in R /\ Bits(w, 24, 6) \in R
       /\ w \div 2^8 \in R /\ 0 \in R
  BY <1>6, <1>7, SMT DEF R
<1>13. a \in Seq(R)
  <2>1. CASE n \in Delays
    <3>1. <<Bits(w, 5, 16), Bits(w, 21, 11)>> \in Seq(R)
      BY <1>11, <1>12
    <3> QED BY <2>1, <3>1, <1>8, Zenon
  <2>2. CASE n \in Regs
    <3>1. <<Bits(w, 5, 6), 0, Bits(w, 16, 16)>> \in Seq(R)
      BY <1>11, <1>12
    <3> QED BY <2>2, <3>1, <1>8, Zenon
  <2>3. CASE n = "MULX"
    <3>1. <<Bits(w, 5, 6), 0>> \in Seq(R)
      BY <1>11, <1>12
    <3> QED BY <2>3, <3>1, <1>8, Zenon
  <2>4. CASE n \in Scales
    <3>1. <<Bits(w, 5, 11), Bits(w, 16, 16)>> \in Seq(R)
      BY <1>11, <1>12
    <3> QED BY <2>4, <3>1, <1>8, Zenon
  <2>5. CASE n \in Masks
    <3>1. <<0, w \div 2^8>> \in Seq(R)
      BY <1>11, <1>12
    <3> QED BY <2>5, <3>1, <1>8, Zenon
  <2>6. CASE n = "SKP"
    <3>1. <<0, Bits(w, 21, 6), Bits(w, 27, 5)>> \in Seq(R)
      BY <1>11, <1>12
    <3> QED BY <2>6, <3>1, <1>8, Zenon
  <2>7. CASE n = "WLDR"
    <3>1. <<Bits(w, 5, 2), 0, Bits(w, 13, 16), Bits(w, 29, 1), Bits(w, 30, 2)>> \in Seq(R)
      BY <1>11, <1>12
    <3> QED BY <2>7, <3>1, <1>9, Zenon
  <2>8. CASE n = "WLDS"
    <3>1. <<Bits(w, 5, 15), Bits(w, 20, 9), Bits(w, 29, 1), Bits(w, 30, 2)>> \in Seq(R)
      BY <1>11, <1>12
    <3> QED BY <2>8, <3>1, <1>9, Zenon
  <2>9. CASE n = "JAM"
    <3>1. <<Bits(w, 5, 1), Bits(w, 6, 25)>> \in Seq(R)
      BY <1>11, <1>12
    <3> QED BY <2>9, <3>1, <1>9, Zenon
  <2>10. CASE n = "CHO"
    <3>1. <<Bits(w, 5, 16), Bits(w, 21, 2), Bits(w, 23, 1), Bits(w, 24, 6), Bits(w, 30, 2)>> \in Seq(R)
      BY <1>11, <1>12
    <3> QED BY <2>10, <3>1, <1>9, Zenon
  <2>11. CASE n = ""
    <3>1. a = <<>>
      BY <2>11, <1>10
    <3> QED BY <3>1
  <2> QED BY <1>2, <2>1, <2>2, <2>3, <2>4, <2>5, <2>6, <2>7, <2>8, <2>9, <2>10, <2>11, Zenon DEF Names
<1>14. n \in Masks => a[2] < 2^23
  BY <1>7, <1>8, SMT
<1>15. a \in Seq(-2^23 .. 2^25 - 1)
  BY <1>13, Zenon DEF R
<1> QED BY <1>1, <1>3, <1>14, <1>15, Zenon

-----------------------------------------------------------------------------
(* Sequences put together *)

\* f is the sequences of ss put together, one more at each step.
Flat(f, S, ss) ==
  /\ f \in [0 .. Len(ss) - 1 -> Seq(S)] /\ f[0] = ss[1]
  /\ \A i \in 0 .. Len(ss) - 2 : f[i + 1] = f[i] \o ss[i + 2]
  /\ FlattenSeq(ss) = f[Len(ss) - 1]

LEMMA Flattened ==
  ASSUME NEW S, NEW ss \in Seq(Seq(S)), Len(ss) # 0
  PROVE  \E f : Flat(f, S, ss)
<1> DEFINE n == Len(ss)
           F == [x \in Nat \X Seq(S) |-> IF x[1] + 2 <= n THEN x[2] \o ss[x[1] + 2] ELSE x[2]]
<1>0. n \in Nat /\ n - 1 \in Nat /\ (\A k \in 1 .. n : ss[k] \in Seq(S)) /\ ss[1] \in Seq(S)
  OBVIOUS
<1>1. F \in [Nat \X Seq(S) -> Seq(S)]
  <2>1. \A x \in Nat \X Seq(S) : (IF x[1] + 2 <= n THEN x[2] \o ss[x[1] + 2] ELSE x[2]) \in Seq(S)
    <3> TAKE x \in Nat \X Seq(S)
    <3>1. x[1] \in Nat /\ x[2] \in Seq(S)
      OBVIOUS
    <3>2. x[1] + 2 <= n => ss[x[1] + 2] \in Seq(S)
      BY <1>0, <3>1
    <3> QED BY <3>1, <3>2
  <2> QED BY <2>1
<1>2. \A k \in Nat : \A y \in Seq(S) : F[<<k, y>>] = IF k + 2 <= n THEN y \o ss[k + 2] ELSE y
  OBVIOUS
<1> HIDE DEF F, n
<1>3. PICK g : Iterates(g, Seq(S), ss[1], F)
  BY <1>0, <1>1, Iteration
<1>4. g \in [Nat -> Seq(S)] /\ g[0] = ss[1] /\ \A k \in Nat : g[k + 1] = F[<<k, g[k]>>]
  BY <1>3 DEF Iterates
<1> DEFINE f == [k \in 1 .. n |-> g[k - 1]]
<1>5. /\ f \in [1 .. n -> Seq(S)]
      /\ \A k \in 1 .. n : f[k] = g[k - 1]
      /\ f[1] = ss[1]
  BY <1>0, <1>4
<1> HIDE DEF f
<1>6. \A k \in 1 .. n : k # 1 => f[k] = f[k - 1] \o ss[k]
  <2> TAKE k \in 1 .. n
  <2> HAVE k # 1
  <2>1. k - 2 \in Nat /\ (k - 2) + 1 = k - 1 /\ (k - 2) + 2 = k /\ k <= n /\ k - 1 \in 1 .. n /\ (k - 1) - 1 = k - 2
    BY <1>0
  <2>2. g[(k - 2) + 1] = F[<<k - 2, g[k - 2]>>] /\ g[k - 2] \in Seq(S)
    BY <1>4, <2>1
  <2>3. F[<<k - 2, g[k - 2]>>] = g[k - 2] \o ss[(k - 2) + 2]
    BY <1>2, <2>1, <2>2
  <2>4. f[k] = g[k - 1] /\ f[k - 1] = g[k - 2]
    BY <1>5, <2>1
  <2> QED BY <2>1, <2>2, <2>3, <2>4
<1>7. f = [k \in 1 .. n |-> IF k = 1 THEN ss[k] ELSE f[k - 1] \o ss[k]]
  <2>1. f = [k \in 1 .. n |-> f[k]]
    BY <1>5
  <2>2. \A k \in 1 .. n : f[k] = IF k = 1 THEN ss[k] ELSE f[k - 1] \o ss[k]
    BY <1>5, <1>6
  <2> QED BY <2>1, <2>2, Zenon
<1> DEFINE D == CHOOSE h : h = [k \in 1 .. n |-> IF k = 1 THEN ss[k] ELSE h[k - 1] \o ss[k]]
<1>8. D = [k \in 1 .. n |-> IF k = 1 THEN ss[k] ELSE D[k - 1] \o ss[k]]
  BY <1>7
<1>9. FlattenSeq(ss) = D[n]
  BY Zenon DEF FlattenSeq, n
<1> HIDE DEF D
<1>10. D[1] = ss[1] /\ \A k \in 1 .. n : k # 1 => D[k] = D[k - 1] \o ss[k]
  <2>1. \A k \in 1 .. n : D[k] = IF k = 1 THEN ss[k] ELSE D[k - 1] \o ss[k]
    BY <1>8, Zenon
  <2>2. 1 \in 1 .. n
    BY <1>0
  <2> QED BY <2>1, <2>2
<1> DEFINE e == [k \in 0 .. n - 1 |-> D[k + 1]]
           T == {k \in Nat : k < n => D[k + 1] \in Seq(S)}
<1>11. 0 \in T
  BY <1>0, <1>10
<1>12. ASSUME NEW k \in Nat, k \in T PROVE k + 1 \in T
  <2> SUFFICES ASSUME k + 1 < n PROVE D[(k + 1) + 1] \in Seq(S)
    OBVIOUS
  <2>1. (k + 1) + 1 \in 1 .. n /\ (k + 1) + 1 # 1 /\ ((k + 1) + 1) - 1 = k + 1 /\ k < n
    BY <1>0
  <2>2. D[(k + 1) + 1] = D[k + 1] \o ss[(k + 1) + 1]
    BY <1>10, <2>1
  <2>3. D[k + 1] \in Seq(S) /\ ss[(k + 1) + 1] \in Seq(S)
    BY <1>0, <1>12, <2>1
  <2> QED BY <2>2, <2>3
<1> HIDE DEF T
<1>13. Nat \subseteq T
  BY <1>11, <1>12, Induct
<1>14. \A k \in 0 .. n - 1 : D[k + 1] \in Seq(S)
  <2> TAKE k \in 0 .. n - 1
  <2>1. k \in Nat /\ k < n
    BY <1>0
  <2> QED BY <1>13, <2>1 DEF T
<1>15. e \in [0 .. n - 1 -> Seq(S)] /\ \A k \in 0 .. n - 1 : e[k] = D[k + 1]
  BY <1>14
<1> HIDE DEF e
<1>16. e[0] = ss[1] /\ e[n - 1] = D[n]
  BY <1>0, <1>10, <1>15
<1>17. \A i \in 0 .. n - 2 : e[i + 1] = e[i] \o ss[i + 2]
  <2> TAKE i \in 0 .. n - 2
  <2>1. /\ i \in 0 .. n - 1 /\ i + 1 \in 0 .. n - 1 /\ (i + 1) + 1 = i + 2
        /\ i + 2 \in 1 .. n /\ i + 2 # 1 /\ (i + 2) - 1 = i + 1
    BY <1>0
  <2>2. e[i] = D[i + 1] /\ e[i + 1] = D[i + 2]
    BY <1>15, <2>1
  <2>3. D[i + 2] = D[i + 1] \o ss[i + 2]
    BY <1>10, <2>1
  <2> QED BY <2>2, <2>3
<1>18. Flat(e, S, ss)
  BY <1>9, <1>15, <1>16, <1>17, Zenon DEF Flat, n
<1> QED BY <1>18

\* One more sequence is put at the end.
LEMMA FlattenAppend ==
  ASSUME NEW S, NEW ss \in Seq(Seq(S)), NEW x \in Seq(S)
  PROVE  /\ FlattenSeq(ss) \in Seq(S)
         /\ FlattenSeq(Append(ss, x)) = FlattenSeq(ss) \o x
<1> DEFINE n == Len(ss)
           tt == Append(ss, x)
           F == [z \in Nat \X Seq(S) |-> IF z[1] + 2 <= n + 1 THEN z[2] \o tt[z[1] + 2] ELSE z[2]]
<1>1. /\ n \in Nat /\ tt \in Seq(Seq(S)) /\ Len(tt) = n + 1 /\ tt[n + 1] = x
      /\ \A i \in 1 .. n : tt[i] = ss[i]
  OBVIOUS
<1> HIDE DEF tt
<1>2. PICK g : Flat(g, S, tt)
  BY <1>1, Flattened
<1>3. CASE n = 0
  <2>1. ss = <<>> /\ FlattenSeq(ss) = ss
    BY <1>3 DEF FlattenSeq
  <2>2. FlattenSeq(tt) = g[0] /\ g[0] = tt[1]
    BY <1>1, <1>2, <1>3 DEF Flat
  <2>3. tt[1] = x /\ ss \o x = x
    BY <1>1, <1>3, <2>1
  <2>4. FlattenSeq(ss) \in Seq(S)
    <3>1. <<>> \in Seq(S)
      OBVIOUS
    <3> QED BY <2>1, <3>1, Zenon
  <2>5. FlattenSeq(tt) = FlattenSeq(ss) \o x
    BY <2>1, <2>2, <2>3
  <2> QED BY <2>4, <2>5, Zenon DEF tt
<1>4. CASE n # 0
  <2>1. PICK f : Flat(f, S, ss)
    BY <1>4, Flattened
  <2>2. \A k \in Nat : \A y \in Seq(S) : F[<<k, y>>] = IF k + 2 <= n + 1 THEN y \o tt[k + 2] ELSE y
    OBVIOUS
  <2> HIDE DEF F
  <2>3. /\ f \in [0 .. n - 1 -> Seq(S)] /\ f[0] = ss[1] /\ FlattenSeq(ss) = f[n - 1]
        /\ \A i \in 0 .. n - 2 : f[i + 1] = f[i] \o ss[i + 2]
    BY <2>1, Zenon DEF Flat, n
  <2>4. /\ g \in [0 .. n -> Seq(S)] /\ g[0] = tt[1] /\ FlattenSeq(tt) = g[n]
        /\ \A i \in 0 .. n - 1 : g[i + 1] = g[i] \o tt[i + 2]
    <3>1. Len(tt) - 1 = n /\ Len(tt) - 2 = n - 1
      BY <1>1
    <3> QED BY <1>2, <3>1, Zenon DEF Flat
  <2> HIDE DEF n
  <2>5. n - 1 \in Nat /\ n - 1 <= n /\ n - 1 \in 0 .. n - 1 /\ (n - 1) + 1 = n /\ (n - 1) + 2 = n + 1 /\ (n - 1) - 1 = n - 2
    BY <1>1, <1>4
  <2>6. IteratesTo(f, n - 1, ss[1], F)
    <3>1. ASSUME NEW i \in 0 .. (n - 1) - 1 PROVE f[i + 1] = F[<<i, f[i]>>]
      <4>1. i \in 0 .. n - 2 /\ i \in Nat /\ i \in 0 .. n - 1 /\ i + 2 \in 1 .. n /\ i + 2 <= n + 1
        BY <2>5, <1>1
      <4>2. f[i] \in Seq(S) /\ f[i + 1] = f[i] \o ss[i + 2] /\ tt[i + 2] = ss[i + 2]
        BY <1>1, <2>3, <4>1
      <4>3. F[<<i, f[i]>>] = f[i] \o tt[i + 2]
        BY <2>2, <4>1, <4>2
      <4> QED BY <4>2, <4>3
    <3> QED BY <2>3, <3>1 DEF IteratesTo
  <2>7. IteratesTo(g, n, ss[1], F)
    <3>1. ASSUME NEW i \in 0 .. n - 1 PROVE g[i + 1] = F[<<i, g[i]>>]
      <4>1. i \in Nat /\ i \in 0 .. n /\ i + 2 <= n + 1
        BY <1>1
      <4>2. g[i] \in Seq(S) /\ g[i + 1] = g[i] \o tt[i + 2]
        BY <2>4, <4>1
      <4>3. F[<<i, g[i]>>] = g[i] \o tt[i + 2]
        BY <2>2, <4>1, <4>2
      <4> QED BY <4>2, <4>3
    <3>2. 1 \in 1 .. n
      BY <1>1, <1>4
    <3> QED BY <1>1, <2>4, <3>1, <3>2 DEF IteratesTo
  <2>8. f[n - 1] = g[n - 1]
    <3>1. \A i \in 0 .. n - 1 : f[i] = g[i]
      BY <1>1, <2>5, <2>6, <2>7, IterateOnce
    <3> QED BY <2>5, <3>1
  <2>9. g[n] = g[n - 1] \o x
    <3>1. g[(n - 1) + 1] = g[n - 1] \o tt[(n - 1) + 2]
      BY <2>4, <2>5
    <3> QED BY <1>1, <2>5, <3>1
  <2>10. f[n - 1] \in Seq(S)
    BY <2>3, <2>5
  <2> QED BY <2>3, <2>4, <2>8, <2>9, <2>10 DEF tt
<1> QED BY <1>3, <1>4

-----------------------------------------------------------------------------
(* Bytes and words *)

LEMMA PowersOf256 == 256^(3 - 3) = 1 /\ 256^(3 - 2) = 256 /\ 256^(3 - 1) = 65536 /\ 256^(3 - 0) = 16777216
  BY SMT

\* The bytes of a word are the four it was made of.
MadeOf(w, b1, b2, b3, b4) ==
  w \in Int32 /\ ByteOf(w, 0) = b1 /\ ByteOf(w, 1) = b2 /\ ByteOf(w, 2) = b3 /\ ByteOf(w, 3) = b4

LEMMA WordBytes ==
  ASSUME NEW b1 \in Byte, NEW b2 \in Byte, NEW b3 \in Byte, NEW b4 \in Byte
  PROVE  MadeOf(BigEndian(b1, b2, b3, b4), b1, b2, b3, b4)
<1> DEFINE h == IF b1 >= 128 THEN b1 - 256 ELSE b1
           w == BigEndian(b1, b2, b3, b4)
<1>1. w = h * 16777216 + b2 * 65536 + b3 * 256 + b4
  BY SMT DEF BigEndian, Byte
<1>2. /\ b1 \in Int /\ b2 \in Int /\ b3 \in Int /\ b4 \in Int
      /\ 0 <= b1 /\ b1 <= 255 /\ 0 <= b2 /\ b2 <= 255 /\ 0 <= b3 /\ b3 <= 255 /\ 0 <= b4 /\ b4 <= 255
  BY SMT DEF Byte
<1>3. h \in Int /\ -128 <= h /\ h <= 127 /\ (h = b1 \/ h = b1 - 256)
  BY <1>2
<1> HIDE DEF h, w
<1>4. w \in Int32
  BY <1>1, <1>2, <1>3, SMT DEF Int32
<1>5. h % 256 = b1
  BY <1>2, <1>3, SMT
<1>6. w \div 16777216 = h
  BY <1>1, <1>2, <1>3, SMT
<1>7. (w \div 65536) % 256 = b2
  BY <1>1, <1>2, <1>3, SMT
<1>8. (w \div 256) % 256 = b3
  BY <1>1, <1>2, <1>3, SMT
<1>9. (w \div 1) % 256 = b4
  BY <1>1, <1>2, <1>3, SMT
<1>10. /\ ByteOf(w, 0) = (w \div 16777216) % 256 /\ ByteOf(w, 1) = (w \div 65536) % 256
       /\ ByteOf(w, 2) = (w \div 256) % 256 /\ ByteOf(w, 3) = (w \div 1) % 256
  BY PowersOf256, SMT DEF ByteOf
<1> QED BY <1>4, <1>5, <1>6, <1>7, <1>8, <1>9, <1>10 DEF w, MadeOf

\* q is how many whole words m bytes have.
WholeWords(m, q) ==
  q \in Nat /\ 4 * q <= m /\ m <= 4 * q + 3 /\ (m % 4 = 0 => 4 * q = m)

LEMMA Quarters == \A m \in Nat : WholeWords(m, m \div 4)
  BY SMT DEF WholeWords

\* Words made of a buffer have its bytes.
Carry(words, n, bs) ==
  /\ words \in Seq(Int32) /\ Len(words) = n
  /\ \A i \in 1 .. n : \A k \in 0 .. 3 :
       4 * (i - 1) + k + 1 \in 1 .. Len(bs) /\ ByteOf(words[i], k) = bs[4 * (i - 1) + k + 1]

LEMMA ChunksAre ==
  ASSUME NEW bs \in Seq(Byte), NEW n \in Nat, 4 * n <= Len(bs)
  PROVE  Carry(Chunks(bs, n), n, bs)
<1> DEFINE W(i) == BigEndian(bs[4 * i - 3], bs[4 * i - 2], bs[4 * i - 1], bs[4 * i])
<1>1. \A i \in 1 .. n : /\ bs[4 * i - 3] \in Byte /\ bs[4 * i - 2] \in Byte
                        /\ bs[4 * i - 1] \in Byte /\ bs[4 * i] \in Byte
  <2> TAKE i \in 1 .. n
  <2>1. /\ 4 * i - 3 \in 1 .. Len(bs) /\ 4 * i - 2 \in 1 .. Len(bs)
        /\ 4 * i - 1 \in 1 .. Len(bs) /\ 4 * i \in 1 .. Len(bs)
    OBVIOUS
  <2>2. \A j \in 1 .. Len(bs) : bs[j] \in Byte
    OBVIOUS
  <2> QED BY <2>1, <2>2, Zenon
<1>2. \A i \in 1 .. n : /\ W(i) \in Int32
                        /\ ByteOf(W(i), 0) = bs[4 * i - 3] /\ ByteOf(W(i), 1) = bs[4 * i - 2]
                        /\ ByteOf(W(i), 2) = bs[4 * i - 1] /\ ByteOf(W(i), 3) = bs[4 * i]
  <2>1. \A i \in 1 .. n : MadeOf(W(i), bs[4 * i - 3], bs[4 * i - 2], bs[4 * i - 1], bs[4 * i])
    BY <1>1, WordBytes, Zenon
  <2> QED BY <2>1, Zenon DEF MadeOf
<1>3. Chunks(bs, n) = [i \in 1 .. n |-> W(i)]
  BY Zenon DEF Chunks
<1> HIDE DEF W
<1>4. Chunks(bs, n) \in Seq(Int32) /\ Len(Chunks(bs, n)) = n /\ \A i \in 1 .. n : Chunks(bs, n)[i] = W(i)
  BY <1>2, <1>3
<1>5. ASSUME NEW i \in 1 .. n, NEW k \in 0 .. 3
      PROVE  /\ 4 * (i - 1) + k + 1 \in 1 .. Len(bs)
             /\ ByteOf(Chunks(bs, n)[i], k) = bs[4 * (i - 1) + k + 1]
  <2>1. 4 * (i - 1) + k + 1 \in 1 .. Len(bs)
    OBVIOUS
  <2>2. /\ 4 * (i - 1) + 0 + 1 = 4 * i - 3 /\ 4 * (i - 1) + 1 + 1 = 4 * i - 2
        /\ 4 * (i - 1) + 2 + 1 = 4 * i - 1 /\ 4 * (i - 1) + 3 + 1 = 4 * i
    OBVIOUS
  <2>3. k = 0 \/ k = 1 \/ k = 2 \/ k = 3
    OBVIOUS
  <2>4. ByteOf(W(i), k) = bs[4 * (i - 1) + k + 1]
    BY <1>2, <2>2, <2>3
  <2> QED BY <1>4, <2>1, <2>4
<1> QED BY <1>4, <1>5, Zenon DEF Carry

-----------------------------------------------------------------------------
(* Records *)

\* What the lines of I hold as program data.
DataOf(f, I) == [i \in I |-> IF f.records[i].type = 0 THEN f.records[i].data ELSE <<>>]

LEMMA RecordData == \A r \in Record : r.data \in Seq(Byte)
  BY DEF Record

LEMMA FileTypes ==
  ASSUME NEW f \in File
  PROVE  /\ f.suffix \in {".bin", ".hex", "other"}
         /\ f.bytes \in Seq(Byte) /\ Len(f.bytes) \in Nat
         /\ f.records \in Seq(Record) /\ Len(f.records) \in Nat
         /\ \A i \in 1 .. Len(f.records) : f.records[i].data \in Seq(Byte)
<1>1. /\ f.suffix \in {".bin", ".hex", "other"}
      /\ f.bytes \in Seq(Byte) /\ f.records \in Seq(Record)
  BY DEF File
<1>2. Len(f.bytes) \in Nat /\ Len(f.records) \in Nat
  BY <1>1
<1>3. \A i \in 1 .. Len(f.records) : f.records[i] \in Record
  BY <1>1
<1> QED BY <1>1, <1>2, <1>3, RecordData, Zenon

\* A line more.
LEMMA DataOfLines ==
  ASSUME NEW f \in File, NEW k \in 0 .. Len(f.records)
  PROVE  /\ DataOf(f, 1 .. k) \in Seq(Seq(Byte))
         /\ k < Len(f.records) =>
              DataOf(f, 1 .. k + 1)
                = Append(DataOf(f, 1 .. k), IF f.records[k + 1].type = 0 THEN f.records[k + 1].data ELSE <<>>)
<1> DEFINE D(i) == IF f.records[i].type = 0 THEN f.records[i].data ELSE <<>>
<1>0. k \in Nat /\ Len(f.records) \in Nat
  BY FileTypes
<1>1. \A i \in 1 .. Len(f.records) : D(i) \in Seq(Byte)
  <2> TAKE i \in 1 .. Len(f.records)
  <2>1. f.records[i].data \in Seq(Byte)
    BY FileTypes
  <2>2. <<>> \in Seq(Byte)
    OBVIOUS
  <2> QED BY <2>1, <2>2, Zenon
<1>2. \A I : DataOf(f, I) = [i \in I |-> D(i)]
  BY Zenon DEF DataOf
<1> HIDE DEF D
<1>3. [i \in 1 .. k |-> D(i)] \in Seq(Seq(Byte))
  <2>1. \A i \in 1 .. k : D(i) \in Seq(Byte)
    BY <1>0, <1>1
  <2> QED BY <1>0, <2>1
<1>4. [i \in 1 .. k + 1 |-> D(i)] = Append([i \in 1 .. k |-> D(i)], D(k + 1))
  BY <1>0
<1>5. D(k + 1) = IF f.records[k + 1].type = 0 THEN f.records[k + 1].data ELSE <<>>
  BY Zenon DEF D
<1> QED BY <1>2, <1>3, <1>4, <1>5, Zenon

\* The lines before the first end record, if there is one.
LEMMA BodyIs ==
  ASSUME NEW f \in File, NEW k \in 0 .. Len(f.records),
         \A j \in 1 .. k : f.records[j].type # 1,
         k < Len(f.records) => f.records[k + 1].type = 1
  PROVE  Body(f) = 1 .. k
<1>0. k \in Nat /\ Len(f.records) \in Nat /\ DOMAIN f.records = 1 .. Len(f.records)
  BY FileTypes
<1>1. ASSUME NEW i \in 1 .. k PROVE i \in Body(f)
  <2>1. i \in DOMAIN f.records /\ \A j \in 1 .. i : j \in 1 .. k
    BY <1>0
  <2> QED BY <2>1 DEF Body
<1>2. ASSUME NEW i \in Body(f) PROVE i \in 1 .. k
  <2>1. i \in 1 .. Len(f.records) /\ \A j \in 1 .. i : f.records[j].type # 1
    BY <1>0 DEF Body
  <2>2. CASE k < Len(f.records)
    <3>1. f.records[k + 1].type = 1
      BY <2>2
    <3>2. ~(k + 1 \in 1 .. i)
      BY <2>1, <3>1
    <3> QED BY <1>0, <2>1, <3>2
  <2>3. CASE ~(k < Len(f.records))
    BY <1>0, <2>1, <2>3
  <2> QED BY <2>2, <2>3
<1> QED BY <1>1, <1>2

LEMMA ContentOf ==
  ASSUME NEW f
  PROVE  /\ f.suffix = ".bin" => Content(f) = f.bytes
         /\ f.suffix = ".hex" => Content(f) = FlattenSeq(DataOf(f, Body(f)))
<1>1. ".bin" # ".hex"
  OBVIOUS
<1> QED BY <1>1, SMT DEF Content, DataOf

-----------------------------------------------------------------------------
(* The inductive invariant *)

Instructions == {DecodeOp(w) : w \in Int32}

Chosen == programNumber \in 0 .. 7

\* What has been read is what the records read so far hold, none of them the end.
Reading ==
  /\ stage = "check" => linesRead = 0 /\ bytes = <<>>
  /\ stage = "read" => Chosen
  /\ stage \in {"check", "read"} => /\ bytes = FlattenSeq(DataOf(file, 1 .. linesRead))
                                    /\ \A j \in 1 .. linesRead : file.records[j].type # 1
  /\ stage = "chunks" => Chosen /\ file.suffix = ".hex" /\ bytes = Content(file)
  /\ stage \in {"check", "read", "chunks"} => buf = <<>>
  /\ stage \in {"check", "read", "chunks", "choose"} => ops = <<>>

Loaded == stage \in {"choose", "decode", "report", "run"} => Chosen

\* Decoded so far: the words from the program's place on, none of them its end.
Decoding ==
  /\ stage \in {"decode", "report", "run"} => Start + Len(ops) <= Len(buf)
  /\ \A i \in 1 .. Len(ops) : /\ Start + i \in 1 .. Len(buf)
                              /\ ops[i] = DecodeOp(buf[Start + i])
                              /\ ~Terminates(buf[Start + i])
  /\ stage = "decode" => Len(ops) <= InstructionsPerSample + 1
  /\ stage \in {"report", "run"} =>
       \/ Start + Len(ops) = Len(buf)
       \/ Start + Len(ops) < Len(buf) /\ Terminates(buf[Start + Len(ops) + 1])
       \/ Len(ops) = InstructionsPerSample + 2
  /\ stage = "run" => Len(ops) # 0

LoadTypes ==
  /\ file \in Files /\ programNumber \in ProgramNumbers /\ stage \in Stages
  /\ linesRead \in 0 .. Len(file.records) /\ bytes \in Seq(Byte)
  /\ buf \in Seq(Int32) /\ ops \in Seq(Instructions)

LoadInv == LoadTypes /\ Reading /\ Loaded /\ LoadsInOrder /\ Decoding

\* The constants, and the file.
LEMMA Loading ==
  ASSUME file \in Files
  PROVE  /\ file \in File /\ ProgramNumbers \subseteq Int /\ InstructionsPerSample \in Nat \ {0}
         /\ file.suffix \in {".bin", ".hex", "other"}
         /\ file.bytes \in Seq(Byte) /\ Len(file.bytes) \in Nat
         /\ file.records \in Seq(Record) /\ Len(file.records) \in Nat
<1>1. file \in File
  BY LoaderAssumption
<1> QED BY <1>1, FileTypes, LoaderAssumption

LEMMA StartTypes ==
  ASSUME programNumber \in Int, InstructionsPerSample \in Nat
  PROVE  Start \in Int /\ (Chosen => Start \in Nat)
  BY DEF Start, Chosen

LEMMA LoadInit == Init => LoadInv
<1> SUFFICES ASSUME Init PROVE LoadInv
  OBVIOUS
<1> USE DEF Init
<1>0. file \in File /\ Len(file.records) \in Nat
  BY Loading
<1>1. LoadTypes
  BY <1>0 DEF LoadTypes, Stages
<1>2. Reading
  <2>1. DataOf(file, 1 .. 0) = <<>>
    BY DEF DataOf
  <2>2. FlattenSeq(<<>>) = <<>>
    BY DEF FlattenSeq
  <2> QED BY <2>1, <2>2 DEF Reading
<1>3. Loaded
  BY DEF Loaded
<1>4. LoadsInOrder
  BY DEF LoadsInOrder
<1>5. Decoding
  BY DEF Decoding
<1> QED BY <1>1, <1>2, <1>3, <1>4, <1>5 DEF LoadInv

LEMMA LoadStep ==
  ASSUME LoadInv, Next
  PROVE  LoadInv'
<1> USE DEF LoadInv, LoadTypes, Stages
<1>0. /\ file \in File /\ ProgramNumbers \subseteq Int /\ InstructionsPerSample \in Nat \ {0}
      /\ file.suffix \in {".bin", ".hex", "other"}
      /\ file.bytes \in Seq(Byte) /\ Len(file.bytes) \in Nat
      /\ file.records \in Seq(Record) /\ Len(file.records) \in Nat
  BY Loading
<1>1. programNumber \in Int /\ Start \in Int /\ (Chosen => Start \in Nat)
  BY <1>0, StartTypes
<1>2. file' = file
  BY DEF Next, CheckCommandLine, ReadBin, ReadNothing, EndHex, ReadRecord, CollectChunks,
         ChooseProgram, EndOfProgram, DecodeOpCode, Report
<1>3. CASE CheckCommandLine
  <2> USE <1>3 DEF CheckCommandLine
  <2>1. LoadTypes'
    OBVIOUS
  <2>2. Reading'
    BY DEF Reading, Chosen
  <2>3. Loaded'
    BY DEF Loaded
  <2>4. LoadsInOrder'
    BY DEF LoadsInOrder
  <2>5. Decoding'
    BY DEF Decoding, Reading, Start
  <2> QED BY <2>1, <2>2, <2>3, <2>4, <2>5
<1>4. CASE ReadBin
  <2> DEFINE n == Len(file.bytes) \div 4
             whole == Len(file.bytes) % 4 = 0
  <2>1. /\ stage = "read" /\ file.suffix = ".bin"
        /\ whole => buf' = Chunks(file.bytes, n) /\ stage' = "choose"
        /\ ~whole => buf' = buf /\ stage' = "panic"
        /\ UNCHANGED <<file, programNumber, linesRead, bytes, ops>>
    BY <1>4 DEF ReadBin
  <2>2. n \in Nat /\ 4 * n <= Len(file.bytes) /\ (whole => 4 * n = Len(file.bytes))
    <3>1. WholeWords(Len(file.bytes), n)
      BY <1>0, Quarters, Zenon
    <3> HIDE DEF n
    <3> QED BY <1>0, <3>1 DEF WholeWords
  <2> HIDE DEF n, whole
  <2>3. whole =>
          /\ buf' \in Seq(Int32) /\ Len(buf') = n
          /\ \A i \in 1 .. n : \A k \in 0 .. 3 :
               /\ 4 * (i - 1) + k + 1 \in 1 .. Len(file.bytes)
               /\ ByteOf(buf'[i], k) = file.bytes[4 * (i - 1) + k + 1]
    <3>1. Carry(Chunks(file.bytes, n), n, file.bytes)
      BY <1>0, <2>2, ChunksAre, Zenon
    <3> QED BY <2>1, <3>1, Zenon DEF Carry
  <2>4. LoadTypes'
    BY <2>1, <2>3
  <2>5. Reading'
    BY <2>1 DEF Reading
  <2>6. Loaded'
    BY <2>1 DEF Loaded, Reading, Chosen
  <2>7. LoadsInOrder'
    <3>1. CASE whole
      <4>1. Content(file)' = file.bytes
        BY <2>1, <1>2, ContentOf
      <4>2. DOMAIN buf' = 1 .. n /\ DOMAIN file.bytes = 1 .. Len(file.bytes)
        BY <1>0, <2>3, <3>1
      <4> QED BY <1>2, <2>1, <2>2, <2>3, <3>1, <4>1, <4>2 DEF LoadsInOrder
    <3>2. CASE ~whole
      BY <2>1, <3>2 DEF LoadsInOrder
    <3> QED BY <3>1, <3>2
  <2>8. Decoding'
    BY <2>1 DEF Decoding, Reading, Start
  <2> QED BY <2>4, <2>5, <2>6, <2>7, <2>8
<1>5. CASE ReadNothing
  <2> USE <1>5 DEF ReadNothing
  <2>1. LoadTypes'
    OBVIOUS
  <2>2. Reading'
    BY DEF Reading
  <2>3. Loaded'
    BY DEF Loaded, Reading, Chosen
  <2>4. LoadsInOrder'
    BY DEF LoadsInOrder, Reading
  <2>5. Decoding'
    BY DEF Decoding, Reading, Start
  <2> QED BY <2>1, <2>2, <2>3, <2>4, <2>5
<1>6. CASE EndHex
  <2> USE <1>6 DEF EndHex
  <2>1. LoadTypes'
    OBVIOUS
  <2>2. Reading'
    <3>1. linesRead < Len(file.records) => file.records[linesRead + 1].type = 1
      BY DEF EndsHex
    <3>2. Body(file) = 1 .. linesRead
      BY <1>0, <3>1, BodyIs DEF Reading
    <3>3. bytes = Content(file)
      BY <3>2, ContentOf DEF Reading
    <3>4. Content(file)' = Content(file)
      BY <1>2 DEF Content, Body
    <3> QED BY <3>3, <3>4 DEF Reading, Chosen
  <2>3. Loaded'
    BY DEF Loaded
  <2>4. LoadsInOrder'
    BY DEF LoadsInOrder
  <2>5. Decoding'
    BY DEF Decoding, Reading, Start
  <2> QED BY <2>1, <2>2, <2>3, <2>4, <2>5
<1>7. CASE ReadRecord
  <2> DEFINE r == file.records[linesRead + 1]
             d == IF r.type = 0 THEN r.data ELSE <<>>
  <2>1. /\ stage = "read" /\ linesRead' = linesRead + 1 /\ stage' \in {"panic", "refused", "read"}
        /\ UNCHANGED <<file, programNumber, buf, ops>>
        /\ linesRead < Len(file.records) /\ ~(r.type = 1 /\ r.line # "cut")
    BY <1>7 DEF ReadRecord, EndsHex
  <2>2. /\ stage' = "read" => r.line # "cut"
        /\ bytes' = IF r.type = 0 /\ stage' = "read" THEN bytes \o r.data ELSE bytes
    BY <1>7 DEF ReadRecord
  <2>3. r.data \in Seq(Byte) /\ linesRead + 1 \in 1 .. Len(file.records)
    <3>1. linesRead + 1 \in 1 .. Len(file.records)
      BY <1>0, <2>1
    <3> QED BY <1>0, <3>1, FileTypes
  <2> HIDE DEF r
  <2>4. d \in Seq(Byte) /\ (stage' = "read" => bytes' = bytes \o d)
    <3>1. <<>> \in Seq(Byte) /\ bytes \o <<>> = bytes
      OBVIOUS
    <3> QED BY <2>2, <2>3, <3>1
  <2>5. LoadTypes'
    <3>1. linesRead' \in 0 .. Len(file.records) /\ file' = file
      BY <1>0, <2>1
    <3>2. bytes' \in Seq(Byte)
      BY <2>2, <2>3
    <3> QED BY <2>1, <3>1, <3>2
  <2>6. Reading'
    <3>1. CASE stage' = "read"
      <4>1. /\ bytes = FlattenSeq(DataOf(file, 1 .. linesRead))
            /\ \A j \in 1 .. linesRead : file.records[j].type # 1
            /\ Chosen /\ ops = <<>> /\ buf = <<>>
        BY <2>1 DEF Reading
      <4>2. r.type # 1
        BY <2>1, <2>2, <3>1
      <4>3. \A j \in 1 .. linesRead + 1 : file.records[j].type # 1
        <5> TAKE j \in 1 .. linesRead + 1
        <5>1. j \in 1 .. linesRead \/ j = linesRead + 1
          BY <1>0
        <5> QED BY <4>1, <4>2, <5>1 DEF r
      <4>4. /\ DataOf(file, 1 .. linesRead) \in Seq(Seq(Byte))
            /\ DataOf(file, 1 .. linesRead + 1) = Append(DataOf(file, 1 .. linesRead), d)
        BY <1>0, <2>1, DataOfLines DEF r
      <4> HIDE DEF d
      <4>5. FlattenSeq(DataOf(file, 1 .. linesRead + 1)) = bytes \o d
        BY <2>4, <4>1, <4>4, FlattenAppend, Zenon
      <4>6. bytes' = FlattenSeq(DataOf(file, 1 .. linesRead + 1))
        BY <2>4, <3>1, <4>5
      <4>7. file' = file /\ linesRead' = linesRead + 1
        BY <2>1
      <4>8. bytes' = FlattenSeq(DataOf(file', 1 .. linesRead'))
        BY <4>6, <4>7, Zenon
      <4>9. DataOf(file, 1 .. linesRead)' = DataOf(file', 1 .. linesRead')
        BY DEF DataOf
      <4> QED BY <2>1, <3>1, <4>1, <4>3, <4>7, <4>8, <4>9 DEF Reading, Chosen
    <3>2. CASE stage' # "read"
      BY <2>1, <3>2 DEF Reading
    <3> QED BY <3>1, <3>2
  <2>7. Loaded'
    BY <2>1 DEF Loaded
  <2>8. LoadsInOrder'
    BY <2>1 DEF LoadsInOrder
  <2>9. Decoding'
    <3>1. ops = <<>>
      BY <2>1 DEF Reading
    <3> QED BY <2>1, <3>1 DEF Decoding
  <2> QED BY <2>5, <2>6, <2>7, <2>8, <2>9
<1>8. CASE CollectChunks
  <2> DEFINE n == IF Len(bytes) <= 4 THEN 0 ELSE (Len(bytes) - 1) \div 4
  <2>1. /\ stage = "chunks" /\ stage' = "choose" /\ buf' = Chunks(bytes, n)
        /\ UNCHANGED <<file, programNumber, linesRead, bytes, ops>>
    BY <1>8 DEF CollectChunks
  <2>2. Chosen /\ file.suffix = ".hex" /\ bytes = Content(file) /\ ops = <<>>
    BY <2>1 DEF Reading
  <2>3. Len(bytes) \in Nat /\ bytes \in Seq(Byte) /\ DOMAIN bytes = 1 .. Len(bytes)
    OBVIOUS
  <2>4. /\ n \in Nat /\ 4 * n <= Len(bytes) /\ (Len(bytes) = 0 => n = 0)
        /\ Len(bytes) # 0 => Len(bytes) - 4 * n \in 1 .. 4
    <3>1. CASE Len(bytes) <= 4
      BY <2>3, <3>1
    <3>2. CASE ~(Len(bytes) <= 4)
      <4> DEFINE q == (Len(bytes) - 1) \div 4
      <4>1. Len(bytes) - 1 \in Nat
        BY <2>3, <3>2
      <4>2. WholeWords(Len(bytes) - 1, q)
        BY <4>1, Quarters, Zenon
      <4>3. n = q
        BY <3>2
      <4> HIDE DEF q, n
      <4> DEFINE m == Len(bytes)
      <4>4. m \in Nat /\ m > 4
        BY <2>3, <3>2
      <4>5. q \in Nat /\ 4 * q <= m - 1 /\ m - 1 <= 4 * q + 3
        BY <4>2, Zenon DEF WholeWords
      <4> HIDE DEF m
      <4>6. 4 * q <= m /\ m # 0 /\ m - 4 * q \in 1 .. 4
        BY <4>4, <4>5
      <4> QED BY <4>3, <4>5, <4>6, Zenon DEF m
    <3> QED BY <3>1, <3>2
  <2> HIDE DEF n
  <2>5. /\ buf' \in Seq(Int32) /\ Len(buf') = n
        /\ \A i \in 1 .. n : \A k \in 0 .. 3 :
             /\ 4 * (i - 1) + k + 1 \in 1 .. Len(bytes)
             /\ ByteOf(buf'[i], k) = bytes[4 * (i - 1) + k + 1]
    <3>1. Carry(Chunks(bytes, n), n, bytes)
      BY <2>3, <2>4, ChunksAre, Zenon
    <3> QED BY <2>1, <3>1, Zenon DEF Carry
  <2>6. LoadTypes'
    BY <2>1, <2>5
  <2>7. Reading'
    BY <2>1, <2>2 DEF Reading
  <2>8. Loaded'
    BY <2>1, <2>2 DEF Loaded, Chosen
  <2>9. LoadsInOrder'
    <3>1. Content(file)' = bytes
      <4>1. Content(file)' = Content(file)
        BY <1>2 DEF Content, Body
      <4> QED BY <2>2, <4>1
    <3>2. DOMAIN buf' = 1 .. n
      BY <2>5
    <3>3. \A i \in DOMAIN buf' : \A k \in 0 .. 3 :
            /\ 4 * (i - 1) + k + 1 \in DOMAIN bytes
            /\ ByteOf(buf'[i], k) = bytes[4 * (i - 1) + k + 1]
      BY <2>3, <2>5, <3>2
    <3>4. Len(bytes) - 4 * Len(buf') \in 1 .. 4 \/ (bytes = <<>> /\ buf' = <<>>)
      <4>1. CASE Len(bytes) = 0
        BY <2>3, <2>4, <2>5, <4>1
      <4>2. CASE Len(bytes) # 0
        BY <2>4, <2>5, <4>2
      <4> QED BY <4>1, <4>2
    <3>5. file'.suffix # ".bin"
      BY <1>2, <2>2
    <3> QED BY <3>1, <3>3, <3>4, <3>5, Zenon DEF LoadsInOrder
  <2>10. Decoding'
    BY <2>1, <2>2 DEF Decoding
  <2> QED BY <2>6, <2>7, <2>8, <2>9, <2>10
<1>9. CASE ChooseProgram
  <2> USE <1>9 DEF ChooseProgram
  <2>0. ops = <<>> /\ Len(ops) = 0 /\ Len(buf) \in Nat /\ Start' = Start /\ ops' = ops /\ buf' = buf
    BY DEF Reading, Start
  <2>1. LoadTypes'
    OBVIOUS
  <2>2. Reading'
    BY DEF Reading
  <2>3. Loaded'
    BY DEF Loaded, Chosen
  <2>4. LoadsInOrder'
    <3>1. Content(file)' = Content(file)
      BY <1>2 DEF Content, Body
    <3> QED BY <3>1 DEF LoadsInOrder
  <2>5. Decoding'
    <3>1. stage' = "decode" => Start + Len(ops) <= Len(buf)
      BY <1>1, <2>0
    <3>2. stage' \in {"decode", "refused"} /\ Len(ops) <= InstructionsPerSample + 1
      BY <1>0, <2>0
    <3> QED BY <2>0, <3>1, <3>2 DEF Decoding
  <2> QED BY <2>1, <2>2, <2>3, <2>4, <2>5
<1>10. CASE EndOfProgram
  <2> USE <1>10 DEF EndOfProgram
  <2>0. Len(ops) \in Nat /\ Len(buf) \in Nat /\ Start' = Start /\ ops' = ops /\ buf' = buf
    BY DEF Start
  <2>1. LoadTypes'
    OBVIOUS
  <2>2. Reading'
    BY DEF Reading
  <2>3. Loaded'
    BY DEF Loaded, Chosen
  <2>4. LoadsInOrder'
    <3>1. Content(file)' = Content(file)
      BY <1>2 DEF Content, Body
    <3> QED BY <3>1 DEF LoadsInOrder
  <2>5. Decoding'
    <3>1. Start + Len(ops) <= Len(buf) /\ Start \in Nat
      BY <1>1 DEF Decoding, Loaded
    <3>2. \/ Start + Len(ops) = Len(buf)
          \/ Start + Len(ops) < Len(buf) /\ Terminates(buf[Start + Len(ops) + 1])
      <4>1. CASE More
        <5>1. Start + Len(ops) + 1 \in 1 .. Len(buf)
          BY <2>0, <3>1, <4>1 DEF More
        <5>2. buf[Start + Len(ops) + 1] \in Int
          BY <5>1 DEF Int32
        <5>3. EndsProgram(DecodeOp(buf[Start + Len(ops) + 1]))
          BY <4>1 DEF Decoded
        <5> QED BY <4>1, <5>2, <5>3, EndsIfTerminates DEF More
      <4>2. CASE ~More
        BY <2>0, <3>1, <4>2 DEF More
      <4> QED BY <4>1, <4>2
    <3> QED BY <2>0, <3>1, <3>2 DEF Decoding
  <2> QED BY <2>1, <2>2, <2>3, <2>4, <2>5
<1>11. CASE DecodeOpCode
  <2>1. /\ stage = "decode" /\ More /\ ~EndsProgram(Decoded) /\ ops' = Append(ops, Decoded)
        /\ stage' = (IF Len(ops) > InstructionsPerSample THEN "report" ELSE "decode")
        /\ UNCHANGED <<file, programNumber, linesRead, bytes, buf>>
    BY <1>11 DEF DecodeOpCode
  <2> DEFINE n == Len(ops)
             w == buf[Start + n + 1]
  <2>2. n \in Nat /\ Start \in Nat /\ Len(buf) \in Nat /\ Start' = Start
    BY <1>1, <2>1 DEF Loaded, Start
  <2>3. Start + (n + 1) \in 1 .. Len(buf) /\ Start + n + 1 = Start + (n + 1) /\ Start + (n + 1) <= Len(buf)
    BY <2>1, <2>2 DEF More
  <2>4. w \in Int32 /\ Decoded = DecodeOp(w)
    BY <2>3 DEF Decoded
  <2>5. ~Terminates(w)
    <3>1. w \in Int
      BY <2>4, SMT DEF Int32
    <3> QED BY <2>1, <2>4, <3>1, EndsIfTerminates
  <2>6. Decoded \in Instructions
    BY <2>4 DEF Instructions
  <2>7. /\ ops' \in Seq(Instructions) /\ Len(ops') = n + 1
        /\ ops'[n + 1] = Decoded /\ \A i \in 1 .. n : ops'[i] = ops[i]
    BY <2>1, <2>6, AppendProperties
  <2> HIDE DEF w
  <2>8. LoadTypes'
    BY <2>1, <2>7
  <2>9. Reading'
    BY <2>1 DEF Reading
  <2>10. Loaded'
    BY <2>1 DEF Loaded, Chosen
  <2>11. LoadsInOrder'
    <3>1. Content(file)' = Content(file)
      BY <1>2 DEF Content, Body
    <3> QED BY <2>1, <3>1 DEF LoadsInOrder
  <2> HIDE DEF n
  <2>12. Decoding'
    <3>1. \A i \in 1 .. n + 1 : /\ Start + i \in 1 .. Len(buf)
                                /\ ops'[i] = DecodeOp(buf[Start + i])
                                /\ ~Terminates(buf[Start + i])
      <4> TAKE i \in 1 .. n + 1
      <4>1. CASE i = n + 1
        BY <2>3, <2>4, <2>5, <2>7, <4>1 DEF w
      <4>2. CASE i # n + 1
        <5>1. i \in 1 .. n
          BY <2>2, <4>2
        <5> QED BY <2>7, <5>1 DEF Decoding, n
      <4> QED BY <4>1, <4>2
    <3>2. n <= InstructionsPerSample + 1
      BY <2>1 DEF Decoding, n
    <3>3. /\ stage' = "decode" => n + 1 <= InstructionsPerSample + 1
          /\ stage' = "report" => n + 1 = InstructionsPerSample + 2
      BY <1>0, <2>1, <2>2, <3>2 DEF n
    <3>4. stage' \in {"decode", "report"} /\ Len(ops') = n + 1 /\ buf' = buf
      BY <2>1, <2>7
    <3> QED BY <2>2, <2>3, <3>1, <3>3, <3>4 DEF Decoding
  <2> QED BY <2>8, <2>9, <2>10, <2>11, <2>12
<1>12. CASE Report
  <2> USE <1>12 DEF Report
  <2>0. Start' = Start /\ ops' = ops /\ buf' = buf
    BY DEF Start
  <2>1. LoadTypes'
    OBVIOUS
  <2>2. Reading'
    BY DEF Reading
  <2>3. Loaded'
    BY DEF Loaded, Chosen
  <2>4. LoadsInOrder'
    <3>1. Content(file)' = Content(file)
      BY <1>2 DEF Content, Body
    <3> QED BY <3>1 DEF LoadsInOrder
  <2>5. Decoding'
    <3>1. stage' = "run" => Len(ops) # 0
      <4>1. Len(ops) = 0 => ops = <<>>
        OBVIOUS
      <4> QED BY <4>1
    <3> QED BY <2>0, <3>1 DEF Decoding
  <2> QED BY <2>1, <2>2, <2>3, <2>4, <2>5
<1> QED BY <1>3, <1>4, <1>5, <1>6, <1>7, <1>8, <1>9, <1>10, <1>11, <1>12 DEF Next

LEMMA LoadStutter ==
  ASSUME LoadInv, UNCHANGED vars
  PROVE  LoadInv'
<1>1. /\ UNCHANGED <<file, programNumber, stage, linesRead, bytes, buf, ops>>
  BY DEF vars
<1>2. /\ Start' = Start /\ Content(file)' = Content(file)
      /\ DataOf(file, 1 .. linesRead)' = DataOf(file, 1 .. linesRead)
  BY <1>1 DEF Start, Content, Body, DataOf
<1>3. LoadTypes'
  BY <1>1 DEF LoadInv, LoadTypes
<1>4. Reading' /\ Loaded'
  BY <1>1, <1>2 DEF LoadInv, Reading, Loaded, Chosen
<1>5. LoadsInOrder'
  BY <1>1, <1>2 DEF LoadInv, LoadsInOrder
<1>6. Decoding'
  BY <1>1, <1>2 DEF LoadInv, Decoding
<1> QED BY <1>3, <1>4, <1>5, <1>6 DEF LoadInv

LEMMA LoadInvariant == Spec => []LoadInv
<1>1. LoadInv /\ [Next]_vars => LoadInv'
  BY LoadStep, LoadStutter
<1> QED BY <1>1, LoadInit, PTL DEF Spec

-----------------------------------------------------------------------------
(* Files and programs *)

\* Whatever the file and the program number, the loader's state has its types, and
\* operands are within their fields' ranges, those of the masks signed.
THEOREM LoaderTypes == Spec => []TypeOK
<1>1. LoadInv => TypeOK
  <2> SUFFICES ASSUME LoadInv PROVE TypeOK
    OBVIOUS
  <2>1. \A i \in DOMAIN ops : /\ ops[i].args \in Seq(-2^23 .. 2^25 - 1)
                              /\ ops[i].name \in Masks => ops[i].args[2] < 2^23
    <3> TAKE i \in DOMAIN ops
    <3>1. ops[i] \in Instructions
      BY DEF LoadInv, LoadTypes
    <3>2. PICK w \in Int32 : ops[i] = DecodeOp(w)
      BY <3>1, Zenon DEF Instructions
    <3> QED BY <3>2, OperandsSmall, Zenon
  <2> QED BY <2>1, Zenon DEF LoadInv, LoadTypes, TypeOK
<1> QED BY <1>1, LoadInvariant, PTL

\* Of any file, what is decoded is its bytes in their order, four to a word, however
\* its records cut them up: all of a BIN, and of a HEX all but the last word.
THEOREM BytesInOrder == Spec => []LoadsInOrder
<1>1. LoadInv => LoadsInOrder
  BY DEF LoadInv
<1> QED BY <1>1, LoadInvariant, PTL

\* What runs is the chosen program up to its first SKP 0, the end of the buffer or
\* the fuse, for any number of instructions a sample.
THEOREM ProgramsEnd == Spec => []LoadsUpToEnd
<1>1. LoadInv => LoadsUpToEnd
  <2> SUFFICES ASSUME LoadInv, stage = "run" PROVE LoadsUpToEnd
    BY DEF LoadsUpToEnd
  <2> DEFINE here == SubSeq(buf, Start + 1, Len(buf))
             n == Len(ops)
  <2>1. n \in Nat /\ n # 0 /\ Len(buf) \in Nat /\ Start \in Nat
    <3>1. file \in Files /\ programNumber \in ProgramNumbers /\ Chosen
      BY DEF LoadInv, LoadTypes, Loaded
    <3>2. programNumber \in Int /\ InstructionsPerSample \in Nat
      BY <3>1, Loading
    <3> QED BY <3>1, <3>2, StartTypes DEF LoadInv, LoadTypes, Decoding
  <2>2. /\ Start + n <= Len(buf)
        /\ \/ Start + n = Len(buf)
           \/ Start + n < Len(buf) /\ Terminates(buf[Start + n + 1])
           \/ n = InstructionsPerSample + 2
    BY DEF LoadInv, Decoding
  <2>3. \A i \in 1 .. n : ops[i] = DecodeOp(buf[Start + i]) /\ ~Terminates(buf[Start + i])
    BY DEF LoadInv, Decoding
  <2>4. ops \in Seq(Instructions) /\ \A i \in Start + 1 .. Len(buf) : buf[i] \in Int32
    BY <2>1 DEF LoadInv, LoadTypes
  <2> HIDE DEF n
  <2>5. Len(here) = Len(buf) - Start /\ \A i \in 1 .. Len(buf) - Start : here[i] = buf[Start + i]
    <3>1. /\ Len(here) = IF Start + 1 <= Len(buf) THEN Len(buf) - (Start + 1) + 1 ELSE 0
          /\ \A i \in 1 .. Len(buf) - (Start + 1) + 1 : here[i] = buf[(Start + 1) + i - 1]
      BY <2>1, <2>4, SubSeqProperties
    <3>2. /\ Start + 1 <= Len(buf) /\ Len(buf) - (Start + 1) + 1 = Len(buf) - Start
          /\ \A i \in Nat : (Start + 1) + i - 1 = Start + i
      BY <2>1, <2>2
    <3> QED BY <2>1, <3>1, <3>2
  <2> HIDE DEF here
  <2>6. n \in 1 .. Len(here)
    BY <2>1, <2>2, <2>5
  <2>7. \A i \in 1 .. n : here[i] = buf[Start + i]
    BY <2>1, <2>2, <2>5
  <2>8. ops = [i \in 1 .. n |-> DecodeOp(here[i])]
    <3>1. ops = [i \in 1 .. n |-> ops[i]]
      BY <2>4 DEF n
    <3>2. \A i \in 1 .. n : ops[i] = DecodeOp(here[i])
      BY <2>3, <2>7
    <3> QED BY <3>1, <3>2, Zenon
  <2>9. \A i \in 1 .. n : ~Terminates(here[i])
    BY <2>3, <2>7
  <2>10. n = Len(here) \/ Terminates(here[n + 1]) \/ n = InstructionsPerSample + 2
    <3>1. CASE Start + n < Len(buf)
      <4>1. n + 1 \in 1 .. Len(buf) - Start /\ Start + (n + 1) = Start + n + 1
        BY <2>1, <3>1
      <4> QED BY <2>2, <2>5, <3>1, <4>1, <2>1
    <3>2. CASE Start + n = Len(buf)
      BY <2>1, <2>5, <3>2
    <3> QED BY <2>1, <2>2, <3>1, <3>2
  <2> QED BY <2>6, <2>8, <2>9, <2>10, Zenon DEF LoadsUpToEnd, here, n
<1> QED BY <1>1, LoadInvariant, PTL

\* What main reports a program to use is used by some word, to its bits, and what
\* is used is reported, but for WRHX, WRLX, MAXX and RDFX with a coefficient.
THEOREM ReportsUse == Spec => []UseReported
<1>1. LoadInv => UseReported
  <2> SUFFICES ASSUME LoadInv, stage = "run" PROVE UseReported
    BY DEF UseReported
  <2> DEFINE readers == {w \in Here : ReadsRegister(w)}
             writers == {w \in Here : WritesRegister(w)}
             inputs == PotensiometersInUse(ops) \cup ADCsInUse(ops)
             reads == RegistersIn({w \in Here : ReadsPlainly(w)})
             writes == RegistersIn({w \in Here : w % 32 = 6})
  <2>1. \A i \in DOMAIN ops : ops[i] = DecodeOp(buf[Start + i]) /\ buf[Start + i] \in Int
    <3> TAKE i \in DOMAIN ops
    <3>1. i \in 1 .. Len(ops)
      BY DEF LoadInv, LoadTypes
    <3>2. ops[i] = DecodeOp(buf[Start + i]) /\ Start + i \in 1 .. Len(buf) /\ buf \in Seq(Int32)
      BY <3>1 DEF LoadInv, Decoding, LoadTypes
    <3>3. buf[Start + i] \in Int32
      BY <3>2
    <3> QED BY <3>2, <3>3, SMT DEF Int32
  <2>2. \A i \in DOMAIN ops :
          /\ ops[i].name \in {"RDAX", "MULX", "LDAX"} <=> ReadsPlainly(buf[Start + i])
          /\ ops[i].name \in {"WRAX"} <=> buf[Start + i] % 32 = 6
          /\ ReadsPlainly(buf[Start + i]) \/ buf[Start + i] % 32 = 6
               => ops[i].args[1] = Bits(buf[Start + i], 5, 6)
    <3> TAKE i \in DOMAIN ops
    <3> DEFINE w == buf[Start + i]
    <3>1. ops[i] = DecodeOp(w) /\ w \in Int
      BY <2>1
    <3> HIDE DEF w
    <3>2. /\ DecodeOp(w).name \in {"RDAX", "MULX", "LDAX"} <=> ReadsPlainly(w)
          /\ DecodeOp(w).name = "WRAX" <=> w % 32 = 6
          /\ ReadsPlainly(w) \/ w % 32 = 6 => DecodeOp(w).args[1] = Bits(w, 5, 6)
      BY <3>1, ScansSee
    <3> QED BY <3>1, <3>2 DEF w
  <2>3. RegsOf(ops, {"RDAX", "MULX", "LDAX"}) = reads
    BY <2>2, ZenonT(60) DEF RegsOf, RegistersIn, Here
  <2>4. RegsOf(ops, {"WRAX"}) = writes
    BY <2>2, ZenonT(60) DEF RegsOf, RegistersIn, Here
  <2>5. {"RDAX", "LDAX", "MULX"} = {"RDAX", "MULX", "LDAX"}
    OBVIOUS
  <2>6. /\ {w \in readers : ~Overlooked(w)} = {w \in Here : ReadsPlainly(w)}
        /\ {w \in Here : ReadsPlainly(w)} \subseteq readers
    BY Zenon DEF ReadsPlainly
  <2>7. /\ {w \in writers : ~Overlooked(w)} = {w \in Here : w % 32 = 6}
        /\ {w \in Here : w % 32 = 6} \subseteq writers
    BY DEF WritesRegister, Overlooked
  <2>8. \A A, B : A \subseteq B => RegistersIn(A) \subseteq RegistersIn(B)
    BY Zenon DEF RegistersIn
  <2>9. reads \subseteq RegistersIn(readers) /\ writes \subseteq RegistersIn(writers)
    BY <2>6, <2>7, <2>8, Zenon
  <2>10. RegistersIn({w \in readers : ~Overlooked(w)}) = reads
    BY <2>6, Zenon
  <2>11. RegistersIn({w \in writers : ~Overlooked(w)}) = writes
    BY <2>7, Zenon
  <2> HIDE DEF reads, writes
  <2>12. /\ PotensiometersInUse(ops) = reads \cap {POT0, POT1, POT2}
         /\ ADCsInUse(ops) = reads \cap {ADCL, ADCR}
         /\ DACsInUse(ops) = writes \cap {DACL, DACR}
    BY <2>3, <2>4, <2>5, Zenon DEF PotensiometersInUse, ADCsInUse, DACsInUse
  <2>13. /\ inputs \subseteq RegistersIn(readers)
         /\ reads \cap {POT0, POT1, POT2, ADCL, ADCR} \subseteq inputs
         /\ DACsInUse(ops) \subseteq RegistersIn(writers)
         /\ writes \cap {DACL, DACR} \subseteq DACsInUse(ops)
    BY <2>9, <2>12, Zenon
  <2> HIDE DEF inputs
  <2> QED BY <2>10, <2>11, <2>13, Zenon DEF UseReported, inputs
<1> QED BY <1>1, LoadInvariant, PTL

-----------------------------------------------------------------------------
(* Instructions put back together *)

\* The opcode of a mnemonic.
NumberOf(name) ==
  CASE name = "RDA" -> 0 [] name = "RMPA" -> 1 [] name = "WRA" -> 2
    [] name = "WRAP" -> 3 [] name = "RDAX" -> 4 [] name = "RDFX" -> 5
    [] name = "WRAX" -> 6 [] name = "WRHX" -> 7 [] name = "WRLX" -> 8
    [] name = "MAXX" -> 9 [] name = "MULX" -> 10 [] name = "LOG" -> 11
    [] name = "EXP" -> 12 [] name = "SOF" -> 13 [] name = "AND" -> 14
    [] name = "OR" -> 15 [] name = "XOR" -> 16 [] name = "SKP" -> 17
    [] name = "WLDR" -> 18 [] name = "JAM" -> 19 [] name = "CHO" -> 20

LEMMA Numbered == \A k \in 0 .. 20 : NumberOf(Mnemonic(k)) = k
<1> TAKE k \in 0 .. 20
<1>1. \/ k = 0 \/ k = 1 \/ k = 2 \/ k = 3 \/ k = 4 \/ k = 5 \/ k = 6
      \/ k = 7 \/ k = 8 \/ k = 9 \/ k = 10 \/ k = 11 \/ k = 12 \/ k = 13
      \/ k = 14 \/ k = 15 \/ k = 16 \/ k = 17 \/ k = 18 \/ k = 19 \/ k = 20
  OBVIOUS
<1>2. /\ NumberOf("RDA") = 0 /\ NumberOf("RMPA") = 1 /\ NumberOf("WRA") = 2
      /\ NumberOf("WRAP") = 3 /\ NumberOf("RDAX") = 4 /\ NumberOf("RDFX") = 5
      /\ NumberOf("WRAX") = 6 /\ NumberOf("WRHX") = 7 /\ NumberOf("WRLX") = 8
      /\ NumberOf("MAXX") = 9 /\ NumberOf("MULX") = 10 /\ NumberOf("LOG") = 11
      /\ NumberOf("EXP") = 12 /\ NumberOf("SOF") = 13 /\ NumberOf("AND") = 14
      /\ NumberOf("OR") = 15 /\ NumberOf("XOR") = 16 /\ NumberOf("SKP") = 17
      /\ NumberOf("WLDR") = 18 /\ NumberOf("JAM") = 19 /\ NumberOf("CHO") = 20
  BY SMT DEF NumberOf
<1>3. /\ NumberOf(Mnemonic(0)) = 0 /\ NumberOf(Mnemonic(1)) = 1 /\ NumberOf(Mnemonic(2)) = 2
      /\ NumberOf(Mnemonic(3)) = 3 /\ NumberOf(Mnemonic(4)) = 4 /\ NumberOf(Mnemonic(5)) = 5
      /\ NumberOf(Mnemonic(6)) = 6 /\ NumberOf(Mnemonic(7)) = 7 /\ NumberOf(Mnemonic(8)) = 8
      /\ NumberOf(Mnemonic(9)) = 9 /\ NumberOf(Mnemonic(10)) = 10 /\ NumberOf(Mnemonic(11)) = 11
      /\ NumberOf(Mnemonic(12)) = 12 /\ NumberOf(Mnemonic(13)) = 13 /\ NumberOf(Mnemonic(14)) = 14
      /\ NumberOf(Mnemonic(15)) = 15 /\ NumberOf(Mnemonic(16)) = 16 /\ NumberOf(Mnemonic(17)) = 17
      /\ NumberOf(Mnemonic(18)) = 18 /\ NumberOf(Mnemonic(19)) = 19 /\ NumberOf(Mnemonic(20)) = 20
  BY <1>2, MnemonicOf, SMT
<1> QED BY <1>1, <1>3, Zenon

\* Names that are no mnemonics.
Aliases == {"LDAX", "ABSA", "CLR", "NOT", "NOP", "WLDS", "CHO RDA", "CHO SOF", "CHO RDAL", "CHO <?>"}

LEMMA OpcodeOfMnemonic == \A k \in 0 .. 20 : OpcodeOf(Mnemonic(k)) = k
<1> TAKE k \in 0 .. 20
<1> DEFINE name == Mnemonic(k)
<1>1. name \notin Aliases
  <2>1. \/ k = 0 \/ k = 1 \/ k = 2 \/ k = 3 \/ k = 4 \/ k = 5 \/ k = 6
        \/ k = 7 \/ k = 8 \/ k = 9 \/ k = 10 \/ k = 11 \/ k = 12 \/ k = 13
        \/ k = 14 \/ k = 15 \/ k = 16 \/ k = 17 \/ k = 18 \/ k = 19 \/ k = 20
    OBVIOUS
  <2> QED BY <2>1, MnemonicOf, Zenon DEF Aliases
<1>2. \A o \in 0 .. 20 : Mnemonic(o) = name <=> o = k
  BY Numbered, Zenon
<1> HIDE DEF name
<1>3. OpcodeOf(name) = CHOOSE o \in 0 .. 20 : Mnemonic(o) = name
  BY <1>1 DEF OpcodeOf, Aliases
<1>4. (CHOOSE o \in 0 .. 20 : Mnemonic(o) = name) = k
  BY <1>2
<1> QED BY <1>3, <1>4 DEF name

\* What a name becomes, by what it was.
LEMMA AliasIs ==
  ASSUME NEW name \in Names, NEW args
  PROVE  /\ name \notin {"RDFX", "CHO", "AND", "XOR", "MAXX", "SKP"} => Alias(name, args) = name
         /\ name = "RDFX" => Alias(name, args) \in {"RDFX", "LDAX"}
         /\ name = "AND" => Alias(name, args) \in {"AND", "CLR"}
         /\ name = "XOR" => Alias(name, args) \in {"XOR", "NOT"}
         /\ name = "MAXX" => Alias(name, args) \in {"MAXX", "ABSA"}
         /\ name = "SKP" => Alias(name, args) \in {"SKP", "NOP"}
         /\ name = "CHO" /\ args[5] \in 0 .. 3 =>
              /\ Alias(name, args) \in {"CHO RDA", "CHO SOF", "CHO RDAL", "CHO <?>"}
              /\ Alias(name, args) = "CHO <?>" <=> args[5] = 1
<1>1. ASSUME name # "RDFX", name # "CHO", name # "AND", name # "XOR", name # "MAXX", name # "SKP"
      PROVE  Alias(name, args) = name
  BY <1>1, SMT DEF Alias
<1>2. ASSUME name = "RDFX" PROVE Alias(name, args) = "RDFX" \/ Alias(name, args) = "LDAX"
  BY <1>2, SMT DEF Alias
<1>3. ASSUME name = "AND" PROVE Alias(name, args) = "AND" \/ Alias(name, args) = "CLR"
  BY <1>3, SMT DEF Alias
<1>4. ASSUME name = "XOR" PROVE Alias(name, args) = "XOR" \/ Alias(name, args) = "NOT"
  BY <1>4, SMT DEF Alias
<1>5. ASSUME name = "MAXX" PROVE Alias(name, args) = "MAXX" \/ Alias(name, args) = "ABSA"
  BY <1>5, SMT DEF Alias
<1>6. ASSUME name = "SKP" PROVE Alias(name, args) = "SKP" \/ Alias(name, args) = "NOP"
  BY <1>6, SMT DEF Alias
<1>7. ASSUME name = "CHO", args[5] \in 0 .. 3
      PROVE  /\ \/ Alias(name, args) = "CHO RDA" \/ Alias(name, args) = "CHO SOF"
                \/ Alias(name, args) = "CHO RDAL" \/ Alias(name, args) = "CHO <?>"
             /\ Alias(name, args) = "CHO <?>" <=> args[5] = 1
  <2>1. args[5] = 0 \/ args[5] = 1 \/ args[5] = 2 \/ args[5] = 3
    BY <1>7
  <2>2. CASE args[5] = 0
    BY <1>7, <2>2, SMT DEF Alias
  <2>3. CASE args[5] = 1
    BY <1>7, <2>3, SMT DEF Alias
  <2>4. CASE args[5] = 2
    BY <1>7, <2>4, SMT DEF Alias
  <2>5. CASE args[5] = 3
    BY <1>7, <2>5, SMT DEF Alias
  <2> QED BY <2>1, <2>2, <2>3, <2>4, <2>5
<1> QED BY <1>1, <1>2, <1>3, <1>4, <1>5, <1>6, <1>7

LEMMA OpcodeOfAlias ==
  /\ OpcodeOf("LDAX") = 5 /\ OpcodeOf("ABSA") = 9 /\ OpcodeOf("CLR") = 14
  /\ OpcodeOf("NOT") = 16 /\ OpcodeOf("NOP") = 17 /\ OpcodeOf("WLDS") = 18
  /\ OpcodeOf("CHO RDA") = 20 /\ OpcodeOf("CHO SOF") = 20
  /\ OpcodeOf("CHO RDAL") = 20 /\ OpcodeOf("CHO <?>") = 20
  BY SMT DEF OpcodeOf

\* No name hides its opcode.
LEMMA OpcodeBack ==
  ASSUME NEW w \in Int, w % 32 <= 20
  PROVE  OpcodeOf(DecodeOp(w).name) = w % 32
<1> DEFINE o == w % 32
           n == BasicName(w)
           a == Args(w, n)
<1>1. DecodeOp(w).name = Alias(n, a) /\ n \in Names
  BY DecodeParts, OpcodeNamed
<1>2. o \in 0 .. 20
  BY DivMod
<1>3. OpcodeOf(Mnemonic(o)) = o
  BY <1>2, OpcodeOfMnemonic
<1>4. n = Mnemonic(o) \/ (o = 18 /\ n = "WLDS")
  BY DEF BasicName
<1>5. /\ n = "RDFX" => o = 5
      /\ n = "MAXX" => o = 9
      /\ n = "AND" => o = 14
      /\ n = "XOR" => o = 16
      /\ n = "SKP" => o = 17
      /\ n = "CHO" => o = 20
  <2>1. o = NumberOf(Mnemonic(o))
    BY <1>2, Numbered
  <2>2. /\ NumberOf("RDFX") = 5 /\ NumberOf("MAXX") = 9 /\ NumberOf("AND") = 14
        /\ NumberOf("XOR") = 16 /\ NumberOf("SKP") = 17 /\ NumberOf("CHO") = 20
    BY SMT DEF NumberOf
  <2> HIDE DEF o, n
  <2> QED BY <1>4, <2>1, <2>2
<1>6. n = "CHO" => a[5] \in 0 .. 3
  <2>1. n = "CHO" => a[5] = Bits(w, 30, 2)
    BY ArgsCHO
  <2>2. Bits(w, 30, 2) \in 0 .. 3
    BY SMT DEF Bits
  <2> QED BY <2>1, <2>2
<1> HIDE DEF o, n, a
<1>7. OpcodeOf(Alias(n, a)) = o
  <2>1. CASE n \notin {"RDFX", "CHO", "AND", "XOR", "MAXX", "SKP"}
    <3>1. Alias(n, a) = n
      BY <1>1, <2>1, AliasIs
    <3> QED BY <1>3, <1>4, <3>1, OpcodeOfAlias, Zenon
  <2>2. CASE n = "CHO"
    <3>1. Alias(n, a) \in {"CHO RDA", "CHO SOF", "CHO RDAL", "CHO <?>"}
      BY <1>1, <1>6, <2>2, AliasIs
    <3> QED BY <1>5, <2>2, <3>1, OpcodeOfAlias, Zenon
  <2>3. CASE n \in {"RDFX", "AND", "XOR", "MAXX", "SKP"}
    <3>1. \/ Alias(n, a) = n
          \/ n = "RDFX" /\ Alias(n, a) = "LDAX"
          \/ n = "AND" /\ Alias(n, a) = "CLR"
          \/ n = "XOR" /\ Alias(n, a) = "NOT"
          \/ n = "MAXX" /\ Alias(n, a) = "ABSA"
          \/ n = "SKP" /\ Alias(n, a) = "NOP"
      <4>1. /\ n = "RDFX" => Alias(n, a) \in {"RDFX", "LDAX"}
            /\ n = "AND" => Alias(n, a) \in {"AND", "CLR"}
            /\ n = "XOR" => Alias(n, a) \in {"XOR", "NOT"}
            /\ n = "MAXX" => Alias(n, a) \in {"MAXX", "ABSA"}
            /\ n = "SKP" => Alias(n, a) \in {"SKP", "NOP"}
        BY <1>1, AliasIs
      <4> QED BY <2>3, <4>1, Zenon
    <3>2. n # "WLDS"
      BY <2>3
    <3> QED BY <1>3, <1>4, <1>5, <3>1, <3>2, OpcodeOfAlias, Zenon
  <2> QED BY <2>1, <2>2, <2>3
<1> QED BY <1>1, <1>7 DEF o

\* Fields add up.
LEMMA WordIs ==
  ASSUME NEW o \in Int, NEW fields, NEW terms \in Seq(Int),
         DOMAIN fields = 1 .. Len(terms), Len(fields) = Len(terms),
         \A i \in 1 .. Len(terms) : terms[i] = Placed(fields[i][1], fields[i][2], fields[i][3])
  PROVE  Word(o, fields) = Sums(o, terms)[Len(terms)]
<1>1. terms = [i \in DOMAIN fields |-> Placed(fields[i][1], fields[i][2], fields[i][3])]
  OBVIOUS
<1> QED BY <1>1, Zenon DEF Word

\* The value of a field <<bit, length, value>>.
Field(f) == Placed(f[1], f[2], f[3])

LEMMA WordOf1 ==
  ASSUME NEW o \in Int, NEW f,
         Field(f) \in Int
  PROVE  Word(o, <<f>>) = o + Field(f)
<1> DEFINE fields == <<f>>
           terms == <<Field(f)>>
<1>1. /\ terms \in Seq(Int) /\ Len(terms) = 1
      /\ terms[1] = Field(f)
  OBVIOUS
<1>2. /\ DOMAIN fields = 1 .. 1 /\ Len(fields) = 1
      /\ fields[1] = f
  OBVIOUS
<1> HIDE DEF fields, terms
<1>3. \A i \in 1 .. Len(terms) : terms[i] = Placed(fields[i][1], fields[i][2], fields[i][3])
  BY <1>1, <1>2 DEF Field
<1>4. Word(o, fields) = Sums(o, terms)[1]
  <2>1. terms \in Seq(Int) /\ DOMAIN fields = 1 .. Len(terms) /\ Len(fields) = Len(terms)
    BY <1>1, <1>2
  <2>2. Word(o, fields) = Sums(o, terms)[Len(terms)]
    BY <1>3, <2>1, WordIs, Zenon
  <2> QED BY <1>1, <2>2
<1>5. Len(terms) >= 1 => Sums(o, terms)[1] = o + terms[1]
  BY <1>1, SumOf, Zenon
<1>6. Word(o, fields) = o + Field(f)
  BY <1>1, <1>4, <1>5
<1> QED BY <1>6, Zenon DEF fields

LEMMA WordOf2 ==
  ASSUME NEW o \in Int, NEW f, NEW g,
         Field(f) \in Int, Field(g) \in Int
  PROVE  Word(o, <<f, g>>) = o + Field(f) + Field(g)
<1> DEFINE fields == <<f, g>>
           terms == <<Field(f), Field(g)>>
<1>1. /\ terms \in Seq(Int) /\ Len(terms) = 2
      /\ terms[1] = Field(f) /\ terms[2] = Field(g)
  OBVIOUS
<1>2. /\ DOMAIN fields = 1 .. 2 /\ Len(fields) = 2
      /\ fields[1] = f /\ fields[2] = g
  OBVIOUS
<1> HIDE DEF fields, terms
<1>3. \A i \in 1 .. Len(terms) : terms[i] = Placed(fields[i][1], fields[i][2], fields[i][3])
  BY <1>1, <1>2 DEF Field
<1>4. Word(o, fields) = Sums(o, terms)[2]
  <2>1. terms \in Seq(Int) /\ DOMAIN fields = 1 .. Len(terms) /\ Len(fields) = Len(terms)
    BY <1>1, <1>2
  <2>2. Word(o, fields) = Sums(o, terms)[Len(terms)]
    BY <1>3, <2>1, WordIs, Zenon
  <2> QED BY <1>1, <2>2
<1>5. Len(terms) >= 2 => Sums(o, terms)[2] = o + terms[1] + terms[2]
  BY <1>1, SumOf, Zenon
<1>6. Word(o, fields) = o + Field(f) + Field(g)
  BY <1>1, <1>4, <1>5
<1> QED BY <1>6, Zenon DEF fields

LEMMA WordOf3 ==
  ASSUME NEW o \in Int, NEW f, NEW g, NEW h,
         Field(f) \in Int, Field(g) \in Int, Field(h) \in Int
  PROVE  Word(o, <<f, g, h>>) = o + Field(f) + Field(g) + Field(h)
<1> DEFINE fields == <<f, g, h>>
           terms == <<Field(f), Field(g), Field(h)>>
<1>1. /\ terms \in Seq(Int) /\ Len(terms) = 3
      /\ terms[1] = Field(f) /\ terms[2] = Field(g) /\ terms[3] = Field(h)
  OBVIOUS
<1>2. /\ DOMAIN fields = 1 .. 3 /\ Len(fields) = 3
      /\ fields[1] = f /\ fields[2] = g /\ fields[3] = h
  OBVIOUS
<1> HIDE DEF fields, terms
<1>3. \A i \in 1 .. Len(terms) : terms[i] = Placed(fields[i][1], fields[i][2], fields[i][3])
  BY <1>1, <1>2 DEF Field
<1>4. Word(o, fields) = Sums(o, terms)[3]
  <2>1. terms \in Seq(Int) /\ DOMAIN fields = 1 .. Len(terms) /\ Len(fields) = Len(terms)
    BY <1>1, <1>2
  <2>2. Word(o, fields) = Sums(o, terms)[Len(terms)]
    BY <1>3, <2>1, WordIs, Zenon
  <2> QED BY <1>1, <2>2
<1>5. Len(terms) >= 3 => Sums(o, terms)[3] = o + terms[1] + terms[2] + terms[3]
  BY <1>1, SumOf, Zenon
<1>6. Word(o, fields) = o + Field(f) + Field(g) + Field(h)
  BY <1>1, <1>4, <1>5
<1> QED BY <1>6, Zenon DEF fields

LEMMA WordOf4 ==
  ASSUME NEW o \in Int, NEW f, NEW g, NEW h, NEW k,
         Field(f) \in Int, Field(g) \in Int, Field(h) \in Int, Field(k) \in Int
  PROVE  Word(o, <<f, g, h, k>>) = o + Field(f) + Field(g) + Field(h) + Field(k)
<1> DEFINE fields == <<f, g, h, k>>
           terms == <<Field(f), Field(g), Field(h), Field(k)>>
<1>1. /\ terms \in Seq(Int) /\ Len(terms) = 4
      /\ terms[1] = Field(f) /\ terms[2] = Field(g) /\ terms[3] = Field(h) /\ terms[4] = Field(k)
  OBVIOUS
<1>2. /\ DOMAIN fields = 1 .. 4 /\ Len(fields) = 4
      /\ fields[1] = f /\ fields[2] = g /\ fields[3] = h /\ fields[4] = k
  OBVIOUS
<1> HIDE DEF fields, terms
<1>3. \A i \in 1 .. Len(terms) : terms[i] = Placed(fields[i][1], fields[i][2], fields[i][3])
  BY <1>1, <1>2 DEF Field
<1>4. Word(o, fields) = Sums(o, terms)[4]
  <2>1. terms \in Seq(Int) /\ DOMAIN fields = 1 .. Len(terms) /\ Len(fields) = Len(terms)
    BY <1>1, <1>2
  <2>2. Word(o, fields) = Sums(o, terms)[Len(terms)]
    BY <1>3, <2>1, WordIs, Zenon
  <2> QED BY <1>1, <2>2
<1>5. Len(terms) >= 4 => Sums(o, terms)[4] = o + terms[1] + terms[2] + terms[3] + terms[4]
  BY <1>1, SumOf, Zenon
<1>6. Word(o, fields) = o + Field(f) + Field(g) + Field(h) + Field(k)
  BY <1>1, <1>4, <1>5
<1> QED BY <1>6, Zenon DEF fields

LEMMA WordOf5 ==
  ASSUME NEW o \in Int, NEW f, NEW g, NEW h, NEW k, NEW l,
         Field(f) \in Int, Field(g) \in Int, Field(h) \in Int, Field(k) \in Int, Field(l) \in Int
  PROVE  Word(o, <<f, g, h, k, l>>) = o + Field(f) + Field(g) + Field(h) + Field(k) + Field(l)
<1> DEFINE fields == <<f, g, h, k, l>>
           terms == <<Field(f), Field(g), Field(h), Field(k), Field(l)>>
<1>1. /\ terms \in Seq(Int) /\ Len(terms) = 5
      /\ terms[1] = Field(f) /\ terms[2] = Field(g) /\ terms[3] = Field(h) /\ terms[4] = Field(k) /\ terms[5] = Field(l)
  OBVIOUS
<1>2. /\ DOMAIN fields = 1 .. 5 /\ Len(fields) = 5
      /\ fields[1] = f /\ fields[2] = g /\ fields[3] = h /\ fields[4] = k /\ fields[5] = l
  OBVIOUS
<1> HIDE DEF fields, terms
<1>3. \A i \in 1 .. Len(terms) : terms[i] = Placed(fields[i][1], fields[i][2], fields[i][3])
  BY <1>1, <1>2 DEF Field
<1>4. Word(o, fields) = Sums(o, terms)[5]
  <2>1. terms \in Seq(Int) /\ DOMAIN fields = 1 .. Len(terms) /\ Len(fields) = Len(terms)
    BY <1>1, <1>2
  <2>2. Word(o, fields) = Sums(o, terms)[Len(terms)]
    BY <1>3, <2>1, WordIs, Zenon
  <2> QED BY <1>1, <2>2
<1>5. Len(terms) >= 5 => Sums(o, terms)[5] = o + terms[1] + terms[2] + terms[3] + terms[4] + terms[5]
  BY <1>1, SumOf, Zenon
<1>6. Word(o, fields) = o + Field(f) + Field(g) + Field(h) + Field(k) + Field(l)
  BY <1>1, <1>4, <1>5
<1> QED BY <1>6, Zenon DEF fields

LEMMA LayoutOf ==
  ASSUME NEW op
  PROVE  /\ OpcodeOf(op.name) \in 0 .. 3 =>
              Layout(op) = <<<<5, 16, op.args[1]>>, <<21, 11, op.args[2]>>>>
         /\ OpcodeOf(op.name) \in 4 .. 9 =>
              Layout(op) = <<<<5, 6, op.args[1]>>, <<16, 16, op.args[3]>>>>
         /\ OpcodeOf(op.name) = 10 => Layout(op) = <<<<5, 6, op.args[1]>>>>
         /\ OpcodeOf(op.name) \in 11 .. 13 =>
              Layout(op) = <<<<5, 11, op.args[1]>>, <<16, 16, op.args[2]>>>>
         /\ OpcodeOf(op.name) \in 14 .. 16 => Layout(op) = <<<<8, 24, op.args[2]>>>>
         /\ OpcodeOf(op.name) = 17 =>
              Layout(op) = <<<<21, 6, op.args[2]>>, <<27, 5, op.args[3]>>>>
         /\ OpcodeOf(op.name) \in 18 .. 20 /\ op.name = "WLDS" =>
              Layout(op) = <<<<5, 15, op.args[1]>>, <<20, 9, op.args[2]>>, <<29, 1, op.args[3]>>>>
         /\ OpcodeOf(op.name) \in 18 .. 20 /\ op.name = "WLDR" =>
              Layout(op) = <<<<5, 2, op.args[1]>>, <<13, 16, op.args[3]>>, <<29, 1, op.args[4]>>,
                             <<30, 2, op.args[5]>>>>
         /\ OpcodeOf(op.name) \in 18 .. 20 /\ op.name = "JAM" =>
              Layout(op) = <<<<5, 1, op.args[1]>>, <<6, 25, op.args[2]>>>>
         /\ OpcodeOf(op.name) \in 18 .. 20 /\ op.name \notin {"WLDS", "WLDR", "JAM"} =>
              Layout(op) = <<<<5, 16, op.args[1]>>, <<21, 2, op.args[2]>>, <<23, 1, op.args[3]>>,
                             <<24, 6, op.args[4]>>, <<30, 2, op.args[5]>>>>
<1> DEFINE k == OpcodeOf(op.name)
           x == op.name
           a == op.args
<1>1. Layout(op) =
        CASE k <= 3         -> <<<<5, 16, a[1]>>, <<21, 11, a[2]>>>>
          [] k \in 4 .. 9   -> <<<<5, 6, a[1]>>, <<16, 16, a[3]>>>>
          [] k = 10         -> <<<<5, 6, a[1]>>>>
          [] k \in 11 .. 13 -> <<<<5, 11, a[1]>>, <<16, 16, a[2]>>>>
          [] k \in 14 .. 16 -> <<<<8, 24, a[2]>>>>
          [] k = 17         -> <<<<21, 6, a[2]>>, <<27, 5, a[3]>>>>
          [] x = "WLDS"     -> <<<<5, 15, a[1]>>, <<20, 9, a[2]>>, <<29, 1, a[3]>>>>
          [] x = "WLDR"     -> <<<<5, 2, a[1]>>, <<13, 16, a[3]>>, <<29, 1, a[4]>>, <<30, 2, a[5]>>>>
          [] x = "JAM"      -> <<<<5, 1, a[1]>>, <<6, 25, a[2]>>>>
          [] OTHER -> <<<<5, 16, a[1]>>, <<21, 2, a[2]>>, <<23, 1, a[3]>>, <<24, 6, a[4]>>, <<30, 2, a[5]>>>>
  BY DEF Layout
<1>0. k <= 17 => x # "WLDS" /\ x # "WLDR" /\ x # "JAM"
  <2>1. Mnemonic(18) = "WLDR" /\ Mnemonic(19) = "JAM"
    BY MnemonicOf
  <2>2. OpcodeOf(Mnemonic(18)) = 18 /\ OpcodeOf(Mnemonic(19)) = 19
    BY OpcodeOfMnemonic
  <2>3. OpcodeOf("WLDS") = 18 /\ OpcodeOf("WLDR") = 18 /\ OpcodeOf("JAM") = 19
    BY <2>1, <2>2, OpcodeOfAlias
  <2> QED BY <2>3
<1> HIDE DEF k, x, a
<1>2. ASSUME k \in 0 .. 3
      PROVE  Layout(op) = <<<<5, 16, a[1]>>, <<21, 11, a[2]>>>>
  BY <1>0, <1>1, <1>2, SMT
<1>3. ASSUME k \in 4 .. 9
      PROVE  Layout(op) = <<<<5, 6, a[1]>>, <<16, 16, a[3]>>>>
  BY <1>0, <1>1, <1>3, SMT
<1>4. ASSUME k = 10
      PROVE  Layout(op) = <<<<5, 6, a[1]>>>>
  BY <1>0, <1>1, <1>4, SMT
<1>5. ASSUME k \in 11 .. 13
      PROVE  Layout(op) = <<<<5, 11, a[1]>>, <<16, 16, a[2]>>>>
  BY <1>0, <1>1, <1>5, SMT
<1>6. ASSUME k \in 14 .. 16
      PROVE  Layout(op) = <<<<8, 24, a[2]>>>>
  BY <1>0, <1>1, <1>6, SMT
<1>7. ASSUME k = 17
      PROVE  Layout(op) = <<<<21, 6, a[2]>>, <<27, 5, a[3]>>>>
  BY <1>0, <1>1, <1>7, SMT
<1>8. ASSUME k \in 18 .. 20, x = "WLDS"
      PROVE  Layout(op) = <<<<5, 15, a[1]>>, <<20, 9, a[2]>>, <<29, 1, a[3]>>>>
  BY <1>1, <1>8, SMT
<1>9. ASSUME k \in 18 .. 20, x = "WLDR"
      PROVE  Layout(op) = <<<<5, 2, a[1]>>, <<13, 16, a[3]>>, <<29, 1, a[4]>>, <<30, 2, a[5]>>>>
  BY <1>1, <1>9, SMT
<1>10. ASSUME k \in 18 .. 20, x = "JAM"
      PROVE  Layout(op) = <<<<5, 1, a[1]>>, <<6, 25, a[2]>>>>
  BY <1>1, <1>10, SMT
<1>11. ASSUME k \in 18 .. 20, x # "WLDS", x # "WLDR", x # "JAM"
      PROVE  Layout(op) = <<<<5, 16, a[1]>>, <<21, 2, a[2]>>, <<23, 1, a[3]>>, <<24, 6, a[4]>>, <<30, 2, a[5]>>>>
  BY <1>1, <1>11, SMT
<1> QED BY <1>2, <1>3, <1>4, <1>5, <1>6, <1>7, <1>8, <1>9, <1>10, <1>11 DEF k, x, a

LEMMA EncodeOf ==
  ASSUME NEW w \in Int32, w % 32 <= 20, NEW fields, Layout(DecodeOp(w)) = fields
  PROVE  Encode(DecodeOp(w)) = Word(w % 32, fields)
<1>1. w \in Int
  BY SMT DEF Int32
<1> QED BY <1>1, OpcodeBack, Zenon DEF Encode

\* What is cleared is the unused field.
LEMMA ClearedOf ==
  ASSUME NEW w \in Int, NEW bit, NEW len, UnusedBits(BasicName(w)) = <<bit, len>>,
         NEW p \in Int, p = Placed(bit, len, Bits(w \div 2, bit - 1, len))
  PROVE  Cleared(w) = w - p
<1> DEFINE u == UnusedBits(BasicName(w))
           f == <<u[1], u[2], Bits(w \div 2, u[1] - 1, u[2])>>
<1>1. u[1] = bit /\ u[2] = len
  OBVIOUS
<1>2. Cleared(w) = w - Word(0, <<f>>)
  BY Zenon DEF Cleared
<1>3. p = Field(f)
  BY <1>1 DEF Field
<1> HIDE DEF f
<1>4. Word(0, <<f>>) = 0 + p
  BY <1>3, WordOf1
<1> QED BY <1>2, <1>4

LEMMA UnusedBitsOf ==
  ASSUME NEW name
  PROVE  /\ name \in Delays \cup Scales \cup {"WLDS", "CHO"} => UnusedBits(name) = <<5, 0>>
         /\ name \in Regs => UnusedBits(name) = <<11, 5>>
         /\ name = "MULX" => UnusedBits(name) = <<11, 21>>
         /\ name \in Masks => UnusedBits(name) = <<5, 3>>
         /\ name = "SKP" => UnusedBits(name) = <<5, 16>>
         /\ name = "WLDR" => UnusedBits(name) = <<7, 6>>
         /\ name = "JAM" => UnusedBits(name) = <<31, 1>>
  BY DEF UnusedBits, Delays, Regs, Scales, Masks

LEMMA NothingUnused ==
  ASSUME NEW w \in Int32, UnusedBits(BasicName(w)) = <<5, 0>>
  PROVE  Cleared(w) = w
<1>1. w \in Int
  BY SMT DEF Int32
<1>2. Placed(5, 0, Bits(w \div 2, 5 - 1, 0)) = 0
  BY <1>1, SMT DEF Placed, Bits
<1>3. Cleared(w) = w - 0
  BY <1>1, <1>2, ClearedOf
<1> QED BY <1>1, <1>3

LEMMA PlainName ==
  ASSUME NEW w \in Int, BasicName(w) \in {"WLDS", "WLDR", "JAM"}
  PROVE  DecodeOp(w).name = BasicName(w)
<1> DEFINE n == BasicName(w)
           a == Args(w, n)
<1>1. DecodeOp(w).name = Alias(n, a) /\ n \in Names
  BY DecodeParts, OpcodeNamed
<1>2. n \notin {"RDFX", "CHO", "AND", "XOR", "MAXX", "SKP"}
  OBVIOUS
<1> HIDE DEF n, a
<1>3. Alias(n, a) = n
  BY <1>1, <1>2, AliasIs
<1> QED BY <1>1, <1>3 DEF n

LEMMA CHOName ==
  ASSUME NEW w \in Int, BasicName(w) = "CHO"
  PROVE  /\ DecodeOp(w).name \in {"CHO RDA", "CHO SOF", "CHO RDAL", "CHO <?>"}
         /\ DecodeOp(w).name = "CHO <?>" <=> Bits(w, 30, 2) = 1
         /\ DecodeOp(w).name \notin {"WLDS", "WLDR", "JAM"}
<1> DEFINE n == BasicName(w)
           a == Args(w, n)
<1>1. DecodeOp(w).name = Alias(n, a) /\ n \in Names
  BY DecodeParts, OpcodeNamed
<1>2. a[5] = Bits(w, 30, 2)
  BY ArgsCHO
<1>3. Bits(w, 30, 2) \in 0 .. 3
  BY SMT DEF Bits
<1>4. n = "CHO"
  OBVIOUS
<1> HIDE DEF n, a
<1>5. /\ Alias(n, a) \in {"CHO RDA", "CHO SOF", "CHO RDAL", "CHO <?>"}
      /\ Alias(n, a) = "CHO <?>" <=> a[5] = 1
  BY <1>1, <1>2, <1>3, <1>4, AliasIs
<1> QED BY <1>1, <1>2, <1>5

LEMMA EncodeDelays ==
  ASSUME NEW w \in Int32, w % 32 \in 0 .. 3, BasicName(w) \in Delays
  PROVE  Encode(DecodeOp(w)) = Cleared(w)
<1> DEFINE f1 == <<5, 16, Bits(w, 5, 16)>>
           f2 == <<21, 11, Bits(w, 21, 11)>>
           v1 == Bits(w, 5, 16) * 2^5
           v2 == (w \div 2^21) * 2^21
<1>0. w \in Int /\ w % 32 \in 0 .. 20 /\ w % 32 \in Int
  BY SMT DEF Int32
<1>1. Layout(DecodeOp(w)) = <<f1, f2>>
  <2>1. DecodeOp(w).args = <<Bits(w, 5, 16), Bits(w, 21, 11)>>
    BY DecodeParts, ArgsDelays, Zenon
  <2>2. DecodeOp(w).args[1] = Bits(w, 5, 16) /\ DecodeOp(w).args[2] = Bits(w, 21, 11)
    BY <2>1
  <2>3. OpcodeOf(DecodeOp(w).name) = w % 32
    BY <1>0, OpcodeBack
  <2>5. Layout(DecodeOp(w)) = <<<<5, 16, DecodeOp(w).args[1]>>, <<21, 11, DecodeOp(w).args[2]>>>>
    BY <2>3, LayoutOf
  <2> QED BY <2>2, <2>5, Zenon
<1>2. v1 \in Int /\ v2 \in Int
  BY <1>0, SMT DEF Bits
<1>3. v1 = Placed(5, 16, Bits(w, 5, 16)) /\ v2 = Placed(21, 11, Bits(w, 21, 11))
  BY SMT DEF Placed, Bits, Int32
<1>4. v1 = Field(f1) /\ v2 = Field(f2)
  BY <1>3 DEF Field
<1>5. Encode(DecodeOp(w)) = (w % 32) + v1 + v2
  <2> HIDE DEF f1, v1, f2, v2
  <2>1. Encode(DecodeOp(w)) = Word(w % 32, <<f1, f2>>)
    BY <1>0, <1>1, EncodeOf
  <2>2. Word(w % 32, <<f1, f2>>) = (w % 32) + v1 + v2
    BY <1>0, <1>2, <1>4, WordOf2
  <2> QED BY <2>1, <2>2
<1>6. /\ w = (w % 32) + 2^5 * (w \div 2^5)
      /\ w \div 2^5 = Bits(w, 5, 16) + 2^16 * (w \div 2^21)
  BY <1>0, SMT DEF Bits
<1>7. /\ w \div 2^5 \in Int
      /\ w \div 2^21 \in Int /\ Bits(w, 5, 16) \in Int
  BY <1>0, SMT DEF Bits
<1>8. (w % 32) + v1 + v2 = w
  <2> DEFINE o == w % 32
             q1 == w \div 2^5
             q2 == w \div 2^21
             b1 == Bits(w, 5, 16)
  <2>1. /\ w = o + 2^5 * q1
        /\ q1 = b1 + 2^16 * q2
    BY <1>6
  <2>2. /\ w \in Int /\ o \in Int /\ q1 \in Int /\ q2 \in Int
        /\ b1 \in Int
    BY <1>0, <1>7
  <2> HIDE DEF o, q1, q2, b1
  <2>3. o + b1 * 2^5 + q2 * 2^21 = w
    BY <2>1, <2>2, SMT
  <2> QED BY <2>3, Zenon DEF o, q1, q2, b1
<1>9. Cleared(w) = w
  BY UnusedBitsOf, NothingUnused
<1> QED BY <1>5, <1>8, <1>9

LEMMA EncodeRegs ==
  ASSUME NEW w \in Int32, w % 32 \in 4 .. 9, BasicName(w) \in Regs
  PROVE  Encode(DecodeOp(w)) = Cleared(w)
<1> DEFINE f1 == <<5, 6, Bits(w, 5, 6)>>
           f2 == <<16, 16, Bits(w, 16, 16)>>
           v1 == Bits(w, 5, 6) * 2^5
           v2 == (w \div 2^16) * 2^16
<1>0. w \in Int /\ w % 32 \in 0 .. 20 /\ w % 32 \in Int
  BY SMT DEF Int32
<1>1. Layout(DecodeOp(w)) = <<f1, f2>>
  <2>1. DecodeOp(w).args = <<Bits(w, 5, 6), 0, Bits(w, 16, 16)>>
    BY DecodeParts, ArgsRegs, Zenon
  <2>2. DecodeOp(w).args[1] = Bits(w, 5, 6) /\ DecodeOp(w).args[3] = Bits(w, 16, 16)
    BY <2>1
  <2>3. OpcodeOf(DecodeOp(w).name) = w % 32
    BY <1>0, OpcodeBack
  <2>5. Layout(DecodeOp(w)) = <<<<5, 6, DecodeOp(w).args[1]>>, <<16, 16, DecodeOp(w).args[3]>>>>
    BY <2>3, LayoutOf
  <2> QED BY <2>2, <2>5, Zenon
<1>2. v1 \in Int /\ v2 \in Int
  BY <1>0, SMT DEF Bits
<1>3. v1 = Placed(5, 6, Bits(w, 5, 6)) /\ v2 = Placed(16, 16, Bits(w, 16, 16))
  BY SMT DEF Placed, Bits, Int32
<1>4. v1 = Field(f1) /\ v2 = Field(f2)
  BY <1>3 DEF Field
<1>5. Encode(DecodeOp(w)) = (w % 32) + v1 + v2
  <2> HIDE DEF f1, v1, f2, v2
  <2>1. Encode(DecodeOp(w)) = Word(w % 32, <<f1, f2>>)
    BY <1>0, <1>1, EncodeOf
  <2>2. Word(w % 32, <<f1, f2>>) = (w % 32) + v1 + v2
    BY <1>0, <1>2, <1>4, WordOf2
  <2> QED BY <2>1, <2>2
<1>6. /\ w = (w % 32) + 2^5 * (w \div 2^5)
      /\ w \div 2^5 = Bits(w, 5, 6) + 2^6 * (w \div 2^11)
      /\ w \div 2^11 = Bits(w, 11, 5) + 2^5 * (w \div 2^16)
  BY <1>0, SMT DEF Bits
<1>7. /\ w \div 2^5 \in Int
      /\ w \div 2^11 \in Int /\ Bits(w, 5, 6) \in Int
      /\ w \div 2^16 \in Int /\ Bits(w, 11, 5) \in Int
  BY <1>0, SMT DEF Bits
<1>8. (w % 32) + v1 + v2 = w - Bits(w, 11, 5) * 2^11
  <2> DEFINE o == w % 32
             q1 == w \div 2^5
             q2 == w \div 2^11
             q3 == w \div 2^16
             b1 == Bits(w, 5, 6)
             b2 == Bits(w, 11, 5)
  <2>1. /\ w = o + 2^5 * q1
        /\ q1 = b1 + 2^6 * q2
        /\ q2 = b2 + 2^5 * q3
    BY <1>6
  <2>2. /\ w \in Int /\ o \in Int /\ q1 \in Int /\ q2 \in Int /\ q3 \in Int
        /\ b1 \in Int /\ b2 \in Int
    BY <1>0, <1>7
  <2> HIDE DEF o, q1, q2, q3, b1, b2
  <2>3. o + b1 * 2^5 + q3 * 2^16 = w - b2 * 2^11
    BY <2>1, <2>2, SMT
  <2> QED BY <2>3, Zenon DEF o, q1, q2, q3, b1, b2
<1>9. Cleared(w) = w - Bits(w, 11, 5) * 2^11
  <2>1. Bits(w \div 2, 11 - 1, 5) = Bits(w, 11, 5)
    BY <1>0, SMT DEF Bits
  <2>2. Bits(w, 11, 5) * 2^11 \in Int /\ Bits(w, 11, 5) * 2^11 = Placed(11, 5, Bits(w, 11, 5))
    BY <1>0, SMT DEF Bits, Placed, Int32
  <2> QED BY <1>0, <2>1, <2>2, UnusedBitsOf, ClearedOf
<1> QED BY <1>5, <1>8, <1>9

LEMMA EncodeMULX ==
  ASSUME NEW w \in Int32, w % 32 = 10, BasicName(w) = "MULX"
  PROVE  Encode(DecodeOp(w)) = Cleared(w)
<1> DEFINE f1 == <<5, 6, Bits(w, 5, 6)>>
           v1 == Bits(w, 5, 6) * 2^5
<1>0. w \in Int /\ w % 32 \in 0 .. 20 /\ w % 32 \in Int
  BY SMT DEF Int32
<1>1. Layout(DecodeOp(w)) = <<f1>>
  <2>1. DecodeOp(w).args = <<Bits(w, 5, 6), 0>>
    BY DecodeParts, ArgsMULX, Zenon
  <2>2. DecodeOp(w).args[1] = Bits(w, 5, 6)
    BY <2>1
  <2>3. OpcodeOf(DecodeOp(w).name) = w % 32
    BY <1>0, OpcodeBack
  <2>5. Layout(DecodeOp(w)) = <<<<5, 6, DecodeOp(w).args[1]>>>>
    BY <2>3, LayoutOf
  <2> QED BY <2>2, <2>5, Zenon
<1>2. v1 \in Int
  BY <1>0, SMT DEF Bits
<1>3. v1 = Placed(5, 6, Bits(w, 5, 6))
  BY SMT DEF Placed, Bits, Int32
<1>4. v1 = Field(f1)
  BY <1>3 DEF Field
<1>5. Encode(DecodeOp(w)) = (w % 32) + v1
  <2> HIDE DEF f1, v1
  <2>1. Encode(DecodeOp(w)) = Word(w % 32, <<f1>>)
    BY <1>0, <1>1, EncodeOf
  <2>2. Word(w % 32, <<f1>>) = (w % 32) + v1
    BY <1>0, <1>2, <1>4, WordOf1
  <2> QED BY <2>1, <2>2
<1>6. /\ w = (w % 32) + 2^5 * (w \div 2^5)
      /\ w \div 2^5 = Bits(w, 5, 6) + 2^6 * (w \div 2^11)
  BY <1>0, SMT DEF Bits
<1>7. /\ w \div 2^5 \in Int
      /\ w \div 2^11 \in Int /\ Bits(w, 5, 6) \in Int
  BY <1>0, SMT DEF Bits
<1>8. (w % 32) + v1 = w - (w \div 2^11) * 2^11
  <2> DEFINE o == w % 32
             q1 == w \div 2^5
             q2 == w \div 2^11
             b1 == Bits(w, 5, 6)
  <2>1. /\ w = o + 2^5 * q1
        /\ q1 = b1 + 2^6 * q2
    BY <1>6
  <2>2. /\ w \in Int /\ o \in Int /\ q1 \in Int /\ q2 \in Int
        /\ b1 \in Int
    BY <1>0, <1>7
  <2> HIDE DEF o, q1, q2, b1
  <2>3. o + b1 * 2^5 = w - q2 * 2^11
    BY <2>1, <2>2, SMT
  <2> QED BY <2>3, Zenon DEF o, q1, q2, b1
<1>9. Cleared(w) = w - (w \div 2^11) * 2^11
  <2>1. Bits(w \div 2, 11 - 1, 21) = Bits(w, 11, 21)
    BY <1>0, SMT DEF Bits
  <2>2. (w \div 2^11) * 2^11 \in Int /\ (w \div 2^11) * 2^11 = Placed(11, 21, Bits(w, 11, 21))
    BY <1>0, SMT DEF Bits, Placed, Int32
  <2> QED BY <1>0, <2>1, <2>2, UnusedBitsOf, ClearedOf
<1> QED BY <1>5, <1>8, <1>9

LEMMA EncodeScales ==
  ASSUME NEW w \in Int32, w % 32 \in 11 .. 13, BasicName(w) \in Scales
  PROVE  Encode(DecodeOp(w)) = Cleared(w)
<1> DEFINE f1 == <<5, 11, Bits(w, 5, 11)>>
           f2 == <<16, 16, Bits(w, 16, 16)>>
           v1 == Bits(w, 5, 11) * 2^5
           v2 == (w \div 2^16) * 2^16
<1>0. w \in Int /\ w % 32 \in 0 .. 20 /\ w % 32 \in Int
  BY SMT DEF Int32
<1>1. Layout(DecodeOp(w)) = <<f1, f2>>
  <2>1. DecodeOp(w).args = <<Bits(w, 5, 11), Bits(w, 16, 16)>>
    BY DecodeParts, ArgsScales, Zenon
  <2>2. DecodeOp(w).args[1] = Bits(w, 5, 11) /\ DecodeOp(w).args[2] = Bits(w, 16, 16)
    BY <2>1
  <2>3. OpcodeOf(DecodeOp(w).name) = w % 32
    BY <1>0, OpcodeBack
  <2>5. Layout(DecodeOp(w)) = <<<<5, 11, DecodeOp(w).args[1]>>, <<16, 16, DecodeOp(w).args[2]>>>>
    BY <2>3, LayoutOf
  <2> QED BY <2>2, <2>5, Zenon
<1>2. v1 \in Int /\ v2 \in Int
  BY <1>0, SMT DEF Bits
<1>3. v1 = Placed(5, 11, Bits(w, 5, 11)) /\ v2 = Placed(16, 16, Bits(w, 16, 16))
  BY SMT DEF Placed, Bits, Int32
<1>4. v1 = Field(f1) /\ v2 = Field(f2)
  BY <1>3 DEF Field
<1>5. Encode(DecodeOp(w)) = (w % 32) + v1 + v2
  <2> HIDE DEF f1, v1, f2, v2
  <2>1. Encode(DecodeOp(w)) = Word(w % 32, <<f1, f2>>)
    BY <1>0, <1>1, EncodeOf
  <2>2. Word(w % 32, <<f1, f2>>) = (w % 32) + v1 + v2
    BY <1>0, <1>2, <1>4, WordOf2
  <2> QED BY <2>1, <2>2
<1>6. /\ w = (w % 32) + 2^5 * (w \div 2^5)
      /\ w \div 2^5 = Bits(w, 5, 11) + 2^11 * (w \div 2^16)
  BY <1>0, SMT DEF Bits
<1>7. /\ w \div 2^5 \in Int
      /\ w \div 2^16 \in Int /\ Bits(w, 5, 11) \in Int
  BY <1>0, SMT DEF Bits
<1>8. (w % 32) + v1 + v2 = w
  <2> DEFINE o == w % 32
             q1 == w \div 2^5
             q2 == w \div 2^16
             b1 == Bits(w, 5, 11)
  <2>1. /\ w = o + 2^5 * q1
        /\ q1 = b1 + 2^11 * q2
    BY <1>6
  <2>2. /\ w \in Int /\ o \in Int /\ q1 \in Int /\ q2 \in Int
        /\ b1 \in Int
    BY <1>0, <1>7
  <2> HIDE DEF o, q1, q2, b1
  <2>3. o + b1 * 2^5 + q2 * 2^16 = w
    BY <2>1, <2>2, SMT
  <2> QED BY <2>3, Zenon DEF o, q1, q2, b1
<1>9. Cleared(w) = w
  BY UnusedBitsOf, NothingUnused
<1> QED BY <1>5, <1>8, <1>9

LEMMA EncodeMasks ==
  ASSUME NEW w \in Int32, w % 32 \in 14 .. 16, BasicName(w) \in Masks
  PROVE  Encode(DecodeOp(w)) = Cleared(w)
<1> DEFINE f1 == <<8, 24, w \div 2^8>>
           v1 == (w \div 2^8) * 2^8
<1>0. w \in Int /\ w % 32 \in 0 .. 20 /\ w % 32 \in Int
  BY SMT DEF Int32
<1>1. Layout(DecodeOp(w)) = <<f1>>
  <2>1. DecodeOp(w).args = <<0, w \div 2^8>>
    BY DecodeParts, ArgsMasks, Zenon
  <2>2. DecodeOp(w).args[2] = w \div 2^8
    BY <2>1
  <2>3. OpcodeOf(DecodeOp(w).name) = w % 32
    BY <1>0, OpcodeBack
  <2>5. Layout(DecodeOp(w)) = <<<<8, 24, DecodeOp(w).args[2]>>>>
    BY <2>3, LayoutOf
  <2> QED BY <2>2, <2>5, Zenon
<1>2. v1 \in Int
  BY <1>0, SMT DEF Bits
<1>3. v1 = Placed(8, 24, w \div 2^8)
  BY SMT DEF Placed, Bits, Int32
<1>4. v1 = Field(f1)
  BY <1>3 DEF Field
<1>5. Encode(DecodeOp(w)) = (w % 32) + v1
  <2> HIDE DEF f1, v1
  <2>1. Encode(DecodeOp(w)) = Word(w % 32, <<f1>>)
    BY <1>0, <1>1, EncodeOf
  <2>2. Word(w % 32, <<f1>>) = (w % 32) + v1
    BY <1>0, <1>2, <1>4, WordOf1
  <2> QED BY <2>1, <2>2
<1>6. /\ w = (w % 32) + 2^5 * (w \div 2^5)
      /\ w \div 2^5 = Bits(w, 5, 3) + 2^3 * (w \div 2^8)
  BY <1>0, SMT DEF Bits
<1>7. /\ w \div 2^5 \in Int
      /\ w \div 2^8 \in Int /\ Bits(w, 5, 3) \in Int
  BY <1>0, SMT DEF Bits
<1>8. (w % 32) + v1 = w - Bits(w, 5, 3) * 2^5
  <2> DEFINE o == w % 32
             q1 == w \div 2^5
             q2 == w \div 2^8
             b1 == Bits(w, 5, 3)
  <2>1. /\ w = o + 2^5 * q1
        /\ q1 = b1 + 2^3 * q2
    BY <1>6
  <2>2. /\ w \in Int /\ o \in Int /\ q1 \in Int /\ q2 \in Int
        /\ b1 \in Int
    BY <1>0, <1>7
  <2> HIDE DEF o, q1, q2, b1
  <2>3. o + q2 * 2^8 = w - b1 * 2^5
    BY <2>1, <2>2, SMT
  <2> QED BY <2>3, Zenon DEF o, q1, q2, b1
<1>9. Cleared(w) = w - Bits(w, 5, 3) * 2^5
  <2>1. Bits(w \div 2, 5 - 1, 3) = Bits(w, 5, 3)
    BY <1>0, SMT DEF Bits
  <2>2. Bits(w, 5, 3) * 2^5 \in Int /\ Bits(w, 5, 3) * 2^5 = Placed(5, 3, Bits(w, 5, 3))
    BY <1>0, SMT DEF Bits, Placed, Int32
  <2> QED BY <1>0, <2>1, <2>2, UnusedBitsOf, ClearedOf
<1> QED BY <1>5, <1>8, <1>9

LEMMA EncodeSKP ==
  ASSUME NEW w \in Int32, w % 32 = 17, BasicName(w) = "SKP"
  PROVE  Encode(DecodeOp(w)) = Cleared(w)
<1> DEFINE f1 == <<21, 6, Bits(w, 21, 6)>>
           f2 == <<27, 5, Bits(w, 27, 5)>>
           v1 == Bits(w, 21, 6) * 2^21
           v2 == (w \div 2^27) * 2^27
<1>0. w \in Int /\ w % 32 \in 0 .. 20 /\ w % 32 \in Int
  BY SMT DEF Int32
<1>1. Layout(DecodeOp(w)) = <<f1, f2>>
  <2>1. DecodeOp(w).args = <<0, Bits(w, 21, 6), Bits(w, 27, 5)>>
    BY DecodeParts, ArgsSKP, Zenon
  <2>2. DecodeOp(w).args[2] = Bits(w, 21, 6) /\ DecodeOp(w).args[3] = Bits(w, 27, 5)
    BY <2>1
  <2>3. OpcodeOf(DecodeOp(w).name) = w % 32
    BY <1>0, OpcodeBack
  <2>5. Layout(DecodeOp(w)) = <<<<21, 6, DecodeOp(w).args[2]>>, <<27, 5, DecodeOp(w).args[3]>>>>
    BY <2>3, LayoutOf
  <2> QED BY <2>2, <2>5, Zenon
<1>2. v1 \in Int /\ v2 \in Int
  BY <1>0, SMT DEF Bits
<1>3. v1 = Placed(21, 6, Bits(w, 21, 6)) /\ v2 = Placed(27, 5, Bits(w, 27, 5))
  BY SMT DEF Placed, Bits, Int32
<1>4. v1 = Field(f1) /\ v2 = Field(f2)
  BY <1>3 DEF Field
<1>5. Encode(DecodeOp(w)) = (w % 32) + v1 + v2
  <2> HIDE DEF f1, v1, f2, v2
  <2>1. Encode(DecodeOp(w)) = Word(w % 32, <<f1, f2>>)
    BY <1>0, <1>1, EncodeOf
  <2>2. Word(w % 32, <<f1, f2>>) = (w % 32) + v1 + v2
    BY <1>0, <1>2, <1>4, WordOf2
  <2> QED BY <2>1, <2>2
<1>6. /\ w = (w % 32) + 2^5 * (w \div 2^5)
      /\ w \div 2^5 = Bits(w, 5, 16) + 2^16 * (w \div 2^21)
      /\ w \div 2^21 = Bits(w, 21, 6) + 2^6 * (w \div 2^27)
  BY <1>0, SMT DEF Bits
<1>7. /\ w \div 2^5 \in Int
      /\ w \div 2^21 \in Int /\ Bits(w, 5, 16) \in Int
      /\ w \div 2^27 \in Int /\ Bits(w, 21, 6) \in Int
  BY <1>0, SMT DEF Bits
<1>8. (w % 32) + v1 + v2 = w - Bits(w, 5, 16) * 2^5
  <2> DEFINE o == w % 32
             q1 == w \div 2^5
             q2 == w \div 2^21
             q3 == w \div 2^27
             b1 == Bits(w, 5, 16)
             b2 == Bits(w, 21, 6)
  <2>1. /\ w = o + 2^5 * q1
        /\ q1 = b1 + 2^16 * q2
        /\ q2 = b2 + 2^6 * q3
    BY <1>6
  <2>2. /\ w \in Int /\ o \in Int /\ q1 \in Int /\ q2 \in Int /\ q3 \in Int
        /\ b1 \in Int /\ b2 \in Int
    BY <1>0, <1>7
  <2> HIDE DEF o, q1, q2, q3, b1, b2
  <2>3. o + b2 * 2^21 + q3 * 2^27 = w - b1 * 2^5
    BY <2>1, <2>2, SMT
  <2> QED BY <2>3, Zenon DEF o, q1, q2, q3, b1, b2
<1>9. Cleared(w) = w - Bits(w, 5, 16) * 2^5
  <2>1. Bits(w \div 2, 5 - 1, 16) = Bits(w, 5, 16)
    BY <1>0, SMT DEF Bits
  <2>2. Bits(w, 5, 16) * 2^5 \in Int /\ Bits(w, 5, 16) * 2^5 = Placed(5, 16, Bits(w, 5, 16))
    BY <1>0, SMT DEF Bits, Placed, Int32
  <2> QED BY <1>0, <2>1, <2>2, UnusedBitsOf, ClearedOf
<1> QED BY <1>5, <1>8, <1>9

LEMMA EncodeWLDS ==
  ASSUME NEW w \in Int32, w % 32 = 18, BasicName(w) = "WLDS"
  PROVE  Encode(DecodeOp(w)) = Cleared(w)
<1> DEFINE f1 == <<5, 15, Bits(w, 5, 15)>>
           f2 == <<20, 9, Bits(w, 20, 9)>>
           f3 == <<29, 1, Bits(w, 29, 1)>>
           v1 == Bits(w, 5, 15) * 2^5
           v2 == Bits(w, 20, 9) * 2^20
           v3 == Bits(w, 29, 1) * 2^29
<1>0. w \in Int /\ w % 32 \in 0 .. 20 /\ w % 32 \in Int
  BY SMT DEF Int32
<1>1. Layout(DecodeOp(w)) = <<f1, f2, f3>>
  <2>1. DecodeOp(w).args = <<Bits(w, 5, 15), Bits(w, 20, 9), Bits(w, 29, 1), Bits(w, 30, 2)>>
    BY DecodeParts, ArgsWLDS, Zenon
  <2>2. /\ DecodeOp(w).args[1] = Bits(w, 5, 15)
        /\ DecodeOp(w).args[2] = Bits(w, 20, 9)
        /\ DecodeOp(w).args[3] = Bits(w, 29, 1)
    BY <2>1
  <2>3. OpcodeOf(DecodeOp(w).name) = w % 32
    BY <1>0, OpcodeBack
  <2>4. DecodeOp(w).name = "WLDS" /\ OpcodeOf(DecodeOp(w).name) \in 18 .. 20
    BY <1>0, <2>3, PlainName
  <2>5. Layout(DecodeOp(w)) =
            <<<<5, 15, DecodeOp(w).args[1]>>,
              <<20, 9, DecodeOp(w).args[2]>>,
              <<29, 1, DecodeOp(w).args[3]>>>>
    BY <2>4, LayoutOf
  <2> QED BY <2>2, <2>5, Zenon
<1>2. v1 \in Int /\ v2 \in Int /\ v3 \in Int
  BY <1>0, SMT DEF Bits
<1>3. /\ v1 = Placed(5, 15, Bits(w, 5, 15))
      /\ v2 = Placed(20, 9, Bits(w, 20, 9))
      /\ v3 = Placed(29, 1, Bits(w, 29, 1))
  BY SMT DEF Placed, Bits, Int32
<1>4. v1 = Field(f1) /\ v2 = Field(f2) /\ v3 = Field(f3)
  BY <1>3 DEF Field
<1>5. Encode(DecodeOp(w)) = (w % 32) + v1 + v2 + v3
  <2> HIDE DEF f1, v1, f2, v2, f3, v3
  <2>1. Encode(DecodeOp(w)) = Word(w % 32, <<f1, f2, f3>>)
    BY <1>0, <1>1, EncodeOf
  <2>2. Word(w % 32, <<f1, f2, f3>>) = (w % 32) + v1 + v2 + v3
    BY <1>0, <1>2, <1>4, WordOf3
  <2> QED BY <2>1, <2>2
<1>6. /\ w = (w % 32) + 2^5 * (w \div 2^5)
      /\ w \div 2^5 = Bits(w, 5, 15) + 2^15 * (w \div 2^20)
      /\ w \div 2^20 = Bits(w, 20, 9) + 2^9 * (w \div 2^29)
      /\ w \div 2^29 = Bits(w, 29, 1) + 2^1 * (w \div 2^30)
  BY <1>0, SMT DEF Bits
<1>7. /\ w \div 2^5 \in Int
      /\ w \div 2^20 \in Int /\ Bits(w, 5, 15) \in Int
      /\ w \div 2^29 \in Int /\ Bits(w, 20, 9) \in Int
      /\ w \div 2^30 \in Int /\ Bits(w, 29, 1) \in Int
  BY <1>0, SMT DEF Bits
<1>8. (w % 32) + v1 + v2 + v3 = w
  <2> DEFINE o == w % 32
             q1 == w \div 2^5
             q2 == w \div 2^20
             q3 == w \div 2^29
             q4 == w \div 2^30
             b1 == Bits(w, 5, 15)
             b2 == Bits(w, 20, 9)
             b3 == Bits(w, 29, 1)
  <2>1. /\ w = o + 2^5 * q1
        /\ q1 = b1 + 2^15 * q2
        /\ q2 = b2 + 2^9 * q3
        /\ q3 = b3 + 2^1 * q4
    BY <1>6
  <2>2. /\ w \in Int /\ o \in Int /\ q1 \in Int /\ q2 \in Int /\ q3 \in Int /\ q4 \in Int
        /\ b1 \in Int /\ b2 \in Int /\ b3 \in Int
    BY <1>0, <1>7
  <2>4. Bits(w, 30, 2) = 0
    BY <1>0, NameOf
  <2>5. q4 = 0
    BY <2>4, SMT DEF Bits, Int32
  <2> HIDE DEF o, q1, q2, q3, q4, b1, b2, b3
  <2>3. o + b1 * 2^5 + b2 * 2^20 + b3 * 2^29 = w
    BY <2>1, <2>2, <2>5, SMT
  <2> QED BY <2>3, Zenon DEF o, q1, q2, q3, q4, b1, b2, b3
<1>9. Cleared(w) = w
  BY UnusedBitsOf, NothingUnused
<1> QED BY <1>5, <1>8, <1>9

LEMMA EncodeWLDR ==
  ASSUME NEW w \in Int32, w % 32 = 18, BasicName(w) = "WLDR"
  PROVE  Encode(DecodeOp(w)) = Cleared(w)
<1> DEFINE f1 == <<5, 2, Bits(w, 5, 2)>>
           f2 == <<13, 16, Bits(w, 13, 16)>>
           f3 == <<29, 1, Bits(w, 29, 1)>>
           f4 == <<30, 2, Bits(w, 30, 2)>>
           v1 == Bits(w, 5, 2) * 2^5
           v2 == Bits(w, 13, 16) * 2^13
           v3 == Bits(w, 29, 1) * 2^29
           v4 == (w \div 2^30) * 2^30
<1>0. w \in Int /\ w % 32 \in 0 .. 20 /\ w % 32 \in Int
  BY SMT DEF Int32
<1>1. Layout(DecodeOp(w)) = <<f1, f2, f3, f4>>
  <2>1. DecodeOp(w).args = <<Bits(w, 5, 2), 0, Bits(w, 13, 16), Bits(w, 29, 1), Bits(w, 30, 2)>>
    BY DecodeParts, ArgsWLDR, Zenon
  <2>2. /\ DecodeOp(w).args[1] = Bits(w, 5, 2)
        /\ DecodeOp(w).args[3] = Bits(w, 13, 16)
        /\ DecodeOp(w).args[4] = Bits(w, 29, 1)
        /\ DecodeOp(w).args[5] = Bits(w, 30, 2)
    BY <2>1
  <2>3. OpcodeOf(DecodeOp(w).name) = w % 32
    BY <1>0, OpcodeBack
  <2>4. DecodeOp(w).name = "WLDR" /\ OpcodeOf(DecodeOp(w).name) \in 18 .. 20
    BY <1>0, <2>3, PlainName
  <2>5. Layout(DecodeOp(w)) =
            <<<<5, 2, DecodeOp(w).args[1]>>,
              <<13, 16, DecodeOp(w).args[3]>>,
              <<29, 1, DecodeOp(w).args[4]>>,
              <<30, 2, DecodeOp(w).args[5]>>>>
    BY <2>4, LayoutOf
  <2> QED BY <2>2, <2>5, Zenon
<1>2. v1 \in Int /\ v2 \in Int /\ v3 \in Int /\ v4 \in Int
  BY <1>0, SMT DEF Bits
<1>3. /\ v1 = Placed(5, 2, Bits(w, 5, 2))
      /\ v2 = Placed(13, 16, Bits(w, 13, 16))
      /\ v3 = Placed(29, 1, Bits(w, 29, 1))
      /\ v4 = Placed(30, 2, Bits(w, 30, 2))
  BY SMT DEF Placed, Bits, Int32
<1>4. v1 = Field(f1) /\ v2 = Field(f2) /\ v3 = Field(f3) /\ v4 = Field(f4)
  BY <1>3 DEF Field
<1>5. Encode(DecodeOp(w)) = (w % 32) + v1 + v2 + v3 + v4
  <2> HIDE DEF f1, v1, f2, v2, f3, v3, f4, v4
  <2>1. Encode(DecodeOp(w)) = Word(w % 32, <<f1, f2, f3, f4>>)
    BY <1>0, <1>1, EncodeOf
  <2>2. Word(w % 32, <<f1, f2, f3, f4>>) = (w % 32) + v1 + v2 + v3 + v4
    BY <1>0, <1>2, <1>4, WordOf4
  <2> QED BY <2>1, <2>2
<1>6. /\ w = (w % 32) + 2^5 * (w \div 2^5)
      /\ w \div 2^5 = Bits(w, 5, 2) + 2^2 * (w \div 2^7)
      /\ w \div 2^7 = Bits(w, 7, 6) + 2^6 * (w \div 2^13)
      /\ w \div 2^13 = Bits(w, 13, 16) + 2^16 * (w \div 2^29)
      /\ w \div 2^29 = Bits(w, 29, 1) + 2^1 * (w \div 2^30)
  BY <1>0, SMT DEF Bits
<1>7. /\ w \div 2^5 \in Int
      /\ w \div 2^7 \in Int /\ Bits(w, 5, 2) \in Int
      /\ w \div 2^13 \in Int /\ Bits(w, 7, 6) \in Int
      /\ w \div 2^29 \in Int /\ Bits(w, 13, 16) \in Int
      /\ w \div 2^30 \in Int /\ Bits(w, 29, 1) \in Int
  BY <1>0, SMT DEF Bits
<1>8. (w % 32) + v1 + v2 + v3 + v4 = w - Bits(w, 7, 6) * 2^7
  <2> DEFINE o == w % 32
             q1 == w \div 2^5
             q2 == w \div 2^7
             q3 == w \div 2^13
             q4 == w \div 2^29
             q5 == w \div 2^30
             b1 == Bits(w, 5, 2)
             b2 == Bits(w, 7, 6)
             b3 == Bits(w, 13, 16)
             b4 == Bits(w, 29, 1)
  <2>1. /\ w = o + 2^5 * q1
        /\ q1 = b1 + 2^2 * q2
        /\ q2 = b2 + 2^6 * q3
        /\ q3 = b3 + 2^16 * q4
        /\ q4 = b4 + 2^1 * q5
    BY <1>6
  <2>2. /\ w \in Int /\ o \in Int /\ q1 \in Int /\ q2 \in Int /\ q3 \in Int /\ q4 \in Int /\ q5 \in Int
        /\ b1 \in Int /\ b2 \in Int /\ b3 \in Int /\ b4 \in Int
    BY <1>0, <1>7
  <2> HIDE DEF o, q1, q2, q3, q4, q5, b1, b2, b3, b4
  <2>3. o + b1 * 2^5 + b3 * 2^13 + b4 * 2^29 + q5 * 2^30 = w - b2 * 2^7
    BY <2>1, <2>2, SMT
  <2> QED BY <2>3, Zenon DEF o, q1, q2, q3, q4, q5, b1, b2, b3, b4
<1>9. Cleared(w) = w - Bits(w, 7, 6) * 2^7
  <2>1. Bits(w \div 2, 7 - 1, 6) = Bits(w, 7, 6)
    BY <1>0, SMT DEF Bits
  <2>2. Bits(w, 7, 6) * 2^7 \in Int /\ Bits(w, 7, 6) * 2^7 = Placed(7, 6, Bits(w, 7, 6))
    BY <1>0, SMT DEF Bits, Placed, Int32
  <2> QED BY <1>0, <2>1, <2>2, UnusedBitsOf, ClearedOf
<1> QED BY <1>5, <1>8, <1>9

LEMMA EncodeJAM ==
  ASSUME NEW w \in Int32, w % 32 = 19, BasicName(w) = "JAM"
  PROVE  Encode(DecodeOp(w)) = Cleared(w)
<1> DEFINE f1 == <<5, 1, Bits(w, 5, 1)>>
           f2 == <<6, 25, Bits(w, 6, 25)>>
           v1 == Bits(w, 5, 1) * 2^5
           v2 == Bits(w, 6, 25) * 2^6
<1>0. w \in Int /\ w % 32 \in 0 .. 20 /\ w % 32 \in Int
  BY SMT DEF Int32
<1>1. Layout(DecodeOp(w)) = <<f1, f2>>
  <2>1. DecodeOp(w).args = <<Bits(w, 5, 1), Bits(w, 6, 25)>>
    BY DecodeParts, ArgsJAM, Zenon
  <2>2. DecodeOp(w).args[1] = Bits(w, 5, 1) /\ DecodeOp(w).args[2] = Bits(w, 6, 25)
    BY <2>1
  <2>3. OpcodeOf(DecodeOp(w).name) = w % 32
    BY <1>0, OpcodeBack
  <2>4. DecodeOp(w).name = "JAM" /\ OpcodeOf(DecodeOp(w).name) \in 18 .. 20
    BY <1>0, <2>3, PlainName
  <2>5. Layout(DecodeOp(w)) = <<<<5, 1, DecodeOp(w).args[1]>>, <<6, 25, DecodeOp(w).args[2]>>>>
    BY <2>4, LayoutOf
  <2> QED BY <2>2, <2>5, Zenon
<1>2. v1 \in Int /\ v2 \in Int
  BY <1>0, SMT DEF Bits
<1>3. v1 = Placed(5, 1, Bits(w, 5, 1)) /\ v2 = Placed(6, 25, Bits(w, 6, 25))
  BY SMT DEF Placed, Bits, Int32
<1>4. v1 = Field(f1) /\ v2 = Field(f2)
  BY <1>3 DEF Field
<1>5. Encode(DecodeOp(w)) = (w % 32) + v1 + v2
  <2> HIDE DEF f1, v1, f2, v2
  <2>1. Encode(DecodeOp(w)) = Word(w % 32, <<f1, f2>>)
    BY <1>0, <1>1, EncodeOf
  <2>2. Word(w % 32, <<f1, f2>>) = (w % 32) + v1 + v2
    BY <1>0, <1>2, <1>4, WordOf2
  <2> QED BY <2>1, <2>2
<1>6. /\ w = (w % 32) + 2^5 * (w \div 2^5)
      /\ w \div 2^5 = Bits(w, 5, 1) + 2^1 * (w \div 2^6)
      /\ w \div 2^6 = Bits(w, 6, 25) + 2^25 * (w \div 2^31)
  BY <1>0, SMT DEF Bits
<1>7. /\ w \div 2^5 \in Int
      /\ w \div 2^6 \in Int /\ Bits(w, 5, 1) \in Int
      /\ w \div 2^31 \in Int /\ Bits(w, 6, 25) \in Int
  BY <1>0, SMT DEF Bits
<1>8. (w % 32) + v1 + v2 = w - (w \div 2^31) * 2^31
  <2> DEFINE o == w % 32
             q1 == w \div 2^5
             q2 == w \div 2^6
             q3 == w \div 2^31
             b1 == Bits(w, 5, 1)
             b2 == Bits(w, 6, 25)
  <2>1. /\ w = o + 2^5 * q1
        /\ q1 = b1 + 2^1 * q2
        /\ q2 = b2 + 2^25 * q3
    BY <1>6
  <2>2. /\ w \in Int /\ o \in Int /\ q1 \in Int /\ q2 \in Int /\ q3 \in Int
        /\ b1 \in Int /\ b2 \in Int
    BY <1>0, <1>7
  <2> HIDE DEF o, q1, q2, q3, b1, b2
  <2>3. o + b1 * 2^5 + b2 * 2^6 = w - q3 * 2^31
    BY <2>1, <2>2, SMT
  <2> QED BY <2>3, Zenon DEF o, q1, q2, q3, b1, b2
<1>9. Cleared(w) = w - (w \div 2^31) * 2^31
  <2>1. Bits(w \div 2, 31 - 1, 1) = Bits(w, 31, 1)
    BY <1>0, SMT DEF Bits
  <2>2. (w \div 2^31) * 2^31 \in Int /\ (w \div 2^31) * 2^31 = Placed(31, 1, Bits(w, 31, 1))
    BY <1>0, SMT DEF Bits, Placed, Int32
  <2> QED BY <1>0, <2>1, <2>2, UnusedBitsOf, ClearedOf
<1> QED BY <1>5, <1>8, <1>9

LEMMA EncodeCHO ==
  ASSUME NEW w \in Int32, w % 32 = 20, BasicName(w) = "CHO"
  PROVE  Encode(DecodeOp(w)) = Cleared(w)
<1> DEFINE f1 == <<5, 16, Bits(w, 5, 16)>>
           f2 == <<21, 2, Bits(w, 21, 2)>>
           f3 == <<23, 1, Bits(w, 23, 1)>>
           f4 == <<24, 6, Bits(w, 24, 6)>>
           f5 == <<30, 2, Bits(w, 30, 2)>>
           v1 == Bits(w, 5, 16) * 2^5
           v2 == Bits(w, 21, 2) * 2^21
           v3 == Bits(w, 23, 1) * 2^23
           v4 == Bits(w, 24, 6) * 2^24
           v5 == (w \div 2^30) * 2^30
<1>0. w \in Int /\ w % 32 \in 0 .. 20 /\ w % 32 \in Int
  BY SMT DEF Int32
<1>1. Layout(DecodeOp(w)) = <<f1, f2, f3, f4, f5>>
  <2>1. DecodeOp(w).args = <<Bits(w, 5, 16), Bits(w, 21, 2), Bits(w, 23, 1), Bits(w, 24, 6), Bits(w, 30, 2)>>
    BY DecodeParts, ArgsCHO, Zenon
  <2>2. /\ DecodeOp(w).args[1] = Bits(w, 5, 16)
        /\ DecodeOp(w).args[2] = Bits(w, 21, 2)
        /\ DecodeOp(w).args[3] = Bits(w, 23, 1)
        /\ DecodeOp(w).args[4] = Bits(w, 24, 6)
        /\ DecodeOp(w).args[5] = Bits(w, 30, 2)
    BY <2>1
  <2>3. OpcodeOf(DecodeOp(w).name) = w % 32
    BY <1>0, OpcodeBack
  <2>4. DecodeOp(w).name \notin {"WLDS", "WLDR", "JAM"} /\ OpcodeOf(DecodeOp(w).name) \in 18 .. 20
    <3>1. DecodeOp(w).name \notin {"WLDS", "WLDR", "JAM"}
      BY <1>0, CHOName
    <3> QED BY <2>3, <3>1
  <2>5. Layout(DecodeOp(w)) =
            <<<<5, 16, DecodeOp(w).args[1]>>,
              <<21, 2, DecodeOp(w).args[2]>>,
              <<23, 1, DecodeOp(w).args[3]>>,
              <<24, 6, DecodeOp(w).args[4]>>,
              <<30, 2, DecodeOp(w).args[5]>>>>
    BY <2>4, LayoutOf
  <2> QED BY <2>2, <2>5, Zenon
<1>2. v1 \in Int /\ v2 \in Int /\ v3 \in Int /\ v4 \in Int /\ v5 \in Int
  BY <1>0, SMT DEF Bits
<1>3. /\ v1 = Placed(5, 16, Bits(w, 5, 16))
      /\ v2 = Placed(21, 2, Bits(w, 21, 2))
      /\ v3 = Placed(23, 1, Bits(w, 23, 1))
      /\ v4 = Placed(24, 6, Bits(w, 24, 6))
      /\ v5 = Placed(30, 2, Bits(w, 30, 2))
  BY SMT DEF Placed, Bits, Int32
<1>4. v1 = Field(f1) /\ v2 = Field(f2) /\ v3 = Field(f3) /\ v4 = Field(f4) /\ v5 = Field(f5)
  BY <1>3 DEF Field
<1>5. Encode(DecodeOp(w)) = (w % 32) + v1 + v2 + v3 + v4 + v5
  <2> HIDE DEF f1, v1, f2, v2, f3, v3, f4, v4, f5, v5
  <2>1. Encode(DecodeOp(w)) = Word(w % 32, <<f1, f2, f3, f4, f5>>)
    BY <1>0, <1>1, EncodeOf
  <2>2. Word(w % 32, <<f1, f2, f3, f4, f5>>) = (w % 32) + v1 + v2 + v3 + v4 + v5
    BY <1>0, <1>2, <1>4, WordOf5
  <2> QED BY <2>1, <2>2
<1>6. /\ w = (w % 32) + 2^5 * (w \div 2^5)
      /\ w \div 2^5 = Bits(w, 5, 16) + 2^16 * (w \div 2^21)
      /\ w \div 2^21 = Bits(w, 21, 2) + 2^2 * (w \div 2^23)
      /\ w \div 2^23 = Bits(w, 23, 1) + 2^1 * (w \div 2^24)
      /\ w \div 2^24 = Bits(w, 24, 6) + 2^6 * (w \div 2^30)
  BY <1>0, SMT DEF Bits
<1>7. /\ w \div 2^5 \in Int
      /\ w \div 2^21 \in Int /\ Bits(w, 5, 16) \in Int
      /\ w \div 2^23 \in Int /\ Bits(w, 21, 2) \in Int
      /\ w \div 2^24 \in Int /\ Bits(w, 23, 1) \in Int
      /\ w \div 2^30 \in Int /\ Bits(w, 24, 6) \in Int
  BY <1>0, SMT DEF Bits
<1>8. (w % 32) + v1 + v2 + v3 + v4 + v5 = w
  <2> DEFINE o == w % 32
             q1 == w \div 2^5
             q2 == w \div 2^21
             q3 == w \div 2^23
             q4 == w \div 2^24
             q5 == w \div 2^30
             b1 == Bits(w, 5, 16)
             b2 == Bits(w, 21, 2)
             b3 == Bits(w, 23, 1)
             b4 == Bits(w, 24, 6)
  <2>1. /\ w = o + 2^5 * q1
        /\ q1 = b1 + 2^16 * q2
        /\ q2 = b2 + 2^2 * q3
        /\ q3 = b3 + 2^1 * q4
        /\ q4 = b4 + 2^6 * q5
    BY <1>6
  <2>2. /\ w \in Int /\ o \in Int /\ q1 \in Int /\ q2 \in Int /\ q3 \in Int /\ q4 \in Int /\ q5 \in Int
        /\ b1 \in Int /\ b2 \in Int /\ b3 \in Int /\ b4 \in Int
    BY <1>0, <1>7
  <2> HIDE DEF o, q1, q2, q3, q4, q5, b1, b2, b3, b4
  <2>3. o + b1 * 2^5 + b2 * 2^21 + b3 * 2^23 + b4 * 2^24 + q5 * 2^30 = w
    BY <2>1, <2>2, SMT
  <2> QED BY <2>3, Zenon DEF o, q1, q2, q3, q4, q5, b1, b2, b3, b4
<1>9. Cleared(w) = w
  BY UnusedBitsOf, NothingUnused
<1> QED BY <1>5, <1>8, <1>9

\* Every instruction is its word but for the bits that are no part of it.
LEMMA EncodeDecoded ==
  ASSUME NEW w \in Int32, w % 32 <= 20
  PROVE  Encode(DecodeOp(w)) = Cleared(w)
<1>0. w \in Int
  BY SMT DEF Int32
<1>1. w % 32 \in 0 .. 20
  BY <1>0, DivMod
<1>2. /\ w % 32 \in 0 .. 3 => BasicName(w) \in Delays
      /\ w % 32 \in 4 .. 9 => BasicName(w) \in Regs
      /\ w % 32 = 10 => BasicName(w) = "MULX"
      /\ w % 32 \in 11 .. 13 => BasicName(w) \in Scales
      /\ w % 32 \in 14 .. 16 => BasicName(w) \in Masks
      /\ w % 32 = 17 => BasicName(w) = "SKP"
      /\ w % 32 = 18 => BasicName(w) = "WLDS" \/ BasicName(w) = "WLDR"
      /\ w % 32 = 19 => BasicName(w) = "JAM"
      /\ w % 32 = 20 => BasicName(w) = "CHO"
  <2> DEFINE o == w % 32
             n == BasicName(w)
  <2> HIDE DEF o, n
  <2> QED BY <1>0, NameOf, Zenon DEF o, n
<1>3. CASE w % 32 \in 0 .. 3
  BY <1>2, <1>3, EncodeDelays
<1>4. CASE w % 32 \in 4 .. 9
  BY <1>2, <1>4, EncodeRegs
<1>5. CASE w % 32 = 10
  BY <1>2, <1>5, EncodeMULX
<1>6. CASE w % 32 \in 11 .. 13
  BY <1>2, <1>6, EncodeScales
<1>7. CASE w % 32 \in 14 .. 16
  BY <1>2, <1>7, EncodeMasks
<1>8. CASE w % 32 = 17
  BY <1>2, <1>8, EncodeSKP
<1>9. CASE w % 32 = 18
  BY <1>2, <1>9, EncodeWLDS, EncodeWLDR
<1>10. CASE w % 32 = 19
  BY <1>2, <1>10, EncodeJAM
<1>11. CASE w % 32 = 20
  BY <1>2, <1>11, EncodeCHO
<1>12. \/ w % 32 \in 0 .. 3 \/ w % 32 \in 4 .. 9 \/ w % 32 = 10 \/ w % 32 \in 11 .. 13
       \/ w % 32 \in 14 .. 16 \/ w % 32 = 17 \/ w % 32 = 18 \/ w % 32 = 19 \/ w % 32 = 20
  <2> DEFINE o == w % 32
  <2>1. o \in 0 .. 20
    BY <1>1
  <2> HIDE DEF o
  <2>2. \/ o \in 0 .. 3 \/ o \in 4 .. 9 \/ o = 10 \/ o \in 11 .. 13
        \/ o \in 14 .. 16 \/ o = 17 \/ o = 18 \/ o = 19 \/ o = 20
    BY <2>1
  <2> QED BY <2>2 DEF o
<1> QED BY <1>3, <1>4, <1>5, <1>6, <1>7, <1>8, <1>9, <1>10, <1>11, <1>12, Zenon

\* An opcode in use has a name ProcessSample can execute, but for one CHO.
LEMMA DecodedNames ==
  ASSUME NEW w \in Int, w % 32 <= 20
  PROVE  /\ DecodeOp(w).name \in OpTable \cup {"CHO <?>"}
         /\ DecodeOp(w).name = "CHO <?>" <=> w % 32 = 20 /\ Bits(w, 30, 2) = 1
<1> DEFINE n == BasicName(w)
           a == Args(w, n)
<1>1. DecodeOp(w).name = Alias(n, a) /\ n \in Names
  BY DecodeParts, OpcodeNamed
<1>2. n # ""
  <2>1. w % 32 \in 0 .. 20
    BY DivMod
  <2>2. n = Mnemonic(w % 32) \/ n = "WLDS"
    BY DEF BasicName
  <2>3. NumberOf(Mnemonic(w % 32)) = w % 32
    BY <2>1, Numbered
  <2>4. Mnemonic(w % 32) # ""
    <3> DEFINE o == w % 32
    <3>1. \/ o = 0 \/ o = 1 \/ o = 2 \/ o = 3 \/ o = 4 \/ o = 5 \/ o = 6
          \/ o = 7 \/ o = 8 \/ o = 9 \/ o = 10 \/ o = 11 \/ o = 12 \/ o = 13
          \/ o = 14 \/ o = 15 \/ o = 16 \/ o = 17 \/ o = 18 \/ o = 19 \/ o = 20
      BY <2>1
    <3> HIDE DEF o
    <3>2. Mnemonic(o) # ""
      BY <3>1, MnemonicOf, Zenon
    <3> QED BY <3>2 DEF o
  <2> QED BY <2>2, <2>4
<1>3. CASE n = "CHO"
  <2>1. /\ DecodeOp(w).name \in {"CHO RDA", "CHO SOF", "CHO RDAL", "CHO <?>"}
        /\ DecodeOp(w).name = "CHO <?>" <=> Bits(w, 30, 2) = 1
    BY <1>3, CHOName
  <2>2. w % 32 = 20
    <3>1. NumberOf("CHO") = 20
      BY SMT DEF NumberOf
    <3>2. w % 32 \in 0 .. 20
      BY DivMod
    <3>3. n = Mnemonic(w % 32)
      <4>1. n = Mnemonic(w % 32) \/ n = "WLDS"
        BY DEF BasicName
      <4> QED BY <1>3, <4>1
    <3>4. NumberOf(Mnemonic(w % 32)) = w % 32
      BY <3>2, Numbered
    <3> QED BY <1>3, <3>1, <3>3, <3>4, Zenon
  <2> QED BY <2>1, <2>2 DEF OpTable
<1>4. CASE n # "CHO"
  <2>1. w % 32 # 20
    BY <1>4, NameOf
  <2> HIDE DEF n, a
  <2>2. \/ Alias(n, a) = n
        \/ Alias(n, a) \in {"LDAX", "CLR", "NOT", "ABSA", "NOP"}
    <3>1. /\ n \notin {"RDFX", "CHO", "AND", "XOR", "MAXX", "SKP"} => Alias(n, a) = n
          /\ n = "RDFX" => Alias(n, a) \in {"RDFX", "LDAX"}
          /\ n = "AND" => Alias(n, a) \in {"AND", "CLR"}
          /\ n = "XOR" => Alias(n, a) \in {"XOR", "NOT"}
          /\ n = "MAXX" => Alias(n, a) \in {"MAXX", "ABSA"}
          /\ n = "SKP" => Alias(n, a) \in {"SKP", "NOP"}
      BY <1>1, AliasIs
    <3> QED BY <1>4, <3>1, Zenon
  <2>3. Alias(n, a) \in OpTable
    BY <1>1, <1>2, <1>4, <2>2 DEF Names, Delays, Regs, Scales, Masks, OpTable
  <2> QED BY <1>1, <2>1, <2>3 DEF OpTable
<1> QED BY <1>3, <1>4

LEMMA DecodedNothing ==
  ASSUME NEW w \in Int, w % 32 > 20
  PROVE  DecodeOp(w) = [name |-> "", args |-> <<>>]
<1>1. BasicName(w) = ""
  BY NameOf
<1>2. Args(w, "") = <<>>
  BY ArgsNone
<1>3. DecodeOp(w) = [name |-> Alias(BasicName(w), Args(w, BasicName(w))), args |-> Args(w, BasicName(w))]
  BY Zenon DEF DecodeOp, Args
<1>4. Alias("", <<>>) = ""
  BY SMT DEF Alias
<1> QED BY <1>1, <1>2, <1>3, <1>4, Zenon

\* Every instruction that runs, put back together by the assembler's layout, is its
\* word, for all 2^32 words: no two fields overlap, none is cut, none has another's sign.
THEOREM WordsReassemble == Spec => []Reassembles
<1>1. LoadInv => Reassembles
  <2> SUFFICES ASSUME LoadInv, stage = "run", NEW i \in DOMAIN ops
               PROVE  LET w == buf[Start + i]
                      IN  IF w % 32 > 20 THEN ops[i] = [name |-> "", args |-> <<>>]
                          ELSE /\ Encode(ops[i]) = Cleared(w)
                               /\ ops[i].name \in OpTable \cup {"CHO <?>"}
                               /\ ops[i].name = "CHO <?>" <=> w % 32 = 20 /\ Bits(w, 30, 2) = 1
    BY DEF Reassembles
  <2> DEFINE w == buf[Start + i]
  <2>1. ops[i] = DecodeOp(w) /\ w \in Int32
    <3>1. i \in 1 .. Len(ops)
      BY DEF LoadInv, LoadTypes
    <3>2. ops[i] = DecodeOp(buf[Start + i]) /\ Start + i \in 1 .. Len(buf) /\ buf \in Seq(Int32)
      BY <3>1 DEF LoadInv, Decoding, LoadTypes
    <3> QED BY <3>2
  <2> HIDE DEF w
  <2>2. w \in Int /\ w % 32 \in Int
    BY <2>1, SMT DEF Int32
  <2>3. CASE w % 32 > 20
    BY <2>1, <2>2, <2>3, DecodedNothing DEF w
  <2>4. CASE ~(w % 32 > 20)
    <3>1. w % 32 <= 20
      BY <2>2, <2>4
    <3>2. Encode(ops[i]) = Cleared(w)
      BY <2>1, <3>1, EncodeDecoded
    <3>3. /\ ops[i].name \in OpTable \cup {"CHO <?>"}
          /\ ops[i].name = "CHO <?>" <=> w % 32 = 20 /\ Bits(w, 30, 2) = 1
      BY <2>1, <2>2, <3>1, DecodedNames
    <3> QED BY <2>4, <3>2, <3>3, Zenon DEF w
  <2> QED BY <2>3, <2>4
<1> QED BY <1>1, LoadInvariant, PTL
=============================================================================
