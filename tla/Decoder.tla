------------------------------ MODULE Decoder -------------------------------
(***************************************************************************)
(* base.Ops and DecodeOp: the split of a 32-bit word into operands, and    *)
(* the names an instruction gets by its operands; the scans for pots, ADCs *)
(* and DACs in use.  A word is an int32, \div is Go's arithmetic >>.       *)
(***************************************************************************)
EXTENDS Integers, Sequences

Int32 == {n \in Int : -2147483647 - 1 <= n /\ n <= 2147483647}

\* Sums(start, terms)[k] is start and the first k terms.
Sums(start, terms) ==
  LET sum[k \in 0 .. Len(terms)] == IF k = 0 THEN start ELSE sum[k - 1] + terms[k]
  IN  sum

\* base.Ops, from opcode 0 on; the opcodes 21 to 31 give the empty Op.
Mnemonics ==
  <<"RDA", "RMPA", "WRA", "WRAP", "RDAX", "RDFX", "WRAX", "WRHX", "WRLX", "MAXX", "MULX",
    "LOG", "EXP", "SOF", "AND", "OR", "XOR", "SKP", "WLDR", "JAM", "CHO">>

Mnemonic(opcode) == IF opcode < Len(Mnemonics) THEN Mnemonics[opcode + 1] ELSE ""

Masks == {"AND", "OR", "XOR"}

\* Lengths of the arguments in bits, from bit 5 up.
ArgLens(name) ==
  CASE name \in {"RDA", "RMPA", "WRA", "WRAP"}                     -> <<16, 11>>
    [] name \in {"RDAX", "RDFX", "WRAX", "WRHX", "WRLX", "MAXX"}   -> <<6, 5, 16>>
    [] name = "MULX"                                               -> <<6, 21>>
    [] name \in {"LOG", "EXP", "SOF"}                              -> <<11, 16>>
    [] name \in Masks                                              -> <<4, 24>>
    [] name = "SKP"                                                -> <<16, 6, 5>>
    [] name = "WLDR"                                               -> <<2, 6, 16, 1, 2>>
    [] name = "WLDS"                                               -> <<15, 9, 1, 2>>
    [] name = "JAM"                                                -> <<1, 25>>
    [] name = "CHO"                                                -> <<16, 2, 1, 6, 2>>
    [] OTHER                                                       -> <<>>

\* The argument of type Blank.
BlankArg(name) ==
  CASE name \in {"RDAX", "RDFX", "WRAX", "WRHX", "WRLX", "MAXX", "MULX", "WLDR"} -> 2
    [] name \in Masks \cup {"SKP"} -> 1
    [] OTHER -> 0

\* Mutant: the blank bits are passed over without counting them.
BitPosUncounted(name, i) ==
  Sums(5, [j \in DOMAIN ArgLens(name) |-> IF j = BlankArg(name) THEN 0 ELSE ArgLens(name)[j]])[i - 1]

BitPos(name, i) == Sums(5, ArgLens(name))[i - 1]

Bits(w, pos, len) == (w \div 2^pos) % 2^len

\* Mutant: the masks are not signed.
ArgUnsigned(w, name, i) ==
  IF i = BlankArg(name) THEN 0
  ELSE IF name \in Masks THEN Bits(w, 8, 24)
  ELSE Bits(w, BitPos(name, i), ArgLens(name)[i])

\* The one argument of AND, OR and XOR is 24 bits, signed.
Arg(w, name, i) ==
  IF name \in Masks /\ i = 2 THEN w \div 2^8
  ELSE IF i = BlankArg(name) THEN 0
  ELSE Bits(w, BitPos(name, i), ArgLens(name)[i])

BasicName(w) ==
  IF w % 32 = 18 /\ Bits(w, 30, 2) = 0 THEN "WLDS" ELSE Mnemonic(w % 32)

\* Mutant: a gain of zero makes an LDAX of a WRAX too.
AliasOfRegs(name, args) ==
  CASE name \in {"RDFX", "WRAX"} /\ args[2] = 0 /\ args[3] = 0 -> "LDAX"
    [] name = "CHO" /\ args[5] = 0                  -> "CHO RDA"
    [] name = "CHO" /\ args[5] = 2                  -> "CHO SOF"
    [] name = "CHO" /\ args[5] = 3                  -> "CHO RDAL"
    [] name = "CHO" /\ args[5] = 1                  -> "CHO <?>"
    [] name = "AND" /\ args[2] = 0                  -> "CLR"
    [] name = "XOR" /\ args[2] = 16777208           -> "NOT"
    [] name = "MAXX" /\ args[1] = 0 /\ args[3] = 0  -> "ABSA"
    [] name = "SKP" /\ args[2] = 0 /\ args[3] = 0   -> "NOP"
    [] OTHER                                        -> name

Alias(name, args) ==
  CASE name = "RDFX" /\ args[2] = 0 /\ args[3] = 0  -> "LDAX"
    [] name = "CHO" /\ args[5] = 0                  -> "CHO RDA"
    [] name = "CHO" /\ args[5] = 2                  -> "CHO SOF"
    [] name = "CHO" /\ args[5] = 3                  -> "CHO RDAL"
    [] name = "CHO" /\ args[5] = 1                  -> "CHO <?>"
    [] name = "AND" /\ args[2] = 0                  -> "CLR"
    [] name = "XOR" /\ args[2] = 16777208           -> "NOT"      \* 0xFFFFF8
    [] name = "MAXX" /\ args[1] = 0 /\ args[3] = 0  -> "ABSA"
    [] name = "SKP" /\ args[2] = 0 /\ args[3] = 0   -> "NOP"
    [] OTHER                                        -> name

DecodeOp(w) ==
  LET name == BasicName(w)
      args == [i \in DOMAIN ArgLens(name) |-> Arg(w, name, i)]
  IN  [name |-> Alias(name, args), args |-> args]

-----------------------------------------------------------------------------
(* What a program uses, as far as the scans of main see *)

POT0 == 16
POT1 == 17
POT2 == 18
ADCL == 20
ADCR == 21
DACL == 22
DACR == 23

RegsOf(ops, names) == {ops[i].args[1] : i \in {j \in DOMAIN ops : ops[j].name \in names}}

PotensiometersInUse(ops) == RegsOf(ops, {"RDAX", "MULX", "LDAX"}) \cap {POT0, POT1, POT2}

ADCsInUse(ops) == RegsOf(ops, {"RDAX", "LDAX", "MULX"}) \cap {ADCL, ADCR}

DACsInUse(ops) == RegsOf(ops, {"WRAX"}) \cap {DACL, DACR}

-----------------------------------------------------------------------------
(* Instructions put back together *)

\* The keys of opTable: the names ProcessSample can execute.
OpTable ==
  {"RDA", "RMPA", "WRA", "WRAP", "RDAX", "RDFX", "LDAX", "WRAX", "WRHX", "WRLX", "MAXX", "ABSA",
   "MULX", "LOG", "EXP", "SOF", "AND", "CLR", "OR", "XOR", "NOT", "SKP", "NOP", "WLDS", "WLDR",
   "JAM", "CHO RDA", "CHO SOF", "CHO RDAL"}

OpcodeOf(name) ==
  CASE name = "LDAX" -> 5
    [] name = "ABSA" -> 9
    [] name = "CLR"  -> 14
    [] name = "NOT"  -> 16
    [] name = "NOP"  -> 17
    [] name = "WLDS" -> 18
    [] name \in {"CHO RDA", "CHO SOF", "CHO RDAL", "CHO <?>"} -> 20
    [] OTHER -> CHOOSE o \in 0 .. 20 : Mnemonic(o) = name

\* A value in its place, the sign bit's included.  (2^31 is no integer to TLC, which
\* is why a power is taken in two steps.)
Placed(bit, len, value) ==
  ((IF bit + len = 32 /\ value >= 2^(len - 1) THEN value - 2^len ELSE value) * 2^(bit - 1)) * 2

\* The int32 that has these fields, given as <<bit, length, value>>.
Word(opcode, fields) ==
  Sums(opcode, [i \in DOMAIN fields |-> Placed(fields[i][1], fields[i][2], fields[i][3])])[Len(fields)]

\* How the assembler lays instructions out.
Layout(op) ==
  LET a == op.args
  IN  CASE OpcodeOf(op.name) <= 3         -> <<<<5, 16, a[1]>>, <<21, 11, a[2]>>>>
        [] OpcodeOf(op.name) \in 4 .. 9   -> <<<<5, 6, a[1]>>, <<16, 16, a[3]>>>>
        [] OpcodeOf(op.name) = 10         -> <<<<5, 6, a[1]>>>>
        [] OpcodeOf(op.name) \in 11 .. 13 -> <<<<5, 11, a[1]>>, <<16, 16, a[2]>>>>
        [] OpcodeOf(op.name) \in 14 .. 16 -> <<<<8, 24, a[2]>>>>
        [] OpcodeOf(op.name) = 17         -> <<<<21, 6, a[2]>>, <<27, 5, a[3]>>>>
        [] op.name = "WLDS"               -> <<<<5, 15, a[1]>>, <<20, 9, a[2]>>, <<29, 1, a[3]>>>>
        [] op.name = "WLDR"               -> <<<<5, 2, a[1]>>, <<13, 16, a[3]>>, <<29, 1, a[4]>>, <<30, 2, a[5]>>>>
        [] op.name = "JAM"                -> <<<<5, 1, a[1]>>, <<6, 25, a[2]>>>>
        [] OTHER -> <<<<5, 16, a[1]>>, <<21, 2, a[2]>>, <<23, 1, a[3]>>, <<24, 6, a[4]>>, <<30, 2, a[5]>>>>

Encode(op) == Word(OpcodeOf(op.name), Layout(op))

\* Bits of a word that no argument stands for, as <<bit, length>>.
UnusedBits(name) ==
  CASE name \in {"RDAX", "RDFX", "WRAX", "WRHX", "WRLX", "MAXX"} -> <<11, 5>>
    [] name = "MULX" -> <<11, 21>>
    [] name \in Masks -> <<5, 3>>
    [] name = "SKP"  -> <<5, 16>>
    [] name = "WLDR" -> <<7, 6>>
    [] name = "JAM"  -> <<31, 1>>
    [] OTHER         -> <<5, 0>>

\* w with its unused bits zero.
Cleared(w) ==
  LET u == UnusedBits(BasicName(w))
  IN  w - Word(0, <<<<u[1], u[2], Bits(w \div 2, u[1] - 1, u[2])>>>>)
=============================================================================
