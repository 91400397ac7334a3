---------------------------- MODULE MCProcessor -----------------------------
(***************************************************************************)
(* Small instances of Processor: 1.0 is 16, an int32 is -128 .. 127, and   *)
(* the programs are built from short lists of instructions.                *)
(***************************************************************************)
EXTENDS Processor, SequencesExt
LOCAL INSTANCE Bitwise

(* The bitwise operators of two's complement numbers *)
Bits(v) == v % (2 * Word)
MCAnd(a, b) == Wrap(Bits(a) & Bits(b))
MCOr(a, b)  == Wrap(Bits(a) | Bits(b))
MCXor(a, b) == Wrap(Bits(a) ^^ Bits(b))

(* log2(a/16)/16 and 2^(16 a/16), in sixteenths *)
MCLog2(a) == (CHOOSE k \in 0 .. 7 : 2^k <= a /\ a < 2^(k + 1)) - 4
MCExp2(a) == IF a < -4 THEN 0 ELSE 16 \div 2^(-a)

MCPots == [r \in POT0 .. POT2 |-> IF r = POT0 THEN One ELSE 0]
MCSineTable == [p \in 0 .. 7 |-> <<0, 11, 16, 11, 0, -11, -16, -11>>[p + 1]]
MCRampAmpValues == [i \in 0 .. 3 |-> <<8, 4, 2, 1>>[i + 1]]
REG0 == 32
MCRegNos == SpecialRegs \cup {REG0}

\* Instructions by their operands
Plain(name)          == [name |-> name]
Coef(name, c, d)     == [name |-> name, C |-> c, D |-> d]
Mask(name, mask)     == [name |-> name, mask |-> mask]
Mem(name, addr, c)   == [name |-> name, addr |-> addr, C |-> c]
Reg(name, reg, c)    == [name |-> name, reg |-> reg, C |-> c]
Skip(n, skpFlags)    == [name |-> "SKP", N |-> n, flags |-> skpFlags]
Tap(typ, addr, choFlags) == [name |-> "CHO_RDA", typ |-> typ, addr |-> addr, flags |-> choFlags]
Scale(typ, d, choFlags)  == [name |-> "CHO_SOF", typ |-> typ, D |-> d, flags |-> choFlags]
Load(typ, choFlags)      == [name |-> "CHO_RDAL", typ |-> typ, flags |-> choFlags]
Ramp(lfo, freq, idx)     == [name |-> "WLDR", lfo |-> lfo, freq |-> freq, ampIdx |-> idx]
Sine(lfo, freq, amp)     == [name |-> "WLDS", lfo |-> lfo, freq |-> freq, amp |-> amp]
LoadADC == Reg("LDAX", ADCL, 0)

-----------------------------------------------------------------------------
(* Delay memory: what comes in is written, read back at another address,   *)
(* and perhaps only in some samples.                                       *)
DelayOps ==
  {Mem("WRA", 0, 0), Mem("WRA", 3, -16), Mem("WRAP", 1, 8), Mem("RDA", 0, 16), Mem("RDA", 2, 31),
   Skip(1, {"NEG"}), Reg("WRAX", ADDR_PTR, 16)}
DelayPrograms ==
  {<<LoadADC, a, b, Mem("RDA", 3, 16)>> : a, b \in DelayOps}
    \cup {<<LoadADC, a, [name |-> "RMPA", C |-> 16]>> : a \in DelayOps}
    \cup {<<LoadADC, Mem("WRA", 2, 16), Skip(5, {"RUN", "ZRC"}), Mem("WRA", 1, 0)>>,
          <<LoadADC, Mem("WRA", 1, 16), LoadADC, Plain("ABSA"), Reg("WRAX", ADDR_PTR, 16),
            [name |-> "RMPA", C |-> -16]>>,
          <<Mem("RDA", 5, 0), Mem("WRA", 0, 0)>>, <<LoadADC, Mem("WRA", 7, 0)>>}

-----------------------------------------------------------------------------
(* Arithmetic: every sequence of two of these instructions, after the    *)
(* sample was loaded, with the results written to a DAC.  NOT and NOP are  *)
(* handlers that DecodeOpCodes produces no instruction for; the tests call *)
(* applyOp with a NOT of their own.                                        *)
ArithmeticOps ==
  {Coef("SOF", 31, 15), Coef("SOF", -32, -16), Coef("LOG", 16, 3), Coef("LOG", 0, 3), Coef("EXP", 16, -3),
   Mask("AND", 23), Mask("OR", 20), Mask("XOR", 31), Plain("CLR"), Plain("ABSA"), Plain("NOP"),
   Plain("NOT"), Reg("RDAX", REG0, -32), Reg("RDFX", POT0, 8), Reg("MULX", REG0, 0),
   Reg("MAXX", REG0, 31), Reg("WRLX", REG0, -16), Reg("WRHX", DACL, 31),
   Reg("WRAX", REG0, 31), Reg("WRAX", SIN0_RATE, 16), Skip(1, {"GEZ"}), Skip(2, {"ZRO", "ZRC"}), Skip(1, {})}
ArithmeticPrograms ==
  {<<LoadADC, a, b, Reg("WRAX", DACR, 16)>> : a, b \in ArithmeticOps}

\* One run of both: the values that go through the line are those of the arithmetic.
InstructionsPrograms == DelayPrograms \cup ArithmeticPrograms
InstructionsInputs == {<<v, -v>> : v \in {-16, -3, 0, 16}}

-----------------------------------------------------------------------------
(* Absolute values of samples that fit in 24 bits. *)
AbsPrograms == {<<LoadADC, Plain("ABSA"), Reg("WRAX", DACR, c)>> : c \in {16, -32}}
AbsInputs == {<<v, 0>> : v \in -16 .. 15}

-----------------------------------------------------------------------------
(* LFOs: set up in the first sample only, and then every CHO instruction   *)
(* with every set of flags, after another one froze a value of the same    *)
(* LFO or not; and writes to the LFO registers.                            *)
LfoSetups == {<<Ramp(0, 15, 0), Sine(0, 7, 15)>>, <<Ramp(0, -16, 3), Sine(0, 3, 4)>>}
LfoPrologue(setup) == <<LoadADC, Mem("WRA", 0, 16), Skip(2, {"RUN"})>> \o setup
LfoPrograms ==
  {LfoPrologue(s) \o <<first, cho>> :
     s \in LfoSetups,
     first \in {Load(0, {"REG"}), Load(2, {"REG"})},
     cho \in UNION {{Tap(typ, 3, fs), Scale(typ, -3, fs), Load(typ, fs)} :
                      typ \in {0, 2}, fs \in SUBSET ChoFlags}}
    \cup {<<LoadADC, Reg("WRAX", r, 16), Load(Bank(r \div 2) + (r \div 4) * 2, {"REG"}),
            Tap(Bank(r \div 2) + (r \div 4) * 2, 4, {}), [name |-> "JAM", lfo |-> Bank(r \div 2)]>> :
            r \in 0 .. 7}
    \cup {<<LoadADC, Plain("ABSA"), Reg("WRAX", r, 16)>> : r \in 4 .. 7}
    \cup {<<LoadADC, Reg("WRAX", 0, 31), Skip(1, {"NEG"})>>,
          <<LoadADC, Ramp(0, -16, 3), Reg("WRLX", RAMP0_RANGE, 16), Tap(2, 0, {"REG", "COMPA"})>>,
          <<LoadADC>> \o [i \in 1 .. 10 |-> Load(2, {"REG"})]}
LfoInputs == {<<-16, 0>>, <<-8, 0>>, <<11, 0>>}

-----------------------------------------------------------------------------
(* Without the clamping: values of the size of an int32 in the delay line, *)
(* the address pointer and the oscillators.                                *)
Doublings == [i \in 1 .. 2 |-> Coef("SOF", 31, 7)]
UnclampedPrograms ==
  {<<LoadADC>> \o Doublings \o <<a, b, Mem("WRA", 1, 16), Mem("RDA", 2, -32)>> :
     a \in {Plain("NOP"), Coef("SOF", -32, 0), Reg("WRAX", SIN0_RATE, 16), Reg("WRAX", RAMP0_RANGE, 16),
            Reg("WRLX", ADDR_PTR, 31), Plain("ABSA")},
     b \in {Mem("WRAP", 2, 31), [name |-> "RMPA", C |-> 31], Reg("WRAX", DACL, 31),
            Reg("WRHX", ADDR_PTR, 16), Coef("LOG", 16, 0), Reg("RDFX", ADCR, -32)}}
    \cup {<<LoadADC>> \o Doublings \o <<Reg("WRAX", SIN0_RATE, 16)>>}
UnclampedInputs == {<<v, -16>> : v \in {-16, -1, 5, 16}}
=============================================================================
