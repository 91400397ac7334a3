----------------------------- MODULE Processor ------------------------------
(***************************************************************************)
(* dsp.ProcessSample and the instructions it executes: the State of        *)
(* dsp/state.go, the loop of dsp/funcs.go, the opTable of                  *)
(* dsp/instructions.go and the three CHO instructions.  One step is one    *)
(* turn of the loop (LFO updates, one instruction, the overflow check), or *)
(* one of the things ProcessSample does around the loop.                   *)
(*                                                                         *)
(* An instruction is a record with the fields its operands need, already   *)
(* converted by SetWithIntsAndFracs: C and D are fixed-point numbers.      *)
(***************************************************************************)
EXTENDS Oscillators, Sequences

CONSTANTS
  Programs,               \* the decoded programs that may be loaded
  Inputs,                 \* the stereo samples that may arrive
  Pots,                   \* the positions of the potentiometers
  RegNos,                 \* the registers in use
  MemSize,                \* DELAY_RAM_SIZE: 32768
  AddrDiv,                \* ADDR_PTR >> 8 as a division: 256
  SinRateDiv,             \* ACC >> 14
  SinRangeDiv,            \* ACC >> 8
  RampRateDiv,            \* ACC >> 8
  RampAmpValues,          \* base.RampAmpValues, from index 0
  InstructionsPerSample,  \* 128
  AllowAllChoRdalFlags,   \* settings.AllowAllChoRdalFlags
  MaxSamples,             \* bound on the number of samples processed
  BitAnd(_, _), BitOr(_, _), BitXor(_, _),  \* the bitwise operators on int32
  Log2(_), Exp2(_)        \* log2(a)/16 of a > 0, and 2^(16a) of a < 0

(* Registers with a role of their own, base/defs.go *)
SIN0_RATE   == 0
SIN0_RANGE  == 1
SIN1_RATE   == 2
SIN1_RANGE  == 3
RAMP0_RATE  == 4
RAMP0_RANGE == 5
RAMP1_RATE  == 6
RAMP1_RANGE == 7
POT0 == 16
POT2 == 18
ADCL == 20
ADCR == 21
DACL == 22
DACR == 23
ADDR_PTR == 24
SpecialRegs == 0 .. 7 \cup POT0 .. POT2 \cup ADCL .. ADDR_PTR

SkpFlags == {"RUN", "ZRC", "ZRO", "GEZ", "NEG"}
ChoFlags == {"COS", "REG", "COMPC", "COMPA", "RPTR2", "NA"}

RegisterOps == {"RDAX", "RDFX", "WRAX", "MAXX", "MULX", "LDAX", "WRLX", "WRHX"}

SinRates  == 0 .. (One \div SinRateDiv) - 1       \* WLDS rates: 0 .. 511
SinAmps   == 0 .. (One \div SinRangeDiv) - 1       \* WLDS amplitudes: 0 .. 32767
Addresses == 0 .. 2 * MemSize - 1                 \* 16 bits
Int16     == -2 * RateHalf .. 2 * RateHalf - 1    \* WLDR rates: -32768 .. 32767

Instruction ==
  [name : {"LOG", "EXP", "SOF"}, C : Coefficient, D : Fix24]
    \cup [name : {"AND", "OR", "XOR"}, mask : Raw24]
    \cup [name : {"CLR", "NOT", "NOP", "ABSA"}]
    \cup [name : {"SKP"}, N : Nat, flags : SUBSET SkpFlags]
    \cup [name : {"RDA", "WRA", "WRAP"}, addr : Addresses, C : Coefficient]
    \cup [name : {"RMPA"}, C : Coefficient]
    \cup [name : RegisterOps, reg : RegNos, C : Coefficient]
    \cup [name : {"WLDS"}, lfo : 0 .. 1, freq : SinRates, amp : SinAmps]
    \cup [name : {"WLDR"}, lfo : 0 .. 1, freq : Int16, ampIdx : 0 .. 3]
    \cup [name : {"JAM"}, lfo : 0 .. 1]
    \cup [name : {"CHO_RDA"}, typ : 0 .. 3, addr : Addresses, flags : SUBSET ChoFlags]
    \cup [name : {"CHO_SOF"}, typ : 0 .. 3, D : Fix24, flags : SUBSET ChoFlags]
    \cup [name : {"CHO_RDAL"}, typ : 0 .. 3, flags : SUBSET ChoFlags]

ASSUME ProcessorAssumption ==
  /\ One >= 4
  /\ Programs \subseteq Seq(Instruction)
  /\ Inputs \subseteq Unit \X Unit
  /\ Pots \in [POT0 .. POT2 -> Int]
  /\ SpecialRegs \subseteq RegNos /\ RegNos \subseteq 0 .. 63
  /\ {MemSize, AddrDiv, SinRateDiv, SinRangeDiv, RampRateDiv} \subseteq Nat \ {0}
  /\ MaxRampAmp < Word /\ 2 * RateHalf <= Word
  /\ RampAmpValues \in [0 .. 3 -> 0 .. MaxRampAmp]
  /\ InstructionsPerSample \in Nat /\ MaxSamples \in Nat
  /\ AllowAllChoRdalFlags \in BOOLEAN

\* What the code's constants keep to: ADDR_PTR at 1.0 is no more than the size of
\* the RAM, ACC at 1.0 the rate 1.0 of a ramp and no more than the largest of a sine.
ASSUME ScaleAssumption ==
  /\ One % 4 = 0 /\ MaxRampAmp <= One
  /\ One <= AddrDiv * MemSize
  /\ One = RampRateDiv * (2 * RateHalf)
  /\ One <= SinRateDiv * MaxSineRate

ASSUME OperatorAssumption ==
  /\ \A a, b \in Int32 : BitAnd(a, b) \in Int32 /\ BitOr(a, b) \in Int32 /\ BitXor(a, b) \in Int32
  /\ \A a \in 1 .. Word - 1 : Log2(a) \in Int
  /\ \A a \in Int32 : a < 0 => Exp2(a) \in 0 .. One

VARIABLES
  (* dsp.State *)
  IP, ACC, PACC, LR, RUN_FLAG, DelayRAM, DelayRAMPtr, Registers,
  sine, ramp,       \* Sin0Osc and Sin1Osc, Ramp0Osc and Ramp1Osc
  lfoReg,           \* the frozen LFO values, by LFO number
  flags,            \* the DebugFlags that are raised
  (* ProcessSample and its caller *)
  prog,             \* opCodes
  phase,            \* where ProcessSample is
  cycles,           \* its local variable
  sampleNum,        \* calls of ProcessSample begun
  (* history *)
  completed,        \* calls that returned true
  ticks             \* LFO updates so far

registerVars == <<LR, DelayRAM, Registers, lfoReg>>
callVars     == <<prog, sampleNum, completed, RUN_FLAG, DelayRAMPtr>>
vars == <<IP, ACC, PACC, LR, RUN_FLAG, DelayRAM, DelayRAMPtr, Registers, sine, ramp,
          lfoReg, flags, prog, phase, cycles, sampleNum, completed, ticks>>

Phases == {"idle", "exec", "pad", "failed", "panic"}

OverflowFlags == {"ACCOverflow", "PACCOverflow", "LROverflow", "DACLOverflow", "DACROverflow"}
FlagNames == OverflowFlags \cup {"OutOfBoundsMemoryRead", "OutOfBoundsMemoryWrite",
                                "InvalidRamp0Values", "InvalidRamp1Values"}

\* State.Reset on a new State.
Init ==
  /\ prog \in Programs
  /\ phase = "idle" /\ sampleNum = 0 /\ completed = 0 /\ cycles = 0 /\ ticks = 0
  /\ IP = 0 /\ ACC = 0 /\ PACC = 0 /\ LR = 0
  /\ RUN_FLAG = FALSE
  /\ DelayRAM = [i \in 0 .. MemSize - 1 |-> 0] /\ DelayRAMPtr = 0
  /\ Registers = [r \in RegNos |-> IF r \in POT0 .. POT2 THEN SetClampedFloat64(Pots[r])
                                   ELSE IF r \in {RAMP0_RANGE, RAMP1_RANGE}
                                     THEN RampAmpValues[3]
                                   ELSE 0]
  /\ sine = [k \in 0 .. 1 |-> [phase |-> 0, rate |-> 0]]
  /\ ramp = [k \in 0 .. 1 |-> [value |-> 0, freq |-> 0]]
  /\ lfoReg = [t \in LfoTypes |-> 0]
  /\ flags = {}

-----------------------------------------------------------------------------
(* The turn of the loop that is common to all instructions *)

Op == prog[IP + 1]

Issue(name) ==
  /\ phase = "exec" /\ IP < Len(prog)
  /\ Op.name = name
  /\ UpdateAccepted(sine, ramp)

\* UpdateRampLFOs and UpdateSineLFOs.
LFOsAdvance == sine' = SinesAdvance(sine) /\ ramp' = RampsAdvance(ramp)

\* CheckForOverflows: what exceeds [-1.0, 1.0] now.
Overflows ==
  {f \in OverflowFlags :
     CASE f = "ACCOverflow"  -> ACC \notin Unit
       [] f = "PACCOverflow" -> PACC \notin Unit
       [] f = "LROverflow"   -> LR \notin Unit
       [] f = "DACLOverflow" -> Registers[DACL] \notin Unit
       [] f = "DACROverflow" -> Registers[DACR] \notin Unit}

\* Mutant: skipped instructions count as cycles.
ContinueCountingSkipped(skip, raised) ==
  /\ IP' = IP + 1 + skip
  /\ cycles' = cycles + 1 + skip /\ ticks' = ticks + 1
  /\ flags' = flags \cup raised \cup Overflows'
  /\ UNCHANGED <<phase, callVars>>

\* The end of a turn after an instruction that returned nil, having skipped
\* skip instructions and raised the flags raised.
Continue(skip, raised) ==
  /\ IP' = IP + 1 + skip
  /\ cycles' = cycles + 1 /\ ticks' = ticks + 1
  /\ flags' = flags \cup raised \cup Overflows'
  /\ UNCHANGED <<phase, callVars>>

\* An instruction returned an error: ProcessSample returns false.
Fail(raised) ==
  /\ phase' = "failed"
  /\ cycles' = cycles + 1 /\ ticks' = ticks + 1
  /\ flags' = flags \cup raised
  /\ LFOsAdvance
  /\ UNCHANGED <<IP, ACC, LR, DelayRAM, Registers, callVars>>

\* An Assert or a run-time check panics: the program is gone.
Crash ==
  /\ phase' = "panic"
  /\ UNCHANGED <<IP, ACC, PACC, registerVars, sine, ramp, flags, cycles, ticks, callVars>>

-----------------------------------------------------------------------------
(* Instructions that change ACC and PACC only *)

Compute(result) ==
  /\ ACC' = result /\ PACC' = ACC
  /\ LFOsAdvance
  /\ UNCHANGED registerVars
  /\ Continue(0, {})

SOF == Issue("SOF") /\ Compute(Add(Mult(ACC, Op.C), Op.D))

\* The float is not a number: log of a negative number, or 0 * -Inf.
LogUndefined == Abs(ACC) < 0 \/ (Abs(ACC) = 0 /\ Op.C = 0)

LOG ==
  /\ Issue("LOG")
  /\ ~LogUndefined
  /\ Compute(IF Abs(ACC) > 0
               THEN SetClampedFloat64(((Log2(Abs(ACC)) * Op.C) \div One) + Op.D)
               ELSE IF Op.C > 0 THEN -One ELSE One - 1)

LOG_Panics == Issue("LOG") /\ LogUndefined /\ Crash

EXP == Issue("EXP") /\ Compute(Add(Mult(IF ACC >= 0 THEN One - 1 ELSE Exp2(ACC), Op.C), Op.D))

AND  == Issue("AND") /\ Compute(BitAnd(ACC, Extend24to32(Op.mask)))
OR   == Issue("OR")  /\ Compute(BitOr(ACC, Extend24to32(Op.mask)))
XOR  == Issue("XOR") /\ Compute(BitXor(ACC, Extend24to32(Op.mask)))
CLR  == Issue("CLR") /\ Compute(0)
NOT  == Issue("NOT") /\ Compute(IF ACC < 0 THEN -Word ELSE 0)   \* ACC &^ 0x7FFFFFFF
ABSA == Issue("ABSA") /\ Compute(Abs(ACC))

RDAX == Issue("RDAX") /\ Compute(Add(ACC, Mult(Registers[Op.reg], Op.C)))
RDFX == Issue("RDFX") /\ Compute(LET reg == Registers[Op.reg]
                                 IN  Add(Mult(Sub(ACC, reg), Op.C), reg))
MULX == Issue("MULX") /\ Compute(Mult(ACC, Registers[Op.reg]))
MAXX == Issue("MAXX") /\ Compute(LET a == Abs(Mult(Registers[Op.reg], Op.C))
                                 IN  IF a > Abs(ACC) THEN a ELSE Abs(ACC))

\* LDAX leaves PACC as it is.
LDAX ==
  /\ Issue("LDAX")
  /\ ACC' = Registers[Op.reg]
  /\ LFOsAdvance
  /\ UNCHANGED <<PACC, registerVars>>
  /\ Continue(0, {})

-----------------------------------------------------------------------------
(* Control flow *)

\* The tests of SKP that hold; without flags it always jumps.
Jumps ==
  \/ Op.flags = {}
  \/ "RUN" \in Op.flags /\ RUN_FLAG
  \/ "GEZ" \in Op.flags /\ ACC >= 0
  \/ "ZRO" \in Op.flags /\ ACC = 0
  \/ "ZRC" \in Op.flags /\ (ACC < 0) # (PACC < 0)
  \/ "NEG" \in Op.flags /\ ACC < 0

Idle(skip) ==
  /\ LFOsAdvance
  /\ UNCHANGED <<ACC, PACC, registerVars>>
  /\ Continue(skip, {})

SKP == Issue("SKP") /\ Idle(IF Jumps THEN Op.N ELSE 0)

NOP == Issue("NOP") /\ Idle(0)

-----------------------------------------------------------------------------
(* Delay memory *)

\* Mutant: the address MemSize is refused.
OutOfBoundsAtEnd(in) == in >= MemSize

\* capDelayRAMIndex: the test is on the address after the pointer was added,
\* and lets MemSize itself through.
OutOfBounds(in) == in > MemSize
Index(in) == in % MemSize

\* The argument of capDelayRAMIndex for a program's address.
Moved(addr) == addr + DelayRAMPtr

\* RDA and RMPA, from address addr.
ReadMemory(addr) ==
  /\ ~OutOfBounds(Moved(addr))
  /\ LR' = SignExtend(DelayRAM[Index(Moved(addr))])
  /\ ACC' = Add(ACC, Mult(LR', Op.C)) /\ PACC' = ACC
  /\ LFOsAdvance
  /\ UNCHANGED <<DelayRAM, Registers, lfoReg>>
  /\ Continue(0, {})

ReadFault(addr) ==
  /\ OutOfBounds(Moved(addr))
  /\ UNCHANGED <<PACC, lfoReg>>
  /\ Fail({"OutOfBoundsMemoryRead"})

\* WRA and WRAP: result is what is left in ACC.
WriteMemory(result) ==
  /\ ~OutOfBounds(Moved(Op.addr))
  /\ DelayRAM' = [DelayRAM EXCEPT ![Index(Moved(Op.addr))] = ToQFormat(ACC)]
  /\ ACC' = result /\ PACC' = ACC
  /\ LFOsAdvance
  /\ UNCHANGED <<LR, Registers, lfoReg>>
  /\ Continue(0, {})

\* PACC is set before the address is checked.
WriteFault ==
  /\ OutOfBounds(Moved(Op.addr))
  /\ PACC' = ACC
  /\ UNCHANGED lfoReg
  /\ Fail({"OutOfBoundsMemoryWrite"})

IndirectAddress == Registers[ADDR_PTR] \div AddrDiv

RDA        == Issue("RDA") /\ ReadMemory(Op.addr)
RDA_Fails  == Issue("RDA") /\ ReadFault(Op.addr)
RMPA       == Issue("RMPA") /\ ReadMemory(IndirectAddress)
RMPA_Fails == Issue("RMPA") /\ ReadFault(IndirectAddress)
WRA        == Issue("WRA") /\ WriteMemory(Mult(ACC, Op.C))
WRAP       == Issue("WRAP") /\ WriteMemory(Add(Mult(ACC, Op.C), LR))
WR_Fails   == (Issue("WRA") \/ Issue("WRAP")) /\ WriteFault

-----------------------------------------------------------------------------
(* Register writes *)

WriteRegister(reg, value, result, pacc) ==
  /\ Registers' = [Registers EXCEPT ![reg] = value]
  /\ ACC' = result /\ PACC' = pacc
  /\ UNCHANGED <<LR, DelayRAM, lfoReg>>
  /\ Continue(0, {})

\* ACC is saved in the register and, for the next instruction, in PACC.
WRLX == Issue("WRLX") /\ LFOsAdvance
        /\ WriteRegister(Op.reg, ACC, Add(Mult(Sub(PACC, ACC), Op.C), PACC), ACC)
WRHX == Issue("WRHX") /\ LFOsAdvance
        /\ WriteRegister(Op.reg, ACC, Add(Mult(ACC, Op.C), PACC), ACC)

\* WRAX, with the value the register gets.
WriteACC(value) == WriteRegister(Op.reg, value, Mult(ACC, Op.C), ACC)

\* The oscillators as UpdateRampLFOs and UpdateSineLFOs left them in this
\* turn, with one field set by the instruction.
SetSineRate(k, rate) ==
  /\ sine' = [SinesAdvance(sine) EXCEPT ![k].rate = rate]
  /\ ramp' = RampsAdvance(ramp)

SetRampFreq(k, freq) ==
  /\ ramp' = [RampsAdvance(ramp) EXCEPT ![k].freq = freq]
  /\ sine' = SinesAdvance(sine)

WRAX_Plain ==   \* ADDR_PTR too: it is scaled down where it is used
  /\ Issue("WRAX") /\ Op.reg \notin 0 .. 7
  /\ LFOsAdvance /\ WriteACC(ACC)

\* Mutant: the rate keeps its sign.
WRAX_SinRateSigned ==
  /\ Issue("WRAX") /\ Op.reg \in {SIN0_RATE, SIN1_RATE}
  /\ LET rate == ACC \div SinRateDiv
     IN  WriteACC(rate) /\ SetSineRate(IF Op.reg = SIN0_RATE THEN 0 ELSE 1, rate)

WRAX_SinRate ==
  /\ Issue("WRAX") /\ Op.reg \in {SIN0_RATE, SIN1_RATE}
  /\ LET rate == Abs(ACC) \div SinRateDiv
     IN  WriteACC(rate) /\ SetSineRate(IF Op.reg = SIN0_RATE THEN 0 ELSE 1, rate)

WRAX_SinRange ==
  /\ Issue("WRAX") /\ Op.reg \in {SIN0_RANGE, SIN1_RANGE}
  /\ LFOsAdvance /\ WriteACC(ACC \div SinRangeDiv)

\* int16(ACC >> 8)
RampFreq == (((ACC \div RampRateDiv) + 2 * RateHalf) % (4 * RateHalf)) - 2 * RateHalf

WRAX_RampRate ==
  /\ Issue("WRAX") /\ Op.reg \in {RAMP0_RATE, RAMP1_RATE}
  /\ RampFreq \in RampRates
  /\ WriteACC(RampFreq)
  /\ SetRampFreq(IF Op.reg = RAMP0_RATE THEN 0 ELSE 1, RampFreq)

\* ACC >> 21; only the register holds what is used of the amplitude.
AmpIdx == ACC \div (One \div 4)

WRAX_RampRange ==
  /\ Issue("WRAX") /\ Op.reg \in {RAMP0_RANGE, RAMP1_RANGE}
  /\ AmpIdx \in 0 .. 3
  /\ LFOsAdvance /\ WriteACC(RampAmpValues[3 - AmpIdx])

\* SetFreq asserts that the rate is in range; RampAmpValues is indexed with 3-ampidx.
WRAX_Panics ==
  /\ Issue("WRAX")
  /\ \/ Op.reg \in {RAMP0_RATE, RAMP1_RATE} /\ RampFreq \notin RampRates
     \/ Op.reg \in {RAMP0_RANGE, RAMP1_RANGE} /\ AmpIdx \notin 0 .. 3
  /\ Crash

-----------------------------------------------------------------------------
(* LFO set-up *)

LoadLFO(rateReg, rate, rangeReg, range, raised) ==
  /\ Registers' = [Registers EXCEPT ![rateReg] = rate, ![rangeReg] = range]
  /\ UNCHANGED <<ACC, PACC, LR, DelayRAM, lfoReg>>
  /\ Continue(0, raised)

\* freq and amp have 9 and 15 bits: WLDS never has to cap them.
WLDS ==
  /\ Issue("WLDS")
  /\ SetSineRate(Op.lfo, Op.freq)
  /\ LoadLFO(2 * Op.lfo, Op.freq, 2 * Op.lfo + 1, Op.amp, {})

WLDR ==
  /\ Issue("WLDR")
  /\ LET capped == Op.freq < -RateHalf
         freq   == IF capped THEN 1 - RateHalf ELSE Op.freq
     IN  /\ SetRampFreq(Op.lfo, freq)
         /\ LoadLFO(4 + 2 * Op.lfo, freq, 5 + 2 * Op.lfo, RampAmpValues[Op.ampIdx],
                    IF ~capped THEN {}
                    ELSE IF Op.lfo = 0 THEN {"InvalidRamp0Values"} ELSE {"InvalidRamp1Values"})

JAM ==
  /\ Issue("JAM")
  /\ ramp' = [RampsAdvance(ramp) EXCEPT ![Op.lfo].value = 0]
  /\ sine' = SinesAdvance(sine)
  /\ UNCHANGED <<ACC, PACC, registerVars>>
  /\ Continue(0, {})

-----------------------------------------------------------------------------
(* CHO *)

\* The LFO an instruction reads, given the flags it honours.
ChoTyp(honoured) == IF "COS" \in honoured THEN Op.typ + 4 ELSE Op.typ

RangeReg(typ) == IF isSinLFO(typ) THEN 2 * Bank(typ) + 1 ELSE 2 * Bank(typ) + 5

\* Flags that do not go with the kind of LFO.
Misused(honoured) ==
  honoured \cap (IF isSinLFO(Op.typ) THEN {"RPTR2", "NA"} ELSE {"COS"})

\* GetLFOValue: with REG the LFO is sampled and frozen, without it the frozen
\* value is used.  The LFOs were updated earlier in the same turn.
LfoRegAfter(typ) ==
  IF "REG" \in Op.flags THEN Freeze(lfoReg, typ, SinesAdvance(sine), RampsAdvance(ramp))
                        ELSE lfoReg

\* The LFO value, half a cycle ahead if RPTR2 is honoured.
LfoValue(typ, honoured) ==
  LET lfo == LfoRegAfter(typ)[typ]
  IN  IF "RPTR2" \in honoured THEN PlusHalfCycle(lfo) ELSE lfo

ChoDone(typ, result) ==
  /\ ACC' = result
  /\ lfoReg' = LfoRegAfter(typ)
  /\ LFOsAdvance
  /\ UNCHANGED <<PACC, DelayRAM, Registers>>
  /\ Continue(0, {})

(* CHO RDA: an address offset, or a crossfade factor for the constant      *)
(* address, taken from the LFO; COMPA complements the offset against the   *)
(* range of a ramp.                                                        *)
RdaTyp == ChoTyp(Op.flags)

RdaLfo ==
  LET lfo == LfoValue(RdaTyp, Op.flags)
  IN  IF "COMPA" \notin Op.flags THEN lfo
      ELSE IF isSinLFO(RdaTyp) THEN -lfo
      ELSE RampRange(Registers[RangeReg(RdaTyp)]) - lfo

RdaFade == IF "COMPC" \in Op.flags THEN One - XFade(RdaLfo) ELSE XFade(RdaLfo)

\* Mutant: a tap that stays in place.
RdaIndexUnmoved == Op.addr + ScaleLFO(RdaLfo, RdaTyp, Registers[RangeReg(RdaTyp)])

\* Where a tap reads, and by how much what it reads is scaled.
RdaIndex == DelayRAMPtr + Op.addr
              + ScaleLFO(RdaLfo, RdaTyp, Registers[RangeReg(RdaTyp)])
RdaScale ==
  IF "COMPC" \notin Op.flags THEN RdaLfo
  ELSE IF isSinLFO(RdaTyp) THEN One - ((RdaLfo + One) \div 2)
  ELSE One - RdaLfo

IssueRDA == Issue("CHO_RDA") /\ Misused(Op.flags) = {}

CHO_RDA_XFade ==
  /\ IssueRDA /\ "NA" \in Op.flags
  /\ FloatAccepted(RdaFade)
  /\ UNCHANGED LR
  /\ ChoDone(RdaTyp, Add(ACC, Mult(Op.addr, RdaFade)))

RdaTapPanics ==
  \/ OutOfBounds(RdaIndex)
  \/ ~FloatAccepted(RdaScale)
  \/ "COMPC" \in Op.flags /\ ~isSinLFO(RdaTyp) /\ ~FloatAccepted(2 * RdaLfo - One)

CHO_RDA_Tap ==
  /\ IssueRDA /\ "NA" \notin Op.flags
  /\ ~RdaTapPanics
  /\ LR' = SignExtend(DelayRAM[Index(RdaIndex)])
  /\ ChoDone(RdaTyp, Add(ACC, Mult(LR', RdaScale)))

CHO_RDA_Panics ==
  /\ IssueRDA
  /\ IF "NA" \in Op.flags THEN ~FloatAccepted(RdaFade) ELSE RdaTapPanics
  /\ Crash

\* Only COS is refused before the LFO is read, and frozen.
CHO_RDA_Fails ==
  /\ Issue("CHO_RDA") /\ Misused(Op.flags) # {}
  /\ lfoReg' = IF isSinLFO(Op.typ) THEN LfoRegAfter(RdaTyp) ELSE lfoReg
  /\ UNCHANGED PACC
  /\ Fail({})

(* CHO SOF scales ACC.  COMPA comes before RPTR2, which reads the LFO      *)
(* again and so undoes it.                                                 *)
SofTyp == ChoTyp(Op.flags)

SofLfo ==
  LET lfo == LfoValue(SofTyp, Op.flags)
  IN  IF "COMPA" \notin Op.flags \/ "RPTR2" \in Op.flags THEN lfo
      ELSE IF isSinLFO(SofTyp) THEN -lfo ELSE One - lfo

SofScale ==
  LET factor == IF "NA" \in Op.flags THEN XFade(SofLfo) ELSE SofLfo
  IN  IF "COMPC" \in Op.flags THEN One - factor ELSE factor

SofPanics == Misused(Op.flags) = {} => ~FloatAccepted(SofScale)

CHO_SOF ==
  /\ Issue("CHO_SOF") /\ ~SofPanics
  /\ UNCHANGED LR
  /\ ChoDone(SofTyp, Add(Mult(ACC, SofScale), Op.D))

CHO_SOF_Panics == Issue("CHO_SOF") /\ SofPanics /\ Crash

(* CHO RDAL loads the LFO.  REG and COMPC are honoured whatever the        *)
(* setting.                                                                *)
RdalFlags == IF AllowAllChoRdalFlags THEN Op.flags ELSE Op.flags \cap {"REG", "COMPC"}
RdalTyp == ChoTyp(RdalFlags)

RdalLfo ==
  LET lfo == LfoValue(RdalTyp, RdalFlags)
  IN  IF "COMPA" \notin RdalFlags THEN lfo
      ELSE IF isSinLFO(RdalTyp) THEN -lfo ELSE One - lfo

\* Mutant: the complement of a negative sine is not cut off at 1.0.
RdalValueUncut ==
  IF "NA" \in RdalFlags
    THEN IF "COMPC" \in RdalFlags THEN One - XFade(RdalLfo) ELSE XFade(RdalLfo)
  ELSE IF "COMPC" \in RdalFlags THEN One - RdalLfo ELSE RdalLfo

RdalValue ==
  IF "NA" \in RdalFlags
    THEN IF "COMPC" \in RdalFlags THEN One - XFade(RdalLfo) ELSE XFade(RdalLfo)
  ELSE IF "COMPC" \in RdalFlags
    THEN IF RdalLfo < 0 THEN One ELSE One - RdalLfo     \* min(1.0, 1.0-lfo)
  ELSE RdalLfo

RdalPanics == Misused(RdalFlags) = {} => ~FloatAccepted(RdalValue)

CHO_RDAL ==
  /\ Issue("CHO_RDAL") /\ ~RdalPanics
  /\ UNCHANGED LR
  /\ ChoDone(RdalTyp, RdalValue)

CHO_RDAL_Panics == Issue("CHO_RDAL") /\ RdalPanics /\ Crash

-----------------------------------------------------------------------------
(* ProcessSample around the loop *)

\* processSample (fv1emu.go) puts a sample in the ADC registers and calls
\* ProcessSample.  After a call that returned false its caller goes on with
\* trail samples, which are silent, until one of them fails too.
StartSample(left, right) ==
  /\ phase \in {"idle", "failed"} /\ sampleNum < MaxSamples
  /\ sampleNum > completed => left = 0 /\ right = 0
  /\ sampleNum <= completed + 1
  /\ phase' = "exec"
  /\ sampleNum' = sampleNum + 1
  /\ Registers' = [Registers EXCEPT ![ADCL] = left, ![ADCR] = right]
  /\ IP' = 0 /\ cycles' = 0
  /\ UNCHANGED <<ACC, PACC, LR, RUN_FLAG, DelayRAM, DelayRAMPtr, sine, ramp, lfoReg,
                 flags, prog, completed, ticks>>

\* Mutant: the pointer comes back to 0 one sample late.
EndProgramLateWrap ==
  /\ phase = "exec" /\ IP >= Len(prog)
  /\ phase' = "pad"
  /\ RUN_FLAG' = TRUE
  /\ DelayRAMPtr' = IF DelayRAMPtr - 1 < -MemSize THEN 0 ELSE DelayRAMPtr - 1
  /\ UNCHANGED <<IP, ACC, PACC, registerVars, sine, ramp, flags, prog, cycles, sampleNum,
                 completed, ticks>>

\* The program has run to its end: move the pointer.
EndProgram ==
  /\ phase = "exec" /\ IP >= Len(prog)
  /\ phase' = "pad"
  /\ RUN_FLAG' = TRUE
  /\ DelayRAMPtr' = IF DelayRAMPtr - 1 <= -MemSize THEN 0 ELSE DelayRAMPtr - 1
  /\ UNCHANGED <<IP, ACC, PACC, registerVars, sine, ramp, flags, prog, cycles, sampleNum,
                 completed, ticks>>

\* Mutant: the padding counts no cycles.
PadCycleUncounted ==
  /\ phase = "pad" /\ cycles < InstructionsPerSample
  /\ UpdateAccepted(sine, ramp)
  /\ LFOsAdvance
  /\ ticks' = ticks + 1
  /\ UNCHANGED <<IP, ACC, PACC, registerVars, flags, phase, cycles, callVars>>

\* One turn of the loop that spends the rest of the cycles on LFO updates.
PadCycle ==
  /\ phase = "pad" /\ cycles < InstructionsPerSample
  /\ UpdateAccepted(sine, ramp)
  /\ LFOsAdvance
  /\ cycles' = cycles + 1 /\ ticks' = ticks + 1
  /\ UNCHANGED <<IP, ACC, PACC, registerVars, flags, phase, callVars>>

\* Mutant: the cycles have to be met exactly.
EndSampleExact ==
  /\ phase = "pad" /\ cycles = InstructionsPerSample
  /\ phase' = "idle"
  /\ completed' = completed + 1
  /\ UNCHANGED <<IP, ACC, PACC, registerVars, RUN_FLAG, DelayRAMPtr, sine, ramp, flags,
                 prog, cycles, sampleNum, ticks>>

EndSample ==
  /\ phase = "pad" /\ cycles >= InstructionsPerSample
  /\ phase' = "idle"
  /\ completed' = completed + 1
  /\ UNCHANGED <<IP, ACC, PACC, registerVars, RUN_FLAG, DelayRAMPtr, sine, ramp, flags,
                 prog, cycles, sampleNum, ticks>>

\* The Assert of an oscillator's Update.
Update_Panics ==
  /\ \/ phase = "exec" /\ IP < Len(prog)
     \/ phase = "pad" /\ cycles < InstructionsPerSample
  /\ ~UpdateAccepted(sine, ramp)
  /\ Crash

Execute ==
  \/ SOF \/ LOG \/ EXP \/ AND \/ OR \/ XOR \/ CLR \/ NOT \/ ABSA
  \/ RDAX \/ RDFX \/ MULX \/ MAXX \/ LDAX
  \/ SKP \/ NOP
  \/ RDA \/ RMPA \/ WRA \/ WRAP
  \/ WRLX \/ WRHX
  \/ WRAX_Plain \/ WRAX_SinRate \/ WRAX_SinRange \/ WRAX_RampRate \/ WRAX_RampRange
  \/ WLDS \/ WLDR \/ JAM
  \/ CHO_RDA_XFade \/ CHO_RDA_Tap \/ CHO_SOF \/ CHO_RDAL

Error == RDA_Fails \/ RMPA_Fails \/ WR_Fails \/ CHO_RDA_Fails

Panic ==
  LOG_Panics \/ WRAX_Panics \/ CHO_RDA_Panics \/ CHO_SOF_Panics \/ CHO_RDAL_Panics \/ Update_Panics

Next ==
  \/ \E in \in Inputs \cup {<<0, 0>>} : StartSample(in[1], in[2])
  \/ Execute \/ Error \/ Panic
  \/ EndProgram \/ PadCycle \/ EndSample

\* One thread runs the loop; nothing else can keep it from its next step.
Fairness == WF_vars(Execute \/ Error \/ Panic \/ EndProgram \/ PadCycle \/ EndSample)

Spec == Init /\ [][Next]_vars /\ Fairness
-----------------------------------------------------------------------------
(* Properties *)

ControlOK ==
  /\ prog \in Seq(Instruction) /\ phase \in Phases /\ flags \subseteq FlagNames
  /\ {IP, cycles, ticks, completed} \subseteq Nat /\ sampleNum \in 0 .. MaxSamples
  /\ RUN_FLAG \in BOOLEAN /\ DelayRAMPtr \in 1 - MemSize .. 0

DataOK ==
  /\ ACC \in Int32 /\ PACC \in Int32 /\ LR \in Fix24
  /\ DelayRAM \in [0 .. MemSize - 1 -> Raw24]
  /\ Registers \in [RegNos -> Int32]
  /\ sine \in SineStates /\ ramp \in RampStates
  /\ lfoReg \in [LfoTypes -> Unit]

\* Every variable holds what its Go counterpart can hold; in particular the
\* pointer stays within one turn of the RAM, a cell keeps 24 bits, LR is a
\* 24-bit value again and the ramps keep the rates their Update asserts.
TypeOK == ControlOK /\ DataOK

\* The value of 24 bits that agrees with v in the low 24.
Low24(v) == CHOOSE low \in Fix24 : (low - v) % (2 * One) = 0

\* What the program asks of the delay line next: the address is the program's
\* own, from the instruction, ADDR_PTR or the LFO; at its end it asks for a shift.
ReadAt(addr) == [kind |-> "read", addr |-> Index(addr)]
Request ==
  IF phase \in {"failed", "panic"} THEN [kind |-> "refused"]
  ELSE IF phase # "exec" THEN [kind |-> "none"]
  ELSE IF IP >= Len(prog) THEN [kind |-> "shift"]
  ELSE IF Op.name = "RDA" THEN ReadAt(Op.addr)
  ELSE IF Op.name = "RMPA" THEN ReadAt(IndirectAddress)
  ELSE IF Op.name \in {"WRA", "WRAP"}
    THEN [kind |-> "write", addr |-> Index(Op.addr), value |-> Low24(ACC)]
  ELSE IF Op.name = "CHO_RDA" /\ "NA" \notin Op.flags /\ Misused(Op.flags) = {}
    THEN ReadAt(Op.addr + ScaleLFO(RdaLfo, RdaTyp, Registers[RangeReg(RdaTyp)]))
  ELSE [kind |-> "none"]

\* The RAM that stays in place and the pointer that moves are a delay line:
\* what RDA, RMPA and CHO RDA read at an address is what was written there, or
\* what was written k addresses lower k samples before, across the wrap of the
\* pointer and through the 24-bit conversions of both directions.  Every sample that
\* reaches the end of its program moves the line, by one address, and nothing else
\* does: a failed call does not.
Delay == INSTANCE DelayLine WITH
  Length <- MemSize, Value <- Fix24, tap <- LR, request <- Request,
  line <- [a \in 0 .. MemSize - 1 |-> SignExtend(DelayRAM[Index(Moved(a))])]

ImplementsDelayLine == Delay!Spec

\* Times the pointer has moved.
Passes == completed + (IF phase = "pad" THEN 1 ELSE 0)

\* The pointer and the run flag say how many times the program has run to its
\* end; a call that failed half-way counts for neither.
PassesCounted ==
  phase # "panic" => /\ RUN_FLAG <=> Passes > 0
                     /\ DelayRAMPtr = -(Passes % MemSize)

\* Calls that have failed.
Lost == sampleNum - completed - (IF phase \in {"exec", "pad"} THEN 1 ELSE 0)

\* The LFOs advance by the same number of ticks in every sample, however many
\* instructions the program skips, as long as it is not longer than a sample's
\* cycles.  They lag only by calls that failed, which leave out their padding, and
\* by less than a sample for each.
LfosKeepTime ==
  phase \in {"idle", "failed"} /\ Len(prog) <= InstructionsPerSample
    => ticks \in completed * InstructionsPerSample + Lost
                   .. (completed + Lost) * InstructionsPerSample

OpsOf(p) == {p[i].name : i \in DOMAIN p}

\* Programs without AND, OR, XOR and NOT, which set ACC past the clamp to as much as
\* an int32 holds, while the clamping is on.  (CLR, the AND of zero, is not one.)
Saturating == ~Disable24BitsClamping /\ OpsOf(prog) \cap {"AND", "OR", "XOR", "NOT"} = {}

\* The overflow counters of the debug flags stay at zero for a saturating program:
\* ACC, PACC and the DACs are within [-1.0, 1.0], the +1.0 of inputs and of ABSA
\* included, at the end of every instruction.  Other programs do raise them.
NoOverflowReported == Saturating => flags \cap OverflowFlags = {}

\* Instructions of a saturating program whose addresses lie within the RAM never
\* fault, whatever the position of the pointer, and neither does the address RMPA
\* takes from a register such a program computed.
NoMemoryFault ==
  Saturating /\ (\A i \in DOMAIN prog : prog[i].name \in {"RDA", "WRA", "WRAP"}
                                          => prog[i].addr < MemSize)
    => flags \cap {"OutOfBoundsMemoryRead", "OutOfBoundsMemoryWrite"} = {}

\* The cells a CHO RDA can reach beyond its address, by the amplitude of its LFO.
Reach == IF isSinLFO(Op.typ) THEN Abs(Registers[RangeReg(Op.typ)]) \div SineAmpDiv
                             ELSE Abs(Registers[RangeReg(Op.typ)])

\* What an instruction must not be given, or the emulator is gone: a LOG of zero
\* with no coefficient; a ramp's rate from an ACC below -1/2, its range from a
\* negative one, either from +1.0, which ABSA leaves; flags of the other kind of
\* LFO; the complement of a sine as a factor; the complement of a complemented
\* ramp, or its crossfade; the complement of a ramp whose RANGE is not an amplitude,
\* because WRLX or WRHX stored a value there as it was; a tap that reaches past
\* the end of the RAM.
Misuse ==
  \/ Op.name = "LOG" /\ Op.C = 0 /\ ACC = 0
  \/ Op.name = "WRAX" /\ Op.reg \in {RAMP0_RATE, RAMP1_RATE} /\ (2 * ACC < -One \/ ACC = One)
  \/ Op.name = "WRAX" /\ Op.reg \in {RAMP0_RANGE, RAMP1_RANGE} /\ (ACC < 0 \/ ACC = One)
  \/ Op.name \in {"CHO_SOF", "CHO_RDAL"} /\ Misused(Op.flags) # {}
  \/ Op.name = "CHO_SOF" /\ isSinLFO(Op.typ) /\ "COMPC" \in Op.flags
  \/ /\ Op.name = "CHO_RDA" /\ ~isSinLFO(Op.typ) /\ "COMPA" \in Op.flags
     /\ \/ {"COMPC", "NA"} \cap Op.flags # {}
        \/ Registers[RangeReg(Op.typ)] \notin 0 .. MaxRampAmp
  \/ Op.name = "CHO_RDA" /\ "NA" \notin Op.flags /\ Op.addr + Reach > MemSize

\* In a saturating program only the instruction at hand brings the emulator down, and
\* only by a misuse of its own: no earlier one leaves an oscillator, a frozen LFO or a register
\* behind over which a later one, or the padding, panics.
NoPanic == Saturating /\ phase = "panic" => IP < Len(prog) /\ Misuse

\* A frozen sine and a frozen cosine belong to the same phase.
FrozenTogether ==
  \A k \in 0 .. 1 :
    \/ lfoReg[k] = 0 /\ lfoReg[k + 4] = 0
    \/ \E p \in 0 .. Period - 1 : /\ lfoReg[k] = GetSine([phase |-> p])
                                  /\ lfoReg[k + 4] = GetCosine([phase |-> p])

\* Every call of ProcessSample comes to an end.
EverySampleEnds == (phase = "exec") ~> (phase \in {"idle", "failed", "panic"})

\* An upper bound on the turns that are left of a call: the instructions from IP on,
\* then the cycles not spent yet.
TurnsLeft ==
  CASE phase = "exec" -> InstructionsPerSample + 2 + (IF IP < Len(prog) THEN Len(prog) - IP ELSE 0)
    [] phase = "pad"  -> 1 + (IF cycles < InstructionsPerSample THEN InstructionsPerSample - cycles ELSE 0)
    [] OTHER          -> 0

\* Nothing an instruction does makes a call longer: there is no jump back, and what
\* a program spends beyond its cycles does not come on top of the padding.
CallsShorten == [][(phase \in {"exec", "pad"}) => TurnsLeft' < TurnsLeft]_vars

\* settings.go:56-58, "clamp all values to 24 bits": with the clamping on, ACC
\* holds a value 24 bits can hold.
AccFitsIn24Bits == ~Disable24BitsClamping => ACC \in Fix24
=============================================================================
