-------------------------- MODULE ProcessorProofs ---------------------------
(***************************************************************************)
(* Type correctness of Processor, for every value of its constants, and    *)
(* what the conversions of Register do to a value.                         *)
(***************************************************************************)
EXTENDS Processor, ArithmeticProofs, TLAPS
-----------------------------------------------------------------------------
(* The range of what the methods of Register return *)

LEMMA WrapInInt32 == ASSUME NEW v \in Int PROVE Wrap(v) \in Int32
  BY DivMod, FixedPointAssumption DEF Wrap, Int32

LEMMA WrapIdentity == ASSUME NEW v \in Int32 PROVE Wrap(v) = v
  BY ModUnique, FixedPointAssumption DEF Wrap, Int32

LEMMA ConstantSets == /\ Fix24 \subseteq Unit /\ Unit \subseteq Int32 /\ Int32 \subseteq Int
                      /\ Coefficient \subseteq Int32 /\ Raw24 \subseteq Int32
                      /\ 0 \in Fix24 /\ One \in Unit /\ One \in Int
  BY FixedPointAssumption DEF Fix24, Unit, Int32, Coefficient, Raw24

LEMMA ClampInInt32 == ASSUME NEW v \in Int32 PROVE Clamp24Bit(v) \in Int32
  BY FixedPointAssumption DEF Clamp24Bit, Saturate, Int32

LEMMA ArithmeticInInt32 ==
  ASSUME NEW a \in Int, NEW b \in Int
  PROVE  Add(a, b) \in Int32 /\ Sub(a, b) \in Int32 /\ Mult(a, b) \in Int32
<1>1. a + b \in Int /\ a - b \in Int /\ a * b \in Int
  OBVIOUS
<1>2. (a * b) \div One \in Int
  BY <1>1, DivMod, FixedPointAssumption
<1> QED BY <1>1, <1>2, WrapInInt32, ClampInInt32 DEF Add, Sub, Mult

LEMMA AbsInInt32 == ASSUME NEW a \in Int32 PROVE Abs(a) \in Int32
  BY WrapInInt32 DEF Abs, Int32

LEMMA ExtendInInt32 == ASSUME NEW n \in Int PROVE Extend24to32(n) \in Int32
<1>1. n % (2 * One) \in 0 .. 2 * One - 1
  BY DivMod, FixedPointAssumption
<1> QED BY <1>1, FixedPointAssumption DEF Extend24to32, Int32

LEMMA SetClampedInFix24 == ASSUME NEW v \in Int PROVE SetClampedFloat64(v) \in Fix24
  BY FixedPointAssumption DEF SetClampedFloat64, Fix24

LEMMA TruncateInInt ==
  ASSUME NEW a \in Int, NEW b \in Nat \ {0}
  PROVE  Truncate(a, b) \in Int
  BY DivMod DEF Truncate

-----------------------------------------------------------------------------
(* The 24 bits of a delay RAM cell *)

LEMMA ToQFormatInRaw24 == ASSUME NEW v \in Int PROVE ToQFormat(v) \in Raw24
  BY DivMod, FixedPointAssumption DEF ToQFormat, Raw24

LEMMA SignExtendInFix24 == ASSUME NEW raw \in Raw24 PROVE SignExtend(raw) \in Fix24
  BY FixedPointAssumption DEF SignExtend, Raw24, Fix24

\* ToQFormat(0, 23) and SetWithIntsAndFracs(.., 0, 23) are inverse on every
\* value 24 bits can hold: nothing is lost by going through the delay RAM.
THEOREM StoreRoundTrip == \A v \in Fix24 : SignExtend(ToQFormat(v)) = v
<1> SUFFICES ASSUME NEW v \in Fix24 PROVE SignExtend(ToQFormat(v)) = v
  OBVIOUS
<1>0. /\ v \in Int /\ 2 * One \in Nat \ {0}
      /\ v = (2 * One) * 0 + v /\ v = (2 * One) * (-1) + (v + 2 * One)
  BY FixedPointAssumption DEF Fix24
<1>1. CASE v >= 0
  <2>1. v \in 0 .. 2 * One - 1
    BY <1>1, FixedPointAssumption DEF Fix24
  <2>2. v % (2 * One) = v
    BY <1>0, <2>1, ModUnique
  <2> QED BY <1>1, <2>2, FixedPointAssumption DEF SignExtend, ToQFormat, Fix24
<1>2. CASE v < 0
  <2>1. v + 2 * One \in 0 .. 2 * One - 1
    BY <1>2, FixedPointAssumption DEF Fix24
  <2>2. v % (2 * One) = v + 2 * One
    BY <1>0, <2>1, ModUnique
  <2> QED BY <1>2, <2>2, FixedPointAssumption DEF SignExtend, ToQFormat, Fix24
<1> QED BY <1>1, <1>2, FixedPointAssumption DEF Fix24

-----------------------------------------------------------------------------
(* Saturation *)

LEMMA ClampInFix24 ==
  ASSUME NEW v \in Int32, ~Disable24BitsClamping
  PROVE  Clamp24Bit(v) \in Fix24
  BY FixedPointAssumption DEF Clamp24Bit, Saturate, Int32, Fix24

\* With the clamping on, Add and Sub of two values of [-1.0, 1.0] are exact up
\* to saturation at 24 bits: the int32 sum never wraps on the way.
THEOREM SaturatingSum ==
  ~Disable24BitsClamping =>
    \A a, b \in Unit : Add(a, b) = Saturate(a + b) /\ Sub(a, b) = Saturate(a - b)
<1> SUFFICES ASSUME ~Disable24BitsClamping, NEW a \in Unit, NEW b \in Unit
             PROVE  Add(a, b) = Saturate(a + b) /\ Sub(a, b) = Saturate(a - b)
  OBVIOUS
<1>1. a + b \in Int32 /\ a - b \in Int32
  BY FixedPointAssumption DEF Unit, Int32
<1> QED BY <1>1, WrapIdentity DEF Add, Sub, Clamp24Bit

\* Whatever the arguments, Add, Sub and Mult leave 24 bits when the clamping
\* is on.
THEOREM ClampedResults ==
  ~Disable24BitsClamping =>
    \A a, b \in Int : {Add(a, b), Sub(a, b), Mult(a, b)} \subseteq Fix24
<1> SUFFICES ASSUME ~Disable24BitsClamping, NEW a \in Int, NEW b \in Int
             PROVE  {Add(a, b), Sub(a, b), Mult(a, b)} \subseteq Fix24
  OBVIOUS
<1>1. a + b \in Int /\ a - b \in Int /\ a * b \in Int
  OBVIOUS
<1>2. (a * b) \div One \in Int
  BY <1>1, DivMod, FixedPointAssumption
<1> QED BY <1>1, <1>2, WrapInInt32, ClampInFix24 DEF Add, Sub, Mult

-----------------------------------------------------------------------------
(* Numbers *)

LEMMA PositiveConstants ==
  /\ One \in Nat \ {0} /\ Word \in Nat \ {0} /\ Word - 1 \in Nat \ {0}
  /\ Period \in Nat \ {0} /\ MemSize \in Nat \ {0}
  /\ MaxRampAmp \in Nat \ {0} /\ SineAmpDiv \in Nat \ {0} /\ One * SineAmpDiv \in Nat \ {0}
  BY FixedPointAssumption, OscillatorAssumption, ProcessorAssumption

\* A quotient lies between bounds that its divisor's multiples bound.
LEMMA DivBounds ==
  ASSUME NEW a \in Int, NEW b \in Nat \ {0}, NEW lo \in Int, NEW hi \in Int,
         b * lo <= a, a <= b * hi
  PROVE  a \div b \in lo .. hi
<1> DEFINE q == a \div b
           r == a % b
<1>1. q \in Int /\ r \in 0 .. b - 1 /\ a = b * q + r
  BY DivMod
<1> HIDE DEF q, r
<1>2. q <= hi
  <2> SUFFICES ASSUME q >= hi + 1 PROVE FALSE
    BY <1>1
  <2>1. b * q >= b * (hi + 1)
    BY <1>1
  <2>2. b * (hi + 1) = b * hi + b
    OBVIOUS
  <2> QED BY <1>1, <2>1, <2>2
<1>3. q >= lo
  <2> SUFFICES ASSUME q + 1 <= lo PROVE FALSE
    BY <1>1
  <2>1. b * (q + 1) <= b * lo
    BY <1>1
  <2>2. b * (q + 1) = b * q + b
    BY <1>1
  <2> QED BY <1>1, <2>1, <2>2
<1> QED BY <1>1, <1>2, <1>3 DEF q

\* Shifting an int32 right leaves an int32.
LEMMA ShiftInInt32 ==
  ASSUME NEW a \in Int32, NEW b \in Nat \ {0}
  PROVE  a \div b \in Int32
<1>1. b * (-Word) <= -Word /\ Word - 1 <= b * (Word - 1)
  BY PositiveConstants
<1> QED BY <1>1, DivBounds, PositiveConstants DEF Int32

-----------------------------------------------------------------------------
(* Oscillators *)

LEMMA RampStepType ==
  ASSUME NEW value \in Int, NEW freq \in Int
  PROVE  RampStep(value, freq) \in 0 .. Word - 1
<1>1. freq \div 4 \in Int
  BY DivMod
<1>2. Wrap(value - (freq \div 4)) \in Int32
  BY <1>1, WrapInInt32
<1> QED BY <1>2, PositiveConstants DEF RampStep, Int32

LEMMA AdvanceType ==
  ASSUME NEW s \in SineStates, NEW r \in RampStates
  PROVE  SinesAdvance(s) \in SineStates /\ RampsAdvance(r) \in RampStates
<1>1. ASSUME NEW k \in 0 .. 1
      PROVE  [s[k] EXCEPT !.phase = (@ + s[k].rate) % Period]
               \in [phase : 0 .. Period - 1, rate : Int32]
  <2>1. s[k] \in [phase : 0 .. Period - 1, rate : Int32]
    BY DEF SineStates
  <2>2. s[k].phase + s[k].rate \in Int
    BY <2>1, PositiveConstants DEF Int32
  <2>3. (s[k].phase + s[k].rate) % Period \in 0 .. Period - 1
    BY <2>2, DivMod, PositiveConstants
  <2> QED BY <2>1, <2>3
<1>2. ASSUME NEW k \in 0 .. 1
      PROVE  [r[k] EXCEPT !.value = RampStep(@, r[k].freq)]
               \in [value : 0 .. Word - 1, freq : RampRates]
  <2>1. r[k] \in [value : 0 .. Word - 1, freq : RampRates]
    BY DEF RampStates
  <2>2. RampStep(r[k].value, r[k].freq) \in 0 .. Word - 1
    <3>1. r[k].value \in Int /\ r[k].freq \in Int
      BY <2>1, PositiveConstants, OscillatorAssumption DEF RampRates
    <3> QED BY <3>1, RampStepType
  <2> QED BY <2>1, <2>2
<1> QED BY <1>1, <1>2 DEF SinesAdvance, RampsAdvance, SineStates, RampStates

LEMMA SampleType ==
  ASSUME NEW typ \in LfoTypes, NEW s \in SineStates, NEW r \in RampStates
  PROVE  Sample(typ, s, r) \in Unit
<1>0. Bank(typ) \in 0 .. 1
  BY DEF Bank, LfoTypes
<1>1. GetSine(s[Bank(typ)]) \in Unit
  BY <1>0, OscillatorAssumption DEF GetSine, SineStates
<1>2. GetCosine(s[Bank(typ)]) \in Unit
  <2>1. s[Bank(typ)].phase \in Int /\ Period \div 4 \in Int
    BY <1>0, DivMod, PositiveConstants DEF SineStates
  <2>2. s[Bank(typ)].phase + (Period \div 4) \in Int
    BY <2>1
  <2>3. (s[Bank(typ)].phase + (Period \div 4)) % Period \in 0 .. Period - 1
    BY <2>2, DivMod, PositiveConstants
  <2> QED BY <2>3, OscillatorAssumption DEF GetCosine
<1>3. GetValue(r[Bank(typ)]) \in Unit
  <2>1. r[Bank(typ)].value \in 0 .. Word - 1
    BY <1>0 DEF RampStates
  <2> DEFINE v == r[Bank(typ)].value
  <2> HIDE DEF v
  <2>2. v * One \in Int /\ 0 <= v * One /\ v * One <= (Word - 1) * One
    BY <2>1, PositiveConstants DEF v
  <2>3. (v * One) \div (Word - 1) \in 0 .. One
    BY <2>2, DivBounds, PositiveConstants
  <2> QED BY <2>3, PositiveConstants DEF GetValue, Unit, v
<1> QED BY <1>1, <1>2, <1>3 DEF Sample

-----------------------------------------------------------------------------
(* Instructions and the common part of a turn *)

LEMMA OperandTypes ==
  ASSUME NEW op \in Instruction
  PROVE  /\ op.name \in {"LOG", "EXP", "SOF"} => op.C \in Coefficient /\ op.D \in Fix24
         /\ op.name \in {"AND", "OR", "XOR"} => op.mask \in Raw24
         /\ op.name = "SKP" => op.N \in Nat
         /\ op.name \in {"RDA", "WRA", "WRAP"} => op.addr \in Addresses /\ op.C \in Coefficient
         /\ op.name = "RMPA" => op.C \in Coefficient
         /\ op.name \in RegisterOps => op.reg \in RegNos /\ op.C \in Coefficient
         /\ op.name = "WLDS" => op.lfo \in 0 .. 1 /\ op.freq \in SinRates /\ op.amp \in SinAmps
         /\ op.name = "WLDR" => op.lfo \in 0 .. 1 /\ op.freq \in Int16 /\ op.ampIdx \in 0 .. 3
         /\ op.name = "JAM" => op.lfo \in 0 .. 1
         /\ op.name \in {"CHO_RDA", "CHO_SOF", "CHO_RDAL"} => op.typ \in 0 .. 3
         /\ op.name = "CHO_RDA" => op.addr \in Addresses
         /\ op.name = "CHO_SOF" => op.D \in Fix24
<1> USE PositiveConstants DEF Instruction, RegisterOps
<1>1. op.name \in {"LOG", "EXP", "SOF"} => op.C \in Coefficient /\ op.D \in Fix24
  OBVIOUS
<1>2. op.name \in {"AND", "OR", "XOR"} => op.mask \in Raw24
  OBVIOUS
<1>3. op.name = "SKP" => op.N \in Nat
  OBVIOUS
<1>4. op.name \in {"RDA", "WRA", "WRAP"} => op.addr \in Addresses /\ op.C \in Coefficient
  OBVIOUS
<1>5. op.name = "RMPA" => op.C \in Coefficient
  OBVIOUS
<1>6. op.name \in RegisterOps => op.reg \in RegNos /\ op.C \in Coefficient
  OBVIOUS
<1>7. op.name = "WLDS" => op.lfo \in 0 .. 1 /\ op.freq \in SinRates /\ op.amp \in SinAmps
  OBVIOUS
<1>8. op.name = "WLDR" => op.lfo \in 0 .. 1 /\ op.freq \in Int16 /\ op.ampIdx \in 0 .. 3
  OBVIOUS
<1>9. op.name = "JAM" => op.lfo \in 0 .. 1
  OBVIOUS
<1>10. op.name \in {"CHO_RDA", "CHO_SOF", "CHO_RDAL"} => op.typ \in 0 .. 3
  OBVIOUS
<1>11. op.name = "CHO_RDA" => op.addr \in Addresses
  OBVIOUS
<1>12. op.name = "CHO_SOF" => op.D \in Fix24
  OBVIOUS
<1> QED BY <1>1, <1>2, <1>3, <1>4, <1>5, <1>6, <1>7, <1>8, <1>9, <1>10, <1>11, <1>12

LEMMA OpIsInstruction ==
  ASSUME TypeOK, NEW name, Issue(name)
  PROVE  Op \in Instruction /\ Op.name = name
  BY DEF TypeOK, ControlOK, Issue, Op

LEMMA LFOsAdvanceType ==
  ASSUME DataOK, LFOsAdvance
  PROVE  sine' \in SineStates /\ ramp' \in RampStates
  BY AdvanceType DEF DataOK, LFOsAdvance

LEMMA ContinueType ==
  ASSUME ControlOK, NEW skip \in Nat, NEW raised \in SUBSET FlagNames, Continue(skip, raised)
  PROVE  ControlOK'
<1>1. Overflows' \subseteq FlagNames
  BY DEF Overflows, FlagNames
<1> QED BY <1>1, SMTT(60) DEF ControlOK, Continue, callVars

LEMMA ComputeType ==
  ASSUME TypeOK, NEW result \in Int32, Compute(result)
  PROVE  TypeOK'
<1>1. ControlOK'
  BY ContinueType DEF TypeOK, Compute
<1>2. sine' \in SineStates /\ ramp' \in RampStates
  BY LFOsAdvanceType DEF TypeOK, Compute
<1> QED BY <1>1, <1>2 DEF TypeOK, DataOK, Compute, registerVars

LEMMA CrashType == ASSUME TypeOK, Crash PROVE TypeOK'
  BY DEF TypeOK, ControlOK, DataOK, Crash, registerVars, callVars, Phases

LEMMA FailType ==
  ASSUME TypeOK, NEW raised \in SUBSET FlagNames, Fail(raised),
         PACC' \in Int32, lfoReg' \in [LfoTypes -> Unit]
  PROVE  TypeOK'
<1>1. sine' \in SineStates /\ ramp' \in RampStates
  BY LFOsAdvanceType DEF TypeOK, Fail
<1> QED BY <1>1 DEF TypeOK, ControlOK, DataOK, Fail, callVars, Phases

\* A register of the bank holds an int32.
LEMMA RegisterType ==
  ASSUME TypeOK, NEW r \in RegNos PROVE Registers[r] \in Int32
  BY DEF TypeOK, DataOK

LEMMA SpecialRegisters ==
  0 .. 7 \subseteq RegNos /\ {ADCL, ADCR, DACL, DACR, ADDR_PTR} \subseteq RegNos
  BY ProcessorAssumption, SMTT(60) DEF SpecialRegs, ADCL, ADCR, DACL, DACR, ADDR_PTR

-----------------------------------------------------------------------------
(* One lemma per group of actions *)

LEMMA ArithmeticType ==
  ASSUME TypeOK, SOF \/ LOG \/ EXP \/ AND \/ OR \/ XOR \/ CLR \/ NOT \/ ABSA
  PROVE  TypeOK'
<1>0. ACC \in Int32 /\ ACC \in Int /\ Int32 \subseteq Int /\ Coefficient \subseteq Int /\ Fix24 \subseteq Int
  BY ConstantSets DEF TypeOK, DataOK
<1>1. CASE SOF
  <2>1. Op.C \in Int /\ Op.D \in Int
    BY <1>0, <1>1, OpIsInstruction, OperandTypes DEF SOF
  <2>2. Mult(ACC, Op.C) \in Int
    BY <1>0, <2>1, ArithmeticInInt32
  <2> QED BY <1>1, <2>1, <2>2, ArithmeticInInt32, ComputeType DEF SOF
<1>2. CASE LOG
  <2>1. Op.C \in Int /\ Op.D \in Int
    BY <1>0, <1>2, OpIsInstruction, OperandTypes DEF LOG
  <2>2. ASSUME Abs(ACC) > 0
        PROVE  ((Log2(Abs(ACC)) * Op.C) \div One) + Op.D \in Int
    <3>1. Abs(ACC) \in 1 .. Word - 1
      BY <1>0, <2>2, AbsInInt32, PositiveConstants DEF Int32
    <3>2. Log2(Abs(ACC)) \in Int
      BY <3>1, OperatorAssumption
    <3>3. Log2(Abs(ACC)) * Op.C \in Int
      BY <2>1, <3>2
    <3>4. (Log2(Abs(ACC)) * Op.C) \div One \in Int
      BY <3>3, DivMod, PositiveConstants
    <3> QED BY <2>1, <3>4
  <2> DEFINE result == IF Abs(ACC) > 0
                         THEN SetClampedFloat64(((Log2(Abs(ACC)) * Op.C) \div One) + Op.D)
                         ELSE IF Op.C > 0 THEN -One ELSE One - 1
  <2>3. result \in Int32
    BY <2>2, SetClampedInFix24, ConstantSets, PositiveConstants DEF Fix24
  <2>4. Compute(result)
    BY <1>2 DEF LOG
  <2> HIDE DEF result
  <2> QED BY <2>3, <2>4, ComputeType
<1>3. CASE EXP
  <2>1. Op.C \in Int /\ Op.D \in Int
    BY <1>0, <1>3, OpIsInstruction, OperandTypes DEF EXP
  <2> DEFINE power == IF ACC >= 0 THEN One - 1 ELSE Exp2(ACC)
  <2>2. power \in Int
    BY <1>0, OperatorAssumption, PositiveConstants
  <2>3. Compute(Add(Mult(power, Op.C), Op.D))
    BY <1>3 DEF EXP
  <2> HIDE DEF power
  <2>4. Mult(power, Op.C) \in Int
    BY <1>0, <2>1, <2>2, ArithmeticInInt32
  <2> QED BY <2>1, <2>3, <2>4, ArithmeticInInt32, ComputeType
<1>4. ASSUME Issue("AND") \/ Issue("OR") \/ Issue("XOR")
      PROVE  Extend24to32(Op.mask) \in Int32
  <2>1. Op.mask \in Int
    BY <1>4, OpIsInstruction, OperandTypes, ConstantSets
  <2> QED BY <2>1, ExtendInInt32
<1>5. CASE AND
  BY <1>0, <1>4, <1>5, OperatorAssumption, ComputeType DEF AND
<1>6. CASE OR
  BY <1>0, <1>4, <1>6, OperatorAssumption, ComputeType DEF OR
<1>7. CASE XOR
  BY <1>0, <1>4, <1>7, OperatorAssumption, ComputeType DEF XOR
<1>8. 0 \in Int32 /\ -Word \in Int32
  BY PositiveConstants DEF Int32
<1>9. CASE CLR
  BY <1>8, <1>9, ComputeType DEF CLR
<1>10. CASE NOT
  <2>1. (IF ACC < 0 THEN -Word ELSE 0) \in Int32
    BY <1>8
  <2> QED BY <1>10, <2>1, ComputeType DEF NOT
<1>11. CASE ABSA
  BY <1>0, <1>11, AbsInInt32, ComputeType DEF ABSA
<1> QED BY <1>1, <1>2, <1>3, <1>5, <1>6, <1>7, <1>9, <1>10, <1>11

LEMMA RegisterReadType ==
  ASSUME TypeOK, RDAX \/ RDFX \/ MULX \/ MAXX \/ LDAX
  PROVE  TypeOK'
<1>0. ACC \in Int32 /\ ACC \in Int /\ Int32 \subseteq Int /\ Coefficient \subseteq Int
  BY ConstantSets DEF TypeOK, DataOK
<1>1. ASSUME Issue("RDAX") \/ Issue("RDFX") \/ Issue("MULX") \/ Issue("MAXX") \/ Issue("LDAX")
      PROVE  Registers[Op.reg] \in Int32 /\ Registers[Op.reg] \in Int /\ Op.C \in Int
  <2>1. Op.reg \in RegNos /\ Op.C \in Coefficient
    BY <1>1, OpIsInstruction, OperandTypes DEF RegisterOps
  <2> QED BY <1>0, <2>1, RegisterType
<1>2. CASE RDAX
  <2>1. Mult(Registers[Op.reg], Op.C) \in Int
    BY <1>0, <1>1, <1>2, ArithmeticInInt32 DEF RDAX
  <2> QED BY <1>0, <1>2, <2>1, ArithmeticInInt32, ComputeType DEF RDAX
<1>3. CASE RDFX
  <2> DEFINE reg == Registers[Op.reg]
  <2>1. reg \in Int /\ Op.C \in Int
    BY <1>1, <1>3 DEF RDFX
  <2>2. Compute(Add(Mult(Sub(ACC, reg), Op.C), reg))
    BY <1>3 DEF RDFX
  <2> HIDE DEF reg
  <2>3. Sub(ACC, reg) \in Int
    BY <1>0, <2>1, ArithmeticInInt32
  <2>4. Mult(Sub(ACC, reg), Op.C) \in Int
    BY <1>0, <2>1, <2>3, ArithmeticInInt32
  <2> QED BY <2>1, <2>2, <2>4, ArithmeticInInt32, ComputeType
<1>4. CASE MULX
  BY <1>0, <1>1, <1>4, ArithmeticInInt32, ComputeType DEF MULX
<1>5. CASE MAXX
  <2> DEFINE a == Abs(Mult(Registers[Op.reg], Op.C))
  <2>1. a \in Int32 /\ Abs(ACC) \in Int32
    BY <1>0, <1>1, <1>5, ArithmeticInInt32, AbsInInt32 DEF MAXX
  <2>2. Compute(IF a > Abs(ACC) THEN a ELSE Abs(ACC))
    BY <1>5 DEF MAXX
  <2> HIDE DEF a
  <2>3. (IF a > Abs(ACC) THEN a ELSE Abs(ACC)) \in Int32
    BY <2>1
  <2> QED BY <2>2, <2>3, ComputeType
<1>6. CASE LDAX
  <2>1. sine' \in SineStates /\ ramp' \in RampStates
    BY <1>6, LFOsAdvanceType DEF TypeOK, LDAX
  <2>2. ControlOK'
    BY <1>6, ContinueType DEF TypeOK, LDAX
  <2>3. ACC' \in Int32
    BY <1>1, <1>6 DEF LDAX
  <2> QED BY <1>6, <2>1, <2>2, <2>3 DEF TypeOK, DataOK, LDAX, registerVars
<1> QED BY <1>2, <1>3, <1>4, <1>5, <1>6

LEMMA ControlFlowType == ASSUME TypeOK, SKP \/ NOP PROVE TypeOK'
<1>1. ASSUME NEW skip \in Nat, Idle(skip) PROVE TypeOK'
  <2>1. sine' \in SineStates /\ ramp' \in RampStates
    BY <1>1, LFOsAdvanceType DEF TypeOK, Idle
  <2>2. ControlOK'
    BY <1>1, ContinueType DEF TypeOK, Idle
  <2> QED BY <1>1, <2>1, <2>2 DEF TypeOK, DataOK, Idle, registerVars
<1>2. CASE SKP
  <2>1. (IF Jumps THEN Op.N ELSE 0) \in Nat
    BY <1>2, OpIsInstruction, OperandTypes DEF SKP
  <2> QED BY <1>1, <1>2, <2>1 DEF SKP
<1>3. CASE NOP
  BY <1>1, <1>3 DEF NOP
<1> QED BY <1>2, <1>3

LEMMA IndexType ==
  ASSUME TypeOK, NEW a \in Int
  PROVE  Index(a) \in 0 .. MemSize - 1 /\ SignExtend(DelayRAM[Index(a)]) \in Fix24
<1>1. Index(a) \in 0 .. MemSize - 1
  BY DivMod, PositiveConstants DEF Index
<1> QED BY <1>1, SignExtendInFix24 DEF TypeOK, DataOK

LEMMA MemoryType ==
  ASSUME TypeOK,
         RDA \/ RDA_Fails \/ RMPA \/ RMPA_Fails \/ WRA \/ WRAP \/ WR_Fails
  PROVE  TypeOK'
<1>0. /\ ACC \in Int32 /\ ACC \in Int /\ LR \in Int /\ DelayRAMPtr \in Int
      /\ Int32 \subseteq Int /\ Coefficient \subseteq Int /\ Fix24 \subseteq Int
      /\ Addresses \subseteq Int
  BY ConstantSets, PositiveConstants DEF TypeOK, ControlOK, DataOK, Addresses
<1>1. Moved(IndirectAddress) \in Int
  <2>1. Registers[ADDR_PTR] \in Int
    BY <1>0, RegisterType, SpecialRegisters
  <2>2. Registers[ADDR_PTR] \div AddrDiv \in Int
    BY <2>1, DivMod, ProcessorAssumption
  <2> QED BY <1>0, <2>2 DEF Moved, IndirectAddress
<1>2. ASSUME NEW addr, Moved(addr) \in Int, Op.C \in Int, ReadMemory(addr)
      PROVE  TypeOK'
  <2>1. LR' \in Fix24
    BY <1>2, IndexType DEF ReadMemory
  <2>2. Mult(LR', Op.C) \in Int
    BY <1>0, <1>2, <2>1, ArithmeticInInt32
  <2>3. ACC' \in Int32
    BY <1>0, <1>2, <2>2, ArithmeticInInt32 DEF ReadMemory
  <2>4. sine' \in SineStates /\ ramp' \in RampStates
    BY <1>2, LFOsAdvanceType DEF TypeOK, ReadMemory
  <2>5. ControlOK'
    BY <1>2, ContinueType DEF TypeOK, ReadMemory
  <2> QED BY <1>2, <2>1, <2>3, <2>4, <2>5 DEF TypeOK, DataOK, ReadMemory
<1>3. ASSUME NEW addr, ReadFault(addr) PROVE TypeOK'
  <2>1. PACC' \in Int32 /\ lfoReg' \in [LfoTypes -> Unit]
    BY <1>3 DEF TypeOK, DataOK, ReadFault
  <2> QED BY <1>3, <2>1, FailType DEF ReadFault, FlagNames
<1>4. ASSUME NEW result \in Int32, Moved(Op.addr) \in Int, WriteMemory(result)
      PROVE  TypeOK'
  <2>1. DelayRAM' \in [0 .. MemSize - 1 -> Raw24]
    BY <1>0, <1>4, ToQFormatInRaw24 DEF TypeOK, DataOK, WriteMemory
  <2>2. sine' \in SineStates /\ ramp' \in RampStates
    BY <1>4, LFOsAdvanceType DEF TypeOK, WriteMemory
  <2>3. ControlOK'
    BY <1>4, ContinueType DEF TypeOK, WriteMemory
  <2> QED BY <1>4, <2>1, <2>2, <2>3 DEF TypeOK, DataOK, WriteMemory
<1>5. ASSUME WriteFault PROVE TypeOK'
  <2>1. PACC' \in Int32 /\ lfoReg' \in [LfoTypes -> Unit]
    BY <1>0, <1>5 DEF TypeOK, DataOK, WriteFault
  <2> QED BY <1>5, <2>1, FailType DEF WriteFault, FlagNames
<1>6. ASSUME Issue("RDA") \/ Issue("WRA") \/ Issue("WRAP")
      PROVE  Moved(Op.addr) \in Int /\ Op.C \in Int
  <2>1. Op.addr \in Addresses /\ Op.C \in Coefficient
    BY <1>6, OpIsInstruction, OperandTypes
  <2>2. Op.addr \in Int /\ Op.C \in Int
    BY <1>0, <2>1
  <2> QED BY <1>0, <2>2 DEF Moved
<1>7. CASE RDA
  BY <1>2, <1>6, <1>7 DEF RDA
<1>8. CASE RDA_Fails
  BY <1>3, <1>8 DEF RDA_Fails
<1>9. CASE RMPA
  <2>1. Op.C \in Int
    BY <1>0, <1>9, OpIsInstruction, OperandTypes DEF RMPA
  <2> QED BY <1>1, <1>2, <1>9, <2>1 DEF RMPA
<1>10. CASE RMPA_Fails
  BY <1>3, <1>10 DEF RMPA_Fails
<1>11. CASE WRA
  BY <1>0, <1>4, <1>6, <1>11, ArithmeticInInt32 DEF WRA
<1>12. CASE WRAP
  <2>1. Mult(ACC, Op.C) \in Int
    BY <1>0, <1>6, <1>12, ArithmeticInInt32 DEF WRAP
  <2>2. Add(Mult(ACC, Op.C), LR) \in Int32
    BY <1>0, <2>1, ArithmeticInInt32
  <2> QED BY <1>4, <1>6, <1>12, <2>2 DEF WRAP
<1>13. CASE WR_Fails
  BY <1>5, <1>13 DEF WR_Fails
<1> QED BY <1>7, <1>8, <1>9, <1>10, <1>11, <1>12, <1>13

\* What an instruction that writes a register has to be given.
LEMMA WriteRegisterType ==
  ASSUME TypeOK, NEW reg \in RegNos, NEW value \in Int32, NEW result \in Int32,
         NEW pacc \in Int32, WriteRegister(reg, value, result, pacc),
         sine' \in SineStates, ramp' \in RampStates
  PROVE  TypeOK'
<1>1. Registers' \in [RegNos -> Int32]
  BY DEF TypeOK, DataOK, WriteRegister
<1>2. ControlOK'
  BY ContinueType DEF TypeOK, WriteRegister
<1> QED BY <1>1, <1>2 DEF TypeOK, DataOK, WriteRegister

\* Setting one field of one oscillator after the tick.
LEMMA SetOscillatorType ==
  ASSUME TypeOK, NEW k \in 0 .. 1
  PROVE  /\ \A rate \in Int32 : SetSineRate(k, rate) => sine' \in SineStates /\ ramp' \in RampStates
         /\ \A freq \in RampRates : SetRampFreq(k, freq) => sine' \in SineStates /\ ramp' \in RampStates
         /\ [RampsAdvance(ramp) EXCEPT ![k].value = 0] \in RampStates
<1>1. SinesAdvance(sine) \in SineStates /\ RampsAdvance(ramp) \in RampStates
  BY AdvanceType DEF TypeOK, DataOK
<1>2. ASSUME NEW rate \in Int32
      PROVE  [SinesAdvance(sine) EXCEPT ![k].rate = rate] \in SineStates
  BY <1>1 DEF SineStates
<1>3. ASSUME NEW freq \in RampRates
      PROVE  [RampsAdvance(ramp) EXCEPT ![k].freq = freq] \in RampStates
  BY <1>1 DEF RampStates
<1>4. [RampsAdvance(ramp) EXCEPT ![k].value = 0] \in RampStates
  BY <1>1, PositiveConstants DEF RampStates
<1> QED BY <1>1, <1>2, <1>3, <1>4 DEF SetSineRate, SetRampFreq

LEMMA ShiftsInInt32 ==
  ASSUME TypeOK
  PROVE  /\ Abs(ACC) \div SinRateDiv \in Int32 /\ ACC \div SinRangeDiv \in Int32
         /\ RampFreq \in Int
<1>1. ACC \in Int32 /\ Abs(ACC) \in Int32 /\ ACC \in Int
  BY AbsInInt32, ConstantSets DEF TypeOK, DataOK
<1>2. {SinRateDiv, SinRangeDiv, RampRateDiv} \subseteq Nat \ {0} /\ 4 * RateHalf \in Nat \ {0}
  BY ProcessorAssumption, OscillatorAssumption, SMTT(60)
<1>3. (ACC \div RampRateDiv) + 2 * RateHalf \in Int
  <2>1. ACC \div RampRateDiv \in Int
    BY <1>1, <1>2, DivMod
  <2> QED BY <2>1, OscillatorAssumption
<1>4. RampFreq \in Int
  <2>1. ((ACC \div RampRateDiv) + 2 * RateHalf) % (4 * RateHalf) \in 0 .. 4 * RateHalf - 1
    BY <1>2, <1>3, DivMod
  <2> QED BY <2>1, OscillatorAssumption DEF RampFreq
<1> QED BY <1>1, <1>2, <1>4, ShiftInInt32

\* The rates and amplitudes that reach a register are int32 numbers.
LEMMA LfoNumbers ==
  /\ RampRates \subseteq Int32 /\ SinRates \subseteq Int32 /\ SinAmps \subseteq Int32
  /\ \A i \in 0 .. 3 : RampAmpValues[i] \in Int32
<1>1. RampRates \subseteq Int32
  BY PositiveConstants, ProcessorAssumption, OscillatorAssumption DEF RampRates, Int32
<1>2. ASSUME NEW d \in Nat \ {0} PROVE 0 .. (One \div d) - 1 \subseteq Int32
  <2>1. One \in Int32
    BY ConstantSets
  <2>2. One \div d \in Int32
    BY <1>2, <2>1, ShiftInInt32
  <2> QED BY <2>2, PositiveConstants DEF Int32
<1>3. \A i \in 0 .. 3 : RampAmpValues[i] \in Int32
  BY PositiveConstants, ProcessorAssumption, SMTT(60) DEF Int32
<1> QED BY <1>1, <1>2, <1>3, ProcessorAssumption DEF SinRates, SinAmps

LEMMA RegisterWriteType ==
  ASSUME TypeOK,
         WRLX \/ WRHX \/ WRAX_Plain \/ WRAX_SinRate \/ WRAX_SinRange \/ WRAX_RampRate
           \/ WRAX_RampRange
  PROVE  TypeOK'
<1>0. /\ ACC \in Int32 /\ PACC \in Int32 /\ ACC \in Int /\ PACC \in Int
      /\ Int32 \subseteq Int /\ Coefficient \subseteq Int
  BY ConstantSets DEF TypeOK, DataOK
<1>1. ASSUME Issue("WRLX") \/ Issue("WRHX") \/ Issue("WRAX")
      PROVE  Op.reg \in RegNos /\ Op.C \in Int
  <2>1. Op.reg \in RegNos /\ Op.C \in Coefficient
    BY <1>1, OpIsInstruction, OperandTypes DEF RegisterOps
  <2> QED BY <1>0, <2>1
<1>2. ASSUME LFOsAdvance PROVE sine' \in SineStates /\ ramp' \in RampStates
  BY <1>2, LFOsAdvanceType DEF TypeOK
<1>3. ASSUME NEW value \in Int32, Issue("WRAX"), WriteACC(value),
             sine' \in SineStates, ramp' \in RampStates
      PROVE  TypeOK'
  <2>1. Mult(ACC, Op.C) \in Int32
    BY <1>0, <1>1, <1>3, ArithmeticInInt32
  <2> QED BY <1>0, <1>1, <1>3, <2>1, WriteRegisterType DEF WriteACC
<1>4. CASE WRLX
  <2>1. Mult(Sub(PACC, ACC), Op.C) \in Int
    <3>1. Sub(PACC, ACC) \in Int
      BY <1>0, ArithmeticInInt32
    <3> QED BY <1>0, <1>1, <1>4, <3>1, ArithmeticInInt32 DEF WRLX
  <2>2. Add(Mult(Sub(PACC, ACC), Op.C), PACC) \in Int32
    BY <1>0, <2>1, ArithmeticInInt32
  <2> QED BY <1>0, <1>1, <1>2, <1>4, <2>2, WriteRegisterType DEF WRLX
<1>5. CASE WRHX
  <2>1. Mult(ACC, Op.C) \in Int
    BY <1>0, <1>1, <1>5, ArithmeticInInt32 DEF WRHX
  <2>2. Add(Mult(ACC, Op.C), PACC) \in Int32
    BY <1>0, <2>1, ArithmeticInInt32
  <2> QED BY <1>0, <1>1, <1>2, <1>5, <2>2, WriteRegisterType DEF WRHX
<1>6. CASE WRAX_Plain
  BY <1>0, <1>2, <1>3, <1>6 DEF WRAX_Plain
<1>7. CASE WRAX_SinRate
  <2> DEFINE rate == Abs(ACC) \div SinRateDiv
             k    == IF Op.reg = SIN0_RATE THEN 0 ELSE 1
  <2>1. Issue("WRAX") /\ WriteACC(rate) /\ SetSineRate(k, rate) /\ k \in 0 .. 1
    BY <1>7 DEF WRAX_SinRate
  <2>2. rate \in Int32
    BY ShiftsInInt32
  <2> HIDE DEF rate, k
  <2> QED BY <1>3, <2>1, <2>2, SetOscillatorType
<1>8. CASE WRAX_SinRange
  BY <1>2, <1>3, <1>8, ShiftsInInt32 DEF WRAX_SinRange
<1>9. CASE WRAX_RampRate
  <2> DEFINE k == IF Op.reg = RAMP0_RATE THEN 0 ELSE 1
  <2>1. /\ Issue("WRAX") /\ WriteACC(RampFreq) /\ SetRampFreq(k, RampFreq) /\ k \in 0 .. 1
        /\ RampFreq \in RampRates
    BY <1>9 DEF WRAX_RampRate
  <2> HIDE DEF k
  <2> QED BY <1>3, <2>1, SetOscillatorType, LfoNumbers
<1>10. CASE WRAX_RampRange
  <2>1. RampAmpValues[3 - AmpIdx] \in Int32
    BY <1>10, LfoNumbers DEF WRAX_RampRange
  <2> QED BY <1>2, <1>3, <1>10, <2>1 DEF WRAX_RampRange
<1> QED BY <1>4, <1>5, <1>6, <1>7, <1>8, <1>9, <1>10

LEMMA LfoSetupType == ASSUME TypeOK, WLDS \/ WLDR \/ JAM PROVE TypeOK'
<1>1. ASSUME NEW rateReg \in RegNos, NEW rate \in Int32, NEW rangeReg \in RegNos,
             NEW range \in Int32, NEW raised \in SUBSET FlagNames,
             LoadLFO(rateReg, rate, rangeReg, range, raised),
             sine' \in SineStates, ramp' \in RampStates
      PROVE  TypeOK'
  <2>1. Registers' \in [RegNos -> Int32]
    BY <1>1 DEF TypeOK, DataOK, LoadLFO
  <2>2. ControlOK'
    BY <1>1, ContinueType DEF TypeOK, LoadLFO
  <2> QED BY <1>1, <2>1, <2>2 DEF TypeOK, DataOK, LoadLFO
<1>2. CASE WLDS
  <2>1. Op.lfo \in 0 .. 1 /\ Op.freq \in Int32 /\ Op.amp \in Int32
    BY <1>2, OpIsInstruction, OperandTypes, LfoNumbers DEF WLDS
  <2>2. 2 * Op.lfo \in RegNos /\ 2 * Op.lfo + 1 \in RegNos
    BY <2>1, SpecialRegisters
  <2>3. sine' \in SineStates /\ ramp' \in RampStates
    BY <1>2, <2>1, SetOscillatorType DEF WLDS
  <2>4. LoadLFO(2 * Op.lfo, Op.freq, 2 * Op.lfo + 1, Op.amp, {})
    BY <1>2 DEF WLDS
  <2> QED BY <1>1, <2>1, <2>2, <2>3, <2>4
<1>3. CASE WLDR
  <2> DEFINE freq   == IF Op.freq < -RateHalf THEN 1 - RateHalf ELSE Op.freq
             raised == IF ~(Op.freq < -RateHalf) THEN {}
                       ELSE IF Op.lfo = 0 THEN {"InvalidRamp0Values"} ELSE {"InvalidRamp1Values"}
  <2>1. Op.lfo \in 0 .. 1 /\ Op.freq \in Int16 /\ Op.ampIdx \in 0 .. 3
    BY <1>3, OpIsInstruction, OperandTypes DEF WLDR
  <2>2. freq \in RampRates /\ freq \in Int32
    <3>1. freq \in RampRates
      BY <2>1, OscillatorAssumption DEF RampRates, Int16
    <3> QED BY <3>1, LfoNumbers
  <2>3. RampAmpValues[Op.ampIdx] \in Int32
    BY <2>1, LfoNumbers
  <2>4. 4 + 2 * Op.lfo \in RegNos /\ 5 + 2 * Op.lfo \in RegNos
    BY <2>1, SpecialRegisters
  <2>5. raised \in SUBSET FlagNames
    BY DEF FlagNames
  <2>6. /\ SetRampFreq(Op.lfo, freq)
        /\ LoadLFO(4 + 2 * Op.lfo, freq, 5 + 2 * Op.lfo, RampAmpValues[Op.ampIdx], raised)
    BY <1>3 DEF WLDR
  <2> HIDE DEF freq, raised
  <2>7. sine' \in SineStates /\ ramp' \in RampStates
    BY <2>1, <2>2, <2>6, SetOscillatorType
  <2> QED BY <1>1, <2>2, <2>3, <2>4, <2>5, <2>6, <2>7
<1>4. CASE JAM
  <2>1. Op.lfo \in 0 .. 1
    BY <1>4, OpIsInstruction, OperandTypes DEF JAM
  <2>2. sine' \in SineStates /\ ramp' \in RampStates
    BY <1>4, <2>1, AdvanceType, SetOscillatorType DEF JAM, TypeOK, DataOK
  <2>3. ControlOK'
    BY <1>4, ContinueType DEF TypeOK, JAM
  <2> QED BY <1>4, <2>2, <2>3 DEF TypeOK, DataOK, JAM, registerVars
<1> QED BY <1>2, <1>3, <1>4

-----------------------------------------------------------------------------
(* CHO *)

LEMMA LfoRegAfterType ==
  ASSUME TypeOK, NEW typ \in LfoTypes
  PROVE  LfoRegAfter(typ) \in [LfoTypes -> Unit]
<1>1. SinesAdvance(sine) \in SineStates /\ RampsAdvance(ramp) \in RampStates
  BY AdvanceType DEF TypeOK, DataOK
<1>2. lfoReg \in [LfoTypes -> Unit]
  BY DEF TypeOK, DataOK
<1>3. \A t \in LfoTypes : Sample(t, SinesAdvance(sine), RampsAdvance(ramp)) \in Unit
  BY <1>1, SampleType
<1>4. Freeze(lfoReg, typ, SinesAdvance(sine), RampsAdvance(ramp)) \in [LfoTypes -> Unit]
  BY <1>2, <1>3 DEF Freeze
<1> QED BY <1>2, <1>4 DEF LfoRegAfter

LEMMA LfoValueType ==
  ASSUME TypeOK, NEW typ \in LfoTypes, NEW honoured
  PROVE  LfoValue(typ, honoured) \in Int
<1>1. LfoRegAfter(typ)[typ] \in Unit
  BY LfoRegAfterType
<1>2. LfoRegAfter(typ)[typ] \in Int /\ One \div 2 \in Int
  BY <1>1, DivMod, PositiveConstants DEF Unit
<1>3. PlusHalfCycle(LfoRegAfter(typ)[typ]) \in Int
  BY <1>2, PositiveConstants DEF PlusHalfCycle
<1> QED BY <1>2, <1>3 DEF LfoValue

LEMMA ChoTypInLfoTypes ==
  ASSUME Op.typ \in 0 .. 3, NEW honoured, Misused(honoured) = {}
  PROVE  ChoTyp(honoured) \in LfoTypes
<1>1. Op.typ \in 0 .. 3
  OBVIOUS
<1>2. CASE "COS" \in honoured
  <2>1. isSinLFO(Op.typ)
    BY <1>2 DEF Misused
  <2>2. ChoTyp(honoured) = Op.typ + 4
    BY <1>2 DEF ChoTyp
  <2>3. Op.typ \in {0, 1}
    BY <1>1, <2>1 DEF isSinLFO, LFO_SIN0, LFO_SIN1, LFO_COS0, LFO_COS1
  <2> QED BY <2>2, <2>3 DEF LfoTypes
<1>3. CASE "COS" \notin honoured
  <2>1. ChoTyp(honoured) = Op.typ
    BY <1>3 DEF ChoTyp
  <2> QED BY <1>1, <2>1 DEF LfoTypes
<1> QED BY <1>2, <1>3

LEMMA ChoTypType ==
  ASSUME TypeOK, Issue("CHO_RDA") \/ Issue("CHO_SOF") \/ Issue("CHO_RDAL"), NEW honoured,
         Misused(honoured) = {}
  PROVE  ChoTyp(honoured) \in LfoTypes
<1>1. Op.typ \in 0 .. 3
  BY OpIsInstruction, OperandTypes
<1> QED BY <1>1, ChoTypInLfoTypes

LEMMA ChoDoneType ==
  ASSUME TypeOK, NEW typ \in LfoTypes, NEW result \in Int32, ChoDone(typ, result),
         LR' \in Fix24
  PROVE  TypeOK'
<1>1. lfoReg' \in [LfoTypes -> Unit]
  BY LfoRegAfterType DEF ChoDone
<1>2. sine' \in SineStates /\ ramp' \in RampStates
  BY LFOsAdvanceType DEF TypeOK, ChoDone
<1>3. ControlOK'
  BY ContinueType DEF TypeOK, ChoDone
<1> QED BY <1>1, <1>2, <1>3 DEF TypeOK, DataOK, ChoDone

\* A pointer into the RAM can be computed for every tap.
LEMMA RdaOffsetType ==
  ASSUME TypeOK, RdaTyp \in LfoTypes
  PROVE  ScaleLFO(RdaLfo, RdaTyp, Registers[RangeReg(RdaTyp)]) \in Int
<1>1. RdaTyp \in LfoTypes
  OBVIOUS
<1>2. RangeReg(RdaTyp) \in RegNos
  <2>1. Bank(RdaTyp) \in 0 .. 1
    BY <1>1 DEF Bank, LfoTypes
  <2>2. RangeReg(RdaTyp) \in 0 .. 7
    BY <2>1 DEF RangeReg
  <2> QED BY <2>2, SpecialRegisters
<1>3. Registers[RangeReg(RdaTyp)] \in Int
  BY <1>2, RegisterType, ConstantSets
<1> DEFINE range == Registers[RangeReg(RdaTyp)]
           lfo   == LfoValue(RdaTyp, Op.flags)
<1>4. lfo \in Int
  BY <1>1, LfoValueType
<1>5. RdaLfo \in Int
  <2>1. range * One \in Int
    BY <1>3, PositiveConstants
  <2>2. RampRange(range) \in Int
    BY <2>1, TruncateInInt, PositiveConstants DEF RampRange
  <2> HIDE DEF lfo
  <2>3. RdaLfo \in {lfo, -lfo, RampRange(range) - lfo}
    BY DEF RdaLfo, lfo
  <2> HIDE DEF range
  <2> QED BY <1>4, <2>2, <2>3
<1>6. RdaLfo * range \in Int
  BY <1>3, <1>5
<1> QED BY <1>6, TruncateInInt, PositiveConstants DEF ScaleLFO

LEMMA RdaIndexType ==
  ASSUME TypeOK, IssueRDA
  PROVE  RdaIndex \in Int
<1>6. ScaleLFO(RdaLfo, RdaTyp, Registers[RangeReg(RdaTyp)]) \in Int
  BY ChoTypType, RdaOffsetType DEF IssueRDA, RdaTyp
<1>7. DelayRAMPtr \in Int /\ Op.addr \in Int
  <2>1. Op.addr \in Addresses
    BY OpIsInstruction, OperandTypes DEF IssueRDA
  <2> QED BY <2>1, PositiveConstants DEF TypeOK, ControlOK, Addresses
<1> QED BY <1>6, <1>7 DEF RdaIndex

LEMMA ChoType ==
  ASSUME TypeOK, CHO_RDA_XFade \/ CHO_RDA_Tap \/ CHO_SOF \/ CHO_RDAL
  PROVE  TypeOK'
<1>0. /\ ACC \in Int /\ LR \in Fix24 /\ Unit \subseteq Int32 /\ Int32 \subseteq Int
      /\ Fix24 \subseteq Int
  BY ConstantSets DEF TypeOK, DataOK
<1>1. CASE CHO_RDA_XFade
  <2>1. RdaTyp \in LfoTypes
    BY <1>1, ChoTypType DEF CHO_RDA_XFade, IssueRDA, RdaTyp
  <2>2. RdaFade \in Int
    BY <1>0, <1>1 DEF CHO_RDA_XFade, FloatAccepted
  <2>3. Op.addr \in Int
    <3>1. Op.addr \in Addresses
      BY <1>1, OpIsInstruction, OperandTypes DEF CHO_RDA_XFade, IssueRDA
    <3> QED BY <3>1, PositiveConstants DEF Addresses
  <2>4. Mult(Op.addr, RdaFade) \in Int
    BY <1>0, <2>2, <2>3, ArithmeticInInt32
  <2>5. Add(ACC, Mult(Op.addr, RdaFade)) \in Int32
    BY <1>0, <2>4, ArithmeticInInt32
  <2> QED BY <1>0, <1>1, <2>1, <2>5, ChoDoneType DEF CHO_RDA_XFade
<1>2. CASE CHO_RDA_Tap
  <2>1. RdaTyp \in LfoTypes
    BY <1>2, ChoTypType DEF CHO_RDA_Tap, IssueRDA, RdaTyp
  <2>2. LR' \in Fix24
    BY <1>2, RdaIndexType, IndexType DEF CHO_RDA_Tap
  <2>3. RdaScale \in Int
    BY <1>0, <1>2 DEF CHO_RDA_Tap, RdaTapPanics, FloatAccepted
  <2>4. Mult(LR', RdaScale) \in Int
    BY <1>0, <2>2, <2>3, ArithmeticInInt32
  <2>5. Add(ACC, Mult(LR', RdaScale)) \in Int32
    BY <1>0, <2>4, ArithmeticInInt32
  <2> QED BY <1>2, <2>1, <2>2, <2>5, ChoDoneType DEF CHO_RDA_Tap
<1>3. CASE CHO_SOF
  <2>1. Misused(Op.flags) = {} /\ SofScale \in Int
    BY <1>0, <1>3 DEF CHO_SOF, SofPanics, FloatAccepted
  <2>2. SofTyp \in LfoTypes
    BY <1>3, <2>1, ChoTypType DEF CHO_SOF, SofTyp
  <2>3. Op.D \in Int
    BY <1>0, <1>3, OpIsInstruction, OperandTypes DEF CHO_SOF
  <2>4. Mult(ACC, SofScale) \in Int
    BY <1>0, <2>1, ArithmeticInInt32
  <2>5. Add(Mult(ACC, SofScale), Op.D) \in Int32
    BY <2>3, <2>4, ArithmeticInInt32
  <2> QED BY <1>0, <1>3, <2>2, <2>5, ChoDoneType DEF CHO_SOF
<1>4. CASE CHO_RDAL
  <2>1. Misused(RdalFlags) = {} /\ RdalValue \in Int32
    BY <1>0, <1>4 DEF CHO_RDAL, RdalPanics, FloatAccepted
  <2>2. RdalTyp \in LfoTypes
    BY <1>4, <2>1, ChoTypType DEF CHO_RDAL, RdalTyp
  <2> QED BY <1>0, <1>4, <2>1, <2>2, ChoDoneType DEF CHO_RDAL
<1> QED BY <1>1, <1>2, <1>3, <1>4

\* A CHO RDA that fails may have frozen the LFO first.
LEMMA ChoFailsType == ASSUME TypeOK, CHO_RDA_Fails PROVE TypeOK'
<1>1. lfoReg' \in [LfoTypes -> Unit]
  <2>1. CASE isSinLFO(Op.typ)
    <3>1. Op.typ \in 0 .. 3
      BY OpIsInstruction, OperandTypes DEF CHO_RDA_Fails
    <3>2. RdaTyp \in LfoTypes
      BY <2>1, <3>1 DEF RdaTyp, ChoTyp, LfoTypes, isSinLFO, LFO_SIN0, LFO_SIN1, LFO_COS0, LFO_COS1
    <3> QED BY <2>1, <3>2, LfoRegAfterType DEF CHO_RDA_Fails
  <2>2. CASE ~isSinLFO(Op.typ)
    BY <2>2 DEF CHO_RDA_Fails, TypeOK, DataOK
  <2> QED BY <2>1, <2>2
<1>2. PACC' \in Int32
  BY DEF CHO_RDA_Fails, TypeOK, DataOK
<1> QED BY <1>1, <1>2, FailType DEF CHO_RDA_Fails

-----------------------------------------------------------------------------
(* Around the loop, and the theorem *)

LEMMA StartSampleType ==
  ASSUME TypeOK, NEW in \in Inputs \cup {<<0, 0>>}, StartSample(in[1], in[2])
  PROVE  TypeOK'
<1>0. in \in Unit \X Unit
  <2>1. CASE in \in Inputs
    BY <2>1, ProcessorAssumption
  <2>2. CASE in = <<0, 0>>
    BY <2>2, ConstantSets
  <2> QED BY <2>1, <2>2
<1>1. in[1] \in Int32 /\ in[2] \in Int32
  BY <1>0, ConstantSets
<1>2. Registers' \in [RegNos -> Int32]
  BY <1>1 DEF TypeOK, DataOK, StartSample
<1>3. ControlOK'
  <2>1. sampleNum' \in 0 .. MaxSamples
    <3>1. sampleNum \in 0 .. MaxSamples
      BY DEF TypeOK, ControlOK
    <3>2. sampleNum < MaxSamples /\ sampleNum' = sampleNum + 1
      BY DEF StartSample
    <3>3. MaxSamples \in Nat
      BY ProcessorAssumption
    <3> QED BY <3>1, <3>2, <3>3
  <2> QED BY <2>1 DEF TypeOK, ControlOK, StartSample, Phases
<1> QED BY <1>2, <1>3 DEF TypeOK, DataOK, StartSample

LEMMA AroundLoopType == ASSUME TypeOK, EndProgram \/ PadCycle \/ EndSample PROVE TypeOK'
<1>1. CASE EndProgram
  <2>1. DelayRAMPtr' \in 1 - MemSize .. 0
    BY <1>1, PositiveConstants DEF TypeOK, ControlOK, EndProgram
  <2> QED BY <1>1, <2>1 DEF TypeOK, ControlOK, DataOK, EndProgram, registerVars, Phases
<1>2. CASE PadCycle
  <2>1. sine' \in SineStates /\ ramp' \in RampStates
    BY <1>2, LFOsAdvanceType DEF TypeOK, PadCycle
  <2> QED BY <1>2, <2>1 DEF TypeOK, ControlOK, DataOK, PadCycle, registerVars, callVars
<1>3. CASE EndSample
  BY <1>3 DEF TypeOK, ControlOK, DataOK, EndSample, registerVars, Phases
<1> QED BY <1>1, <1>2, <1>3

LEMMA InitType == ASSUME Init PROVE TypeOK
<1>1. ControlOK
  <2>1. sampleNum \in 0 .. MaxSamples /\ DelayRAMPtr \in 1 - MemSize .. 0
    BY PositiveConstants, ProcessorAssumption DEF Init
  <2>2. prog \in Seq(Instruction)
    BY ProcessorAssumption DEF Init
  <2>3. phase \in Phases /\ flags \subseteq FlagNames /\ RUN_FLAG \in BOOLEAN
    BY DEF Init, Phases
  <2>4. {IP, cycles, ticks, completed} \subseteq Nat
    BY DEF Init
  <2> QED BY <2>1, <2>2, <2>3, <2>4 DEF ControlOK
<1>2. 0 \in Int32 /\ 0 \in Fix24 /\ 0 \in Unit /\ 0 \in Raw24 /\ 0 \in RampRates
  BY PositiveConstants, OscillatorAssumption DEF Int32, Fix24, Unit, Raw24, RampRates
<1>3. \A r \in POT0 .. POT2 : SetClampedFloat64(Pots[r]) \in Int32
  BY ProcessorAssumption, SetClampedInFix24, ConstantSets
<1>4. Registers \in [RegNos -> Int32]
  BY <1>2, <1>3, LfoNumbers DEF Init
<1>5. sine \in SineStates /\ ramp \in RampStates
  BY <1>2, PositiveConstants DEF Init, SineStates, RampStates
<1> QED BY <1>1, <1>2, <1>4, <1>5, PositiveConstants DEF Init, TypeOK, DataOK

LEMMA NextType == ASSUME TypeOK, [Next]_vars PROVE TypeOK'
<1>1. CASE \E in \in Inputs \cup {<<0, 0>>} : StartSample(in[1], in[2])
  BY <1>1, StartSampleType
<1>2. CASE Execute
  BY <1>2, ArithmeticType, RegisterReadType, ControlFlowType, MemoryType, RegisterWriteType,
     LfoSetupType, ChoType DEF Execute
<1>3. CASE Error
  BY <1>3, MemoryType, ChoFailsType DEF Error
<1>4. CASE Panic
  BY <1>4, CrashType DEF Panic, LOG_Panics, WRAX_Panics, CHO_RDA_Panics, CHO_SOF_Panics,
     CHO_RDAL_Panics, Update_Panics
<1>5. CASE EndProgram \/ PadCycle \/ EndSample
  BY <1>5, AroundLoopType
<1>6. CASE UNCHANGED vars
  BY <1>6 DEF TypeOK, ControlOK, DataOK, vars
<1> QED BY <1>1, <1>2, <1>3, <1>4, <1>5, <1>6 DEF Next

\* TypeOK is inductive as it stands: whatever programs, samples and settings
\* there are, the pointer stays within one turn of the RAM, every cell keeps a
\* 24-bit pattern and every ramp keeps a rate that its Update accepts.
THEOREM TypeCorrect == Spec => []TypeOK
<1>1. Init => TypeOK
  BY InitType
<1>2. TypeOK /\ [Next]_vars => TypeOK'
  BY NextType
<1> QED BY <1>1, <1>2, PTL DEF Spec
=============================================================================
