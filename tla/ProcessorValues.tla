-------------------------- MODULE ProcessorValues ---------------------------
(***************************************************************************)
(* What values the registers and the frozen LFOs of Processor can hold,    *)
(* and which of the debug flags they can raise.                            *)
(***************************************************************************)
EXTENDS ProcessorSafety

(* The frozen sines and cosines *)

\* Freezing takes both from the oscillator as it is, or neither.
LEMMA FreezeTogether ==
  ASSUME TypeOK, FrozenTogether, NEW typ \in LfoTypes, NEW s \in SineStates, NEW r \in RampStates,
         NEW k \in 0 .. 1
  PROVE  LET after == Freeze(lfoReg, typ, s, r)
         IN  \/ after[k] = 0 /\ after[k + 4] = 0
             \/ \E p \in 0 .. Period - 1 : /\ after[k] = GetSine([phase |-> p])
                                           /\ after[k + 4] = GetCosine([phase |-> p])
<1> DEFINE after == Freeze(lfoReg, typ, s, r)
<1>1. k \in LfoTypes /\ k + 4 \in LfoTypes /\ Bank(k) = k /\ Bank(k + 4) = k
  BY DEF LfoTypes, Bank
<1>2. isSinLFO(k) /\ isSinLFO(k + 4)
  BY DEF isSinLFO, LFO_SIN0, LFO_SIN1, LFO_COS0, LFO_COS1
<1>3. k \in Frozen(typ) <=> k + 4 \in Frozen(typ)
  BY <1>1, <1>2 DEF Frozen
<1>4. CASE k \in Frozen(typ)
  <2>1. after[k] = Sample(k, s, r) /\ after[k + 4] = Sample(k + 4, s, r)
    BY <1>1, <1>3, <1>4 DEF Freeze
  <2>2. Sample(k, s, r) = GetSine(s[k]) /\ Sample(k + 4, s, r) = GetCosine(s[k])
    BY <1>1 DEF Sample, LFO_SIN0, LFO_SIN1, LFO_COS0, LFO_COS1
  <2>3. s[k].phase \in 0 .. Period - 1
    BY DEF SineStates
  <2>4. GetSine(s[k]) = GetSine([phase |-> s[k].phase])
        /\ GetCosine(s[k]) = GetCosine([phase |-> s[k].phase])
    BY DEF GetSine, GetCosine
  <2> QED BY <2>1, <2>2, <2>3, <2>4
<1>5. CASE k \notin Frozen(typ)
  <2>1. after[k] = lfoReg[k] /\ after[k + 4] = lfoReg[k + 4]
    BY <1>1, <1>3, <1>5 DEF Freeze
  <2> QED BY <2>1 DEF FrozenTogether
<1> QED BY <1>4, <1>5

LEMMA LfoRegTogether ==
  ASSUME TypeOK, FrozenTogether, NEW typ \in LfoTypes, lfoReg' = LfoRegAfter(typ)
  PROVE  FrozenTogether'
<1>1. SinesAdvance(sine) \in SineStates /\ RampsAdvance(ramp) \in RampStates
  BY AdvanceType DEF TypeOK, DataOK
<1>2. CASE "REG" \in Op.flags
  BY <1>1, <1>2, FreezeTogether DEF LfoRegAfter, FrozenTogether
<1>3. CASE "REG" \notin Op.flags
  BY <1>3 DEF LfoRegAfter, FrozenTogether
<1> QED BY <1>2, <1>3

\* Every step keeps the frozen values or freezes those of one LFO.
LEMMA LfoRegStep ==
  ASSUME TypeOK, [Next]_vars
  PROVE  lfoReg' = lfoReg \/ \E typ \in LfoTypes : lfoReg' = LfoRegAfter(typ)
<1>1. CASE Execute
  <2>1. CASE CHO_RDA_XFade \/ CHO_RDA_Tap
    <3>1. RdaTyp \in LfoTypes
      BY <2>1, ChoTypType DEF CHO_RDA_XFade, CHO_RDA_Tap, IssueRDA, RdaTyp
    <3> QED BY <2>1, <3>1 DEF CHO_RDA_XFade, CHO_RDA_Tap, ChoDone
  <2>2. CASE CHO_SOF
    <3>1. SofTyp \in LfoTypes
      BY <2>2, ChoTypType DEF CHO_SOF, SofPanics, SofTyp
    <3> QED BY <2>2, <3>1 DEF CHO_SOF, ChoDone
  <2>3. CASE CHO_RDAL
    <3>1. RdalTyp \in LfoTypes
      BY <2>3, ChoTypType DEF CHO_RDAL, RdalPanics, RdalTyp
    <3> QED BY <2>3, <3>1 DEF CHO_RDAL, ChoDone
  <2>4. CASE SOF \/ LOG \/ EXP \/ AND \/ OR \/ XOR \/ CLR \/ NOT \/ ABSA
    BY <2>4 DEF SOF, LOG, EXP, AND, OR, XOR, CLR, NOT, ABSA, Compute, registerVars
  <2>5. CASE RDAX \/ RDFX \/ MULX \/ MAXX \/ LDAX
    BY <2>5 DEF RDAX, RDFX, MULX, MAXX, LDAX, Compute, registerVars
  <2>6. CASE SKP \/ NOP \/ JAM
    BY <2>6 DEF SKP, NOP, JAM, Idle, registerVars
  <2>7. CASE RDA \/ RMPA \/ WRA \/ WRAP
    BY <2>7 DEF RDA, RMPA, WRA, WRAP, ReadMemory, WriteMemory
  <2>8. CASE WRLX \/ WRHX \/ WRAX_Plain \/ WRAX_SinRate \/ WRAX_SinRange \/ WRAX_RampRate
               \/ WRAX_RampRange
    BY <2>8 DEF WRLX, WRHX, WRAX_Plain, WRAX_SinRate, WRAX_SinRange, WRAX_RampRate, WRAX_RampRange,
       WriteACC, WriteRegister
  <2>9. CASE WLDS \/ WLDR
    BY <2>9 DEF WLDS, WLDR, LoadLFO
  <2> QED BY <1>1, <2>1, <2>2, <2>3, <2>4, <2>5, <2>6, <2>7, <2>8, <2>9 DEF Execute
<1>2. CASE Error
  <2>1. CASE CHO_RDA_Fails /\ isSinLFO(Op.typ)
    <3>1. Op.typ \in 0 .. 3
      BY <2>1, OpIsInstruction, OperandTypes DEF CHO_RDA_Fails
    <3>2. RdaTyp \in LfoTypes
      BY <2>1, <3>1 DEF RdaTyp, ChoTyp, LfoTypes, isSinLFO, LFO_SIN0, LFO_SIN1, LFO_COS0, LFO_COS1
    <3> QED BY <2>1, <3>2 DEF CHO_RDA_Fails
  <2>2. CASE ~(CHO_RDA_Fails /\ isSinLFO(Op.typ))
    BY <1>2, <2>2 DEF Error, RDA_Fails, RMPA_Fails, WR_Fails, CHO_RDA_Fails, ReadFault, WriteFault
  <2> QED BY <2>1, <2>2
<1>3. CASE Panic
  BY <1>3 DEF Panic, LOG_Panics, WRAX_Panics, CHO_RDA_Panics, CHO_SOF_Panics, CHO_RDAL_Panics,
     Update_Panics, Crash, registerVars
<1>4. CASE \E in \in Inputs \cup {<<0, 0>>} : StartSample(in[1], in[2])
  BY <1>4 DEF StartSample
<1>5. CASE EndProgram \/ PadCycle \/ EndSample
  BY <1>5 DEF EndProgram, PadCycle, EndSample, registerVars
<1>6. CASE UNCHANGED vars
  BY <1>6 DEF vars
<1> QED BY <1>1, <1>2, <1>3, <1>4, <1>5, <1>6 DEF Next

\* No sequence of CHO instructions, of either of the two sines, with or without
\* COS, in one sample or over several, failed ones among them, can pair a sine of
\* one moment with a cosine of another.
THEOREM FrozenAreTogether == Spec => []FrozenTogether
<1>1. Init => FrozenTogether
  BY DEF Init, FrozenTogether, LfoTypes
<1>2. TypeOK /\ FrozenTogether /\ [Next]_vars => FrozenTogether'
  <2> SUFFICES ASSUME TypeOK, FrozenTogether, [Next]_vars PROVE FrozenTogether'
    OBVIOUS
  <2>1. CASE lfoReg' = lfoReg
    BY <2>1 DEF FrozenTogether
  <2>2. CASE \E typ \in LfoTypes : lfoReg' = LfoRegAfter(typ)
    BY <2>2, LfoRegTogether
  <2> QED BY <2>1, <2>2, LfoRegStep
<1> QED BY <1>1, <1>2, TypeCorrect, PTL DEF Spec

-----------------------------------------------------------------------------
(* Values with the clamping on *)

UnitState ==
  /\ ACC \in Unit /\ PACC \in Unit /\ Registers \in [RegNos -> Unit]
  /\ flags \cap OverflowFlags = {}

\* What the arithmetic instructions are closed under is not 24 bits but [-1.0, 1.0],
\* because Abs leaves 1.0 in ACC; every other result is clamped.
UnitInv == Saturating => UnitState

LEMMA UnitResults ==
  ASSUME ~Disable24BitsClamping
  PROVE  /\ \A a, b \in Int : Add(a, b) \in Unit /\ Sub(a, b) \in Unit /\ Mult(a, b) \in Unit
         /\ \A a \in Unit : Abs(a) \in Unit /\ Abs(a) >= 0
<1>1. \A a, b \in Int : Add(a, b) \in Unit /\ Sub(a, b) \in Unit /\ Mult(a, b) \in Unit
  BY ClampedResults, ConstantSets
<1>2. ASSUME NEW a \in Unit PROVE Abs(a) \in Unit /\ Abs(a) >= 0
  <2>1. a < 0 => -a \in Int32
    BY FixedPointAssumption DEF Unit, Int32
  <2>2. a < 0 => Wrap(-a) = -a
    BY <2>1, WrapIdentity
  <2> QED BY <2>2, FixedPointAssumption DEF Abs, Unit
<1> QED BY <1>1, <1>2

\* A ramp's rate is small as a fixed-point number.
LEMMA RatesInUnit == 2 * RateHalf <= One
<1>1. One = RampRateDiv * (2 * RateHalf) /\ RampRateDiv \in Nat \ {0} /\ 2 * RateHalf \in Nat
  BY ScaleAssumption, ProcessorAssumption, OscillatorAssumption
<1> QED BY <1>1

\* A shift to the right of a value keeps it in range.
LEMMA ShiftInUnit ==
  ASSUME NEW a \in Unit, NEW b \in Nat \ {0}
  PROVE  a \div b \in Unit /\ (a >= 0 => a \div b \in 0 .. One)
<1>1. One \in Nat \ {0} /\ a \in Int /\ -One <= a /\ a <= One
  BY PositiveConstants DEF Unit
<1>2. b * (-One) <= a /\ a <= b * One
  BY <1>1
<1>3. a \div b \in -One .. One
  BY <1>1, <1>2, DivBounds
<1>4. ASSUME a >= 0 PROVE a \div b \in 0 .. One
  BY <1>1, <1>2, <1>4, DivBounds
<1> QED BY <1>3, <1>4 DEF Unit

\* Nothing is out of range at the end of a turn that leaves values in range.
LEMMA ContinueUnit ==
  ASSUME UnitState, LR' \in Fix24, ACC' \in Unit, PACC' \in Unit, Registers' \in [RegNos -> Unit],
         NEW skip, NEW raised, raised \cap OverflowFlags = {}, Continue(skip, raised)
  PROVE  UnitState'
<1>1. Registers'[DACL] \in Unit /\ Registers'[DACR] \in Unit
  BY SpecialRegisters
<1>2. Overflows' = {}
  BY <1>1, ConstantSets DEF Overflows, OverflowFlags
<1> QED BY <1>2 DEF UnitState, Continue

LEMMA ComputeUnit ==
  ASSUME TypeOK, UnitState, NEW result \in Unit, Compute(result)
  PROVE  UnitState'
<1>1. LR' \in Fix24 /\ ACC' \in Unit /\ PACC' \in Unit /\ Registers' \in [RegNos -> Unit]
  BY DEF Compute, registerVars, UnitState, TypeOK, DataOK
<1> QED BY <1>1, ContinueUnit DEF Compute

\* An instruction the program has, and the clamping, when it is issued.
LEMMA IssueSaturating ==
  ASSUME TypeOK, Saturating, NEW name, Issue(name)
  PROVE  name \notin {"AND", "OR", "XOR", "NOT"} /\ ~Disable24BitsClamping
<1>1. IP + 1 \in DOMAIN prog /\ prog[IP + 1].name = name
  BY DEF TypeOK, ControlOK, Issue, Op
<1>2. name \in OpsOf(prog)
  BY <1>1 DEF OpsOf
<1> QED BY <1>2 DEF Saturating

LEMMA UnitIntegers ==
  ASSUME TypeOK, UnitState
  PROVE  /\ ACC \in Int /\ PACC \in Int /\ LR \in Int
         /\ Unit \subseteq Int /\ Coefficient \subseteq Int /\ Fix24 \subseteq Int /\ Fix24 \subseteq Unit
  BY ConstantSets DEF UnitState, TypeOK, DataOK

LEMMA ArithmeticUnit ==
  ASSUME TypeOK, Saturating, UnitState, SOF \/ LOG \/ EXP \/ AND \/ OR \/ XOR \/ CLR \/ NOT \/ ABSA
  PROVE  UnitState'
<1>0. ~Disable24BitsClamping /\ ACC \in Int32 /\ ACC \in Int /\ Int32 \subseteq Int
  BY UnitIntegers, ConstantSets DEF Saturating, TypeOK, DataOK
<1>1. CASE SOF
  <2>1. Op.C \in Int /\ Op.D \in Int
    BY <1>1, UnitIntegers, OpIsInstruction, OperandTypes DEF SOF
  <2>2. Mult(ACC, Op.C) \in Int
    BY <1>0, <2>1, UnitIntegers, UnitResults
  <2> QED BY <1>0, <1>1, <2>1, <2>2, UnitResults, ComputeUnit DEF SOF
<1>2. CASE LOG
  <2>1. Op.C \in Int /\ Op.D \in Int
    BY <1>2, UnitIntegers, OpIsInstruction, OperandTypes DEF LOG
  <2>2. ASSUME Abs(ACC) > 0
        PROVE  ((Log2(Abs(ACC)) * Op.C) \div One) + Op.D \in Int
    <3>1. Abs(ACC) \in 1 .. Word - 1
      BY <1>0, <2>2, AbsInInt32, PositiveConstants DEF Int32
    <3>2. Log2(Abs(ACC)) \in Int
      BY <3>1, OperatorAssumption
    <3>3. Log2(Abs(ACC)) * Op.C \in Int
      BY <2>1, <3>2
    <3>4. (Log2(Abs(ACC)) * Op.C) \div One \in Int
      BY <3>3, DivMod, PositiveConstants
    <3> QED BY <2>1, <3>4
  <2> DEFINE result == IF Abs(ACC) > 0
                         THEN SetClampedFloat64(((Log2(Abs(ACC)) * Op.C) \div One) + Op.D)
                         ELSE IF Op.C > 0 THEN -One ELSE One - 1
  <2>3. result \in Unit
    BY <2>2, SetClampedInFix24, ConstantSets, PositiveConstants DEF Fix24
  <2>4. Compute(result)
    BY <1>2 DEF LOG
  <2> HIDE DEF result
  <2> QED BY <2>3, <2>4, ComputeUnit
<1>3. CASE EXP
  <2>1. Op.C \in Int /\ Op.D \in Int
    BY <1>3, UnitIntegers, OpIsInstruction, OperandTypes DEF EXP
  <2> DEFINE power == IF ACC >= 0 THEN One - 1 ELSE Exp2(ACC)
  <2>2. power \in Int
    BY <1>0, OperatorAssumption, PositiveConstants
  <2>3. Compute(Add(Mult(power, Op.C), Op.D))
    BY <1>3 DEF EXP
  <2> HIDE DEF power
  <2>4. Mult(power, Op.C) \in Int
    BY <2>1, <2>2, ArithmeticInInt32, ConstantSets
  <2> QED BY <1>0, <2>1, <2>3, <2>4, UnitResults, ComputeUnit
<1>4. ~(AND \/ OR \/ XOR \/ NOT)
  BY IssueSaturating DEF AND, OR, XOR, NOT
<1>5. CASE CLR
  BY <1>5, ConstantSets, ComputeUnit DEF CLR
<1>6. CASE ABSA
  BY <1>0, <1>6, UnitResults, ComputeUnit DEF ABSA, UnitState
<1> QED BY <1>1, <1>2, <1>3, <1>4, <1>5, <1>6

LEMMA RegisterReadUnit ==
  ASSUME TypeOK, Saturating, UnitState, RDAX \/ RDFX \/ MULX \/ MAXX \/ LDAX
  PROVE  UnitState'
<1>0. ~Disable24BitsClamping
  BY DEF Saturating
<1> DEFINE reg == Registers[Op.reg]
<1>1. reg \in Unit /\ reg \in Int /\ Op.C \in Int
  <2>1. Op.reg \in RegNos /\ Op.C \in Coefficient
    BY OpIsInstruction, OperandTypes DEF RegisterOps, RDAX, RDFX, MULX, MAXX, LDAX
  <2> QED BY <2>1, UnitIntegers DEF UnitState
<1>2. CASE RDAX
  <2>1. Compute(Add(ACC, Mult(reg, Op.C)))
    BY <1>2 DEF RDAX
  <2> HIDE DEF reg
  <2>2. Mult(reg, Op.C) \in Int
    BY <1>1, ArithmeticInInt32, ConstantSets
  <2> QED BY <1>0, <2>1, <2>2, UnitIntegers, UnitResults, ComputeUnit
<1>3. CASE RDFX
  <2>1. Compute(Add(Mult(Sub(ACC, reg), Op.C), reg))
    BY <1>3 DEF RDFX
  <2> HIDE DEF reg
  <2>2. Sub(ACC, reg) \in Int
    BY <1>1, ArithmeticInInt32, UnitIntegers, ConstantSets
  <2>3. Mult(Sub(ACC, reg), Op.C) \in Int
    BY <1>1, <2>2, ArithmeticInInt32, ConstantSets
  <2> QED BY <1>0, <1>1, <2>1, <2>3, UnitResults, ComputeUnit
<1>4. CASE MULX
  BY <1>0, <1>1, <1>4, UnitIntegers, UnitResults, ComputeUnit DEF MULX
<1>5. CASE MAXX
  <2> DEFINE a == Abs(Mult(reg, Op.C))
  <2>1. a \in Unit /\ Abs(ACC) \in Unit
    <3> HIDE DEF reg
    <3> QED BY <1>0, <1>1, UnitResults DEF UnitState
  <2>2. Compute(IF a > Abs(ACC) THEN a ELSE Abs(ACC))
    BY <1>5 DEF MAXX
  <2> HIDE DEF a
  <2>3. (IF a > Abs(ACC) THEN a ELSE Abs(ACC)) \in Unit
    BY <2>1
  <2> QED BY <2>2, <2>3, ComputeUnit
<1>6. CASE LDAX
  <2>1. LR' \in Fix24 /\ ACC' \in Unit /\ PACC' \in Unit /\ Registers' \in [RegNos -> Unit]
    BY <1>1, <1>6 DEF LDAX, registerVars, UnitState, TypeOK, DataOK
  <2> QED BY <1>6, <2>1, ContinueUnit DEF LDAX
<1> QED BY <1>2, <1>3, <1>4, <1>5, <1>6

LEMMA MemoryUnit ==
  ASSUME TypeOK, Saturating, UnitState, RDA \/ RMPA \/ WRA \/ WRAP, LR' \in Fix24
  PROVE  UnitState'
<1>0. ~Disable24BitsClamping
  BY DEF Saturating
<1>1. Op.C \in Int
  BY OpIsInstruction, OperandTypes, UnitIntegers DEF RDA, RMPA, WRA, WRAP
<1>2. ASSUME NEW addr, ReadMemory(addr) PROVE UnitState'
  <2>1. LR' \in Int
    BY UnitIntegers
  <2>2. Mult(LR', Op.C) \in Int
    BY <1>1, <2>1, ArithmeticInInt32, ConstantSets
  <2>3. Add(ACC, Mult(LR', Op.C)) \in Unit
    BY <1>0, <2>2, UnitIntegers, UnitResults
  <2>4. ACC' \in Unit /\ PACC' \in Unit /\ Registers' \in [RegNos -> Unit]
    BY <1>2, <2>3 DEF ReadMemory, UnitState
  <2> QED BY <1>2, <2>4, ContinueUnit DEF ReadMemory
<1>3. ASSUME NEW result \in Unit, WriteMemory(result) PROVE UnitState'
  <2>1. ACC' \in Unit /\ PACC' \in Unit /\ Registers' \in [RegNos -> Unit]
    BY <1>3 DEF WriteMemory, UnitState
  <2> QED BY <1>3, <2>1, ContinueUnit DEF WriteMemory
<1>4. Mult(ACC, Op.C) \in Unit /\ Mult(ACC, Op.C) \in Int
  BY <1>0, <1>1, UnitIntegers, UnitResults
<1>5. Add(Mult(ACC, Op.C), LR) \in Unit
  BY <1>0, <1>4, UnitIntegers, UnitResults
<1> QED BY <1>2, <1>3, <1>4, <1>5 DEF RDA, RMPA, WRA, WRAP

LEMMA RegisterWriteUnit ==
  ASSUME TypeOK, Saturating, UnitState,
         WRLX \/ WRHX \/ WRAX_Plain \/ WRAX_SinRate \/ WRAX_SinRange \/ WRAX_RampRate
           \/ WRAX_RampRange
  PROVE  UnitState'
<1>0. ~Disable24BitsClamping /\ ACC \in Unit
  BY DEF Saturating, UnitState
<1>1. Op.reg \in RegNos /\ Op.C \in Int
  BY OpIsInstruction, OperandTypes, UnitIntegers DEF RegisterOps, WRLX, WRHX, WRAX_Plain,
     WRAX_SinRate, WRAX_SinRange, WRAX_RampRate, WRAX_RampRange
<1>2. ASSUME NEW value \in Unit, NEW result \in Unit, WriteRegister(Op.reg, value, result, ACC)
      PROVE  UnitState'
  <2>1. /\ LR' \in Fix24 /\ ACC' \in Unit /\ PACC' \in Unit /\ Registers' \in [RegNos -> Unit]
        /\ Continue(0, {})
    BY <1>0, <1>1, <1>2 DEF WriteRegister, UnitState, TypeOK, DataOK
  <2> QED BY <2>1, ContinueUnit
<1>3. Mult(ACC, Op.C) \in Unit /\ Mult(ACC, Op.C) \in Int
  BY <1>0, <1>1, UnitIntegers, UnitResults
<1>4. ASSUME NEW value \in Unit, WriteACC(value) PROVE UnitState'
  BY <1>2, <1>3, <1>4 DEF WriteACC
<1>5. CASE WRLX
  <2>1. Sub(PACC, ACC) \in Int
    BY UnitIntegers, ArithmeticInInt32, ConstantSets
  <2>2. Mult(Sub(PACC, ACC), Op.C) \in Int
    BY <1>1, <2>1, ArithmeticInInt32, ConstantSets
  <2>3. Add(Mult(Sub(PACC, ACC), Op.C), PACC) \in Unit
    BY <1>0, <2>2, UnitIntegers, UnitResults
  <2> QED BY <1>0, <1>2, <1>5, <2>3 DEF WRLX
<1>6. CASE WRHX
  <2>1. Add(Mult(ACC, Op.C), PACC) \in Unit
    BY <1>0, <1>3, UnitIntegers, UnitResults
  <2> QED BY <1>0, <1>2, <1>6, <2>1 DEF WRHX
<1>7. CASE WRAX_Plain
  BY <1>0, <1>4, <1>7 DEF WRAX_Plain
<1>8. CASE WRAX_SinRate
  <2>1. SinRateDiv \in Nat \ {0}
    BY ProcessorAssumption
  <2>2. Abs(ACC) \div SinRateDiv \in Unit
    BY <1>0, <2>1, UnitResults, ShiftInUnit
  <2> QED BY <1>4, <1>8, <2>2 DEF WRAX_SinRate
<1>9. CASE WRAX_SinRange
  <2>1. SinRangeDiv \in Nat \ {0}
    BY ProcessorAssumption
  <2>2. ACC \div SinRangeDiv \in Unit
    BY <1>0, <2>1, ShiftInUnit
  <2> QED BY <1>4, <1>9, <2>2 DEF WRAX_SinRange
<1>10. CASE WRAX_RampRate
  <2>1. RampRates \subseteq Unit
    BY RatesInUnit, OscillatorAssumption, PositiveConstants DEF RampRates, Unit
  <2> QED BY <1>4, <1>10, <2>1 DEF WRAX_RampRate
<1>11. CASE WRAX_RampRange
  <2>1. AmpIdx \in 0 .. 3
    BY <1>11 DEF WRAX_RampRange
  <2>2. 3 - AmpIdx \in 0 .. 3
    BY <2>1
  <2>3. RampAmpValues[3 - AmpIdx] \in 0 .. MaxRampAmp
    BY <2>2, ProcessorAssumption
  <2>4. RampAmpValues[3 - AmpIdx] \in Unit
    BY <2>3, ScaleAssumption, PositiveConstants DEF Unit
  <2> QED BY <1>4, <1>11, <2>4 DEF WRAX_RampRange
<1> QED BY <1>5, <1>6, <1>7, <1>8, <1>9, <1>10, <1>11

LEMMA LfoSetupUnit ==
  ASSUME TypeOK, Saturating, UnitState, WLDS \/ WLDR \/ JAM
  PROVE  UnitState'
<1>1. ASSUME NEW rateReg \in RegNos, NEW rate \in Unit, NEW rangeReg \in RegNos,
             NEW range \in Unit, NEW raised \in SUBSET RampFlags,
             LoadLFO(rateReg, rate, rangeReg, range, raised)
      PROVE  UnitState'
  <2>1. /\ LR' \in Fix24 /\ ACC' \in Unit /\ PACC' \in Unit /\ Registers' \in [RegNos -> Unit]
        /\ Continue(0, raised)
    BY <1>1 DEF LoadLFO, UnitState, TypeOK, DataOK
  <2>2. raised \cap OverflowFlags = {}
    BY <1>1 DEF RampFlags, OverflowFlags
  <2> QED BY <2>1, <2>2, ContinueUnit
<1>2. CASE WLDS
  <2>1. Op.lfo \in 0 .. 1 /\ Op.freq \in SinRates /\ Op.amp \in SinAmps
    BY <1>2, OpIsInstruction, OperandTypes DEF WLDS
  <2>2. 2 * Op.lfo \in RegNos /\ 2 * Op.lfo + 1 \in RegNos
    BY <2>1, SpecialRegisters
  <2>3. One \div SinRateDiv \in 0 .. One /\ One \div SinRangeDiv \in 0 .. One
    <3>1. SinRateDiv \in Nat \ {0} /\ SinRangeDiv \in Nat \ {0}
      BY ProcessorAssumption
    <3>2. One \in Unit /\ One >= 0
      BY ConstantSets, PositiveConstants
    <3> QED BY <3>1, <3>2, ShiftInUnit
  <2>4. Op.freq \in Unit /\ Op.amp \in Unit
    BY <2>1, <2>3, PositiveConstants DEF SinRates, SinAmps, Unit
  <2>5. LoadLFO(2 * Op.lfo, Op.freq, 2 * Op.lfo + 1, Op.amp, {})
    BY <1>2 DEF WLDS
  <2> QED BY <1>1, <2>2, <2>4, <2>5
<1>3. CASE WLDR
  <2> DEFINE freq   == IF Op.freq < -RateHalf THEN 1 - RateHalf ELSE Op.freq
             raised == IF ~(Op.freq < -RateHalf) THEN {}
                       ELSE IF Op.lfo = 0 THEN {"InvalidRamp0Values"} ELSE {"InvalidRamp1Values"}
  <2>1. Op.lfo \in 0 .. 1 /\ Op.freq \in Int16 /\ Op.ampIdx \in 0 .. 3
    BY <1>3, OpIsInstruction, OperandTypes DEF WLDR
  <2>2. freq \in Unit
    BY <2>1, RatesInUnit, OscillatorAssumption, PositiveConstants DEF Int16, Unit
  <2>3. RampAmpValues[Op.ampIdx] \in Unit
    <3>1. RampAmpValues[Op.ampIdx] \in 0 .. MaxRampAmp
      BY <2>1, ProcessorAssumption
    <3> QED BY <3>1, ScaleAssumption, PositiveConstants DEF Unit
  <2>4. 4 + 2 * Op.lfo \in RegNos /\ 5 + 2 * Op.lfo \in RegNos
    BY <2>1, SpecialRegisters
  <2>5. raised \in SUBSET RampFlags
    BY DEF RampFlags
  <2>6. LoadLFO(4 + 2 * Op.lfo, freq, 5 + 2 * Op.lfo, RampAmpValues[Op.ampIdx], raised)
    BY <1>3 DEF WLDR
  <2> HIDE DEF freq, raised
  <2> QED BY <1>1, <2>2, <2>3, <2>4, <2>5, <2>6
<1>4. CASE JAM
  <2>1. LR' \in Fix24 /\ ACC' \in Unit /\ PACC' \in Unit /\ Registers' \in [RegNos -> Unit]
    BY <1>4 DEF JAM, registerVars, UnitState, TypeOK, DataOK
  <2> QED BY <1>4, <2>1, ContinueUnit DEF JAM
<1> QED BY <1>2, <1>3, <1>4

LEMMA ChoUnit ==
  ASSUME TypeOK, Saturating, UnitState, LR' \in Fix24,
         CHO_RDA_XFade \/ CHO_RDA_Tap \/ CHO_SOF \/ CHO_RDAL
  PROVE  UnitState'
<1>0. ~Disable24BitsClamping /\ ACC \in Int /\ Unit \subseteq Int /\ Fix24 \subseteq Int
  BY UnitIntegers DEF Saturating
<1>1. ASSUME NEW typ, NEW result \in Unit, ChoDone(typ, result) PROVE UnitState'
  <2>1. ACC' \in Unit /\ PACC' \in Unit /\ Registers' \in [RegNos -> Unit]
    BY <1>1 DEF ChoDone, UnitState
  <2> QED BY <1>1, <2>1, ContinueUnit DEF ChoDone
<1>2. CASE CHO_RDA_XFade
  <2>1. RdaFade \in Int
    BY <1>0, <1>2 DEF CHO_RDA_XFade, FloatAccepted
  <2>2. Op.addr \in Int
    <3>1. Op.addr \in Addresses
      BY <1>2, OpIsInstruction, OperandTypes DEF CHO_RDA_XFade, IssueRDA
    <3> QED BY <3>1, PositiveConstants DEF Addresses
  <2>3. Mult(Op.addr, RdaFade) \in Int
    BY <2>1, <2>2, ArithmeticInInt32, ConstantSets
  <2>4. Add(ACC, Mult(Op.addr, RdaFade)) \in Unit
    BY <1>0, <2>3, UnitResults
  <2> QED BY <1>1, <1>2, <2>4 DEF CHO_RDA_XFade
<1>3. CASE CHO_RDA_Tap
  <2>1. RdaScale \in Int /\ LR' \in Int
    BY <1>0, <1>3 DEF CHO_RDA_Tap, RdaTapPanics, FloatAccepted
  <2>2. Mult(LR', RdaScale) \in Int
    BY <2>1, ArithmeticInInt32, ConstantSets
  <2>3. Add(ACC, Mult(LR', RdaScale)) \in Unit
    BY <1>0, <2>2, UnitResults
  <2> QED BY <1>1, <1>3, <2>3 DEF CHO_RDA_Tap
<1>4. CASE CHO_SOF
  <2>1. SofScale \in Int /\ Op.D \in Int
    BY <1>0, <1>4, OpIsInstruction, OperandTypes DEF CHO_SOF, SofPanics, FloatAccepted
  <2>2. Mult(ACC, SofScale) \in Int
    BY <1>0, <2>1, ArithmeticInInt32, ConstantSets
  <2>3. Add(Mult(ACC, SofScale), Op.D) \in Unit
    BY <1>0, <2>1, <2>2, UnitResults
  <2> QED BY <1>1, <1>4, <2>3 DEF CHO_SOF
<1>5. CASE CHO_RDAL
  <2>1. RdalValue \in Unit
    BY <1>5 DEF CHO_RDAL, RdalPanics, FloatAccepted
  <2> QED BY <1>1, <1>5, <2>1 DEF CHO_RDAL
<1> QED BY <1>2, <1>3, <1>4, <1>5

-----------------------------------------------------------------------------
(* The debug flags *)

LEMMA UnitKept ==
  ASSUME UnitState, UNCHANGED <<ACC, PACC, Registers, flags>>
  PROVE  UnitState'
  BY DEF UnitState

\* A handler that fails leaves values in range, and raises no overflow.
LEMMA ErrorUnit == ASSUME TypeOK, UnitState, Error PROVE UnitState'
<1>1. CASE RDA_Fails \/ RMPA_Fails
  BY <1>1 DEF RDA_Fails, RMPA_Fails, ReadFault, Fail, UnitState, OverflowFlags
<1>2. CASE WR_Fails
  BY <1>2 DEF WR_Fails, WriteFault, Fail, UnitState, OverflowFlags
<1>3. CASE CHO_RDA_Fails
  BY <1>3 DEF CHO_RDA_Fails, Fail, UnitState, OverflowFlags
<1> QED BY <1>1, <1>2, <1>3 DEF Error

LEMMA StartSampleUnit ==
  ASSUME UnitState, NEW in \in Inputs \cup {<<0, 0>>}, StartSample(in[1], in[2])
  PROVE  UnitState'
<1>1. in \in Unit \X Unit
  <2>1. CASE in \in Inputs
    BY <2>1, ProcessorAssumption
  <2>2. CASE in = <<0, 0>>
    BY <2>2, ConstantSets
  <2> QED BY <2>1, <2>2
<1>2. in[1] \in Unit /\ in[2] \in Unit
  BY <1>1
<1> QED BY <1>2 DEF UnitState, StartSample

LEMMA InitUnit == ASSUME Init PROVE UnitState
<1>1. \A r \in POT0 .. POT2 : SetClampedFloat64(Pots[r]) \in Unit
  BY ProcessorAssumption, SetClampedInFix24, ConstantSets
<1>2. RampAmpValues[3] \in Unit
  <2>1. RampAmpValues[3] \in 0 .. MaxRampAmp
    BY ProcessorAssumption
  <2> QED BY <2>1, ScaleAssumption, PositiveConstants DEF Unit
<1>3. 0 \in Unit
  BY ConstantSets
<1> QED BY <1>1, <1>2, <1>3 DEF Init, UnitState

LEMMA UnitInvInductive == ASSUME TypeOK, UnitInv, [Next]_vars PROVE UnitInv'
<1>1. prog' = prog /\ (Saturating' <=> Saturating)
  BY ProgramStays DEF Saturating
<1> SUFFICES ASSUME Saturating PROVE UnitState'
  BY <1>1 DEF UnitInv
<1>2. UnitState /\ LR' \in Fix24
  BY NextType DEF UnitInv, TypeOK, DataOK
<1>3. CASE \E in \in Inputs \cup {<<0, 0>>} : StartSample(in[1], in[2])
  BY <1>2, <1>3, StartSampleUnit
<1>4. CASE Execute
  <2>1. CASE SKP \/ NOP
    <3>1. ASSUME NEW skip, Idle(skip) PROVE UnitState'
      <4>1. ACC' \in Unit /\ PACC' \in Unit /\ Registers' \in [RegNos -> Unit]
        BY <1>2, <3>1 DEF Idle, registerVars, UnitState
      <4> QED BY <1>2, <3>1, <4>1, ContinueUnit DEF Idle
    <3> QED BY <2>1, <3>1 DEF SKP, NOP
  <2> QED BY <1>2, <1>4, <2>1, ArithmeticUnit, RegisterReadUnit, MemoryUnit, RegisterWriteUnit,
             LfoSetupUnit, ChoUnit DEF Execute
<1>5. CASE Error
  BY <1>2, <1>5, ErrorUnit
<1>6. CASE Panic
  BY <1>2, <1>6, UnitKept DEF Panic, LOG_Panics, WRAX_Panics, CHO_RDA_Panics, CHO_SOF_Panics,
     CHO_RDAL_Panics, Update_Panics, Crash, registerVars
<1>7. CASE EndProgram \/ PadCycle \/ EndSample
  BY <1>2, <1>7, UnitKept DEF EndProgram, PadCycle, EndSample, registerVars
<1>8. CASE UNCHANGED vars
  BY <1>2, <1>8, UnitKept DEF vars
<1> QED BY <1>3, <1>4, <1>5, <1>6, <1>7, <1>8 DEF Next

LEMMA UnitInvariant == Spec => []UnitInv
<1>1. Init => UnitInv
  BY InitUnit DEF UnitInv
<1>2. TypeOK /\ UnitInv /\ [Next]_vars => UnitInv'
  BY UnitInvInductive
<1> QED BY <1>1, <1>2, TypeCorrect, PTL DEF Spec

\* With the clamping on, for every program without AND, OR, XOR and NOT, which bypass
\* it, and every input, the overflow counters stay at zero.
THEOREM SaturatingNeverOverflows == Spec => []NoOverflowReported
<1>1. UnitInv => NoOverflowReported
  BY DEF UnitInv, UnitState, NoOverflowReported
<1> QED BY <1>1, UnitInvariant, PTL

-----------------------------------------------------------------------------
(* Memory faults *)

\* RMPA's address is no more than the size of the RAM, however ADDR_PTR came by
\* its value: 1.0 is 32768 cells.
LEMMA IndirectWithin ==
  ASSUME UnitState
  PROVE  IndirectAddress \in Int /\ IndirectAddress <= MemSize
<1> DEFINE ptr == Registers[ADDR_PTR]
<1>1. ptr \in Unit
  BY SpecialRegisters DEF UnitState
<1>2. ptr \in Int /\ -One <= ptr /\ ptr <= One /\ One \in Nat \ {0}
  BY <1>1, PositiveConstants DEF Unit
<1> HIDE DEF ptr
<1>3. AddrDiv \in Nat \ {0} /\ MemSize \in Nat \ {0} /\ AddrDiv * MemSize >= One
  BY ProcessorAssumption, ScaleAssumption
<1>4. AddrDiv * (-One) <= ptr
  BY <1>2, <1>3
<1>5. ptr <= AddrDiv * MemSize
  <2>1. AddrDiv * MemSize \in Int
    BY <1>3
  <2> QED BY <1>2, <1>3, <2>1
<1>6. ptr \div AddrDiv \in -One .. MemSize
  BY <1>2, <1>3, <1>4, <1>5, DivBounds
<1> QED BY <1>2, <1>3, <1>6 DEF IndirectAddress, ptr

MemoryFlags == {"OutOfBoundsMemoryRead", "OutOfBoundsMemoryWrite"}

\* With the clamping on and no AND, OR, XOR or NOT, addresses of the program within
\* the RAM are enough: no position of the pointer and no ADDR_PTR makes a fault.
THEOREM SaturatingNeverFaults == Spec => []NoMemoryFault
<1>1. Init => NoMemoryFault
  BY DEF Init, NoMemoryFault
<1>2. TypeOK /\ UnitInv /\ NoMemoryFault /\ [Next]_vars => NoMemoryFault'
  <2> SUFFICES ASSUME TypeOK, UnitInv, NoMemoryFault, [Next]_vars PROVE NoMemoryFault'
    OBVIOUS
  <2> DEFINE Within == Saturating /\ (\A i \in DOMAIN prog :
                         prog[i].name \in {"RDA", "WRA", "WRAP"} => prog[i].addr < MemSize)
  <2>0. NoMemoryFault <=> (Within => flags \cap MemoryFlags = {})
    BY DEF NoMemoryFault, MemoryFlags
  <2>00. NoMemoryFault' <=> (Within' => flags' \cap MemoryFlags = {})
    BY DEF NoMemoryFault, MemoryFlags
  <2>000. ASSUME prog' = prog, flags' \cap MemoryFlags = flags \cap MemoryFlags
          PROVE  NoMemoryFault'
    <3>1. Within' <=> Within
      BY <2>000 DEF Saturating
    <3> HIDE DEF Within
    <3> QED BY <2>000, <2>0, <2>00, <3>1
  <2>1. CASE \E in \in Inputs \cup {<<0, 0>>} : StartSample(in[1], in[2])
    BY <2>1, <2>000 DEF StartSample
  <2>2. CASE Execute
    <3>1. PICK skip \in Nat, raised \in SUBSET RampFlags : Continue(skip, raised)
      BY <2>2, ExecuteStep
    <3>2. Overflows' \subseteq OverflowFlags
      BY DEF Overflows
    <3>3. (raised \cup Overflows') \cap MemoryFlags = {}
      BY <3>2 DEF RampFlags, OverflowFlags, MemoryFlags
    <3> QED BY <2>000, <3>1, <3>3 DEF Continue, callVars
  <2>3. CASE Error
    <3>0. DelayRAMPtr <= 0 /\ DelayRAMPtr \in Int /\ MemSize \in Nat
      BY PositiveConstants DEF TypeOK, ControlOK
    <3>1. ASSUME Issue("RDA") \/ Issue("WRA") \/ Issue("WRAP"), OutOfBounds(Moved(Op.addr))
          PROVE  ~Within
      <4>1. IP + 1 \in DOMAIN prog /\ Op = prog[IP + 1] /\ Op.name \in {"RDA", "WRA", "WRAP"}
        BY <3>1 DEF TypeOK, ControlOK, Issue, Op
      <4>2. Op.addr \in Int
        <5>1. Op.addr \in Addresses
          BY <3>1, OpIsInstruction, OperandTypes
        <5> QED BY <5>1, PositiveConstants DEF Addresses
      <4>3. ~(Op.addr < MemSize)
        BY <3>0, <3>1, <4>2 DEF OutOfBounds, Moved
      <4> QED BY <4>1, <4>3
    <3>2. ASSUME OutOfBounds(Moved(IndirectAddress)) PROVE ~Within
      <4> SUFFICES ASSUME UnitState PROVE FALSE
        BY DEF UnitInv
      <4> QED BY <3>0, <3>2, IndirectWithin DEF OutOfBounds, Moved
    <3>3. CASE CHO_RDA_Fails
      BY <2>000, <3>3 DEF CHO_RDA_Fails, Fail, callVars
    <3>4. CASE RDA_Fails \/ RMPA_Fails \/ WR_Fails
      <4>1. ~Within /\ prog' = prog
        BY <2>3, <3>1, <3>2, <3>4, ErrorStep DEF RDA_Fails, RMPA_Fails, WR_Fails, ReadFault, WriteFault,
           callVars
      <4>2. Within' <=> Within
        BY <4>1 DEF Saturating
      <4> HIDE DEF Within
      <4> QED BY <2>00, <4>1, <4>2
    <3> QED BY <2>3, <3>3, <3>4 DEF Error
  <2>4. CASE Panic
    BY <2>4, <2>000 DEF Panic, LOG_Panics, WRAX_Panics, CHO_RDA_Panics, CHO_SOF_Panics,
       CHO_RDAL_Panics, Update_Panics, Crash, callVars
  <2>5. CASE EndProgram \/ PadCycle \/ EndSample
    BY <2>5, <2>000 DEF EndProgram, PadCycle, EndSample, callVars
  <2>6. CASE UNCHANGED vars
    BY <2>6, <2>000 DEF vars
  <2> QED BY <2>1, <2>2, <2>3, <2>4, <2>5, <2>6 DEF Next
<1> QED BY <1>1, <1>2, TypeCorrect, UnitInvariant, PTL DEF Spec
=============================================================================
