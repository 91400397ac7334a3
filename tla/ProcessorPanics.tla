-------------------------- MODULE ProcessorPanics ---------------------------
(***************************************************************************)
(* What can bring the emulator down in Processor: with the clamping on and *)
(* no AND, OR, XOR or NOT, only an instruction that is misused itself.     *)
(***************************************************************************)
EXTENDS ProcessorValues

RampTypes == {LFO_RMP0, LFO_RMP1}

\* No write leaves a sine a rate that its next Update rejects, and what is frozen
\* of a ramp is not negative.
CalmInv ==
  /\ Saturating => \A k \in 0 .. 1 : sine[k].rate \in 0 .. MaxSineRate
  /\ \A t \in RampTypes : lfoReg[t] \in 0 .. One

-----------------------------------------------------------------------------
(* Frozen ramps *)

LEMMA RampSample ==
  ASSUME NEW t \in RampTypes, NEW s \in SineStates, NEW r \in RampStates
  PROVE  Sample(t, s, r) \in 0 .. One
<1>1. Bank(t) \in 0 .. 1 /\ Sample(t, s, r) = GetValue(r[Bank(t)])
  BY DEF RampTypes, Bank, Sample, LFO_SIN0, LFO_SIN1, LFO_COS0, LFO_COS1, LFO_RMP0, LFO_RMP1
<1> DEFINE v == r[Bank(t)].value
<1>2. v \in 0 .. Word - 1
  BY <1>1 DEF RampStates
<1>3. GetValue(r[Bank(t)]) = (v * One) \div (Word - 1)
  BY DEF GetValue
<1> HIDE DEF v
<1>4. v * One \in Int /\ 0 <= v * One /\ v * One <= (Word - 1) * One
  BY <1>2, PositiveConstants
<1>5. (v * One) \div (Word - 1) \in 0 .. One
  BY <1>4, DivBounds, PositiveConstants
<1> QED BY <1>1, <1>3, <1>5

LEMMA RampFrozen ==
  ASSUME TypeOK, CalmInv, NEW typ \in LfoTypes, NEW t \in RampTypes
  PROVE  LfoRegAfter(typ)[t] \in 0 .. One
<1>1. SinesAdvance(sine) \in SineStates /\ RampsAdvance(ramp) \in RampStates
  BY AdvanceType DEF TypeOK, DataOK
<1>2. Sample(t, SinesAdvance(sine), RampsAdvance(ramp)) \in 0 .. One /\ lfoReg[t] \in 0 .. One
  BY <1>1, RampSample DEF CalmInv
<1>3. t \in LfoTypes
  BY DEF RampTypes, LfoTypes, LFO_RMP0, LFO_RMP1
<1>4. Freeze(lfoReg, typ, SinesAdvance(sine), RampsAdvance(ramp))[t] \in 0 .. One
  BY <1>2, <1>3 DEF Freeze
<1> QED BY <1>2, <1>4 DEF LfoRegAfter

-----------------------------------------------------------------------------
(* The invariant *)

LEMMA SineRates ==
  ASSUME TypeOK, Saturating, UnitState, CalmInv, NEW k \in 0 .. 1
  PROVE  /\ SinesAdvance(sine)[k].rate \in 0 .. MaxSineRate
         /\ \A j \in 0 .. 1, rate \in 0 .. MaxSineRate :
              [SinesAdvance(sine) EXCEPT ![j].rate = rate][k].rate \in 0 .. MaxSineRate
<1>1. sine[k].rate \in 0 .. MaxSineRate
  BY DEF CalmInv
<1>2. SinesAdvance(sine)[k].rate = sine[k].rate
  BY DEF SinesAdvance, TypeOK, DataOK, SineStates
<1>3. SinesAdvance(sine) \in SineStates
  BY AdvanceType DEF TypeOK, DataOK
<1>4. ASSUME NEW j \in 0 .. 1, NEW rate \in 0 .. MaxSineRate
      PROVE  [SinesAdvance(sine) EXCEPT ![j].rate = rate][k].rate \in 0 .. MaxSineRate
  <2> DEFINE s == SinesAdvance(sine)
  <2>1. s \in SineStates /\ s[k].rate \in 0 .. MaxSineRate
    BY <1>1, <1>2, <1>3
  <2> HIDE DEF s
  <2>2. CASE j = k
    <3>1. [s EXCEPT ![j].rate = rate][k].rate = rate
      BY <2>1, <2>2 DEF SineStates
    <3> QED BY <3>1 DEF s
  <2>3. CASE j # k
    <3>1. [s EXCEPT ![j].rate = rate][k].rate = s[k].rate
      BY <2>1, <2>3 DEF SineStates
    <3> QED BY <2>1, <3>1 DEF s
  <2> QED BY <2>2, <2>3
<1> QED BY <1>1, <1>2, <1>4

\* The rates WLDS and WRAX set are rates that Update accepts.
LEMMA RateAccepted ==
  ASSUME NEW a \in Unit, a >= 0
  PROVE  a \div SinRateDiv \in 0 .. MaxSineRate
<1>1. /\ SinRateDiv \in Nat \ {0} /\ MaxSineRate \in Nat /\ One \in Nat
      /\ One <= SinRateDiv * MaxSineRate /\ a \in Int /\ a <= One
  BY ProcessorAssumption, OscillatorAssumption, ScaleAssumption, PositiveConstants DEF Unit
<1>2. SinRateDiv * MaxSineRate \in Int
  BY <1>1
<1>3. a <= SinRateDiv * MaxSineRate /\ SinRateDiv * 0 <= a
  BY <1>1, <1>2
<1> QED BY <1>1, <1>3, DivBounds

LEMMA RatesCalm ==
  ASSUME TypeOK, Saturating, UnitState, CalmInv, Execute \/ Error \/ PadCycle, NEW k \in 0 .. 1
  PROVE  sine'[k].rate \in 0 .. MaxSineRate
<1>1. ASSUME sine' = SinesAdvance(sine) PROVE sine'[k].rate \in 0 .. MaxSineRate
  BY <1>1, SineRates
<1>2. ASSUME NEW j \in 0 .. 1, NEW rate \in 0 .. MaxSineRate, SetSineRate(j, rate)
      PROVE  sine'[k].rate \in 0 .. MaxSineRate
  BY <1>2, SineRates DEF SetSineRate
<1>3. CASE WRAX_SinRate
  <2> DEFINE rate == Abs(ACC) \div SinRateDiv
             j    == IF Op.reg = SIN0_RATE THEN 0 ELSE 1
  <2>1. Abs(ACC) \in Unit /\ Abs(ACC) >= 0
    BY UnitResults DEF UnitState, Saturating
  <2>2. rate \in 0 .. MaxSineRate
    BY <2>1, RateAccepted
  <2>3. SetSineRate(j, rate) /\ j \in 0 .. 1
    BY <1>3 DEF WRAX_SinRate
  <2> HIDE DEF rate, j
  <2> QED BY <1>2, <2>2, <2>3
<1>4. CASE WLDS
  <2>1. Op.lfo \in 0 .. 1 /\ Op.freq \in SinRates
    BY <1>4, OpIsInstruction, OperandTypes DEF WLDS
  <2>2. One \div SinRateDiv \in 0 .. MaxSineRate
    BY RateAccepted, ConstantSets, PositiveConstants
  <2>3. Op.freq \in 0 .. MaxSineRate
    BY <2>1, <2>2, OscillatorAssumption DEF SinRates
  <2> QED BY <1>2, <1>4, <2>1, <2>3 DEF WLDS
<1>5. CASE Execute /\ ~WRAX_SinRate /\ ~WLDS
  <2>1. CASE SOF \/ LOG \/ EXP \/ AND \/ OR \/ XOR \/ CLR \/ NOT \/ ABSA \/ RDAX \/ RDFX \/ MULX \/ MAXX
    BY <1>1, <2>1 DEF SOF, LOG, EXP, AND, OR, XOR, CLR, NOT, ABSA, RDAX, RDFX, MULX, MAXX, Compute,
       LFOsAdvance
  <2>2. CASE LDAX \/ SKP \/ NOP \/ RDA \/ RMPA \/ WRA \/ WRAP
    BY <1>1, <2>2 DEF LDAX, SKP, NOP, Idle, RDA, RMPA, WRA, WRAP, ReadMemory, WriteMemory, LFOsAdvance
  <2>3. CASE WRLX \/ WRHX \/ WRAX_Plain \/ WRAX_SinRange \/ WRAX_RampRate \/ WRAX_RampRange
    BY <1>1, <2>3 DEF WRLX, WRHX, WRAX_Plain, WRAX_SinRange, WRAX_RampRate, WRAX_RampRange,
       SetRampFreq, LFOsAdvance
  <2>4. CASE WLDR \/ JAM
    BY <1>1, <2>4 DEF WLDR, JAM, SetRampFreq
  <2>5. CASE CHO_RDA_XFade \/ CHO_RDA_Tap \/ CHO_SOF \/ CHO_RDAL
    BY <1>1, <2>5 DEF CHO_RDA_XFade, CHO_RDA_Tap, CHO_SOF, CHO_RDAL, ChoDone, LFOsAdvance
  <2> QED BY <1>5, <2>1, <2>2, <2>3, <2>4, <2>5 DEF Execute
<1>6. CASE Error
  BY <1>1, <1>6 DEF Error, RDA_Fails, RMPA_Fails, WR_Fails, CHO_RDA_Fails, ReadFault, WriteFault, Fail,
     LFOsAdvance
<1>7. CASE PadCycle
  BY <1>1, <1>7 DEF PadCycle, LFOsAdvance
<1> QED BY <1>3, <1>4, <1>5, <1>6, <1>7

LEMMA CalmInductive == ASSUME TypeOK, UnitInv, CalmInv, [Next]_vars PROVE CalmInv'
<1>1. ASSUME NEW t \in RampTypes PROVE lfoReg'[t] \in 0 .. One
  <2>1. CASE lfoReg' = lfoReg
    BY <2>1 DEF CalmInv
  <2>2. CASE \E typ \in LfoTypes : lfoReg' = LfoRegAfter(typ)
    BY <2>2, RampFrozen
  <2> QED BY <2>1, <2>2, LfoRegStep
<1>2. ASSUME Saturating', NEW k \in 0 .. 1 PROVE sine'[k].rate \in 0 .. MaxSineRate
  <2>1. Saturating
    BY <1>2, ProgramStays DEF Saturating
  <2>2. UnitState /\ sine[k].rate \in 0 .. MaxSineRate
    BY <2>1 DEF UnitInv, CalmInv
  <2>3. CASE Execute \/ Error \/ PadCycle
    BY <2>1, <2>2, <2>3, RatesCalm
  <2>4. CASE \E in \in Inputs \cup {<<0, 0>>} : StartSample(in[1], in[2])
    BY <2>2, <2>4 DEF StartSample
  <2>5. CASE Panic
    BY <2>2, <2>5 DEF Panic, LOG_Panics, WRAX_Panics, CHO_RDA_Panics, CHO_SOF_Panics,
       CHO_RDAL_Panics, Update_Panics, Crash
  <2>6. CASE EndProgram \/ EndSample
    BY <2>2, <2>6 DEF EndProgram, EndSample
  <2>7. CASE UNCHANGED vars
    BY <2>2, <2>7 DEF vars
  <2> QED BY <2>3, <2>4, <2>5, <2>6, <2>7 DEF Next
<1> QED BY <1>1, <1>2 DEF CalmInv

LEMMA CalmInvariant == Spec => []CalmInv
<1>1. Init => CalmInv
  BY PositiveConstants, OscillatorAssumption DEF Init, CalmInv, RampTypes, LfoTypes, LFO_RMP0, LFO_RMP1
<1>2. TypeOK /\ UnitInv /\ CalmInv /\ [Next]_vars => CalmInv'
  BY CalmInductive
<1> QED BY <1>1, <1>2, TypeCorrect, UnitInvariant, PTL DEF Spec

-----------------------------------------------------------------------------
(* What an LFO can give to a CHO instruction *)

\* A quotient is below a bound that its divisor's multiple is above.
LEMMA DivBelow ==
  ASSUME NEW a \in Int, NEW b \in Nat \ {0}, NEW hi \in Int, a < b * hi
  PROVE  a \div b < hi
<1> DEFINE q == a \div b
           r == a % b
<1>1. q \in Int /\ r \in 0 .. b - 1 /\ a = b * q + r
  BY DivMod
<1> HIDE DEF q, r
<1>2. SUFFICES ASSUME q >= hi PROVE FALSE
  BY <1>1 DEF q
<1>3. b * q >= b * hi
  BY <1>1, <1>2
<1> QED BY <1>1, <1>3

\* Rounding towards zero does not leave a range that is a multiple of the divisor.
LEMMA TruncateBounds ==
  ASSUME NEW a \in Int, NEW b \in Nat \ {0}, NEW hi \in Nat, -(b * hi) <= a, a <= b * hi
  PROVE  Truncate(a, b) \in -hi .. hi /\ (a >= 0 => Truncate(a, b) >= 0)
<1>0. b * hi \in Nat
  OBVIOUS
<1>1. CASE a >= 0
  <2>1. a \div b \in 0 .. hi
    BY <1>1, DivBounds
  <2> QED BY <1>1, <2>1 DEF Truncate
<1>2. CASE a < 0
  <2>1. -a \in Nat /\ -a <= b * hi
    BY <1>0, <1>2
  <2>2. (-a) \div b \in 0 .. hi
    BY <2>1, DivBounds
  <2> QED BY <1>2, <2>2 DEF Truncate
<1> QED BY <1>1, <1>2

LEMMA ChoNumbers ==
  ASSUME NEW typ \in LfoTypes
  PROVE  /\ isSinLFO(typ) <=> typ \notin RampTypes
         /\ RangeReg(typ) \in RegNos
<1>1. isSinLFO(typ) <=> typ \notin RampTypes
  BY DEF isSinLFO, RampTypes, LfoTypes, LFO_SIN0, LFO_SIN1, LFO_COS0, LFO_COS1, LFO_RMP0, LFO_RMP1
<1>2. Bank(typ) \in 0 .. 1
  BY DEF Bank, LfoTypes
<1>3. RangeReg(typ) \in 0 .. 7
  BY <1>2 DEF RangeReg
<1> QED BY <1>1, <1>3, SpecialRegisters

\* The LFO an instruction reads is of the kind, and the bank, of the one it names.
LEMMA ChoKind ==
  ASSUME TypeOK, Issue("CHO_RDA") \/ Issue("CHO_SOF") \/ Issue("CHO_RDAL"), NEW honoured,
         Misused(honoured) = {}
  PROVE  /\ ChoTyp(honoured) \in LfoTypes
         /\ isSinLFO(ChoTyp(honoured)) <=> isSinLFO(Op.typ)
         /\ RangeReg(ChoTyp(honoured)) = RangeReg(Op.typ)
<1>1. Op.typ \in 0 .. 3
  BY OpIsInstruction, OperandTypes
<1>2. CASE "COS" \in honoured
  <2>1. isSinLFO(Op.typ) /\ ChoTyp(honoured) = Op.typ + 4
    BY <1>2 DEF Misused, ChoTyp
  <2>2. Op.typ \in {0, 1}
    BY <1>1, <2>1 DEF isSinLFO, LFO_SIN0, LFO_SIN1, LFO_COS0, LFO_COS1
  <2>3. Op.typ + 4 \in LfoTypes /\ isSinLFO(Op.typ + 4) /\ Bank(Op.typ + 4) = Bank(Op.typ)
    BY <2>2 DEF LfoTypes, isSinLFO, Bank, LFO_SIN0, LFO_SIN1, LFO_COS0, LFO_COS1
  <2> QED BY <2>1, <2>3 DEF RangeReg
<1>3. CASE "COS" \notin honoured
  <2>1. ChoTyp(honoured) = Op.typ
    BY <1>3 DEF ChoTyp
  <2>2. Op.typ \in LfoTypes
    BY <1>1 DEF LfoTypes
  <2> QED BY <2>1, <2>2
<1> QED BY <1>2, <1>3

\* A ramp is between 0 and 1.0, half a cycle ahead or not; a sine in [-1.0, 1.0].
LEMMA LfoRange ==
  ASSUME TypeOK, CalmInv, NEW typ \in LfoTypes, NEW honoured
  PROVE  /\ typ \in RampTypes => LfoValue(typ, honoured) \in 0 .. One
         /\ "RPTR2" \notin honoured => LfoValue(typ, honoured) \in Unit
<1> DEFINE lfo == LfoRegAfter(typ)[typ]
<1>1. lfo \in Unit
  BY LfoRegAfterType
<1>2. "RPTR2" \notin honoured => LfoValue(typ, honoured) \in Unit
  BY <1>1 DEF LfoValue
<1>3. ASSUME typ \in RampTypes PROVE LfoValue(typ, honoured) \in 0 .. One
  <2>1. lfo \in 0 .. One
    BY <1>3, RampFrozen
  <2>2. LfoValue(typ, honoured) = IF "RPTR2" \in honoured THEN PlusHalfCycle(lfo) ELSE lfo
    BY DEF LfoValue
  <2> HIDE DEF lfo
  <2>3. One \div 2 \in 0 .. One
    <3>1. 2 * 0 <= One /\ One <= 2 * One /\ One \in Int /\ 2 \in Nat \ {0}
      BY PositiveConstants
    <3> QED BY <3>1, DivBounds
  <2>4. PlusHalfCycle(lfo) \in 0 .. One
    <3> DEFINE half == One \div 2
    <3>1. half \in 0 .. One /\ PlusHalfCycle(lfo) = IF lfo + half > One THEN (lfo + half) - One ELSE lfo + half
      BY <2>3 DEF PlusHalfCycle
    <3> HIDE DEF half
    <3> QED BY <2>1, <3>1, PositiveConstants
  <2> QED BY <2>1, <2>2, <2>4
<1> QED BY <1>2, <1>3

\* The crossfade of a ramp.
LEMMA XFadeRange == ASSUME NEW lfo \in 0 .. One PROVE XFade(lfo) \in 0 .. One
<1> DEFINE height == IF 3 * lfo < One THEN 3 * lfo
                     ELSE IF 3 * lfo < 2 * One THEN One
                     ELSE 3 * (One - lfo)
<1>1. height \in 0 .. One
  BY PositiveConstants
<1>2. XFade(lfo) = Truncate(height, 2)
  BY DEF XFade
<1> HIDE DEF height
<1>3. -(2 * One) <= height /\ height <= 2 * One /\ height >= 0 /\ One \in Nat /\ 2 \in Nat \ {0}
      /\ height \in Int
  BY <1>1, PositiveConstants
<1>4. Truncate(height, 2) \in -One .. One /\ Truncate(height, 2) >= 0
  BY <1>3, TruncateBounds
<1> QED BY <1>2, <1>4, PositiveConstants

\* The range of a ramp, when the register holds an amplitude.
LEMMA RampRangeBounds ==
  ASSUME NEW range \in 0 .. MaxRampAmp
  PROVE  RampRange(range) \in 0 .. One
<1>1. MaxRampAmp \in Nat \ {0} /\ One \in Nat
  BY PositiveConstants
<1>2. range * One \in Nat /\ range * One <= MaxRampAmp * One /\ MaxRampAmp * One \in Nat
  BY <1>1
<1>3. -(MaxRampAmp * One) <= range * One
  BY <1>2
<1>4. Truncate(range * One, MaxRampAmp) \in -One .. One /\ Truncate(range * One, MaxRampAmp) >= 0
  BY <1>1, <1>2, <1>3, TruncateBounds
<1> QED BY <1>1, <1>4 DEF RampRange

\* A tap is at most Reach from the address of its instruction.
LEMMA ScaleReach ==
  ASSUME NEW lfo \in Unit, NEW typ, NEW range \in Unit, ~Disable24BitsClamping
  PROVE  /\ ScaleLFO(lfo, typ, range) \in Int
         /\ ScaleLFO(lfo, typ, range) <= IF isSinLFO(typ) THEN Abs(range) \div SineAmpDiv ELSE Abs(range)
<1> DEFINE m == IF range < 0 THEN -range ELSE range
           a == lfo * range
<1>1. /\ One \in Nat \ {0} /\ lfo \in Int /\ -One <= lfo /\ lfo <= One /\ range \in Int
      /\ SineAmpDiv \in Nat \ {0} /\ One * SineAmpDiv \in Nat \ {0}
  BY PositiveConstants DEF Unit
<1>2. m \in Nat /\ Abs(range) = m
  <2>1. range < 0 => -range \in Int32
    BY FixedPointAssumption DEF Unit, Int32
  <2>2. range < 0 => Wrap(-range) = -range
    BY <2>1, WrapIdentity
  <2> QED BY <1>1, <2>2 DEF Abs
<1>3. a \in Int /\ -(One * m) <= a /\ a <= One * m
  <2>1. CASE range >= 0
    <3>1. (-One) * range <= lfo * range /\ lfo * range <= One * range
      BY <1>1, <2>1
    <3>2. (-One) * range = -(One * range)
      BY <1>1
    <3> QED BY <1>1, <2>1, <3>1, <3>2
  <2>2. CASE range < 0
    <3>1. (-One) * (-range) <= lfo * (-range) /\ lfo * (-range) <= One * (-range)
      BY <1>1, <2>2
    <3>2. (-One) * (-range) = -(One * (-range)) /\ lfo * (-range) = -(lfo * range)
      BY <1>1
    <3> QED BY <1>1, <2>2, <3>1, <3>2
  <2> QED BY <1>1, <2>1, <2>2
<1>4. ScaleLFO(lfo, typ, range) = IF isSinLFO(typ) THEN Truncate(a, One * SineAmpDiv) ELSE Truncate(a, One)
  BY DEF ScaleLFO
<1> HIDE DEF m, a
<1>5. Truncate(a, One) \in Int /\ Truncate(a, One) <= m
  <2>1. Truncate(a, One) \in -m .. m
    BY <1>1, <1>2, <1>3, TruncateBounds
  <2> QED BY <1>2, <2>1
<1>6. Truncate(a, One * SineAmpDiv) \in Int /\ Truncate(a, One * SineAmpDiv) <= m \div SineAmpDiv
  <2> DEFINE b == One * SineAmpDiv
             h == m \div SineAmpDiv
             r == m % SineAmpDiv
  <2>1. b \in Nat \ {0} /\ Truncate(a, b) \in Int
    BY <1>1, <1>3, TruncateInInt
  <2>2. h \in Int /\ r \in 0 .. SineAmpDiv - 1 /\ m = SineAmpDiv * h + r
    BY <1>1, <1>2, DivMod
  <2>3. h >= 0
    <3>1. SineAmpDiv * 0 <= m /\ m <= SineAmpDiv * m
      BY <1>1, <1>2
    <3> QED BY <1>1, <1>2, <3>1, DivBounds
  <2> HIDE DEF h, r
  <2>4. CASE a >= 0
    <3>1. m + 1 <= SineAmpDiv * (h + 1)
      <4>1. SineAmpDiv * (h + 1) = SineAmpDiv * h + SineAmpDiv
        BY <1>1, <2>2
      <4> QED BY <1>1, <1>2, <2>2, <4>1
    <3>2. One * (m + 1) <= One * (SineAmpDiv * (h + 1))
      BY <1>1, <1>2, <2>2, <3>1
    <3>3. One * (m + 1) = One * m + One
      BY <1>1, <1>2
    <3>4. One * (SineAmpDiv * (h + 1)) = b * (h + 1)
      BY <1>1, <2>2
    <3>5. One * m \in Int /\ b * (h + 1) \in Int
      BY <1>1, <1>2, <2>1, <2>2
    <3> HIDE DEF b
    <3>6. a < b * (h + 1)
      BY <1>1, <1>3, <3>2, <3>3, <3>4, <3>5
    <3>7. h + 1 \in Int /\ a \in Int /\ b \in Nat \ {0}
      BY <1>3, <2>1, <2>2
    <3>8. a \div b < h + 1
      BY <3>6, <3>7, DivBelow
    <3>9. a \div b \in Int
      BY <3>7, DivMod
    <3>10. Truncate(a, b) = a \div b
      BY <2>4 DEF Truncate
    <3>11. a \div b <= h
      BY <2>2, <3>8, <3>9
    <3> QED BY <2>1, <3>10, <3>11 DEF b, h
  <2>5. CASE a < 0
    <3>1. (-a) \div b >= 0 /\ (-a) \div b \in Int
      <4>1. -a \in Nat
        BY <1>3, <2>5
      <4>2. b * 0 <= -a /\ -a <= b * (-a)
        BY <2>1, <4>1
      <4> HIDE DEF b
      <4> QED BY <2>1, <4>1, <4>2, DivBounds
    <3>2. Truncate(a, b) = -((-a) \div b)
      BY <1>3, <2>5 DEF Truncate
    <3> HIDE DEF b
    <3> QED BY <2>1, <2>2, <2>3, <3>1, <3>2 DEF b, h
  <2> QED BY <1>3, <2>4, <2>5
<1> QED BY <1>2, <1>4, <1>5, <1>6

-----------------------------------------------------------------------------
(* Every panic is a misuse *)

LEMMA LogMisuse ==
  ASSUME TypeOK, Saturating, UnitState, LOG_Panics
  PROVE  Misuse
<1>1. Op.name = "LOG" /\ LogUndefined
  BY DEF LOG_Panics, Issue
<1>2. Abs(ACC) >= 0 /\ Abs(ACC) \in Int
  BY UnitResults, UnitIntegers DEF Saturating, UnitState
<1>3. Abs(ACC) = 0 /\ Op.C = 0
  BY <1>1, <1>2 DEF LogUndefined
<1>4. ACC = 0
  <2>1. ACC < 0 => -ACC \in Int32
    BY FixedPointAssumption DEF UnitState, Unit, Int32
  <2>2. ACC < 0 => Wrap(-ACC) = -ACC
    BY <2>1, WrapIdentity
  <2> QED BY <1>3, <2>2, UnitIntegers DEF Abs
<1> QED BY <1>1, <1>3, <1>4 DEF Misuse

LEMMA WraxMisuse ==
  ASSUME TypeOK, Saturating, UnitState, WRAX_Panics
  PROVE  Misuse
<1>0. /\ ACC \in Int /\ -One <= ACC /\ ACC <= One /\ One \in Nat \ {0}
      /\ RampRateDiv \in Nat \ {0} /\ RateHalf \in Nat \ {0} /\ One = RampRateDiv * (2 * RateHalf)
  BY PositiveConstants, ProcessorAssumption, OscillatorAssumption, ScaleAssumption DEF UnitState, Unit
<1>1. ASSUME 2 * ACC >= -One, ACC # One PROVE RampFreq \in RampRates
  <2> DEFINE q == ACC \div RampRateDiv
  <2>1. RampRateDiv * (-RateHalf) <= ACC
    <3>1. 2 * (RampRateDiv * (-RateHalf)) = -One
      BY <1>0
    <3>2. RampRateDiv * (-RateHalf) \in Int
      BY <1>0
    <3> QED BY <1>0, <1>1, <3>1, <3>2
  <2>2. ACC < RampRateDiv * (2 * RateHalf)
    BY <1>0, <1>1
  <2>3. q < 2 * RateHalf /\ q \in Int
    <3>1. 2 * RateHalf \in Int /\ ACC \in Int /\ RampRateDiv \in Nat \ {0}
      BY <1>0
    <3>2. ACC \div RampRateDiv < 2 * RateHalf
      BY <2>2, <3>1, DivBelow
    <3>3. ACC \div RampRateDiv \in Int
      BY <3>1, DivMod
    <3> QED BY <3>2, <3>3
  <2>4. q >= -RateHalf
    <3>1. ACC <= RampRateDiv * (2 * RateHalf)
      BY <1>0
    <3>2. q \in -RateHalf .. 2 * RateHalf
      BY <1>0, <2>1, <3>1, DivBounds
    <3> QED BY <1>0, <3>2
  <2>5. RampFreq = ((q + 2 * RateHalf) % (4 * RateHalf)) - 2 * RateHalf
    BY DEF RampFreq
  <2> HIDE DEF q
  <2>6. (q + 2 * RateHalf) % (4 * RateHalf) = q + 2 * RateHalf
    <3>1. q + 2 * RateHalf \in 0 .. (4 * RateHalf) - 1 /\ 4 * RateHalf \in Nat \ {0}
      BY <1>0, <2>3, <2>4
    <3>2. q + 2 * RateHalf = (4 * RateHalf) * 0 + (q + 2 * RateHalf) /\ q + 2 * RateHalf \in Int
      BY <1>0, <2>3
    <3> QED BY <3>1, <3>2, ModUnique
  <2> QED BY <1>0, <2>3, <2>4, <2>5, <2>6 DEF RampRates
<1>2. ASSUME ACC >= 0, ACC # One PROVE AmpIdx \in 0 .. 3
  <2> DEFINE b == One \div 4
  <2>1. One = 4 * b /\ b \in Nat \ {0}
    <3>1. One = 4 * (One \div 4) + (One % 4) /\ One \div 4 \in Int
      BY <1>0, DivMod
    <3> QED BY <1>0, <3>1, ScaleAssumption
  <2>2. AmpIdx = ACC \div b
    BY DEF AmpIdx
  <2> HIDE DEF b
  <2>3. ACC < b * 4 /\ b * 0 <= ACC /\ ACC <= b * 4
    BY <1>0, <1>2, <2>1
  <2>4. ACC \div b < 4
    BY <1>0, <2>1, <2>3, DivBelow
  <2>5. ACC \div b \in 0 .. 4
    BY <1>0, <2>1, <2>3, DivBounds
  <2> QED BY <2>2, <2>4, <2>5
<1>3. CASE Op.reg \in {RAMP0_RATE, RAMP1_RATE} /\ RampFreq \notin RampRates
  <2>1. 2 * ACC < -One \/ ACC = One
    BY <1>0, <1>1, <1>3
  <2> QED BY <1>3, <2>1 DEF WRAX_Panics, Issue, Misuse
<1>4. CASE Op.reg \in {RAMP0_RANGE, RAMP1_RANGE} /\ AmpIdx \notin 0 .. 3
  <2>1. ACC < 0 \/ ACC = One
    BY <1>0, <1>2, <1>4
  <2> QED BY <1>4, <2>1 DEF WRAX_Panics, Issue, Misuse
<1> QED BY <1>3, <1>4 DEF WRAX_Panics

LEMMA RdaMisuse ==
  ASSUME TypeOK, Saturating, UnitState, CalmInv, CHO_RDA_Panics
  PROVE  Misuse
<1>0. Issue("CHO_RDA") /\ Op.name = "CHO_RDA" /\ Misused(Op.flags) = {}
  BY DEF CHO_RDA_Panics, IssueRDA, Issue
<1> DEFINE lfo   == LfoValue(RdaTyp, Op.flags)
           range == Registers[RangeReg(RdaTyp)]
<1>1. /\ RdaTyp \in LfoTypes /\ (isSinLFO(RdaTyp) <=> isSinLFO(Op.typ))
      /\ RangeReg(RdaTyp) = RangeReg(Op.typ)
  BY <1>0, ChoKind DEF RdaTyp
<1>2. /\ isSinLFO(Op.typ) => lfo \in Unit /\ "NA" \notin Op.flags
      /\ ~isSinLFO(Op.typ) => lfo \in 0 .. One
  BY <1>0, <1>1, LfoRange, ChoNumbers DEF Misused
<1>3. range \in Unit
  BY <1>1, ChoNumbers DEF UnitState
<1> SUFFICES ASSUME ~Misuse PROVE FALSE
  OBVIOUS
<1>4. ~isSinLFO(Op.typ) /\ "COMPA" \in Op.flags
        => {"COMPC", "NA"} \cap Op.flags = {} /\ range \in 0 .. MaxRampAmp
  BY <1>0, <1>1 DEF Misuse
<1>5. One \in Nat \ {0} /\ 0 .. One \subseteq Unit
  BY PositiveConstants DEF Unit
<1>6. RdaLfo = IF "COMPA" \notin Op.flags THEN lfo
               ELSE IF isSinLFO(Op.typ) THEN -lfo ELSE RampRange(range) - lfo
  BY <1>1 DEF RdaLfo
<1>7. /\ RdaLfo \in Unit
      /\ ~isSinLFO(Op.typ) /\ "COMPA" \notin Op.flags => RdaLfo \in 0 .. One
  <2> HIDE DEF lfo, range
  <2>1. CASE "COMPA" \notin Op.flags
    BY <1>2, <1>5, <1>6, <2>1
  <2>2. CASE "COMPA" \in Op.flags /\ isSinLFO(Op.typ)
    BY <1>2, <1>5, <1>6, <2>2 DEF Unit
  <2>3. CASE "COMPA" \in Op.flags /\ ~isSinLFO(Op.typ)
    <3>1. RampRange(range) \in 0 .. One
      BY <1>4, <2>3, RampRangeBounds
    <3>2. RdaLfo = RampRange(range) - lfo /\ lfo \in 0 .. One
      BY <1>2, <1>6, <2>3
    <3> QED BY <1>5, <2>3, <3>1, <3>2 DEF Unit
  <2> QED BY <2>1, <2>2, <2>3
<1>8. CASE "NA" \in Op.flags
  <2>1. ~isSinLFO(Op.typ) /\ "COMPA" \notin Op.flags
    BY <1>2, <1>4, <1>8
  <2>2. XFade(RdaLfo) \in 0 .. One
    BY <1>7, <2>1, XFadeRange
  <2>3. RdaFade \in Unit
    BY <1>5, <2>2 DEF RdaFade, Unit
  <2> QED BY <1>8, <2>3 DEF CHO_RDA_Panics, FloatAccepted
<1>9. CASE "NA" \notin Op.flags
  <2>1. RdaTapPanics
    BY <1>9 DEF CHO_RDA_Panics
  <2>2. ~OutOfBounds(RdaIndex)
    <3> DEFINE scaled == ScaleLFO(RdaLfo, RdaTyp, range)
    <3>1. scaled \in Int /\ scaled <= Reach
      BY <1>1, <1>3, <1>7, ScaleReach DEF Reach, Saturating
    <3>2. ~(Op.addr + Reach > MemSize)
      BY <1>0, <1>9 DEF Misuse
    <3>3. Op.addr \in Int /\ MemSize \in Nat /\ DelayRAMPtr \in Int /\ DelayRAMPtr <= 0
      <4>1. Op.addr \in Addresses
        BY <1>0, OpIsInstruction, OperandTypes
      <4> QED BY <4>1, PositiveConstants DEF Addresses, TypeOK, ControlOK
    <3>4. Reach \in Int
      <4>1. Registers[RangeReg(Op.typ)] \in Unit
        BY <1>1, <1>3
      <4>2. Abs(Registers[RangeReg(Op.typ)]) \in Int
        BY <4>1, UnitResults, <1>5, ConstantSets DEF Saturating
      <4>3. Abs(Registers[RangeReg(Op.typ)]) \div SineAmpDiv \in Int
        BY <4>2, DivMod, PositiveConstants
      <4> QED BY <4>2, <4>3 DEF Reach
    <3>5. RdaIndex = DelayRAMPtr + Op.addr + scaled
      BY DEF RdaIndex
    <3> HIDE DEF scaled
    <3> QED BY <3>1, <3>2, <3>3, <3>4, <3>5 DEF OutOfBounds
  <2>3. FloatAccepted(RdaScale)
    <3>1. CASE "COMPC" \notin Op.flags
      BY <1>7, <3>1 DEF RdaScale, FloatAccepted
    <3>2. CASE "COMPC" \in Op.flags /\ isSinLFO(Op.typ)
      <4> DEFINE half == (RdaLfo + One) \div 2
      <4>1. RdaLfo + One \in Int /\ 2 * 0 <= RdaLfo + One /\ RdaLfo + One <= 2 * One /\ 2 \in Nat \ {0}
        BY <1>5, <1>7 DEF Unit
      <4>2. half \in 0 .. One
        BY <1>5, <4>1, DivBounds
      <4>3. RdaScale = One - half
        BY <1>1, <3>2 DEF RdaScale
      <4> HIDE DEF half
      <4> QED BY <1>5, <4>2, <4>3 DEF FloatAccepted, Unit
    <3>3. CASE "COMPC" \in Op.flags /\ ~isSinLFO(Op.typ)
      <4>1. RdaScale = One - RdaLfo /\ RdaLfo \in 0 .. One
        BY <1>1, <1>4, <1>7, <3>3 DEF RdaScale
      <4> QED BY <1>5, <4>1 DEF FloatAccepted, Unit
    <3> QED BY <3>1, <3>2, <3>3
  <2>4. "COMPC" \in Op.flags /\ ~isSinLFO(RdaTyp) => FloatAccepted(2 * RdaLfo - One)
    <3> SUFFICES ASSUME "COMPC" \in Op.flags, ~isSinLFO(Op.typ) PROVE 2 * RdaLfo - One \in Unit
      BY <1>1 DEF FloatAccepted
    <3>1. RdaLfo \in 0 .. One
      BY <1>4, <1>7
    <3> QED BY <1>5, <3>1 DEF Unit
  <2> QED BY <2>1, <2>2, <2>3, <2>4 DEF RdaTapPanics
<1> QED BY <1>8, <1>9

LEMMA SofMisuse ==
  ASSUME TypeOK, Saturating, UnitState, CalmInv, CHO_SOF_Panics
  PROVE  Misuse
<1>0. Issue("CHO_SOF") /\ Op.name = "CHO_SOF" /\ (Misused(Op.flags) = {} => ~FloatAccepted(SofScale))
  BY DEF CHO_SOF_Panics, SofPanics, Issue
<1> SUFFICES ASSUME ~Misuse PROVE FALSE
  OBVIOUS
<1>1. Misused(Op.flags) = {} /\ ~(isSinLFO(Op.typ) /\ "COMPC" \in Op.flags)
  BY <1>0 DEF Misuse
<1> DEFINE lfo == LfoValue(SofTyp, Op.flags)
<1>2. SofTyp \in LfoTypes /\ (isSinLFO(SofTyp) <=> isSinLFO(Op.typ))
  BY <1>0, <1>1, ChoKind DEF SofTyp
<1>3. /\ isSinLFO(Op.typ) => lfo \in Unit /\ "NA" \notin Op.flags
      /\ ~isSinLFO(Op.typ) => lfo \in 0 .. One
  BY <1>1, <1>2, LfoRange, ChoNumbers DEF Misused
<1>4. One \in Nat \ {0}
  BY PositiveConstants
<1>5. /\ isSinLFO(Op.typ) => SofLfo \in Unit
      /\ ~isSinLFO(Op.typ) => SofLfo \in 0 .. One
  <2>1. SofLfo \in {lfo, IF isSinLFO(Op.typ) THEN -lfo ELSE One - lfo}
    BY <1>2 DEF SofLfo
  <2> HIDE DEF lfo
  <2> QED BY <1>3, <1>4, <2>1 DEF Unit
<1>6. CASE isSinLFO(Op.typ)
  <2>1. SofScale = SofLfo
    BY <1>1, <1>3, <1>6 DEF SofScale
  <2> QED BY <1>0, <1>1, <1>5, <1>6, <2>1 DEF FloatAccepted
<1>7. CASE ~isSinLFO(Op.typ)
  <2>1. SofLfo \in 0 .. One /\ XFade(SofLfo) \in 0 .. One
    BY <1>5, <1>7, XFadeRange
  <2>2. SofScale \in {SofLfo, One - SofLfo, XFade(SofLfo), One - XFade(SofLfo)}
    BY DEF SofScale
  <2>3. SofScale \in Unit
    BY <1>4, <2>1, <2>2 DEF Unit
  <2> QED BY <1>0, <1>1, <2>3 DEF FloatAccepted
<1> QED BY <1>6, <1>7

LEMMA RdalMisuse ==
  ASSUME TypeOK, Saturating, UnitState, CalmInv, CHO_RDAL_Panics
  PROVE  Misuse
<1>0. Issue("CHO_RDAL") /\ Op.name = "CHO_RDAL" /\ (Misused(RdalFlags) = {} => ~FloatAccepted(RdalValue))
  BY DEF CHO_RDAL_Panics, RdalPanics, Issue
<1> SUFFICES ASSUME ~Misuse PROVE FALSE
  OBVIOUS
<1>1. Misused(RdalFlags) = {}
  <2>1. RdalFlags \subseteq Op.flags
    BY DEF RdalFlags
  <2>2. Misused(Op.flags) = {}
    BY <1>0 DEF Misuse
  <2> QED BY <2>1, <2>2 DEF Misused
<1> DEFINE lfo == LfoValue(RdalTyp, RdalFlags)
<1>2. RdalTyp \in LfoTypes /\ (isSinLFO(RdalTyp) <=> isSinLFO(Op.typ))
  BY <1>0, <1>1, ChoKind DEF RdalTyp
<1>3. /\ isSinLFO(Op.typ) => lfo \in Unit /\ "NA" \notin RdalFlags
      /\ ~isSinLFO(Op.typ) => lfo \in 0 .. One
  BY <1>1, <1>2, LfoRange, ChoNumbers DEF Misused
<1>4. One \in Nat \ {0}
  BY PositiveConstants
<1>5. /\ isSinLFO(Op.typ) => RdalLfo \in Unit
      /\ ~isSinLFO(Op.typ) => RdalLfo \in 0 .. One
  <2>1. RdalLfo \in {lfo, IF isSinLFO(Op.typ) THEN -lfo ELSE One - lfo}
    BY <1>2 DEF RdalLfo
  <2> HIDE DEF lfo
  <2> QED BY <1>3, <1>4, <2>1 DEF Unit
<1>6. CASE "NA" \notin RdalFlags
  <2>1. RdalLfo \in Unit
    BY <1>4, <1>5 DEF Unit
  <2>2. RdalValue = IF "COMPC" \in RdalFlags THEN IF RdalLfo < 0 THEN One ELSE One - RdalLfo ELSE RdalLfo
    BY <1>6 DEF RdalValue
  <2>3. RdalValue \in Unit
    BY <1>4, <2>1, <2>2 DEF Unit
  <2> QED BY <1>0, <1>1, <2>3 DEF FloatAccepted
<1>7. CASE "NA" \in RdalFlags
  <2>1. RdalLfo \in 0 .. One /\ XFade(RdalLfo) \in 0 .. One
    BY <1>3, <1>5, <1>7, XFadeRange
  <2>2. RdalValue \in {XFade(RdalLfo), One - XFade(RdalLfo)}
    BY <1>7 DEF RdalValue
  <2>3. RdalValue \in Unit
    BY <1>4, <2>1, <2>2 DEF Unit
  <2> QED BY <1>0, <1>1, <2>3 DEF FloatAccepted
<1> QED BY <1>6, <1>7

LEMMA UpdateAccepts ==
  ASSUME TypeOK, Saturating, CalmInv
  PROVE  UpdateAccepted(sine, ramp)
  BY DEF UpdateAccepted, CalmInv, TypeOK, DataOK, RampStates

LEMMA MisuseKept ==
  ASSUME UNCHANGED <<IP, prog, ACC, Registers>>
  PROVE  Misuse' <=> Misuse
<1>1. Op' = Op
  BY DEF Op
<1>2. Misused(Op.flags)' = Misused(Op.flags)
  BY <1>1 DEF Misused, isSinLFO
<1>3. Registers[RangeReg(Op.typ)]' = Registers[RangeReg(Op.typ)]
  BY <1>1 DEF RangeReg, isSinLFO, Bank
<1>4. Reach' = Reach
  BY <1>1, <1>3 DEF Reach, isSinLFO, RangeReg, Bank, Abs
<1> QED BY <1>1, <1>2, <1>3, <1>4 DEF Misuse, isSinLFO

\* With the clamping on, in a program without AND, OR, XOR and NOT, and whatever the
\* samples, a panic is the fault of the instruction that is at hand then, and of its
\* operands, its register or ACC: the writes to the LFO registers leave nothing over
\* which a later Update, a later CHO or the padding would panic.
THEOREM SaturatingPanicsAreMisuse == Spec => []NoPanic
<1>1. Init => NoPanic
  BY DEF Init, NoPanic
<1>2. TypeOK /\ UnitInv /\ CalmInv /\ NoPanic /\ [Next]_vars => NoPanic'
  <2> SUFFICES ASSUME TypeOK, UnitInv, CalmInv, NoPanic, [Next]_vars, Saturating', phase' = "panic"
               PROVE  (IP < Len(prog) /\ Misuse)'
    BY DEF NoPanic
  <2>1. Saturating
    BY ProgramStays DEF Saturating
  <2>2. UnitState
    BY <2>1 DEF UnitInv
  <2>3. CASE Panic
    <3>1. Crash /\ IP < Len(prog) /\ Misuse
      <4>1. Crash /\ ~Update_Panics
        BY <2>1, <2>3, UpdateAccepts DEF Panic, LOG_Panics, WRAX_Panics, CHO_RDA_Panics, CHO_SOF_Panics,
           CHO_RDAL_Panics, Update_Panics
      <4>2. IP < Len(prog)
        BY <2>3, <4>1 DEF Panic, LOG_Panics, WRAX_Panics, CHO_RDA_Panics, CHO_SOF_Panics,
           CHO_RDAL_Panics, IssueRDA, Issue
      <4>3. Misuse
        BY <2>1, <2>2, <2>3, <4>1, LogMisuse, WraxMisuse, RdaMisuse, SofMisuse, RdalMisuse DEF Panic
      <4> QED BY <4>1, <4>2, <4>3
    <3>2. UNCHANGED <<IP, prog, ACC, Registers>>
      BY <3>1 DEF Crash, registerVars, callVars
    <3>3. Misuse' <=> Misuse
      BY <3>2, MisuseKept
    <3> QED BY <3>1, <3>2, <3>3
  <2>4. CASE UNCHANGED vars
    <3>1. IP < Len(prog) /\ Misuse
      BY <2>1, <2>4 DEF NoPanic, vars
    <3>2. UNCHANGED <<IP, prog, ACC, Registers>>
      BY <2>4 DEF vars
    <3>3. Misuse' <=> Misuse
      BY <3>2, MisuseKept
    <3> QED BY <3>1, <3>2, <3>3
  <2>5. CASE Execute
    <3>1. \E skip \in Nat, raised \in SUBSET RampFlags : Continue(skip, raised)
      BY <2>5, ExecuteStep
    <3> QED BY <2>5, <3>1, ExecuteStep DEF Continue
  <2>6. CASE Error
    BY <2>6, ErrorStep
  <2>7. CASE \E in \in Inputs \cup {<<0, 0>>} : StartSample(in[1], in[2])
    BY <2>7 DEF StartSample
  <2>8. CASE EndProgram \/ PadCycle \/ EndSample
    BY <2>8 DEF EndProgram, PadCycle, EndSample
  <2> QED BY <2>3, <2>4, <2>5, <2>6, <2>7, <2>8 DEF Next
<1> QED BY <1>1, <1>2, TypeCorrect, UnitInvariant, CalmInvariant, PTL DEF Spec
=============================================================================
