---------------------------- MODULE Oscillators -----------------------------
(***************************************************************************)
(* The four LFOs of dsp/oscillators.go and the functions of dsp/funcs.go   *)
(* that turn them into coefficients and address offsets.  LFO values are   *)
(* floats in the code; here they are multiples of 1/One, rounded down.     *)
(* The phase of a sine LFO, a float that only grows in the code, is one of *)
(* Period positions of a table that stands for math.Sin.                   *)
(***************************************************************************)
EXTENDS FixedPoint

CONSTANTS
  Period,         \* positions of a sine LFO's phase (a multiple of 4)
  SineTable,      \* the sine of each position
  MaxSineRate,    \* the largest rate SineOscillator.Update lets pass
  RateHalf,       \* ramp rates are -RateHalf .. 2*RateHalf-1: 16384
  MaxRampAmp,     \* the largest ramp amplitude: 4096
  SineAmpDiv      \* ScaleLFOValue divides a sine's range by it: 16

ASSUME OscillatorAssumption ==
  /\ Period \in Nat \ {0} /\ Period % 4 = 0
  /\ SineTable \in [0 .. Period - 1 -> Unit]
  /\ MaxSineRate \in Nat
  /\ RateHalf \in Nat \ {0}
  /\ MaxRampAmp \in Nat \ {0} /\ SineAmpDiv \in Nat \ {0}

(* LFO numbers of base/defs.go.  CHO's 2-bit field names the first four;   *)
(* the COS flag turns SIN0 and SIN1 into COS0 and COS1.                    *)
LFO_SIN0 == 0
LFO_SIN1 == 1
LFO_RMP0 == 2
LFO_RMP1 == 3
LFO_COS0 == 4
LFO_COS1 == 5
LfoTypes == 0 .. 5

isSinLFO(typ) == typ \in {LFO_SIN0, LFO_SIN1, LFO_COS0, LFO_COS1}

\* Which of the two oscillators of its kind an LFO number reads.
Bank(typ) == typ % 2

RampRates == -RateHalf .. 2 * RateHalf - 1

(* The oscillators of a kind: two records.  The amplitudes that the Go     *)
(* structs keep as well are never read.                                    *)
SineStates == [0 .. 1 -> [phase : 0 .. Period - 1, rate : Int32]]
RampStates == [0 .. 1 -> [value : 0 .. Word - 1, freq : RampRates]]

-----------------------------------------------------------------------------
(* Update: one tick *)

SinesAdvance(sine) ==
  [k \in 0 .. 1 |-> [sine[k] EXCEPT !.phase = (@ + sine[k].rate) % Period]]

\* Mutant: a ramp that runs into the negative numbers.
RampStepUnbounded(value, freq) == Wrap(value - (freq \div 4))

\* Past either end of the int32 range the ramp is put at the top, and stays
\* there when its rate is negative.
RampStep(value, freq) ==
  LET next == Wrap(value - (freq \div 4)) IN IF next < 0 THEN Word - 1 ELSE next

RampsAdvance(ramp) ==
  [k \in 0 .. 1 |-> [ramp[k] EXCEPT !.value = RampStep(@, ramp[k].freq)]]

\* The Asserts of the two Update methods hold.
UpdateAccepted(sine, ramp) ==
  \A k \in 0 .. 1 : /\ sine[k].rate \in 0 .. MaxSineRate
                    /\ ramp[k].freq \in RampRates

-----------------------------------------------------------------------------
(* GetLFOValue and what CHO computes from it *)

GetSine(osc)   == SineTable[osc.phase]
GetCosine(osc) == SineTable[(osc.phase + (Period \div 4)) % Period]
GetValue(osc)  == (osc.value * One) \div (Word - 1)

\* The LFO as it is now.
Sample(typ, sine, ramp) ==
  IF typ \in {LFO_SIN0, LFO_SIN1} THEN GetSine(sine[Bank(typ)])
  ELSE IF typ \in {LFO_COS0, LFO_COS1} THEN GetCosine(sine[Bank(typ)])
  ELSE GetValue(ramp[Bank(typ)])

\* Mutant: only the register that was asked for.
FrozenAlone(typ) == {typ}

\* The registers a CHO with REG freezes: sine and cosine together.
Frozen(typ) == {t \in LfoTypes : isSinLFO(t) = isSinLFO(typ) /\ Bank(t) = Bank(typ)}

Freeze(lfoReg, typ, sine, ramp) ==
  [t \in LfoTypes |-> IF t \in Frozen(typ) THEN Sample(t, sine, ramp) ELSE lfoReg[t]]

\* GetLFOValuePlusHalfCycle of a frozen ramp.
PlusHalfCycle(lfo) ==
  LET ahead == lfo + (One \div 2) IN IF ahead > One THEN ahead - One ELSE ahead

\* GetXFadeFromLFO: a flat-topped pyramid of height 1/2.
XFade(lfo) ==
  LET height == IF 3 * lfo < One THEN 3 * lfo
                ELSE IF 3 * lfo < 2 * One THEN One
                ELSE 3 * (One - lfo)
  IN  Truncate(height, 2)

\* GetRampRange, from the value of the ramp's RANGE register.
RampRange(range) == Truncate(range * One, MaxRampAmp)

\* int(ScaleLFOValue(...)): the address offset of a CHO RDA.
ScaleLFO(lfo, typ, range) ==
  IF isSinLFO(typ) THEN Truncate(lfo * range, One * SineAmpDiv)
                   ELSE Truncate(lfo * range, One)
=============================================================================
