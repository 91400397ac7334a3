--------------------------- MODULE ProcessorSafety --------------------------
(***************************************************************************)
(* Safety of Processor beyond its types: what the pointer and the run flag *)
(* record, how long a sample is for the LFOs, and that the delay RAM and   *)
(* the moving pointer implement DelayLine.                                 *)
(***************************************************************************)
EXTENDS ProcessorProofs

(* What each kind of step does to the variables of the call *)

\* The flags an instruction that succeeds may raise of its own.
RampFlags == {"InvalidRamp0Values", "InvalidRamp1Values"}

LEMMA ExecuteStep ==
  ASSUME TypeOK, Execute
  PROVE  /\ phase = "exec" /\ IP < Len(prog)
         /\ \E skip \in Nat, raised \in SUBSET RampFlags : Continue(skip, raised)
<1> DEFINE Goal == /\ phase = "exec" /\ IP < Len(prog)
                   /\ \E skip \in Nat, raised \in SUBSET RampFlags : Continue(skip, raised)
<1>1. ASSUME NEW name, Issue(name), NEW raised \in SUBSET RampFlags, Continue(0, raised)
      PROVE  Goal
  BY <1>1 DEF Issue
<1>2. CASE SOF \/ LOG \/ EXP \/ AND \/ OR \/ XOR \/ CLR \/ NOT \/ ABSA
  <2>1. \E name : Issue(name) /\ Continue(0, {})
    BY <1>2 DEF SOF, LOG, EXP, AND, OR, XOR, CLR, NOT, ABSA, Compute
  <2> QED BY <1>1, <2>1
<1>3. CASE RDAX \/ RDFX \/ MULX \/ MAXX \/ LDAX
  <2>1. \E name : Issue(name) /\ Continue(0, {})
    BY <1>3 DEF RDAX, RDFX, MULX, MAXX, LDAX, Compute
  <2> QED BY <1>1, <2>1
<1>4. CASE SKP
  <2> DEFINE skip == IF Jumps THEN Op.N ELSE 0
  <2>1. Issue("SKP") /\ Continue(skip, {})
    BY <1>4 DEF SKP, Idle
  <2>2. skip \in Nat
    BY <2>1, OpIsInstruction, OperandTypes
  <2> HIDE DEF skip
  <2> QED BY <2>1, <2>2 DEF Issue
<1>5. CASE NOP
  BY <1>1, <1>5 DEF NOP, Idle
<1>6. CASE RDA \/ RMPA \/ WRA \/ WRAP
  <2>1. \E name : Issue(name) /\ Continue(0, {})
    BY <1>6 DEF RDA, RMPA, WRA, WRAP, ReadMemory, WriteMemory
  <2> QED BY <1>1, <2>1
<1>7. CASE WRLX \/ WRHX \/ WRAX_Plain \/ WRAX_SinRate \/ WRAX_SinRange \/ WRAX_RampRate
             \/ WRAX_RampRange
  <2>1. \E name : Issue(name) /\ Continue(0, {})
    BY <1>7 DEF WRLX, WRHX, WRAX_Plain, WRAX_SinRate, WRAX_SinRange, WRAX_RampRate,
       WRAX_RampRange, WriteACC, WriteRegister
  <2> QED BY <1>1, <2>1
<1>8. CASE WLDS \/ WLDR \/ JAM
  <2>1. \E name : Issue(name) /\ \E raised \in SUBSET RampFlags : Continue(0, raised)
    BY <1>8 DEF WLDS, WLDR, JAM, LoadLFO, RampFlags
  <2> QED BY <1>1, <2>1
<1>9. CASE CHO_RDA_XFade \/ CHO_RDA_Tap \/ CHO_SOF \/ CHO_RDAL
  <2>1. \E name : Issue(name) /\ Continue(0, {})
    BY <1>9 DEF CHO_RDA_XFade, CHO_RDA_Tap, CHO_SOF, CHO_RDAL, IssueRDA, ChoDone
  <2> QED BY <1>1, <2>1
<1> QED BY <1>2, <1>3, <1>4, <1>5, <1>6, <1>7, <1>8, <1>9 DEF Execute

LEMMA ErrorStep ==
  ASSUME Error
  PROVE  /\ phase = "exec" /\ IP < Len(prog) /\ phase' = "failed"
         /\ ticks' = ticks + 1 /\ UNCHANGED callVars
<1>1. \E name, raised : Issue(name) /\ Fail(raised)
  BY DEF Error, RDA_Fails, RMPA_Fails, WR_Fails, CHO_RDA_Fails, ReadFault, WriteFault
<1> QED BY <1>1 DEF Issue, Fail

LEMMA PanicStep ==
  ASSUME Panic
  PROVE  phase \in {"exec", "pad"} /\ phase' = "panic" /\ UNCHANGED callVars
  BY DEF Issue, IssueRDA, Panic, LOG_Panics, WRAX_Panics, CHO_RDA_Panics, CHO_SOF_Panics, CHO_RDAL_Panics,
     Update_Panics, Crash

LEMMA ProgramStays == ASSUME TypeOK, [Next]_vars PROVE prog' = prog
<1>1. CASE \E in \in Inputs \cup {<<0, 0>>} : StartSample(in[1], in[2])
  BY <1>1 DEF StartSample
<1>2. CASE Execute
  BY <1>2, ExecuteStep DEF Continue, callVars
<1>3. CASE Error
  BY <1>3, ErrorStep DEF callVars
<1>4. CASE Panic
  BY <1>4, PanicStep DEF callVars
<1>5. CASE EndProgram \/ PadCycle \/ EndSample
  BY <1>5 DEF EndProgram, PadCycle, EndSample, callVars
<1>6. CASE UNCHANGED vars
  BY <1>6 DEF vars
<1> QED BY <1>1, <1>2, <1>3, <1>4, <1>5, <1>6 DEF Next

-----------------------------------------------------------------------------
(* The length of a call *)

\* Every step of a call leaves fewer of them, whatever the program skips: a call is
\* over after its program and a sample's cycles at the latest, and the only thing
\* liveness has to assume is that the next step is taken.
THEOREM CallsDoShorten == Spec => CallsShorten
<1> DEFINE Shortens == phase \in {"exec", "pad"} => TurnsLeft' < TurnsLeft
<1>1. TypeOK /\ [Next]_vars => [Shortens]_vars
  <2> SUFFICES ASSUME TypeOK, Next, phase \in {"exec", "pad"} PROVE TurnsLeft' < TurnsLeft
    OBVIOUS
  <2>0. /\ IP \in Nat /\ cycles \in Nat /\ Len(prog) \in Nat /\ InstructionsPerSample \in Nat
    BY ProcessorAssumption DEF TypeOK, ControlOK
  <2>1. TurnsLeft > 0
    BY <2>0 DEF TurnsLeft
  <2>2. CASE Execute
    <3>1. PICK skip \in Nat, raised \in SUBSET RampFlags : Continue(skip, raised)
      BY <2>2, ExecuteStep
    <3>2. /\ phase = "exec" /\ IP < Len(prog) /\ phase' = "exec" /\ IP' = IP + 1 + skip /\ prog' = prog
      BY <2>2, <3>1, ExecuteStep DEF Continue, callVars
    <3> QED BY <2>0, <3>2 DEF TurnsLeft
  <2>3. CASE Error
    <3>1. phase' = "failed"
      BY <2>3, ErrorStep
    <3> QED BY <2>1, <3>1 DEF TurnsLeft
  <2>4. CASE Panic
    <3>1. phase' = "panic"
      BY <2>4, PanicStep
    <3> QED BY <2>1, <3>1 DEF TurnsLeft
  <2>5. CASE EndProgram
    BY <2>0, <2>5 DEF EndProgram, TurnsLeft
  <2>6. CASE PadCycle
    <3>1. /\ phase = "pad" /\ phase' = "pad" /\ cycles < InstructionsPerSample /\ cycles' = cycles + 1
      BY <2>6 DEF PadCycle
    <3> QED BY <2>0, <3>1 DEF TurnsLeft
  <2>7. CASE EndSample
    <3>1. phase' = "idle"
      BY <2>7 DEF EndSample
    <3> QED BY <2>1, <3>1 DEF TurnsLeft
  <2>8. ~\E in \in Inputs \cup {<<0, 0>>} : StartSample(in[1], in[2])
    BY DEF StartSample
  <2> QED BY <2>2, <2>3, <2>4, <2>5, <2>6, <2>7, <2>8 DEF Next
<1> QED BY <1>1, TypeCorrect, PTL DEF Spec, CallsShorten

-----------------------------------------------------------------------------
(* The pointer and the run flag *)

LEMMA NextRemainder ==
  ASSUME NEW n \in Nat, NEW m \in Nat \ {0}
  PROVE  (n + 1) % m = IF n % m = m - 1 THEN 0 ELSE (n % m) + 1
<1> DEFINE q == n \div m
           r == n % m
<1>1. q \in Int /\ r \in 0 .. m - 1 /\ n = m * q + r
  BY DivMod
<1> HIDE DEF q, r
<1>2. CASE r = m - 1
  <2>1. n + 1 = m * (q + 1) + 0 /\ q + 1 \in Int /\ 0 \in 0 .. m - 1
    BY <1>1, <1>2
  <2> QED BY <1>2, <2>1, ModUnique, SMTT(60) DEF r
<1>3. CASE r # m - 1
  <2>1. n + 1 = m * q + (r + 1) /\ r + 1 \in 0 .. m - 1
    BY <1>1, <1>3
  <2> QED BY <1>1, <1>3, <2>1, ModUnique, SMTT(60) DEF r
<1> QED BY <1>2, <1>3

\* PassesCounted is inductive, given the types: no call but one that runs the
\* program to its end moves the pointer or sets the run flag, and the pointer
\* is back at 0 after exactly MemSize of them.
THEOREM PassesAreCounted == Spec => []PassesCounted
<1>1. Init => PassesCounted
  <2>1. 0 % MemSize = 0
    <3>1. 0 = MemSize * 0 + 0 /\ 0 \in 0 .. MemSize - 1
      BY PositiveConstants
    <3> QED BY <3>1, ModUnique, PositiveConstants
  <2> SUFFICES ASSUME Init PROVE PassesCounted
    OBVIOUS
  <2>2. Passes = 0 /\ RUN_FLAG = FALSE /\ DelayRAMPtr = 0
    BY DEF Init, Passes
  <2>3. RUN_FLAG <=> Passes > 0
    BY <2>2
  <2>4. DelayRAMPtr = -(Passes % MemSize)
    BY <2>1, <2>2
  <2> QED BY <2>3, <2>4 DEF PassesCounted
<1>2. TypeOK /\ PassesCounted /\ [Next]_vars => PassesCounted'
  <2> SUFFICES ASSUME TypeOK, PassesCounted, [Next]_vars PROVE PassesCounted'
    OBVIOUS
  <2>1. CASE \E in \in Inputs \cup {<<0, 0>>} : StartSample(in[1], in[2])
    BY <2>1 DEF PassesCounted, Passes, StartSample
  <2>2. CASE Execute
    BY <2>2, ExecuteStep DEF Continue, callVars, PassesCounted, Passes
  <2>3. CASE Error
    BY <2>3, ErrorStep DEF callVars, PassesCounted, Passes
  <2>4. CASE Panic
    BY <2>4, PanicStep DEF PassesCounted
  <2>5. CASE EndProgram
    <3>1. completed \in Nat /\ Passes = completed /\ Passes' = completed + 1
      BY <2>5 DEF EndProgram, Passes, TypeOK, ControlOK
    <3> DEFINE r == completed % MemSize
    <3>2. DelayRAMPtr = -r /\ r \in 0 .. MemSize - 1
      BY <2>5, <3>1, DivMod, PositiveConstants DEF EndProgram, PassesCounted
    <3>3. (completed + 1) % MemSize = IF r = MemSize - 1 THEN 0 ELSE r + 1
      BY <3>1, NextRemainder, PositiveConstants
    <3> HIDE DEF r
    <3>4. DelayRAMPtr' = -(IF r = MemSize - 1 THEN 0 ELSE r + 1)
      BY <2>5, <3>2, PositiveConstants DEF EndProgram
    <3>5. DelayRAMPtr' = -(Passes' % MemSize)
      BY <3>1, <3>3, <3>4
    <3>6. RUN_FLAG' = TRUE /\ Passes' > 0
      BY <2>5, <3>1 DEF EndProgram
    <3> QED BY <3>5, <3>6 DEF PassesCounted
  <2>6. CASE PadCycle
    BY <2>6 DEF PadCycle, callVars, PassesCounted, Passes
  <2>7. CASE EndSample
    BY <2>7 DEF EndSample, PassesCounted, Passes, TypeOK, ControlOK
  <2>8. CASE UNCHANGED vars
    BY <2>8 DEF vars, PassesCounted, Passes
  <2> QED BY <2>1, <2>2, <2>3, <2>4, <2>5, <2>6, <2>7, <2>8 DEF Next
<1> QED BY <1>1, <1>2, TypeCorrect, PTL DEF Spec

-----------------------------------------------------------------------------
(* Time *)

\* Cycles of the call in progress.
Now == IF phase \in {"exec", "pad"} THEN cycles ELSE 0

\* The LFO updates are those of the samples that have ended, of the calls that
\* failed and of the one in progress; and a program no longer than a sample's
\* cycles cannot have used more of them than it has instructions, whatever it
\* skips.
TimeInv ==
  /\ Lost \in Nat
  /\ phase = "exec" => cycles <= IP /\ cycles <= Len(prog)
  /\ phase = "pad" /\ Len(prog) <= InstructionsPerSample => cycles <= InstructionsPerSample
  /\ phase # "panic" /\ Len(prog) <= InstructionsPerSample
       => /\ completed * InstructionsPerSample + Lost + Now <= ticks
          /\ ticks <= completed * InstructionsPerSample + Lost * InstructionsPerSample + Now

\* However many instructions are skipped, every sample is the same number of
\* ticks for the LFOs, and a call that fails loses less than that.
THEOREM LfosDoKeepTime == Spec => []LfosKeepTime
<1>0. InstructionsPerSample \in Nat
  BY ProcessorAssumption
<1> USE <1>0
<1>1. Init => TimeInv
  <2> SUFFICES ASSUME Init PROVE TimeInv
    OBVIOUS
  <2>1. ticks = 0 /\ completed = 0 /\ sampleNum = 0 /\ phase = "idle"
    BY DEF Init
  <2>2. Lost = 0 - 0 - 0 /\ Now = 0
    BY <2>1 DEF Lost, Now
  <2>3. 0 * InstructionsPerSample = 0
    OBVIOUS
  <2>4. Lost = 0 /\ Lost \in Nat
    BY <2>2
  <2> QED BY <2>1, <2>2, <2>3, <2>4 DEF TimeInv
<1>2. TypeOK /\ TimeInv /\ [Next]_vars => TimeInv'
  <2> SUFFICES ASSUME TypeOK, TimeInv, [Next]_vars PROVE TimeInv'
    OBVIOUS
  <2>0. /\ IP \in Nat /\ cycles \in Nat /\ ticks \in Nat /\ completed \in Nat
        /\ sampleNum \in Nat /\ Len(prog) \in Nat /\ phase \in Phases
    BY DEF TypeOK, ControlOK
  <2> DEFINE Behind == Lost * InstructionsPerSample
             Done   == completed * InstructionsPerSample
  <2>00. Lost \in Nat /\ Now \in Nat /\ Behind \in Nat /\ Done \in Nat
    BY <2>0 DEF TimeInv, Now
  <2>000. ASSUME Lost' = Lost, completed' = completed
          PROVE  Behind' = Behind /\ Done' = Done
    BY <2>000
  <2> HIDE DEF Behind, Done
  <2>a. phase # "panic" /\ Len(prog) <= InstructionsPerSample
          => Done + Lost + Now <= ticks /\ ticks <= Done + Behind + Now
    BY DEF TimeInv, Behind, Done
  <2>b. ASSUME Lost' \in Nat,
               phase' = "exec" => cycles' <= IP' /\ cycles' <= Len(prog'),
               phase' = "pad" /\ Len(prog') <= InstructionsPerSample => cycles' <= InstructionsPerSample,
               phase' # "panic" /\ Len(prog') <= InstructionsPerSample
                 => Done' + Lost' + Now' <= ticks' /\ ticks' <= Done' + Behind' + Now'
        PROVE  TimeInv'
    BY <2>b DEF TimeInv, Behind, Done
  <2>1. CASE \E in \in Inputs \cup {<<0, 0>>} : StartSample(in[1], in[2])
    <3>1. /\ phase \in {"idle", "failed"} /\ phase' = "exec" /\ cycles' = 0 /\ IP' = 0
          /\ sampleNum' = sampleNum + 1 /\ UNCHANGED <<prog, completed, ticks>>
      BY <2>1 DEF StartSample
    <3>2. Lost' = Lost /\ Now = 0 /\ Now' = 0
      BY <2>0, <3>1 DEF Lost, Now
    <3> QED BY <2>0, <2>00, <2>000, <2>a, <2>b, <3>1, <3>2
  <2>2. CASE Execute
    <3>1. PICK skip \in Nat, raised \in SUBSET RampFlags : Continue(skip, raised)
      BY <2>2, ExecuteStep
    <3>2. /\ phase = "exec" /\ IP < Len(prog) /\ phase' = "exec" /\ IP' = IP + 1 + skip
          /\ cycles' = cycles + 1 /\ ticks' = ticks + 1
          /\ UNCHANGED <<prog, sampleNum, completed>>
      BY <2>2, <3>1, ExecuteStep DEF Continue, callVars
    <3>3. Lost' = Lost /\ Now = cycles /\ Now' = cycles + 1
      BY <2>0, <3>2 DEF Lost, Now
    <3>4. cycles <= IP /\ cycles <= Len(prog)
      BY <3>2 DEF TimeInv
    <3> QED BY <2>0, <2>00, <2>000, <2>a, <2>b, <3>2, <3>3, <3>4
  <2>3. CASE Error
    <3>1. /\ phase = "exec" /\ IP < Len(prog) /\ phase' = "failed" /\ ticks' = ticks + 1
          /\ UNCHANGED <<prog, sampleNum, completed>>
      BY <2>3, ErrorStep DEF callVars
    <3>2. Lost' = Lost + 1 /\ Now = cycles /\ Now' = 0
      BY <2>0, <3>1 DEF Lost, Now
    <3>3. Behind' = Behind + InstructionsPerSample /\ Done' = Done
      BY <2>00, <3>1, <3>2 DEF Behind, Done
    <3>4. cycles <= IP
      BY <3>1 DEF TimeInv
    <3> QED BY <2>0, <2>00, <2>a, <2>b, <3>1, <3>2, <3>3, <3>4
  <2>4. CASE Panic
    <3>1. phase \in {"exec", "pad"} /\ phase' = "panic" /\ UNCHANGED <<sampleNum, completed>>
      BY <2>4, PanicStep DEF callVars
    <3>2. Lost' = Lost + 1
      BY <2>0, <3>1 DEF Lost
    <3> QED BY <2>00, <2>b, <3>1, <3>2
  <2>5. CASE EndProgram
    <3>1. /\ phase = "exec" /\ phase' = "pad" /\ IP >= Len(prog)
          /\ UNCHANGED <<IP, prog, cycles, ticks, sampleNum, completed>>
      BY <2>5 DEF EndProgram
    <3>2. Lost' = Lost /\ Now' = Now
      BY <3>1 DEF Lost, Now
    <3>3. cycles <= Len(prog)
      BY <3>1 DEF TimeInv
    <3> QED BY <2>0, <2>00, <2>000, <2>a, <2>b, <3>1, <3>2, <3>3
  <2>6. CASE PadCycle
    <3>1. /\ phase = "pad" /\ cycles < InstructionsPerSample /\ cycles' = cycles + 1
          /\ ticks' = ticks + 1 /\ UNCHANGED <<phase, prog, sampleNum, completed>>
      BY <2>6 DEF PadCycle, callVars
    <3>2. Lost' = Lost /\ Now = cycles /\ Now' = cycles + 1
      BY <3>1 DEF Lost, Now
    <3> QED BY <2>0, <2>00, <2>000, <2>a, <2>b, <3>1, <3>2
  <2>7. CASE EndSample
    <3>1. /\ phase = "pad" /\ cycles >= InstructionsPerSample /\ phase' = "idle"
          /\ completed' = completed + 1 /\ UNCHANGED <<prog, ticks, sampleNum>>
      BY <2>7 DEF EndSample
    <3>2. Lost' = Lost /\ Now = cycles /\ Now' = 0
      BY <2>0, <3>1 DEF Lost, Now
    <3>3. Done' = Done + InstructionsPerSample /\ Behind' = Behind
      BY <2>0, <2>00, <3>1, <3>2 DEF Behind, Done
    <3>4. Len(prog) <= InstructionsPerSample => cycles = InstructionsPerSample
      BY <2>0, <3>1 DEF TimeInv
    <3> QED BY <2>0, <2>00, <2>a, <2>b, <3>1, <3>2, <3>3, <3>4
  <2>8. CASE UNCHANGED vars
    BY <2>8 DEF vars, TimeInv, Lost, Now
  <2> QED BY <2>1, <2>2, <2>3, <2>4, <2>5, <2>6, <2>7, <2>8 DEF Next
<1>3. TypeOK /\ TimeInv => LfosKeepTime
  <2> SUFFICES ASSUME TypeOK, TimeInv, phase \in {"idle", "failed"}, Len(prog) <= InstructionsPerSample
               PROVE  ticks \in completed * InstructionsPerSample + Lost
                                  .. (completed + Lost) * InstructionsPerSample
    BY DEF LfosKeepTime
  <2>1. completed \in Nat /\ ticks \in Nat /\ Lost \in Nat /\ Now = 0
    BY DEF TypeOK, ControlOK, TimeInv, Now
  <2>2. (completed + Lost) * InstructionsPerSample
          = completed * InstructionsPerSample + Lost * InstructionsPerSample
    BY <2>1
  <2>3. /\ completed * InstructionsPerSample + Lost <= ticks
        /\ ticks <= completed * InstructionsPerSample + Lost * InstructionsPerSample
    BY <2>1 DEF TimeInv
  <2>4. completed * InstructionsPerSample \in Nat /\ Lost * InstructionsPerSample \in Nat
    BY <2>1
  <2> QED BY <2>1, <2>2, <2>3, <2>4
<1> QED BY <1>1, <1>2, <1>3, TypeCorrect, PTL DEF Spec

-----------------------------------------------------------------------------
(* The RAM that stays in place and the pointer that moves are a delay line: the   *)
(* step simulation of DelayLine by Processor, for a RAM of any size, any program  *)
(* and any operators.                                                             *)

(* The refinement mapping, by name *)
Line == [a \in 0 .. MemSize - 1 |-> SignExtend(DelayRAM[Index(Moved(a))])]

LEMMA ModShift ==
  ASSUME NEW a \in Int, NEW b \in Int, NEW m \in Nat \ {0}
  PROVE  ((a % m) + b) % m = (a + b) % m
<1> DEFINE q1 == a \div m
           r1 == a % m
           q2 == (r1 + b) \div m
           r2 == (r1 + b) % m
<1>1. q1 \in Int /\ r1 \in 0 .. m - 1 /\ a = m * q1 + r1
  BY DivMod
<1> HIDE DEF q1, r1
<1>2. r1 + b \in Int
  BY <1>1
<1>3. q2 \in Int /\ r2 \in 0 .. m - 1 /\ r1 + b = m * q2 + r2
  BY <1>2, DivMod
<1>4. r2 = ((a % m) + b) % m
  BY DEF r1
<1> HIDE DEF q2, r2
<1>5. a + b = m * (q1 + q2) + r2 /\ q1 + q2 \in Int /\ a + b \in Int
  <2>1. m * (q1 + q2) = m * q1 + m * q2
    BY <1>1, <1>3
  <2>2. m * q1 \in Int /\ m * q2 \in Int
    BY <1>1, <1>3
  <2> QED BY <1>1, <1>3, <2>1, <2>2
<1>6. (a + b) % m = r2
  BY <1>3, <1>5, ModUnique
<1> QED BY <1>4, <1>6

LEMMA Mapped ==
  ASSUME TypeOK
  PROVE  DelayRAMPtr \in Int /\ MemSize \in Nat \ {0} /\ One \in Nat \ {0} /\ ACC \in Int
  BY PositiveConstants, ConstantSets DEF TypeOK, ControlOK, DataOK

\* The cell of an address, however it was arrived at.
LEMMA SameCell ==
  ASSUME TypeOK, NEW a \in Int
  PROVE  Index(a) \in 0 .. MemSize - 1 /\ Index(Moved(Index(a))) = Index(Moved(a))
<1>1. Index(a) \in 0 .. MemSize - 1
  BY Mapped, DivMod DEF Index
<1>2. ((a % MemSize) + DelayRAMPtr) % MemSize = (a + DelayRAMPtr) % MemSize
  BY Mapped, ModShift
<1> QED BY <1>1, <1>2 DEF Index, Moved

LEMMA LineReads ==
  ASSUME TypeOK, NEW a \in Int
  PROVE  Line[Index(a)] = SignExtend(DelayRAM[Index(Moved(a))])
  BY SameCell DEF Line

\* Two addresses of the line are two cells of the RAM.
LEMMA CellsDiffer ==
  ASSUME TypeOK, NEW a \in 0 .. MemSize - 1, NEW b \in 0 .. MemSize - 1,
         Index(Moved(a)) = Index(Moved(b))
  PROVE  a = b
<1> DEFINE q1 == (a + DelayRAMPtr) \div MemSize
           q2 == (b + DelayRAMPtr) \div MemSize
           r == (a + DelayRAMPtr) % MemSize
<1>0. /\ DelayRAMPtr \in Int /\ MemSize \in Nat \ {0} /\ a \in Int /\ b \in Int
      /\ a + DelayRAMPtr \in Int /\ b + DelayRAMPtr \in Int
  BY Mapped
<1>1. q1 \in Int /\ r \in Int /\ a + DelayRAMPtr = MemSize * q1 + r
  BY <1>0, DivMod
<1>2. q2 \in Int /\ b + DelayRAMPtr = MemSize * q2 + r
  BY <1>0, DivMod DEF Index, Moved
<1> HIDE DEF q1, q2, r
<1>3. a = MemSize * (q1 - q2) + b /\ q1 - q2 \in Int
  <2>1. MemSize * (q1 - q2) = MemSize * q1 - MemSize * q2 /\ MemSize * q1 \in Int /\ MemSize * q2 \in Int
    BY <1>0, <1>1, <1>2
  <2> QED BY <1>0, <1>1, <1>2, <2>1
<1>4. a % MemSize = b
  BY <1>0, <1>3, ModUnique
<1>5. a % MemSize = a
  <2>1. a = MemSize * 0 + a
    BY <1>0
  <2> QED BY <1>0, <2>1, ModUnique
<1> QED BY <1>4, <1>5

\* The low 24 bits, and the value they stand for, are what goes through a cell.
LEMMA StoredValue ==
  ASSUME NEW v \in Int
  PROVE  Low24(v) = SignExtend(ToQFormat(v))
<1> DEFINE m == 2 * One
           low == SignExtend(ToQFormat(v))
<1>0. One \in Nat \ {0} /\ m \in Nat \ {0}
  BY PositiveConstants
<1>1. low \in Fix24
  BY ToQFormatInRaw24, SignExtendInFix24
<1>2. (low - v) % m = 0
  <2> DEFINE q == v \div m
             r == v % m
  <2>1. q \in Int /\ r \in 0 .. m - 1 /\ v = m * q + r
    BY <1>0, DivMod
  <2>2. low = r \/ low = r - m
    BY DEF SignExtend, ToQFormat
  <2> HIDE DEF q, r, low, m
  <2>3. low - v = m * (-q) + 0 \/ low - v = m * (-q - 1) + 0
    <3>1. m * (-q) = -(m * q) /\ m * (-q - 1) = -(m * q) - m /\ m * q \in Int
      BY <1>0, <2>1
    <3> QED BY <1>0, <2>1, <2>2, <3>1
  <2>4. -q \in Int /\ -q - 1 \in Int /\ low - v \in Int /\ 0 \in 0 .. m - 1
    BY <1>0, <2>1, <2>2
  <2> QED BY <1>0, <2>3, <2>4, ModUnique
<1>3. ASSUME NEW other \in Fix24, (other - v) % m = 0 PROVE other = low
  <2> DEFINE q1 == (other - v) \div m
             q2 == (low - v) \div m
  <2> HIDE DEF low, m
  <2>1. other \in Int /\ low \in Int
    BY <1>1, ConstantSets
  <2>2. q1 \in Int /\ other - v = m * q1
    BY <1>0, <1>3, <2>1, DivMod
  <2>3. q2 \in Int /\ low - v = m * q2
    BY <1>0, <1>2, <2>1, DivMod
  <2> HIDE DEF q1, q2
  <2>4. other = m * (q1 - q2) + low /\ q1 - q2 \in Int
    <3>1. m * (q1 - q2) = m * q1 - m * q2 /\ m * q1 \in Int /\ m * q2 \in Int
      BY <1>0, <2>2, <2>3
    <3> QED BY <2>1, <2>2, <2>3, <3>1
  <2>5. -m < other - low /\ other - low < m
    BY <1>0, <1>1, <2>1 DEF Fix24, m
  <2>6. q1 - q2 = 0
    <3>1. CASE q1 - q2 >= 1
      <4>1. m * (q1 - q2) >= m
        BY <1>0, <2>4, <3>1
      <4> QED BY <1>0, <2>1, <2>4, <2>5, <4>1
    <3>2. CASE q1 - q2 <= -1
      <4>1. m * (q1 - q2) <= -m
        BY <1>0, <2>4, <3>2
      <4> QED BY <1>0, <2>1, <2>4, <2>5, <4>1
    <3> QED BY <2>4, <3>1, <3>2
  <2> QED BY <1>0, <2>1, <2>4, <2>6
<1> HIDE DEF low
<1>4. \E x \in Fix24 : (x - v) % (2 * One) = 0
  BY <1>1, <1>2
<1>5. Low24(v) \in Fix24 /\ (Low24(v) - v) % (2 * One) = 0
  BY <1>4 DEF Low24
<1> QED BY <1>3, <1>5 DEF low

LEMMA LineWrites ==
  ASSUME TypeOK, NEW a \in Int, NEW v \in Int,
         DelayRAM' = [DelayRAM EXCEPT ![Index(Moved(a))] = ToQFormat(v)], DelayRAMPtr' = DelayRAMPtr
  PROVE  Line' = [Line EXCEPT ![Index(a)] = Low24(v)]
<1>1. Index(a) \in 0 .. MemSize - 1 /\ Index(Moved(Index(a))) = Index(Moved(a))
  BY SameCell
<1>2. \A b \in 0 .. MemSize - 1 : Index(Moved(b)) \in 0 .. MemSize - 1
  <2> TAKE b \in 0 .. MemSize - 1
  <2>1. Moved(b) \in Int
    BY Mapped DEF Moved
  <2> QED BY <2>1, SameCell
<1>3. \A b \in 0 .. MemSize - 1 : Index(Moved(b))' = Index(Moved(b))
  BY DEF Index, Moved
<1>4. ASSUME NEW b \in 0 .. MemSize - 1
      PROVE  Line'[b] = IF b = Index(a) THEN Low24(v) ELSE Line[b]
  <2>1. Line'[b] = SignExtend(DelayRAM'[Index(Moved(b))])
    BY <1>3 DEF Line
  <2>2. DelayRAM \in [0 .. MemSize - 1 -> Raw24]
    BY DEF TypeOK, DataOK
  <2>3. CASE b = Index(a)
    <3>1. DelayRAM'[Index(Moved(b))] = ToQFormat(v)
      BY <1>1, <1>2, <2>2, <2>3
    <3> QED BY <2>1, <2>3, <3>1, StoredValue
  <2>4. CASE b # Index(a)
    <3>1. Index(Moved(b)) # Index(Moved(a))
      BY <1>1, <2>4, CellsDiffer
    <3>2. DelayRAM'[Index(Moved(b))] = DelayRAM[Index(Moved(b))]
      BY <1>2, <2>2, <3>1
    <3> QED BY <2>1, <2>4, <3>2 DEF Line
  <2> QED BY <2>3, <2>4
<1> QED BY <1>4 DEF Line

LEMMA LineAdvances ==
  ASSUME TypeOK, DelayRAM' = DelayRAM,
         DelayRAMPtr' = IF DelayRAMPtr - 1 <= -MemSize THEN 0 ELSE DelayRAMPtr - 1
  PROVE  Line' = [a \in 0 .. MemSize - 1 |-> IF a = 0 THEN Line[MemSize - 1] ELSE Line[a - 1]]
<1>0. DelayRAMPtr \in 1 - MemSize .. 0 /\ MemSize \in Nat \ {0}
  BY PositiveConstants DEF TypeOK, ControlOK
<1>1. \A x \in Int : (x + DelayRAMPtr') % MemSize = (x - 1 + DelayRAMPtr) % MemSize
  <2> TAKE x \in Int
  <2>1. CASE DelayRAMPtr - 1 <= -MemSize
    <3>1. DelayRAMPtr' = 0 /\ x - 1 + DelayRAMPtr = x - MemSize
      BY <1>0, <2>1
    <3> DEFINE q == x \div MemSize
               r == x % MemSize
    <3>2. q \in Int /\ r \in 0 .. MemSize - 1 /\ x = MemSize * q + r
      BY <1>0, DivMod
    <3> HIDE DEF q, r
    <3>3. x - MemSize = MemSize * (q - 1) + r /\ q - 1 \in Int /\ x - MemSize \in Int
      BY <1>0, <3>2
    <3>4. (x - MemSize) % MemSize = r
      BY <1>0, <3>2, <3>3, ModUnique
    <3>5. x + DelayRAMPtr' = x
      BY <3>1
    <3> QED BY <3>1, <3>4, <3>5 DEF r
  <2>2. CASE ~(DelayRAMPtr - 1 <= -MemSize)
    <3>1. x + DelayRAMPtr' = x - 1 + DelayRAMPtr
      BY <1>0, <2>2
    <3> QED BY <3>1
  <2> QED BY <2>1, <2>2
<1>2. ASSUME NEW a \in 0 .. MemSize - 1
      PROVE  Line'[a] = IF a = 0 THEN Line[MemSize - 1] ELSE Line[a - 1]
  <2>1. Line'[a] = SignExtend(DelayRAM[(a + DelayRAMPtr') % MemSize])
    BY DEF Line, Index, Moved
  <2>2. (a + DelayRAMPtr') % MemSize = (a - 1 + DelayRAMPtr) % MemSize
    BY <1>1
  <2>3. CASE a = 0
    <3>1. Line[MemSize - 1] = SignExtend(DelayRAM[(MemSize - 1 + DelayRAMPtr) % MemSize])
      BY <1>0 DEF Line, Index, Moved
    <3>2. (MemSize - 1 + DelayRAMPtr) % MemSize = (MemSize + DelayRAMPtr') % MemSize
      <4>1. (MemSize + DelayRAMPtr') % MemSize = ((MemSize - 1) + DelayRAMPtr) % MemSize
        <5>1. MemSize \in Int
          BY <1>0
        <5> QED BY <1>1, <5>1
      <4> QED BY <4>1
    <3>3. ((MemSize % MemSize) + DelayRAMPtr') % MemSize = (MemSize + DelayRAMPtr') % MemSize
      <4>1. DelayRAMPtr' \in Int /\ MemSize \in Int
        BY <1>0
      <4> QED BY <1>0, <4>1, ModShift
    <3>4. MemSize % MemSize = 0
      <4>1. MemSize = MemSize * 1 + 0 /\ 0 \in 0 .. MemSize - 1
        BY <1>0
      <4> QED BY <1>0, <4>1, ModUnique
    <3> QED BY <2>1, <2>3, <3>1, <3>2, <3>3, <3>4
  <2>4. CASE a # 0
    <3>1. a - 1 \in 0 .. MemSize - 1
      BY <1>0, <2>4
    <3>2. Line[a - 1] = SignExtend(DelayRAM[(a - 1 + DelayRAMPtr) % MemSize])
      BY <3>1 DEF Line, Index, Moved
    <3> QED BY <2>1, <2>2, <2>4, <3>2
  <2> QED BY <2>3, <2>4
<1> QED BY <1>2 DEF Line

-----------------------------------------------------------------------------
(* Requests *)

AtInstruction == phase = "exec" /\ IP < Len(prog)

\* Where a CHO RDA without NA reads.
RdaAddress == Op.addr + ScaleLFO(RdaLfo, RdaTyp, Registers[RangeReg(RdaTyp)])

LEMMA RdaAddressType ==
  ASSUME TypeOK, AtInstruction, Op.name = "CHO_RDA", Misused(Op.flags) = {}
  PROVE  RdaAddress \in Int /\ RdaIndex = Moved(RdaAddress)
<1> DEFINE offset == ScaleLFO(RdaLfo, RdaTyp, Registers[RangeReg(RdaTyp)])
<1>1. Op \in Instruction
  BY DEF TypeOK, ControlOK, AtInstruction, Op
<1>2. Op.typ \in 0 .. 3 /\ Op.addr \in Int
  BY <1>1, OperandTypes, PositiveConstants DEF Addresses
<1>3. RdaTyp \in LfoTypes
  BY <1>2, ChoTypInLfoTypes DEF RdaTyp
<1>4. offset \in Int
  BY <1>3, RdaOffsetType
<1>5. RdaAddress = Op.addr + offset /\ RdaIndex = DelayRAMPtr + Op.addr + offset
  BY DEF RdaAddress, RdaIndex
<1> HIDE DEF offset
<1> QED BY <1>2, <1>4, <1>5, Mapped DEF Moved

Quiet == Request = [kind |-> "none"]

\* What is asked for, by the instruction at hand.
LEMMA RequestOf ==
  /\ phase \in {"failed", "panic"} => Request = [kind |-> "refused"]
  /\ phase \in {"idle", "pad"} => Quiet
  /\ phase = "exec" /\ IP >= Len(prog) => Request = [kind |-> "shift"]
  /\ AtInstruction /\ IP \in Int /\ Len(prog) \in Int =>
       /\ Op.name = "RDA" => Request = ReadAt(Op.addr)
       /\ Op.name = "RMPA" => Request = ReadAt(IndirectAddress)
       /\ Op.name \in {"WRA", "WRAP"}
            => Request = [kind |-> "write", addr |-> Index(Op.addr), value |-> Low24(ACC)]
       /\ Op.name = "CHO_RDA" => Request = IF "NA" \notin Op.flags /\ Misused(Op.flags) = {}
                                             THEN ReadAt(RdaAddress) ELSE [kind |-> "none"]
       /\ Op.name \notin {"RDA", "RMPA", "WRA", "WRAP", "CHO_RDA"} => Quiet
  BY DEF Request, Quiet, AtInstruction, RdaAddress

\* The addresses and values asked with.
LEMMA AskedTypes ==
  ASSUME TypeOK, AtInstruction
  PROVE  /\ Op.name \in {"RDA", "WRA", "WRAP"} => Op.addr \in Int
         /\ IndirectAddress \in Int
         /\ Low24(ACC) \in Fix24
<1>1. Op \in Instruction
  BY DEF TypeOK, ControlOK, AtInstruction, Op
<1>2. Op.name \in {"RDA", "WRA", "WRAP"} => Op.addr \in Int
  BY <1>1, OperandTypes, PositiveConstants DEF Addresses
<1>3. IndirectAddress \in Int
  <2>1. Registers[ADDR_PTR] \in Int /\ AddrDiv \in Nat \ {0}
    BY RegisterType, SpecialRegisters, ConstantSets, ProcessorAssumption
  <2> QED BY <2>1, DivMod DEF IndirectAddress
<1>4. Low24(ACC) \in Fix24
  BY Mapped, StoredValue, ToQFormatInRaw24, SignExtendInFix24
<1> QED BY <1>2, <1>3, <1>4

\* What is asked for is always something a delay line of this length can be asked.
LEMMA RequestType == TypeOK => Request \in Delay!Request
<1> SUFFICES ASSUME TypeOK PROVE Request \in Delay!Request
  OBVIOUS
<1>0. IP \in Int /\ Len(prog) \in Int /\ phase \in Phases
  BY DEF TypeOK, ControlOK
<1>1. ASSUME NEW a \in Int PROVE ReadAt(a) \in Delay!Request
  <2>1. Index(a) \in 0 .. MemSize - 1
    BY SameCell
  <2> QED BY <2>1 DEF ReadAt, Delay!Request, Delay!Address
<1>2. {[kind |-> "none"], [kind |-> "refused"], [kind |-> "shift"]} \subseteq Delay!Request
  BY DEF Delay!Request
<1>3. CASE AtInstruction
  <2>1. CASE Op.name = "RDA"
    BY <1>0, <1>1, <1>3, <2>1, RequestOf, AskedTypes
  <2>2. CASE Op.name = "RMPA"
    BY <1>0, <1>1, <1>3, <2>2, RequestOf, AskedTypes
  <2>3. CASE Op.name \in {"WRA", "WRAP"}
    <3>1. Index(Op.addr) \in 0 .. MemSize - 1 /\ Low24(ACC) \in Fix24
      BY <1>3, <2>3, SameCell, AskedTypes
    <3>2. Request = [kind |-> "write", addr |-> Index(Op.addr), value |-> Low24(ACC)]
      BY <1>0, <1>3, <2>3, RequestOf
    <3> QED BY <3>1, <3>2 DEF Delay!Request, Delay!Address
  <2>4. CASE Op.name = "CHO_RDA"
    <3>1. CASE "NA" \notin Op.flags /\ Misused(Op.flags) = {}
      BY <1>0, <1>1, <1>3, <2>4, <3>1, RequestOf, RdaAddressType
    <3>2. CASE ~("NA" \notin Op.flags /\ Misused(Op.flags) = {})
      BY <1>0, <1>2, <1>3, <2>4, <3>2, RequestOf
    <3> QED BY <3>1, <3>2
  <2>5. CASE Op.name \notin {"RDA", "RMPA", "WRA", "WRAP", "CHO_RDA"}
    BY <1>0, <1>2, <1>3, <2>5, RequestOf DEF Quiet
  <2> QED BY <2>1, <2>2, <2>3, <2>4, <2>5
<1>4. CASE ~AtInstruction
  BY <1>0, <1>2, <1>4, RequestOf DEF AtInstruction, Phases, Quiet
<1> QED BY <1>3, <1>4

-----------------------------------------------------------------------------
(* Steps *)

\* The delay line sees nothing of a step that is not about it.
LEMMA RestStep ==
  ASSUME Quiet \/ Request = [kind |-> "refused"], Request' \in Delay!Request,
         UNCHANGED <<LR, DelayRAM, DelayRAMPtr>>
  PROVE  Delay!Next
<1>1. Line' = Line
  BY DEF Line, Index, Moved
<1> QED BY <1>1 DEF Delay!Next, Delay!Rest, Quiet, Line

\* An error or a panic may leave a request unanswered.
LEMMA RefuseStep ==
  ASSUME TypeOK, AtInstruction, phase' \in {"failed", "panic"}, UNCHANGED <<LR, DelayRAM, DelayRAMPtr>>
  PROVE  Delay!Next
<1>1. Line' = Line
  BY DEF Line, Index, Moved
<1>2. Request' = [kind |-> "refused"]
  BY DEF Request
<1>3. Request' \in Delay!Request
  BY <1>2 DEF Delay!Request
<1>4. Request.kind \in {"none", "refused", "read", "write"}
  <2>1. IP \in Int /\ Len(prog) \in Int
    BY DEF TypeOK, ControlOK
  <2> QED BY <2>1 DEF Request, ReadAt, AtInstruction
<1> QED BY <1>1, <1>2, <1>3, <1>4 DEF Delay!Next, Delay!Rest, Delay!Refuse, Line

LEMMA ReadStep ==
  ASSUME TypeOK, NEW a \in Int, Request = ReadAt(a), Request' \in Delay!Request,
         LR' = SignExtend(DelayRAM[Index(Moved(a))]), UNCHANGED <<DelayRAM, DelayRAMPtr>>
  PROVE  Delay!Next
<1>1. Line' = Line
  BY DEF Line, Index, Moved
<1>2. LR' = Line[Index(a)]
  BY LineReads
<1> QED BY <1>1, <1>2 DEF Delay!Next, Delay!Read, ReadAt, Line

LEMMA WriteStep ==
  ASSUME TypeOK, NEW a \in Int, Request' \in Delay!Request,
         Request = [kind |-> "write", addr |-> Index(a), value |-> Low24(ACC)],
         DelayRAM' = [DelayRAM EXCEPT ![Index(Moved(a))] = ToQFormat(ACC)],
         UNCHANGED <<LR, DelayRAMPtr>>
  PROVE  Delay!Next
<1>1. Line' = [Line EXCEPT ![Index(a)] = Low24(ACC)]
  BY Mapped, LineWrites
<1> QED BY <1>1 DEF Delay!Next, Delay!Write, Line

LEMMA ExecuteDelays ==
  ASSUME TypeOK, Execute, Request' \in Delay!Request
  PROVE  Delay!Next
<1>0. AtInstruction /\ IP \in Int /\ Len(prog) \in Int /\ DelayRAMPtr' = DelayRAMPtr
  BY ExecuteStep DEF AtInstruction, TypeOK, ControlOK, Continue, callVars
<1>1. CASE RDA
  <2>1. Op.name = "RDA" /\ ReadMemory(Op.addr)
    BY <1>1 DEF RDA, Issue
  <2> QED BY <1>0, <2>1, ReadStep, RequestOf, AskedTypes DEF ReadMemory
<1>2. CASE RMPA
  <2>1. Op.name = "RMPA" /\ ReadMemory(IndirectAddress)
    BY <1>2 DEF RMPA, Issue
  <2> QED BY <1>0, <2>1, ReadStep, RequestOf, AskedTypes DEF ReadMemory
<1>3. CASE WRA \/ WRAP
  <2>1. Op.name \in {"WRA", "WRAP"} /\ \E result : WriteMemory(result)
    BY <1>3 DEF WRA, WRAP, Issue
  <2>2. /\ DelayRAM' = [DelayRAM EXCEPT ![Index(Moved(Op.addr))] = ToQFormat(ACC)]
        /\ LR' = LR
    BY <2>1 DEF WriteMemory
  <2> QED BY <1>0, <2>1, <2>2, WriteStep, RequestOf, AskedTypes
<1>4. CASE CHO_RDA_Tap
  <2>1. /\ Op.name = "CHO_RDA" /\ "NA" \notin Op.flags /\ Misused(Op.flags) = {}
        /\ LR' = SignExtend(DelayRAM[Index(RdaIndex)]) /\ DelayRAM' = DelayRAM
    BY <1>4 DEF CHO_RDA_Tap, IssueRDA, Issue, ChoDone
  <2>2. RdaAddress \in Int /\ RdaIndex = Moved(RdaAddress) /\ Request = ReadAt(RdaAddress)
    BY <1>0, <2>1, RdaAddressType, RequestOf
  <2> QED BY <1>0, <2>1, <2>2, ReadStep
<1>5. CASE CHO_RDA_XFade
  <2>1. Op.name = "CHO_RDA" /\ "NA" \in Op.flags /\ UNCHANGED <<LR, DelayRAM>>
    BY <1>5 DEF CHO_RDA_XFade, IssueRDA, Issue, ChoDone
  <2> QED BY <1>0, <2>1, RestStep, RequestOf DEF Quiet
<1>6. CASE SOF \/ LOG \/ EXP \/ AND \/ OR \/ XOR \/ CLR \/ NOT \/ ABSA
  <2>1. Op.name \notin {"RDA", "RMPA", "WRA", "WRAP", "CHO_RDA"} /\ UNCHANGED <<LR, DelayRAM>>
    BY <1>6 DEF SOF, LOG, EXP, AND, OR, XOR, CLR, NOT, ABSA, Compute, Issue, registerVars
  <2> QED BY <1>0, <2>1, RestStep, RequestOf
<1>7. CASE RDAX \/ RDFX \/ MULX \/ MAXX \/ LDAX \/ SKP \/ NOP
  <2>1. Op.name \notin {"RDA", "RMPA", "WRA", "WRAP", "CHO_RDA"} /\ UNCHANGED <<LR, DelayRAM>>
    BY <1>7 DEF RDAX, RDFX, MULX, MAXX, LDAX, SKP, NOP, Idle, Compute, Issue, registerVars
  <2> QED BY <1>0, <2>1, RestStep, RequestOf
<1>8. CASE WRLX \/ WRHX \/ WRAX_Plain \/ WRAX_SinRate \/ WRAX_SinRange \/ WRAX_RampRate
             \/ WRAX_RampRange
  <2>1. Op.name \notin {"RDA", "RMPA", "WRA", "WRAP", "CHO_RDA"} /\ UNCHANGED <<LR, DelayRAM>>
    BY <1>8 DEF WRLX, WRHX, WRAX_Plain, WRAX_SinRate, WRAX_SinRange, WRAX_RampRate,
       WRAX_RampRange, WriteACC, WriteRegister, Issue
  <2> QED BY <1>0, <2>1, RestStep, RequestOf
<1>9. CASE WLDS \/ WLDR \/ JAM \/ CHO_SOF \/ CHO_RDAL
  <2>1. Op.name \notin {"RDA", "RMPA", "WRA", "WRAP", "CHO_RDA"} /\ UNCHANGED <<LR, DelayRAM>>
    BY <1>9 DEF WLDS, WLDR, JAM, LoadLFO, CHO_SOF, CHO_RDAL, ChoDone, Issue, registerVars
  <2> QED BY <1>0, <2>1, RestStep, RequestOf
<1> QED BY <1>1, <1>2, <1>3, <1>4, <1>5, <1>6, <1>7, <1>8, <1>9 DEF Execute

LEMMA NextDelays ==
  ASSUME TypeOK, [Next]_vars
  PROVE  Delay!Next \/ UNCHANGED <<Line, LR, Request>>
<1>0. Request' \in Delay!Request /\ IP \in Int /\ Len(prog) \in Int
  <2>1. TypeOK'
    BY NextType
  <2>2. (Request \in Delay!Request)'
    BY <2>1, RequestType, PTL
  <2>3. Request' \in Delay!Request
    BY <2>2 DEF Delay!Request, Delay!Address
  <2> QED BY <2>3 DEF TypeOK, ControlOK
<1>1. CASE Execute
  BY <1>0, <1>1, ExecuteDelays
<1>2. CASE Error
  <2>1. UNCHANGED <<LR, DelayRAM, DelayRAMPtr>> /\ AtInstruction /\ phase' = "failed"
    BY <1>2, ErrorStep DEF Error, RDA_Fails, RMPA_Fails, WR_Fails, CHO_RDA_Fails, ReadFault, WriteFault,
       Fail, callVars, AtInstruction
  <2> QED BY <2>1, RefuseStep
<1>3. CASE Panic
  <2>1. UNCHANGED <<LR, DelayRAM, DelayRAMPtr>> /\ phase' = "panic" /\ (AtInstruction \/ phase = "pad")
    BY <1>3 DEF Panic, LOG_Panics, WRAX_Panics, CHO_RDA_Panics, CHO_SOF_Panics, CHO_RDAL_Panics,
       Update_Panics, Crash, Issue, IssueRDA, callVars, registerVars, AtInstruction
  <2>2. CASE AtInstruction
    BY <2>1, <2>2, RefuseStep
  <2>3. CASE phase = "pad"
    BY <1>0, <2>1, <2>3, RestStep, RequestOf
  <2> QED BY <2>1, <2>2, <2>3
<1>4. CASE \E in \in Inputs \cup {<<0, 0>>} : StartSample(in[1], in[2])
  <2>1. UNCHANGED <<LR, DelayRAM, DelayRAMPtr>> /\ phase \in {"idle", "failed"}
    BY <1>4 DEF StartSample
  <2> QED BY <1>0, <2>1, RestStep, RequestOf
<1>5. CASE EndProgram
  <2>1. /\ DelayRAM' = DelayRAM /\ LR' = LR /\ phase = "exec" /\ IP >= Len(prog)
        /\ DelayRAMPtr' = IF DelayRAMPtr - 1 <= -MemSize THEN 0 ELSE DelayRAMPtr - 1
    BY <1>5 DEF EndProgram, registerVars
  <2>2. Line' = [a \in 0 .. MemSize - 1 |-> IF a = 0 THEN Line[MemSize - 1] ELSE Line[a - 1]]
    BY <2>1, LineAdvances
  <2>3. Request = [kind |-> "shift"]
    BY <2>1, RequestOf
  <2> QED BY <1>0, <2>1, <2>2, <2>3 DEF Delay!Next, Delay!Advance, Delay!Address, Line
<1>6. CASE PadCycle \/ EndSample
  <2>1. UNCHANGED <<LR, DelayRAM, DelayRAMPtr>> /\ phase = "pad"
    BY <1>6 DEF PadCycle, EndSample, registerVars, callVars
  <2> QED BY <1>0, <2>1, RestStep, RequestOf
<1>7. CASE UNCHANGED vars
  <2>1. Line' = Line /\ LR' = LR /\ Op' = Op
    BY <1>7 DEF vars, Line, Index, Moved, Op
  <2>2. RdaTyp' = RdaTyp /\ Misused(Op.flags)' = Misused(Op.flags)
    BY <2>1 DEF RdaTyp, ChoTyp, Misused
  <2>3. LfoRegAfter(RdaTyp)' = LfoRegAfter(RdaTyp)
    BY <1>7, <2>1, <2>2 DEF vars, LfoRegAfter
  <2>4. RdaLfo' = RdaLfo
    BY <1>7, <2>1, <2>2, <2>3 DEF vars, RdaLfo, LfoValue
  <2>5. IndirectAddress' = IndirectAddress
    BY <1>7 DEF vars, IndirectAddress
  <2>6. Registers[RangeReg(RdaTyp)]' = Registers[RangeReg(RdaTyp)]
    BY <1>7, <2>2 DEF vars
  <2> QED BY <1>7, <2>1, <2>2, <2>4, <2>5, <2>6 DEF vars, Request, ReadAt, Index
<1> QED BY <1>1, <1>2, <1>3, <1>4, <1>5, <1>6, <1>7 DEF Next

\* What the program reads, it has written: RDA, RMPA, CHO RDA, WRA and WRAP on a
\* RAM with a moving pointer are reads and writes of a delay line.
THEOREM DelayLineImplemented == Spec => ImplementsDelayLine
<1>1. Init => Delay!Init
  <2> SUFFICES ASSUME Init PROVE Delay!Init
    OBVIOUS
  <2>1. Request \in Delay!Request
    BY InitType, RequestType
  <2>2. LR = 0 /\ DelayRAM = [i \in 0 .. MemSize - 1 |-> 0]
    BY DEF Init
  <2>3. \A a \in 0 .. MemSize - 1 : Line[a] = 0
    <3> TAKE a \in 0 .. MemSize - 1
    <3>1. Moved(a) \in Int /\ TypeOK
      BY InitType, Mapped DEF Moved
    <3>2. Index(Moved(a)) \in 0 .. MemSize - 1
      BY <3>1, SameCell
    <3>3. Line[a] = SignExtend(0)
      BY <2>2, <3>2 DEF Line
    <3> QED BY <3>3, PositiveConstants DEF SignExtend
  <2>4. Line = [a \in 0 .. MemSize - 1 |-> 0]
    BY <2>3 DEF Line
  <2> QED BY <2>1, <2>2, <2>4 DEF Delay!Init, Delay!Address, Line
<1>2. TypeOK /\ [Next]_vars => [Delay!Next]_(Delay!vars)
  BY NextDelays DEF Delay!vars, Line
<1> QED BY <1>1, <1>2, TypeCorrect, PTL DEF Spec, ImplementsDelayLine, Delay!Spec
=============================================================================
