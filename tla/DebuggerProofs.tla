--------------------------- MODULE DebuggerProofs ---------------------------
(***************************************************************************)
(* Sessions with the debugger, for every program, every number of samples  *)
(* and every choice of keys: types, which samples are shown, what can      *)
(* bring a session down, that watching changes nothing, and that stepping  *)
(* back replays.                                                           *)
(***************************************************************************)
EXTENDS Debugger, ArithmeticProofs, TLAPS

\* A dsp.State, as far as a snapshot of it.
States(accs, inputs, ptrs) ==
  [IP : Nat, RUN_FLAG : BOOLEAN, ACC : accs, ADCL : inputs, osc : Nat, DelayRAMPtr : ptrs]

EmuState == States(0 .. Values - 1, 0 .. NumSamples, 1 - MemSize .. 0)

\* What is assigned to a state leaves a state.
LEMMA Assigned ==
  ASSUME NEW s \in EmuState
  PROVE  /\ \A acc \in 0 .. Values - 1, n \in Nat :
              [s EXCEPT !.ACC = acc, !.IP = n] \in EmuState /\ [s EXCEPT !.ACC = acc, !.IP = n].IP = n
         /\ \A n \in Nat : [s EXCEPT !.IP = n] \in EmuState /\ [s EXCEPT !.IP = n].IP = n
         /\ \A n \in Nat : [s EXCEPT !.osc = n] \in EmuState /\ [s EXCEPT !.osc = n].IP = s.IP
         /\ \A adc \in 0 .. NumSamples : [s EXCEPT !.ADCL = adc, !.IP = 0] \in EmuState
         /\ \A ptr \in 1 - MemSize .. 0, n \in Nat :
              [s EXCEPT !.RUN_FLAG = TRUE, !.DelayRAMPtr = ptr, !.osc = n] \in EmuState
         /\ s.IP \in Nat /\ s.osc \in Nat /\ s.ACC \in 0 .. Values - 1
         /\ s.ADCL \in 0 .. NumSamples /\ s.DelayRAMPtr \in 1 - MemSize .. 0
<1> DEFINE accs == 0 .. Values - 1
           inputs == 0 .. NumSamples
           ptrs == 1 - MemSize .. 0
<1>1. EmuState = States(accs, inputs, ptrs)
  BY DEF EmuState
<1> HIDE DEF accs, inputs, ptrs
<1>2. s \in States(accs, inputs, ptrs)
  BY <1>1
<1>3. \A acc \in accs, n \in Nat :
        /\ [s EXCEPT !.ACC = acc, !.IP = n] \in States(accs, inputs, ptrs)
        /\ [s EXCEPT !.ACC = acc, !.IP = n].IP = n
  BY <1>2 DEF States
<1>4. \A n \in Nat : /\ [s EXCEPT !.IP = n] \in States(accs, inputs, ptrs) /\ [s EXCEPT !.IP = n].IP = n
                     /\ [s EXCEPT !.osc = n] \in States(accs, inputs, ptrs)
                     /\ [s EXCEPT !.osc = n].IP = s.IP
  BY <1>2 DEF States
<1>5. \A adc \in inputs : [s EXCEPT !.ADCL = adc, !.IP = 0] \in States(accs, inputs, ptrs)
  BY <1>2 DEF States
<1>6. \A ptr \in ptrs, n \in Nat :
        [s EXCEPT !.RUN_FLAG = TRUE, !.DelayRAMPtr = ptr, !.osc = n] \in States(accs, inputs, ptrs)
  BY <1>2 DEF States
<1>7. /\ s.IP \in Nat /\ s.osc \in Nat /\ s.ACC \in accs /\ s.ADCL \in inputs /\ s.DelayRAMPtr \in ptrs
  BY <1>2 DEF States
<1> QED BY <1>1, <1>3, <1>4, <1>5, <1>6, <1>7, Zenon DEF accs, inputs, ptrs

\* The types, of the snapshots too, and the instruction that is looked at.
SessionInv ==
  /\ TypeOK
  /\ \A ip \in DOMAIN previousStates : previousStates[ip] \in EmuState
  /\ stage \in {"top", "shown", "wait"} => sampleNum < NumSamples
  /\ stage = "shown" => state.IP < Len(prog)
  /\ stage = "wait" /\ Regular(prog) => state.IP < Len(prog)
  /\ SessionSurvives

LEMMA Bounds ==
  /\ NumSamples \in Nat \ {0} /\ InstructionsPerSample \in Nat \ {0} /\ Values \in Nat \ {0}
  /\ MemSize \in Nat /\ CursorStep \in Nat /\ 1 <= CursorStep /\ CursorStep <= MemSize - 1
  /\ Heights \subseteq Nat
  BY DebuggerAssumption

LEMMA ProgramType ==
  ASSUME TypeOK
  PROVE  /\ prog \in Seq(Op) /\ prog # <<>> /\ Len(prog) \in Nat \ {0}
         /\ state \in EmuState /\ state.IP \in Nat
<1>1. prog \in Seq(Op) /\ prog # <<>>
  BY DebuggerAssumption DEF TypeOK
<1>2. Len(prog) \in Nat \ {0}
  BY <1>1
<1> QED BY <1>1, <1>2 DEF TypeOK, EmuState, States

LEMMA CurrentType ==
  ASSUME TypeOK, NEW s \in EmuState, s.IP < Len(prog)
  PROVE  Current(s) \in Op
<1>1. s.IP + 1 \in 1 .. Len(prog)
  BY ProgramType DEF EmuState, States
<1> QED BY <1>1, ProgramType DEF Current

\* What an instruction leaves is a state, and in a regular program it jumps to the
\* last instruction at most.
LEMMA ExecutedType ==
  ASSUME TypeOK, NEW s \in EmuState, s.IP < Len(prog), NEW m \in 0 .. Values - 1
  PROVE  /\ Executed(s, m) \in EmuState /\ MemoryAfter(s, m) \in 0 .. Values - 1
         /\ Executed(s, m).IP = s.IP + Jump(s) /\ Jump(s) \in Nat
         /\ Regular(prog) => s.IP + Jump(s) < Len(prog) /\ Current(s).name # "UNUSED"
<1>0. Current(s) \in Op /\ s.ACC \in 0 .. Values - 1 /\ s.ADCL \in Int /\ s.IP \in Nat
  BY CurrentType, Bounds DEF EmuState, States
<1>1. ACCAfter(s, m) \in 0 .. Values - 1
  <2>1. \A x \in Int : x % Values \in 0 .. Values - 1
    BY Bounds
  <2>2. s.ADCL % Values \in 0 .. Values - 1
    BY <1>0, <2>1
  <2>3. (s.ACC + s.ADCL) % Values \in 0 .. Values - 1
    <3>1. s.ACC + s.ADCL \in Int
      BY <1>0
    <3> QED BY <2>1, <3>1
  <2>4. (s.ACC + m) % Values \in 0 .. Values - 1
    <3>1. s.ACC + m \in Int
      BY <1>0
    <3> QED BY <2>1, <3>1
  <2> QED BY <1>0, <2>2, <2>3, <2>4, Zenon DEF ACCAfter
<1>2. Jump(s) \in Nat
  BY <1>0 DEF Jump, Op
<1>3. Executed(s, m) \in EmuState /\ Executed(s, m).IP = s.IP + Jump(s)
  <2>1. s.IP + Jump(s) \in Nat
    BY <1>0, <1>2
  <2>2. \A acc \in 0 .. Values - 1, n \in Nat :
          [s EXCEPT !.ACC = acc, !.IP = n] \in EmuState /\ [s EXCEPT !.ACC = acc, !.IP = n].IP = n
    BY Assigned
  <2> QED BY <1>1, <2>1, <2>2, Zenon DEF Executed
<1>4. MemoryAfter(s, m) \in 0 .. Values - 1
  BY <1>0 DEF MemoryAfter
<1>5. ASSUME Regular(prog) PROVE s.IP + Jump(s) < Len(prog) /\ Current(s).name # "UNUSED"
  <2>1. s.IP + 1 \in DOMAIN prog /\ Current(s) = prog[s.IP + 1]
    BY <1>0, ProgramType DEF Current
  <2>2. /\ Current(s).name = "SKP" => s.IP + 1 + Current(s).n <= Len(prog)
        /\ Current(s).name # "UNUSED"
    BY <1>5, <2>1 DEF Regular
  <2>3. Current(s).n \in Nat /\ Len(prog) \in Nat
    BY <1>0, ProgramType DEF Op
  <2> QED BY <1>0, <2>2, <2>3 DEF Jump
<1> QED BY <1>2, <1>3, <1>4, <1>5

\* A picture that cannot be drawn is one on a terminal that is too small.
LEMMA DrawingSurvives ==
  ASSUME TypeOK, NEW s \in EmuState, s.IP < Len(prog), NEW scr, NEW cur \in 0 .. MemSize - 1,
         NEW height \in Heights, DrawPanics(s, scr, cur, height)
  PROVE  height < 8
<1>1. Len(prog) \in Nat /\ s.IP \in Nat /\ height \in Nat
  BY Bounds, ProgramType DEF EmuState, States
<1> QED BY <1>1 DEF DrawPanics

-----------------------------------------------------------------------------
(* Types and survival *)

LEMMA RedrawStep ==
  ASSUME SessionInv, stage = "wait", Redraw, screen' \in Screens,
         memoryCursor' \in 0 .. MemSize - 1, terminalHeight' \in Heights \cup {0}
  PROVE  SessionInv'
<1>1. /\ stage' = IF DrawPanics(state, screen', memoryCursor', terminalHeight') THEN "panic" ELSE "wait"
      /\ UNCHANGED <<prog, nilRegs, memory, previousStates, state, sampleNum, cycles, skipNumSamples,
                     callbacks>>
  BY DEF Redraw, sessionVars, callVars
<1>2. TypeOK'
  BY <1>1 DEF SessionInv, TypeOK, Stages
<1>3. stage' = "panic" => terminalHeight' < 8 \/ ~Regular(prog)
  <2> SUFFICES ASSUME stage' = "panic", Regular(prog) PROVE terminalHeight' < 8
    OBVIOUS
  <2>1. DrawPanics(state, screen', memoryCursor', terminalHeight') /\ state.IP < Len(prog)
    BY <1>1 DEF SessionInv
  <2>2. state \in EmuState /\ TypeOK /\ Len(prog) \in Nat /\ state.IP \in Nat
    BY ProgramType DEF SessionInv
  <2> QED BY <2>1, <2>2 DEF DrawPanics
<1> QED BY <1>1, <1>2, <1>3 DEF SessionInv, SessionSurvives, Regular

LEMMA EmulateStep ==
  ASSUME SessionInv, Emulate
  PROVE  SessionInv'
<1>0. /\ TypeOK /\ prog \in Seq(Op) /\ Len(prog) \in Nat \ {0} /\ state \in EmuState
      /\ memory \in 0 .. Values - 1 /\ state.IP \in Nat
  BY ProgramType DEF SessionInv, TypeOK
<1>1. CyclesAfter \in 0 .. InstructionsPerSample /\ Ticked \in EmuState /\ Ticked.IP = state.IP
  <2>1. CyclesAfter \in 0 .. InstructionsPerSample
    BY <1>0, Bounds DEF CyclesAfter, TypeOK
  <2>2. state.osc + 1 \in Nat /\ Ticked = [state EXCEPT !.osc = state.osc + 1]
    <3>1. state.osc \in Nat
      BY <1>0, Assigned
    <3> QED BY <3>1 DEF Ticked
  <2> QED BY <1>0, <2>1, <2>2, Assigned
<1>2. CASE StartCall
  <2>1. state' \in EmuState
    <3>1. sampleNum + 1 \in 0 .. NumSamples /\ state' = [state EXCEPT !.ADCL = sampleNum + 1, !.IP = 0]
      BY <1>0, <1>2, Bounds, SMTT(60) DEF StartCall, TypeOK
    <3> QED BY <1>0, <3>1, Assigned
  <2>2. /\ stage' = "top" /\ cycles' = 0 /\ callbacks' \in BOOLEAN /\ sampleNum < NumSamples
        /\ UNCHANGED <<prog, nilRegs, memory, previousStates, sampleNum, skipNumSamples, screen,
                       memoryCursor, terminalHeight>>
    BY <1>2 DEF StartCall, sessionVars, viewVars
  <2>3. TypeOK'
    BY <1>0, <2>1, <2>2, Bounds DEF TypeOK, EmuState, States, Stages
  <2> QED BY <2>2, <2>3 DEF SessionInv, SessionSurvives
<1>3. CASE EndOfInput
  <2>1. stage' = "done" /\ UNCHANGED <<prog, nilRegs, memory, previousStates, state, sampleNum, cycles,
                                       skipNumSamples, callbacks, screen, memoryCursor, terminalHeight>>
    BY <1>3 DEF EndOfInput, sessionVars, viewVars, callVars
  <2>2. TypeOK'
    BY <1>0, <2>1 DEF TypeOK, Stages
  <2> QED BY <2>1, <2>2 DEF SessionInv, SessionSurvives
<1>4. CASE TurnUnseen
  <2>1. Executed(Ticked, memory) \in EmuState /\ Executed(Ticked, memory).IP \in Nat
    BY <1>0, <1>1, <1>4, ExecutedType DEF TurnUnseen, EmuState, States
  <2>2. /\ state' \in {Ticked, [Executed(Ticked, memory) EXCEPT !.IP = @ + 1]}
        /\ stage' \in {"done", "panic", "top"}
    BY <1>4 DEF TurnUnseen
  <2>3. [Executed(Ticked, memory) EXCEPT !.IP = @ + 1] \in EmuState
    <3>1. Executed(Ticked, memory).IP + 1 \in Nat
      BY <2>1
    <3> QED BY <2>1, <3>1, Assigned
  <2>4. state' \in EmuState
    BY <1>1, <2>2, <2>3
  <2>5. memory' \in 0 .. Values - 1
    BY <1>0, <1>4, ExecutedType DEF TurnUnseen
  <2>6. UNCHANGED <<prog, nilRegs, previousStates, sampleNum, skipNumSamples, callbacks, screen,
                       memoryCursor, terminalHeight>>
        /\ cycles' = CyclesAfter /\ stage = "top"
    BY <1>4 DEF TurnUnseen, viewVars
  <2>7. TypeOK'
    BY <1>0, <1>1, <2>2, <2>4, <2>5, <2>6 DEF TypeOK, EmuState, States, viewVars, Stages
  <2>8. stage' = "panic" => ~Regular(prog)
    <3>1. stage' = "panic" => Current(state).name = "UNUSED"
      BY <1>4 DEF TurnUnseen, NilUsed
    <3> QED BY <1>0, <1>4, <3>1, ExecutedType DEF TurnUnseen
  <2> QED BY <2>2, <2>6, <2>7, <2>8 DEF SessionInv, SessionSurvives
<1>5. CASE Show
  <2>1. /\ stage = "top" /\ state.IP < Len(prog) /\ state' = Ticked /\ cycles' = CyclesAfter
        /\ RegisterState(Ticked) /\ terminalHeight' \in Heights
        /\ stage' = IF DrawPanics(Ticked, screen, memoryCursor, terminalHeight') THEN "panic" ELSE "shown"
        /\ UNCHANGED <<prog, nilRegs, memory, sampleNum, skipNumSamples, callbacks, screen, memoryCursor>>
    BY <1>5 DEF Show
  <2>2. /\ DOMAIN previousStates' = DOMAIN previousStates \cup {state.IP}
        /\ \A ip \in DOMAIN previousStates' : previousStates'[ip] \in EmuState /\ previousStates'[ip].IP = ip
    <3>1. previousStates' = [ip \in DOMAIN previousStates \cup {state.IP} |->
                               IF ip \in DOMAIN previousStates THEN previousStates[ip] ELSE Ticked]
      BY <1>1, <2>1 DEF RegisterState
    <3> QED BY <1>1, <3>1 DEF SessionInv, TypeOK
  <2>3. DOMAIN previousStates' \subseteq 0 .. Len(prog) - 1
    BY <1>0, <2>1, <2>2 DEF TypeOK
  <2>4. TypeOK'
    BY <1>0, <1>1, <2>1, <2>2, <2>3 DEF TypeOK, EmuState, States, Stages
  <2>5. stage' = "panic" => terminalHeight' < 8
    BY <1>0, <1>1, <2>1, DrawingSurvives DEF TypeOK
  <2> QED BY <1>1, <2>1, <2>2, <2>4, <2>5 DEF SessionInv, SessionSurvives
<1>6. CASE Apply
  <2>1. stage = "shown" /\ state.IP < Len(prog)
    BY <1>6 DEF Apply, SessionInv
  <2>2. /\ Executed(state, memory) \in EmuState /\ Executed(state, memory).IP = state.IP + Jump(state)
        /\ MemoryAfter(state, memory) \in 0 .. Values - 1
        /\ Regular(prog) => state.IP + Jump(state) < Len(prog) /\ Current(state).name # "UNUSED"
    BY <1>0, <2>1, ExecutedType
  <2>3. /\ state' \in {state, Executed(state, memory)} /\ stage' \in {"done", "panic", "wait"}
        /\ stage' = "panic" => Current(state).name = "UNUSED"
        /\ stage' = "wait" => state' = Executed(state, memory)
        /\ memory' = MemoryAfter(state, memory)
        /\ UNCHANGED <<prog, nilRegs, previousStates, sampleNum, cycles, skipNumSamples, callbacks,
                       screen, memoryCursor, terminalHeight>>
    BY <1>6 DEF Apply, NilUsed, callVars, viewVars
  <2>4. TypeOK'
    BY <1>0, <2>2, <2>3 DEF TypeOK, EmuState, States, Stages
  <2>5. stage' = "wait" /\ Regular(prog') => state'.IP < Len(prog')
    BY <2>2, <2>3
  <2> QED BY <2>1, <2>2, <2>3, <2>4, <2>5 DEF SessionInv, SessionSurvives
<1>7. CASE EndCall
  <2>1. /\ state' = [state EXCEPT !.RUN_FLAG = TRUE, !.DelayRAMPtr = Wrapped(@ - 1),
                                  !.osc = @ + InstructionsPerSample - cycles]
        /\ cycles' = InstructionsPerSample /\ sampleNum' = sampleNum + 1 /\ stage' = "idle"
        /\ skipNumSamples' = IF skipNumSamples > 0 THEN skipNumSamples - 1 ELSE 0
        /\ UNCHANGED <<prog, nilRegs, memory, previousStates, callbacks, screen, memoryCursor,
                       terminalHeight>>
        /\ stage = "top"
    BY <1>7 DEF EndCall, sessionVars, viewVars
  <2>2. state' \in EmuState
    <3>0. state.DelayRAMPtr \in 1 - MemSize .. 0 /\ state.osc \in Nat
      BY <1>0, Assigned
    <3>1. Wrapped(state.DelayRAMPtr - 1) \in 1 - MemSize .. 0
      BY <3>0, Bounds DEF Wrapped
    <3>2. state.osc + InstructionsPerSample - cycles \in Nat
      BY <1>0, <3>0, Bounds DEF TypeOK
    <3> QED BY <1>0, <2>1, <3>1, <3>2, Assigned
  <2>3. sampleNum' \in 0 .. NumSamples
    <3>1. sampleNum \in 0 .. NumSamples /\ sampleNum < NumSamples
      BY <2>1 DEF SessionInv, TypeOK
    <3> QED BY <2>1, <3>1, Bounds
  <2>4. skipNumSamples' \in Nat /\ cycles' \in 0 .. InstructionsPerSample
    <3>1. skipNumSamples \in Nat
      BY <1>0 DEF TypeOK
    <3> QED BY <2>1, <3>1, Bounds
  <2>5. TypeOK'
    BY <1>0, <2>1, <2>2, <2>3, <2>4 DEF TypeOK, EmuState, States, Stages
  <2> QED BY <2>1, <2>5 DEF SessionInv, SessionSurvives
<1> QED BY <1>2, <1>3, <1>4, <1>5, <1>6, <1>7 DEF Emulate

LEMMA KeyStep ==
  ASSUME SessionInv, Key
  PROVE  SessionInv'
<1>0. /\ TypeOK /\ Len(prog) \in Nat \ {0} /\ state \in EmuState /\ state.IP \in Nat
      /\ stage = "wait" /\ sampleNum < NumSamples
  BY ProgramType DEF SessionInv, Key, NextOp, PreviousOp, SkipSamples, Quit, MoveCursor, ToggleScreen,
     ToggleFloats, Resize
<1>1. CASE NextOp \/ SkipSamples
  <2>1. /\ state' = [state EXCEPT !.IP = @ + 1] /\ stage' = "top" /\ skipNumSamples' \in Nat
        /\ UNCHANGED <<prog, nilRegs, memory, previousStates, sampleNum, cycles, callbacks,
                       screen, memoryCursor, terminalHeight>>
    BY <1>0, <1>1, DebuggerAssumption
       DEF NextOp, SkipSamples, Advance, sessionVars, callVars, viewVars, TypeOK
  <2>2. state' \in EmuState
    <3>1. state.IP + 1 \in Nat
      BY <1>0
    <3> QED BY <1>0, <2>1, <3>1, Assigned
  <2>3. TypeOK'
    BY <1>0, <2>1, <2>2 DEF TypeOK, EmuState, States, Stages
  <2> QED BY <1>0, <2>1, <2>3 DEF SessionInv, SessionSurvives
<1>2. CASE Quit
  <2>1. stage' = "done" /\ UNCHANGED <<prog, nilRegs, memory, previousStates, state, sampleNum, cycles,
                                       skipNumSamples, callbacks, screen, memoryCursor, terminalHeight>>
    BY <1>2 DEF Quit, sessionVars, viewVars, callVars
  <2>2. TypeOK'
    BY <1>0, <2>1 DEF TypeOK, Stages
  <2> QED BY <2>1, <2>2 DEF SessionInv, SessionSurvives
<1>3. CASE PreviousOp
  <2>1. /\ stage' \in {"hang", "top"} /\ nilRegs' \in BOOLEAN
        /\ state' = state \/ \E x \in DOMAIN previousStates : state' = previousStates[x]
        /\ UNCHANGED <<prog, memory, previousStates, sampleNum, cycles, skipNumSamples, callbacks,
                       screen, memoryCursor, terminalHeight>>
    BY <1>0, <1>3 DEF PreviousOp, Copy, Earlier, callVars, viewVars, TypeOK
  <2>2. state' \in EmuState
    BY <1>0, <2>1 DEF SessionInv
  <2>3. TypeOK'
    BY <1>0, <2>1, <2>2 DEF TypeOK, EmuState, States, Stages
  <2> QED BY <1>0, <2>1, <2>3 DEF SessionInv, SessionSurvives
<1>4. CASE MoveCursor
  <2>1. PICK count \in {1, CursorStep} : memoryCursor' \in {Increased(count), Decreased(count)}
    BY <1>4 DEF MoveCursor
  <2>2. memoryCursor \in 0 .. MemSize - 1 /\ count \in Nat /\ 1 <= count /\ count <= MemSize - 1
    BY <1>0, Bounds DEF TypeOK
  <2>3. memoryCursor' \in 0 .. MemSize - 1
    BY <2>1, <2>2, Bounds DEF Increased, Decreased
  <2> QED BY <1>0, <1>4, <2>3, RedrawStep DEF MoveCursor, TypeOK
<1>5. CASE ToggleScreen \/ ToggleFloats \/ Resize
  <2>1. Redraw /\ screen' \in Screens /\ memoryCursor' = memoryCursor /\ terminalHeight' \in Heights \cup {0}
    BY <1>0, <1>5 DEF ToggleScreen, ToggleFloats, Resize, viewVars, TypeOK, Screens
  <2> QED BY <1>0, <2>1, RedrawStep DEF TypeOK
<1> QED BY <1>1, <1>2, <1>3, <1>4, <1>5 DEF Key

LEMMA SessionInit == Init => SessionInv
<1> SUFFICES ASSUME Init PROVE SessionInv
  OBVIOUS
<1>1. previousStates = <<>> /\ DOMAIN previousStates = {}
  BY DEF Init
<1>2. prog \in Programs /\ skipNumSamples \in Nat
  BY DebuggerAssumption DEF Init
<1>3. NewState \in [IP : Nat, RUN_FLAG : BOOLEAN, ACC : 0 .. Values - 1, ADCL : 0 .. NumSamples,
                    osc : Nat, DelayRAMPtr : 1 - MemSize .. 0]
  BY Bounds DEF NewState
<1>4. /\ 0 \in 0 .. Values - 1 /\ 0 \in 0 .. NumSamples /\ 0 \in 0 .. InstructionsPerSample
      /\ 0 \in 0 .. MemSize - 1 /\ FALSE \in BOOLEAN
  BY Bounds
<1>5. TypeOK
  <2>1. /\ state = NewState /\ memory = 0 /\ nilRegs = FALSE /\ sampleNum = 0 /\ cycles = 0
        /\ callbacks = FALSE /\ stage = "idle" /\ screen = "Main" /\ memoryCursor = 0
        /\ terminalHeight = 0
    BY DEF Init
  <2> QED BY <1>1, <1>2, <1>3, <1>4, <2>1 DEF TypeOK, Stages, Screens
<1> QED BY <1>1, <1>5 DEF Init, SessionInv, SessionSurvives

LEMMA SessionInvariant == Spec => []SessionInv
<1>1. SessionInv /\ [Next]_vars => SessionInv'
  <2> SUFFICES ASSUME SessionInv, [Next]_vars PROVE SessionInv'
    OBVIOUS
  <2>1. CASE UNCHANGED vars
    <3>1. UNCHANGED <<prog, state, memory, nilRegs, sampleNum, cycles, skipNumSamples, callbacks,
                      previousStates, stage, screen, memoryCursor, terminalHeight>>
      BY <2>1 DEF vars, sessionVars, callVars, viewVars
    <3> QED BY <3>1 DEF SessionInv, TypeOK, SessionSurvives, Regular
  <2> QED BY <2>1, EmulateStep, KeyStep DEF Next
<1> QED BY <1>1, SessionInit, PTL DEF Spec

\* Every variable of a session has its type, the snapshots are of instructions of
\* the program and under their IP, and the cursor points into the delay RAM.
THEOREM SessionTypes == Spec => []TypeOK
  BY SessionInvariant, PTL DEF SessionInv

\* No key, in no order, brings a session with a regular program down on a terminal
\* of eight lines or more, whatever the sizes.
THEOREM SessionsSurvive == Spec => []SessionSurvives
  BY SessionInvariant, PTL DEF SessionInv

-----------------------------------------------------------------------------
(* What is shown *)

\* The samples that are to be skipped lie between this one and the one asked for;
\* without any left, the first instruction of the sample shows it.
AskedInv ==
  /\ stage = "idle" => asked = sampleNum + skipNumSamples
  /\ stage = "top" => /\ skipNumSamples > 0 => asked = sampleNum + skipNumSamples
                      /\ skipNumSamples = 0 => /\ asked = sampleNum /\ callbacks
                                               /\ seen # sampleNum => state.IP = 0
  /\ stage \in {"shown", "wait"} => /\ skipNumSamples = 0 /\ callbacks
                                    /\ asked = sampleNum /\ seen = sampleNum

LEMMA AskedStep == SessionInv /\ AskedInv /\ [Next]_vars => AskedInv'
<1> SUFFICES ASSUME SessionInv, AskedInv, [Next]_vars PROVE AskedInv'
  OBVIOUS
<1>0. /\ sampleNum \in Nat /\ skipNumSamples \in Nat /\ Len(prog) \in Nat \ {0} /\ state.IP \in Nat
      /\ TypeOK
  BY ProgramType, Bounds DEF SessionInv, TypeOK
<1>1. CASE StartCall
  <2>1. state'.IP = 0
    BY <1>0, <1>1, ProgramType DEF StartCall, EmuState, States
  <2>2. /\ stage = "idle" /\ stage' = "top" /\ callbacks' = (skipNumSamples = 0)
        /\ UNCHANGED <<sampleNum, skipNumSamples, asked, seen>>
    BY <1>1 DEF StartCall, history
  <2>3. asked = sampleNum + skipNumSamples
    BY <2>2 DEF AskedInv
  <2>4. skipNumSamples = 0 => callbacks' /\ asked = sampleNum
    <3>1. skipNumSamples = 0 => asked = sampleNum
      BY <1>0, <2>3
    <3>2. skipNumSamples = 0 => callbacks'
      BY <2>2, Zenon
    <3> QED BY <3>1, <3>2
  <2> QED BY <1>0, <2>1, <2>2, <2>3, <2>4 DEF AskedInv
<1>2. CASE TurnUnseen
  <2>1. stage = "top" /\ skipNumSamples > 0 /\ stage' \notin {"idle", "shown", "wait"}
        /\ UNCHANGED <<sampleNum, skipNumSamples, asked>>
    BY <1>0, <1>2 DEF TurnUnseen, Visible, AskedInv, history
  <2> QED BY <1>0, <2>1 DEF AskedInv
<1>3. CASE Show
  BY <1>0, <1>3 DEF Show, Visible, AskedInv
<1>4. CASE Apply
  BY <1>0, <1>4 DEF Apply, AskedInv, callVars, history
<1>5. CASE EndCall
  <2>1. /\ stage = "top" /\ state.IP >= Len(prog) /\ stage' = "idle" /\ sampleNum' = sampleNum + 1
        /\ skipNumSamples' = IF skipNumSamples > 0 THEN skipNumSamples - 1 ELSE 0
        /\ asked' = IF asked = sampleNum /\ seen = sampleNum THEN sampleNum + 1 ELSE asked
    BY <1>5 DEF EndCall
  <2>2. CASE skipNumSamples > 0
    BY <1>0, <2>1, <2>2 DEF AskedInv
  <2>3. CASE skipNumSamples = 0
    <3>1. asked = sampleNum /\ seen = sampleNum
      BY <1>0, <2>1, <2>3 DEF AskedInv
    <3> QED BY <1>0, <2>1, <2>3, <3>1 DEF AskedInv
  <2> QED BY <1>0, <2>2, <2>3
<1>6. CASE SkipSamples
  <2>1. PICK k \in SkipCounts : skipNumSamples' = k /\ asked' = sampleNum + k
    BY <1>6 DEF SkipSamples
  <2>2. k \in Nat /\ k > 0
    BY DebuggerAssumption
  <2> QED BY <1>0, <1>6, <2>1, <2>2 DEF SkipSamples, Advance, AskedInv
<1>7. CASE NextOp \/ PreviousOp
  <2>1. stage = "wait" /\ stage' \in {"top", "hang"}
        /\ UNCHANGED <<sampleNum, skipNumSamples, callbacks, asked, seen>>
    BY <1>7 DEF NextOp, PreviousOp, Advance, callVars, history
  <2> QED BY <2>1 DEF AskedInv
<1>8. CASE MoveCursor \/ ToggleScreen \/ ToggleFloats \/ Resize
  <2>1. stage = "wait" /\ stage' \in {"wait", "panic"}
        /\ UNCHANGED <<sampleNum, skipNumSamples, callbacks, asked, seen>>
    BY <1>8 DEF MoveCursor, ToggleScreen, ToggleFloats, Resize, Redraw, callVars, history
  <2> QED BY <2>1 DEF AskedInv
<1>9. CASE EndOfInput \/ Quit
  BY <1>9 DEF EndOfInput, Quit, AskedInv
<1>10. CASE UNCHANGED vars
  <2>1. UNCHANGED <<stage, state, sampleNum, skipNumSamples, callbacks, asked, seen>>
    BY <1>10 DEF vars, callVars, history
  <2> QED BY <2>1 DEF AskedInv
<1> QED BY <1>1, <1>2, <1>3, <1>4, <1>5, <1>6, <1>7, <1>8, <1>9, <1>10 DEF Next, Emulate, Key

\* -skip-to and the keys that skip stop at the sample they name, however they are
\* mixed with single steps and steps back.
THEOREM WhatIsAskedIsShown == Spec => []ShownAsAsked
<1>1. Init => AskedInv
  BY DebuggerAssumption DEF Init, AskedInv
<1>2. SessionInv /\ AskedInv => ShownAsAsked
  BY DEF SessionInv, TypeOK, AskedInv, ShownAsAsked
<1> QED BY <1>1, <1>2, AskedStep, SessionInvariant, PTL DEF Spec

\* Whoever was shown something was first shown the first instruction of a program.
FirstShown == seen # -1 => 0 \in DOMAIN previousStates

LEMMA FirstShownStep == SessionInv /\ AskedInv /\ FirstShown /\ [Next]_vars => FirstShown'
<1> SUFFICES ASSUME SessionInv, AskedInv, FirstShown, [Next]_vars PROVE FirstShown'
  OBVIOUS
<1>1. CASE Show
  <2>1. /\ stage = "top" /\ skipNumSamples = 0
        /\ DOMAIN previousStates' = DOMAIN previousStates \cup {Ticked.IP}
    BY <1>1 DEF Show, Visible, RegisterState
  <2>2. Ticked.IP = state.IP
    <3>1. state \in EmuState /\ state.osc + 1 \in Nat
      BY ProgramType DEF SessionInv, EmuState, States
    <3>2. Ticked = [state EXCEPT !.osc = state.osc + 1]
      BY <3>1 DEF Ticked
    <3> QED BY <3>1, <3>2, Assigned
  <2>3. CASE seen = sampleNum
    BY <2>1, <2>3 DEF FirstShown, SessionInv, TypeOK
  <2>4. CASE seen # sampleNum
    BY <2>1, <2>2, <2>4 DEF FirstShown, AskedInv
  <2> QED BY <2>3, <2>4
<1>2. CASE StartCall \/ TurnUnseen \/ Apply \/ EndCall \/ EndOfInput
  BY <1>2 DEF StartCall, TurnUnseen, Apply, EndCall, EndOfInput, FirstShown, sessionVars, history
<1>3. CASE Key
  BY <1>3 DEF Key, NextOp, PreviousOp, SkipSamples, Quit, MoveCursor, ToggleScreen, ToggleFloats, Resize,
     Redraw, FirstShown, sessionVars, history
<1>4. CASE UNCHANGED vars
  BY <1>4 DEF vars, FirstShown, sessionVars, history
<1> QED BY <1>1, <1>2, <1>3, <1>4 DEF Next, Emulate

\* The key for the previous instruction always finds a snapshot, whatever was skipped
\* and however the program jumps: the unsigned number does not run past zero.
THEOREM SearchesEnd == Spec => []SearchEnds
<1>1. Init => FirstShown /\ SearchEnds
  BY DEF Init, FirstShown, SearchEnds
<1>2. SessionInv /\ AskedInv /\ FirstShown /\ SearchEnds /\ [Next]_vars => SearchEnds'
  <2> SUFFICES ASSUME SessionInv, AskedInv, FirstShown, SearchEnds, [Next]_vars, stage' = "hang"
               PROVE FALSE
    BY DEF SearchEnds
  <2>1. PreviousOp /\ Earlier(state.IP) = {}
    BY DEF Next, Emulate, Key, StartCall, TurnUnseen, Show, Apply, EndCall, EndOfInput, NextOp, PreviousOp,
       SkipSamples, Quit, MoveCursor, ToggleScreen, ToggleFloats, Resize, Redraw, Advance, SearchEnds, vars
  <2>2. stage = "wait" /\ state.IP > 0
    BY <2>1 DEF PreviousOp
  <2>3. seen = sampleNum /\ sampleNum \in Nat
    BY <2>2 DEF AskedInv, SessionInv, TypeOK
  <2>4. 0 \in Earlier(state.IP)
    BY <2>2, <2>3 DEF FirstShown, Earlier
  <2> QED BY <2>1, <2>4
<1>3. Init => AskedInv
  BY DebuggerAssumption DEF Init, AskedInv
<1> QED BY <1>1, <1>2, <1>3, AskedStep, FirstShownStep, SessionInvariant, PTL DEF Spec

-----------------------------------------------------------------------------
(* A session without the debugger *)

Emulators == [st : EmuState, mem : 0 .. Values - 1]
Turns     == [st : EmuState, mem : 0 .. Values - 1, cycles : Nat]

\* The order in which the parts of a state are assigned does not matter.
LEMMA Assignments ==
  ASSUME NEW s \in EmuState
  PROVE  /\ \A acc, i, j, o : [[s EXCEPT !.ACC = acc, !.IP = i] EXCEPT !.IP = j, !.osc = o]
                            = [[[s EXCEPT !.osc = o] EXCEPT !.ACC = acc, !.IP = i] EXCEPT !.IP = j]
         /\ \A acc, i, o : [[s EXCEPT !.osc = o] EXCEPT !.ACC = acc, !.IP = i].osc = o
         /\ \A acc, i : [s EXCEPT !.ACC = acc, !.IP = i].osc = s.osc
         /\ \A o : [s EXCEPT !.osc = o].ACC = s.ACC /\ [s EXCEPT !.osc = o].ADCL = s.ADCL
                   /\ [s EXCEPT !.osc = o].IP = s.IP /\ [s EXCEPT !.osc = o].RUN_FLAG = s.RUN_FLAG
         /\ \A o1, o2 : [[s EXCEPT !.osc = o1] EXCEPT !.osc = o2] = [s EXCEPT !.osc = o2]
  BY DEF EmuState, States

\* An instruction does not look at an LFO's ticks.
LEMMA TickThenExecute ==
  ASSUME NEW s \in EmuState, NEW o \in Nat, NEW m
  PROVE  /\ ACCAfter([s EXCEPT !.osc = o], m) = ACCAfter(s, m)
         /\ MemoryAfter([s EXCEPT !.osc = o], m) = MemoryAfter(s, m)
         /\ Jump([s EXCEPT !.osc = o]) = Jump(s)
         /\ Current([s EXCEPT !.osc = o]) = Current(s)
<1>1. /\ [s EXCEPT !.osc = o].ACC = s.ACC /\ [s EXCEPT !.osc = o].ADCL = s.ADCL
      /\ [s EXCEPT !.osc = o].IP = s.IP /\ [s EXCEPT !.osc = o].RUN_FLAG = s.RUN_FLAG
  BY Assignments
<1> DEFINE t == [s EXCEPT !.osc = o]
<1> HIDE DEF t
<1>2. t.ACC = s.ACC /\ t.ADCL = s.ADCL /\ t.IP = s.IP /\ t.RUN_FLAG = s.RUN_FLAG
  BY <1>1 DEF t
<1>3. Current(t) = Current(s)
  BY <1>2 DEF Current
<1>4. ACCAfter(t, m) = ACCAfter(s, m) /\ MemoryAfter(t, m) = MemoryAfter(s, m) /\ Jump(t) = Jump(s)
  BY <1>2, <1>3 DEF ACCAfter, MemoryAfter, Jump
<1> QED BY <1>3, <1>4 DEF t

\* A turn of the loop ticks the LFOs, executes the instruction and goes on.
LEMMA TurnType ==
  ASSUME TypeOK, NEW s \in Turns, s.st.IP < Len(prog)
  PROVE  PlainTurn(s) \in Turns /\ PlainTurn(s).st.IP > s.st.IP
<1>1. s.st \in EmuState /\ s.mem \in 0 .. Values - 1 /\ s.cycles \in Nat
  BY DEF Turns
<1>2. /\ Executed(s.st, s.mem) \in EmuState /\ MemoryAfter(s.st, s.mem) \in 0 .. Values - 1
      /\ Executed(s.st, s.mem).IP = s.st.IP + Jump(s.st) /\ Jump(s.st) \in Nat
  BY <1>1, ExecutedType
<1>3. /\ \A e \in EmuState, i, o \in Nat : [e EXCEPT !.IP = i, !.osc = o] \in EmuState
                                           /\ [e EXCEPT !.IP = i, !.osc = o].IP = i
      /\ \A e \in EmuState : e.IP \in Nat /\ e.osc \in Nat
  BY DEF EmuState, States
<1> DEFINE e == Executed(s.st, s.mem)
<1> HIDE DEF e
<1>4. e \in EmuState /\ e.IP \in Nat /\ e.osc \in Nat /\ s.st.IP \in Nat
  BY <1>1, <1>2, <1>3 DEF e
<1>5. [e EXCEPT !.IP = e.IP + 1, !.osc = e.osc + 1] \in EmuState
      /\ [e EXCEPT !.IP = e.IP + 1, !.osc = e.osc + 1].IP = e.IP + 1
  <2>1. e.IP + 1 \in Nat /\ e.osc + 1 \in Nat
    BY <1>4
  <2>2. \A i, o \in Nat : [e EXCEPT !.IP = i, !.osc = o] \in EmuState
                          /\ [e EXCEPT !.IP = i, !.osc = o].IP = i
    BY <1>3, <1>4, Zenon
  <2> QED BY <2>1, <2>2, Zenon
<1>6. PlainTurn(s) = [st |-> [e EXCEPT !.IP = e.IP + 1, !.osc = e.osc + 1],
                      mem |-> MemoryAfter(s.st, s.mem), cycles |-> s.cycles + 1]
  BY DEF PlainTurn, e
<1>7. e.IP + 1 > s.st.IP
  BY <1>1, <1>2, <1>4 DEF e
<1>8. s.cycles + 1 \in Nat
  BY <1>1
<1>9. PlainTurn(s) \in Turns
  BY <1>2, <1>5, <1>6, <1>8 DEF Turns
<1>10. PlainTurn(s).st = [e EXCEPT !.IP = e.IP + 1, !.osc = e.osc + 1]
  BY <1>6
<1> QED BY <1>5, <1>7, <1>9, <1>10

\* The turns of a call, one after the other.
LEMMA TurnsUnfold ==
  ASSUME TypeOK, NEW s \in Emulators, NEW adc \in 0 .. NumSamples
  PROVE  LET T == PlainTurns(s, adc)
         IN  /\ T \in [Nat -> Turns]
             /\ T[0] = [st |-> [s.st EXCEPT !.ADCL = adc, !.IP = 0], mem |-> s.mem, cycles |-> 0]
             /\ \A k \in Nat : T[k + 1] = IF T[k].st.IP >= Len(prog) THEN T[k] ELSE PlainTurn(T[k])
<1> DEFINE start == [st |-> [s.st EXCEPT !.ADCL = adc, !.IP = 0], mem |-> s.mem, cycles |-> 0]
           After(t) == IF t.st.IP >= Len(prog) THEN t ELSE PlainTurn(t)
           F == [x \in Nat \X Turns |-> After(x[2])]
<1>1. start \in Turns
  <2>0. s.st \in EmuState /\ s.mem \in 0 .. Values - 1
    BY DEF Emulators
  <2>1. [s.st EXCEPT !.ADCL = adc, !.IP = 0] \in EmuState /\ s.mem \in 0 .. Values - 1
    BY <2>0, Assigned
  <2> QED BY <2>1 DEF Turns
<1>2. \A t \in Turns : After(t) \in Turns
  <2> TAKE t \in Turns
  <2>1. t.st.IP \in Nat /\ Len(prog) \in Nat
    BY ProgramType DEF Turns, EmuState, States
  <2>2. CASE t.st.IP < Len(prog)
    BY <2>1, <2>2, TurnType
  <2>3. CASE t.st.IP >= Len(prog)
    BY <2>3
  <2> QED BY <2>1, <2>2, <2>3
<1>3. \A n \in Nat : \A t \in Turns : F[<<n, t>>] = After(t)
  OBVIOUS
<1>4. F \in [Nat \X Turns -> Turns]
  BY <1>2
<1> HIDE DEF F, start
<1>5. PICK f : Iterates(f, Turns, start, F)
  BY <1>1, <1>4, Iteration
<1>6. f \in [Nat -> Turns] /\ f[0] = start /\ \A n \in Nat : f[n + 1] = F[<<n, f[n]>>]
  BY <1>5 DEF Iterates
<1>7. \A n \in Nat : f[n + 1] = After(f[n])
  BY <1>3, <1>6
<1> HIDE DEF After
<1>8. \A n \in Nat \ {0} : f[n] = After(f[n - 1])
  <2> TAKE n \in Nat \ {0}
  <2>1. n - 1 \in Nat /\ (n - 1) + 1 = n
    OBVIOUS
  <2> QED BY <1>7, <2>1
<1>9. f = [k \in Nat |-> IF k = 0 THEN start ELSE After(f[k - 1])]
  BY <1>6, <1>8
<1>10. PlainTurns(s, adc) = CHOOSE g : g = [k \in Nat |-> IF k = 0 THEN start ELSE After(g[k - 1])]
  BY DEF PlainTurns, start, After
<1>11. PlainTurns(s, adc) = [k \in Nat |-> IF k = 0 THEN start ELSE After(PlainTurns(s, adc)[k - 1])]
  BY <1>9, <1>10
<1> DEFINE T == PlainTurns(s, adc)
<1> HIDE DEF T
<1>12. T = [k \in Nat |-> IF k = 0 THEN start ELSE After(T[k - 1])]
  BY <1>11 DEF T
<1>13. T[0] = start /\ \A n \in Nat : T[n + 1] = After(T[n])
  <2>1. T[0] = start
    BY <1>12
  <2>2. ASSUME NEW n \in Nat PROVE T[n + 1] = After(T[n])
    <3>1. n + 1 \in Nat /\ n + 1 # 0 /\ (n + 1) - 1 = n
      OBVIOUS
    <3>2. T[n + 1] = After(T[(n + 1) - 1])
      BY <1>12, <3>1
    <3> QED BY <3>1, <3>2
  <2> QED BY <2>1, <2>2
<1>14. \A n \in Nat : T[n] \in Turns
  <2> DEFINE N == {n \in Nat : T[n] \in Turns}
  <2>1. 0 \in N
    BY <1>1, <1>13 DEF start
  <2>2. ASSUME NEW n \in Nat, n \in N PROVE n + 1 \in N
    <3>1. After(T[n]) \in Turns /\ T[n + 1] = After(T[n])
      BY <1>2, <1>13, <2>2
    <3> QED BY <3>1
  <2> HIDE DEF N
  <2>3. Nat \subseteq N
    BY <2>1, <2>2, Induct
  <2> QED BY <2>3 DEF N
<1>15. T \in [Nat -> Turns]
  BY <1>12, <1>14
<1> QED BY <1>13, <1>15 DEF T, start, After

\* The program has ended after as many turns as it has instructions, and a turn
\* after its end changes nothing.
LEMMA TurnsEnd ==
  ASSUME TypeOK, NEW s \in Emulators, NEW adc \in 0 .. NumSamples, NEW k \in Nat,
         PlainTurns(s, adc)[k].st.IP >= Len(prog)
  PROVE  PlainTurns(s, adc)[Len(prog)] = PlainTurns(s, adc)[k]
<1> DEFINE T == PlainTurns(s, adc)
           After(t) == IF t.st.IP >= Len(prog) THEN t ELSE PlainTurn(t)
<1>1. T \in [Nat -> Turns] /\ \A n \in Nat : T[n + 1] = After(T[n])
  BY TurnsUnfold
<1>2. T[k].st.IP >= Len(prog) /\ Len(prog) \in Nat
  BY ProgramType
<1> HIDE DEF T
<1>3. \A n \in Nat : T[n].st.IP \in Nat /\ T[n] \in Turns
  BY <1>1 DEF Turns, EmuState, States
<1>4. \A n \in Nat : T[n].st.IP < Len(prog) => T[n + 1].st.IP > T[n].st.IP
  <2> TAKE n \in Nat
  <2> HAVE T[n].st.IP < Len(prog)
  <2>1. T[n + 1] = PlainTurn(T[n])
    <3>1. ~(T[n].st.IP >= Len(prog))
      BY <1>2, <1>3
    <3> QED BY <1>1, <3>1, Zenon
  <2> QED BY <1>3, <2>1, TurnType
<1>5. \A n \in Nat : T[n].st.IP >= Len(prog) => T[n + 1] = T[n]
  BY <1>1
<1> HIDE DEF After
<1>6. \A n \in Nat : T[n].st.IP >= n \/ T[n].st.IP >= Len(prog)
  <2> DEFINE N == {n \in Nat : T[n].st.IP >= n \/ T[n].st.IP >= Len(prog)}
  <2>1. 0 \in N
    BY <1>3
  <2>2. ASSUME NEW n \in Nat, n \in N PROVE n + 1 \in N
    <3>1. n + 1 \in Nat /\ T[n].st.IP \in Nat /\ T[n + 1].st.IP \in Nat
      BY <1>3
    <3>2. CASE T[n].st.IP >= Len(prog)
      BY <1>5, <3>1, <3>2
    <3>3. CASE T[n].st.IP < Len(prog)
      <4>1. T[n].st.IP >= n
        BY <1>2, <2>2, <3>1, <3>3
      <4> QED BY <1>4, <3>1, <3>3, <4>1
    <3> QED BY <1>2, <3>1, <3>2, <3>3
  <2> HIDE DEF N
  <2>3. Nat \subseteq N
    BY <2>1, <2>2, Induct
  <2> QED BY <2>3 DEF N
<1>7. ASSUME NEW i \in Nat, T[i].st.IP >= Len(prog), NEW j \in Nat, i <= j
      PROVE  T[j] = T[i]
  <2> DEFINE N == {d \in Nat : T[i + d] = T[i]}
  <2>1. 0 \in N
    OBVIOUS
  <2>2. ASSUME NEW d \in Nat, d \in N PROVE d + 1 \in N
    <3>1. i + d \in Nat /\ (i + d) + 1 = i + (d + 1) /\ T[i + d] = T[i]
      BY <2>2
    <3>2. T[(i + d) + 1] = T[i + d]
      BY <1>5, <1>7, <3>1
    <3> QED BY <3>1, <3>2
  <2> HIDE DEF N
  <2>3. Nat \subseteq N
    BY <2>1, <2>2, Induct
  <2>4. j - i \in N /\ i + (j - i) = j
    BY <1>7, <2>3
  <2> QED BY <2>4 DEF N
<1>8. T[Len(prog)].st.IP >= Len(prog)
  BY <1>2, <1>6
<1>9. Len(prog) <= k \/ k <= Len(prog)
  BY <1>2
<1>10. T[Len(prog)] = T[k]
  BY <1>2, <1>7, <1>8, <1>9
<1> QED BY <1>10 DEF T

\* What a call without the debugger leaves.
LEMMA PlainCallType ==
  ASSUME TypeOK, NEW s \in Emulators, NEW adc \in 0 .. NumSamples
  PROVE  PlainCall(s, adc) \in Emulators
<1> DEFINE end == PlainTurns(s, adc)[Len(prog)]
           pad == IF end.cycles < InstructionsPerSample THEN InstructionsPerSample - end.cycles ELSE 0
<1>1. end \in Turns
  BY TurnsUnfold, ProgramType
<1>2. PlainCall(s, adc) = [st |-> [end.st EXCEPT !.RUN_FLAG = TRUE, !.DelayRAMPtr = Wrapped(@ - 1),
                                                !.osc = @ + pad],
                           mem |-> end.mem]
  BY DEF PlainCall
<1> HIDE DEF end
<1>3. end.st \in EmuState /\ end.mem \in 0 .. Values - 1 /\ end.cycles \in Nat
  BY <1>1 DEF Turns
<1>4. end.st.DelayRAMPtr \in 1 - MemSize .. 0 /\ end.st.osc \in Nat
  BY <1>3, Assigned
<1>5. Wrapped(end.st.DelayRAMPtr - 1) \in 1 - MemSize .. 0
  BY <1>4, Bounds DEF Wrapped
<1>6. end.st.osc + pad \in Nat
  BY <1>3, <1>4, Bounds
<1> HIDE DEF pad
<1>7. [end.st EXCEPT !.RUN_FLAG = TRUE, !.DelayRAMPtr = Wrapped(@ - 1), !.osc = @ + pad] \in EmuState
  BY <1>3, <1>5, <1>6, Assigned
<1> QED BY <1>2, <1>3, <1>7 DEF Emulators

LEMMA PlainUnfold ==
  ASSUME TypeOK
  PROVE  /\ Plain \in [0 .. NumSamples -> Emulators]
         /\ Plain[0] = [st |-> NewState, mem |-> 0]
         /\ \A n \in 0 .. NumSamples - 1 : Plain[n + 1] = PlainCall(Plain[n], n + 1)
<1> DEFINE start == [st |-> NewState, mem |-> 0]
           After(e, n) == PlainCall(e, n)
           F == [x \in Nat \X Emulators |-> IF x[1] < NumSamples THEN After(x[2], x[1] + 1) ELSE x[2]]
<1>0. NumSamples \in Nat \ {0}
  BY Bounds
<1>1. start \in Emulators
  <2>1. NewState \in EmuState /\ 0 \in 0 .. Values - 1
    BY Bounds DEF NewState, EmuState, States
  <2> QED BY <2>1 DEF Emulators
<1>2. \A n \in Nat : \A e \in Emulators : n < NumSamples => After(e, n + 1) \in Emulators
  <2> TAKE n \in Nat
  <2> TAKE e \in Emulators
  <2> HAVE n < NumSamples
  <2>1. n + 1 \in 0 .. NumSamples
    BY <1>0
  <2> QED BY <2>1, PlainCallType
<1> HIDE DEF start, After
<1>3. \A n \in Nat : \A e \in Emulators :
        F[<<n, e>>] = IF n < NumSamples THEN After(e, n + 1) ELSE e
  OBVIOUS
<1>4. F \in [Nat \X Emulators -> Emulators]
  BY <1>2
<1> HIDE DEF F
<1>5. PICK g : Iterates(g, Emulators, start, F)
  BY <1>1, <1>4, Iteration
<1>6. g \in [Nat -> Emulators] /\ g[0] = start /\ \A n \in Nat : g[n + 1] = F[<<n, g[n]>>]
  BY <1>5 DEF Iterates
<1> DEFINE f == [n \in 0 .. NumSamples |-> g[n]]
<1>7. f \in [0 .. NumSamples -> Emulators] /\ f[0] = start /\ \A n \in 0 .. NumSamples : f[n] = g[n]
  BY <1>0, <1>6
<1> HIDE DEF f
<1>8. \A n \in 0 .. NumSamples : n # 0 => f[n] = After(f[n - 1], n)
  <2> TAKE n \in 0 .. NumSamples
  <2> HAVE n # 0
  <2>1. n - 1 \in Nat /\ (n - 1) + 1 = n /\ n - 1 < NumSamples /\ n - 1 \in 0 .. NumSamples
    BY <1>0
  <2>2. g[(n - 1) + 1] = F[<<n - 1, g[n - 1]>>] /\ g[n - 1] \in Emulators
    BY <1>6, <2>1
  <2>3. F[<<n - 1, g[n - 1]>>] = After(g[n - 1], (n - 1) + 1)
    BY <1>3, <2>1, <2>2
  <2> QED BY <1>7, <2>1, <2>2, <2>3
<1>9. f = [n \in 0 .. NumSamples |-> IF n = 0 THEN start ELSE After(f[n - 1], n)]
  BY <1>7, <1>8
<1>10. Plain = CHOOSE h : h = [n \in 0 .. NumSamples |-> IF n = 0 THEN start ELSE After(h[n - 1], n)]
  BY DEF Plain, start, After
<1>11. Plain = [n \in 0 .. NumSamples |-> IF n = 0 THEN start ELSE After(Plain[n - 1], n)]
  BY <1>9, <1>10
<1> DEFINE P == Plain
<1> HIDE DEF P
<1>12. P = [n \in 0 .. NumSamples |-> IF n = 0 THEN start ELSE After(P[n - 1], n)]
  BY <1>11 DEF P
<1>13. P[0] = start
  BY <1>0, <1>12
<1>14. \A n \in 0 .. NumSamples - 1 : P[n + 1] = After(P[n], n + 1)
  <2> TAKE n \in 0 .. NumSamples - 1
  <2>1. n + 1 \in 0 .. NumSamples /\ n + 1 # 0 /\ (n + 1) - 1 = n
    BY <1>0
  <2>2. P[n + 1] = After(P[(n + 1) - 1], n + 1)
    BY <1>12, <2>1
  <2> QED BY <2>1, <2>2
<1>15. \A n \in 0 .. NumSamples : P[n] \in Emulators
  <2> DEFINE N == {n \in Nat : n <= NumSamples => P[n] \in Emulators}
  <2>1. 0 \in N
    BY <1>1, <1>13
  <2>2. ASSUME NEW n \in Nat, n \in N PROVE n + 1 \in N
    <3> SUFFICES ASSUME n + 1 <= NumSamples PROVE P[n + 1] \in Emulators
      OBVIOUS
    <3>1. n \in 0 .. NumSamples - 1 /\ n < NumSamples /\ P[n] \in Emulators
      BY <1>0, <2>2
    <3> QED BY <1>2, <1>14, <3>1
  <2> HIDE DEF N
  <2>3. Nat \subseteq N
    BY <2>1, <2>2, Induct
  <2> QED BY <1>0, <2>3 DEF N
<1>16. P \in [0 .. NumSamples -> Emulators]
  BY <1>12, <1>15
<1> QED BY <1>13, <1>14, <1>16 DEF P, start, After

-----------------------------------------------------------------------------
(* Watching *)

\* The turns of this call, without the debugger.
Ahead == PlainTurns(Plain[sampleNum], sampleNum + 1)

\* Between two calls the session is where it would be without the debugger, and
\* within one it is at one of the turns: at the one that the instruction which is
\* shown, or waited at, leads to.
HarmlessInv ==
  ~nilRegs =>
    /\ stage = "idle" => Plain[sampleNum] = [st |-> state, mem |-> memory]
    /\ stage \in {"top", "shown", "wait"} =>
         \E k \in Nat :
           /\ cycles = IF Ahead[k].cycles < InstructionsPerSample THEN Ahead[k].cycles
                       ELSE InstructionsPerSample
           /\ stage = "top" => Ahead[k].st = state /\ Ahead[k].mem = memory
           /\ stage = "shown" => /\ Ahead[k].st = [Executed(state, memory) EXCEPT !.IP = @ + 1]
                                 /\ Ahead[k].mem = MemoryAfter(state, memory)
           /\ stage = "wait" => Ahead[k].st = [state EXCEPT !.IP = @ + 1] /\ Ahead[k].mem = memory

LEMMA AheadSame ==
  ASSUME prog' = prog, sampleNum' = sampleNum
  PROVE  Plain' = Plain /\ Ahead' = Ahead
  BY DEF Ahead, Plain, PlainCall, PlainTurns, PlainTurn, Executed, ACCAfter, MemoryAfter, Jump, Current

LEMMA PlainSame ==
  ASSUME prog' = prog
  PROVE  Plain' = Plain
  BY DEF Plain, PlainCall, PlainTurns, PlainTurn, Executed, ACCAfter, MemoryAfter, Jump, Current

LEMMA AheadUnfold ==
  ASSUME TypeOK, sampleNum < NumSamples
  PROVE  /\ Ahead \in [Nat -> Turns]
         /\ Ahead[0] = [st |-> [Plain[sampleNum].st EXCEPT !.ADCL = sampleNum + 1, !.IP = 0],
                        mem |-> Plain[sampleNum].mem, cycles |-> 0]
         /\ \A k \in Nat : Ahead[k].st.IP < Len(prog) => Ahead[k + 1] = PlainTurn(Ahead[k])
         /\ \A k \in Nat : Ahead[k].st.IP >= Len(prog) => Ahead[Len(prog)] = Ahead[k]
<1>1. Plain[sampleNum] \in Emulators /\ sampleNum + 1 \in 0 .. NumSamples
  BY PlainUnfold, Bounds DEF TypeOK
<1>2. /\ Ahead \in [Nat -> Turns]
      /\ Ahead[0] = [st |-> [Plain[sampleNum].st EXCEPT !.ADCL = sampleNum + 1, !.IP = 0],
                     mem |-> Plain[sampleNum].mem, cycles |-> 0]
      /\ \A k \in Nat : Ahead[k + 1] = IF Ahead[k].st.IP >= Len(prog) THEN Ahead[k] ELSE PlainTurn(Ahead[k])
  BY <1>1, TurnsUnfold DEF Ahead
<1>3. \A k \in Nat : Ahead[k].st.IP < Len(prog) => Ahead[k + 1] = PlainTurn(Ahead[k])
  <2> TAKE k \in Nat
  <2> HAVE Ahead[k].st.IP < Len(prog)
  <2>1. ~(Ahead[k].st.IP >= Len(prog))
    <3>1. Ahead[k].st \in EmuState
      BY <1>2 DEF Turns
    <3>2. Ahead[k].st.IP \in Nat /\ Len(prog) \in Nat
      BY <3>1, Assigned, ProgramType
    <3> QED BY <3>2
  <2> QED BY <1>2, <2>1, Zenon
<1>4. \A k \in Nat : Ahead[k].st.IP >= Len(prog) => Ahead[Len(prog)] = Ahead[k]
  BY <1>1, TurnsEnd DEF Ahead
<1> QED BY <1>2, <1>3, <1>4

\* A turn of the session, watched or not, is a turn without the debugger.
LEMMA TurnWatched ==
  ASSUME TypeOK, sampleNum < NumSamples, state.IP < Len(prog), NEW k \in Nat,
         Ahead[k].st = state, Ahead[k].mem = memory,
         cycles = IF Ahead[k].cycles < InstructionsPerSample THEN Ahead[k].cycles
                  ELSE InstructionsPerSample
  PROVE  /\ Ahead[k + 1].st = [Executed(Ticked, memory) EXCEPT !.IP = @ + 1]
         /\ Ahead[k + 1].mem = MemoryAfter(Ticked, memory)
         /\ MemoryAfter(Ticked, memory) = MemoryAfter(state, memory)
         /\ CyclesAfter = IF Ahead[k + 1].cycles < InstructionsPerSample THEN Ahead[k + 1].cycles
                          ELSE InstructionsPerSample
<1>1. /\ state \in EmuState /\ state.osc \in Nat /\ memory \in 0 .. Values - 1
      /\ Ahead[k] \in Turns /\ Ahead[k].cycles \in Nat
      /\ state.osc + 1 \in Nat /\ Ticked = [state EXCEPT !.osc = state.osc + 1]
  <2>1. state \in EmuState /\ memory \in 0 .. Values - 1
    BY ProgramType DEF TypeOK
  <2>2. state.osc \in Nat
    BY <2>1, Assigned
  <2>3. Ahead[k] \in Turns
    BY AheadUnfold
  <2> QED BY <2>1, <2>2, <2>3 DEF Ticked, Turns
<1>2. Ahead[k + 1] = PlainTurn(Ahead[k])
  BY AheadUnfold
<1>3. /\ ACCAfter(Ticked, memory) = ACCAfter(state, memory)
      /\ MemoryAfter(Ticked, memory) = MemoryAfter(state, memory)
      /\ Jump(Ticked) = Jump(state) /\ Ticked.IP = state.IP
  <2>1. Ticked.IP = state.IP
    BY <1>1, Assigned
  <2> QED BY <1>1, <2>1, TickThenExecute
<1> DEFINE acc == ACCAfter(state, memory)
           i == state.IP + Jump(state)
<1>4. Executed(state, memory) = [state EXCEPT !.ACC = acc, !.IP = i]
  BY DEF Executed
<1>5. Executed(Ticked, memory) = [Ticked EXCEPT !.ACC = acc, !.IP = i]
  BY <1>3, Zenon DEF Executed
<1> HIDE DEF acc, i
<1>6. [state EXCEPT !.ACC = acc, !.IP = i].IP = i /\ [state EXCEPT !.ACC = acc, !.IP = i].osc = state.osc
      /\ [Ticked EXCEPT !.ACC = acc, !.IP = i].IP = i
  BY <1>1 DEF EmuState, States
<1>7. Ahead[k + 1] = [st |-> [Executed(state, memory) EXCEPT !.IP = i + 1, !.osc = state.osc + 1],
                      mem |-> MemoryAfter(state, memory), cycles |-> Ahead[k].cycles + 1]
  BY <1>2, <1>4, <1>6, Zenon DEF PlainTurn
<1>8. [Executed(state, memory) EXCEPT !.IP = i + 1, !.osc = state.osc + 1]
      = [Executed(Ticked, memory) EXCEPT !.IP = i + 1]
  <2> DEFINE o == state.osc + 1
             j == i + 1
  <2> HIDE DEF o, j
  <2>1. [[state EXCEPT !.ACC = acc, !.IP = i] EXCEPT !.IP = j, !.osc = o]
        = [[[state EXCEPT !.osc = o] EXCEPT !.ACC = acc, !.IP = i] EXCEPT !.IP = j]
    BY <1>1, Assignments, Zenon
  <2> QED BY <1>1, <1>4, <1>5, <2>1, Zenon DEF o, j
<1>9. [Executed(Ticked, memory) EXCEPT !.IP = @ + 1] = [Executed(Ticked, memory) EXCEPT !.IP = i + 1]
  BY <1>5, <1>6, Zenon
<1>10. Ahead[k + 1].cycles = Ahead[k].cycles + 1
  BY <1>7
<1>11. CyclesAfter = IF Ahead[k + 1].cycles < InstructionsPerSample THEN Ahead[k + 1].cycles
                     ELSE InstructionsPerSample
  BY <1>1, <1>10, Bounds, SMTT(60) DEF CyclesAfter
<1>12. Ahead[k + 1].st = [Executed(Ticked, memory) EXCEPT !.IP = @ + 1]
       /\ Ahead[k + 1].mem = MemoryAfter(state, memory)
  BY <1>7, <1>8, <1>9
<1> QED BY <1>3, <1>11, <1>12

\* The end of a call pads as much as without the debugger.
LEMMA CallWatched ==
  ASSUME TypeOK, sampleNum < NumSamples, EndCall, NEW k \in Nat,
         Ahead[k].st = state, Ahead[k].mem = memory,
         cycles = IF Ahead[k].cycles < InstructionsPerSample THEN Ahead[k].cycles
                  ELSE InstructionsPerSample
  PROVE  Plain'[sampleNum'] = [st |-> state', mem |-> memory']
<1>1. /\ state.IP >= Len(prog) /\ sampleNum' = sampleNum + 1 /\ memory' = memory /\ prog' = prog
      /\ state' = [state EXCEPT !.RUN_FLAG = TRUE, !.DelayRAMPtr = Wrapped(@ - 1),
                                !.osc = @ + InstructionsPerSample - cycles]
  BY DEF EndCall, sessionVars
<1>2. Ahead[Len(prog)] = Ahead[k] /\ Ahead[k].cycles \in Nat
  BY <1>1, AheadUnfold DEF Turns
<1>3. Plain[sampleNum + 1] = PlainCall(Plain[sampleNum], sampleNum + 1)
  <2>1. sampleNum \in 0 .. NumSamples - 1
    BY Bounds DEF TypeOK
  <2> QED BY <2>1, PlainUnfold
<1> DEFINE end == Ahead[k]
           pad == IF end.cycles < InstructionsPerSample THEN InstructionsPerSample - end.cycles ELSE 0
<1>4. PlainCall(Plain[sampleNum], sampleNum + 1)
      = [st |-> [end.st EXCEPT !.RUN_FLAG = TRUE, !.DelayRAMPtr = Wrapped(@ - 1), !.osc = @ + pad],
         mem |-> end.mem]
  BY <1>2, Zenon DEF PlainCall, Ahead
<1>5. state.osc + pad = state.osc + InstructionsPerSample - cycles
  <2>1. state.osc \in Nat
    BY ProgramType, Assigned
  <2> QED BY <1>2, <2>1, Bounds
<1>6. Plain' = Plain
  BY <1>1, PlainSame
<1> HIDE DEF pad
<1>7. [end.st EXCEPT !.RUN_FLAG = TRUE, !.DelayRAMPtr = Wrapped(@ - 1), !.osc = @ + pad] = state'
  BY <1>1, <1>5, Zenon
<1> QED BY <1>1, <1>3, <1>4, <1>6, <1>7, Zenon

LEMMA HarmlessStep == SessionInv /\ HarmlessInv /\ [Next]_vars => HarmlessInv'
<1> SUFFICES ASSUME SessionInv, HarmlessInv, [Next]_vars, ~nilRegs' PROVE HarmlessInv'
  BY DEF HarmlessInv
<1> DEFINE Counted(k) == IF Ahead[k].cycles < InstructionsPerSample THEN Ahead[k].cycles
                         ELSE InstructionsPerSample
<1>0. /\ TypeOK /\ ~nilRegs /\ prog' = prog
      /\ stage \in {"top", "shown", "wait"} => sampleNum < NumSamples
  <2>1. CASE UNCHANGED vars
    BY <2>1 DEF vars, sessionVars, SessionInv
  <2>2. CASE Next
    <3>1. prog' = prog /\ (nilRegs' = nilRegs \/ nilRegs' = TRUE)
      BY <2>2 DEF Next, Emulate, Key, StartCall, EndOfInput, TurnUnseen, Show, Apply, EndCall, NextOp,
         PreviousOp, SkipSamples, Quit, MoveCursor, ToggleScreen, ToggleFloats, Resize, Redraw, sessionVars
    <3> QED BY <3>1 DEF SessionInv
  <2> QED BY <2>1, <2>2
<1>1. CASE StartCall
  <2>1. /\ stage = "idle" /\ sampleNum < NumSamples /\ stage' = "top" /\ cycles' = 0
        /\ state' = [state EXCEPT !.ADCL = sampleNum + 1, !.IP = 0]
        /\ memory' = memory /\ sampleNum' = sampleNum
    BY <1>1 DEF StartCall, sessionVars
  <2>2. Plain[sampleNum] = [st |-> state, mem |-> memory]
    BY <1>0, <2>1 DEF HarmlessInv
  <2>3. Ahead[0] = [st |-> state', mem |-> memory', cycles |-> 0] /\ Ahead' = Ahead
    <3>1. Ahead[0] = [st |-> [Plain[sampleNum].st EXCEPT !.ADCL = sampleNum + 1, !.IP = 0],
                      mem |-> Plain[sampleNum].mem, cycles |-> 0]
      BY <1>0, <2>1, AheadUnfold
    <3>2. Plain[sampleNum].st = state /\ Plain[sampleNum].mem = memory
      BY <2>2
    <3> QED BY <1>0, <2>1, <3>1, <3>2, AheadSame
  <2>4. cycles' = (IF Ahead'[0].cycles < InstructionsPerSample THEN Ahead'[0].cycles
                   ELSE InstructionsPerSample)
        /\ Ahead'[0].st = state' /\ Ahead'[0].mem = memory'
    BY <2>1, <2>3, Bounds
  <2> QED BY <2>1, <2>4 DEF HarmlessInv
<1>2. CASE TurnUnseen \/ Show
  <2>1. /\ stage = "top" /\ state.IP < Len(prog) /\ cycles' = CyclesAfter /\ sampleNum' = sampleNum
        /\ sampleNum < NumSamples
    BY <1>0, <1>2 DEF TurnUnseen, Show
  <2>2. PICK k \in Nat : cycles = Counted(k) /\ Ahead[k].st = state /\ Ahead[k].mem = memory
    BY <1>0, <2>1 DEF HarmlessInv
  <2>3. /\ Ahead[k + 1].st = [Executed(Ticked, memory) EXCEPT !.IP = @ + 1]
        /\ Ahead[k + 1].mem = MemoryAfter(Ticked, memory)
        /\ MemoryAfter(Ticked, memory) = MemoryAfter(state, memory)
        /\ CyclesAfter = Counted(k + 1)
    BY <1>0, <2>1, <2>2, TurnWatched
  <2>4. Ahead' = Ahead
    BY <1>0, <2>1, AheadSame
  <2>5. stage' = "top" => Ahead[k + 1].st = state' /\ Ahead[k + 1].mem = memory'
    <3>1. stage' = "top" => /\ state' = [Executed(Ticked, memory) EXCEPT !.IP = @ + 1]
                            /\ memory' = MemoryAfter(state, memory)
      BY <1>2 DEF TurnUnseen, Show
    <3> QED BY <2>3, <3>1
  <2>6. stage' = "shown" => /\ Executed(state, memory)' = Executed(Ticked, memory)
                            /\ MemoryAfter(state, memory)' = MemoryAfter(Ticked, memory)
    <3>1. stage' = "shown" => state' = Ticked /\ memory' = memory
      BY <1>2 DEF TurnUnseen, Show
    <3> DEFINE t == Ticked
    <3> HIDE DEF t
    <3>2. ASSUME state' = t, memory' = memory
          PROVE  /\ Executed(state, memory)' = Executed(t, memory)
                 /\ MemoryAfter(state, memory)' = MemoryAfter(t, memory)
      BY <1>0, <3>2 DEF Executed, ACCAfter, MemoryAfter, Jump, Current
    <3> QED BY <3>1, <3>2 DEF t
  <2>7. stage' \notin {"idle", "wait"}
    BY <1>2 DEF TurnUnseen, Show
  <2>8. /\ cycles' = Counted(k + 1)
        /\ stage' = "top" => Ahead[k + 1].st = state' /\ Ahead[k + 1].mem = memory'
        /\ stage' = "shown" => /\ Ahead[k + 1].st = [Executed(state, memory)' EXCEPT !.IP = @ + 1]
                               /\ Ahead[k + 1].mem = MemoryAfter(state, memory)'
    BY <2>1, <2>3, <2>5, <2>6
  <2> QED BY <2>4, <2>7, <2>8 DEF HarmlessInv
<1>3. CASE Apply
  <2>1. /\ stage = "shown" /\ sampleNum' = sampleNum /\ cycles' = cycles
        /\ stage' \in {"done", "panic", "wait"} /\ memory' = MemoryAfter(state, memory)
        /\ stage' = "wait" => state' = Executed(state, memory)
    BY <1>3 DEF Apply, callVars
  <2>2. PICK k \in Nat : /\ cycles = Counted(k)
                         /\ Ahead[k].st = [Executed(state, memory) EXCEPT !.IP = @ + 1]
                         /\ Ahead[k].mem = MemoryAfter(state, memory)
    BY <1>0, <2>1 DEF HarmlessInv
  <2>3. Ahead' = Ahead
    BY <1>0, <2>1, AheadSame
  <2>4. /\ cycles' = Counted(k)
        /\ stage' = "wait" => Ahead[k].st = [state' EXCEPT !.IP = @ + 1] /\ Ahead[k].mem = memory'
    BY <2>1, <2>2
  <2> QED BY <2>1, <2>3, <2>4 DEF HarmlessInv
<1>4. CASE NextOp \/ SkipSamples
  <2>1. /\ stage = "wait" /\ sampleNum' = sampleNum /\ cycles' = cycles /\ stage' = "top"
        /\ memory' = memory /\ state' = [state EXCEPT !.IP = @ + 1]
    BY <1>4 DEF NextOp, SkipSamples, Advance, callVars, sessionVars
  <2>2. PICK k \in Nat : /\ cycles = Counted(k)
                         /\ Ahead[k].st = [state EXCEPT !.IP = @ + 1] /\ Ahead[k].mem = memory
    BY <1>0, <2>1 DEF HarmlessInv
  <2>3. Ahead' = Ahead
    BY <1>0, <2>1, AheadSame
  <2>4. cycles' = Counted(k) /\ Ahead[k].st = state' /\ Ahead[k].mem = memory'
    BY <2>1, <2>2
  <2> QED BY <2>1, <2>3, <2>4 DEF HarmlessInv
<1>5. CASE EndCall
  <2>1. stage = "top" /\ stage' = "idle"
    BY <1>5 DEF EndCall
  <2>2. PICK k \in Nat : cycles = Counted(k) /\ Ahead[k].st = state /\ Ahead[k].mem = memory
    BY <1>0, <2>1 DEF HarmlessInv
  <2>3. Plain'[sampleNum'] = [st |-> state', mem |-> memory']
    BY <1>0, <1>5, <2>1, <2>2, CallWatched
  <2> QED BY <2>1, <2>3 DEF HarmlessInv
<1>6. CASE PreviousOp
  <2>1. stage' \in {"hang", "top"} /\ (stage' = "top" => nilRegs')
    BY <1>6 DEF PreviousOp
  <2> QED BY <2>1 DEF HarmlessInv
<1>7. CASE MoveCursor \/ ToggleScreen \/ ToggleFloats \/ Resize
  <2>1. stage = "wait" /\ stage' \in {"wait", "panic"} /\ UNCHANGED <<state, memory, sampleNum, cycles>>
    BY <1>7 DEF MoveCursor, ToggleScreen, ToggleFloats, Resize, Redraw, sessionVars, callVars
  <2>2. Ahead' = Ahead
    BY <1>0, <2>1, AheadSame
  <2> QED BY <1>0, <2>1, <2>2 DEF HarmlessInv
<1>8. CASE EndOfInput \/ Quit
  <2>1. stage' = "done"
    BY <1>8 DEF EndOfInput, Quit
  <2> QED BY <2>1 DEF HarmlessInv
<1>9. CASE UNCHANGED vars
  <2>1. UNCHANGED <<stage, state, memory, nilRegs, sampleNum, cycles>>
    BY <1>9 DEF vars, sessionVars, callVars
  <2>2. Ahead' = Ahead /\ Plain' = Plain
    BY <1>0, <2>1, AheadSame
  <2>3. /\ Executed(state, memory)' = Executed(state, memory)
        /\ MemoryAfter(state, memory)' = MemoryAfter(state, memory)
    BY <1>0, <2>1 DEF Executed, ACCAfter, MemoryAfter, Jump, Current
  <2> QED BY <1>0, <2>1, <2>2, <2>3 DEF HarmlessInv
<1> QED BY <1>1, <1>2, <1>3, <1>4, <1>5, <1>6, <1>7, <1>8, <1>9 DEF Next, Emulate, Key

\* As long as no step back is taken, every sample leaves the emulator, the LFOs and
\* the delay RAM included, as a session without the debugger would, whatever is
\* skipped, shown or stepped through, for every program and every number of samples.
THEOREM WatchingChangesNothing == Spec => []WatchingIsHarmless
<1>1. Init => HarmlessInv
  <2> SUFFICES ASSUME Init PROVE Plain[0] = [st |-> NewState, mem |-> 0]
    BY DEF Init, HarmlessInv
  <2>1. TypeOK
    BY SessionInit DEF SessionInv
  <2> QED BY <2>1, PlainUnfold
<1>2. SessionInv /\ HarmlessInv => WatchingIsHarmless
  BY DEF HarmlessInv, WatchingIsHarmless
<1> QED BY <1>1, <1>2, HarmlessStep, SessionInvariant, PTL DEF Spec

-----------------------------------------------------------------------------
(* Replaying *)

\* All of a state but the LFOs, and what the next turn makes of it in a program
\* that does not read the delay RAM.
Bare(s) == [s EXCEPT !.osc = 0]

On(s) == IF s.IP >= Len(prog) THEN s ELSE Bare([Executed(s, 0) EXCEPT !.IP = @ + 1])

IsPath(p) == p \in [Nat -> EmuState] /\ \A k \in Nat : p[k + 1] = On(p[k])

OnPath(s, p) == \E k \in Nat : p[k] = Bare(s)

\* The snapshots taken for the input a, and the state if it is its input, are
\* turns of one and the same call.
Along(a, p) ==
  /\ IsPath(p)
  /\ \A ip \in DOMAIN previousStates : previousStates[ip].ADCL = a => OnPath(previousStates[ip], p)
  /\ state.ADCL = a /\ stage \in {"top", "shown"} => OnPath(state, p)
  /\ state.ADCL = a /\ stage = "wait" => OnPath([state EXCEPT !.IP = @ + 1], p)

\* The inputs there have been: this call's is new to the snapshots.
Inputs ==
  /\ \A ip \in DOMAIN previousStates : /\ previousStates[ip].ADCL <= sampleNum + 1
                                       /\ stage = "idle" => previousStates[ip].ADCL <= sampleNum
  /\ stage \in {"top", "shown", "wait"} => state.ADCL <= sampleNum + 1
  /\ stage = "shown" => state.IP \in DOMAIN previousStates

ReplayInv ==
  /\ Inputs
  /\ ~ReadsMemory(prog) => \A a \in 0 .. NumSamples : \E p : Along(a, p)

LEMMA BareType ==
  ASSUME NEW s \in EmuState
  PROVE  Bare(s) \in EmuState /\ Bare(s).IP = s.IP /\ Bare(s).ADCL = s.ADCL
<1>1. [s EXCEPT !.osc = 0] \in EmuState /\ [s EXCEPT !.osc = 0].IP = s.IP
  BY Assigned
<1> QED BY <1>1, Assignments DEF Bare

\* A turn that ticks the LFOs is the same turn but for the LFOs.
LEMMA BareTurn ==
  ASSUME TypeOK, ~ReadsMemory(prog), NEW s \in EmuState, s.IP < Len(prog), NEW m \in 0 .. Values - 1
  PROVE  /\ Bare([Executed(s, m) EXCEPT !.IP = @ + 1]) = On(Bare(s))
         /\ On(Bare(s)) \in EmuState /\ On(Bare(s)).IP > s.IP
<1> DEFINE b == Bare(s)
<1>1. b \in EmuState /\ b.IP = s.IP /\ b = [s EXCEPT !.osc = 0]
  BY BareType DEF Bare
<1> HIDE DEF b
<1>2. /\ s.IP \in Nat /\ Len(prog) \in Nat /\ prog \in Seq(Op)
  BY ProgramType, Assigned
<1>3. Current(b).name # "RDA" /\ Current(b) = Current(s)
  <2>1. s.IP + 1 \in DOMAIN prog /\ Current(s) = prog[s.IP + 1] /\ Current(b) = Current(s)
    BY <1>1, <1>2 DEF Current
  <2> QED BY <2>1 DEF ReadsMemory
<1>4. ACCAfter(b, 0) = ACCAfter(s, m) /\ Jump(b) = Jump(s)
  <2>1. ACCAfter(b, 0) = ACCAfter(b, m)
    BY <1>3 DEF ACCAfter
  <2>2. ACCAfter(b, m) = ACCAfter(s, m) /\ Jump(b) = Jump(s)
    <3>1. \A o \in Nat : /\ ACCAfter([s EXCEPT !.osc = o], m) = ACCAfter(s, m)
                         /\ Jump([s EXCEPT !.osc = o]) = Jump(s)
      BY TickThenExecute
    <3> QED BY <1>1, <3>1, Zenon
  <2> QED BY <2>1, <2>2
<1>5. Executed(b, 0) \in EmuState /\ Executed(b, 0).IP = s.IP + Jump(s) /\ Jump(s) \in Nat
  <2>1. 0 \in 0 .. Values - 1
    BY Bounds
  <2> QED BY <1>1, <1>4, <2>1, ExecutedType
<1> DEFINE acc == ACCAfter(s, m)
           i == s.IP + Jump(s)
<1>6. Executed(s, m) = [s EXCEPT !.ACC = acc, !.IP = i] /\ Executed(b, 0) = [b EXCEPT !.ACC = acc, !.IP = i]
  BY <1>1, <1>4, Zenon DEF Executed
<1>7. i + 1 \in Nat /\ i + 1 > s.IP
  BY <1>2, <1>5
<1> HIDE DEF acc, i
<1>8. /\ [[s EXCEPT !.ACC = acc, !.IP = i] EXCEPT !.IP = @ + 1]
         = [[s EXCEPT !.ACC = acc, !.IP = i] EXCEPT !.IP = i + 1]
      /\ [[b EXCEPT !.ACC = acc, !.IP = i] EXCEPT !.IP = @ + 1]
         = [[b EXCEPT !.ACC = acc, !.IP = i] EXCEPT !.IP = i + 1]
  BY <1>1 DEF EmuState, States
<1>9. /\ [[[s EXCEPT !.ACC = acc, !.IP = i] EXCEPT !.IP = i + 1] EXCEPT !.osc = 0]
         = [[[s EXCEPT !.osc = 0] EXCEPT !.ACC = acc, !.IP = i] EXCEPT !.IP = i + 1]
      /\ [[[b EXCEPT !.ACC = acc, !.IP = i] EXCEPT !.IP = i + 1] EXCEPT !.osc = 0]
         = [[b EXCEPT !.ACC = acc, !.IP = i] EXCEPT !.IP = i + 1]
  BY <1>1 DEF EmuState, States
<1>10. On(b) = Bare([Executed(b, 0) EXCEPT !.IP = @ + 1])
  <2>1. ~(b.IP >= Len(prog))
    BY <1>1, <1>2
  <2> QED BY <2>1, Zenon DEF On
<1>11. On(b) = [[b EXCEPT !.ACC = acc, !.IP = i] EXCEPT !.IP = i + 1]
  BY <1>6, <1>8, <1>9, <1>10, Zenon DEF Bare
<1>12. Bare([Executed(s, m) EXCEPT !.IP = @ + 1]) = [[b EXCEPT !.ACC = acc, !.IP = i] EXCEPT !.IP = i + 1]
  BY <1>1, <1>6, <1>8, <1>9, Zenon DEF Bare
<1>13. On(b) \in EmuState /\ On(b).IP = i + 1
  <2>1. [b EXCEPT !.ACC = acc, !.IP = i] \in EmuState
    BY <1>5, <1>6
  <2>2. \A e \in EmuState : \A n \in Nat : [e EXCEPT !.IP = n] \in EmuState /\ [e EXCEPT !.IP = n].IP = n
    BY Assigned
  <2> QED BY <1>7, <1>11, <2>1, <2>2, Zenon
<1> QED BY <1>7, <1>11, <1>12, <1>13 DEF b

\* From every state there is a path.
LEMMA PathFrom ==
  ASSUME TypeOK, ~ReadsMemory(prog), NEW s \in EmuState
  PROVE  \E p : IsPath(p) /\ p[0] = Bare(s)
<1> DEFINE S == {Bare(t) : t \in EmuState}
           F == [x \in Nat \X S |-> On(x[2])]
<1>1. S \subseteq EmuState /\ Bare(s) \in S
  BY BareType
<1>2. \A t \in S : On(t) \in S
  <2> TAKE t \in S
  <2>1. PICK u \in EmuState : t = Bare(u)
    OBVIOUS
  <2>2. CASE t.IP >= Len(prog)
    BY <2>2 DEF On
  <2>3. CASE ~(t.IP >= Len(prog))
    <3>1. u.IP < Len(prog)
      <4>1. t.IP = u.IP
        BY <2>1, BareType
      <4>2. u.IP \in Nat /\ Len(prog) \in Nat
        BY ProgramType, Assigned
      <4> QED BY <2>3, <4>1, <4>2
    <3>2. On(t) = Bare([Executed(t, 0) EXCEPT !.IP = @ + 1])
      BY <2>3 DEF On
    <3>3. t \in EmuState /\ t.IP < Len(prog) /\ 0 \in 0 .. Values - 1
      BY <2>1, <3>1, BareType, Bounds
    <3>4. Executed(t, 0) \in EmuState /\ Executed(t, 0).IP \in Nat
      BY <3>3, ExecutedType, Assigned
    <3>5. Executed(t, 0).IP + 1 \in Nat
      BY <3>4
    <3>6. [Executed(t, 0) EXCEPT !.IP = @ + 1] \in EmuState
      BY <3>4, <3>5, Assigned
    <3> QED BY <3>2, <3>6
  <2> QED BY <2>2, <2>3
<1>3. \A n \in Nat : \A t \in S : F[<<n, t>>] = On(t)
  OBVIOUS
<1>4. F \in [Nat \X S -> S]
  BY <1>2
<1> HIDE DEF F, S
<1>5. PICK p : Iterates(p, S, Bare(s), F)
  BY <1>1, <1>4, Iteration
<1>6. p \in [Nat -> S] /\ p[0] = Bare(s) /\ \A n \in Nat : p[n + 1] = F[<<n, p[n]>>]
  BY <1>5 DEF Iterates
<1>7. p \in [Nat -> EmuState] /\ \A n \in Nat : p[n + 1] = On(p[n])
  BY <1>1, <1>3, <1>6
<1> QED BY <1>6, <1>7 DEF IsPath

\* A path comes to an instruction once.
LEMMA PathRises ==
  ASSUME TypeOK, ~ReadsMemory(prog), NEW p, IsPath(p), NEW i \in Nat, NEW j \in Nat,
         p[i].IP = p[j].IP, p[i].IP < Len(prog)
  PROVE  p[i] = p[j]
<1>1. \A k \in Nat : p[k] \in EmuState /\ p[k].IP \in Nat /\ p[k + 1] = On(p[k])
  <2> TAKE k \in Nat
  <2>1. p[k] \in EmuState /\ p[k + 1] = On(p[k])
    BY DEF IsPath
  <2> QED BY <2>1, Assigned
<1>2. Len(prog) \in Nat
  BY ProgramType
<1>3. \A k \in Nat : /\ p[k].IP < Len(prog) => p[k + 1].IP > p[k].IP
                     /\ p[k].IP >= Len(prog) => p[k + 1] = p[k]
  <2> TAKE k \in Nat
  <2>0. p[k] \in EmuState /\ p[k].IP \in Nat /\ p[k + 1] = On(p[k])
    BY <1>1
  <2>1. CASE p[k].IP >= Len(prog)
    <3>1. p[k + 1] = p[k]
      BY <2>0, <2>1, Zenon DEF On
    <3>2. ~(p[k].IP < Len(prog))
      BY <1>2, <2>0, <2>1
    <3> QED BY <3>1, <3>2
  <2>2. CASE p[k].IP < Len(prog)
    <3>1. 0 \in 0 .. Values - 1 /\ p[k] \in EmuState /\ p[k].IP \in Nat
      BY <2>0, Bounds
    <3>2. ~(p[k].IP >= Len(prog))
      BY <1>2, <2>2, <3>1
    <3>3. On(p[k]) = Bare([Executed(p[k], 0) EXCEPT !.IP = @ + 1])
      BY <3>2, Zenon DEF On
    <3>4. On(Bare(p[k])).IP > p[k].IP /\ On(Bare(p[k])) = Bare([Executed(p[k], 0) EXCEPT !.IP = @ + 1])
      BY <2>2, <3>1, BareTurn
    <3>5. p[k + 1].IP > p[k].IP
      BY <2>0, <3>3, <3>4, Zenon
    <3> QED BY <3>2, <3>5
  <2> QED BY <1>2, <2>0, <2>1, <2>2
<1>4. ASSUME NEW a \in Nat, NEW b \in Nat, a < b, p[a].IP < Len(prog)
      PROVE  p[b].IP > p[a].IP
  <2> DEFINE N == {d \in Nat : p[a + d + 1].IP > p[a].IP}
  <2>1. 0 \in N
    BY <1>3, <1>4
  <2>2. ASSUME NEW d \in Nat, d \in N PROVE d + 1 \in N
    <3>1. /\ a + d + 1 \in Nat /\ (a + d + 1) + 1 = a + (d + 1) + 1
          /\ p[a + d + 1].IP > p[a].IP
      BY <2>2
    <3>2. p[a].IP \in Nat /\ p[a + d + 1].IP \in Nat /\ p[(a + d + 1) + 1].IP \in Nat
      <4>1. (a + d + 1) + 1 \in Nat
        BY <3>1
      <4> QED BY <1>1, <3>1, <4>1, Zenon
    <3>3. p[(a + d + 1) + 1].IP >= p[a + d + 1].IP
      <4>1. CASE p[a + d + 1].IP < Len(prog)
        BY <1>3, <3>1, <3>2, <4>1
      <4>2. CASE p[a + d + 1].IP >= Len(prog)
        BY <1>3, <3>1, <3>2, <4>2
      <4> QED BY <1>2, <3>2, <4>1, <4>2
    <3>4. p[(a + d + 1) + 1].IP > p[a].IP
      BY <3>1, <3>2, <3>3
    <3> QED BY <3>1, <3>4
  <2> HIDE DEF N
  <2>3. Nat \subseteq N
    BY <2>1, <2>2, Induct
  <2>4. b - a - 1 \in N /\ a + (b - a - 1) + 1 = b
    BY <1>4, <2>3
  <2> QED BY <2>4 DEF N
<1>5. p[i].IP \in Nat /\ p[j].IP \in Nat /\ p[j].IP < Len(prog)
  BY <1>1
<1>6. ~(i < j)
  BY <1>4, <1>5
<1>7. ~(j < i)
  BY <1>4, <1>5
<1> QED BY <1>6, <1>7

\* An instruction, or the turn that completes it, takes the state one further
\* along its path.
LEMMA OnPathStep ==
  ASSUME TypeOK, ~ReadsMemory(prog), NEW p, IsPath(p), NEW s \in EmuState, s.IP < Len(prog),
         OnPath(s, p), NEW m \in 0 .. Values - 1
  PROVE  OnPath([Executed(s, m) EXCEPT !.IP = @ + 1], p)
<1>1. PICK k \in Nat : p[k] = Bare(s)
  BY DEF OnPath
<1>2. p[k + 1] = On(Bare(s)) /\ k + 1 \in Nat
  BY <1>1 DEF IsPath
<1>3. Bare([Executed(s, m) EXCEPT !.IP = @ + 1]) = On(Bare(s))
  BY BareTurn
<1> QED BY <1>2, <1>3 DEF OnPath

\* The LFOs do not show.
LEMMA OnPathTicked ==
  ASSUME NEW p, NEW s \in EmuState, OnPath(s, p)
  PROVE  \A o \in Nat : OnPath([s EXCEPT !.osc = o], p) /\ [s EXCEPT !.osc = o].ADCL = s.ADCL
<1>1. \A o \in Nat : Bare([s EXCEPT !.osc = o]) = Bare(s)
  BY Assignments DEF Bare
<1> QED BY <1>1, Assignments DEF OnPath

LEMMA PathSame ==
  ASSUME prog' = prog
  PROVE  \A p : IsPath(p)' <=> IsPath(p)
  BY DEF IsPath, On, Bare, Executed, ACCAfter, Jump, Current

LEMMA InputsStep ==
  ASSUME SessionInv, Inputs, [Next]_vars
  PROVE  Inputs'
<1>0. /\ TypeOK /\ sampleNum \in Nat /\ state \in EmuState /\ Len(prog) \in Nat /\ state.ADCL \in Nat
      /\ \A ip \in DOMAIN previousStates : previousStates[ip].ADCL \in Nat
  <2>1. TypeOK /\ sampleNum \in Nat /\ state \in EmuState /\ Len(prog) \in Nat
    BY ProgramType DEF SessionInv, TypeOK
  <2>2. \A ip \in DOMAIN previousStates : previousStates[ip] \in EmuState
    BY DEF SessionInv
  <2>3. \A s \in EmuState : s.ADCL \in Nat
    <3>1. \A s \in EmuState : s.ADCL \in 0 .. NumSamples
      BY Assigned
    <3> QED BY <3>1
  <2> QED BY <2>1, <2>2, <2>3
<1>1. CASE StartCall
  <2>1. /\ stage = "idle" /\ stage' = "top" /\ UNCHANGED <<previousStates, sampleNum>>
        /\ state' = [state EXCEPT !.ADCL = sampleNum + 1, !.IP = 0]
    BY <1>1 DEF StartCall, sessionVars
  <2>2. state'.ADCL = sampleNum + 1
    <3>1. \A n : [state EXCEPT !.ADCL = n, !.IP = 0].ADCL = n
      BY <1>0 DEF EmuState, States
    <3> QED BY <2>1, <3>1, Zenon
  <2> QED BY <1>0, <2>1, <2>2 DEF Inputs
<1>2. CASE TurnUnseen \/ Apply
  <2>1. /\ stage \in {"top", "shown"} /\ stage' \notin {"idle", "shown"}
        /\ UNCHANGED <<previousStates, sampleNum>>
        /\ stage' \in {"top", "wait"} =>
             state' \in {[Executed(Ticked, memory) EXCEPT !.IP = @ + 1], Executed(state, memory)}
    BY <1>2 DEF TurnUnseen, Apply, callVars
  <2>2. stage' \in {"top", "wait"} => state'.ADCL = state.ADCL
    <3>1. \A e \in EmuState : \A acc, i : [e EXCEPT !.ACC = acc, !.IP = i].ADCL = e.ADCL
                                          /\ [e EXCEPT !.osc = i].ADCL = e.ADCL
      BY DEF EmuState, States
    <3>2. Executed(state, memory).ADCL = state.ADCL
      BY <1>0, <3>1, Zenon DEF Executed
    <3>3. [Executed(Ticked, memory) EXCEPT !.IP = @ + 1].ADCL = state.ADCL
      <4> DEFINE acc == ACCAfter(Ticked, memory)
                 jump == Jump(Ticked)
      <4>1. Executed(Ticked, memory) = [Ticked EXCEPT !.ACC = acc, !.IP = @ + jump]
        BY DEF Executed
      <4> HIDE DEF acc, jump
      <4> QED BY <1>0, <4>1 DEF Ticked, EmuState, States
    <3> QED BY <2>1, <3>2, <3>3
  <2> QED BY <1>0, <2>1, <2>2 DEF Inputs
<1>3. CASE Show
  <2>1. /\ stage = "top" /\ stage' \in {"shown", "panic"} /\ sampleNum' = sampleNum
        /\ state' = Ticked /\ RegisterState(Ticked)
    BY <1>3 DEF Show
  <2>2. Ticked.ADCL = state.ADCL /\ Ticked.IP = state.IP
    BY <1>0 DEF Ticked, EmuState, States
  <2>3. /\ DOMAIN previousStates' = DOMAIN previousStates \cup {state.IP}
        /\ \A ip \in DOMAIN previousStates' :
             previousStates'[ip] = IF ip \in DOMAIN previousStates THEN previousStates[ip] ELSE Ticked
    BY <2>1, <2>2 DEF RegisterState
  <2>4. \A ip \in DOMAIN previousStates' : previousStates'[ip].ADCL <= sampleNum + 1
    BY <2>1, <2>2, <2>3 DEF Inputs
  <2> QED BY <2>1, <2>2, <2>3, <2>4 DEF Inputs
<1>4. CASE EndCall
  <2>1. stage' = "idle" /\ sampleNum' = sampleNum + 1 /\ UNCHANGED previousStates
    BY <1>4 DEF EndCall, sessionVars
  <2> QED BY <1>0, <2>1 DEF Inputs
<1>5. CASE NextOp \/ SkipSamples
  <2>1. /\ stage = "wait" /\ stage' = "top" /\ UNCHANGED <<previousStates, sampleNum>>
        /\ state' = [state EXCEPT !.IP = @ + 1]
    BY <1>5 DEF NextOp, SkipSamples, Advance, callVars, sessionVars
  <2>2. state'.ADCL = state.ADCL
    BY <1>0, <2>1 DEF EmuState, States
  <2> QED BY <2>1, <2>2 DEF Inputs
<1>6. CASE PreviousOp
  <2>1. /\ stage = "wait" /\ stage' \in {"top", "hang"} /\ UNCHANGED <<previousStates, sampleNum>>
        /\ state' = state \/ \E ip \in DOMAIN previousStates : state' = previousStates[ip]
    BY <1>6 DEF PreviousOp, Copy, Earlier, callVars
  <2> QED BY <2>1 DEF Inputs
<1>7. CASE MoveCursor \/ ToggleScreen \/ ToggleFloats \/ Resize
  <2>1. stage = "wait" /\ stage' \in {"wait", "panic"} /\ UNCHANGED <<state, sampleNum, previousStates>>
    BY <1>7 DEF MoveCursor, ToggleScreen, ToggleFloats, Resize, Redraw, sessionVars, callVars
  <2> QED BY <2>1 DEF Inputs
<1>8. CASE EndOfInput \/ Quit
  <2>1. stage' = "done" /\ UNCHANGED <<sampleNum, previousStates>>
    BY <1>8 DEF EndOfInput, Quit, callVars, sessionVars
  <2> QED BY <2>1 DEF Inputs
<1>9. CASE UNCHANGED vars
  <2>1. UNCHANGED <<stage, state, sampleNum, previousStates>>
    BY <1>9 DEF vars, sessionVars, callVars
  <2> QED BY <2>1 DEF Inputs
<1> QED BY <1>1, <1>2, <1>3, <1>4, <1>5, <1>6, <1>7, <1>8, <1>9 DEF Next, Emulate, Key

LEMMA ReplayStep == SessionInv /\ ReplayInv /\ [Next]_vars => ReplayInv'
<1> SUFFICES ASSUME SessionInv, ReplayInv, [Next]_vars PROVE ReplayInv'
  OBVIOUS
<1>0. prog' = prog
  BY DEF Next, Emulate, Key, StartCall, EndOfInput, TurnUnseen, Show, Apply, EndCall, NextOp,
     PreviousOp, SkipSamples, Quit, MoveCursor, ToggleScreen, ToggleFloats, Resize, Redraw, sessionVars, vars
<1>1. Inputs'
  BY InputsStep DEF ReplayInv
<1> SUFFICES ASSUME ~ReadsMemory(prog), NEW a \in 0 .. NumSamples PROVE \E p : Along(a, p)'
  BY <1>0, <1>1 DEF ReplayInv, ReadsMemory
<1>2. PICK p : Along(a, p)
  BY DEF ReplayInv
<1>3. /\ TypeOK /\ state \in EmuState /\ memory \in 0 .. Values - 1 /\ Inputs
      /\ sampleNum \in Nat /\ Len(prog) \in Nat
      /\ \A ip \in DOMAIN previousStates : previousStates[ip] \in EmuState
  BY ProgramType DEF SessionInv, TypeOK, ReplayInv
<1>4. IsPath(p) /\ \A q : IsPath(q)' <=> IsPath(q)
  BY <1>0, <1>2, PathSame DEF Along
<1>5. \A s : OnPath(s, p)' <=> OnPath(s, p)
  BY DEF OnPath, Bare
<1>6. Ticked = [state EXCEPT !.osc = state.osc + 1] /\ Ticked \in EmuState /\ Ticked.IP = state.IP
      /\ Ticked.ADCL = state.ADCL
  <2>1. state.osc + 1 \in Nat
    <3>1. state.osc \in Nat
      BY <1>3, Assigned
    <3> QED BY <3>1
  <2> QED BY <1>3, <2>1, Assigned, Assignments DEF Ticked
<1>7. state.ADCL = a /\ stage \in {"top", "shown"} => OnPath(Ticked, p)
  <2>1. state.osc + 1 \in Nat
    <3>1. state.osc \in Nat
      BY <1>3, Assigned
    <3> QED BY <3>1
  <2> QED BY <1>2, <1>3, <1>6, <2>1, OnPathTicked DEF Along
<1>8. CASE StartCall
  <2>1. /\ stage = "idle" /\ stage' = "top" /\ UNCHANGED <<previousStates, sampleNum>>
        /\ state' = [state EXCEPT !.ADCL = sampleNum + 1, !.IP = 0] /\ sampleNum < NumSamples
    BY <1>8 DEF StartCall, sessionVars
  <2>2. state'.ADCL = sampleNum + 1 /\ state' \in EmuState
    <3>1. \A n : [state EXCEPT !.ADCL = n, !.IP = 0].ADCL = n
      BY <1>3 DEF EmuState, States
    <3>2. sampleNum + 1 \in 0 .. NumSamples
      BY <1>3, <2>1, Bounds
    <3> QED BY <1>3, <2>1, <3>1, <3>2, Assigned
  <2>3. CASE a = sampleNum + 1
    <3>1. PICK q : IsPath(q) /\ q[0] = Bare(state')
      BY <1>3, <2>2, PathFrom
    <3>2. \A ip \in DOMAIN previousStates : previousStates[ip].ADCL # a
      <4>1. \A ip \in DOMAIN previousStates : previousStates[ip].ADCL <= sampleNum /\ previousStates[ip].ADCL \in Nat
        <5> TAKE ip \in DOMAIN previousStates
        <5>1. previousStates[ip].ADCL \in 0 .. NumSamples
          BY <1>3, Assigned
        <5> QED BY <1>3, <2>1, <5>1 DEF Inputs
      <4> QED BY <1>3, <2>3, <4>1
    <3>3. OnPath(state, q)'
      BY <3>1 DEF OnPath, Bare
    <3>4. Along(a, q)'
      BY <1>4, <2>1, <3>1, <3>2, <3>3 DEF Along
    <3> QED BY <3>4
  <2>4. CASE a # sampleNum + 1
    <3>1. Along(a, p)'
      BY <1>2, <1>4, <1>5, <2>1, <2>2, <2>4 DEF Along
    <3> QED BY <3>1
  <2> QED BY <2>3, <2>4
<1>9. CASE TurnUnseen \/ Apply
  <2>1. /\ stage \in {"top", "shown"} /\ stage' \notin {"idle", "shown"} /\ UNCHANGED previousStates
        /\ stage' = "top" => /\ state' = [Executed(Ticked, memory) EXCEPT !.IP = @ + 1]
                             /\ Ticked.IP < Len(prog)
        /\ stage' = "wait" => state' = Executed(state, memory) /\ state.IP < Len(prog)
    BY <1>6, <1>9 DEF TurnUnseen, Apply, SessionInv
  <2>2. \A s \in EmuState : s.IP < Len(prog) => Executed(s, memory).ADCL = s.ADCL
                            /\ [Executed(s, memory) EXCEPT !.IP = @ + 1].ADCL = s.ADCL
    <3> TAKE s \in EmuState
    <3> HAVE s.IP < Len(prog)
    <3> DEFINE acc == ACCAfter(s, memory)
               jump == Jump(s)
    <3>1. Executed(s, memory) = [s EXCEPT !.ACC = acc, !.IP = @ + jump]
      BY DEF Executed
    <3> HIDE DEF acc, jump
    <3> QED BY <3>1 DEF EmuState, States
  <2>3. stage' = "top" /\ state'.ADCL = a => OnPath(state', p)
    <3> SUFFICES ASSUME stage' = "top", state'.ADCL = a PROVE OnPath(state', p)
      OBVIOUS
    <3>1. Ticked.ADCL = a
      BY <1>6, <2>1, <2>2
    <3>2. OnPath(Ticked, p) /\ Ticked.IP < Len(prog)
      BY <1>6, <1>7, <2>1, <3>1
    <3>3. OnPath([Executed(Ticked, memory) EXCEPT !.IP = @ + 1], p)
      <4> DEFINE t == Ticked
      <4> HIDE DEF t
      <4>1. t \in EmuState /\ t.IP < Len(prog) /\ OnPath(t, p)
        BY <1>6, <3>2 DEF t
      <4>2. OnPath([Executed(t, memory) EXCEPT !.IP = @ + 1], p)
        BY <1>3, <1>4, <4>1, OnPathStep
      <4> QED BY <4>2 DEF t
    <3> QED BY <2>1, <3>3, Zenon
  <2>4. stage' = "wait" /\ state'.ADCL = a => OnPath([state' EXCEPT !.IP = @ + 1], p)
    <3> SUFFICES ASSUME stage' = "wait", state'.ADCL = a PROVE OnPath([state' EXCEPT !.IP = @ + 1], p)
      OBVIOUS
    <3>1. state.ADCL = a /\ state.IP < Len(prog)
      BY <1>3, <2>1, <2>2
    <3>2. OnPath(state, p)
      BY <1>2, <2>1, <3>1 DEF Along
    <3> QED BY <1>3, <1>4, <2>1, <3>1, <3>2, OnPathStep
  <2>5. Along(a, p)'
    BY <1>2, <1>4, <1>5, <2>1, <2>3, <2>4 DEF Along
  <2> QED BY <2>5
<1>10. CASE Show
  <2>1. /\ stage = "top" /\ stage' \in {"shown", "panic"} /\ state' = Ticked /\ RegisterState(Ticked)
    BY <1>10 DEF Show
  <2>2. \A ip \in DOMAIN previousStates' :
          \/ previousStates'[ip] = Ticked
          \/ ip \in DOMAIN previousStates /\ previousStates'[ip] = previousStates[ip]
    <3> DEFINE t == Ticked
    <3>1. previousStates' = [ip \in DOMAIN previousStates \cup {t.IP} |->
                               IF ip \in DOMAIN previousStates THEN previousStates[ip] ELSE t]
      BY <2>1 DEF RegisterState
    <3> HIDE DEF t
    <3>2. \A ip \in DOMAIN previousStates' :
            \/ previousStates'[ip] = t
            \/ ip \in DOMAIN previousStates /\ previousStates'[ip] = previousStates[ip]
      BY <3>1
    <3> QED BY <3>2 DEF t
  <2>3. Ticked.ADCL = a => OnPath(Ticked, p)
    BY <1>6, <1>7, <2>1
  <2>4. Along(a, p)'
    BY <1>2, <1>4, <1>5, <2>1, <2>2, <2>3 DEF Along
  <2> QED BY <2>4
<1>11. CASE NextOp \/ SkipSamples
  <2>1. /\ stage = "wait" /\ stage' = "top" /\ UNCHANGED previousStates
        /\ state' = [state EXCEPT !.IP = @ + 1]
    BY <1>11 DEF NextOp, SkipSamples, Advance, callVars, sessionVars
  <2>2. state'.ADCL = state.ADCL
    BY <1>3, <2>1 DEF EmuState, States
  <2>3. Along(a, p)'
    BY <1>2, <1>4, <1>5, <2>1, <2>2 DEF Along
  <2> QED BY <2>3
<1>12. CASE PreviousOp
  <2>1. /\ stage = "wait" /\ stage' \in {"top", "hang"} /\ UNCHANGED previousStates
        /\ stage' = "top" => \E ip \in DOMAIN previousStates : state' = previousStates[ip]
    BY <1>12 DEF PreviousOp, Copy, Earlier
  <2>2. Along(a, p)'
    BY <1>2, <1>4, <1>5, <2>1 DEF Along
  <2> QED BY <2>2
<1>13. CASE MoveCursor \/ ToggleScreen \/ ToggleFloats \/ Resize
  <2>1. stage = "wait" /\ stage' \in {"wait", "panic"} /\ UNCHANGED <<state, previousStates>>
    BY <1>13 DEF MoveCursor, ToggleScreen, ToggleFloats, Resize, Redraw, sessionVars, callVars
  <2>2. Along(a, p)'
    BY <1>2, <1>4, <1>5, <2>1 DEF Along
  <2> QED BY <2>2
<1>14. CASE EndOfInput \/ Quit \/ EndCall
  <2>1. stage' \in {"done", "idle"} /\ UNCHANGED previousStates
    BY <1>14 DEF EndOfInput, Quit, EndCall, sessionVars
  <2>2. Along(a, p)'
    BY <1>2, <1>4, <1>5, <2>1 DEF Along
  <2> QED BY <2>2
<1>15. CASE UNCHANGED vars
  <2>1. UNCHANGED <<stage, state, previousStates>>
    BY <1>15 DEF vars, sessionVars
  <2>2. Along(a, p)'
    BY <1>2, <1>4, <1>5, <2>1 DEF Along
  <2> QED BY <2>2
<1> QED BY <1>8, <1>9, <1>10, <1>11, <1>12, <1>13, <1>14, <1>15 DEF Next, Emulate, Key

\* An instruction that is come to again by steps back looks as it did when it was
\* first shown for that input, the LFOs apart, in every program that does not read
\* what State.Copy leaves out, whatever has been stepped back to or skipped between.
THEOREM ReplaysAreExact == Spec => []ReplayIsExact
<1>1. Init => ReplayInv
  <2> SUFFICES ASSUME Init PROVE ReplayInv
    OBVIOUS
  <2>1. TypeOK /\ state \in EmuState
    BY SessionInit, ProgramType DEF SessionInv
  <2>2. previousStates = <<>> /\ DOMAIN previousStates = {} /\ stage = "idle"
    BY DEF Init
  <2>3. ~ReadsMemory(prog) => \E p : IsPath(p)
    BY <2>1, PathFrom
  <2> QED BY <2>2, <2>3 DEF ReplayInv, Inputs, Along
<1>2. SessionInv /\ ReplayInv => ReplayIsExact
  <2> SUFFICES ASSUME SessionInv, ReplayInv, stage = "shown", ~ReadsMemory(prog),
                      previousStates[state.IP].ADCL = state.ADCL
               PROVE  Bare(state) = Bare(previousStates[state.IP])
    BY Zenon DEF ReplayIsExact, Bare
  <2>1. /\ TypeOK /\ state \in EmuState /\ state.IP < Len(prog)
        /\ state.IP \in DOMAIN previousStates /\ previousStates[state.IP] \in EmuState
        /\ previousStates[state.IP].IP = state.IP
    BY ProgramType DEF SessionInv, TypeOK, ReplayInv, Inputs
  <2>2. state.ADCL \in 0 .. NumSamples
    BY <2>1, Assigned
  <2>3. PICK p : Along(state.ADCL, p)
    BY <2>2 DEF ReplayInv
  <2>4. IsPath(p) /\ OnPath(state, p) /\ OnPath(previousStates[state.IP], p)
    BY <2>1, <2>3 DEF Along
  <2>5. PICK i \in Nat : p[i] = Bare(state)
    BY <2>4 DEF OnPath
  <2>6. PICK j \in Nat : p[j] = Bare(previousStates[state.IP])
    BY <2>4 DEF OnPath
  <2>7. p[i].IP = p[j].IP /\ p[i].IP < Len(prog)
    BY <2>1, <2>5, <2>6, BareType
  <2> QED BY <2>1, <2>4, <2>5, <2>6, <2>7, PathRises
<1> QED BY <1>1, <1>2, ReplayStep, SessionInvariant, PTL DEF Spec
=============================================================================
