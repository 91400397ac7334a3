------------------------------ MODULE Debugger ------------------------------
(***************************************************************************)
(* A session with -debug: main's loop over the samples, processSample and  *)
(* ProcessSample with the debugger's callbacks, the snapshots that "previ- *)
(* ous op" goes back to, the samples to skip, and the keys.                *)
(*                                                                         *)
(* An instruction is known by what it reads and writes.  state holds what  *)
(* State.Copy copies (the registers stand for ACC), memory what it leaves  *)
(* out (the delay RAM, frozen LFO values, rates), nilRegs what it destroys *)
(* (the entries of unused registers).  Values are sums of input samples    *)
(* mod Values, the input of sample n is n + 1, osc counts an LFO's ticks.  *)
(***************************************************************************)
EXTENDS Integers, Sequences

CONSTANTS
  Programs,
  NumSamples,             \* samples in the input
  SkipTo,                 \* values of -skip-to
  SkipCounts,             \* samples the keys skip: 1, 100, 1000, 10000, 100000
  InstructionsPerSample,  \* 128
  MemSize,                \* cells of delay RAM: 2^15
  CursorStep,             \* cells the cursor moves up or down: 128
  Heights,                \* of the terminal
  Values

\* LDAX ADCL; RDAX ADCL; WRA and RDA of one cell (C is 1, the address is the one
\* the cell has come to); SKP; a register that is not in use; an instruction that
\* returns an error.
Op == [name : {"LDAX", "RDAX", "WRA", "RDA", "SKP", "UNUSED", "ERROR"},
       n    : Nat,       \* SKP: instructions to skip
       run  : BOOLEAN]   \* SKP: RUN is its flag, otherwise it has none

ASSUME DebuggerAssumption ==
  /\ \A p \in Programs : p \in Seq(Op) /\ p # <<>>
  /\ SkipTo \subseteq Nat /\ SkipCounts \subseteq Nat \ {0}
  /\ {NumSamples, InstructionsPerSample, Values} \subseteq Nat \ {0}
  /\ MemSize \in Nat /\ CursorStep \in 1 .. MemSize - 1
  /\ Heights \subseteq Nat

VARIABLES
  prog, state, memory, nilRegs,
  sampleNum,
  cycles,           \* of this call, up to InstructionsPerSample
  skipNumSamples,
  callbacks,        \* the debugger's are passed to this call
  previousStates,   \* from IPs to snapshots
  stage,
  screen, memoryCursor, terminalHeight,
  asked, seen       \* history: the sample to be shown next, the last one shown

sessionVars == <<prog, nilRegs, memory, previousStates>>
viewVars    == <<screen, memoryCursor, terminalHeight>>
callVars    == <<sampleNum, cycles, skipNumSamples, callbacks>>
history     == <<asked, seen>>
vars == <<sessionVars, state, callVars, stage, viewVars, history>>

Stages  == {"idle", "top", "shown", "wait", "done", "panic", "hang"}
Screens == {"Main", "Memory", "Help"}
Final   == {"done", "panic", "hang"}

NewState == [IP |-> 0, RUN_FLAG |-> FALSE, ACC |-> 0, ADCL |-> 0, osc |-> 0, DelayRAMPtr |-> 0]

Init ==
  /\ prog \in Programs /\ skipNumSamples \in SkipTo
  /\ state = NewState /\ memory = 0 /\ nilRegs = FALSE /\ previousStates = <<>>
  /\ sampleNum = 0 /\ cycles = 0 /\ callbacks = FALSE /\ stage = "idle"
  /\ screen = "Main" /\ memoryCursor = 0 /\ terminalHeight = 0
  /\ asked = skipNumSamples /\ seen = -1

-----------------------------------------------------------------------------
(* Instructions *)

Current(s) == prog[s.IP + 1]

ACCAfter(s, m) ==
  CASE Current(s).name = "LDAX" -> s.ADCL % Values
    [] Current(s).name = "RDAX" -> (s.ACC + s.ADCL) % Values
    [] Current(s).name = "RDA"  -> (s.ACC + m) % Values
    [] OTHER                    -> s.ACC

MemoryAfter(s, m) == IF Current(s).name = "WRA" THEN s.ACC ELSE m

Jump(s) == IF Current(s).name = "SKP" /\ (Current(s).run => s.RUN_FLAG) THEN Current(s).n ELSE 0

Executed(s, m) == [s EXCEPT !.ACC = ACCAfter(s, m), !.IP = @ + Jump(s)]

\* An entry of the register bank that is nil is used without a look at it.
NilUsed == nilRegs /\ Current(state).name = "UNUSED"

-----------------------------------------------------------------------------
(* The loop of main, and of ProcessSample *)

StartCall ==
  /\ stage = "idle" /\ sampleNum < NumSamples
  /\ state' = [state EXCEPT !.ADCL = sampleNum + 1, !.IP = 0]
  /\ cycles' = 0 /\ callbacks' = (skipNumSamples = 0) /\ stage' = "top"
  /\ UNCHANGED <<sessionVars, sampleNum, skipNumSamples, viewVars, history>>

EndOfInput ==
  /\ stage = "idle" /\ sampleNum = NumSamples
  /\ stage' = "done"
  /\ UNCHANGED <<sessionVars, state, callVars, viewVars, history>>

\* The callbacks are called, and are the debugger's.
Visible == callbacks /\ skipNumSamples = 0

Ticked == [state EXCEPT !.osc = @ + 1]

CyclesAfter == IF cycles < InstructionsPerSample THEN cycles + 1 ELSE cycles

\* One turn of the loop without the debugger.
TurnUnseen ==
  /\ stage = "top" /\ state.IP < Len(prog) /\ ~Visible
  /\ cycles' = CyclesAfter
  /\ CASE Current(state).name = "ERROR" -> stage' = "done" /\ state' = Ticked
       [] NilUsed -> stage' = "panic" /\ state' = Ticked
       [] OTHER -> stage' = "top" /\ state' = [Executed(Ticked, memory) EXCEPT !.IP = @ + 1]
  /\ memory' = MemoryAfter(state, memory)
  /\ UNCHANGED <<prog, nilRegs, previousStates, sampleNum, skipNumSamples, callbacks, viewVars, history>>

\* UpdateScreen of s panics: the listing's first line is below zero, the program
\* is indexed with an IP past its end, or the delay RAM with the cursor.
DrawPanics(s, scr, cur, height) ==
  \/ scr = "Main" /\ (height < 8 \/ s.IP >= Len(prog))
  \/ scr = "Memory" /\ cur \notin 0 .. MemSize - 1

\* debugger.RegisterState: the first snapshot of an instruction is kept.
RegisterState(s) ==
  previousStates' = [ip \in DOMAIN previousStates \cup {s.IP} |->
                       IF ip \in DOMAIN previousStates THEN previousStates[ip] ELSE s]

\* One turn of the loop up to DebugPreFn's return.
Show ==
  /\ stage = "top" /\ state.IP < Len(prog) /\ Visible
  /\ cycles' = CyclesAfter /\ state' = Ticked
  /\ RegisterState(Ticked)
  /\ terminalHeight' \in Heights
  /\ stage' = IF DrawPanics(Ticked, screen, memoryCursor, terminalHeight') THEN "panic" ELSE "shown"
  /\ seen' = sampleNum
  /\ UNCHANGED <<prog, nilRegs, memory, sampleNum, skipNumSamples, callbacks, screen, memoryCursor, asked>>

Apply ==
  /\ stage = "shown"
  /\ CASE Current(state).name = "ERROR" -> stage' = "done" /\ state' = state
       [] NilUsed -> stage' = "panic" /\ state' = state
       [] OTHER -> stage' = "wait" /\ state' = Executed(state, memory)
  /\ memory' = MemoryAfter(state, memory)
  /\ UNCHANGED <<prog, nilRegs, previousStates, callVars, viewVars, history>>

-----------------------------------------------------------------------------
(* Keys *)

\* Mutant: the turn is not completed by the key for the next sample.
SkipSamplesAtOnce ==
  /\ stage = "wait"
  /\ \E k \in SkipCounts : skipNumSamples' = k /\ asked' = sampleNum + k
  /\ state' = state /\ stage' = "top"
  /\ UNCHANGED <<sessionVars, sampleNum, cycles, callbacks, viewVars, seen>>

\* The loop goes on after the instruction waited at.
Advance ==
  /\ state' = [state EXCEPT !.IP = @ + 1] /\ stage' = "top"

NextOp ==
  /\ stage = "wait" /\ Advance
  /\ UNCHANGED <<sessionVars, callVars, viewVars, history>>

\* "next sample", "next 100 samples", ...: the rest of this one is skipped too.
SkipSamples ==
  /\ stage = "wait" /\ Advance
  /\ \E k \in SkipCounts : skipNumSamples' = k /\ asked' = sampleNum + k
  /\ UNCHANGED <<sessionVars, sampleNum, cycles, callbacks, viewVars, seen>>

Quit ==
  /\ stage = "wait" /\ stage' = "done"
  /\ UNCHANGED <<sessionVars, state, callVars, viewVars, history>>

\* Mutant: a register of the snapshot is forgotten.
CopyWithoutACC(in) == [in EXCEPT !.ACC = state.ACC]

\* State.Copy
Copy(in) == in

Earlier(ip) == {x \in DOMAIN previousStates : x < ip}

\* Mutant: the key is answered at the first instruction too.
PreviousOpAlways ==
  /\ stage = "wait"
  /\ IF Earlier(state.IP) = {}
     THEN /\ stage' = "hang" /\ UNCHANGED <<state, nilRegs>>
     ELSE \E x \in Earlier(state.IP) :
            /\ \A y \in Earlier(state.IP) : y <= x
            /\ state' = Copy(previousStates[x])
            /\ nilRegs' = TRUE /\ stage' = "top"
  /\ UNCHANGED <<prog, memory, previousStates, callVars, viewVars, history>>

\* The snapshot of the nearest instruction before IP that has one.  The search
\* counts an unsigned number down to zero and on: without one it does not end.
\* At IP 0 the key is ignored.
PreviousOp ==
  /\ stage = "wait" /\ state.IP > 0
  /\ IF Earlier(state.IP) = {}
     THEN /\ stage' = "hang" /\ UNCHANGED <<state, nilRegs>>
     ELSE \E x \in Earlier(state.IP) :
            /\ \A y \in Earlier(state.IP) : y <= x
            /\ state' = Copy(previousStates[x])
            /\ nilRegs' = TRUE /\ stage' = "top"
  /\ UNCHANGED <<prog, memory, previousStates, callVars, viewVars, history>>

\* UpdateScreen of lastState, which is the state as the instruction has left it.
Redraw ==
  /\ stage' = IF DrawPanics(state, screen', memoryCursor', terminalHeight') THEN "panic" ELSE "wait"
  /\ UNCHANGED <<sessionVars, state, callVars, history>>

\* Mutant: the cursor may come to stand behind the last cell.
IncreasedPast(count) ==
  IF memoryCursor + count > MemSize THEN memoryCursor + count - MemSize ELSE memoryCursor + count

Increased(count) ==
  IF memoryCursor + count >= MemSize THEN memoryCursor + count - MemSize ELSE memoryCursor + count

Decreased(count) ==
  IF memoryCursor - count < 0 THEN MemSize + (memoryCursor - count) ELSE memoryCursor - count

MoveCursor ==
  /\ stage = "wait"
  /\ \E count \in {1, CursorStep} : memoryCursor' \in {Increased(count), Decreased(count)}
  /\ UNCHANGED <<screen, terminalHeight>> /\ Redraw

ToggleScreen ==
  /\ stage = "wait"
  /\ \E scr \in {"Help", "Memory"} : screen' = IF screen = scr THEN "Main" ELSE scr
  /\ UNCHANGED <<memoryCursor, terminalHeight>> /\ Redraw

ToggleFloats == stage = "wait" /\ UNCHANGED viewVars /\ Redraw

Resize ==
  /\ stage = "wait" /\ terminalHeight' \in Heights
  /\ UNCHANGED <<screen, memoryCursor>> /\ Redraw

-----------------------------------------------------------------------------
(* The end of a call *)

Wrapped(ptr) == IF ptr <= -MemSize THEN 0 ELSE ptr

\* Mutant: the count is one behind.
EndCallEarly ==
  /\ stage = "top" /\ state.IP >= Len(prog)
  /\ state' = [state EXCEPT !.RUN_FLAG = TRUE, !.DelayRAMPtr = Wrapped(@ - 1),
                            !.osc = @ + InstructionsPerSample - cycles]
  /\ cycles' = InstructionsPerSample
  /\ skipNumSamples' = IF skipNumSamples > 1 THEN skipNumSamples - 1 ELSE skipNumSamples
  /\ sampleNum' = sampleNum + 1 /\ stage' = "idle"
  /\ asked' = IF asked = sampleNum /\ seen = sampleNum THEN sampleNum + 1 ELSE asked
  /\ UNCHANGED <<sessionVars, callbacks, viewVars, seen>>

\* RUN_FLAG, the delay pointer, the count of samples to skip, and the ticks the
\* program has left over.
EndCall ==
  /\ stage = "top" /\ state.IP >= Len(prog)
  /\ state' = [state EXCEPT !.RUN_FLAG = TRUE, !.DelayRAMPtr = Wrapped(@ - 1),
                            !.osc = @ + InstructionsPerSample - cycles]
  /\ cycles' = InstructionsPerSample
  /\ skipNumSamples' = IF skipNumSamples > 0 THEN skipNumSamples - 1 ELSE 0
  /\ sampleNum' = sampleNum + 1 /\ stage' = "idle"
  /\ asked' = IF asked = sampleNum /\ seen = sampleNum THEN sampleNum + 1 ELSE asked
  /\ UNCHANGED <<sessionVars, callbacks, viewVars, seen>>

Emulate == StartCall \/ EndOfInput \/ TurnUnseen \/ Show \/ Apply \/ EndCall

Key ==
  \/ NextOp \/ PreviousOp \/ SkipSamples \/ Quit
  \/ MoveCursor \/ ToggleScreen \/ ToggleFloats \/ Resize

Next == Emulate \/ Key

\* The emulator does not stop by itself; whoever sits at the keys may.
Spec == Init /\ [][Next]_vars /\ WF_vars(Emulate)
-----------------------------------------------------------------------------
(* Properties *)

TypeOK ==
  /\ prog \in Programs /\ stage \in Stages /\ callbacks \in BOOLEAN /\ nilRegs \in BOOLEAN
  /\ state \in [IP : Nat, RUN_FLAG : BOOLEAN, ACC : 0 .. Values - 1, ADCL : 0 .. NumSamples,
                osc : Nat, DelayRAMPtr : 1 - MemSize .. 0]
  /\ memory \in 0 .. Values - 1
  /\ sampleNum \in 0 .. NumSamples /\ skipNumSamples \in Nat /\ cycles \in 0 .. InstructionsPerSample
  /\ DOMAIN previousStates \subseteq 0 .. Len(prog) - 1
  /\ \A ip \in DOMAIN previousStates : previousStates[ip].IP = ip
  /\ screen \in Screens /\ memoryCursor \in 0 .. MemSize - 1
  /\ terminalHeight \in Heights \cup {0}

\* Sample n of -skip-to n, and the n-th sample after the one at which "next n
\* samples" is asked for, is the next one that is shown, and it is shown.
ShownAsAsked ==
  /\ stage \in {"shown", "wait"} => sampleNum = asked
  /\ stage = "idle" => sampleNum <= asked

\* What a session without the debugger computes: a turn, the first k turns of a
\* call, a call, n calls.
PlainTurn(s) == [st |-> [Executed(s.st, s.mem) EXCEPT !.IP = @ + 1, !.osc = @ + 1],
                 mem |-> MemoryAfter(s.st, s.mem), cycles |-> s.cycles + 1]

PlainTurns(s, adc) ==
  LET turns[k \in Nat] ==
        IF k = 0 THEN [st |-> [s.st EXCEPT !.ADCL = adc, !.IP = 0], mem |-> s.mem, cycles |-> 0]
        ELSE IF turns[k - 1].st.IP >= Len(prog) THEN turns[k - 1] ELSE PlainTurn(turns[k - 1])
  IN  turns

PlainCall(s, adc) ==
  LET end == PlainTurns(s, adc)[Len(prog)]
      pad == IF end.cycles < InstructionsPerSample THEN InstructionsPerSample - end.cycles ELSE 0
  IN  [st |-> [end.st EXCEPT !.RUN_FLAG = TRUE, !.DelayRAMPtr = Wrapped(@ - 1), !.osc = @ + pad],
       mem |-> end.mem]

Plain[n \in 0 .. NumSamples] ==
  IF n = 0 THEN [st |-> NewState, mem |-> 0] ELSE PlainCall(Plain[n - 1], n)

\* Watching changes nothing: unless a step back was taken, every sample leaves
\* the emulator as it would be without the debugger, the LFOs included,
\* whatever was skipped, shown or stepped through.
WatchingIsHarmless == stage = "idle" /\ ~nilRegs => Plain[sampleNum] = [st |-> state, mem |-> memory]

ReadsMemory(p) == \E i \in DOMAIN p : p[i].name = "RDA"

\* An instruction that is come to again by steps back looks as it did when it
\* was first shown for the same input, but for the LFOs: as long as the program
\* does not read what State.Copy leaves out.
ReplayIsExact ==
  stage = "shown" /\ ~ReadsMemory(prog) /\ previousStates[state.IP].ADCL = state.ADCL
    => [state EXCEPT !.osc = 0] = [previousStates[state.IP] EXCEPT !.osc = 0]

\* Every SKP lands at the end of the program or before it, every register is one
\* that is in use.
Regular(p) == \A i \in DOMAIN p : /\ p[i].name = "SKP" => i + p[i].n <= Len(p)
                                  /\ p[i].name # "UNUSED"

\* No key, in no order, brings the debugger down, if the terminal has eight lines
\* and the program jumps within itself and uses only registers that there are.
SessionSurvives == stage = "panic" => terminalHeight < 8 \/ ~Regular(prog)

\* The search for an earlier snapshot ends, whatever was skipped or stepped back to:
\* it relies on a snapshot of the first instruction whenever another one is shown.
SearchEnds == stage # "hang"

\* The emulator comes back from every key, every sample and every skip to the
\* keyboard, or ends.
Responds == stage # "wait" ~> stage \in {"wait", "done", "panic"}

\* debugger/ui.go:214, "Previous instruction (within current sample)".
StepsBackWithinSample == stage \in {"top", "shown", "wait"} => state.ADCL = sampleNum + 1
=============================================================================
