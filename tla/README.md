# A verification development for fv1emu

fv1emu is an emulator of the Spin FV-1 audio processor. It reads a program of
32-bit words and a WAV file, runs the program once per sample on a 32-bit
fixed-point machine with a delay RAM and four oscillators, and writes a WAV
file, optionally under a terminal debugger. This directory holds TLA+ modules
that model the machine, TLC configurations that check them on small instances,
and TLAPS proofs about them for every instance.

Paths below are relative to `src/`. Everything in the emulator runs in one
goroutine; there are no locks, channels or persistent state. What is hard about
it is numeric (fixed-point conversions in both directions, values that leave 24
or 32 bits), modular (a pointer that moves under the program's addresses),
stateful over many samples (frozen oscillator values, state left by an
instruction that fails half-way), and, in the debugger, re-entrant (callbacks
that rewind or replace the state of the call they are made from).

## Inventory

| Component | State | Operations | What makes it correct |
|---|---|---|---|
| Fixed-point registers, `dsp/register.go` | an `int32` per register | add, subtract, multiply with clamp; abs, logic without; conversion from and to 24 bits and floats | values stay in 24 bits when the clamp is on; what is stored in 24 bits is read back unchanged; no assertion fails |
| Oscillators, `dsp/oscillators.go` | phase and rate of two sines, value and rate of two ramps | `Update`, `SetFreq`, `Reset`, `GetSine`, `GetCosine`, `GetValue` | in range for the assertions of their readers; the same number of ticks in every sample |
| Sample processor, `dsp/funcs.go`, `dsp/state.go` | `IP`, `ACC`, `PACC`, `LR`, `RUN_FLAG`, delay RAM and its pointer, 64 registers, frozen LFO values, debug flags | `ProcessSample`, `GetLFOValue` and its relatives, `capDelayRAMIndex`, `CheckForOverflows`, `Reset`, `Copy` | the RAM and the pointer are a delay line; pointer and run flag count complete passes only; the call ends |
| Instruction set, `dsp/instructions.go`, `dsp/CHO_*.go` | none of its own | one handler per instruction, error returns and panics | each handler reads and leaves what it should; no reachable panic for instructions that are not documented to have one |
| Decoder, `dsp/decode.go`, `base/` | none | `DecodeOp`, `DecodeOpCodes`, use scans | every operand of every word lands in its field; aliases are recognised and hide nothing; a program ends at its end |
| Emulator main program, `fv1emu.go` | sample number, output list, statistics | loading a program, chunked main loop, `processSample`, trail, statistics | every input sample gives one output sample, in order; stop and trail conditions; counters agree |
| Debugger session, `debugger/debugger.go`, `debugger/ui.go`, callbacks in `fv1emu.go` | snapshots by IP, skip count, last state shown | register, previous op, next op, next n samples, quit | watching changes nothing; stepping back restores a state the program was in; skipping n shows the n-th sample |
| Debugger views, `debugger/ui.go`, `debugger/memory.go` | cursor, current screen | drawing | indices within what is drawn (modelled); layout and text (not modelled) |
| Readers, `reader/` | none | cut bytes into words | all words, in order |
| WAV writer, `writer/` | samples written | `Stream` | all samples, once |
| Disassembler, `disasm/` | none | text of an instruction | not modelled |
| Settings and command line, `settings/`, `fv1emu.go` | global variables, set once | parsing | the ones that matter are CONSTANTS or chosen in `Init` |
| Utilities, `utils/`; examples, `programs/` | none | assertion, formatting | an assertion is a panic; formatting is not modelled |

Interactions are calls: `main` calls `processSample`, which puts a sample in the
ADC registers and calls `ProcessSample` with two callbacks; that ticks the
oscillators, calls the instruction's handler through `opTable`, and calls back
the debugger, which may overwrite the state (`State.Copy`) or set the skip count
that `ProcessSample` and `processSample` both read. A handler's error ends the
call; `main` then goes on to the trail, which calls again with the state that
was left.

The parts of a run of the emulator, and the modules that have them:

    program file --> Loader (Decoder) --> instructions --> Processor (Oscillators, FixedPoint)
                                                             ^ one call per sample
    WAV input ----> Emulator (main loop, trail) -------------+----> Emulator (WriteStreamer) --> WAV output
                    Debugger (main loop and ProcessSample with -debug, keys)

## Modules

| Module | Models |
|---|---|
| `FixedPoint` | `Register`'s arithmetic and conversions. A value is the integer an `int32` holds; `One` is 1.0 (2^23), `Word` is 2^31. `\div` is the arithmetic shift, `%` the mask. |
| `Oscillators` | the four oscillators and what `dsp/funcs.go` makes of them (sampling, freezing, half-cycle offset, crossfade, scaling). |
| `Processor` | `ProcessSample`, `State` and every handler of `opTable`. |
| `DelayLine` | abstract: a line of cells addressed from 0 whose contents move up one address when a sample is completed, and then have to, and a program that asks it to read or write at an address. No pointer, no masks. |
| `Emulator` | `main` of `fv1emu.go` from the input stream to the output file, with `WriteStreamer`; a call of `ProcessSample` is one step with three outcomes. |
| `Debugger` | the same loop and `ProcessSample` with `-debug`: the callbacks, the snapshots, the skip count and the keys, over instructions of seven kinds. |
| `Decoder` | `base.Ops`, `DecodeOp` and the scans for pots, ADCs and DACs, as operators; the words are whole 32-bit words. |
| `Loader` | from the program file to the instructions: the check of `-prog`, `ReadBin`, `ReadHex`, the choice of the program, `DecodeOpCodes`, what `main` reports. |
| `MCProcessor`, `MCEmulator`, `MCDebugger`, `MCLoader` | values of the constants, lists of programs and files for TLC. |
| `ArithmeticProofs`; `ProcessorProofs`, `ProcessorSafety`, `ProcessorValues`, `ProcessorPanics`; `EmulatorProofs`; `DebuggerProofs`; `LoaderProofs` | theorems and proofs: facts about numbers, and one or more modules for each component. |

### How Processor corresponds to the code

`Init` is `State.Reset` on a new state, with any program of `Programs`. A step is
one turn of the loop of `ProcessSample`: LFO updates, one handler, `IP += 1`, the
overflow check. This is all one action because nothing can see the state in
between (the callbacks that could are the debugger's). The common part is
`Continue`, `Fail` (the handler returned an error, the call returns false with
`IP` where it was) and `Crash` (an assertion or an index panics). Each handler is
an action; a handler with an error return or a panic has a second one, with the
negated guard. `StartSample` is the part of `processSample` before the call;
`EndProgram`, `PadCycle` and `EndSample` are what follows the loop.

`phase` says where the call is: `idle` (returned true, or none made), `exec`,
`pad`, `failed`, `panic`. `sampleNum` counts calls, and `completed`, those that
returned true, and `ticks`, LFO updates, are history variables.

After a call that returned false `main` leaves its loop, and the trail may go on
with silent samples; when one of those fails too the trail ends. `StartSample`
has exactly these calls: after a failure only <<0, 0>> comes in, and after a
second one nothing. That is why the model may stop, and the runs do not check
deadlock: it stops at `MaxSamples`, after two failures, and after a panic.

Abstractions of `Processor`:

- Floats (LFO values, crossfades, LOG and EXP) are multiples of 1/`One`, rounded.
  0.99999 in `SetClampedFloat64` is `One - 1`. `Log2` and `Exp2` are constants.
- A sine's phase is one of `Period` positions of `SineTable`; the code's phase is
  a float that grows and is reduced by `math.Sin`. The cosine is the sine a
  quarter of a period later.
- An overflow counter or an invalid-value flag is a member of `flags` once it has
  been raised; how often is not kept.
- Operands are already what `SetWithIntsAndFracs` makes of them.
- The amplitudes kept by the oscillator structs are left out: no code reads them.
  So are the minima and maxima of `DebugFlags`, which are only printed.
- The two assertions on LFO values in `GetLFOValue` cannot fail by the types of
  the ramps and are not actions.
- The debugger's callbacks and the skip count are in `Debugger`: `Processor` is the
  program run without `-debug`.

### How Emulator corresponds to the code

The main loop is `ReadChunk` (a new slice, the stream fills what it can, the count
is dropped), `ProcessInput` once for each element of the slice, and `EndOfInput`;
`Stops` is the condition for leaving it. `BeginTrail` decides on the trail,
`TrailSample` is one turn of its loop. `SaveAsWAV` goes on to the encoder also with
an empty result (`len(samples[0])` is the length of an array type and reads no
element), which makes an empty file.
`Stream` is one call of `WriteStreamer.Stream` with the encoder's reaction. The
encoder and the input stream are external, from the beep library: the stream
returns false only when nothing is left, the encoder asks for a buffer at a time,
writes what it gets together with a true and ends at a false.

Samples are not values but origins: a sample of the input is a channel, a number
and whether it went through the pre-gain (the right sample of a mono input did
not), a sample of the output the number of its call. `calls` is history: what
the ADC registers held in each call, and whether it returned true. `statistics` is
the part of `WavStatistics` that counts: samples, clips and the first clip, of one
channel; which samples clip is chosen with the job, since it depends on the
program. Post-gain, mutes and the minima, maxima and means of the statistics are
left out; the model is of runs without `-debug`.

The two modules meet at `ProcessSample`. `Emulator` lets a call return true, false or
panic at any time, and its fairness, that `main` goes on, includes that the call
comes back, which is `EverySampleEnds` of `Processor`. `Processor` in turn lets its
caller continue after a failed call only with silence and up to a second failure,
which is `SilentAfterFailure` of `Emulator`.

### How Debugger corresponds to the code

`stage` is where the one thread is. `StartCall` is `processSample` up to the call
(`idle` to `top`); `TurnUnseen` is a turn of `ProcessSample`'s loop without the
debugger's callbacks; with them a turn is cut at the points where the debugger
sees the state: `Show` (LFO updates, `DebugPreFn`: snapshot and screen), `Apply`
(the handler, up to `WaitForInput` in `DebugPostFn`), and the key that completes
it. `EndCall` is what follows the loop. Each key is an action: `NextOp`,
`PreviousOp` (with the unsigned search for a snapshot and `State.Copy`),
`SkipSamples`, `Quit`, `MoveCursor`, `ToggleScreen`, `ToggleFloats`, `Resize`; the
last four redraw, which is where views can panic (`DrawPanics`).

An instruction is known by what it reads and writes, because that is what decides
whether a snapshot is enough: `state` is what `State.Copy` copies (ACC stands for
the registers, `osc` for the oscillators as a count of ticks), `memory` what it
leaves out (delay RAM, frozen LFO values, rates), `nilRegs` what it destroys: the
entries of unused registers become nil and panic when used. A value is a sum of
input samples, modulo `Values`; the input of sample n is n + 1. `asked` and `seen`
are history: the sample to be shown next and the last one shown.

`hang` is the search for an earlier snapshot that counts an unsigned number down
past zero; `Responds` shows that it is not reached.

### How Decoder and Loader correspond to the code

`Decoder` has no state. A word is an `int32`, bits are cut with `\div` (Go's
arithmetic shift) and `%` (its mask); the masks of AND, OR and XOR are cut by the
shift alone and keep their sign, as in the code. `Alias` is the list of special
cases of `DecodeOp` in their order, the comparison of XOR's signed mask with a
positive constant, which never holds, included.

In `Loader` a BIN file is its bytes; the last slice panics if they are not whole words.
A HEX file is its lines, each as `ReadHex` takes it apart: the number found at the
place of its type, the bytes its digits were read as, and what is wrong with it.
Addresses and checksums are not looked at by the code, and neither is the length of
a line before it is resliced, so that what is found in a short line may lie behind
it in the buffer of `bufio`: a line too short for its type still has one (only at
the end of the buffer it has none and panics, `"cut"`), a line too short for its
data panics only if it is a data record (`"short"`). `Sscanf` takes pairs of digits
up to the first character that is none: with no pair or half of one that is an
error (`"garbled"`), after a pair it is the end of a record with fewer bytes than
its count says, which is accepted.
`ReadBin` is one action, `ReadHex` one per line (`ReadRecord`, `EndHex`)
and one for the cutting into words (`CollectChunks`, with its `- 4`), because the
errors and panics come line by line. `ChooseProgram`, `DecodeOpCode` (one turn of
`DecodeOpCodes`, the fuse included), `EndOfProgram` and `Report` are `main`. Every
outcome but `run` is a refusal (main prints and returns) or a panic.

## Runs

Every run of `Processor` has 1.0 = 16 and an `int32` of -128 .. 127, so a value can leave 24
bits by three bits before it wraps, and every conversion loses something. The
proportions that matter are kept: a register write shifts, ramp rates reach twice
as far up as down, WLDR's amplitudes are four powers of two.

| Run | Question | Bounds, and why they are enough |
|---|---|---|
| `instructions` | Do the fixed RAM and the moving pointer implement a delay line, that moves with every completed sample and only then? Do addresses within the RAM never fault? Are failed calls not counted? Does anything overflow with the clamping on, without the logical instructions? Can an instruction that is not misused panic? Does every call end? | RAM of 4 cells, 5 samples: the pointer wraps and goes on. Programs of a write, a read or a SKP and another read, RMPA with an address from ADDR_PTR (+1.0 among them), and two whose addresses lie past the RAM and fail at some pointer positions only. All pairs of 23 instructions between a load and a store, coefficients at both ends of their range, inputs at -1.0, 1.0, 0 and inside; a sample has 3 cycles and most programs 4 instructions or more, so calls without padding happen. 348,513 states. |
| `lfo` | Is a sample always the same time for the LFOs? Do sine and cosine freeze together? Are taps moved by LFOs reads of the delay line? What panics? | Every CHO instruction with each of the 64 sets of flags, on a sine and a ramp, with rising and falling ramps, after a REG of the same or of another LFO; set-up in the first sample only, skipped later; RANGE registers written by WRLX. ACC of either sign and of +1.0 to every LFO register. One program of eleven instructions with nine cycles per sample. 3 samples, RAM of 8 cells. 589,560 states. |
| `unclamped` | Is what comes out of the delay line the low 24 bits of what went in, sign and all, with `Disable24BitsClamping`? | Two doublings take inputs past 24 bits and near the wrap, into the RAM, ADDR_PTR and the LFO registers. `AllowAllChoRdalFlags` is off here. 132,799 states. |
| `emulator` | Does every sample get from the input to the encoder, once and in order? Is the result as long as was asked for? Do the counters agree? What is processed after a failure? | Chunks of 4, buffers of 2 (1024 and 512 in the code: two buffers to a chunk); inputs of none, less than one, one and two chunks; `-stop-at` off, within, at the end of and beyond the input; trails of 0, 1 and 3; clips at the first, a later and several samples; any call may fail or panic. 49,760 states. |
| `debugger` | Is what is shown what was asked for? Does watching change what is computed, does a replay after a step back repeat it? Which keys can bring a session down or hang it? | 4 samples, 3 cycles per sample, `-skip-to` 0 and 2, skips of 1 and 2 samples (a skip within and past what is left), 3 cells with a cursor that moves by 1 and 2, terminals of 7 and 9 lines around the limit of 8. Seven programs: straight, with a delay, with a SKP that is taken after the first sample only (so that an instruction may have no snapshot), jumps to the end and past it, an unused register, an error, more instructions than cycles. 566,764 states; snapshots are few, since each IP has one. |
| `loader` | Does every operand land in its field, sign and all? Is what runs what the file says, up to the program's end? | Words of all 32 opcodes with every bit alone set, alone clear, and alternating; images of up to six words (two instructions to a program, so three programs and the two words past the fuse); HEX files of none to six words in records of 2 to 16 bytes, after address records or a data record cut off by a bad digit, before ends, short, garbled and cut lines; `-prog` -1, 0, 1, 2 and 8. 192,471 states. |
| `clamp_escape`, `channels`, `trail`, `step_back`, `one_program`, `hex_chunks` | Six statements of comments and help texts. | Refuted: see Findings. |

Fairness. `Processor`: weak fairness of the steps of a call in progress, a loop in
the only thread; nothing is assumed about the arrival of samples. `Emulator` and
`Loader`: weak fairness of `Next`, `main` goes on. `Debugger`: weak fairness of
`Emulate` only; no key is ever assumed to be pressed.

Deadlock is not checked where the system ends: after its last sample, a refusal, a
panic or `Quit`.

### Properties of Processor

- `TypeOK`: each variable holds what its Go counterpart can hold; it includes that
  `LR` is a 24-bit value again, the pointer is within one turn, and no oscillator
  holds a rate or a value that a later assertion would reject (ramps).
- `ImplementsDelayLine`: the refinement `Processor => DelayLine` with the line's
  cell `a` the sign-extended RAM cell at `(a + DelayRAMPtr) & (size - 1)`, the last
  value read `LR`, and the request what the next instruction asks for, at the
  program's own address and with the low 24 bits of ACC as a signed number. Every
  request is served at that address or refused for good. When the sample is complete
  the request is to move the line, which nothing else answers and nothing else does;
  the line cannot stand still then. It fails when the pointer wraps late (at the
  size of the RAM the remainder is 0, and the line does not move in that sample),
  an address is used without it, or a conversion loses a sign.
- `PassesCounted`: run flag and pointer are functions of the number of complete
  passes; a failed call counts for neither.
- `NoMemoryFault`: in a saturating program addresses below the size of the RAM never fault, though the
  test is made after the pointer was added. RMPA's address is the program's own
  computation and can be exactly the size of the RAM (ABSA of -1.0 sent to
  ADDR_PTR), so the property depends on the test being `>` and not `>=`.
- `Saturating` is the precondition of three properties: the clamping is on and the
  program has no AND, OR, XOR or NOT. These four bypass the clamp, so that ACC can
  hold anything an int32 can; what follows from that (overflows counted, RMPA past
  the RAM, conversions that panic) is what the code does, and nothing is claimed of it.
- `NoOverflowReported`: the overflow flags of a saturating program stay down.
- `NoPanic`: in a saturating program only the instruction at hand brings the emulator down, and only by a
  misuse of its own, listed in `Misuse`: a LOG of zero without a coefficient, WRAX
  of a value a ramp's RATE or RANGE cannot take, flags of the other kind of LFO, a
  sine's complement as a factor, complements of a ramp that was complemented or
  whose RANGE the program stored with WRLX or WRHX as it was, and a tap past the
  end of the RAM. No earlier instruction leaves an oscillator, a frozen value or a
  register behind over which a later one, or the padding, panics.
- `LfosKeepTime`: the LFOs have ticked exactly the cycles of the completed samples,
  and less than one sample more for each failed call, whatever was skipped.
  Programs longer than a sample's cycles, which the decoder lets through, take
  longer and are excluded by its premise.
- `FrozenTogether`: the frozen sine and cosine come from the same phase.
- `EverySampleEnds`: a call that began ends.
- `CallsShorten`: each of its steps leaves fewer of them (`TurnsLeft`): no instruction
  jumps back, and the padding counts every cycle, also from beyond its limit on.

### Properties of Emulator

- `InputIsHeard`: calls get the samples in order across chunks, then silence, never
  the remains of an earlier chunk; all of them unless the loop was stopped; with
  the pre-gain, but for ADCL with a mono input.
- `SilentAfterFailure`: see above.
- `CountsAgree`: statistics, register dump and result count the same samples, but
  for a last trail call that failed.
- `ClipsReported`: clips of the main loop are counted, and the first one named is
  the first, but for sample 0: `FirstClipSample == 0` is both "none yet" and a
  sample, and the next clip takes the name.
- `LengthAsAsked`: without a failure the result has `-stop-at` samples, or those of
  the input, filled up to whole chunks, if these are fewer; only then, and only if a
  `-stop-at` asked for more, the trail comes on top, and all of it.
- `HandedOverOnce`: `WriteStreamer` hands over every sample once, in order; the file
  lacks the last buffer, at least one sample if there are any, because `Stream`
  returns false with samples in the buffer.
- `Finishes`: `main` comes to an end.

### Properties of Debugger

- `ShownAsAsked`: sample n of `-skip-to n`, and the n-th after the one where "next n
  samples" was pressed, is the next that is shown, and it is shown. The count is
  kept in two places (the loop's condition for passing the callbacks, and
  `ProcessSample`'s own test and decrement); an off-by-one in either breaks it.
- `WatchingIsHarmless`: as long as no step back was taken every sample leaves the
  emulator as a run without the debugger would (`Plain`, computed by recursion over
  samples and turns), the LFOs included, whatever was skipped, shown or stepped.
- `ReplayIsExact`: an instruction reached again by steps back is in the state it was
  first shown in, for the same input, but for the LFOs (the ticks of the steps taken
  are not undone). Programs that read the delay RAM, which `State.Copy` leaves out, are
  excluded: of those nothing is claimed.
- `SessionSurvives`: no key in any order panics, but in a terminal of fewer than
  eight lines, or with a program that jumps past its end or uses a register that
  `NewState` does not make (after a step back its entry is nil).
- `SearchEnds`: the search for an earlier snapshot is never made without one. It relies
  on the first instruction of the program having been shown before any other, which
  the skips and the order of callbacks see to.
- `Responds`: the keyboard is reached again, or the session ends; no hang.

### Properties of Loader

- `LoadsInOrder`: the words that are decoded are the file's bytes from the first on,
  four to a word in their order, however records cut them up and whatever records of
  other types lie between: all of a BIN, and of a HEX every word that has a byte
  behind it. (That the one without is lost is `hex_chunks`.)
- `LoadsUpToEnd`: what runs is the words from the chosen program's place up to the
  first SKP 0, the end of the buffer or the fuse, whichever comes first.
- `Reassembles`: the operands of every instruction, put back by the assembler's
  layout (`Encode`, not derived from the table of lengths), are the word it came
  from. No two fields overlap, none is cut and none takes another's sign. Every
  instruction can be executed, or has an unused opcode or CHO's subcommand 01.
- `UseReported`: what `main` reports of pots, ADCs and DACs is used by some word, to
  its bits, and what is used is reported, unless every word that uses it is one the
  scans overlook (WRHX, WRLX, MAXX, RDFX with a coefficient). No alias hides an instruction from the scans or shows
  them one that is not there.
- `Loads`: every file is run or refused, or panics, and only one with odd bytes, a
  data record too short for its count or a line without a type panics.

For every property of a passing run the module has a mutant, a definition with a
plausible mistake marked `Mutant:`, with which the run finds the property
violated; `PROJECT.json` pairs them.

### Findings

`clamp_escape`: `settings/settings.go:56-58` says that all values are clamped to
24 bits. `Abs` (`dsp/register.go:202-208`) does not clamp, so ABSA of -1.0 leaves
0x800000 in ACC, one more than 24 bits hold. The run has only inputs below +1.0,
which are 24-bit values themselves. +1.0 is still accepted by `SetFloat64` and by
the overflow counters (both include 1.0), so nothing else notices, and
`NoOverflowReported` holds with `Unit`, the closed interval.

`channels`: `base/op.go:107` and the debugger's help call ADCL the left input.
`main` passes left and right to parameters named `inRight` and `inLeft`, so ADCL
holds the right channel of a stereo input; outputs are not swapped back.

`trail`: `-trail` is an "additional trail length", but its condition
(`fv1emu.go:405-406`) also asks for a `-stop-at` that was not reached. With the
default settings no trail is ever added.

`step_back`: the debugger's help (`debugger/ui.go:214`) says "Previous instruction
(within current sample)". A snapshot is taken only the first time an IP is seen in
the session (`debugger/debugger.go:22-26`), so in a later sample a step back brings
back the registers of the first sample that was shown, its input included.

`one_program`: `-prog` chooses one program of a file of several
(`fv1emu.go:90-91`), 128 words apart. The fuse (`dsp/decode.go:98-101`) blows after
the instruction was appended and one later than it could: a program that fills its
place and has no NOP or SKP 0 gets the first two instructions of the next one.

`hex_chunks`: `reader/reader.go:87` says "Collect all 32bits chunks", and the loop ends
with four bytes left (`i < len(bytes) - 4`): a HEX file of whole words loses its last
instruction.

Noticed while translating, and not the subject of a run. For the first two a property
states what the code does instead, so that it is these statements that are wrong:

- `settings/settings.go:45` says of `-stop-at` "Only process N-samples". The trail comes
  exactly when the input ended before that sample, and its loop (`fv1emu.go:410-425`)
  does not look at it: four samples of input, `-stop-at 6` and a trail of three make
  seven (with chunks of four). `LengthAsAsked` has this length.
- `main` prints "No ADCs in use. The program takes no input." (`fv1emu.go:598`) and "No
  DACs in use. The program will generate no sound." (`fv1emu.go:585`) by scans that
  know RDAX, LDAX and MULX (`dsp/decode.go:145`) and WRAX (`dsp/decode.go:130`). It says
  so of programs that read an ADC with RDFX or MAXX and of those that write a DAC with
  WRLX or WRHX. These are `Overlooked` in `UseReported`.
- `base/op.go:31` gives XOR a signed mask that `dsp/decode.go:76` compares with
  0xFFFFF8: NOT is never decoded (an XOR with -1 does the same).
- `reader/reader.go:79`: a record with a bad character after its first pair of digits
  is accepted with the bytes before it, and all later words shift.
- `dsp/instructions.go:71-98,287-302`: the results of AND, OR, XOR and NOT are not
  clamped either, and MAXX uses `Abs` too.
- `dsp/register.go:127-134`: `SetFloat64` accepts +1.0, so an input of +1.0 is one past
  24 bits from the start.
- `fv1emu.go:79`: the pre-gain is not applied to the right sample of a mono input.
- `fv1emu.go:174,203`: a first clip at sample 0 is reported as a later one, or not
  as a clip.
- `debugger/ui.go:463,465`: the third column of the register view shows the value of
  the next register; line 268 shows SIN1 with the range of SIN0.
- `dsp/register.go:150-152`: a mask with bit 23 set is negated, not sign-extended.
- `dsp/state.go:20` says that RUN_FLAG is only TRUE in the first run; it is FALSE
  then and TRUE after.

## Proofs

All proofs are for every value of the constants that satisfies the named
assumptions of the modules: for `Processor`, among others, that a word has at
least eight times the range of 1.0, programs are sequences of instructions, the
special registers exist, ramp amplitudes fit a word, and the bitwise, logarithm
and exponential operators have results of their type. `ScaleAssumption` adds what
the code's shifts and limits keep to and `NoPanic` and `NoMemoryFault` depend on:
ADDR_PTR at 1.0 is at most the size of the RAM, ACC at 1.0 is a rate of a ramp's
and of a sine's range. TLC evaluates all assumptions in every run.

- `ArithmeticProofs`: what the others share. `DivMod` and `ModUnique` are the
  existence and uniqueness of quotient and remainder; `Induct` is induction on the
  numbers, stated for a set (from the least element of a set, which the library
  has), and `Iteration` the existence of a function defined step by step.
- `ProcessorProofs`: `TypeCorrect == Spec => []TypeOK`. `TypeOK` is inductive. There
  is a lemma for each group of handlers and one for each thing a handler computes
  (`RampStepType`, `LfoValueType`, `RdaIndexType`, ...); `NextType` collects them.
  Also here, about single operations of `FixedPoint`: `StoreRoundTrip` (a 24-bit
  value survives a delay cell), `SaturatingSum` (sums of values in [-1.0, 1.0] are
  exact up to saturation, the int32 never wraps on the way) and `ClampedResults`
  (Add, Sub and Mult return 24 bits, whatever they are given).
- `ProcessorSafety`: `PassesAreCounted`, which is inductive given the types; the
  step that matters is `EndProgram`, where the next remainder is either one more
  or 0. `LfosDoKeepTime`, from the stronger `TimeInv`: `ticks` is the completed
  samples' cycles, those of the call in progress, and what failed calls left, less
  than a sample each; within the loop `cycles <= IP` and `cycles <= Len(prog)`.
  Both bounds are needed: a SKP moves IP on without spending cycles, possibly past
  the end. `CallsDoShorten` needs the types only.
  `DelayLineImplemented == Spec => ImplementsDelayLine`: `Line` is the mapping of the
  cells. A write at an address changes exactly the cell of that
  address (`CellsDiffer`: two addresses within the RAM never share one), stores
  what the request says (`StoredValue`), and moving the pointer shifts the line by
  one address (`ModShift`), at every completed sample; every other handler is a
  stutter or a read.
- `ProcessorValues`: `FrozenAreTogether`, inductive given the types (`Freeze` takes
  both values of an oscillator or neither). `SaturatingNeverOverflows`, from
  `UnitInv`: in a saturating program (clamping on, no AND, OR, XOR or NOT) ACC,
  PACC, LR and all registers lie in the closed interval [-1.0, 1.0]. The half-open one is not inductive: `Abs` leaves 1.0, which is
  `clamp_escape`. `SaturatingNeverFaults` follows from `UnitInv`, by the bound on
  ADDR_PTR.
- `ProcessorPanics`: `SaturatingPanicsAreMisuse`, from `UnitInv` and `CalmInv`: sine rates are
  within what `Update` accepts and frozen ramp values are not negative, so every
  later conversion succeeds. The attempt at this proof is what found the misuse of
  RANGE by WRLX and WRHX: WRAX cuts what it stores there, they do not, and CHO RDA's
  complement of a ramp is then out of range. `Misuse` and a program of the `lfo` run
  now have it.
- `EmulatorProofs`: the types and the other safety properties of `Emulator`.
  `TypeInv` adds where in the chunk and the result each stage is. `LoopInv` relates
  `calls` to the stage: in the main loop all have returned true and `-stop-at` is
  ahead; the trail is entered before it, and only its last call may fail. `InputInv`
  says that the chunk at hand is the part of the input that is due, with zeros behind
  its end, and that the stream stands behind it. `FileInv` says that before each call
  of `Stream` what was handed over and written are the first `samplesWritten` samples
  of the result. `LengthIsAsAsked` needs `LengthInv` besides: chunks begin at multiples
  of their length, so that the loop's end is the padded input or `-stop-at`, and in
  the trail the calls made and those left are the whole of it. The proof of
  `ClipsAreReported` showed that an earlier `ClipsReported` accepted a first clip that had never
  clipped; it now says which sample the name is of.
- `DebuggerProofs`: `SessionsSurvive`, from `SessionInv`: the types, of the snapshots
  too, and that the instruction being shown or waited at is in the program: in a
  regular program a handler does not jump past the last instruction plus one, so
  the redraw after it indexes the program within bounds. `WhatIsAskedIsShown`, from
  `AskedInv`: between samples the sample asked for is the current one plus those
  left to skip; within one, none are left if it is being shown, and if it is not
  yet, its first instruction is next. A step back cannot disturb this because it
  happens only in a sample that is already shown.
  `SearchesEnd`, from `AskedInv` and `FirstShown`: a session that was shown anything
  has a snapshot of IP 0, because what is shown first in a sample is its first
  instruction.
  `WatchingChangesNothing`, from `HarmlessInv`: between samples the state is
  `Plain[sampleNum]`, and within one it is a turn of the plain call (`Ahead`, an
  iteration that stands still once the call has ended) or one handler ahead of it,
  where the screen is shown. `Plain` is a function defined by recursion over samples,
  each of them a recursion over turns; `PlainUnfold` and `TurnsUnfold` give both
  their equations, by induction.
  `ReplaysAreExact`, from `ReplayInv`: for each input there is one path of states,
  each made by one turn from the one before, and every snapshot taken for
  that input, and the state while it has that input, lies on it. A path visits an
  IP once, because a turn only moves it up, so two visits of one IP are one state.
  `Bare` takes the LFOs out of the states, and the paths exist only for programs that
  do not read the delay RAM, because that is what a snapshot lacks.
- `LoaderProofs`: `LoaderTypes`, `BytesInOrder`, `ProgramsEnd`, `ReportsUse` and
  `WordsReassemble`. All rest on `LoadInv`, whose parts are what each stage has
  established: `Reading` (the bytes read are those of the data lines read, one after
  the other, none of which ended the file), `Loaded` (the file was chosen by a valid `-prog`) and
  `Decoding` (instruction i is the decoded word i places from the program's, and that
  word is no end). `FlattenSeq` of one more line appends its bytes (`FlattenAppend`, from
  the library's folds by induction), and the lines before an end record are all that
  were read (`BodyIs`); a word gives back the four bytes it was made of (`WordBytes`).
  `WordsReassemble` is about each of the 2^32 words. For each layout the word is split
  into its fields by repeated division (`DivMod`), each field is shown to be put
  back in its place by `Placed`, the top one with the sign of the int32, and the
  sum is the word without its unused bits. `OpcodeBack` is the other half: whatever
  alias the operands gave the instruction, its name still tells the opcode.
  `ReportsUse` needs the same about names: LDAX is exactly the RDFX whose
  coefficient is zero, and the only alias that the scans have to know.

Of a file nothing is assumed but its shape (`LoaderAssumption`). `Int32` is written as a condition on integers and not as an
interval, which says the same and keeps the provers from enumerating it.

Model-checked only: `EverySampleEnds`, `Finishes`, `Responds` and `Loads`, which are
liveness under fairness and beyond the prover. Every other property of a
passing run is a theorem.

## Not modelled, and why

- The disassembler (`disasm/`): it formats decoded instructions and keeps no state.
- Layout and text of the debugger's screens; only what can panic while drawing.
- `ReadWAV`, creation of files and profiling: I/O around the beep library.
- Post-gain, mutes and the value statistics of `main`: arithmetic on output floats
  that nothing reads back.
- Parsing of the command line, but for the check of `-prog`: it is over before
  anything runs. The number formatting of `utils/`.
- Example programs and scripts.

## Plan

Done: all modules above, the twelve runs, and a theorem for every safety property
and for the refinement.

What is left, should it be taken further: measures like `TurnsLeft` for the loops of
`main` and of the reader, so that only fairness is left to assume there too, and a
joint model of `Debugger` over `Processor` in place of the seven kinds of
instructions, which the state space of `Processor` forbids for TLC at present.
