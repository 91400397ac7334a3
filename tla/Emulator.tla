------------------------------ MODULE Emulator ------------------------------
(***************************************************************************)
(* main of fv1emu.go from the input stream to the output file, without the *)
(* debugger: the loop that reads the input in chunks, the trail, the       *)
(* counters, and WriteStreamer, from which the WAV encoder takes the       *)
(* result.  ProcessSample is the step of Processor's calls: it returns     *)
(* true, returns false or panics.                                          *)
(*                                                                         *)
(* A sample of the input is its channel, its number (0 is silence) and     *)
(* whether it has the pre-gain.  A sample of the output is the number of   *)
(* the call it is from; the statistics are those of one channel.           *)
(***************************************************************************)
EXTENDS Integers, SequencesExt

CONSTANTS
  Jobs,        \* the inputs and the settings that may be given
  ChunkLen,    \* samples read at a time: 1024
  BufferLen    \* samples the WAV encoder asks for at a time: 512

Job == [input  : Nat,        \* samples in the input
        stereo : BOOLEAN,
        stopAt : Int,        \* StopAtSample
        trail  : Nat,        \* TrailSeconds, in samples
        clips  : SUBSET Nat] \* samples whose output is above 1.0, from 0 on

ASSUME EmulatorAssumption ==
  /\ Jobs \subseteq Job
  /\ ChunkLen \in Nat \ {0} /\ BufferLen \in Nat \ {0}

VARIABLES
  job,
  stage,           \* where main is
  pos,             \* samples taken from the stream
  chunk, next,     \* samples, and the one whose turn it is
  sampleNum,       \* samples the main loop has processed
  trailLeft,       \* trail samples to come
  outSamples,
  statistics,      \* WavStatistics
  rows,            \* rows written to the register dump
  samplesWritten,  \* WriteStreamer.SamplesWritten
  handed,          \* samples WriteStreamer has put into the encoder's buffers
  file,            \* samples the encoder has written
  calls            \* history: the calls of ProcessSample that returned

loopVars  == <<pos, chunk, next, sampleNum>>
writeVars == <<samplesWritten, handed, file>>
callVars  == <<outSamples, statistics, rows, calls>>
vars == <<job, stage, loopVars, trailLeft, callVars, writeVars>>

Stages == {"read", "process", "trail?", "trail", "save", "write", "done", "panic"}

Init ==
  /\ job \in Jobs
  /\ stage = "read" /\ pos = 0 /\ chunk = <<>> /\ next = 1 /\ sampleNum = 0 /\ trailLeft = 0
  /\ outSamples = <<>> /\ rows = 0 /\ calls = <<>>
  /\ statistics = [NumSamples |-> 0, Clipped |-> 0, FirstClipSample |-> 0]
  /\ samplesWritten = 0 /\ handed = <<>> /\ file = <<>>

-----------------------------------------------------------------------------
(* Main loop *)

\* Mutant: the slice is not a new one for every chunk.
ReadChunkReused ==
  /\ stage = "read" /\ pos < job.input
  /\ chunk' = [k \in 1 .. ChunkLen |-> IF pos + k <= job.input THEN pos + k
                                      ELSE IF chunk = <<>> THEN 0 ELSE chunk[k]]
  /\ pos' = IF pos + ChunkLen < job.input THEN pos + ChunkLen ELSE job.input
  /\ next' = 1 /\ stage' = "process"
  /\ UNCHANGED <<job, sampleNum, trailLeft, callVars, writeVars>>

\* Mutant: the stream is taken to have filled the slice.
ReadChunkUncapped ==
  /\ stage = "read" /\ pos < job.input
  /\ chunk' = [k \in 1 .. ChunkLen |-> IF pos + k <= job.input THEN pos + k ELSE 0]
  /\ pos' = pos + ChunkLen
  /\ next' = 1 /\ stage' = "process"
  /\ UNCHANGED <<job, sampleNum, trailLeft, callVars, writeVars>>

\* The stream fills as much of the slice as it can; the rest stays zero, and
\* the count it returns is ignored.
ReadChunk ==
  /\ stage = "read" /\ pos < job.input
  /\ chunk' = [k \in 1 .. ChunkLen |-> IF pos + k <= job.input THEN pos + k ELSE 0]
  /\ pos' = IF pos + ChunkLen < job.input THEN pos + ChunkLen ELSE job.input
  /\ next' = 1 /\ stage' = "process"
  /\ UNCHANGED <<job, sampleNum, trailLeft, callVars, writeVars>>

\* Mutant: an input of whole chunks never ends.
EndOfInputPast ==
  /\ stage = "read" /\ pos >= job.input /\ pos % ChunkLen # 0
  /\ stage' = "trail?"
  /\ UNCHANGED <<job, loopVars, trailLeft, callVars, writeVars>>

EndOfInput ==
  /\ stage = "read" /\ pos >= job.input
  /\ stage' = "trail?"
  /\ UNCHANGED <<job, loopVars, trailLeft, callVars, writeVars>>

\* The ADC registers for sample k of the input.  main passes left and right,
\* processSample's parameters are inRight and inLeft.
\* The right sample of a mono input is the left one as it came.
ADC(k) ==
  LET left  == [ch |-> "left", num |-> k, gained |-> TRUE]
      right == IF job.stereo THEN [left EXCEPT !.ch = "right"] ELSE [left EXCEPT !.gained = FALSE]
  IN  [ADCL |-> right, ADCR |-> left]

Silence == [reg \in {"ADCL", "ADCR"} |-> [ch |-> "none", num |-> 0, gained |-> FALSE]]

\* Mutant: every clip is the first.
UpdateWavStatisticsLast(n, clips) ==
  statistics' = [NumSamples |-> statistics.NumSamples + 1,
                 Clipped |-> statistics.Clipped + (IF clips THEN 1 ELSE 0),
                 FirstClipSample |-> IF clips THEN n ELSE statistics.FirstClipSample]

\* updateWavStatistics for sample n.
UpdateWavStatistics(n, clips) ==
  statistics' = [NumSamples |-> statistics.NumSamples + 1,
                 Clipped |-> statistics.Clipped + (IF clips THEN 1 ELSE 0),
                 FirstClipSample |-> IF clips /\ statistics.FirstClipSample = 0
                                       THEN n ELSE statistics.FirstClipSample]

\* Mutant: the sample that was stopped at is processed too.
StopsLate(ok) == ~ok \/ (job.stopAt > 0 /\ sampleNum >= job.stopAt)

\* Mutant: a failed call does not end the loop.
StopsUnfailing(ok) == job.stopAt > 0 /\ sampleNum + 1 >= job.stopAt

\* The loop ends after this sample.
Stops(ok) == ~ok \/ (job.stopAt > 0 /\ sampleNum + 1 >= job.stopAt)

ProcessInput ==
  /\ stage = "process"
  /\ \E ok \in BOOLEAN :
       /\ calls' = Append(calls, [adc |-> ADC(chunk[next]), ok |-> ok])
       /\ outSamples' = Append(outSamples, Len(calls) + 1)
       /\ stage' = IF Stops(ok) THEN "trail?"
                   ELSE IF next = ChunkLen THEN "read" ELSE "process"
  /\ next' = next + 1 /\ sampleNum' = sampleNum + 1
  /\ UpdateWavStatistics(sampleNum, sampleNum \in job.clips) /\ rows' = rows + 1
  /\ UNCHANGED <<job, pos, chunk, trailLeft, writeVars>>

\* SetFloat64 asserts that a sample is in [-1.0, 1.0], which PreGain can take
\* it out of, and ProcessSample has panics of its own.  Nothing is written then.
CallPanics ==
  /\ stage = "process" \/ (stage = "trail" /\ trailLeft > 0)
  /\ stage' = "panic"
  /\ UNCHANGED <<job, loopVars, trailLeft, callVars, writeVars>>

-----------------------------------------------------------------------------
(* Trail *)

TrailWanted == job.trail > 0 /\ job.stopAt > 0 /\ sampleNum < job.stopAt

BeginTrail ==
  /\ stage = "trail?"
  /\ stage' = IF TrailWanted THEN "trail" ELSE "save"
  /\ trailLeft' = IF TrailWanted THEN job.trail ELSE 0
  /\ UNCHANGED <<job, loopVars, callVars, writeVars>>

\* Mutant: the result of a trail call is not looked at.
TrailSampleUnchecked ==
  /\ stage = "trail" /\ trailLeft > 0
  /\ \E ok \in BOOLEAN :
       /\ calls' = Append(calls, [adc |-> Silence, ok |-> ok])
       /\ outSamples' = Append(outSamples, Len(calls) + 1)
  /\ trailLeft' = trailLeft - 1
  /\ UpdateWavStatistics(Len(calls), FALSE) /\ rows' = rows + 1
  /\ UNCHANGED <<job, stage, loopVars, writeVars>>

\* A trail call that failed is counted, but gives no sample.  The statistics get
\* zeros for its output.
TrailSample ==
  /\ stage = "trail" /\ trailLeft > 0
  /\ \E ok \in BOOLEAN :
       /\ calls' = Append(calls, [adc |-> Silence, ok |-> ok])
       /\ outSamples' = IF ok THEN Append(outSamples, Len(calls) + 1) ELSE outSamples
       /\ trailLeft' = IF ok THEN trailLeft - 1 ELSE 0
  /\ UpdateWavStatistics(Len(calls), FALSE) /\ rows' = rows + 1
  /\ UNCHANGED <<job, stage, loopVars, writeVars>>

EndTrail ==
  /\ stage = "trail" /\ trailLeft = 0
  /\ stage' = "save"
  /\ UNCHANGED <<job, loopVars, trailLeft, callVars, writeVars>>

-----------------------------------------------------------------------------
(* Output *)

\* SaveAsWAV makes the WriteStreamer and has it encoded, without any samples too:
\* len(samples[0]) is the length of an array, which is not evaluated.
SaveAsWAV ==
  /\ stage = "save"
  /\ stage' = "write"
  /\ UNCHANGED <<job, loopVars, trailLeft, callVars, writeVars>>

\* Mutant: every buffer is filled from the start.
StreamFromStart(n) == SubSeq(outSamples, 1, n)

\* The n samples WriteStreamer.Stream puts into the buffer.
Streamed(n) == SubSeq(outSamples, samplesWritten + 1, samplesWritten + n)

\* One call of WriteStreamer.Stream by the encoder, which writes what it gets
\* with a true and ends at a false without looking at the buffer.
Stream ==
  /\ stage = "write"
  /\ LET left == Len(outSamples) - samplesWritten
         full == left >= BufferLen
         n    == IF full THEN BufferLen ELSE left
         more == full /\ samplesWritten + n < Len(outSamples)
     IN  /\ samplesWritten' = IF full THEN samplesWritten + n ELSE samplesWritten
         /\ handed' = handed \o Streamed(n)
         /\ file' = IF more THEN file \o Streamed(n) ELSE file
         /\ stage' = IF more THEN "write" ELSE "done"
  /\ UNCHANGED <<job, loopVars, trailLeft, callVars>>

Next ==
  \/ ReadChunk \/ EndOfInput \/ ProcessInput \/ CallPanics
  \/ BeginTrail \/ TrailSample \/ EndTrail
  \/ SaveAsWAV \/ Stream

\* main is one thread; ProcessSample comes back (EverySampleEnds of Processor).
Spec == Init /\ [][Next]_vars /\ WF_vars(Next)
-----------------------------------------------------------------------------
(* Properties *)

TypeOK ==
  /\ job \in Jobs /\ stage \in Stages
  /\ pos \in 0 .. job.input /\ chunk \in Seq(0 .. job.input) /\ next \in 1 .. ChunkLen + 1
  /\ {sampleNum, trailLeft, rows, samplesWritten} \subseteq Nat
  /\ statistics \in [NumSamples : Nat, Clipped : Nat, FirstClipSample : Nat]
  /\ calls \in Seq([adc : [{"ADCL", "ADCR"} -> [ch : {"left", "right", "none"}, num : 0 .. job.input,
                                                gained : BOOLEAN]], ok : BOOLEAN])
  /\ {outSamples, handed, file} \subseteq Seq(1 .. Len(calls))

Silent(c) == \A reg \in {"ADCL", "ADCR"} : calls[c].adc[reg].num = 0

Stopped == \/ \E c \in 1 .. sampleNum : ~calls[c].ok
           \/ job.stopAt > 0 /\ sampleNum >= job.stopAt

\* The calls get the samples of the input one by one, in order and across the
\* chunks, with the pre-gain, which only ADCL lacks for a mono input; with silence
\* after the last; and all of them unless the loop was stopped.
InputIsHeard ==
  /\ \A c \in DOMAIN calls, reg \in {"ADCL", "ADCR"} :
       IF c <= sampleNum /\ c <= job.input
         THEN /\ calls[c].adc[reg].num = c
              /\ calls[c].adc[reg].gained \/ (reg = "ADCL" /\ ~job.stereo)
         ELSE calls[c].adc[reg].num = 0
  /\ stage \notin {"read", "process", "panic"} /\ ~Stopped
       => sampleNum >= job.input /\ sampleNum - job.input < ChunkLen

\* After a call that returned false only silence is processed, up to a second
\* such call: what StartSample of Processor assumes of its caller.
SilentAfterFailure ==
  \A b, c \in DOMAIN calls :
    b < c /\ ~calls[b].ok => Silent(c) /\ (~calls[c].ok => c = Len(calls))

\* The statistics, the register dump and the result count the same samples,
\* but for a last one whose trail call failed.
CountsAgree ==
  /\ statistics.NumSamples = Len(calls) /\ rows = Len(calls)
  /\ LET failedInTrail == Len(calls) > sampleNum /\ ~Last(calls).ok
     IN  Len(outSamples) = IF failedInTrail THEN Len(calls) - 1 ELSE Len(calls)

\* Every clip of the main loop is counted, and the first is what the warning names:
\* but for sample 0, which says that there was none, and whose clip hands the
\* name to the next.  Clips of the trail are not seen.
ClipsReported ==
  LET clips == job.clips \cap (0 .. sampleNum - 1)
  IN  /\ statistics.Clipped = Cardinality(clips)
      /\ IF statistics.FirstClipSample = 0 THEN clips \subseteq {0}
                                           ELSE statistics.FirstClipSample \in clips
      /\ \A n \in clips : n = 0 \/ statistics.FirstClipSample <= n

\* Without a failure the result is as long as it was asked to be: -stop-at samples if
\* the input, filled up to whole chunks, has so many; else all of these, and the
\* trail if -stop-at asked for more: all of it, however far beyond -stop-at, which
\* settings.go:45, "Only process N-samples", does not say.
LengthAsAsked ==
  LET padded == job.input + ((-job.input) % ChunkLen)
  IN  stage \in {"save", "write", "done"} /\ (\A c \in DOMAIN calls : calls[c].ok)
        => Len(outSamples) = IF job.stopAt > 0 /\ job.stopAt <= padded THEN job.stopAt
                             ELSE padded + (IF job.stopAt > padded THEN job.trail ELSE 0)

\* The encoder's buffers get every sample once and in order; the file lacks the
\* last buffer of them, unless there are none.
HandedOverOnce ==
  /\ IsPrefix(handed, outSamples) /\ IsPrefix(file, handed)
  /\ stage = "done" => /\ handed = outSamples
                       /\ outSamples = <<>> \/ Len(handed) - Len(file) \in 1 .. BufferLen

\* The emulator comes to an end.
Finishes == <>(stage \in {"done", "panic"})

\* base/op.go:107, "ADC input register left channel".
AdclIsLeft == \A c \in DOMAIN calls : calls[c].adc["ADCL"].ch \in {"left", "none"}

\* fv1emu.go:75-76, -trail is an "Additional trail length": the samples of the
\* trail come on top, when neither a failure nor -stop-at cut anything short.
TrailIsAdded ==
  stage = "done" /\ ~Stopped /\ (\A c \in DOMAIN calls : calls[c].ok)
    => Len(outSamples) = sampleNum + job.trail
=============================================================================
