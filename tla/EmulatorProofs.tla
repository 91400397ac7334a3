--------------------------- MODULE EmulatorProofs ---------------------------
(***************************************************************************)
(* What the runs check of Emulator on small inputs, for every input, every *)
(* -stop-at, every length of the trail, of the chunks and of the buffers.  *)
(***************************************************************************)
EXTENDS Emulator, ArithmeticProofs, SequenceTheorems, FiniteSetTheorems, TLAPS

LEMMA JobType == TypeOK => /\ job \in Job /\ job.input \in Nat /\ job.stopAt \in Int /\ job.trail \in Nat
                           /\ job.clips \subseteq Nat /\ job.stereo \in BOOLEAN
  BY EmulatorAssumption DEF TypeOK, Job

LEMMA SeqGrow ==
  ASSUME NEW S, NEW T, S \subseteq T
  PROVE  Seq(S) \subseteq Seq(T)
  OBVIOUS

\* What a call of ProcessSample gets, and says.
AdcSample == [{"ADCL", "ADCR"} -> [ch : {"left", "right", "none"}, num : 0 .. job.input,
                                   gained : BOOLEAN]]
Call == [adc : AdcSample, ok : BOOLEAN]

LEMMA AdcTypes ==
  ASSUME TypeOK
  PROVE  Silence \in AdcSample /\ \A k \in 0 .. job.input : ADC(k) \in AdcSample
<1> DEFINE Part == [ch : {"left", "right", "none"}, num : 0 .. job.input, gained : BOOLEAN]
<1>1. Silence \in AdcSample
  BY JobType DEF Silence, AdcSample
<1>2. ASSUME NEW k \in 0 .. job.input PROVE ADC(k) \in AdcSample
  <2> DEFINE left  == [ch |-> "left", num |-> k, gained |-> TRUE]
             right == IF job.stereo THEN [left EXCEPT !.ch = "right"] ELSE [left EXCEPT !.gained = FALSE]
  <2>1. left \in Part
    OBVIOUS
  <2>2. right \in Part
    <3>1. [left EXCEPT !.ch = "right"] \in Part /\ [left EXCEPT !.gained = FALSE] \in Part
      OBVIOUS
    <3> QED BY <3>1
  <2>3. ADC(k) = [ADCL |-> right, ADCR |-> left]
    BY DEF ADC
  <2> HIDE DEF left, right, Part
  <2> QED BY <2>1, <2>2, <2>3 DEF AdcSample, Part
<1> QED BY <1>1, <1>2

-----------------------------------------------------------------------------
(* Types *)

\* While the loop goes through a chunk, it is a full one: what the stream has put
\* into a slice of zeros.
ChunkInv == stage = "process" => next \in 1 .. ChunkLen /\ chunk \in [1 .. ChunkLen -> 0 .. job.input]

LEMMA ChunkType ==
  ASSUME TypeOK, ReadChunk
  PROVE  chunk' \in [1 .. ChunkLen -> 0 .. job.input] /\ pos' \in 0 .. job.input
<1>1. job.input \in Nat /\ ChunkLen \in Nat \ {0} /\ pos \in 0 .. job.input
  BY JobType, EmulatorAssumption DEF TypeOK
<1> QED BY <1>1 DEF ReadChunk

\* The results a call may add to, and what it adds.
LEMMA CallTypes ==
  ASSUME TypeOK, NEW c \in Call, NEW clips, NEW n \in Nat,
         calls' = Append(calls, c),
         outSamples' = outSamples \/ outSamples' = Append(outSamples, Len(calls) + 1),
         UpdateWavStatistics(n, clips), rows' = rows + 1,
         UNCHANGED writeVars
  PROVE  /\ calls' \in Seq(Call)
         /\ {outSamples', handed', file'} \subseteq Seq(1 .. Len(calls'))
         /\ statistics' \in [NumSamples : Nat, Clipped : Nat, FirstClipSample : Nat]
         /\ rows' \in Nat /\ samplesWritten' \in Nat
<1>1. calls \in Seq(Call)
  BY DEF TypeOK, Call, AdcSample
<1>2. calls' \in Seq(Call) /\ Len(calls') = Len(calls) + 1
  BY <1>1
<1>3. Seq(1 .. Len(calls)) \subseteq Seq(1 .. Len(calls'))
  <2>1. 1 .. Len(calls) \subseteq 1 .. Len(calls')
    BY <1>1, <1>2
  <2> QED BY <2>1, SeqGrow
<1>4. outSamples \in Seq(1 .. Len(calls')) /\ Len(calls) + 1 \in 1 .. Len(calls')
  BY <1>1, <1>2, <1>3 DEF TypeOK
<1>5. outSamples' \in Seq(1 .. Len(calls'))
  <2>1. CASE outSamples' = outSamples
    BY <1>4, <2>1
  <2>2. CASE outSamples' = Append(outSamples, Len(calls) + 1)
    BY <1>4, <2>2, AppendProperties
  <2> QED BY <2>1, <2>2
<1>6. handed' \in Seq(1 .. Len(calls')) /\ file' \in Seq(1 .. Len(calls'))
  BY <1>3 DEF TypeOK, writeVars
<1>7. statistics' \in [NumSamples : Nat, Clipped : Nat, FirstClipSample : Nat]
  <2>1. /\ statistics.NumSamples \in Nat /\ statistics.Clipped \in Nat
        /\ statistics.FirstClipSample \in Nat
    BY DEF TypeOK
  <2>2. /\ statistics.NumSamples + 1 \in Nat
        /\ statistics.Clipped + (IF clips THEN 1 ELSE 0) \in Nat
        /\ (IF clips /\ statistics.FirstClipSample = 0 THEN n ELSE statistics.FirstClipSample) \in Nat
    BY <2>1
  <2> QED BY <2>2 DEF UpdateWavStatistics
<1> QED BY <1>2, <1>5, <1>6, <1>7, SMTT(60) DEF TypeOK, writeVars

LEMMA StreamTypes ==
  ASSUME TypeOK, stage = "write" => samplesWritten <= Len(outSamples), Stream
  PROVE  /\ {handed', file'} \subseteq Seq(1 .. Len(calls)) /\ samplesWritten' \in Nat
         /\ stage' \in Stages
<1> DEFINE n == IF Len(outSamples) - samplesWritten >= BufferLen
                  THEN BufferLen ELSE Len(outSamples) - samplesWritten
<1>1. /\ outSamples \in Seq(1 .. Len(calls)) /\ handed \in Seq(1 .. Len(calls))
      /\ file \in Seq(1 .. Len(calls)) /\ samplesWritten \in Nat
  BY DEF TypeOK
<1>2. n \in Nat /\ samplesWritten + n <= Len(outSamples)
  BY <1>1, EmulatorAssumption DEF Stream
<1>3. Streamed(n) \in Seq(1 .. Len(calls))
  BY <1>1, <1>2 DEF Streamed
<1>4. handed' = handed \o Streamed(n) /\ file' \in {file, file \o Streamed(n)}
  BY DEF Stream
<1>5. samplesWritten' \in Nat /\ stage' \in Stages
  BY <1>1, EmulatorAssumption DEF Stream, Stages
<1> HIDE DEF n
<1>6. handed \o Streamed(n) \in Seq(1 .. Len(calls)) /\ file \o Streamed(n) \in Seq(1 .. Len(calls))
  BY <1>1, <1>3, ConcatProperties
<1> QED BY <1>1, <1>4, <1>5, <1>6

\* WriteStreamer has not gone past the end of the samples.
WriteInv == stage = "write" => samplesWritten < Len(outSamples) \/ (outSamples = <<>> /\ samplesWritten = 0)

TypeInv == TypeOK /\ ChunkInv /\ (stage \in {"write", "done"} \/ samplesWritten = 0) /\ WriteInv

LEMMA TypeStep == TypeInv /\ [Next]_vars => TypeInv'
<1> SUFFICES ASSUME TypeInv, [Next]_vars PROVE TypeInv'
  OBVIOUS
<1> USE DEF TypeInv
<1>0. /\ calls \in Seq(Call) /\ job.input \in Nat /\ job.trail \in Nat /\ ChunkLen \in Nat \ {0}
      /\ BufferLen \in Nat \ {0}
  BY JobType, EmulatorAssumption DEF TypeOK, Call, AdcSample
<1>1. CASE ReadChunk
  <2>1. chunk' \in [1 .. ChunkLen -> 0 .. job.input] /\ pos' \in 0 .. job.input
    BY <1>1, ChunkType
  <2>2. chunk' \in Seq(0 .. job.input)
    BY <1>0, <2>1
  <2>3. /\ stage' = "process"
        /\ next' = 1
        /\ UNCHANGED <<job, sampleNum, trailLeft, callVars, writeVars>>
        /\ stage = "read"
    BY <1>1 DEF ReadChunk
  <2>4. TypeOK'
    BY <1>0, <2>1, <2>2, <2>3 DEF TypeOK, callVars, writeVars, Stages
  <2> QED BY <1>0, <2>1, <2>3, <2>4 DEF ChunkInv, WriteInv, writeVars
<1>2. CASE EndOfInput \/ CallPanics \/ EndTrail \/ SaveAsWAV
  <2>1. UNCHANGED <<job, loopVars, trailLeft, callVars, writeVars>>
    BY <1>2 DEF EndOfInput, CallPanics, EndTrail, SaveAsWAV
  <2>2. stage' \in {"trail?", "panic", "save", "write"} /\ stage \notin {"write", "done"}
    BY <1>2 DEF EndOfInput, CallPanics, EndTrail, SaveAsWAV
  <2>3. TypeOK'
    BY <2>1, <2>2 DEF TypeOK, loopVars, callVars, writeVars, Stages
  <2>4. outSamples # <<>> => 0 < Len(outSamples)
    BY DEF TypeOK
  <2> QED BY <2>1, <2>2, <2>3, <2>4 DEF ChunkInv, WriteInv, writeVars, callVars
<1>3. CASE ProcessInput
  <2>1. next \in 1 .. ChunkLen /\ chunk[next] \in 0 .. job.input
    BY <1>3 DEF ChunkInv, ProcessInput
  <2>2. PICK ok \in BOOLEAN :
          /\ calls' = Append(calls, [adc |-> ADC(chunk[next]), ok |-> ok])
          /\ outSamples' = Append(outSamples, Len(calls) + 1)
          /\ stage' = IF Stops(ok) THEN "trail?" ELSE IF next = ChunkLen THEN "read" ELSE "process"
    BY <1>3 DEF ProcessInput
  <2>3. [adc |-> ADC(chunk[next]), ok |-> ok] \in Call
    BY <2>1, AdcTypes DEF Call
  <2>4. /\ stage = "process" /\ next' = next + 1 /\ sampleNum' = sampleNum + 1
        /\ UpdateWavStatistics(sampleNum, sampleNum \in job.clips) /\ rows' = rows + 1
        /\ UNCHANGED <<job, pos, chunk, trailLeft>> /\ UNCHANGED writeVars
    BY <1>3 DEF ProcessInput
  <2>5. sampleNum \in Nat
    BY DEF TypeOK
  <2>6. /\ calls' \in Seq(Call)
        /\ {outSamples', handed', file'} \subseteq Seq(1 .. Len(calls'))
        /\ statistics' \in [NumSamples : Nat, Clipped : Nat, FirstClipSample : Nat]
        /\ rows' \in Nat /\ samplesWritten' \in Nat
    BY <2>2, <2>3, <2>4, <2>5, CallTypes
  <2>7. TypeOK'
    <3>1. stage' \in Stages /\ next' \in 1 .. ChunkLen + 1 /\ sampleNum' \in Nat
      BY <1>0, <2>1, <2>2, <2>4, <2>5 DEF Stages
    <3> QED BY <2>4, <2>6, <3>1 DEF TypeOK, Call, AdcSample
  <2>8. ChunkInv' /\ stage' # "write" /\ samplesWritten' = samplesWritten
    BY <1>0, <2>1, <2>2, <2>4 DEF ChunkInv, writeVars
  <2> QED BY <2>4, <2>7, <2>8 DEF WriteInv
<1>4. CASE BeginTrail
  BY <1>0, <1>4 DEF BeginTrail, TypeOK, ChunkInv, WriteInv, loopVars, callVars, writeVars, Stages
<1>5. CASE TrailSample
  <2>1. PICK ok \in BOOLEAN :
          /\ calls' = Append(calls, [adc |-> Silence, ok |-> ok])
          /\ outSamples' = IF ok THEN Append(outSamples, Len(calls) + 1) ELSE outSamples
          /\ trailLeft' = IF ok THEN trailLeft - 1 ELSE 0
    BY <1>5 DEF TrailSample
  <2>2. [adc |-> Silence, ok |-> ok] \in Call
    BY AdcTypes DEF Call
  <2>3. /\ stage = "trail" /\ trailLeft > 0 /\ UNCHANGED <<job, stage, loopVars, writeVars>>
        /\ UpdateWavStatistics(Len(calls), FALSE) /\ rows' = rows + 1
    BY <1>5 DEF TrailSample
  <2>4. Len(calls) \in Nat
    BY <1>0
  <2>5. /\ calls' \in Seq(Call)
        /\ {outSamples', handed', file'} \subseteq Seq(1 .. Len(calls'))
        /\ statistics' \in [NumSamples : Nat, Clipped : Nat, FirstClipSample : Nat]
        /\ rows' \in Nat /\ samplesWritten' \in Nat
    BY <2>1, <2>2, <2>3, <2>4, CallTypes
  <2>6. trailLeft' \in Nat
    BY <2>1, <2>3, SMTT(60) DEF TypeOK
  <2>7. TypeOK'
    BY <1>0, <2>3, <2>5, <2>6 DEF TypeOK, loopVars, Stages, Call, AdcSample
  <2> QED BY <2>3, <2>7 DEF ChunkInv, WriteInv, writeVars
<1>6. CASE Stream
  <2>1. /\ {handed', file'} \subseteq Seq(1 .. Len(calls)) /\ samplesWritten' \in Nat
        /\ stage' \in Stages
    BY <1>6, StreamTypes DEF WriteInv, TypeOK
  <2>2. UNCHANGED <<job, loopVars, trailLeft, callVars>>
    BY <1>6 DEF Stream
  <2>3. TypeOK'
    BY <2>1, <2>2 DEF TypeOK, loopVars, callVars
  <2>4. stage' \in {"write", "done"} /\ (stage' = "write" => samplesWritten' < Len(outSamples))
    BY <1>0, <1>6 DEF Stream, TypeOK
  <2> QED BY <2>2, <2>3, <2>4 DEF ChunkInv, WriteInv, callVars
<1>7. CASE UNCHANGED vars
  BY <1>7 DEF TypeOK, ChunkInv, WriteInv, vars, loopVars, callVars, writeVars
<1> QED BY <1>1, <1>2, <1>3, <1>4, <1>5, <1>6, <1>7 DEF Next

LEMMA TypeInvariant == Spec => []TypeInv
<1>1. Init => TypeInv
  BY EmulatorAssumption DEF Init, TypeInv, TypeOK, ChunkInv, WriteInv, Stages, Job
<1> QED BY <1>1, TypeStep, PTL DEF Spec

\* The state of the emulator has its types, whatever the job.
THEOREM EmulatorTypes == Spec => []TypeOK
  BY TypeInvariant, PTL DEF TypeInv

-----------------------------------------------------------------------------
(* The loop, the trail and the counters *)

\* While main goes through the input, every call has returned true and -stop-at
\* is ahead; the trail is entered before it, and only its last call may fail.
LoopInv ==
  /\ stage \in {"read", "process"} =>
       /\ \A c \in DOMAIN calls : calls[c].ok
       /\ job.stopAt > 0 => sampleNum < job.stopAt
  /\ stage \in {"read", "process", "trail?"} => Len(calls) = sampleNum
  /\ Len(calls) >= sampleNum
  /\ Len(calls) > sampleNum \/ stage = "trail" => sampleNum < job.stopAt
  /\ job.stopAt > 0 => sampleNum <= job.stopAt
  /\ \A c \in DOMAIN calls : /\ c > sampleNum => Silent(c)
                             /\ ~calls[c].ok => c \in {sampleNum, Len(calls)}
  /\ stage = "trail" /\ trailLeft > 0 => \A c \in DOMAIN calls : c > sampleNum => calls[c].ok

\* What is true of calls as they were stays true when one is added.
LEMMA CallsGrow ==
  ASSUME TypeOK, NEW c, calls' = Append(calls, c)
  PROVE  /\ Len(calls') = Len(calls) + 1 /\ Len(calls) \in Nat
         /\ DOMAIN calls = 1 .. Len(calls) /\ DOMAIN calls' = 1 .. Len(calls) + 1
         /\ \A k \in 1 .. Len(calls) : calls'[k] = calls[k]
         /\ calls'[Len(calls) + 1] = c
  BY DEF TypeOK

LEMMA LoopStep == TypeInv /\ LoopInv /\ [Next]_vars => LoopInv'
<1> SUFFICES ASSUME TypeOK, LoopInv, [Next]_vars PROVE LoopInv'
  BY DEF TypeInv
<1>0. sampleNum \in Nat /\ job.stopAt \in Int /\ Len(calls) \in Nat
  BY JobType DEF TypeOK
<1>1. CASE ProcessInput
  <2>1. PICK ok \in BOOLEAN :
          /\ calls' = Append(calls, [adc |-> ADC(chunk[next]), ok |-> ok])
          /\ stage' = IF Stops(ok) THEN "trail?" ELSE IF next = ChunkLen THEN "read" ELSE "process"
    BY <1>1 DEF ProcessInput
  <2>2. stage = "process" /\ sampleNum' = sampleNum + 1 /\ job' = job
    BY <1>1 DEF ProcessInput
  <2>3. calls'[Len(calls) + 1].ok = ok
    BY <2>1, CallsGrow
  <2>4. /\ Len(calls') = Len(calls) + 1 /\ DOMAIN calls' = 1 .. Len(calls) + 1
        /\ DOMAIN calls = 1 .. Len(calls) /\ \A k \in 1 .. Len(calls) : calls'[k] = calls[k]
    BY <2>1, CallsGrow
  <2>5. \A k \in DOMAIN calls' : ~calls'[k].ok => k = Len(calls')
    BY <1>0, <2>2, <2>4 DEF LoopInv
  <2>6. stage' \in {"read", "process"} => ok /\ (job.stopAt > 0 => sampleNum + 1 < job.stopAt)
    BY <1>0, <2>1 DEF Stops
  <2> QED BY <1>0, <2>1, <2>2, <2>3, <2>4, <2>5, <2>6 DEF LoopInv
<1>2. CASE TrailSample
  <2>1. PICK ok \in BOOLEAN :
          /\ calls' = Append(calls, [adc |-> Silence, ok |-> ok])
          /\ trailLeft' = IF ok THEN trailLeft - 1 ELSE 0
    BY <1>2 DEF TrailSample
  <2>2. stage = "trail" /\ stage' = "trail" /\ trailLeft > 0 /\ sampleNum' = sampleNum /\ job' = job
    BY <1>2 DEF TrailSample, loopVars
  <2>3. /\ calls'[Len(calls) + 1].ok = ok
        /\ \A reg \in {"ADCL", "ADCR"} : calls'[Len(calls) + 1].adc[reg].num = 0
    BY <2>1, CallsGrow DEF Silence
  <2>4. /\ Len(calls') = Len(calls) + 1 /\ DOMAIN calls' = 1 .. Len(calls) + 1
        /\ DOMAIN calls = 1 .. Len(calls) /\ \A k \in 1 .. Len(calls) : calls'[k] = calls[k]
    BY <2>1, CallsGrow
  <2>5. \A k \in DOMAIN calls' : k > sampleNum => Silent(k)'
    <3> SUFFICES ASSUME NEW k \in DOMAIN calls', k > sampleNum PROVE Silent(k)'
      OBVIOUS
    <3>1. CASE k = Len(calls) + 1
      BY <2>3, <3>1 DEF Silent
    <3>2. CASE k \in DOMAIN calls
      BY <2>4, <3>2 DEF LoopInv, Silent
    <3> QED BY <1>0, <2>4, <3>1, <3>2
  <2>6. \A k \in DOMAIN calls : k > sampleNum => calls[k].ok
    BY <2>2 DEF LoopInv
  <2>7. \A k \in DOMAIN calls' : ~calls'[k].ok => k \in {sampleNum, Len(calls')}
    <3> SUFFICES ASSUME NEW k \in DOMAIN calls', ~calls'[k].ok, k # Len(calls')
                 PROVE  k = sampleNum
      OBVIOUS
    <3>1. k \in 1 .. Len(calls) /\ ~calls[k].ok
      BY <1>0, <2>4
    <3>2. ~(k > sampleNum) /\ k \in {sampleNum, Len(calls)} /\ Len(calls) >= sampleNum
      BY <2>4, <2>6, <3>1 DEF LoopInv
    <3> QED BY <1>0, <3>1, <3>2
  <2>8. trailLeft' > 0 => \A k \in DOMAIN calls' : k > sampleNum => calls'[k].ok
    BY <1>0, <2>1, <2>3, <2>4, <2>6
  <2> QED BY <1>0, <2>2, <2>4, <2>5, <2>7, <2>8 DEF LoopInv
<1>3. CASE BeginTrail
  <2>1. /\ stage = "trail?" /\ stage' = IF TrailWanted THEN "trail" ELSE "save"
        /\ UNCHANGED <<job, sampleNum, calls>>
    BY <1>3 DEF BeginTrail, loopVars, callVars
  <2>2. Len(calls) = sampleNum
    BY <2>1 DEF LoopInv
  <2> QED BY <1>0, <2>1, <2>2 DEF LoopInv, TrailWanted, Silent, TypeOK
<1>4. CASE ReadChunk \/ EndOfInput \/ CallPanics \/ EndTrail \/ SaveAsWAV \/ Stream \/ UNCHANGED vars
  <2>1. UNCHANGED <<job, sampleNum, calls>> /\ (stage' = "trail" => UNCHANGED <<stage, trailLeft>>)
    BY <1>4 DEF ReadChunk, EndOfInput, CallPanics, EndTrail, SaveAsWAV, Stream, vars, loopVars, callVars
  <2>2. /\ stage' \in {"read", "process"} => stage \in {"read", "process"}
        /\ stage' = "trail?" => stage \in {"read", "trail?"}
    BY <1>4 DEF ReadChunk, EndOfInput, CallPanics, EndTrail, SaveAsWAV, Stream, vars
  <2> QED BY <2>1, <2>2 DEF LoopInv, Silent
<1> QED BY <1>1, <1>2, <1>3, <1>4 DEF Next

LEMMA LoopInvariant == Spec => []LoopInv
<1>1. Init => LoopInv
  BY EmulatorAssumption DEF Init, LoopInv, Job
<1> QED BY <1>1, LoopStep, TypeInvariant, PTL DEF Spec

\* Whenever a call fails, only silence follows, up to a second failure: the
\* assumption about its caller that StartSample of Processor makes.
THEOREM FailureSilences == Spec => []SilentAfterFailure
<1>1. TypeInv /\ LoopInv => SilentAfterFailure
  <2> SUFFICES ASSUME TypeOK, LoopInv, NEW b \in DOMAIN calls, NEW c \in DOMAIN calls, b < c, ~calls[b].ok
               PROVE  Silent(c) /\ (~calls[c].ok => c = Len(calls))
    BY DEF TypeInv, SilentAfterFailure
  <2>1. DOMAIN calls = 1 .. Len(calls) /\ Len(calls) \in Nat
    BY DEF TypeOK
  <2>2. b \in {sampleNum, Len(calls)} /\ (~calls[c].ok => c \in {sampleNum, Len(calls)})
    BY DEF LoopInv
  <2>3. c > sampleNum
    BY <2>1, <2>2
  <2> QED BY <2>1, <2>2, <2>3 DEF LoopInv, TypeOK
<1> QED BY <1>1, TypeInvariant, LoopInvariant, PTL

LEMMA CountStep == TypeInv /\ LoopInv /\ CountsAgree /\ [Next]_vars => CountsAgree'
<1> SUFFICES ASSUME TypeOK, LoopInv, CountsAgree, [Next]_vars PROVE CountsAgree'
  BY DEF TypeInv
<1>0. /\ sampleNum \in Nat /\ Len(calls) \in Nat /\ outSamples \in Seq(Int) /\ rows \in Nat
      /\ DOMAIN calls = 1 .. Len(calls)
      /\ statistics.NumSamples \in Nat
  <2>1. 1 .. Len(calls) \subseteq Int /\ outSamples \in Seq(1 .. Len(calls))
    BY DEF TypeOK
  <2>2. outSamples \in Seq(Int)
    BY <2>1, SeqGrow
  <2> QED BY <2>2 DEF TypeOK
<1>1. CASE ProcessInput
  <2>1. PICK ok \in BOOLEAN :
          /\ calls' = Append(calls, [adc |-> ADC(chunk[next]), ok |-> ok])
          /\ outSamples' = Append(outSamples, Len(calls) + 1)
    BY <1>1 DEF ProcessInput
  <2>2. /\ stage = "process" /\ sampleNum' = sampleNum + 1 /\ rows' = rows + 1
        /\ statistics'.NumSamples = statistics.NumSamples + 1
    BY <1>1 DEF ProcessInput, UpdateWavStatistics
  <2>3. Len(calls') = Len(calls) + 1 /\ Len(outSamples') = Len(outSamples) + 1
    BY <1>0, <2>1, CallsGrow
  <2> QED BY <1>0, <2>2, <2>3 DEF CountsAgree, LoopInv
<1>2. CASE TrailSample
  <2>1. PICK ok \in BOOLEAN :
          /\ calls' = Append(calls, [adc |-> Silence, ok |-> ok])
          /\ outSamples' = IF ok THEN Append(outSamples, Len(calls) + 1) ELSE outSamples
    BY <1>2 DEF TrailSample
  <2>2. /\ stage = "trail" /\ trailLeft > 0 /\ sampleNum' = sampleNum /\ rows' = rows + 1
        /\ statistics'.NumSamples = statistics.NumSamples + 1
    BY <1>2 DEF TrailSample, loopVars, UpdateWavStatistics
  <2>3. Len(calls') = Len(calls) + 1 /\ Last(calls').ok = ok
    BY <2>1, CallsGrow DEF Last
  <2>4. Len(calls) > sampleNum => Last(calls).ok
    BY <1>0, <2>2 DEF LoopInv, Last
  <2>5. Len(outSamples') = IF ok THEN Len(outSamples) + 1 ELSE Len(outSamples)
    BY <1>0, <2>1
  <2>6. Len(outSamples) = Len(calls)
    BY <2>4 DEF CountsAgree
  <2> QED BY <1>0, <2>2, <2>3, <2>5, <2>6 DEF CountsAgree, LoopInv
<1>3. CASE ~(ProcessInput \/ TrailSample)
  <2>1. UNCHANGED <<sampleNum, outSamples, statistics, rows, calls>>
    BY <1>3 DEF Next, ReadChunk, EndOfInput, CallPanics, BeginTrail, EndTrail, SaveAsWAV, Stream,
       vars, loopVars, callVars
  <2> QED BY <2>1 DEF CountsAgree
<1> QED BY <1>1, <1>2, <1>3

\* The statistics, the register dump and the result count the same samples.
THEOREM CountsAlwaysAgree == Spec => []CountsAgree
<1>1. Init => CountsAgree
  BY DEF Init, CountsAgree
<1> QED BY <1>1, CountStep, TypeInvariant, LoopInvariant, PTL DEF Spec

-----------------------------------------------------------------------------
(* The input *)

Smaller(a, b) == IF a < b THEN a ELSE b

\* The samples of the chunks before this one.
Base == sampleNum - (next - 1)

\* The chunk is the part of the input that is due, and the stream stands behind it.
InputInv ==
  /\ stage = "read" => /\ pos <= sampleNum /\ sampleNum - pos < ChunkLen
                       /\ pos < job.input => sampleNum = pos
  /\ stage = "process" =>
       /\ Base \in 0 .. job.input - 1 /\ pos = Smaller(Base + ChunkLen, job.input)
       /\ \A k \in 1 .. ChunkLen : chunk[k] = IF Base + k <= job.input THEN Base + k ELSE 0
  /\ InputIsHeard

\* What the two ADC registers get for a sample of the input, and for silence.
LEMMA Heard ==
  /\ \A k : /\ ADC(k).ADCL.num = k /\ ADC(k).ADCR.num = k
            /\ ADC(k).ADCR.gained /\ (ADC(k).ADCL.gained \/ ~job.stereo)
  /\ Silence.ADCL.num = 0 /\ Silence.ADCR.num = 0
  BY DEF ADC, Silence

CallHeard(c) ==
  \A reg \in {"ADCL", "ADCR"} :
     IF c <= sampleNum /\ c <= job.input
       THEN /\ calls[c].adc[reg].num = c
            /\ calls[c].adc[reg].gained \/ (reg = "ADCL" /\ ~job.stereo)
       ELSE calls[c].adc[reg].num = 0

LEMMA InputStep == TypeInv /\ LoopInv /\ InputInv /\ [Next]_vars => InputInv'
<1> SUFFICES ASSUME TypeInv, LoopInv, InputInv, [Next]_vars PROVE InputInv'
  OBVIOUS
<1>0. /\ sampleNum \in Nat /\ job.stopAt \in Int /\ Len(calls) \in Nat /\ job.input \in Nat
      /\ ChunkLen \in Nat \ {0} /\ pos \in 0 .. job.input /\ DOMAIN calls = 1 .. Len(calls)
      /\ Len(calls) >= sampleNum
  BY JobType, EmulatorAssumption DEF TypeInv, TypeOK, LoopInv
<1>h. \A c \in DOMAIN calls : CallHeard(c)
  BY DEF InputInv, InputIsHeard, CallHeard
<1>1. CASE ReadChunk
  <2>1. /\ stage = "read" /\ stage' = "process" /\ next' = 1 /\ sampleNum' = sampleNum /\ pos < job.input
        /\ pos' = Smaller(pos + ChunkLen, job.input) /\ UNCHANGED <<job, calls>>
        /\ chunk' = [k \in 1 .. ChunkLen |-> IF pos + k <= job.input THEN pos + k ELSE 0]
    BY <1>1 DEF ReadChunk, Smaller, callVars
  <2>2. pos = sampleNum /\ Base' = sampleNum
    BY <1>0, <2>1 DEF InputInv, Base
  <2>3. InputIsHeard'
    BY <2>1 DEF InputInv, InputIsHeard
  <2> QED BY <1>0, <2>1, <2>2, <2>3 DEF InputInv
<1>2. CASE ProcessInput
  <2>1. PICK ok \in BOOLEAN :
          /\ calls' = Append(calls, [adc |-> ADC(chunk[next]), ok |-> ok])
          /\ stage' = IF Stops(ok) THEN "trail?" ELSE IF next = ChunkLen THEN "read" ELSE "process"
    BY <1>2 DEF ProcessInput
  <2>2. /\ stage = "process" /\ sampleNum' = sampleNum + 1 /\ next' = next + 1
        /\ UNCHANGED <<job, pos, chunk>>
    BY <1>2 DEF ProcessInput
  <2>3. next \in 1 .. ChunkLen /\ Len(calls) = sampleNum
    BY <2>2 DEF TypeInv, ChunkInv, LoopInv
  <2>4. /\ Len(calls') = Len(calls) + 1 /\ DOMAIN calls' = 1 .. Len(calls) + 1
        /\ \A k \in 1 .. Len(calls) : calls'[k] = calls[k]
        /\ calls'[Len(calls) + 1] = [adc |-> ADC(chunk[next]), ok |-> ok]
    BY <2>1, CallsGrow DEF TypeInv
  <2>5. Base' = Base /\ Base + next = sampleNum + 1 /\ Base \in 0 .. job.input - 1
        /\ pos = Smaller(Base + ChunkLen, job.input)
    BY <1>0, <2>2, <2>3 DEF Base, InputInv
  <2>6. chunk[next] = IF sampleNum + 1 <= job.input THEN sampleNum + 1 ELSE 0
    BY <2>2, <2>3, <2>5 DEF InputInv
  <2>7. \A c \in DOMAIN calls' : CallHeard(c)'
    <3> SUFFICES ASSUME NEW c \in DOMAIN calls' PROVE CallHeard(c)'
      OBVIOUS
    <3>1. CASE c = Len(calls) + 1
      BY <1>0, <2>2, <2>3, <2>4, <2>6, <3>1, Heard DEF CallHeard
    <3>2. CASE c \in DOMAIN calls
      BY <1>0, <1>h, <2>2, <2>3, <2>4, <3>2 DEF CallHeard
    <3> QED BY <1>0, <2>4, <3>1, <3>2
  <2>8. stage' = "trail?" => Stopped'
    <3>1. ~ok => \E c \in 1 .. sampleNum' : ~calls'[c].ok
      BY <1>0, <2>2, <2>3, <2>4
    <3>2. (job.stopAt > 0 /\ sampleNum + 1 >= job.stopAt) => Stopped'
      BY <2>2 DEF Stopped
    <3> QED BY <2>1, <3>1, <3>2 DEF Stopped, Stops
  <2>9. InputIsHeard'
    BY <2>1, <2>2, <2>7, <2>8 DEF InputIsHeard, CallHeard
  <2>10. stage' = "read" => /\ pos' <= sampleNum' /\ sampleNum' - pos' < ChunkLen
                            /\ pos' < job'.input => sampleNum' = pos'
    <3>1. stage' = "read" => next = ChunkLen
      BY <2>1
    <3> QED BY <1>0, <2>2, <2>3, <2>5, <3>1 DEF Smaller
  <2>11. stage' = "process" =>
           /\ (Base \in 0 .. job.input - 1 /\ pos = Smaller(Base + ChunkLen, job.input))'
           /\ \A k \in 1 .. ChunkLen : chunk'[k] = IF Base' + k <= job'.input THEN Base' + k ELSE 0
    BY <2>2, <2>5 DEF InputInv, Smaller
  <2> QED BY <2>9, <2>10, <2>11 DEF InputInv
<1>3. CASE TrailSample
  <2>1. PICK ok \in BOOLEAN : calls' = Append(calls, [adc |-> Silence, ok |-> ok])
    BY <1>3 DEF TrailSample
  <2>2. stage = "trail" /\ stage' = "trail" /\ UNCHANGED <<job, sampleNum>>
    BY <1>3 DEF TrailSample, loopVars
  <2>3. /\ Len(calls') = Len(calls) + 1 /\ DOMAIN calls' = 1 .. Len(calls) + 1
        /\ \A k \in 1 .. Len(calls) : calls'[k] = calls[k]
        /\ calls'[Len(calls) + 1] = [adc |-> Silence, ok |-> ok]
    BY <2>1, CallsGrow DEF TypeInv
  <2>4. \A c \in DOMAIN calls' : CallHeard(c)'
    <3> SUFFICES ASSUME NEW c \in DOMAIN calls' PROVE CallHeard(c)'
      OBVIOUS
    <3>1. CASE c = Len(calls) + 1
      BY <1>0, <2>2, <2>3, <3>1, Heard DEF CallHeard
    <3>2. CASE c \in DOMAIN calls
      BY <1>0, <1>h, <2>2, <2>3, <3>2 DEF CallHeard
    <3> QED BY <1>0, <2>3, <3>1, <3>2
  <2>5. Stopped => Stopped'
    BY <1>0, <2>2, <2>3 DEF Stopped
  <2> QED BY <2>2, <2>4, <2>5 DEF InputInv, InputIsHeard, CallHeard
<1>4. CASE EndOfInput
  BY <1>0, <1>4 DEF EndOfInput, InputInv, InputIsHeard, loopVars, callVars, Stopped
<1>5. CASE CallPanics \/ BeginTrail \/ EndTrail \/ SaveAsWAV \/ Stream
  <2>1. UNCHANGED <<job, calls, sampleNum>> /\ stage' \notin {"read", "process"}
        /\ (stage' = "panic" \/ stage \notin {"read", "process", "panic"})
    BY <1>5 DEF CallPanics, BeginTrail, EndTrail, SaveAsWAV, Stream, loopVars, callVars
  <2> QED BY <2>1 DEF InputInv, InputIsHeard, Stopped
<1>6. CASE UNCHANGED vars
  <2>1. UNCHANGED <<job, stage, pos, chunk, next, sampleNum, calls>>
    BY <1>6 DEF vars, loopVars, callVars
  <2> QED BY <2>1 DEF InputInv, InputIsHeard, Stopped, Base, Smaller
<1> QED BY <1>1, <1>2, <1>3, <1>4, <1>5, <1>6 DEF Next

LEMMA InputInvariant == Spec => []InputInv
<1>1. Init => InputInv
  BY EmulatorAssumption DEF Init, InputInv, InputIsHeard, Job
<1> QED BY <1>1, InputStep, TypeInvariant, LoopInvariant, PTL DEF Spec

\* The program hears the input, whole and in order, and then silence, whatever
\* the chunks are.
THEOREM InputIsAlwaysHeard == Spec => []InputIsHeard
<1>1. InputInv => InputIsHeard
  BY DEF InputInv
<1> QED BY <1>1, InputInvariant, PTL

-----------------------------------------------------------------------------
(* The length of the result *)

\* The length of the input, filled up to whole chunks.
Padded == job.input + ((-job.input) % ChunkLen)

LEMMA PaddedType == TypeOK => Padded \in Nat /\ Padded >= job.input
<1> SUFFICES ASSUME TypeOK PROVE Padded \in Nat /\ Padded >= job.input
  OBVIOUS
<1>1. job.input \in Nat /\ ChunkLen \in Nat \ {0}
  BY JobType, EmulatorAssumption
<1>2. \A a \in Int : a % ChunkLen \in 0 .. ChunkLen - 1
  BY <1>1, DivMod, Zenon
<1>3. -job.input \in Int
  BY <1>1
<1>4. (-job.input) % ChunkLen \in 0 .. ChunkLen - 1
  BY <1>2, <1>3
<1> QED BY <1>1, <1>4 DEF Padded

LEMMA PaddedIs ==
  ASSUME NEW C \in Nat \ {0}, NEW n \in Nat, NEW s \in Nat, s % C = 0, n <= s, s - n < C
  PROVE  n + ((-n) % C) = s
<1>1. s \div C \in Int /\ s = C * (s \div C)
  BY DivMod
<1> DEFINE a == -n
           q == -(s \div C)
           k == s - n
<1>2. a = C * q + k /\ a \in Int /\ q \in Int /\ k \in 0 .. C - 1
  BY <1>1
<1> HIDE DEF a, q, k
<1>3. a % C = k
  BY <1>2, ModUnique, Zenon
<1> QED BY <1>3 DEF a, k

LEMMA NextMultiple ==
  ASSUME NEW C \in Nat \ {0}, NEW b \in Nat, b % C = 0
  PROVE  (b + C) % C = 0
<1>1. b \div C \in Int /\ b = C * (b \div C)
  BY DivMod
<1> DEFINE q == b \div C + 1
           a == b + C
<1>2. a = C * q + 0 /\ q \in Int /\ a \in Int /\ 0 \in 0 .. C - 1
  BY <1>1
<1> HIDE DEF q, a
<1>3. \A k \in 0 .. C - 1 : a = C * q + k => a % C = k
  BY <1>2, ModUnique, Zenon
<1> QED BY <1>2, <1>3 DEF a

\* A chunk that begins within the input ends within what it is filled up to.
LEMMA ChunkInPadded ==
  ASSUME NEW C \in Nat \ {0}, NEW n \in Nat, NEW b \in Nat, b % C = 0, b < n
  PROVE  b + C <= n + ((-n) % C)
<1>1. /\ b \div C \in Int /\ b = C * (b \div C)
      /\ (-n) \div C \in Int /\ (-n) % C \in 0 .. C - 1 /\ -n = C * ((-n) \div C) + ((-n) % C)
  BY DivMod
<1>2. C * (-((-n) \div C) - (b \div C)) > 0
  BY <1>1
<1>3. -((-n) \div C) - (b \div C) >= 1
  BY <1>1, <1>2
<1>4. C * (-((-n) \div C) - (b \div C)) >= C
  BY <1>1, <1>3
<1> QED BY <1>1, <1>4

\* Chunks begin at whole chunks; when the loop is left it has gone as far as it was
\* asked to, and the calls still to come are those of the trail.
AllOk == \A c \in DOMAIN calls : calls[c].ok

Asked == IF job.stopAt > 0 /\ job.stopAt <= Padded THEN job.stopAt ELSE Padded

LengthInv ==
  /\ stage = "read" => sampleNum % ChunkLen = 0
  /\ stage = "process" => Base % ChunkLen = 0
  /\ stage \in {"trail?", "trail", "save", "write", "done"} /\ AllOk => sampleNum = Asked
  /\ stage = "trail" => job.stopAt > 0
  /\ stage = "trail" /\ AllOk => Len(calls) + trailLeft = sampleNum + job.trail
  /\ stage \in {"save", "write", "done"} /\ AllOk
       => Len(calls) = IF job.stopAt > Padded THEN Padded + job.trail ELSE Asked

LEMMA LengthStep == TypeInv /\ LoopInv /\ InputInv /\ LengthInv /\ [Next]_vars => LengthInv'
<1> SUFFICES ASSUME TypeInv, LoopInv, InputInv, LengthInv, [Next]_vars PROVE LengthInv'
  OBVIOUS
<1>0. /\ sampleNum \in Nat /\ job.stopAt \in Int /\ Len(calls) \in Nat /\ job.input \in Nat
      /\ ChunkLen \in Nat \ {0} /\ pos \in 0 .. job.input /\ DOMAIN calls = 1 .. Len(calls)
      /\ Len(calls) >= sampleNum /\ trailLeft \in Nat /\ job.trail \in Nat
  BY JobType, EmulatorAssumption DEF TypeInv, TypeOK, LoopInv
<1>p. Padded \in Nat /\ Padded >= job.input
  BY PaddedType DEF TypeInv
<1>1. CASE ReadChunk
  <2>1. /\ stage = "read" /\ stage' = "process" /\ next' = 1 /\ sampleNum' = sampleNum
    BY <1>1 DEF ReadChunk
  <2>2. Base' = sampleNum
    BY <1>0, <2>1 DEF Base
  <2> QED BY <2>1, <2>2 DEF LengthInv
<1>2. CASE ProcessInput
  <2>1. PICK ok \in BOOLEAN :
          /\ calls' = Append(calls, [adc |-> ADC(chunk[next]), ok |-> ok])
          /\ stage' = IF Stops(ok) THEN "trail?" ELSE IF next = ChunkLen THEN "read" ELSE "process"
    BY <1>2 DEF ProcessInput
  <2>2. /\ stage = "process" /\ sampleNum' = sampleNum + 1 /\ next' = next + 1 /\ job' = job
    BY <1>2 DEF ProcessInput
  <2>3. next \in 1 .. ChunkLen /\ Base \in 0 .. job.input - 1 /\ Base % ChunkLen = 0
    BY <2>2 DEF TypeInv, ChunkInv, InputInv, LengthInv
  <2>4. Base' = Base /\ sampleNum = Base + next - 1
    BY <1>0, <2>2, <2>3 DEF Base
  <2>5. Base + ChunkLen <= Padded /\ (Base + ChunkLen) % ChunkLen = 0
    <3>1. Base \in Nat /\ Base < job.input
      BY <1>0, <2>3
    <3>2. Base + ChunkLen <= Padded
      BY <1>0, <2>3, <3>1, ChunkInPadded, Zenon DEF Padded
    <3>3. (Base + ChunkLen) % ChunkLen = 0
      BY <1>0, <2>3, <3>1, NextMultiple, Zenon
    <3> QED BY <3>2, <3>3
  <2>6. Padded' = Padded /\ sampleNum' <= Padded
    BY <1>0, <1>p, <2>2, <2>3, <2>4, <2>5 DEF Padded
  <2>7. Len(calls') = Len(calls) + 1 /\ calls'[Len(calls) + 1].ok = ok /\ DOMAIN calls' = 1 .. Len(calls) + 1
    BY <2>1, CallsGrow DEF TypeInv
  <2>8. stage' = "trail?" /\ AllOk' => sampleNum' = Asked'
    <3> SUFFICES ASSUME stage' = "trail?", AllOk' PROVE sampleNum' = Asked'
      OBVIOUS
    <3>1. ok
      BY <1>0, <2>7 DEF AllOk
    <3>2. job.stopAt > 0 /\ sampleNum + 1 >= job.stopAt
      BY <2>1, <3>1 DEF Stops
    <3>3. sampleNum < job.stopAt
      BY <2>2, <3>2 DEF LoopInv
    <3> QED BY <1>0, <1>p, <2>2, <2>6, <3>2, <3>3 DEF Asked
  <2>9. stage' = "read" => sampleNum' = Base + ChunkLen
    BY <1>0, <2>1, <2>2, <2>3, <2>4
  <2> QED BY <2>1, <2>3, <2>4, <2>5, <2>8, <2>9 DEF LengthInv
<1>3. CASE EndOfInput
  <2>1. /\ stage = "read" /\ pos >= job.input /\ stage' = "trail?"
        /\ UNCHANGED <<job, sampleNum, calls>>
    BY <1>3 DEF EndOfInput, loopVars, callVars
  <2>2. sampleNum % ChunkLen = 0 /\ job.input <= sampleNum /\ sampleNum - job.input < ChunkLen
    BY <1>0, <2>1 DEF LengthInv, InputInv
  <2>3. Padded = sampleNum
    BY <1>0, <2>2, PaddedIs DEF Padded
  <2>4. job.stopAt > 0 => sampleNum < job.stopAt
    BY <2>1 DEF LoopInv
  <2>5. Asked = sampleNum
    BY <1>0, <2>3, <2>4 DEF Asked
  <2>6. Asked' = Asked
    BY <2>1 DEF Asked, Padded
  <2> QED BY <2>1, <2>5, <2>6 DEF LengthInv
<1>4. CASE BeginTrail
  <2>1. /\ stage = "trail?" /\ stage' = IF TrailWanted THEN "trail" ELSE "save"
        /\ trailLeft' = IF TrailWanted THEN job.trail ELSE 0
        /\ UNCHANGED <<job, sampleNum, calls>>
    BY <1>4 DEF BeginTrail, loopVars, callVars
  <2>2. Len(calls) = sampleNum /\ (AllOk => sampleNum = Asked)
    BY <2>1 DEF LoopInv, LengthInv
  <2>3. Asked' = Asked /\ Padded' = Padded /\ AllOk' = AllOk
    BY <2>1 DEF Asked, Padded, AllOk
  <2>4. stage' = "save" /\ AllOk => Len(calls) = IF job.stopAt > Padded THEN Padded + job.trail ELSE Asked
    BY <1>0, <1>p, <2>1, <2>2 DEF Asked, TrailWanted
  <2> QED BY <1>0, <2>1, <2>2, <2>3, <2>4 DEF LengthInv, TrailWanted
<1>5. CASE TrailSample
  <2>1. PICK ok \in BOOLEAN :
          /\ calls' = Append(calls, [adc |-> Silence, ok |-> ok])
          /\ trailLeft' = IF ok THEN trailLeft - 1 ELSE 0
    BY <1>5 DEF TrailSample
  <2>2. stage = "trail" /\ stage' = "trail" /\ trailLeft > 0 /\ sampleNum' = sampleNum /\ job' = job
    BY <1>5 DEF TrailSample, loopVars
  <2>3. /\ Len(calls') = Len(calls) + 1 /\ DOMAIN calls' = 1 .. Len(calls) + 1
        /\ \A k \in 1 .. Len(calls) : calls'[k] = calls[k]
        /\ calls'[Len(calls) + 1].ok = ok
    BY <2>1, CallsGrow DEF TypeInv
  <2>4. AllOk' => AllOk /\ ok
    BY <1>0, <2>3 DEF AllOk
  <2>5. Asked' = Asked
    BY <2>2 DEF Asked, Padded
  <2>6. AllOk => sampleNum = Asked /\ Len(calls) + trailLeft = sampleNum + job.trail
    BY <2>2 DEF LengthInv
  <2> QED BY <1>0, <2>1, <2>2, <2>3, <2>4, <2>5, <2>6 DEF LengthInv
<1>6. CASE EndTrail
  <2>1. stage = "trail" /\ stage' = "save" /\ trailLeft = 0 /\ UNCHANGED <<job, sampleNum, calls>>
    BY <1>6 DEF EndTrail, loopVars, callVars
  <2>2. Asked' = Asked /\ Padded' = Padded /\ AllOk' = AllOk
    BY <2>1 DEF Asked, Padded, AllOk
  <2>3. job.stopAt > 0 /\ sampleNum < job.stopAt
    BY <2>1 DEF LengthInv, LoopInv
  <2>4. AllOk => sampleNum = Asked /\ Len(calls) = sampleNum + job.trail
    BY <1>0, <2>1 DEF LengthInv
  <2>5. AllOk => Padded < job.stopAt /\ sampleNum = Padded
    BY <1>0, <1>p, <2>3, <2>4 DEF Asked
  <2> QED BY <1>0, <2>1, <2>2, <2>4, <2>5 DEF LengthInv
<1>7. CASE CallPanics \/ SaveAsWAV \/ Stream
  <2>1. /\ UNCHANGED <<job, sampleNum, calls>>
        /\ stage' = "panic" \/ (stage \in {"save", "write"} /\ stage' \in {"write", "done"})
    BY <1>7 DEF CallPanics, SaveAsWAV, Stream, loopVars, callVars
  <2>2. Asked' = Asked /\ Padded' = Padded /\ AllOk' = AllOk
    BY <2>1 DEF Asked, Padded, AllOk
  <2> QED BY <2>1, <2>2 DEF LengthInv
<1>8. CASE UNCHANGED vars
  <2>1. UNCHANGED <<job, stage, trailLeft, next, sampleNum, calls>>
    BY <1>8 DEF vars, loopVars, callVars
  <2> QED BY <2>1 DEF LengthInv, Asked, Padded, AllOk, Base
<1> QED BY <1>1, <1>2, <1>3, <1>4, <1>5, <1>6, <1>7, <1>8 DEF Next

\* The result is as long as -stop-at, the chunks and the trail make it.
THEOREM LengthIsAsAsked == Spec => []LengthAsAsked
<1>1. Init => LengthInv
  <2>1. Init => sampleNum = 0 /\ stage = "read"
    BY DEF Init
  <2>2. 0 % ChunkLen = 0
    <3>1. 0 = ChunkLen * 0 + 0 /\ 0 \in 0 .. ChunkLen - 1
      BY EmulatorAssumption
    <3> QED BY <3>1, ModUnique, EmulatorAssumption
  <2> QED BY <2>1, <2>2 DEF LengthInv
<1>2. TypeInv /\ LengthInv /\ CountsAgree => LengthAsAsked
  <2> SUFFICES ASSUME TypeInv, LengthInv, CountsAgree, stage \in {"save", "write", "done"}, AllOk
               PROVE  Len(outSamples) = IF job.stopAt > 0 /\ job.stopAt <= Padded THEN job.stopAt
                                        ELSE Padded + (IF job.stopAt > Padded THEN job.trail ELSE 0)
    BY DEF LengthAsAsked, Padded, AllOk
  <2>0. /\ calls \in Seq(Call) /\ sampleNum \in Nat /\ job.stopAt \in Int /\ job.trail \in Nat
        /\ job.input \in Nat /\ ChunkLen \in Nat \ {0}
    BY JobType, EmulatorAssumption DEF TypeInv, TypeOK, Call, AdcSample
  <2>1. Padded \in Nat
    BY PaddedType DEF TypeInv
  <2>2. Len(calls) > sampleNum => Last(calls).ok
    BY <2>0 DEF AllOk, Last
  <2>3. Len(outSamples) = Len(calls)
    BY <2>2 DEF CountsAgree
  <2>4. Len(calls) = IF job.stopAt > Padded THEN Padded + job.trail ELSE Asked
    BY DEF LengthInv
  <2> QED BY <2>0, <2>1, <2>3, <2>4 DEF Asked
<1> QED BY <1>1, <1>2, LengthStep, TypeInvariant, LoopInvariant, InputInvariant, CountsAlwaysAgree,
           PTL DEF Spec

-----------------------------------------------------------------------------
(* Clips *)

LEMMA ClipStep == TypeInv /\ ClipsReported /\ [Next]_vars => ClipsReported'
<1> SUFFICES ASSUME TypeOK, ClipsReported, [Next]_vars PROVE ClipsReported'
  BY DEF TypeInv
<1> DEFINE clips == job.clips \cap (0 .. sampleNum - 1)
<1>0. sampleNum \in Nat /\ job.clips \subseteq Nat
  BY JobType DEF TypeOK
<1>1. CASE ProcessInput
  <2>1. sampleNum' = sampleNum + 1 /\ job' = job
        /\ UpdateWavStatistics(sampleNum, sampleNum \in job.clips)
    BY <1>1 DEF ProcessInput
  <2>2. CASE sampleNum \notin job.clips
    <3>1. clips' = clips
      BY <1>0, <2>1, <2>2
    <3>2. UNCHANGED <<statistics.Clipped, statistics.FirstClipSample>>
      BY <2>1, <2>2 DEF UpdateWavStatistics, TypeOK
    <3> QED BY <3>1, <3>2 DEF ClipsReported
  <2>3. CASE sampleNum \in job.clips
    <3>1. clips' = clips \cup {sampleNum} /\ sampleNum \notin clips
      BY <1>0, <2>1, <2>3
    <3>2. IsFiniteSet(clips)
      <4>1. IsFiniteSet(0 .. sampleNum - 1)
        BY <1>0, FS_Interval
      <4> QED BY <4>1, FS_Subset
    <3>3. Cardinality(clips') = Cardinality(clips) + 1
      BY <3>1, <3>2, FS_AddElement
    <3>4. /\ statistics'.Clipped = statistics.Clipped + 1
          /\ statistics'.FirstClipSample = IF statistics.FirstClipSample = 0 THEN sampleNum
                                           ELSE statistics.FirstClipSample
      BY <2>1, <2>3 DEF UpdateWavStatistics
    <3>5. \A n \in clips : n < sampleNum
      BY <1>0
    <3>6. /\ statistics.Clipped = Cardinality(clips)
          /\ statistics.FirstClipSample = 0 => clips \subseteq {0}
          /\ statistics.FirstClipSample # 0 => statistics.FirstClipSample \in clips
          /\ \A n \in clips : n = 0 \/ statistics.FirstClipSample <= n
      BY DEF ClipsReported
    <3>7. statistics.FirstClipSample \in Nat
      BY DEF TypeOK
    <3>8. clips \subseteq Nat
      BY <1>0
    <3>9. /\ statistics'.Clipped = Cardinality(clips')
          /\ statistics'.FirstClipSample = 0 => clips' \subseteq {0}
          /\ statistics'.FirstClipSample # 0 => statistics'.FirstClipSample \in clips'
          /\ \A n \in clips' : n = 0 \/ statistics'.FirstClipSample <= n
      <4> HIDE DEF clips
      <4>1. CASE statistics.FirstClipSample = 0
        <5>1. statistics'.FirstClipSample = sampleNum /\ clips \subseteq {0}
          BY <3>4, <3>6, <4>1
        <5>2. \A n \in clips' : n = 0 \/ sampleNum <= n
          BY <1>0, <3>1, <5>1
        <5>3. sampleNum = 0 => clips' \subseteq {0}
          BY <3>1, <5>1
        <5> QED BY <3>1, <3>3, <3>4, <3>6, <5>1, <5>2, <5>3
      <4>2. CASE statistics.FirstClipSample # 0
        BY <1>0, <3>1, <3>3, <3>4, <3>5, <3>6, <3>7, <3>8, <4>2
      <4> QED BY <4>1, <4>2
    <3> QED BY <3>9 DEF ClipsReported
  <2> QED BY <2>2, <2>3
<1>2. CASE TrailSample
  <2>1. UNCHANGED <<job, sampleNum, statistics.Clipped, statistics.FirstClipSample>>
    BY <1>2 DEF TrailSample, UpdateWavStatistics, loopVars, TypeOK
  <2> QED BY <2>1 DEF ClipsReported
<1>3. CASE ~(ProcessInput \/ TrailSample)
  <2>1. UNCHANGED <<job, sampleNum, statistics>>
    BY <1>3 DEF Next, ReadChunk, EndOfInput, CallPanics, BeginTrail, EndTrail, SaveAsWAV, Stream,
       vars, loopVars, callVars
  <2> QED BY <2>1 DEF ClipsReported
<1> QED BY <1>1, <1>2, <1>3

\* The count of the clips is right, and so is the first one, unless it is sample 0.
THEOREM ClipsAreReported == Spec => []ClipsReported
<1>1. Init => ClipsReported
  BY FS_EmptySet DEF Init, ClipsReported
<1> QED BY <1>1, ClipStep, TypeInvariant, PTL DEF Spec

-----------------------------------------------------------------------------
(* The file *)

\* What has been handed over are the first samples; the last buffer ends the file
\* without being written.
FileInv ==
  /\ stage \notin {"write", "done"} => handed = <<>> /\ file = <<>> /\ samplesWritten = 0
  /\ stage = "write" => handed = SubSeq(outSamples, 1, samplesWritten) /\ file = handed
  /\ HandedOverOnce

\* The encoder takes the samples from a place on.
LEMMA SubSeqStep ==
  ASSUME NEW S, NEW s \in Seq(S), NEW m \in Nat, NEW n \in Nat, m + n <= Len(s)
  PROVE  SubSeq(s, 1, m) \o SubSeq(s, m + 1, m + n) = SubSeq(s, 1, m + n)
  OBVIOUS

LEMMA SubSeqPrefix ==
  ASSUME NEW S, NEW s \in Seq(S), NEW m \in Nat, NEW n \in Nat, m <= n, n <= Len(s)
  PROVE  IsPrefix(SubSeq(s, 1, m), SubSeq(s, 1, n)) /\ Len(SubSeq(s, 1, m)) = m
  BY DEF IsPrefix

LEMMA StreamStep ==
  ASSUME TypeInv, FileInv, Stream
  PROVE  FileInv'
<1> DEFINE left == Len(outSamples) - samplesWritten
           full == left >= BufferLen
           n    == IF full THEN BufferLen ELSE left
           more == full /\ samplesWritten + n < Len(outSamples)
<1>0. /\ outSamples \in Seq(1 .. Len(calls)) /\ samplesWritten \in Nat
      /\ samplesWritten <= Len(outSamples) /\ (samplesWritten < Len(outSamples) \/ outSamples = <<>>)
      /\ BufferLen \in Nat \ {0} /\ Len(outSamples) \in Nat
      /\ stage = "write" /\ outSamples' = outSamples
  <2>1. stage = "write" /\ outSamples' = outSamples
    BY DEF Stream, callVars
  <2>2. outSamples \in Seq(1 .. Len(calls)) /\ samplesWritten \in Nat /\ Len(outSamples) \in Nat
    BY DEF TypeInv, TypeOK
  <2> QED BY <2>1, <2>2, EmulatorAssumption DEF TypeInv, WriteInv
<1>1. /\ samplesWritten' = (IF full THEN samplesWritten + n ELSE samplesWritten)
      /\ handed' = handed \o Streamed(n)
      /\ file' = (IF more THEN file \o Streamed(n) ELSE file)
      /\ stage' = (IF more THEN "write" ELSE "done")
  BY DEF Stream
<1>2. n \in Nat /\ samplesWritten + n <= Len(outSamples) /\ (outSamples = <<>> \/ n \in 1 .. BufferLen)
      /\ (more => full) /\ (~more => samplesWritten + n = Len(outSamples))
  BY <1>0
<1> HIDE DEF n, more, full, left
<1>3. handed' = SubSeq(outSamples, 1, samplesWritten + n)
  <2>1. handed = SubSeq(outSamples, 1, samplesWritten)
    BY <1>0 DEF FileInv
  <2> QED BY <1>0, <1>1, <1>2, <2>1, SubSeqStep DEF Streamed
<1>4. file' = IF more THEN handed' ELSE SubSeq(outSamples, 1, samplesWritten)
  BY <1>0, <1>1 DEF FileInv
<1>5. outSamples = SubSeq(outSamples, 1, Len(outSamples))
  BY <1>0
<1>6. /\ Len(handed') = samplesWritten + n /\ IsPrefix(handed', outSamples)
      /\ IsPrefix(handed', handed') /\ IsPrefix(SubSeq(outSamples, 1, samplesWritten), handed')
      /\ Len(SubSeq(outSamples, 1, samplesWritten)) = samplesWritten
  <2>1. /\ samplesWritten + n \in Nat
        /\ samplesWritten + n <= samplesWritten + n
        /\ samplesWritten <= samplesWritten + n
    BY <1>0, <1>2
  <2>2. Len(handed') = samplesWritten + n /\ IsPrefix(handed', outSamples)
    <3>1. /\ IsPrefix(SubSeq(outSamples, 1, samplesWritten + n), SubSeq(outSamples, 1, Len(outSamples)))
          /\ Len(SubSeq(outSamples, 1, samplesWritten + n)) = samplesWritten + n
      BY <1>0, <1>2, <2>1, SubSeqPrefix
    <3> QED BY <1>3, <1>5, <3>1
  <2>3. IsPrefix(handed', handed')
    BY <1>0, <1>2, <1>3, <2>1, SubSeqPrefix
  <2>4. /\ IsPrefix(SubSeq(outSamples, 1, samplesWritten), handed')
        /\ Len(SubSeq(outSamples, 1, samplesWritten)) = samplesWritten
    BY <1>0, <1>2, <1>3, <2>1, SubSeqPrefix
  <2> QED BY <2>2, <2>3, <2>4
<1>7. CASE more
  BY <1>0, <1>1, <1>2, <1>3, <1>4, <1>6, <1>7 DEF FileInv, HandedOverOnce
<1>8. CASE ~more
  <2>1. /\ handed' = outSamples /\ stage' = "done"
        /\ outSamples = <<>> \/ Len(handed') - Len(file') \in 1 .. BufferLen
    BY <1>0, <1>1, <1>2, <1>3, <1>4, <1>5, <1>6, <1>8
  <2> QED BY <1>0, <1>4, <1>6, <1>8, <2>1 DEF FileInv, HandedOverOnce
<1> QED BY <1>7, <1>8

LEMMA FileStep == TypeInv /\ FileInv /\ [Next]_vars => FileInv'
<1> SUFFICES ASSUME TypeInv, FileInv, [Next]_vars PROVE FileInv'
  OBVIOUS
<1>1. CASE Stream
  BY <1>1, StreamStep
<1>2. CASE UNCHANGED vars
  BY <1>2 DEF FileInv, HandedOverOnce, vars, callVars, writeVars
<1>3. CASE \/ ReadChunk \/ EndOfInput \/ ProcessInput \/ CallPanics
           \/ BeginTrail \/ TrailSample \/ EndTrail \/ SaveAsWAV
  <2>1. UNCHANGED writeVars /\ stage \notin {"write", "done"} /\ stage' # "done"
    BY <1>3 DEF ReadChunk, EndOfInput, ProcessInput, CallPanics, BeginTrail, TrailSample, EndTrail, SaveAsWAV, Stages
  <2>2. handed' = <<>> /\ file' = <<>> /\ samplesWritten' = 0
    BY <2>1 DEF FileInv, writeVars
  <2>3. outSamples' \in Seq(1 .. Len(calls'))
    BY TypeStep DEF TypeInv, TypeOK
  <2>4. IsPrefix(<<>>, outSamples') /\ IsPrefix(<<>>, <<>>) /\ SubSeq(outSamples', 1, 0) = <<>>
    BY <2>3 DEF IsPrefix
  <2> QED BY <2>1, <2>2, <2>4 DEF FileInv, HandedOverOnce
<1> QED BY <1>1, <1>2, <1>3 DEF Next

\* The encoder is handed every sample once and in order, and the file lacks the
\* last buffer, whatever the two lengths; without a sample it lacks nothing.
THEOREM SamplesAreHandedOver == Spec => []HandedOverOnce
<1>1. Init => FileInv
  BY DEF Init, FileInv, HandedOverOnce, IsPrefix
<1>2. FileInv => HandedOverOnce
  BY DEF FileInv
<1> QED BY <1>1, <1>2, FileStep, TypeInvariant, PTL DEF Spec
=============================================================================
