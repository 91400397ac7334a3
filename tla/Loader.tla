------------------------------- MODULE Loader -------------------------------
(***************************************************************************)
(* From the program file to the instructions ProcessSample is given: the   *)
(* check of -prog, ReadBin and ReadHex, the choice of the program,         *)
(* DecodeOpCodes, and what main reports of it.                             *)
(*                                                                         *)
(* A BIN file is its bytes, a HEX file its lines, taken as ReadHex takes   *)
(* them apart.  Addresses and checksums are not looked at.                 *)
(***************************************************************************)
EXTENDS Decoder, SequencesExt

CONSTANTS
  Files,
  ProgramNumbers,         \* values of -prog
  InstructionsPerSample   \* 128

Byte == 0 .. 255

\* A line of a HEX file: what is found at the place of its type, if need be in the
\* bytes of bufio's buffer behind a short line, or 0 if that is no number; the pairs
\* of digits Sscanf takes, which a character that is no digit ends; and whether the
\* line is too short for its number of bytes (or that is negative), has a broken
\* pair or none, or lies so close to the end of the buffer that it has no type.
Record == [type : Int, data : Seq(Byte), line : {"whole", "short", "garbled", "cut"}]

File == [suffix : {".bin", ".hex", "other"}, bytes : Seq(Byte), records : Seq(Record)]

ASSUME LoaderAssumption ==
  /\ Files \subseteq File
  /\ ProgramNumbers \subseteq Int
  /\ InstructionsPerSample \in Nat \ {0}

VARIABLES
  file, programNumber,
  stage,
  linesRead,  \* of a HEX file
  bytes,      \* program data of its records
  buf,        \* words
  ops

vars == <<file, programNumber, stage, linesRead, bytes, buf, ops>>

Stages == {"check", "read", "chunks", "choose", "decode", "report", "run", "refused", "panic"}

Init ==
  /\ file \in Files /\ programNumber \in ProgramNumbers
  /\ stage = "check" /\ linesRead = 0 /\ bytes = <<>> /\ buf = <<>> /\ ops = <<>>

-----------------------------------------------------------------------------
CheckCommandLine ==
  /\ stage = "check"
  /\ stage' = IF programNumber \in 0 .. 7 THEN "read" ELSE "refused"
  /\ UNCHANGED <<file, programNumber, linesRead, bytes, buf, ops>>

\* The int32 of four bytes, by binary.BigEndian.
BigEndian(b1, b2, b3, b4) ==
  (IF b1 >= 128 THEN b1 - 256 ELSE b1) * 2^24 + b2 * 2^16 + b3 * 2^8 + b4

\* The first n words of a buffer.
Chunks(bs, n) ==
  [i \in 1 .. n |-> BigEndian(bs[4 * i - 3], bs[4 * i - 2], bs[4 * i - 1], bs[4 * i])]

\* Four bytes at a time; bytes[i:i+4] panics in a last chunk that is shorter.
ReadBin ==
  /\ stage = "read" /\ file.suffix = ".bin"
  /\ IF Len(file.bytes) % 4 = 0
     THEN buf' = Chunks(file.bytes, Len(file.bytes) \div 4) /\ stage' = "choose"
     ELSE buf' = buf /\ stage' = "panic"
  /\ UNCHANGED <<file, programNumber, linesRead, bytes, ops>>

\* A file that is neither is not read at all.
ReadNothing ==
  /\ stage = "read" /\ file.suffix = "other"
  /\ stage' = "choose"
  /\ UNCHANGED <<file, programNumber, linesRead, bytes, buf, ops>>

\* The end of the file, or an end record, however short.
EndsHex ==
  linesRead < Len(file.records)
    => file.records[linesRead + 1].type = 1 /\ file.records[linesRead + 1].line # "cut"

\* Mutant: only an end record ends the file.
EndHexAtRecord ==
  /\ stage = "read" /\ file.suffix = ".hex" /\ EndsHex /\ linesRead < Len(file.records)
  /\ stage' = "chunks"
  /\ UNCHANGED <<file, programNumber, linesRead, bytes, buf, ops>>

EndHex ==
  /\ stage = "read" /\ file.suffix = ".hex" /\ EndsHex
  /\ stage' = "chunks"
  /\ UNCHANGED <<file, programNumber, linesRead, bytes, buf, ops>>

\* Mutant: the bytes of an address record are taken for data.
ReadEveryRecord ==
  /\ stage = "read" /\ file.suffix = ".hex" /\ ~EndsHex
  /\ LET r == file.records[linesRead + 1]
     IN  /\ stage' = IF r.line \in {"cut", "short"} THEN "panic"
                     ELSE IF r.line = "garbled" \/ r.data = <<>> THEN "refused" ELSE "read"
         /\ bytes' = IF stage' = "read" THEN bytes \o r.data ELSE bytes
  /\ linesRead' = linesRead + 1
  /\ UNCHANGED <<file, programNumber, buf, ops>>

\* Types other than 0 are passed over.  A line that has no type, or too few
\* characters for its bytes, panics; one with a broken pair of digits, or none, is
\* an error, and one whose digits end at a pair is shorter than it says.
ReadRecord ==
  /\ stage = "read" /\ file.suffix = ".hex" /\ ~EndsHex
  /\ LET r == file.records[linesRead + 1]
     IN  /\ stage' = IF r.line = "cut" \/ (r.type = 0 /\ r.line = "short") THEN "panic"
                     ELSE IF r.type = 0 /\ (r.line = "garbled" \/ r.data = <<>>) THEN "refused"
                     ELSE "read"
         /\ bytes' = IF r.type = 0 /\ stage' = "read" THEN bytes \o r.data ELSE bytes
  /\ linesRead' = linesRead + 1
  /\ UNCHANGED <<file, programNumber, buf, ops>>

\* "i < len(bytes) - 4": the last word of a whole number of words is left out.
CollectChunks ==
  /\ stage = "chunks"
  /\ buf' = Chunks(bytes, IF Len(bytes) <= 4 THEN 0 ELSE (Len(bytes) - 1) \div 4)
  /\ stage' = "choose"
  /\ UNCHANGED <<file, programNumber, linesRead, bytes, ops>>

Start == programNumber * InstructionsPerSample

ChooseProgram ==
  /\ stage = "choose"
  /\ stage' = IF Len(buf) <= Start THEN "refused" ELSE "decode"
  /\ UNCHANGED <<file, programNumber, linesRead, bytes, buf, ops>>

\* Mutant: only what is named NOP ends a program.
EndsProgramNOP(op) == op.name = "NOP"

EndsProgram(op) == op.name \in {"SKP", "NOP"} /\ op.args[2] = 0

More == Start + Len(ops) < Len(buf)

Decoded == DecodeOp(buf[Start + Len(ops) + 1])

\* The range of DecodeOpCodes' loop has ended, or the loop breaks.
EndOfProgram ==
  /\ stage = "decode" /\ (More => EndsProgram(Decoded))
  /\ stage' = "report"
  /\ UNCHANGED <<file, programNumber, linesRead, bytes, buf, ops>>

\* Instruction n = Len(ops) of the program; the fuse blows after it.
DecodeOpCode ==
  /\ stage = "decode" /\ More /\ ~EndsProgram(Decoded)
  /\ ops' = Append(ops, Decoded)
  /\ stage' = IF Len(ops) > InstructionsPerSample THEN "report" ELSE "decode"
  /\ UNCHANGED <<file, programNumber, linesRead, bytes, buf>>

\* main gives an empty program back, and prints what a program uses.
Report ==
  /\ stage = "report"
  /\ stage' = IF ops = <<>> THEN "refused" ELSE "run"
  /\ UNCHANGED <<file, programNumber, linesRead, bytes, buf, ops>>

Next ==
  \/ CheckCommandLine \/ ReadBin \/ ReadNothing \/ EndHex \/ ReadRecord \/ CollectChunks
  \/ ChooseProgram \/ EndOfProgram \/ DecodeOpCode \/ Report

Spec == Init /\ [][Next]_vars /\ WF_vars(Next)
-----------------------------------------------------------------------------
(* Properties *)

TypeOK ==
  /\ programNumber \in ProgramNumbers /\ stage \in Stages
  /\ linesRead \in 0 .. Len(file.records) /\ bytes \in Seq(Byte)
  /\ buf \in Seq(Int32)
  /\ \A i \in DOMAIN ops : /\ ops[i].args \in Seq(-2^23 .. 2^25 - 1)
                           /\ ops[i].name \in Masks => ops[i].args[2] < 2^23

\* The records before the end record, and the program data of a file: the bytes of
\* a BIN, those of these records of type 0 in a HEX.
Body(f) == {i \in DOMAIN f.records : \A j \in 1 .. i : f.records[j].type # 1}

Content(f) ==
  CASE f.suffix = ".bin" -> f.bytes
    [] f.suffix = ".hex" ->
         FlattenSeq([i \in Body(f) |-> IF f.records[i].type = 0 THEN f.records[i].data ELSE <<>>])
    [] OTHER             -> <<>>

\* Byte k of a word, from 0 for the most significant.
ByteOf(w, k) == (w \div 256^(3 - k)) % 256

\* What is decoded is the file's bytes from its first on, four to a word in their
\* order, however records of any length cut them up and whatever lies between: all
\* of a BIN, and of a HEX every word that has a byte behind it.
LoadsInOrder ==
  stage \in {"choose", "decode", "report", "run"} =>
    LET content == Content(file)
    IN  /\ \A i \in DOMAIN buf, k \in 0 .. 3 :
             /\ 4 * (i - 1) + k + 1 \in DOMAIN content
             /\ ByteOf(buf[i], k) = content[4 * (i - 1) + k + 1]
        /\ file.suffix = ".bin" => 4 * Len(buf) = Len(content)
        /\ file.suffix = ".hex" => \/ Len(content) - 4 * Len(buf) \in 1 .. 4
                                   \/ content = <<>> /\ buf = <<>>

\* A SKP over no instructions, whatever its flags, to the word's bits.
Terminates(w) == w % 32 = 17 /\ Bits(w, 21, 6) = 0

\* What runs is the words of the buffer from the chosen program's place up to
\* the first SKP 0, the end of the buffer or the fuse, whichever comes first.
LoadsUpToEnd ==
  stage = "run" =>
    LET here == SubSeq(buf, Start + 1, Len(buf))
        n    == Len(ops)
    IN  /\ n \in 1 .. Len(here)
        /\ ops = [i \in 1 .. n |-> DecodeOp(here[i])]
        /\ \A i \in 1 .. n : ~Terminates(here[i])
        /\ n = Len(here) \/ Terminates(here[n + 1]) \/ n = InstructionsPerSample + 2

\* Every instruction, put back together by the assembler's layout, is the word it
\* came from: no two fields overlap, none is cut, none takes another's sign.
\* Bits that are not part of it are not seen.  And it can be executed, unless
\* its opcode is not in use or it is the CHO of the subcommand 01.
Reassembles ==
  stage = "run" =>
    \A i \in DOMAIN ops :
      LET w == buf[Start + i]
      IN  IF w % 32 > 20 THEN ops[i] = [name |-> "", args |-> <<>>]
          ELSE /\ Encode(ops[i]) = Cleared(w)
               /\ ops[i].name \in OpTable \cup {"CHO <?>"}
               /\ ops[i].name = "CHO <?>" <=> w % 32 = 20 /\ Bits(w, 30, 2) = 1

\* Words that read or write the register they name, and those of them that the
\* scans overlook: WRHX, WRLX, MAXX and RDFX with a coefficient.
ReadsRegister(w)  == w % 32 \in {4, 5, 9, 10}
WritesRegister(w) == w % 32 \in {6, 7, 8}
Overlooked(w)     == w % 32 \in {7, 8, 9} \/ (w % 32 = 5 /\ Bits(w, 16, 16) # 0)

RegistersIn(words) == {Bits(w, 5, 6) : w \in words}

Here == {buf[Start + i] : i \in DOMAIN ops}

\* What main reports is used by some word, to its bits; what is used is reported,
\* unless every word that uses it is overlooked: no alias hides an instruction from
\* the scans, and none shows them one that is not there.  With such words only, main
\* says "The program takes no input" (fv1emu.go:598) or "will generate no sound"
\* (fv1emu.go:585) of a program that does.
UseReported ==
  stage = "run" =>
    LET readers == {w \in Here : ReadsRegister(w)}
        writers == {w \in Here : WritesRegister(w)}
        inputs  == PotensiometersInUse(ops) \cup ADCsInUse(ops)
    IN  /\ inputs \subseteq RegistersIn(readers)
        /\ RegistersIn({w \in readers : ~Overlooked(w)}) \cap {POT0, POT1, POT2, ADCL, ADCR} \subseteq inputs
        /\ DACsInUse(ops) \subseteq RegistersIn(writers)
        /\ RegistersIn({w \in writers : ~Overlooked(w)}) \cap {DACL, DACR} \subseteq DACsInUse(ops)

\* Every file is run or refused, or ends the emulator with a panic; one of whole
\* words, or whose data records are long enough, does not panic.
Loads ==
  <>(\/ stage \in {"run", "refused"}
     \/ stage = "panic" /\ (\/ Len(file.bytes) % 4 # 0
                            \/ \E i \in DOMAIN file.records :
                                 \/ file.records[i].line = "cut"
                                 \/ file.records[i].line = "short" /\ file.records[i].type = 0))

\* reader.go:87, "Collect all 32bits chunks": no four bytes of a HEX file are left.
CollectsAllChunks ==
  stage = "choose" /\ file.suffix = ".hex" => Len(bytes) - 4 * Len(buf) < 4

\* fv1emu.go:90, "Which program to load for multiprogram BIN/HEX files"; programs
\* are InstructionsPerSample words apart (fv1emu.go:254).
LoadsOneProgram == stage = "run" => Len(ops) <= InstructionsPerSample
=============================================================================
