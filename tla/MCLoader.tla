------------------------------ MODULE MCLoader ------------------------------
(***************************************************************************)
(* Files for Loader: words of every opcode with boundary operands, images  *)
(* of several programs with and without ends, HEX records of all kinds.    *)
(***************************************************************************)
EXTENDS Loader

\* The int32 of an opcode and the 27 bits above it.
W(opcode, p) == (IF p >= 2^26 THEN p - 2^27 ELSE p) * 32 + opcode

\* Nothing, everything, each bit, everything but a bit, fields of alternating
\* bits, and LDAX's, ABSA's and NOP's with one bit too many.
Operands == {0, 2^27 - 1, 44739242, 89478485} \cup {2^b : b \in 0 .. 26} \cup {2^27 - 1 - 2^b : b \in 0 .. 26}

Bytes(words) ==
  FlattenSeq([i \in DOMAIN words |->
    <<(words[i] \div 2^24) % 256, (words[i] \div 2^16) % 256, (words[i] \div 2^8) % 256, words[i] % 256>>])

Bin(bs) == [suffix |-> ".bin", bytes |-> bs, records |-> <<>>]

\* NOP and another SKP 0, a register read, one written, a filter.
NOPWord == W(17, 0)
SKP0Word == W(17, 2^22)
RDAXWord == W(4, 20 + 2^25)
WRAXWord == W(6, 22)
RDFXWord == W(5, 21 + 2^20)

Images(n) == UNION {[1 .. k -> {NOPWord, SKP0Word, RDAXWord, WRAXWord}] : k \in 0 .. n}

R(type, data, line) == [type |-> type, data |-> data, line |-> line]

\* Bytes in records of c; the last may be shorter.
Records(bs, c) ==
  [i \in 1 .. (Len(bs) + c - 1) \div c |->
    R(0, SubSeq(bs, c * (i - 1) + 1, IF c * i < Len(bs) THEN c * i ELSE Len(bs)), "whole")]

Hex(records) == [suffix |-> ".hex", bytes |-> <<>>, records |-> records]

SomeWords == <<RDAXWord, RDFXWord, WRAXWord, W(20, 2^26), W(7, 23), W(9, 17), W(10, 16), W(13, 1)>>

Address == R(4, <<0, 6>>, "whole")
End == R(1, <<>>, "whole")

\* Before the data: nothing, addresses, an address too short for its bytes, a record
\* whose digits end after the first pair.  After it: nothing, an end with or without
\* more, an end too short to have its type or its bytes on the line, no bytes, a
\* broken pair, too few characters, no type.
HexFiles ==
  {Hex(pre \o Records(SubSeq(Bytes(SomeWords), 1, 4 * k), c) \o post) :
     k \in 0 .. 6, c \in {2, 4, 6, 16},
     pre \in {<<>>, <<Address>>, <<R(5, <<0, 0, 0, 1>>, "whole"), R(4, <<>>, "short")>>, <<R(0, <<7>>, "whole")>>},
     post \in {<<>>, <<End>>, <<End, R(0, <<1, 2, 3, 4>>, "whole")>>, <<R(1, <<>>, "short")>>,
               <<R(0, <<>>, "whole")>>, <<R(0, <<9>>, "garbled")>>, <<R(0, <<>>, "short"), End>>,
               <<R(0, <<>>, "cut")>>}}

MCProgramNumbers == {-1, 0, 1, 2, 8}

MCFiles ==
  {Bin(Bytes(<<W(o, p)>>)) : o \in 0 .. 31, p \in Operands}
    \cup {Bin(Bytes(im)) : im \in Images(6)}
    \cup {Bin(SubSeq(Bytes(<<RDFXWord, W(8, 18)>>), 1, n)) : n \in 5 .. 8}
    \cup HexFiles
    \cup {[suffix |-> "other", bytes |-> Bytes(<<RDAXWord>>), records |-> <<>>]}
=============================================================================
