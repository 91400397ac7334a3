---------------------------- MODULE MCDebugger ------------------------------
(***************************************************************************)
(* Programs for Debugger: straight ones, with and without memory, one that *)
(* skips its first instructions after the first sample, one that jumps to  *)
(* its end and one past it, an unused register, an error.                  *)
(***************************************************************************)
EXTENDS Debugger

O(name) == [name |-> name, n |-> 0, run |-> FALSE]
SkipRun(n) == [name |-> "SKP", n |-> n, run |-> TRUE]
Skip(n) == [name |-> "SKP", n |-> n, run |-> FALSE]

MCPrograms == {
  <<O("LDAX"), O("RDAX"), O("RDAX")>>,
  <<O("RDA"), O("RDAX"), O("WRA")>>,
  <<SkipRun(1), O("LDAX"), O("RDAX")>>,
  <<O("RDAX"), Skip(1), O("LDAX")>>,
  <<O("LDAX"), Skip(3)>>,
  <<O("UNUSED"), O("WRA")>>,
  <<O("LDAX"), SkipRun(1), O("ERROR"), O("WRA")>> }
=============================================================================
