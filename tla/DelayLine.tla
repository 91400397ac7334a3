----------------------------- MODULE DelayLine ------------------------------
(***************************************************************************)
(* What the delay RAM promises a program: a line of Length cells addressed *)
(* from 0.  A cell is written and read at its address, and when a shift is *)
(* asked for, at the end of the program in every sample, each value moves  *)
(* one address up: what was written at a is found at a+k after k shifts.   *)
(* There is no pointer and no address arithmetic here; Processor           *)
(* implements this specification with a RAM that stays in place and a      *)
(* pointer that moves.                                                     *)
(*                                                                         *)
(* request is the program's side: what it asks for next.  A read or a      *)
(* write is served, or refused for good with nothing changed; a shift is   *)
(* never refused, and the line does not move without one.                  *)
(***************************************************************************)
EXTENDS Integers

CONSTANTS
  Length,   \* number of cells, at least 1
  Value     \* what a cell can hold, 0 among it

VARIABLES
  line,     \* the value at each address
  tap,      \* the last value read
  request

vars == <<line, tap, request>>

Address == 0 .. Length - 1

Request ==
  [kind : {"none", "refused", "shift"}]
    \cup [kind : {"read"}, addr : Address]
    \cup [kind : {"write"}, addr : Address, value : Value]

Init ==
  /\ line = [a \in Address |-> 0] /\ tap = 0
  /\ request \in Request

Read ==
  /\ request.kind = "read"
  /\ tap' = line[request.addr] /\ UNCHANGED line

Write ==
  /\ request.kind = "write"
  /\ line' = [line EXCEPT ![request.addr] = request.value] /\ UNCHANGED tap

Refuse ==
  /\ request.kind \in {"read", "write"} /\ request'.kind = "refused"
  /\ UNCHANGED <<line, tap>>

\* The program does something else.
Rest == request.kind \in {"none", "refused"} /\ UNCHANGED <<line, tap>>

\* The value at the last address is the one that comes round to address 0.
Advance ==
  /\ request.kind = "shift"
  /\ line' = [a \in Address |-> IF a = 0 THEN line[Length - 1] ELSE line[a - 1]]
  /\ UNCHANGED tap

Next == (Read \/ Write \/ Refuse \/ Rest \/ Advance) /\ request' \in Request

Spec == Init /\ [][Next]_vars
=============================================================================
