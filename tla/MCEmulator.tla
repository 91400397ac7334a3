----------------------------- MODULE MCEmulator -----------------------------
(***************************************************************************)
(* Jobs for Emulator: inputs that end within a chunk, with one and without *)
(* any, stopped before, at and after their end.                            *)
(***************************************************************************)
EXTENDS Emulator

MCJobs == [input : {0, 1, 3, 4, 7, 8}, stereo : BOOLEAN, stopAt : {-1, 0, 2, 4, 6, 10},
           trail : {0, 1, 3}, clips : {{}, {0}, {0, 2, 3}, {5, 8}}]
=============================================================================
