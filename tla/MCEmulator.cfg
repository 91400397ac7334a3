\* The emulator from input to file, chunks of four samples, buffers of two.
CONSTANTS
  Jobs <- MCJobs
  ChunkLen = 4
  BufferLen = 2
SPECIFICATION Spec
INVARIANTS TypeOK InputIsHeard SilentAfterFailure CountsAgree ClipsReported LengthAsAsked HandedOverOnce
PROPERTY Finishes
CHECK_DEADLOCK FALSE
