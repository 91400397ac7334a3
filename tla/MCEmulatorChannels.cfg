\* The left channel of the input is in ADCL.
CONSTANTS
  Jobs <- MCJobs
  ChunkLen = 4
  BufferLen = 2
SPECIFICATION Spec
INVARIANT AdclIsLeft
CHECK_DEADLOCK FALSE
