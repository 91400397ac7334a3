\* -trail adds a trail.
CONSTANTS
  Jobs <- MCJobs
  ChunkLen = 4
  BufferLen = 2
SPECIFICATION Spec
INVARIANT TrailIsAdded
CHECK_DEADLOCK FALSE
