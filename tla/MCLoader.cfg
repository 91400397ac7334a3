\* Files to programs, two instructions a sample.
CONSTANTS
  Files <- MCFiles
  ProgramNumbers <- MCProgramNumbers
  InstructionsPerSample = 2
SPECIFICATION Spec
INVARIANTS TypeOK LoadsInOrder LoadsUpToEnd Reassembles UseReported
PROPERTY Loads
CHECK_DEADLOCK FALSE
