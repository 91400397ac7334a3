\* HEX files to words.
CONSTANTS
  Files <- MCFiles
  ProgramNumbers <- MCProgramNumbers
  InstructionsPerSample = 2
SPECIFICATION Spec
INVARIANT CollectsAllChunks
CHECK_DEADLOCK FALSE
