\* A program file is cut into programs of two instructions.
CONSTANTS
  Files <- MCFiles
  ProgramNumbers <- MCProgramNumbers
  InstructionsPerSample = 2
SPECIFICATION Spec
INVARIANT LoadsOneProgram
CHECK_DEADLOCK FALSE
