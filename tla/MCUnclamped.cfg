\* The clamping is off, and CHO RDAL honours only REG and COMPC.
CONSTANTS
  One = 16
  Word = 128
  Disable24BitsClamping = TRUE
  Period = 8
  SineTable <- MCSineTable
  MaxSineRate = 32
  RateHalf = 8
  MaxRampAmp = 8
  SineAmpDiv = 4
  Programs <- UnclampedPrograms
  Inputs <- UnclampedInputs
  Pots <- MCPots
  RegNos <- MCRegNos
  MemSize = 4
  AddrDiv = 4
  SinRateDiv = 2
  SinRangeDiv = 1
  RampRateDiv = 1
  RampAmpValues <- MCRampAmpValues
  InstructionsPerSample = 8
  AllowAllChoRdalFlags = FALSE
  MaxSamples = 4
  BitAnd <- MCAnd
  BitOr <- MCOr
  BitXor <- MCXor
  Log2 <- MCLog2
  Exp2 <- MCExp2
SPECIFICATION Spec
PROPERTY ImplementsDelayLine
CHECK_DEADLOCK FALSE
