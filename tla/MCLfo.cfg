\* The LFOs: a RAM of eight cells, and every CHO instruction with every set of
\* flags; the clamping is on.
CONSTANTS
  One = 16
  Word = 128
  Disable24BitsClamping = FALSE
  Period = 8
  SineTable <- MCSineTable
  MaxSineRate = 32
  RateHalf = 8
  MaxRampAmp = 8
  SineAmpDiv = 4
  Programs <- LfoPrograms
  Inputs <- LfoInputs
  Pots <- MCPots
  RegNos <- MCRegNos
  MemSize = 8
  AddrDiv = 2
  SinRateDiv = 2
  SinRangeDiv = 1
  RampRateDiv = 1
  RampAmpValues <- MCRampAmpValues
  InstructionsPerSample = 9
  AllowAllChoRdalFlags = TRUE
  MaxSamples = 3
  BitAnd <- MCAnd
  BitOr <- MCOr
  BitXor <- MCXor
  Log2 <- MCLog2
  Exp2 <- MCExp2
SPECIFICATION Spec
INVARIANTS TypeOK LfosKeepTime FrozenTogether NoOverflowReported NoPanic
PROPERTY ImplementsDelayLine
CHECK_DEADLOCK FALSE
