\* Delay memory and arithmetic with the clamping on: a RAM of four cells, so that the
\* pointer comes round within MaxSamples samples, and programs longer than a sample.
CONSTANTS
  One = 16
  Word = 128
  Disable24BitsClamping = FALSE
  Period = 8
  SineTable <- MCSineTable
  MaxSineRate = 32
  RateHalf = 8
  MaxRampAmp = 8
  SineAmpDiv = 4
  Programs <- InstructionsPrograms
  Inputs <- InstructionsInputs
  Pots <- MCPots
  RegNos <- MCRegNos
  MemSize = 4
  AddrDiv = 4
  SinRateDiv = 2
  SinRangeDiv = 1
  RampRateDiv = 1
  RampAmpValues <- MCRampAmpValues
  InstructionsPerSample = 3
  AllowAllChoRdalFlags = TRUE
  MaxSamples = 5
  BitAnd <- MCAnd
  BitOr <- MCOr
  BitXor <- MCXor
  Log2 <- MCLog2
  Exp2 <- MCExp2
SPECIFICATION Spec
INVARIANTS PassesCounted NoMemoryFault NoOverflowReported NoPanic
PROPERTIES ImplementsDelayLine EverySampleEnds CallsShorten
CHECK_DEADLOCK FALSE
