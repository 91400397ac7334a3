\* The statement of settings.go that all values are clamped to 24 bits, on
\* absolute values of inputs below 1.0.
CONSTANTS
  One = 16
  Word = 128
  Disable24BitsClamping = FALSE
  Period = 8
  SineTable <- MCSineTable
  MaxSineRate = 32
  RateHalf = 8
  MaxRampAmp = 8
  SineAmpDiv = 4
  Programs <- AbsPrograms
  Inputs <- AbsInputs
  Pots <- MCPots
  RegNos <- MCRegNos
  MemSize = 4
  AddrDiv = 4
  SinRateDiv = 2
  SinRangeDiv = 1
  RampRateDiv = 1
  RampAmpValues <- MCRampAmpValues
  InstructionsPerSample = 3
  AllowAllChoRdalFlags = TRUE
  MaxSamples = 2
  BitAnd <- MCAnd
  BitOr <- MCOr
  BitXor <- MCXor
  Log2 <- MCLog2
  Exp2 <- MCExp2
SPECIFICATION Spec
INVARIANT AccFitsIn24Bits
CHECK_DEADLOCK FALSE
