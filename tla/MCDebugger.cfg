\* Sessions with the debugger, every key in every order.
CONSTANTS
  Programs <- MCPrograms
  NumSamples = 4
  SkipTo = {0, 2}
  SkipCounts = {1, 2}
  InstructionsPerSample = 3
  MemSize = 3
  CursorStep = 2
  Heights = {7, 9}
  Values = 8
SPECIFICATION Spec
INVARIANTS TypeOK ShownAsAsked WatchingIsHarmless ReplayIsExact SessionSurvives SearchEnds
PROPERTY Responds
CHECK_DEADLOCK FALSE
