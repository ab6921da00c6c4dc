SPECIFICATION FairSpec
CONSTANTS
  N = 4
  MaxInputs = 4
  PipeCap = 2
INVARIANTS InOrder LeaverBlocks
PROPERTIES FreeFlow PipelineReturns
CHECK_DEADLOCK FALSE
