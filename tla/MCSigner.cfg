SPECIFICATION FairSpec
CONSTANTS
  Inputs <- MCInputs
  Precedes <- MCPrecedes
  ThLimit = 2
  MD5CalculatorLimit = 1
  PipeCap = 1
INVARIANTS ResultExact NeverOverheats JoinWaits NoPanic
PROPERTIES KeepsJobs PipelineReturns
CHECK_DEADLOCK FALSE
