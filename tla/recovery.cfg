CONSTANTS
  x1 = x1
  x2 = x2
  Executions <- MCExecutions
  Messages <- MCMessages
  Answers <- MCAnswers
  Registered <- MCRegistered
  Errors <- MCErrors
  MaxRetries = 1
  MaxAlternatives = 2
  NumSteps = 3
  PlanTools = {"", "fs.read", "shell"}
  AvailableTools = {"fs.read"}
SPECIFICATION MCSpec
CHECK_DEADLOCK FALSE
INVARIANTS RecoveryBounded SuccessIsComplete ValidIsRunnable
PROPERTIES EveryExecutionEnds
