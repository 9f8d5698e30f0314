\* verify() against a stack of three services, one exit of a task.
CONSTANTS
  Services = {"init", "web", "db"}
  Inits = {"init"}
  StartFirst = {"web"}
  Globals = {"db"}
  Timeout <- TimeoutSix
  Interval <- IntervalTwo
  MaxInterval <- MaxIntervalThree
  MaxExits = 1
SPECIFICATION Spec
INVARIANT
  SuccessMeansUpdated
CHECK_DEADLOCK FALSE
