\* Two tasks at once, sharing a secret and a second of the clock.
CONSTANTS
  A = A
  B = B
  v1 = v1
  v2 = v2
  t1 = t1
  t2 = t2
  r1 = r1
  n = n
  None = None
  Stacks = {A, B}
  Secrets = {"g"}
  Configs = {"c"}
  Networks = {n}
  Needs <- NeedsAB
  Uses <- UsesAB
  Values = {v1, v2}
  Shas = {"4711029"}
  ShortShas = {"4711029"}
  MaxTime = 1
  Tasks = {t1, t2}
  Plan <- PlanTwo
  InitsNets = {t1, t2}
  Cleaners = {}
  Removers = {}
  RemovePlan <- RemoveA
  PollFaults = FALSE
SPECIFICATION Spec
INVARIANTS
  ServicesMountWhatWasResolved
  TasksReportFailures
  
CHECK_DEADLOCK FALSE
SYMMETRY SymmetricValues
