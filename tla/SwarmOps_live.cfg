\* One task that deploys a stack twice, a cleanup and a removal at any time.
CONSTANTS
  A = A
  B = B
  v1 = v1
  v2 = v2
  t1 = t1
  t2 = t2
  r1 = r1
  n = n
  None = None
  Stacks = {A}
  Secrets = {"g"}
  Configs = {"c"}
  Networks = {n}
  Needs <- NeedsAB
  Uses <- UsesAB
  Values = {v1}
  Shas = {"4711029"}
  ShortShas = {"4711029"}
  MaxTime = 0
  Tasks = {t1}
  Plan <- PlanOne
  InitsNets = {t1}
  Cleaners = {"c1"}
  Removers = {r1}
  RemovePlan <- RemoveA
  PollFaults = FALSE
SPECIFICATION FairSpec
PROPERTIES
  RunsAdvance
  RunsTerminate
CHECK_DEADLOCK FALSE
