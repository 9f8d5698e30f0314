\* One task that deploys a stack twice, a cleanup and a removal at any time.
CONSTANTS
  A = A
  B = B
  v1 = v1
  v2 = v2
  t1 = t1
  t2 = t2
  r1 = r1
  n = n
  None = None
  Stacks = {A}
  Secrets = {"g"}
  Configs = {"c"}
  Networks = {n}
  Needs <- NeedsAB
  Uses <- UsesAB
  Values = {v1, v2}
  Shas = {"4711029", "b0ba7ea", "local"}
  ShortShas = {"4711029", "b0ba7ea"}
  MaxTime = 0
  Tasks = {t1}
  Plan <- PlanOne
  InitsNets = {t1}
  Cleaners = {"c1"}
  Removers = {r1}
  RemovePlan <- RemoveA
  PollFaults = TRUE
SPECIFICATION Spec
INVARIANTS
  TypeOK
  ReferencedItemsExist
  AttachedNetworksExist
  

  
CHECK_DEADLOCK FALSE
SYMMETRY SymmetricValues
