SPECIFICATION Spec
CONSTANTS
  N = 2
  Matching <- MCMatching
  Jobs = {"f", "x"}
  Forwards <- MCForwards
  Extracts <- MCExtracts
  MaxEmailsPerCycle = 2
  NTasks = 1
  MaxFaults = 1
INVARIANT MoveKeepsMail
