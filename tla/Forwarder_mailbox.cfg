SPECIFICATION FairSpec
CONSTANTS
  N = 3
  Matching <- MCMatching
  Jobs = {"f", "x"}
  Forwards <- MCForwards
  Extracts <- MCExtracts
  MaxEmailsPerCycle = 2
  NTasks = 1
  MaxFaults = 2
INVARIANT HandlesWhatItFound
INVARIANT MovedMailIsCopied
PROPERTY MatchingMailIsAttended
