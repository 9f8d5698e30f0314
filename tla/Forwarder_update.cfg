SPECIFICATION FairSpec
CONSTANTS
  N = 2
  Matching <- MCMatching
  Jobs = {"f", "x"}
  Forwards <- MCForwards
  Extracts <- MCExtracts
  MaxEmailsPerCycle = 2
  NTasks = 2
  MaxFaults = 1
INVARIANT TypeOK
INVARIANT MarkedAfterSending
 
INVARIANT RepeatsHaveACause
INVARIANT MovedMailIsCopied
