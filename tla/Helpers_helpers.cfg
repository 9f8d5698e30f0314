\* Each of four programs on its own.
CONSTANTS
  Programs = {"exporter", "endpoint", "rules", "validate"}
  Targets = {"photos", "mail"}
  Runs = {"cron", "hand"}
  MaxHooks = 2
  Addrs = {"home", "moved", "six"}
  Foreign = {"six"}
  NoAddr = "none"
  Placeholder = "0.0.0.0"
  MaxEvents = 3
  Keywords = {"k", "l"}
  Blank = " "
  Mails <- MCMails
  RawRules <- MCRawRules
  Nodes <- MCNodes
  Paths = {1, 2}
  Stacks = {"a", "b"}
  Checkouts <- MCCheckouts
  Requests <- MCRequests
  Disks <- MCDisks
  Workers = 1
  MaxChanges = 1
SPECIFICATION HelpersSpec
INVARIANTS
  HelpersTypeOK
  RulesMeanTheirText
  EveryPathIsReported
  VerdictsAreTrue
  ChecksAreNotSkipped
  PathsAreCheckedWhereServicesRun
PROPERTIES
  StoreIsKept
  DirectPathComesUp
CHECK_DEADLOCK FALSE
