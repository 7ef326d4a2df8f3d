SPECIFICATION FairSpec
CONSTANTS
  MapShapes <- MCMapShapes
  Instances <- MCInstances
  CmdLines <- MCCmdLines
  Dirs = {"a"}
  MaxFds = 16
  MaxFaults = 2
  MaxCalls = 4
  MaxOther = 2
  MaxRuns = 2
  MaxKills = 1
  MaxLinkOps = 1
INVARIANTS DescriptorsExact FailedCallUndone AttachedAsAsked CleanAfterSuccess
PROPERTIES SigintEnds
CHECK_DEADLOCK FALSE
