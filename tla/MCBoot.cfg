\* Boots of a new system with the settings of the old one, two power losses.
SPECIFICATION FairSpec
CONSTANTS
  Script <- MCScript
  Position <- MCPosition
  Archived = {"10_disable_services"}
  Committing = {"10_disable_services", "15_odhcpd"}
  Failing = {"01_custom"}
  MaxFaults = 2
INVARIANTS
  ArchiveUntilSafe
  NeverRestoredAgain
  CompleteWithoutFaults
PROPERTIES
  OthersRun
