\* One browser and the default times; or three processes that call again and again.
SPECIFICATION CallsSpec
CONSTANTS
  Browser = {b1}
  Rollback <- NinetySeconds
  Minimum <- NinetySeconds
  Lossy = FALSE
  Call = {c1, c2, c3}
  Inode <- MCInode
  NoFile = NoFile
  FlockFails = TRUE
INVARIANTS
  ToldApplied
  NothingLeft
PROPERTIES
  ToldRolledBack
  WaitingIsTold
  CutIsUndone
  OwnReport
  CallReturns
\* A change applied for good that cuts everybody off leaves nothing to do.
CHECK_DEADLOCK FALSE
