\* A rollback time below the minimum.
SPECIFICATION CallsSpec
CONSTANTS
  Browser = {b1}
  Rollback <- HalfAMinute
  Minimum <- NinetySeconds
  Lossy = FALSE
  Call = {c1, c2, c3}
  Inode <- MCInode
  NoFile = NoFile
  FlockFails = FALSE
INVARIANTS
  ToldApplied
\* A change applied for good that cuts everybody off leaves nothing to do.
CHECK_DEADLOCK FALSE
