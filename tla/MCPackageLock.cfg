\* Three processes: one runs, one waits, one comes.
SPECIFICATION CallsSpec
CONSTANTS
  Browser = {b1}
  Rollback <- NinetySeconds
  Minimum <- NinetySeconds
  Lossy = FALSE
  Call = {c1, c2, c3}
  Inode <- MCInode
  NoFile = NoFile
  FlockFails = FALSE
INVARIANTS
  OneAtATime
\* A change applied for good that cuts everybody off leaves nothing to do.
CHECK_DEADLOCK FALSE
