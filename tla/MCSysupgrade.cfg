\* One session, command lines of every kind, good and bad images.
SPECIFICATION FairSpec
CONSTANTS
  Board = {"zte,133", "other"}
  ThisBoard = "zte,133"
  SKD_KERNEL_MAX = 8
  SKD_DTB_MAX = 1
  SKD_ROOTFS_MAX = 241
  DeviceCompat <- MCDeviceCompat
  MtdSize <- MCMtdSize
  FirstImage = "old"
  About <- MCAbout
  Session = {s1}
  Image = {"old", "corrupt", "nodtb", "bigkernel", "minorbump"}
  Option <- Anything
  MaxFaults = 2
INVARIANTS
  TypeOK
  OnlyFaultsBreakFlash
PROPERTIES
  PreflightBeforeErase
  KernelLast
  ArchiveMatchesRequest
  NoConfigAcrossCompat
  FlashesWhatWasAsked
  SettingsKept
  UpgradeEnds
\* A device that lost power while it was flashed stays dead.
CHECK_DEADLOCK FALSE
