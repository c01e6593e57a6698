\* Two callers that validate good and bad images again and again.
SPECIFICATION Spec
CONSTANTS
  Board = {"zte,133", "other"}
  ThisBoard = "zte,133"
  SKD_KERNEL_MAX = 8
  SKD_DTB_MAX = 1
  SKD_ROOTFS_MAX = 241
  DeviceCompat <- MCDeviceCompat
  MtdSize <- MCMtdSize
  About <- MCAbout
  Caller = {c1, c2}
  SavesConfig = {c1}
  IgnoresMinor = {}
  Image = {"old", "nodtb", "bigkernel", "minorbump", "foreign", "nometa"}
INVARIANTS
  UndisturbedVerdict
  CleansUp
