\* Two callers, one of them with a corrupt image.
SPECIFICATION Spec
CONSTANTS
  Board = {"zte,133", "other"}
  ThisBoard = "zte,133"
  SKD_KERNEL_MAX = 8
  SKD_DTB_MAX = 1
  SKD_ROOTFS_MAX = 241
  DeviceCompat <- MCDeviceCompat
  MtdSize <- MCMtdSize
  About <- MCAbout
  Caller = {c1, c2}
  SavesConfig = {c1}
  IgnoresMinor = {}
  Image = {"old", "corrupt"}
INVARIANTS
  ValidMeansOwnImage
