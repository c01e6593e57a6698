\* A second session replaces the image that procd has validated.
SPECIFICATION Spec
CONSTANTS
  Board = {"zte,133", "other"}
  ThisBoard = "zte,133"
  SKD_KERNEL_MAX = 8
  SKD_DTB_MAX = 1
  SKD_ROOTFS_MAX = 241
  DeviceCompat <- MCDeviceCompat
  MtdSize <- MCMtdSize
  FirstImage = "old"
  About <- MCAbout
  Session = {s1, s2}
  Image = {"old", "corrupt"}
  Option <- Meddling
  MaxFaults = 0
PROPERTIES
  VerifiedAnyway
\* A device that lost power while it was flashed stays dead.
CHECK_DEADLOCK FALSE
