--------------------------- MODULE FirmwareImage ---------------------------
(***************************************************************************)
(* A sysupgrade image of the SK-D840N and the checks the scripts make on   *)
(* it: /lib/upgrade/fwtool.sh, platform_check_image and                    *)
(* /usr/libexec/validate_firmware_image.                                   *)
(*                                                                         *)
(* An image is a record of what the checks can tell apart.  Members are    *)
(* the files of the tar archive, sizes are counted in MiB, the metadata is *)
(* the fwtool trailer.  The image ships no /usr/bin/ucert, so              *)
(* fwtool_check_signature returns 0 for every image and is left out.       *)
(***************************************************************************)
EXTENDS Naturals

CONSTANTS
  Board,        \* board names that occur in image metadata
  ThisBoard,    \* what board_name prints on the running device
  DeviceCompat, \* <<major, minor>> of system.@system[0].compat_version
  MtdSize,      \* /proc/mtd: the size of every partition the kernel lists
  SKD_KERNEL_MAX, SKD_DTB_MAX, SKD_ROOTFS_MAX

Partition == {"kernel", "dtb", "root"}

Payload == {"uImage", "board.dtb", "rootfs.jffs2"}

Member == Payload \cup {"CONTROL", "sha256sums"}

\* The size every partition must have, which also bounds its payload.
MaxSize ==
  [kernel |-> SKD_KERNEL_MAX, dtb |-> SKD_DTB_MAX, root |-> SKD_ROOTFS_MAX]

\* The payload that is written to a partition.
PayloadOf == [kernel |-> "uImage", dtb |-> "board.dtb", root |-> "rootfs.jffs2"]

DeviceList == {"supported_devices", "new_supported_devices"}

Version == Nat \X Nat

ImageRecord ==
  [metadata : {"absent", "garbled", "present"}, \* fwtool -i / json_load
   devices  : [DeviceList -> SUBSET Board],     \* a missing list is empty
   compat   : Version,
   members  : SUBSET Member,                    \* what tar can read
   control  : Board,                            \* BOARD= line of CONTROL
   sums     : BOOLEAN,                          \* sha256sum -c sha256sums
   size     : [Payload -> Nat],
   build    : Nat]                              \* tells two releases apart

ASSUME FirmwareAssumption ==
  /\ ThisBoard \in Board
  /\ "zte,133" \in Board
  /\ DeviceCompat \in Version
  /\ \A p \in DOMAIN MtdSize : MtdSize[p] \in Nat
  /\ {SKD_KERNEL_MAX, SKD_DTB_MAX, SKD_ROOTFS_MAX} \subseteq Nat

-----------------------------------------------------------------------------

\* skd_mtd_size finds the partition and skd_check_partition compares it.
CheckPartition(p) == p \in DOMAIN MtdSize /\ MtdSize[p] = MaxSize[p]

LayoutMatches == \A p \in Partition : CheckPartition(p)

\* Mutant of FwtoolCheckImage: the minor version is not compared.
FwtoolCheckMajorOnly(img, save, ignoreMinor) ==
  /\ img.metadata = "present"
  /\ ThisBoard \in img.devices[IF img.compat = <<1, 0>>
                                 THEN "supported_devices"
                                 ELSE "new_supported_devices"]
  /\ img.compat[1] = DeviceCompat[1]

\* fwtool_check_image: metadata, board list, then the compat version.  save
\* is SAVE_CONFIG = 1 in the environment of the caller.
FwtoolCheckImage(img, save, ignoreMinor) ==
  /\ img.metadata = "present"
  /\ ThisBoard \in img.devices[IF img.compat = <<1, 0>>
                                 THEN "supported_devices"
                                 ELSE "new_supported_devices"]
  /\ img.compat[1] = DeviceCompat[1]
  /\ (img.compat # DeviceCompat /\ save) => ignoreMinor

\* The tests of platform_check_image on what it unpacked.  unpacked maps each
\* extracted member to the image it came from; when nobody else uses the check
\* directory that is one and the same image.  sha256sums lists the payloads
\* only, and images of one build have the same payloads.
ControlOk(unpacked) == unpacked["CONTROL"].control = "zte,133"

SumsOk(unpacked) ==
  /\ unpacked["sha256sums"].sums
  /\ \A m \in Payload : unpacked[m].build = unpacked["sha256sums"].build

\* An empty file is not in unpacked and fits.
SizesOk(unpacked) ==
  \A p \in Partition : PayloadOf[p] \in DOMAIN unpacked =>
    unpacked[PayloadOf[p]].size[PayloadOf[p]] <= MaxSize[p]

\* platform_check_image, run alone on a file that does not change.
PlatformCheckImage(img) ==
  /\ ThisBoard = "zte,133"
  /\ Member \subseteq img.members
  /\ LET unpacked == [m \in Member |-> img]
     IN  ControlOk(unpacked) /\ SumsOk(unpacked) /\ SizesOk(unpacked)
  /\ LayoutMatches

\* The "valid" field of validate_firmware_image.  Nothing here calls
\* notify_firmware_broken or notify_firmware_no_backup: every invalid image is
\* forceable, and every image allows a backup.
ValidateFirmwareImage(img, save, ignoreMinor) ==
  FwtoolCheckImage(img, save, ignoreMinor) /\ PlatformCheckImage(img)

=============================================================================
