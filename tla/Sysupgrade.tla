----------------------------- MODULE Sysupgrade -----------------------------
(***************************************************************************)
(* A firmware upgrade of the SK-D840N, from the first line of              *)
(* /sbin/sysupgrade to the boot of the new system.                         *)
(*                                                                         *)
(* Sessions run /sbin/sysupgrade (from a shell, or through LuCI).  Each    *)
(* fetches an image, has it validated, saves the settings to               *)
(* /tmp/sysupgrade.tgz and calls procd.  procd validates the image again   *)
(* and replaces itself by upgraded, which runs stage2: it kills everything *)
(* else, moves to a RAM root and runs platform_do_upgrade, which writes    *)
(* dtb, root and kernel, in this order, and reboots.                       *)
(*                                                                         *)
(* The sessions share /tmp/sysupgrade.img, /tmp/firmware.bin and           *)
(* /tmp/sysupgrade.tgz and nothing locks them.  Validators share their     *)
(* working directory: ImageCheck shows what that does to a verdict, and    *)
(* this module takes from it that the verdict of a disturbed validation    *)
(* says nothing.                                                           *)
(*                                                                         *)
(* Simplifications.  A file under /tmp is an image, absent, or cut short.  *)
(* The settings of the device are one value, and so are those in an archive*)
(* given with -f, which is a .gz file or is not.  The failsafe path of     *)
(* sysupgrade (FAILSAFE set) hands over the same request through           *)
(* /tmp/sysupgrade and is left out.  Options that only change what is in   *)
(* the backup (-c -o -u -k) or what this board ignores (-p -s) are left    *)
(* out, and the -i questions are answered by the option they default to.   *)
(***************************************************************************)
EXTENDS FirmwareImage

CONSTANTS
  Session,
  Image,      \* the images that exist
  About,      \* the ImageRecord of each
  Option,     \* the command lines in use, a set of OptionRecords
  FirstImage, \* what the flash holds at the start
  MaxFaults   \* bound on power losses and I/O errors

OptionRecord ==
  [source : {"url", "copy", "upload"}, \* http(s)://, a file outside /tmp, /tmp
   n : BOOLEAN,                        \* -n
   force : BOOLEAN,                    \* -F
   test : BOOLEAN,                     \* -T
   f : BOOLEAN,                        \* -f <config>
   ignoreMinor : BOOLEAN]              \* --ignore-minor-compat-version

ASSUME SysupgradeAssumption ==
  /\ About \in [Image -> ImageRecord]
  /\ Image \cap {"absent", "cut", "missing"} = {}
  /\ Session \cap {"procd", "nobody"} = {}
  /\ Option \subseteq OptionRecord /\ Option # {}
  /\ FirstImage \in Image
  /\ MaxFaults \in Nat

Path == {"/tmp/sysupgrade.img", "/tmp/firmware.bin"}

Content == Image \cup {"absent", "cut"}

Setting == {"default", "user", "given", "cut"}

Tgz == Setting \cup {"absent"}

Procd == "procd"

Checker == Session \cup {Procd}

VARIABLES
  pc,        \* where each session is in /sbin/sysupgrade
  opt,       \* its options
  asked,     \* the image its command line names
  save,      \* its SAVE_CONFIG
  disturbed, \* a validation in progress was interfered with
  slipped,   \* history: so was the one procd accepted its request after, or
             \* the file has been written since
  file,      \* the image files under /tmp
  confTar,   \* /tmp/sysupgrade.tgz
  procd,     \* "serving", "validating" or "replaced" by upgraded
  req,       \* the request procd works on
  stage,     \* where stage2 and platform_do_upgrade are
  unpacked,  \* what is in /tmp/skd-sysupgrade
  flash,     \* kernel, dtb and root: an image and whether it is complete
  settings,  \* the settings in the running root filesystem
  tgz,       \* /sysupgrade.tgz in the root partition
  ramdisk,   \* the running system is an initramfs: rootfs_type is tmpfs
  faults     \* power losses and I/O errors so far

sessionVars == <<pc, opt, asked, save>>
upgradeVars == <<procd, req, stage, unpacked>>
flashVars == <<flash, settings, tgz, ramdisk>>
checkVars == <<disturbed, slipped>>
vars == <<sessionVars, checkVars, file, confTar, upgradeVars, flashVars, faults>>

Request ==
  [by : Session \cup {"nobody"}, path : Path, force : BOOLEAN, backup : BOOLEAN]

NoRequest ==
  [by |-> "nobody", path |-> "/tmp/sysupgrade.img", force |-> FALSE, backup |-> FALSE]

-----------------------------------------------------------------------------

Init ==
  /\ pc = [s \in Session |-> "idle"]
  /\ opt = [s \in Session |-> CHOOSE o \in Option : TRUE]
  /\ asked = [s \in Session |-> "missing"]
  /\ save = [s \in Session |-> FALSE]
  /\ disturbed = [c \in Checker |-> FALSE]
  /\ slipped = FALSE
  /\ file = [p \in Path |-> "absent"]
  /\ confTar = "absent"
  /\ procd = "serving"
  /\ req = NoRequest
  /\ stage = "none"
  /\ unpacked = "absent"
  /\ flash = [p \in Partition |-> [img |-> FirstImage, whole |-> TRUE]]
  /\ settings = "user"
  /\ tgz = "absent"
  /\ ramdisk \in BOOLEAN
  /\ faults = 0

PathOf(o) ==
  IF o.source = "upload" THEN "/tmp/firmware.bin" ELSE "/tmp/sysupgrade.img"

Checking(c) == IF c = Procd THEN procd = "validating" ELSE pc[c] = "checking"

CheckedPath(c) == IF c = Procd THEN req.path ELSE PathOf(opt[c])

\* Writing path p disturbs every validation that reads it, and is not noticed
\* by an upgrade that has been accepted and still has to unpack it.
DisturbReaders(p) ==
  /\ disturbed' = [c \in Checker |->
                     disturbed[c] \/ (Checking(c) /\ CheckedPath(c) = p)]
  /\ slipped' = (slipped \/ (procd = "replaced" /\ req.path = p))

\* A validation that starts while another one runs disturbs it and is
\* disturbed by it: both unpack into /tmp/skd-sysupgrade-check.
DisturbCheckers(new) ==
  /\ LET busy == \E c \in Checker \ {new} : Checking(c)
     IN  disturbed' = [c \in Checker |->
                         IF c = new THEN busy ELSE disturbed[c] \/ Checking(c)]
  /\ UNCHANGED slipped

Valid(content, saving, ignoreMinor) ==
  content \in Image /\ ValidateFirmwareImage(About[content], saving, ignoreMinor)

\* Mutant of Verdict: the verdict of the platform is not looked at.
VerdictIgnored(c, saving, ignoreMinor) == {TRUE}

\* The verdicts checker c may reach on the file it checks.
Verdict(c, saving, ignoreMinor) ==
  IF disturbed[c] THEN BOOLEAN
                  ELSE {Valid(file[CheckedPath(c)], saving, ignoreMinor)}

Fault == faults < MaxFaults /\ faults' = faults + 1

-----------------------------------------------------------------------------
(* /sbin/sysupgrade                                                        *)

\* A command line is parsed.  It may name an image that does not exist.
Start(s) ==
  /\ pc[s] = "idle"
  /\ stage \in {"none", "kill"}
  /\ pc' = [pc EXCEPT ![s] = "fetch"]
  /\ \E o \in Option :
       /\ opt' = [opt EXCEPT ![s] = o]
       /\ save' = [save EXCEPT ![s] = ~o.n]
       /\ \E i \in Image \cup (IF o.source = "upload" THEN {} ELSE {"missing"}) :
            asked' = [asked EXCEPT ![s] = i]
  /\ UNCHANGED <<checkVars, file, confTar, upgradeVars, flashVars, faults>>

\* A copy of a missing file: readlink -f prints its path all the same and cp
\* fails without touching /tmp/sysupgrade.img.
CopyMissing(s) ==
  /\ pc[s] = "fetch"
  /\ opt[s].source = "copy" /\ asked[s] = "missing"
  /\ pc' = [pc EXCEPT ![s] = "check"]
  /\ UNCHANGED <<opt, asked, save, checkVars, file, confTar, upgradeVars,
                 flashVars, faults>>

\* wget, cp or the upload truncates the file...
FetchStart(s) ==
  /\ pc[s] = "fetch"
  /\ ~(opt[s].source = "copy" /\ asked[s] = "missing")
  /\ pc' = [pc EXCEPT ![s] = "fetching"]
  /\ file' = [file EXCEPT ![PathOf(opt[s])] = "cut"]
  /\ DisturbReaders(PathOf(opt[s]))
  /\ UNCHANGED <<opt, asked, save, confTar, upgradeVars, flashVars, faults>>

\* ... and fills it.
FetchDone(s) ==
  /\ pc[s] = "fetching"
  /\ pc' = [pc EXCEPT ![s] = "check"]
  /\ asked[s] # "missing"
  /\ file' = [file EXCEPT ![PathOf(opt[s])] = asked[s]]
  /\ DisturbReaders(PathOf(opt[s]))
  /\ UNCHANGED <<opt, asked, save, confTar, upgradeVars, flashVars, faults>>

\* wget fails: exit 1.  The status of cp is not looked at.
FetchFail(s) ==
  /\ pc[s] = "fetching"
  /\ IF asked[s] = "missing" THEN UNCHANGED faults ELSE Fault
  /\ pc' = [pc EXCEPT ![s] = IF opt[s].source = "copy" THEN "check" ELSE "idle"]
  /\ UNCHANGED <<opt, asked, save, checkVars, file, confTar, upgradeVars,
                 flashVars>>

CheckStart(s) ==
  /\ pc[s] = "check"
  /\ pc' = [pc EXCEPT ![s] = "checking"]
  /\ DisturbCheckers(s)
  /\ UNCHANGED <<opt, asked, save, file, confTar, upgradeVars, flashVars,
                 faults>>

\* validate_firmware_image returns.  An invalid image goes on with -F only.
CheckEnd(s) ==
  /\ pc[s] = "checking"
  /\ \E valid \in Verdict(s, save[s], opt[s].ignoreMinor) :
       pc' = [pc EXCEPT ![s] = IF valid \/ opt[s].force THEN "config" ELSE "idle"]
  /\ disturbed' = [disturbed EXCEPT ![s] = FALSE]
  /\ UNCHANGED slipped
  /\ UNCHANGED <<opt, asked, save, file, confTar, upgradeVars, flashVars,
                 faults>>

\* -f: a file that is not there or not a .gz is refused, any other is copied,
\* by a test run too.  Without -f, settings are saved unless -n is given, and
\* with -n a stale archive is removed, but a test run does neither.
Configure(s) ==
  /\ pc[s] = "config"
  /\ \/ /\ opt[s].f
        /\ pc' = [pc EXCEPT ![s] = "idle"]
        /\ UNCHANGED <<save, confTar>>
     \/ /\ opt[s].f
        /\ pc' = [pc EXCEPT ![s] = "copyconf"]
        /\ save' = [save EXCEPT ![s] = TRUE]
        /\ confTar' = "cut"
     \/ /\ ~opt[s].f /\ opt[s].test
        /\ pc' = [pc EXCEPT ![s] = "idle"]
        /\ UNCHANGED <<save, confTar>>
     \/ /\ ~opt[s].f /\ ~opt[s].test /\ save[s]
        /\ pc' = [pc EXCEPT ![s] = "archive"]
        /\ confTar' = IF ramdisk THEN confTar ELSE "cut"
        /\ UNCHANGED save
     \/ /\ ~opt[s].f /\ ~opt[s].test /\ ~save[s]
        /\ pc' = [pc EXCEPT ![s] = "call"]
        /\ confTar' = "absent"
        /\ UNCHANGED save
  /\ UNCHANGED <<opt, asked, checkVars, file, upgradeVars, flashVars, faults>>

\* get_image "$CONF_IMAGE" cat > "$CONF_TAR" ends.  When the write fails the
\* archive stays cut: the status is not looked at.
CopyConf(s) ==
  /\ pc[s] = "copyconf"
  /\ pc' = [pc EXCEPT ![s] = IF opt[s].test THEN "idle" ELSE "call"]
  /\ \/ confTar' = "given" /\ UNCHANGED faults
     \/ Fault /\ UNCHANGED confTar
  /\ UNCHANGED <<opt, asked, save, checkVars, file, upgradeVars, flashVars>>

\* Mutant of ArchiveEnd: without the "|| exit".
ArchiveEndGoesOn(s) ==
  /\ pc[s] = "archive"
  /\ \/ ramdisk /\ UNCHANGED <<confTar, faults>>
     \/ ~ramdisk /\ confTar' = settings /\ UNCHANGED faults
     \/ ~ramdisk /\ Fault /\ confTar' = "absent"
  /\ pc' = [pc EXCEPT ![s] = "call"]
  /\ UNCHANGED <<opt, asked, save, checkVars, file, upgradeVars, flashVars>>

\* create_backup_archive ends.  On failure it removes the archive: exit.  From
\* a RAM disk it makes none and the upgrade goes on, with whatever is there.
ArchiveEnd(s) ==
  /\ pc[s] = "archive"
  /\ \/ /\ ramdisk
        /\ pc' = [pc EXCEPT ![s] = "call"]
        /\ UNCHANGED <<confTar, faults>>
     \/ /\ ~ramdisk
        /\ confTar' = settings
        /\ pc' = [pc EXCEPT ![s] = "call"]
        /\ UNCHANGED faults
     \/ /\ ~ramdisk
        /\ Fault
        /\ confTar' = "absent"
        /\ pc' = [pc EXCEPT ![s] = "idle"]
  /\ UNCHANGED <<opt, asked, save, checkVars, file, upgradeVars, flashVars>>

-----------------------------------------------------------------------------
(* procd, upgraded                                                         *)

\* Mutant of Call: the path of a LuCI upload, whatever was checked.
CallFirmwareBin(s) ==
  /\ pc[s] = "call"
  /\ procd = "serving"
  /\ pc' = [pc EXCEPT ![s] = "waiting"]
  /\ procd' = "validating"
  /\ req' = [by |-> s, path |-> "/tmp/firmware.bin", force |-> opt[s].force,
             backup |-> save[s]]
  /\ DisturbCheckers(Procd)
  /\ UNCHANGED <<opt, asked, save, file, confTar, stage, unpacked, flashVars,
                 faults>>

\* ubus call system sysupgrade: procd forks validate_firmware_image and serves
\* nobody else until it is done.
Call(s) ==
  /\ pc[s] = "call"
  /\ procd = "serving"
  /\ pc' = [pc EXCEPT ![s] = "waiting"]
  /\ procd' = "validating"
  /\ req' = [by |-> s, path |-> PathOf(opt[s]), force |-> opt[s].force,
             backup |-> save[s]]
  /\ DisturbCheckers(Procd)
  /\ UNCHANGED <<opt, asked, save, file, confTar, stage, unpacked,
                 flashVars, faults>>

\* Mutant of Revalidate: a refusal is not reported to the caller.
RevalidateSilently ==
  /\ procd = "validating"
  /\ \E valid \in Verdict(Procd, FALSE, FALSE) :
       IF valid \/ req.force
         THEN /\ procd' = "replaced" /\ stage' = "kill"
              /\ slipped' = disturbed[Procd] /\ UNCHANGED req
         ELSE /\ procd' = "serving" /\ req' = NoRequest
              /\ UNCHANGED <<stage, slipped>>
  /\ disturbed' = [disturbed EXCEPT ![Procd] = FALSE]
  /\ UNCHANGED <<sessionVars, file, confTar, unpacked, flashVars, faults>>

\* procd refuses an invalid image that is not forced, or becomes upgraded,
\* which starts stage2.  SAVE_CONFIG is not in procd's environment.
Revalidate ==
  /\ procd = "validating"
  /\ \E valid \in Verdict(Procd, FALSE, FALSE) :
       IF valid \/ req.force
         THEN /\ procd' = "replaced"
              /\ stage' = "kill"
              /\ slipped' = disturbed[Procd]
              /\ UNCHANGED <<pc, req>>
         ELSE /\ procd' = "serving"
              /\ pc' = [pc EXCEPT ![req.by] = "idle"]
              /\ req' = NoRequest
              /\ UNCHANGED <<stage, slipped>>
  /\ disturbed' = [disturbed EXCEPT ![Procd] = FALSE]
  /\ UNCHANGED <<opt, asked, save, file, confTar, unpacked, flashVars,
                 faults>>

\* A call that finds procd replaced is never answered: ubus gives up.
CallFails(s) ==
  /\ pc[s] = "call"
  /\ procd = "replaced"
  /\ pc' = [pc EXCEPT ![s] = "idle"]
  /\ UNCHANGED <<opt, asked, save, checkVars, file, confTar, upgradeVars,
                 flashVars, faults>>

-----------------------------------------------------------------------------
(* /lib/upgrade/stage2                                                     *)

\* One more process is killed; what it was writing stays as it is.
Kill(s) ==
  /\ stage = "kill"
  /\ pc[s] # "killed"
  /\ pc' = [pc EXCEPT ![s] = "killed"]
  /\ disturbed' = [disturbed EXCEPT ![s] = FALSE]
  /\ UNCHANGED slipped
  /\ UNCHANGED <<opt, asked, save, file, confTar, upgradeVars, flashVars,
                 faults>>

\* Mutant of SwitchToRamfs: it does not wait for kill_remaining.
SwitchAtOnce ==
  /\ stage = "kill"
  /\ stage' = "extract"
  /\ UNCHANGED <<sessionVars, checkVars, file, confTar, procd, req, unpacked,
                 flashVars, faults>>

\* Everything is dead and the RAM root is in place: do_stage2 starts.
SwitchToRamfs ==
  /\ stage = "kill"
  /\ \A s \in Session : pc[s] = "killed"
  /\ stage' = "extract"
  /\ UNCHANGED <<sessionVars, checkVars, file, confTar, procd, req, unpacked,
                 flashVars, faults>>

\* kill_remaining gives up after loop_limit rounds, or pivot_root fails:
\* exit 1, and upgraded reboots.
Stage2Fail ==
  /\ stage = "kill"
  /\ Fault
  /\ stage' = "reboot"
  /\ UNCHANGED <<sessionVars, checkVars, file, confTar, procd, req, unpacked,
                 flashVars>>

-----------------------------------------------------------------------------
(* platform_do_upgrade                                                     *)

Unpackable(content) ==
  content \in Image /\ Payload \subseteq About[content].members

\* Mutant of Extract: without the "|| exit 1".
ExtractAnyway ==
  /\ stage = "extract"
  /\ IF file[req.path] \in Image
       THEN stage' = "layout" /\ unpacked' = file[req.path]
       ELSE stage' = "reboot" /\ UNCHANGED unpacked
  /\ UNCHANGED <<sessionVars, checkVars, file, confTar, procd, req, flashVars,
                 faults>>

\* Unpacks the payloads; a member that is missing means exit 1.
Extract ==
  /\ stage = "extract"
  /\ IF Unpackable(file[req.path])
       THEN stage' = "layout" /\ unpacked' = file[req.path]
       ELSE stage' = "reboot" /\ UNCHANGED unpacked
  /\ UNCHANGED <<sessionVars, checkVars, file, confTar, procd, req,
                 flashVars, faults>>

\* /tmp is full: exit 1.
ExtractFail ==
  /\ stage = "extract"
  /\ Fault
  /\ stage' = "reboot"
  /\ UNCHANGED <<sessionVars, checkVars, file, confTar, procd, req, unpacked,
                 flashVars>>

\* The layout is checked again "immediately before erasing NAND".
CheckLayout ==
  /\ stage = "layout"
  /\ stage' = IF LayoutMatches THEN "dtb" ELSE "reboot"
  /\ UNCHANGED <<sessionVars, checkVars, file, confTar, procd, req, unpacked,
                 flashVars, faults>>

\* Mutants of WriteOrder: the kernel before the root filesystem; no kernel at
\* all; no reboot.
KernelBeforeRoot == [dtb |-> "kernel", root |-> "reboot", kernel |-> "root"]

NoKernel == [dtb |-> "root", root |-> "reboot", kernel |-> "reboot"]

NoReboot == [dtb |-> "root", root |-> "kernel", kernel |-> "done"]

\* The order of the three mtd calls: the kernel is last.
WriteOrder == [dtb |-> "root", root |-> "kernel", kernel |-> "reboot"]

WritingStage == [dtb |-> "dtb..", root |-> "root..", kernel |-> "kernel.."]

Fits(i, p) == About[i].size[PayloadOf[p]] <= MaxSize[p]

\* mtd erases and writes block by block.  A new root filesystem has the
\* settings of the image, and no archive before -j appends it.
MtdWrite(p) ==
  /\ stage = p
  /\ stage' = WritingStage[p]
  /\ flash' = [flash EXCEPT ![p] = [img |-> unpacked, whole |-> FALSE]]
  /\ IF p = "root" THEN settings' = "default" /\ tgz' = "absent"
                   ELSE UNCHANGED <<settings, tgz>>
  /\ UNCHANGED <<sessionVars, checkVars, file, confTar, procd, req,
                 unpacked, ramdisk, faults>>

\* Mutant of MtdWritten: mtd is called without -j.
MtdWrittenBare(p) ==
  /\ stage = WritingStage[p]
  /\ Fits(unpacked, p)
  /\ stage' = WriteOrder[p]
  /\ flash' = [flash EXCEPT ![p] = [img |-> unpacked, whole |-> TRUE]]
  /\ UNCHANGED <<sessionVars, checkVars, file, confTar, procd, req, unpacked,
                 settings, tgz, ramdisk, faults>>

\* mtd exits with 0 when the payload fits.  -j with no archive appends nothing.
MtdWritten(p) ==
  /\ stage = WritingStage[p]
  /\ Fits(unpacked, p)
  /\ stage' = WriteOrder[p]
  /\ flash' = [flash EXCEPT ![p] = [img |-> unpacked, whole |-> TRUE]]
  /\ tgz' = IF p = "root" /\ req.backup THEN confTar ELSE tgz
  /\ UNCHANGED <<sessionVars, checkVars, file, confTar, procd, req, unpacked,
                 settings, ramdisk, faults>>

\* Mutant of MtdFail: the write is tried again instead of exit 1.
MtdRetry(p) ==
  /\ stage = WritingStage[p]
  /\ \/ ~Fits(unpacked, p) /\ UNCHANGED faults
     \/ Fault
  /\ stage' = p
  /\ UNCHANGED <<sessionVars, checkVars, file, confTar, procd, req, unpacked,
                 flashVars>>

\* mtd fails, for want of room or on an I/O error: exit 1, the partition stays
\* incomplete and upgraded reboots.
MtdFail(p) ==
  /\ stage = WritingStage[p]
  /\ \/ ~Fits(unpacked, p) /\ UNCHANGED faults
     \/ Fault
  /\ stage' = "reboot"
  /\ UNCHANGED <<sessionVars, checkVars, file, confTar, procd, req,
                 unpacked, flashVars>>

-----------------------------------------------------------------------------
(* Reboots                                                                 *)

\* /tmp is lost, every process is gone, and the bootloader starts what the
\* flash holds.  Preinit unpacks /sysupgrade.tgz and init.d/done removes it.
Boot ==
  /\ pc' = [s \in Session |-> "idle"]
  /\ asked' = [s \in Session |-> "missing"]
  /\ save' = [s \in Session |-> FALSE]
  /\ disturbed' = [c \in Checker |-> FALSE]
  /\ file' = [p \in Path |-> "absent"]
  /\ confTar' = "absent"
  /\ procd' = "serving"
  /\ req' = NoRequest
  /\ unpacked' = "absent"
  /\ slipped' = FALSE
  /\ ramdisk' = FALSE
  /\ IF \A p \in Partition : flash[p].whole
       THEN /\ stage' = "none"
            /\ settings' = IF tgz = "absent" THEN settings ELSE tgz
            /\ tgz' = "absent"
       ELSE stage' = "dead" /\ UNCHANGED <<settings, tgz>>
  /\ UNCHANGED <<opt, flash>>

Reboot ==
  /\ stage = "reboot"
  /\ Boot
  /\ UNCHANGED faults

PowerLoss ==
  /\ stage # "dead"
  /\ Fault
  /\ Boot

-----------------------------------------------------------------------------

SessionStep(s) ==
  \/ Start(s) \/ CopyMissing(s) \/ FetchStart(s) \/ FetchDone(s) \/ FetchFail(s)
  \/ CheckStart(s) \/ CheckEnd(s) \/ Configure(s) \/ CopyConf(s) \/ ArchiveEnd(s)
  \/ Call(s) \/ CallFails(s)

Stage2Step ==
  \/ \E s \in Session : Kill(s)
  \/ SwitchToRamfs \/ Stage2Fail
  \/ Extract \/ ExtractFail \/ CheckLayout
  \/ \E p \in Partition : MtdWrite(p) \/ MtdWritten(p) \/ MtdFail(p)
  \/ Reboot

Next ==
  \/ \E s \in Session : SessionStep(s)
  \/ Revalidate
  \/ Stage2Step
  \/ PowerLoss

Spec == Init /\ [][Next]_vars

\* procd and stage2 are processes that run on their own; sessions wait for
\* users and networks, and may stop anywhere.
FairSpec == Spec /\ WF_vars(Revalidate) /\ WF_vars(Stage2Step)

-----------------------------------------------------------------------------
(* Properties                                                              *)

Stage == {"none", "kill", "extract", "layout", "dtb", "dtb..", "root", "root..",
          "kernel", "kernel..", "reboot", "dead"}

PC == {"idle", "fetch", "fetching", "check", "checking", "config", "copyconf",
       "archive", "call", "waiting", "killed"}

FlashState == [Partition -> [img : Image, whole : BOOLEAN]]

TypeOK ==
  /\ pc \in [Session -> PC]
  /\ opt \in [Session -> Option]
  /\ asked \in [Session -> Image \cup {"missing"}]
  /\ save \in [Session -> BOOLEAN]
  /\ disturbed \in [Checker -> BOOLEAN]
  /\ slipped \in BOOLEAN
  /\ file \in [Path -> Content]
  /\ confTar \in Tgz
  /\ procd \in {"serving", "validating", "replaced"}
  /\ req \in Request
  /\ stage \in Stage
  /\ unpacked \in Image \cup {"absent"}
  /\ flash \in FlashState
  /\ settings \in Setting
  /\ tgz \in Tgz
  /\ ramdisk \in BOOLEAN
  /\ faults \in Nat

Erasing == flash' # flash

\* A partition is touched only while no other process is left, with all three
\* payloads unpacked and the MTD layout verified: whatever the image, the
\* options and the other sessions do, a run that cannot finish its unpacking
\* leaves the flash alone.
PreflightBeforeErase ==
  [][Erasing => /\ LayoutMatches
                /\ Unpackable(unpacked)
                /\ \A s \in Session : pc[s] = "killed"]_vars

\* "Kernel is intentionally last": the kernel partition changes only when dtb
\* and root hold the complete payloads of the image the kernel comes from.
KernelLast ==
  [][flash'["kernel"] # flash["kernel"] =>
       /\ flash'["kernel"].img = unpacked
       /\ \A p \in {"dtb", "root"} :
            flash[p] = [img |-> unpacked, whole |-> TRUE]]_vars

\* Partition p was left incomplete by a payload larger than the partition.
Overfull(p) == ~flash[p].whole /\ ~Fits(flash[p].img, p)

Intact == \E i \in Image : flash = [p \in Partition |-> [img |-> i, whole |-> TRUE]]

Writing == stage \in {"dtb..", "root", "root..", "kernel", "kernel.."}

\* Outside the writing itself the flash holds one complete release, unless the
\* power failed, a write failed, or a payload did not fit: refused images, full
\* RAM disks, processes that do not die and concurrent sessions never leave
\* parts of two releases behind.
OnlyFaultsBreakFlash ==
  Writing \/ Intact \/ faults > 0 \/ \E p \in Partition : Overfull(p)

\* What gets flashed without -F passed every check of procd, however many
\* sessions fetch, validate and are refused meanwhile.  Excepted is one window:
\* another session interfered with procd's own validation, or wrote the file
\* between that and the kill.
VerifiedUnlessForced ==
  [][Erasing => req.force \/ slipped \/ Valid(unpacked, FALSE, FALSE)]_vars

\* "Verifies ... the SHA-256 sums inside the package": without the exception.
VerifiedAnyway ==
  [][Erasing => req.force \/ Valid(unpacked, FALSE, FALSE)]_vars

\* The image that is flashed is the one the command line named.  When that one
\* does not exist, readlink -f hides it, and what an earlier call left under
\* /tmp/sysupgrade.img is flashed instead.
FlashesWhatWasAsked ==
  [][Erasing => asked[req.by] \in {unpacked, "missing"}]_vars

Keeping(o) == ~o.n /\ ~o.f

\* A command line that keeps the settings has them in the archive when it has
\* the root filesystem erased, and the system that boots then has the archive's
\* settings, whatever fails and whenever the power goes in between; but not
\* from a RAM disk, where nothing is saved.
SettingsKept ==
  [][(req.by \in Session /\ Keeping(opt[req.by]) /\ ~ramdisk) =>
       /\ stage = "root" /\ stage' = "root.." => confTar = settings
       /\ stage \in {"kernel", "kernel..", "reboot"} /\ stage' = "none" =>
            settings' = confTar]_vars

\* -j has appended what there is to append.
Appended == stage = "root.." /\ stage' = "kernel"

\* The new root filesystem gets the archive the command line calls for: after
\* -f the one that was given, or what is left of it when the copy of it failed;
\* after -n without -f none; else one, but not from a RAM disk.  No archive is
\* cut short unless something failed.
ArchiveMatchesRequest ==
  [][Appended =>
       LET o == opt[req.by] IN
       /\ o.f => tgz' \in {"given", "cut"}
       /\ o.n /\ ~o.f => tgz' = "absent"
       /\ Keeping(o) /\ ~ramdisk => tgz' # "absent"
       /\ tgz' = "cut" => faults > 0]_vars

\* The settings of the device reach an image whose compat version differs from
\* its own, and may not understand them.
CrossesCompat ==
  /\ stage = "root" /\ Erasing /\ req.backup
  /\ About[unpacked].compat # DeviceCompat

\* That takes -F, --ignore-minor-compat-version, or -n together with -f, which
\* is checked like -n and then restores settings all the same.
NoConfigAcrossCompat ==
  [][CrossesCompat =>
       LET o == opt[req.by] IN o.force \/ o.ignoreMinor \/ (o.n /\ o.f)]_vars

\* An upgrade that procd accepted ends in a reboot.
UpgradeEnds == procd = "replaced" ~> stage \in {"none", "dead"}

\* A session that called procd gets its answer or is killed.
CallAnswered ==
  \A s \in Session : pc[s] = "waiting" ~> pc[s] \in {"idle", "killed"}

=============================================================================
