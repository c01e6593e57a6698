----------------------------- MODULE ImageCheck -----------------------------
(***************************************************************************)
(* Concurrent runs of /usr/libexec/validate_firmware_image.                *)
(*                                                                         *)
(* sysupgrade, procd and LuCI all start it, nothing locks it, and its runs *)
(* share two places: /tmp/sysupgrade.meta, where fwtool puts the metadata, *)
(* and /tmp/skd-sysupgrade-check, where platform_check_image unpacks the   *)
(* image and reads it back.  The module follows one command of the scripts *)
(* per step.                                                               *)
(*                                                                         *)
(* Sysupgrade relies on what is shown here: a run that no other run        *)
(* overlaps returns ValidateFirmwareImage of its image, and a run that is  *)
(* overlapped may return anything.                                         *)
(***************************************************************************)
EXTENDS FirmwareImage, Sequences

CONSTANTS
  Caller,       \* who runs validate_firmware_image
  SavesConfig,  \* those with SAVE_CONFIG=1 in their environment
  IgnoresMinor, \* those with IGNORE_MINOR_COMPAT=1
  Image,        \* the images that exist
  About         \* the ImageRecord of each

ASSUME ImageCheckAssumption ==
  /\ SavesConfig \subseteq Caller /\ IgnoresMinor \subseteq Caller
  /\ About \in [Image -> ImageRecord]
  /\ Image \cap {"absent", "empty"} = {}

VARIABLES
  pc,        \* where each run is
  img,       \* the image it validates
  k,         \* the member it unpacks next
  fwtool,    \* FWTOOL_DEVICE_MATCH = 0
  valid,     \* the verdict of the run that ended last
  disturbed, \* another run was active during this one
  meta,      \* the image whose metadata is in /tmp/sysupgrade.meta
  exists,    \* /tmp/skd-sysupgrade-check exists
  dir        \* the image each file in it came from

shared == <<meta, exists, dir>>
vars == <<pc, img, k, fwtool, valid, disturbed, shared>>

\* for member in CONTROL sha256sums uImage board.dtb rootfs.jffs2
MemberOrder == <<"CONTROL", "sha256sums", "uImage", "board.dtb", "rootfs.jffs2">>

EmptyDir == [m \in Member |-> "absent"]

Init ==
  /\ pc = [c \in Caller |-> "done"]
  /\ img \in [Caller -> Image]
  /\ k = [c \in Caller |-> 1]
  /\ fwtool = [c \in Caller |-> FALSE]
  /\ valid = [c \in Caller |-> FALSE]
  /\ disturbed = [c \in Caller |-> TRUE]
  /\ meta = "absent"
  /\ exists = FALSE
  /\ dir = EmptyDir

Goto(c, l) == pc' = [pc EXCEPT ![c] = l]

Return(c, platformOk) ==
  /\ Goto(c, "done")
  /\ valid' = [valid EXCEPT ![c] = fwtool[c] /\ platformOk]

RemoveDir == exists' = FALSE /\ dir' = EmptyDir

-----------------------------------------------------------------------------

\* A run starts on some image.
Begin(c) ==
  /\ pc[c] = "done"
  /\ Goto(c, "meta")
  /\ \E i \in Image : img' = [img EXCEPT ![c] = i]
  /\ k' = [k EXCEPT ![c] = 1]
  /\ LET Active == {d \in Caller \ {c} : pc[d] # "done"}
     IN  disturbed' = [d \in Caller |-> IF d = c THEN Active # {}
                                        ELSE disturbed[d] \/ d \in Active]
  /\ UNCHANGED <<fwtool, valid, shared>>

\* Mutant of ReadMetadata: the status of fwtool is not looked at.
ReadStaleMetadata(c) ==
  /\ pc[c] = "meta"
  /\ meta' = IF About[img[c]].metadata = "absent" THEN meta ELSE img[c]
  /\ IF meta' = "absent"
       THEN Goto(c, "clean") /\ fwtool' = [fwtool EXCEPT ![c] = FALSE]
       ELSE Goto(c, "compare") /\ UNCHANGED fwtool
  /\ UNCHANGED <<img, k, valid, disturbed, exists, dir>>

\* fwtool -q -i /tmp/sysupgrade.meta: without metadata the check fails.
ReadMetadata(c) ==
  /\ pc[c] = "meta"
  /\ IF About[img[c]].metadata = "absent"
       THEN /\ Goto(c, "clean")
            /\ fwtool' = [fwtool EXCEPT ![c] = FALSE]
            /\ UNCHANGED meta
       ELSE /\ Goto(c, "compare")
            /\ meta' = img[c]
            /\ UNCHANGED fwtool
  /\ UNCHANGED <<img, k, valid, disturbed, exists, dir>>

\* fwtool_check_image in the environment of the caller.
MetadataOk(c, image) ==
  FwtoolCheckImage(image, c \in SavesConfig, c \in IgnoresMinor)

\* json_load "$(cat /tmp/sysupgrade.meta)" and what follows.
CompareMetadata(c) ==
  /\ pc[c] = "compare"
  /\ fwtool' = [fwtool EXCEPT ![c] = MetadataOk(c, About[meta])]
  /\ Goto(c, "clean")
  /\ UNCHANGED <<img, k, valid, disturbed, shared>>

\* platform_check_image: the board, then rm -rf "$check_dir".
Clean(c) ==
  /\ pc[c] = "clean"
  /\ IF ThisBoard = "zte,133"
       THEN Goto(c, "mkdir") /\ RemoveDir /\ UNCHANGED valid
       ELSE Return(c, FALSE) /\ UNCHANGED <<exists, dir>>
  /\ UNCHANGED <<img, k, fwtool, disturbed, meta>>

MakeDir(c) ==
  /\ pc[c] = "mkdir"
  /\ exists' = TRUE
  /\ Goto(c, "extract")
  /\ UNCHANGED <<img, k, fwtool, valid, disturbed, meta, dir>>

\* skd_extract_member: fails without the directory, and without the member,
\* when it leaves an empty file.
ExtractMember(c) ==
  LET m == MemberOrder[k[c]] IN
  /\ pc[c] = "extract"
  /\ \/ /\ exists /\ m \in About[img[c]].members
        /\ dir' = [dir EXCEPT ![m] = img[c]]
        /\ k' = [k EXCEPT ![c] = @ + 1]
        /\ Goto(c, IF k[c] = Len(MemberOrder) THEN "control" ELSE "extract")
     \/ /\ exists /\ m \notin About[img[c]].members
        /\ dir' = [dir EXCEPT ![m] = "empty"]
        /\ Goto(c, "discard")
        /\ UNCHANGED k
     \/ /\ ~exists
        /\ Goto(c, "discard")
        /\ UNCHANGED <<dir, k>>
  /\ UNCHANGED <<img, fwtool, valid, disturbed, meta, exists>>

Unpacked == [m \in {n \in Member : dir[n] \in Image} |-> About[dir[m]]]

\* grep -qx 'BOARD=zte,133' "$check_dir/CONTROL"
CheckControl(c) ==
  /\ pc[c] = "control"
  /\ Goto(c, IF "CONTROL" \in DOMAIN Unpacked /\ ControlOk(Unpacked)
               THEN "sums" ELSE "discard")
  /\ UNCHANGED <<img, k, fwtool, valid, disturbed, shared>>

\* cd "$check_dir" && sha256sum -c sha256sums
CheckSums(c) ==
  /\ pc[c] = "sums"
  /\ Goto(c, IF /\ Payload \cup {"sha256sums"} \subseteq DOMAIN Unpacked
                /\ SumsOk(Unpacked)
               THEN "sizes" ELSE "discard")
  /\ UNCHANGED <<img, k, fwtool, valid, disturbed, shared>>

\* [ "$size" -le "$max" ], false as well when wc finds no file
CheckSizes(c) ==
  /\ pc[c] = "sizes"
  /\ Goto(c, IF (\A m \in Payload : dir[m] # "absent") /\ SizesOk(Unpacked)
               THEN "layout" ELSE "discard")
  /\ UNCHANGED <<img, k, fwtool, valid, disturbed, shared>>

\* skd_check_partition ... || return 1: the directory stays.
CheckLayout(c) ==
  /\ pc[c] = "layout"
  /\ IF LayoutMatches THEN Goto(c, "finish") /\ UNCHANGED valid
                      ELSE Return(c, FALSE)
  /\ UNCHANGED <<img, k, fwtool, disturbed, shared>>

\* Mutant of Discard: the directory stays.
DiscardNothing(c) ==
  /\ pc[c] = "discard"
  /\ Return(c, FALSE)
  /\ UNCHANGED <<img, k, fwtool, disturbed, shared>>

\* rm -rf "$check_dir"; return 1
Discard(c) ==
  /\ pc[c] = "discard"
  /\ RemoveDir
  /\ Return(c, FALSE)
  /\ UNCHANGED <<img, k, fwtool, disturbed, meta>>

\* rm -rf "$check_dir"; return 0
Finish(c) ==
  /\ pc[c] = "finish"
  /\ RemoveDir
  /\ Return(c, TRUE)
  /\ UNCHANGED <<img, k, fwtool, disturbed, meta>>

Run(c) ==
  \/ ReadMetadata(c) \/ CompareMetadata(c) \/ Clean(c) \/ MakeDir(c)
  \/ ExtractMember(c) \/ CheckControl(c) \/ CheckSums(c) \/ CheckSizes(c)
  \/ CheckLayout(c) \/ Discard(c) \/ Finish(c)

Next == \E c \in Caller : Begin(c) \/ Run(c)

Spec == Init /\ [][Next]_vars

-----------------------------------------------------------------------------
(* Properties                                                              *)

TypeOK ==
  /\ pc \in [Caller -> {"done", "meta", "compare", "clean", "mkdir", "extract",
                        "control", "sums", "sizes", "layout", "discard", "finish"}]
  /\ img \in [Caller -> Image]
  /\ k \in [Caller -> 1..(Len(MemberOrder) + 1)]
  /\ fwtool \in [Caller -> BOOLEAN]
  /\ valid \in [Caller -> BOOLEAN]
  /\ disturbed \in [Caller -> BOOLEAN]
  /\ meta \in Image \cup {"absent"}
  /\ exists \in BOOLEAN
  /\ dir \in [Member -> Image \cup {"absent", "empty"}]

Deserved(c) ==
  ValidateFirmwareImage(About[img[c]], c \in SavesConfig, c \in IgnoresMinor)

OwnVerdict(c) == valid[c] <=> Deserved(c)

\* A run that nobody overlaps reports exactly what its image deserves: stale
\* metadata and files that earlier or interrupted runs left do not matter.
UndisturbedVerdict ==
  \A c \in Caller : pc[c] = "done" /\ ~disturbed[c] => OwnVerdict(c)

\* "valid" is said of no image that would not pass on its own.
ValidMeansOwnImage ==
  \A c \in Caller : pc[c] = "done" /\ valid[c] => Deserved(c)

\* When no run is active the unpacked image does not fill the RAM disk, however
\* the runs ended, as long as the partitions are those of the board.
CleansUp == (\A c \in Caller : pc[c] = "done") /\ LayoutMatches => ~exists

=============================================================================
