-------------------------- MODULE FirstBootProofs --------------------------
(***************************************************************************)
(* What FirstBoot guarantees for every set of scripts and any number of    *)
(* power losses.                                                           *)
(*                                                                         *)
(* The archive may go when the settings are safe on the flash.  They are   *)
(* from the sync at the end of the restore on, since everything the boot   *)
(* writes later keeps them; until then the archive is on the flash, in     *)
(* all its versions.                                                       *)
(*                                                                         *)
(* Without power losses nothing is forgotten: the accounts and migrations  *)
(* are followed from step to step.                                         *)
(***************************************************************************)
EXTENDS FirstBoot, TLAPS

\* No power loss can leave anything but whole settings and accounts.
Safe ==
  /\ \A c \in flash.config : c.of \in {"backup", "user"}
  /\ \A a \in flash.accounts : "backup" \in a

\* What programs see is one of the versions.
Current ==
  /\ now.archive \in flash.archive /\ now.accounts \in flash.accounts
  /\ now.config \in flash.config /\ now.scripts \in flash.scripts

Restoring == {"unpack", "append", "sync"}

Progress ==
  /\ phase = "mount" => flash.archive = {now.archive}
  /\ phase \in Restoring => now.archive /\ flash.archive = {TRUE}
  /\ phase \in {"append", "sync"} =>
       now.config.of = "backup" /\ "backup" \in now.accounts
  /\ phase \notin Restoring \cup {"mount"} => Safe
  /\ phase \in {"removed", "running"} => ~now.archive
  /\ settled => flash.archive = {FALSE}

Inv == TypeOK /\ Current /\ Progress /\ ArchiveUntilSafe

-----------------------------------------------------------------------------
(* Lemmas                                                                  *)

\* The file system after a write, and what the flash may hold.
LEMMA WriteEffect ==
  ASSUME NEW new, Write(new)
  PROVE  /\ now' = new
         /\ DOMAIN flash' = Item
         /\ flash'.archive = flash.archive \cup {new.archive}
         /\ flash'.accounts = flash.accounts \cup {new.accounts}
         /\ flash'.config = flash.config \cup {new.config}
         /\ flash'.scripts = flash.scripts \cup {new.scripts}
  BY DEF Write, Item

\* A write of typed contents keeps the types.
LEMMA WriteType ==
  ASSUME FlashOK, NEW new \in FileSystem, Write(new)
  PROVE  now' \in FileSystem /\ FlashOK'
<1>1. now' \in FileSystem
  BY DEF Write
<1>2. /\ new.archive \in BOOLEAN /\ new.accounts \in SUBSET Account
      /\ new.config \in Settings /\ new.scripts \in SUBSET Script
  BY DEF FileSystem
<1> QED
  BY <1>1, <1>2, WriteEffect DEF FlashOK

\* After a sync the flash holds what programs see.
LEMMA SyncEffect ==
  ASSUME Sync
  PROVE  /\ now' = now
         /\ DOMAIN flash' = Item
         /\ flash'.archive = {now.archive}
         /\ flash'.accounts = {now.accounts}
         /\ flash'.config = {now.config}
         /\ flash'.scripts = {now.scripts}
  BY DEF Sync, Item

\* So does a sync.
LEMMA SyncType ==
  ASSUME now \in FileSystem, Sync
  PROVE  now' \in FileSystem /\ FlashOK'
<1>1. /\ now.archive \in BOOLEAN /\ now.accounts \in SUBSET Account
      /\ now.config \in Settings /\ now.scripts \in SUBSET Script
  BY DEF FileSystem
<1> QED
  BY <1>1, SyncEffect DEF FlashOK

\* The new system is well typed, and its archive is on the flash.
LEMMA InitInv == Init => Inv
<1> SUFFICES ASSUME Init PROVE Inv
  OBVIOUS
<1>1. /\ DOMAIN flash = Item
      /\ flash.archive = {TRUE} /\ flash.accounts = {{"image"}}
      /\ flash.config = {Image.config} /\ flash.scripts = {Image.scripts}
  BY DEF Init, Image, Item
<1>2. Image \in FileSystem
  BY DEF Image, FileSystem, Settings, Account
<1>3. TypeOK
  <2>1. phase \in Phase /\ now \in FileSystem
    BY <1>2 DEF Init, Phase
  <2>2. FlashOK
    BY <1>1, <1>2 DEF FlashOK, FileSystem, Account
  <2>3. faults \in 0..MaxFaults
    BY FirstBootAssumption DEF Init
  <2> QED
    BY <1>1, <2>1, <2>2, <2>3 DEF Init, TypeOK
<1>4. Current /\ Progress /\ ArchiveUntilSafe
  BY <1>1 DEF Init, Current, Progress, ArchiveUntilSafe, Image, Restoring
<1> QED
  BY <1>3, <1>4 DEF Inv

\* Preinit keeps the invariant.
LEMMA PreinitInv ==
  ASSUME Inv, Mount \/ Unpack \/ AddMissingLines \/ SyncRestored
  PROVE  Inv'
<1> USE DEF Inv, TypeOK, Go, ramVars
<1>1. CASE Mount
  <2>1. TypeOK'
    BY <1>1 DEF Mount, Phase, FileSystem, FlashOK
  <2>2. Current'
    BY <1>1 DEF Mount, Current
  <2>3. Progress'
    BY <1>1 DEF Mount, Current, Progress, Restoring, ArchiveUntilSafe, Safe,
                FileSystem
  <2>4. ArchiveUntilSafe'
    BY <1>1 DEF Mount, ArchiveUntilSafe
  <2> QED
    BY <2>1, <2>2, <2>3, <2>4
<1>2. CASE Unpack
  <2>1. /\ Unpacked \in FileSystem
        /\ Unpacked.archive = now.archive
        /\ Unpacked.accounts = {"backup"}
        /\ Unpacked.config.of = "backup"
    BY FirstBootAssumption DEF Unpacked, FileSystem, Settings, Account
  <2>2. /\ DOMAIN flash' = Item
        /\ flash'.archive = flash.archive
        /\ flash'.accounts = flash.accounts \cup {{}, {"backup"}}
        /\ flash'.config = flash.config \cup {Unpacked.config, Torn}
        /\ flash'.scripts = flash.scripts \cup {Unpacked.scripts}
    BY <1>2 DEF Unpack, Item, FlashOK
  <2>3. TypeOK'
    <3>1. Torn \in Settings
      BY DEF Torn, Settings
    <3>2. flash'.accounts \subseteq SUBSET Account
      BY <2>2 DEF Account, FlashOK
    <3>3. flash'.config \subseteq Settings
      <4>1. Unpacked.config \in Settings
        BY <2>1 DEF FileSystem
      <4> QED
        BY <2>2, <3>1, <4>1 DEF FlashOK
    <3>4. flash'.scripts \subseteq SUBSET Script
      BY <2>1, <2>2 DEF FileSystem, FlashOK
    <3>5. FlashOK'
      BY <2>2, <3>2, <3>3, <3>4 DEF FlashOK
    <3> QED
      BY <1>2, <2>1, <3>5 DEF Unpack, Phase
  <2>4. Current'
    BY <1>2, <2>1, <2>2 DEF Unpack, Current
  <2>5. now.archive /\ flash.archive = {TRUE}
    BY <1>2 DEF Unpack, Progress, Restoring
  <2>6. /\ phase' = "append" /\ now'.archive /\ flash'.archive = {TRUE}
        /\ now'.config.of = "backup" /\ now'.accounts = {"backup"}
        /\ settled' = settled
    BY <1>2, <2>1, <2>2, <2>5 DEF Unpack
  <2>7. Progress' /\ ArchiveUntilSafe'
    BY <2>5, <2>6 DEF Progress, Restoring, ArchiveUntilSafe
  <2> QED
    BY <2>3, <2>4, <2>7
<1>3. CASE AddMissingLines
  <2> DEFINE new == [now EXCEPT !.accounts = @ \cup saved]
  <2>1. /\ new \in FileSystem
        /\ new.archive = now.archive /\ new.config = now.config
        /\ new.accounts = now.accounts \cup saved
        /\ new.scripts = now.scripts
    BY DEF FileSystem
  <2>2. Write(new)
    BY <1>3 DEF AddMissingLines
  <2>3. TypeOK'
    BY <1>3, <2>1, <2>2, WriteType DEF AddMissingLines, Phase
  <2>4. Current'
    BY <2>1, <2>2, WriteEffect DEF Current
  <2>5. /\ now.archive /\ flash.archive = {TRUE}
        /\ now.config.of = "backup" /\ "backup" \in now.accounts
    BY <1>3 DEF AddMissingLines, Progress, Restoring
  <2>6. /\ phase' = "sync" /\ now'.archive /\ flash'.archive = {TRUE}
        /\ now'.config.of = "backup" /\ "backup" \in now'.accounts
        /\ settled' = settled
    BY <1>3, <2>1, <2>2, <2>5, WriteEffect DEF AddMissingLines
  <2>7. Progress' /\ ArchiveUntilSafe'
    BY <2>5, <2>6 DEF Progress, Restoring, ArchiveUntilSafe
  <2> QED
    BY <2>3, <2>4, <2>7
<1>4. CASE SyncRestored
  <2>1. Sync
    BY <1>4 DEF SyncRestored
  <2>2. TypeOK'
    BY <1>4, <2>1, SyncType DEF SyncRestored, Phase
  <2>3. Current' /\ Progress' /\ ArchiveUntilSafe'
    BY <1>4, <2>1, SyncEffect
       DEF SyncRestored, Current, Progress, Restoring, ArchiveUntilSafe, Safe
  <2> QED
    BY <2>2, <2>3
<1> QED
  BY <1>1, <1>2, <1>3, <1>4

Later == Phase \ (Restoring \cup {"mount"})

\* After the restore, what programs see is safe too.
LEMMA LaterIsSafe ==
  ASSUME Inv, phase \in Later
  PROVE  /\ Safe
         /\ now.config.of \in {"backup", "user"} /\ "backup" \in now.accounts
  BY DEF Inv, Later, Progress, Current, Safe

\* After the restore, a write that keeps to the backup keeps the invariant.
LEMMA LaterWrite ==
  ASSUME Inv, phase \in Later, phase' \in Later,
         NEW new \in FileSystem, Write(new),
         new.config.of \in {"backup", "user"}, "backup" \in new.accounts,
         new.archive => now.archive,
         phase' \in {"removed", "running"} => ~new.archive,
         settled' = settled
  PROVE  /\ now' \in FileSystem /\ FlashOK'
         /\ Current' /\ Progress' /\ ArchiveUntilSafe'
<1>1. now' \in FileSystem /\ FlashOK'
  BY WriteType DEF Inv, TypeOK
<1>2. Current'
  BY WriteEffect DEF Current
<1>3. Safe'
  BY LaterIsSafe, WriteEffect DEF Safe
<1>4. settled => flash'.archive = {FALSE}
  <2> SUFFICES ASSUME settled PROVE flash'.archive = {FALSE}
    OBVIOUS
  <2>1. flash.archive = {FALSE} /\ now.archive = FALSE
    BY DEF Inv, Progress, Current
  <2>2. new.archive = FALSE
    BY <2>1 DEF FileSystem
  <2> QED
    BY <2>1, <2>2, WriteEffect
<1>5. Progress' /\ ArchiveUntilSafe'
  BY <1>3, <1>4, WriteEffect
     DEF Progress, ArchiveUntilSafe, Safe, Later, Restoring
<1> QED
  BY <1>1, <1>2, <1>5

\* After the restore, so does a sync.
LEMMA LaterSync ==
  ASSUME Inv, phase \in Later, phase' \in Later \cup {"mount"}, Sync,
         phase' \in {"removed", "running"} => ~now.archive,
         settled' => ~now.archive
  PROVE  /\ now' \in FileSystem /\ FlashOK'
         /\ Current' /\ Progress' /\ ArchiveUntilSafe'
<1>1. now' \in FileSystem /\ FlashOK'
  BY SyncType DEF Inv, TypeOK
<1>2. Current'
  BY SyncEffect DEF Current
<1>3. Safe'
  BY LaterIsSafe, SyncEffect DEF Safe
<1>4. settled' => flash'.archive = {FALSE}
  BY SyncEffect DEF Inv, TypeOK, FileSystem
<1>5. Progress' /\ ArchiveUntilSafe'
  BY <1>3, <1>4, SyncEffect
     DEF Progress, ArchiveUntilSafe, Safe, Later, Restoring
<1> QED
  BY <1>1, <1>2, <1>5

\* The boot script keeps the invariant.
LEMMA BootScriptInv ==
  ASSUME Inv, ListScripts \/ RunScript \/ RemoveScript \/ CommitAll \/ SyncBoot
  PROVE  Inv'
<1> USE DEF Inv, TypeOK, Go, ramVars
<1>0. /\ {"scripts", "run", "remove", "committed", "services"} \subseteq Later
      /\ Later \subseteq Phase
  BY DEF Later, Phase, Restoring
<1>1. CASE ListScripts
  <2>1. now.scripts \subseteq Script
    BY DEF FileSystem
  <2>2. TypeOK'
    BY <1>1, <2>1 DEF ListScripts, Phase, FlashOK
  <2>3. Current' /\ Progress' /\ ArchiveUntilSafe'
    BY <1>1 DEF ListScripts, Current, Progress, Restoring, Safe,
                ArchiveUntilSafe
  <2> QED
    BY <2>2, <2>3
<1>2. CASE RunScript
  <2>1. PICK s \in Script :
          \/ /\ phase' = "run" /\ todo' = todo \ {s}
             /\ UNCHANGED <<now, flash, staged>>
          \/ /\ phase' = "remove"
             /\ Write([now EXCEPT !.config.by = @ \cup {s}])
             /\ UNCHANGED <<todo, staged>>
          \/ /\ phase' = "remove"
             /\ staged' = staged \cup {s}
             /\ UNCHANGED <<todo, now, flash>>
    BY <1>2 DEF RunScript
  <2>2. phase = "run" /\ UNCHANGED <<saved, settled, faults>>
    BY <1>2 DEF RunScript
  <2>3. CASE Write([now EXCEPT !.config.by = @ \cup {s}])
               /\ phase' = "remove" /\ UNCHANGED <<todo, staged>>
    <3> DEFINE new == [now EXCEPT !.config.by = @ \cup {s}]
    <3>1. /\ new \in FileSystem
          /\ new.archive = now.archive /\ new.accounts = now.accounts
          /\ new.config.of = now.config.of
      BY DEF FileSystem, Settings
    <3>2. Write(new)
      BY <2>3
    <3> HIDE DEF new
    <3>3. /\ now' \in FileSystem /\ FlashOK'
          /\ Current' /\ Progress' /\ ArchiveUntilSafe'
      BY <1>0, <2>2, <2>3, <3>1, <3>2, LaterIsSafe, LaterWrite
    <3> QED
      BY <1>0, <2>2, <2>3, <3>3
  <2>4. CASE UNCHANGED <<now, flash>>
    <3>1. TypeOK'
      BY <2>1, <2>2, <2>4 DEF Phase, FlashOK
    <3>2. phase' \in {"run", "remove"}
      BY <2>1
    <3>3. Current' /\ Progress' /\ ArchiveUntilSafe'
      BY <2>2, <2>4, <3>2
         DEF Current, Progress, Restoring, Safe, ArchiveUntilSafe
    <3> QED
      BY <3>1, <3>3
  <2> QED
    BY <2>1, <2>3, <2>4
<1>3. CASE RemoveScript
  <2>1. PICK s \in Script :
          /\ Write([now EXCEPT !.scripts = @ \ {s}])
          /\ todo' = todo \ {s}
    BY <1>3 DEF RemoveScript
  <2> DEFINE new == [now EXCEPT !.scripts = @ \ {s}]
  <2>2. /\ new \in FileSystem
        /\ new.archive = now.archive /\ new.accounts = now.accounts
        /\ new.config = now.config
    BY DEF FileSystem
  <2>3. Write(new)
    BY <2>1
  <2> HIDE DEF new
  <2>4. phase = "remove" /\ phase' = "run"
        /\ UNCHANGED <<saved, staged, settled, faults>>
    BY <1>3 DEF RemoveScript
  <2>5. /\ now' \in FileSystem /\ FlashOK'
        /\ Current' /\ Progress' /\ ArchiveUntilSafe'
    BY <1>0, <2>2, <2>3, <2>4, LaterIsSafe, LaterWrite
  <2> QED
    BY <1>0, <2>1, <2>4, <2>5
<1>4. CASE CommitAll
  <2> DEFINE new == [now EXCEPT !.config.by = @ \cup staged]
  <2>1. /\ new \in FileSystem
        /\ new.archive = now.archive /\ new.accounts = now.accounts
        /\ new.config.of = now.config.of
    BY DEF FileSystem, Settings
  <2>2. Write(new)
    BY <1>4 DEF CommitAll
  <2> HIDE DEF new
  <2>3. phase = "run" /\ phase' = "committed" /\ staged' = {}
        /\ UNCHANGED <<saved, todo, settled, faults>>
    BY <1>4 DEF CommitAll
  <2>4. /\ now' \in FileSystem /\ FlashOK'
        /\ Current' /\ Progress' /\ ArchiveUntilSafe'
    BY <1>0, <2>1, <2>2, <2>3, LaterIsSafe, LaterWrite
  <2> QED
    BY <1>0, <2>3, <2>4
<1>5. CASE SyncBoot
  <2>1. /\ phase = "committed" /\ phase' = "services" /\ Sync
        /\ UNCHANGED <<saved, todo, staged, settled, faults>>
    BY <1>5 DEF SyncBoot
  <2>2. settled => ~now.archive
    BY DEF Progress, Current
  <2>3. /\ now' \in FileSystem /\ FlashOK'
        /\ Current' /\ Progress' /\ ArchiveUntilSafe'
    BY <1>0, <2>1, <2>2, LaterSync
  <2> QED
    BY <1>0, <2>1, <2>3
<1> QED
  BY <1>1, <1>2, <1>3, <1>4, <1>5

\* So do the last init script and the running system.
LEMMA RunningInv ==
  ASSUME Inv, RemoveArchive \/ SyncDone \/ Change \/ Reboot
  PROVE  Inv'
<1> USE DEF Inv, TypeOK, Go, ramVars
<1>0. /\ {"services", "removed", "running"} \subseteq Later
      /\ Later \subseteq Phase /\ "mount" \in Phase
  BY DEF Later, Phase, Restoring
<1>1. CASE RemoveArchive
  <2> DEFINE new == [now EXCEPT !.archive = FALSE]
  <2>1. /\ new \in FileSystem /\ ~new.archive
        /\ new.config = now.config /\ new.accounts = now.accounts
    BY DEF FileSystem
  <2>2. Write(new)
    BY <1>1 DEF RemoveArchive
  <2> HIDE DEF new
  <2>3. phase = "services" /\ phase' = "removed"
        /\ UNCHANGED <<saved, todo, staged, settled, faults>>
    BY <1>1 DEF RemoveArchive
  <2>4. /\ now' \in FileSystem /\ FlashOK'
        /\ Current' /\ Progress' /\ ArchiveUntilSafe'
    BY <1>0, <2>1, <2>2, <2>3, LaterIsSafe, LaterWrite
  <2> QED
    BY <1>0, <2>3, <2>4
<1>2. CASE SyncDone
  <2>1. /\ phase = "removed" /\ phase' = "running" /\ Sync /\ settled'
        /\ UNCHANGED <<saved, todo, staged, faults>>
    BY <1>2 DEF SyncDone
  <2>2. ~now.archive
    BY <2>1 DEF Progress
  <2>3. /\ now' \in FileSystem /\ FlashOK'
        /\ Current' /\ Progress' /\ ArchiveUntilSafe'
    BY <1>0, <2>1, <2>2, LaterSync
  <2>4. settled' \in BOOLEAN
    BY <1>2 DEF SyncDone
  <2> QED
    BY <1>0, <2>1, <2>3, <2>4
<1>3. CASE Change
  <2> DEFINE new == [now EXCEPT !.config.of = "user"]
  <2>1. /\ new \in FileSystem /\ new.archive = now.archive
        /\ new.config.of = "user" /\ new.accounts = now.accounts
    BY DEF FileSystem, Settings
  <2>2. Write(new)
    BY <1>3 DEF Change
  <2> HIDE DEF new
  <2>3. /\ phase = "running" /\ phase' = "running"
        /\ UNCHANGED <<saved, todo, staged, settled, faults>>
    BY <1>3 DEF Change
  <2>4. ~new.archive
    BY <2>1, <2>3 DEF Progress
  <2>5. /\ now' \in FileSystem /\ FlashOK'
        /\ Current' /\ Progress' /\ ArchiveUntilSafe'
    BY <1>0, <2>1, <2>2, <2>3, <2>4, LaterIsSafe, LaterWrite
  <2> QED
    BY <1>0, <2>3, <2>5
<1>4. CASE Reboot
  <2>1. /\ phase = "running" /\ phase' = "mount" /\ Sync
        /\ saved' = {} /\ todo' = {} /\ staged' = {}
        /\ UNCHANGED <<settled, faults>>
    BY <1>4 DEF Reboot
  <2>2. ~now.archive
    BY <2>1 DEF Progress
  <2>3. /\ now' \in FileSystem /\ FlashOK'
        /\ Current' /\ Progress' /\ ArchiveUntilSafe'
    BY <1>0, <2>1, <2>2, LaterSync
  <2> QED
    BY <1>0, <2>1, <2>3
<1> QED
  BY <1>1, <1>2, <1>3, <1>4

\* A power loss at any point keeps the invariant: one version of each item is
\* left.
LEMMA PowerLossInv ==
  ASSUME Inv, PowerLoss
  PROVE  Inv'
<1> USE DEF Inv, TypeOK
<1>1. PICK left \in [archive : flash.archive, accounts : flash.accounts,
                     config : flash.config, scripts : flash.scripts] :
        now' = left /\ flash' = [i \in Item |-> {left[i]}]
  BY DEF PowerLoss
<1>2. /\ left.archive \in flash.archive /\ left.accounts \in flash.accounts
      /\ left.config \in flash.config /\ left.scripts \in flash.scripts
  OBVIOUS
<1>3. /\ DOMAIN flash' = Item
      /\ flash'.archive = {left.archive} /\ flash'.accounts = {left.accounts}
      /\ flash'.config = {left.config} /\ flash'.scripts = {left.scripts}
  BY <1>1 DEF Item
<1>4. left \in FileSystem
  BY <1>2 DEF FlashOK, FileSystem
<1>5. FlashOK'
  BY <1>3, <1>4 DEF FlashOK, FileSystem
<1>6. TypeOK'
  BY <1>1, <1>4, <1>5, FirstBootAssumption DEF PowerLoss, Phase
<1>7. Current'
  BY <1>1, <1>3 DEF Current
<1>8. phase' = "mount" /\ settled' = settled
  BY DEF PowerLoss
<1>9. Progress'
  BY <1>1, <1>2, <1>3, <1>8 DEF Progress, Restoring
<1>10. ArchiveUntilSafe'
  BY <1>2, <1>3 DEF ArchiveUntilSafe
<1> QED
  BY <1>6, <1>7, <1>9, <1>10

\* Every step keeps the invariant.
LEMMA NextInv == Inv /\ [Next]_vars => Inv'
<1> SUFFICES ASSUME Inv, [Next]_vars PROVE Inv'
  OBVIOUS
<1>1. CASE BootStep
  BY <1>1, PreinitInv, BootScriptInv, RunningInv DEF BootStep
<1>2. CASE Change \/ Reboot
  BY <1>2, RunningInv
<1>3. CASE PowerLoss
  BY <1>3, PowerLossInv
<1>4. CASE UNCHANGED vars
  BY <1>4 DEF Inv, TypeOK, FlashOK, Current, Progress, Safe,
              ArchiveUntilSafe, vars, ramVars
<1> QED
  BY <1>1, <1>2, <1>3, <1>4 DEF Next

-----------------------------------------------------------------------------
(* Theorems                                                                *)

\* The inductive invariant of the boots of a new system.
THEOREM Invariance == Spec => []Inv
<1> QED
  BY InitInv, NextInv, PTL DEF Spec

\* Types, for every set of scripts and any number of power losses.
THEOREM TypeCorrect == Spec => []TypeOK
<1>1. Inv => TypeOK
  BY DEF Inv
<1> QED
  BY <1>1, Invariance, PTL

\* done and do_mount_root: whatever is interrupted, the archive is given up
\* only when the settings and accounts of the user are whole on the flash.
THEOREM ArchiveOutlivesRestore == Spec => []ArchiveUntilSafe
<1>1. Inv => ArchiveUntilSafe
  BY DEF Inv
<1> QED
  BY <1>1, Invariance, PTL

\* "rm -f /sysupgrade.tgz && sync": once a boot is complete no power loss
\* brings the archive back.
THEOREM ArchiveStaysAway == Spec => []NeverRestoredAgain
<1>1. Inv => NeverRestoredAgain
  BY DEF Inv, Progress, Current, NeverRestoredAgain
<1> QED
  BY <1>1, Invariance, PTL

-----------------------------------------------------------------------------
(* A boot that nothing interrupts                                          *)

Migrations == Script \ Failing

\* Where the accounts of the image and the migrations are at each step of the
\* boots while power has not failed.
Uninterrupted ==
  /\ phase = "mount" /\ ~settled => now.archive
  /\ phase = "running" => settled
  /\ phase \in {"mount", "unpack"} /\ ~settled =>
       now.accounts = {"image"} /\ now.scripts = Script \ Archived
  /\ phase \in {"unpack", "append"} => saved = {"image"}
  /\ phase \in {"append", "sync"} => now.scripts = Script
  /\ phase = "append" => now.accounts = {"backup"}
  /\ phase \notin {"mount", "unpack", "append"} \/ settled => now.accounts = Account
  /\ phase = "scripts" => Migrations \subseteq now.config.by \cup now.scripts
  /\ phase \in {"run", "remove"} => Migrations \subseteq now.config.by \cup staged \cup todo
  /\ phase = "remove" => \A s \in Script : IsNext(s) => s \in now.config.by \cup staged
  /\ phase \in {"committed", "services", "removed", "running"} \/ settled =>
       Migrations \subseteq now.config.by

Whole == Inv /\ (faults = 0 => Uninterrupted)


\* A complete boot leaves no archive to restore.
LEMMA RestoredOnce == Inv /\ phase \in Restoring => ~settled
BY DEF Inv, Progress

\* A write changes one item of the file system that programs see.
LEMMA Contents ==
  ASSUME now \in FileSystem, NEW s
  PROVE  /\ [now EXCEPT !.config.by = @ \cup {s}].config.by = now.config.by \cup {s}
         /\ [now EXCEPT !.config.by = @ \cup staged].config.by = now.config.by \cup staged
         /\ [now EXCEPT !.config.of = "user"].config.by = now.config.by
BY DEF FileSystem, Settings

\* Two scripts are never next at once.
LEMMA NextIsOne ==
  ASSUME todo \subseteq Script, NEW s \in Script, NEW t \in Script, IsNext(s), IsNext(t)
  PROVE  s = t
<1>1. Position[s] \in Nat /\ Position[t] \in Nat
  BY FirstBootAssumption
<1>2. Position[s] <= Position[t] /\ Position[t] <= Position[s]
  BY DEF IsNext
<1> QED
  BY <1>1, <1>2, FirstBootAssumption

\* Preinit, while power does not fail.
LEMMA PreinitWhole ==
  ASSUME Inv, Uninterrupted, Mount \/ Unpack \/ AddMissingLines \/ SyncRestored
  PROVE  Uninterrupted'
<1> USE DEF Go, ramVars
<1>0. now \in FileSystem /\ saved \subseteq Account
  BY DEF Inv, TypeOK
<1>1. CASE Mount
  <2>1. CASE now.archive
    <3>1. ~settled
      BY <2>1 DEF Inv, Progress, Current
    <3> QED
      BY <1>1, <2>1, <3>1 DEF Mount, Uninterrupted
  <2>2. CASE ~now.archive
    <3>1. settled
      BY <1>1, <2>2 DEF Mount, Uninterrupted
    <3> QED
      BY <1>1, <2>2, <3>1 DEF Mount, Uninterrupted
  <2> QED
    BY <2>1, <2>2
<1>2. CASE Unpack
  <2>1. ~settled
    BY <1>2, RestoredOnce DEF Unpack, Restoring
  <2>2. Unpacked.accounts = {"backup"} /\ Unpacked.scripts = now.scripts \cup Archived
    BY <1>0 DEF Unpacked, FileSystem
  <2> QED
    BY <1>2, <2>1, <2>2, FirstBootAssumption DEF Unpack, Uninterrupted
<1>3. CASE AddMissingLines
  <2>1. ~settled
    BY <1>3, RestoredOnce DEF AddMissingLines, Restoring
  <2>2. /\ now'.accounts = now.accounts \cup saved
        /\ now'.scripts = now.scripts
    BY <1>0, <1>3 DEF AddMissingLines, Write, FileSystem
  <2>3. now'.accounts = Account
    BY <1>3, <2>2 DEF AddMissingLines, Uninterrupted, Account
  <2> QED
    BY <1>3, <2>1, <2>2, <2>3 DEF AddMissingLines, Uninterrupted
<1>4. CASE SyncRestored
  <2>1. ~settled
    BY <1>4, RestoredOnce DEF SyncRestored, Restoring
  <2> QED
    BY <1>4, <2>1 DEF SyncRestored, Sync, Uninterrupted, Migrations
<1> QED
  BY <1>1, <1>2, <1>3, <1>4

\* So the boot script, which gives each migration its turn.
LEMMA BootScriptWhole ==
  ASSUME Inv, Uninterrupted,
         ListScripts \/ RunScript \/ RemoveScript \/ CommitAll \/ SyncBoot
  PROVE  Uninterrupted'
<1> USE DEF Go, ramVars
<1>0. now \in FileSystem /\ todo \subseteq Script /\ staged \subseteq Script
  BY DEF Inv, TypeOK
<1>1. CASE ListScripts
  BY <1>1 DEF ListScripts, Uninterrupted
<1>2. CASE RunScript
  <2>1. PICK s \in Script :
          /\ IsNext(s)
          /\ \/ /\ s \in Failing
                /\ phase' = "run" /\ todo' = todo \ {s}
                /\ UNCHANGED <<now, flash, staged>>
             \/ /\ s \in Committing \ Failing
                /\ phase' = "remove"
                /\ Write([now EXCEPT !.config.by = @ \cup {s}])
                /\ UNCHANGED <<todo, staged>>
             \/ /\ s \notin Committing \cup Failing
                /\ phase' = "remove"
                /\ staged' = staged \cup {s}
                /\ UNCHANGED <<todo, now, flash>>
    BY <1>2 DEF RunScript
  <2>2. phase = "run" /\ UNCHANGED <<saved, settled, faults>>
    BY <1>2 DEF RunScript
  <2>3. /\ now.accounts = Account
        /\ Migrations \subseteq now.config.by \cup staged \cup todo
        /\ settled => Migrations \subseteq now.config.by
    BY <2>2 DEF Uninterrupted
  <2>4. CASE /\ s \in Failing
             /\ phase' = "run" /\ todo' = todo \ {s}
             /\ UNCHANGED <<now, flash, staged>>
    <3>1. Migrations \subseteq now.config.by \cup staged \cup todo'
      BY <2>3, <2>4 DEF Migrations
    <3> QED
      BY <2>2, <2>3, <2>4, <3>1 DEF Uninterrupted, Migrations
  <2>5. CASE /\ phase' = "remove" /\ UNCHANGED todo
             /\ \/ /\ Write([now EXCEPT !.config.by = @ \cup {s}])
                   /\ UNCHANGED staged
                \/ /\ staged' = staged \cup {s}
                   /\ UNCHANGED <<now, flash>>
    <3>1. /\ now'.accounts = now.accounts
          /\ now.config.by \subseteq now'.config.by
          /\ now.config.by \cup staged \cup {s} = now'.config.by \cup staged'
      <4>1. CASE Write([now EXCEPT !.config.by = @ \cup {s}]) /\ UNCHANGED staged
        <5>1. now'.accounts = now.accounts
          BY <1>0, <4>1 DEF Write, FileSystem
        <5>2. now'.config.by = now.config.by \cup {s}
          BY <1>0, <4>1, Contents DEF Write
        <5> QED
          BY <4>1, <5>1, <5>2
      <4>2. CASE staged' = staged \cup {s} /\ UNCHANGED <<now, flash>>
        BY <4>2
      <4> QED
        BY <2>5, <4>1, <4>2
    <3>2. \A t \in Script : IsNext(t)' => t = s
      BY <1>0, <2>1, <2>5, NextIsOne DEF IsNext
    <3> QED
      BY <2>2, <2>3, <2>5, <3>1, <3>2 DEF Uninterrupted, Migrations
  <2> QED
    BY <2>1, <2>4, <2>5
<1>3. CASE RemoveScript
  <2>1. PICK s \in Script :
          /\ IsNext(s)
          /\ Write([now EXCEPT !.scripts = @ \ {s}])
          /\ todo' = todo \ {s}
    BY <1>3 DEF RemoveScript
  <2>2. phase = "remove" /\ phase' = "run" /\ UNCHANGED <<saved, staged, settled, faults>>
    BY <1>3 DEF RemoveScript
  <2>3. now'.accounts = now.accounts /\ now'.config = now.config
    BY <1>0, <2>1 DEF Write, FileSystem
  <2>4. s \in now.config.by \cup staged
    BY <2>1, <2>2 DEF Uninterrupted
  <2> QED
    BY <2>1, <2>2, <2>3, <2>4 DEF Uninterrupted, Migrations
<1>4. CASE CommitAll
  <2>1. /\ phase = "run" /\ todo = {} /\ phase' = "committed"
        /\ UNCHANGED <<saved, todo, settled, faults>>
    BY <1>4 DEF CommitAll
  <2>2. now'.accounts = now.accounts
    BY <1>0, <1>4 DEF CommitAll, Write, FileSystem
  <2>3. now'.config.by = now.config.by \cup staged
    BY <1>0, <1>4, Contents DEF CommitAll, Write
  <2> QED
    BY <2>1, <2>2, <2>3 DEF Uninterrupted, Migrations
<1>5. CASE SyncBoot
  BY <1>5 DEF SyncBoot, Sync, Uninterrupted, Migrations
<1> QED
  BY <1>1, <1>2, <1>3, <1>4, <1>5

\* So the end of the boot and the running system.
LEMMA RunningWhole ==
  ASSUME Inv, Uninterrupted, RemoveArchive \/ SyncDone \/ Change \/ Reboot
  PROVE  Uninterrupted'
<1> USE DEF Go, ramVars
<1>0. now \in FileSystem
  BY DEF Inv, TypeOK
<1>1. CASE RemoveArchive
  <2>1. now'.accounts = now.accounts /\ now'.config = now.config
    BY <1>0, <1>1 DEF RemoveArchive, Write, FileSystem
  <2> QED
    BY <1>1, <2>1 DEF RemoveArchive, Uninterrupted, Migrations
<1>2. CASE SyncDone
  BY <1>2 DEF SyncDone, Sync, Uninterrupted, Migrations
<1>3. CASE Change
  <2>1. now'.accounts = now.accounts
    BY <1>0, <1>3 DEF Change, Write, FileSystem
  <2>2. now'.config.by = now.config.by
    BY <1>0, <1>3, Contents DEF Change, Write
  <2> QED
    BY <1>3, <2>1, <2>2 DEF Change, Uninterrupted, Migrations
<1>4. CASE Reboot
  <2>1. settled
    BY <1>4 DEF Reboot, Uninterrupted
  <2> QED
    BY <1>4, <2>1 DEF Reboot, Sync, Uninterrupted, Migrations
<1> QED
  BY <1>1, <1>2, <1>3, <1>4

\* No step undoes it; power, once it has failed, has failed.
LEMMA WholeNext == Whole /\ [Next]_vars => Whole'
<1> SUFFICES ASSUME Whole, [Next]_vars PROVE Whole'
  OBVIOUS
<1>1. Inv'
  BY NextInv DEF Whole
<1>2. SUFFICES ASSUME faults' = 0 PROVE Uninterrupted'
  BY <1>1 DEF Whole
<1>3. CASE PowerLoss
  BY <1>2, <1>3 DEF PowerLoss, Whole, Inv, TypeOK
<1>4. CASE BootStep \/ Change \/ Reboot
  <2>1. faults' = faults
    BY <1>4 DEF BootStep, Mount, Unpack, AddMissingLines, SyncRestored, ListScripts,
                RunScript, RemoveScript, CommitAll, SyncBoot, RemoveArchive, SyncDone,
                Change, Reboot
  <2>2. Inv /\ Uninterrupted
    BY <1>2, <2>1 DEF Whole
  <2> QED
    BY <1>4, <2>2, PreinitWhole, BootScriptWhole, RunningWhole DEF BootStep
<1>5. CASE UNCHANGED vars
  BY <1>2, <1>5 DEF Whole, Uninterrupted, IsNext, vars, ramVars
<1> QED
  BY <1>3, <1>4, <1>5 DEF Next

\* missing_lines and uci_apply_defaults: a boot that power does not interrupt
\* ends with the accounts of both systems and with every migration that does
\* not fail, in whatever order the scripts run and whichever of them commit.
THEOREM NothingForgotten == Spec => []CompleteWithoutFaults
<1>1. Init => Whole
  <2> SUFFICES ASSUME Init PROVE Whole
    OBVIOUS
  <2>1. Uninterrupted
    BY DEF Init, Image, Uninterrupted
  <2> QED
    BY <2>1, InitInv DEF Whole
<1>2. Whole => CompleteWithoutFaults
  BY DEF Whole, Uninterrupted, Migrations, CompleteWithoutFaults
<1> QED
  BY <1>1, <1>2, WholeNext, PTL DEF Spec

=============================================================================
