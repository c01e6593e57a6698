----------------------------- MODULE FirstBoot -----------------------------
(***************************************************************************)
(* How the settings get into a new system.                                 *)
(*                                                                         *)
(* Preinit unpacks /sysupgrade.tgz over the root file system and adds the  *)
(* accounts of the image that the archive lacks.  The boot script runs     *)
(* each script of /etc/uci-defaults on the settings and removes the ones   *)
(* that succeed.  The last init script removes the archive.  Power may     *)
(* fail between any two steps.                                             *)
(*                                                                         *)
(* A write reaches the flash at the next sync or before, in any order:     *)
(* "flash" keeps every version of an item that a power loss may leave.     *)
(*                                                                         *)
(* Simplifications.  The configuration files are one item, and so are      *)
(* passwd, group and shadow.  /tmp/sysupgrade.tar is not there: the board  *)
(* boots from flash.  A commit of one configuration does not commit what   *)
(* other scripts have staged in it.                                        *)
(***************************************************************************)
EXTENDS Naturals

CONSTANTS
  Script,     \* the scripts of /etc/uci-defaults
  Position,   \* the place of each in the output of ls
  Archived,   \* those that come with the archive, not with the image
  Committing, \* those that commit what they change
  Failing,    \* those that return an error
  MaxFaults   \* power losses

ASSUME FirstBootAssumption ==
  /\ Position \in [Script -> Nat]
  /\ \A s, t \in Script : Position[s] = Position[t] => s = t
  /\ Archived \subseteq Script /\ Committing \subseteq Script
  /\ Failing \subseteq Script
  /\ MaxFaults \in Nat

VARIABLES
  phase,   \* the next thing the boot does
  now,     \* the file system as programs see it
  flash,   \* for each item the versions a power loss may leave
  saved,   \* /tmp/passwd: the accounts before the archive was unpacked
  todo,    \* scripts the boot script has listed and not done with
  staged,  \* scripts whose changes are in /tmp/.uci
  settled, \* a boot has come to its end
  faults   \* power losses so far

ramVars == <<saved, todo, staged>>
vars == <<phase, now, flash, ramVars, settled, faults>>

Account == {"image", "backup"}

\* Settings: whose they are, and which scripts have changed them.
Settings == [of : {"image", "backup", "user", "torn"}, by : SUBSET Script]

Item == {"archive", "accounts", "config", "scripts"}

Image ==
  [archive |-> TRUE, accounts |-> {"image"},
   config |-> [of |-> "image", by |-> {}], scripts |-> Script \ Archived]

Init ==
  /\ phase = "mount"
  /\ now = Image
  /\ flash = [i \in Item |-> {Image[i]}]
  /\ saved = {} /\ todo = {} /\ staged = {}
  /\ settled = FALSE
  /\ faults = 0

Go(from, to) == phase = from /\ phase' = to

\* The items that "new" gives another value may or may not reach the flash.
Write(new) ==
  /\ now' = new
  /\ flash' = [i \in Item |-> flash[i] \cup {new[i]}]

Sync ==
  /\ flash' = [i \in Item |-> {now[i]}]
  /\ UNCHANGED now

-----------------------------------------------------------------------------
(* Preinit: do_mount_root                                                  *)

Mount ==
  /\ Go("mount", IF now.archive THEN "unpack" ELSE "scripts")
  /\ saved' = IF now.archive THEN now.accounts ELSE {}
  /\ UNCHANGED <<now, flash, todo, staged, settled, faults>>

\* What unpacking makes of the file system.
Unpacked ==
  [now EXCEPT !.accounts = {"backup"},
              !.config = [of |-> "backup", by |-> {}],
              !.scripts = @ \cup Archived]

\* Mutant of Unpack: the archive is removed at once.
UnpackAndRemove ==
  /\ Go("unpack", "append")
  /\ Write([Unpacked EXCEPT !.archive = FALSE])
  /\ UNCHANGED <<ramVars, settled, faults>>

\* A file that was not written to its end.
Torn == [of |-> "torn", by |-> {}]

\* tar xzf: files are torn until they are written.
Unpack ==
  /\ Go("unpack", "append")
  /\ now' = Unpacked
  /\ flash' =
       [flash EXCEPT
          !.accounts = @ \cup {{}, {"backup"}},
          !.config = @ \cup {Unpacked.config, Torn},
          !.scripts = @ \cup {Unpacked.scripts}]
  /\ UNCHANGED <<ramVars, settled, faults>>

\* Mutant of AddMissingLines: > instead of >>.
AddMissingLinesOver ==
  /\ Go("append", "sync")
  /\ Write([now EXCEPT !.accounts = saved \ @])
  /\ saved' = {}
  /\ UNCHANGED <<todo, staged, settled, faults>>

\* missing_lines: the accounts that only the saved file has.
AddMissingLines ==
  /\ Go("append", "sync")
  /\ Write([now EXCEPT !.accounts = @ \cup saved])
  /\ saved' = {}
  /\ UNCHANGED <<todo, staged, settled, faults>>

SyncRestored ==
  /\ Go("sync", "scripts")
  /\ Sync
  /\ UNCHANGED <<ramVars, settled, faults>>

-----------------------------------------------------------------------------
(* The boot script: uci_apply_defaults                                     *)

ListScripts ==
  /\ Go("scripts", "run")
  /\ todo' = now.scripts
  /\ UNCHANGED <<now, flash, saved, staged, settled, faults>>

\* The script whose turn it is.
IsNext(s) == s \in todo /\ \A t \in todo : Position[s] <= Position[t]

\* Mutant of RunScript: the first failure ends the loop.
RunScriptOrStop ==
  /\ phase = "run"
  /\ \E s \in Script :
       /\ IsNext(s)
       /\ \/ /\ s \in Failing
             /\ phase' = "run" /\ todo' = {}
             /\ UNCHANGED <<now, flash, staged>>
          \/ /\ s \in Committing \ Failing
             /\ phase' = "remove"
             /\ Write([now EXCEPT !.config.by = @ \cup {s}])
             /\ UNCHANGED <<todo, staged>>
          \/ /\ s \notin Committing \cup Failing
             /\ phase' = "remove"
             /\ staged' = staged \cup {s}
             /\ UNCHANGED <<todo, now, flash>>
  /\ UNCHANGED <<saved, settled, faults>>

\* A script changes settings and commits them, or stages its changes.
RunScript ==
  /\ phase = "run"
  /\ \E s \in Script :
       /\ IsNext(s)
       /\ \/ /\ s \in Failing
             /\ phase' = "run" /\ todo' = todo \ {s}
             /\ UNCHANGED <<now, flash, staged>>
          \/ /\ s \in Committing \ Failing
             /\ phase' = "remove"
             /\ Write([now EXCEPT !.config.by = @ \cup {s}])
             /\ UNCHANGED <<todo, staged>>
          \/ /\ s \notin Committing \cup Failing
             /\ phase' = "remove"
             /\ staged' = staged \cup {s}
             /\ UNCHANGED <<todo, now, flash>>
  /\ UNCHANGED <<saved, settled, faults>>

RemoveScript ==
  /\ Go("remove", "run")
  /\ \E s \in Script :
       /\ IsNext(s)
       /\ Write([now EXCEPT !.scripts = @ \ {s}])
       /\ todo' = todo \ {s}
  /\ UNCHANGED <<saved, staged, settled, faults>>

\* uci commit of everything that is staged.
CommitAll ==
  /\ phase = "run" /\ todo = {} /\ phase' = "committed"
  /\ Write([now EXCEPT !.config.by = @ \cup staged])
  /\ staged' = {}
  /\ UNCHANGED <<saved, todo, settled, faults>>

SyncBoot ==
  /\ Go("committed", "services")
  /\ Sync
  /\ UNCHANGED <<ramVars, settled, faults>>

-----------------------------------------------------------------------------
(* The end of the boot: done                                               *)

\* Mutant of RemoveArchive: no sync.
RemoveArchiveOnly ==
  /\ Go("services", "running")
  /\ Write([now EXCEPT !.archive = FALSE])
  /\ settled' = TRUE
  /\ UNCHANGED <<ramVars, faults>>

RemoveArchive ==
  /\ Go("services", "removed")
  /\ Write([now EXCEPT !.archive = FALSE])
  /\ UNCHANGED <<ramVars, settled, faults>>

SyncDone ==
  /\ Go("removed", "running")
  /\ Sync
  /\ settled' = TRUE
  /\ UNCHANGED <<ramVars, faults>>

\* The user changes settings of the running system.
Change ==
  /\ phase = "running"
  /\ Write([now EXCEPT !.config.of = "user"])
  /\ UNCHANGED <<phase, ramVars, settled, faults>>

\* RAM is gone; umount syncs.
Reboot ==
  /\ Go("running", "mount")
  /\ Sync
  /\ saved' = {} /\ todo' = {} /\ staged' = {}
  /\ UNCHANGED <<settled, faults>>

PowerLoss ==
  /\ faults < MaxFaults
  /\ faults' = faults + 1
  /\ phase' = "mount"
  /\ \E left \in [archive : flash.archive, accounts : flash.accounts,
                  config : flash.config, scripts : flash.scripts] :
       /\ now' = left
       /\ flash' = [i \in Item |-> {left[i]}]
  /\ saved' = {} /\ todo' = {} /\ staged' = {}
  /\ UNCHANGED settled

BootStep ==
  \/ Mount \/ Unpack \/ AddMissingLines \/ SyncRestored
  \/ ListScripts \/ RunScript \/ RemoveScript \/ CommitAll \/ SyncBoot
  \/ RemoveArchive \/ SyncDone

Next == BootStep \/ Change \/ Reboot \/ PowerLoss

Spec == Init /\ [][Next]_vars

\* A boot goes on by itself.
FairSpec == Spec /\ WF_vars(BootStep)

-----------------------------------------------------------------------------
(* Properties                                                              *)

Phase ==
  {"mount", "unpack", "append", "sync", "scripts", "run", "remove",
   "committed", "services", "removed", "running"}

FileSystem ==
  [archive : BOOLEAN, accounts : SUBSET Account, config : Settings,
   scripts : SUBSET Script]

FlashOK ==
  /\ DOMAIN flash = Item
  /\ flash.archive \subseteq BOOLEAN /\ flash.accounts \subseteq SUBSET Account
  /\ flash.config \subseteq Settings /\ flash.scripts \subseteq SUBSET Script

TypeOK ==
  /\ phase \in Phase
  /\ now \in FileSystem
  /\ FlashOK
  /\ saved \subseteq Account
  /\ todo \subseteq Script /\ staged \subseteq Script
  /\ settled \in BOOLEAN
  /\ faults \in 0..MaxFaults

\* "config restore": the archive is given up only when all its settings and
\* accounts are safe on the flash.
ArchiveUntilSafe ==
  FALSE \in flash.archive =>
    /\ \A c \in flash.config : c.of \in {"backup", "user"}
    /\ \A a \in flash.accounts : "backup" \in a

\* After the first complete boot the archive never comes back to overwrite
\* newer settings.
NeverRestoredAgain == settled => ~now.archive

\* Unless power fails, a complete boot has the accounts of both and every
\* migration that does not fail.
CompleteWithoutFaults ==
  settled /\ faults = 0 =>
    /\ now.accounts = Account
    /\ Script \ Failing \subseteq now.config.by

\* "[ ... ] && rm -f": a script that keeps failing does not keep the others
\* from running, and boots come to their end.
OthersRun == <>[](now.scripts \subseteq Failing)

\* "Prevent configuration corruption on a power loss": whatever was
\* interrupted, the settings of a complete boot are migrated.
Migrated ==
  settled => Script \ Failing \subseteq now.config.by

=============================================================================
