----------------------------- MODULE FileBrowser -----------------------------
(***************************************************************************)
(* FileUpload of ui.js: a widget whose value is a file of the device, that *)
(* is picked, uploaded and deleted in a browser.                           *)
(*                                                                         *)
(* Every click on a directory asks for a listing; whichever arrives last   *)
(* is shown.  What was deleted or uploaded is followed by a new listing,   *)
(* if the button that was clicked is still there.                          *)
(*                                                                         *)
(* Simplifications.  Two levels of directories.  Making directories,       *)
(* picking one and the download are left out.  A listing is taken for      *)
(* another one, with its buttons, where the two differ.                    *)
(***************************************************************************)
EXTENDS Naturals, FiniteSets

CONSTANTS
  Root,     \* root_directory
  Dir,      \* directories in it
  File,     \* files
  Parent,   \* the directory each of them is in
  MaxClicks

None == "none"
Place == {Root} \cup Dir

VARIABLES
  files,   \* files and directories of the device
  browser, \* whether it is open
  shown,   \* the directory it shows, and its entries
  asked,   \* listings on their way: the directory, and its entries once they are read
  tasks,   \* files being deleted or uploaded, with the listing they were clicked in
  value,   \* the hidden input
  stat,    \* the file that was picked last
  clicks,
  trouble  \* a directory deleted that held the value, what crossed, what failed

fileVars == <<files, browser, shown, asked, tasks, value, stat, clicks, trouble>>

Blank == [dir |-> None, entries |-> {}]

Listing == [dir : Place \cup {None}, entries : SUBSET (File \cup Dir)]

FilesTypeOK ==
  /\ files \subseteq File \cup Dir /\ browser \in BOOLEAN
  /\ shown \in Listing
  /\ asked \subseteq [dir : Place, read : BOOLEAN, entries : SUBSET (File \cup Dir)]
  /\ tasks \subseteq [op : {"delete", "upload"}, path : File \cup Dir, at : Listing]
  /\ {value, stat} \subseteq File \cup {None} /\ trouble \subseteq {"directory", "crossed", "failed"}

FilesInit ==
  /\ files = File \cup Dir /\ browser = FALSE /\ shown = Blank /\ asked = {} /\ tasks = {}
  /\ value \in File \cup {None} /\ stat = value /\ clicks = 0 /\ trouble = {}

Click == clicks < MaxClicks /\ clicks' = clicks + 1

Entries(d) == {f \in files : Parent[f] = d}

Asked(d) == asked \cup {[dir |-> d, read |-> FALSE, entries |-> {}]}

Busy == asked # {} \/ tasks # {}

Troubled(what, yes) == trouble' = IF yes THEN trouble \cup {what} ELSE trouble

HandleFileBrowser ==
  /\ ~browser /\ Click
  /\ asked' = Asked(IF stat = None THEN Root ELSE Parent[stat])
  /\ Troubled("crossed", Busy)
  /\ UNCHANGED <<files, browser, shown, tasks, value, stat>>

\* A directory, of the entries or of the path above them.
HandleSelect(d) ==
  /\ browser /\ d \in shown.entries \cup {shown.dir, Root} /\ d \in Place /\ Click
  /\ shown' = Blank /\ asked' = Asked(d)
  /\ Troubled("crossed", Busy)
  /\ UNCHANGED <<files, browser, tasks, value, stat>>

ReadListing(l) ==
  /\ l \in asked /\ ~l.read
  /\ asked' = (asked \ {l}) \cup {[l EXCEPT !.read = TRUE, !.entries = Entries(l.dir)]}
  /\ UNCHANGED <<files, browser, shown, tasks, value, stat, clicks, trouble>>

\* One that fails is an empty directory.
ListingFails(l) ==
  /\ l \in asked /\ ~l.read
  /\ asked' = (asked \ {l}) \cup {[l EXCEPT !.read = TRUE, !.entries = {}]}
  /\ Troubled("failed", TRUE)
  /\ UNCHANGED <<files, browser, shown, tasks, value, stat, clicks>>

\* The first listing opens the browser.
RenderListing(l) ==
  /\ l \in asked /\ l.read
  /\ asked' = asked \ {l} /\ shown' = [dir |-> l.dir, entries |-> l.entries] /\ browser' = TRUE
  /\ UNCHANGED <<files, tasks, value, stat, clicks, trouble>>

PickFile(f) ==
  /\ browser /\ f \in shown.entries \cap File /\ Click
  /\ value' = f /\ stat' = f /\ browser' = FALSE
  /\ Troubled("crossed", Busy)
  /\ UNCHANGED <<files, shown, asked, tasks>>

HandleCancel ==
  /\ browser /\ browser' = FALSE
  /\ Troubled("crossed", Busy)
  /\ UNCHANGED <<files, shown, asked, tasks, value, stat, clicks>>

HandleReset ==
  /\ browser /\ value \in shown.entries
  /\ value' = None /\ browser' = FALSE
  /\ Troubled("crossed", Busy)
  /\ UNCHANGED <<files, shown, asked, tasks, stat, clicks>>

\* Mutant of HandleDelete: the value is left as it is.
HandleDeleteOnly(f) ==
  /\ browser /\ f \in shown.entries /\ Click
  /\ value' = value
  /\ tasks' = tasks \cup {[op |-> "delete", path |-> f, at |-> shown]}
  /\ trouble' = trouble \cup (IF Busy THEN {"crossed"} ELSE {})
                        \cup (IF value # None /\ Parent[value] = f THEN {"directory"} ELSE {})
  /\ UNCHANGED <<files, browser, shown, asked, stat>>

\* What is deleted is no longer the value, whether or not it can be deleted.
HandleDelete(f) ==
  /\ browser /\ f \in shown.entries /\ Click
  /\ value' = IF value = f THEN None ELSE value
  /\ tasks' = tasks \cup {[op |-> "delete", path |-> f, at |-> shown]}
  /\ trouble' = trouble \cup (IF Busy THEN {"crossed"} ELSE {})
                        \cup (IF value # None /\ Parent[value] = f THEN {"directory"} ELSE {})
  /\ UNCHANGED <<files, browser, shown, asked, stat>>

HandleUpload(f) ==
  /\ browser /\ Parent[f] = shown.dir /\ Click
  /\ tasks' = tasks \cup {[op |-> "upload", path |-> f, at |-> shown]}
  /\ Troubled("crossed", Busy)
  /\ UNCHANGED <<files, browser, shown, asked, value, stat>>

ListsAgain(t) ==
  IF shown = t.at THEN shown' = Blank /\ asked' = Asked(Parent[t.path])
  ELSE UNCHANGED <<shown, asked>>

\* It is done, with all that is in it, and the directory listed again.
TaskDone(t) ==
  LET gone == {t.path} \cup {f \in File : Parent[f] = t.path}
  IN /\ t \in tasks /\ tasks' = tasks \ {t} /\ ListsAgain(t)
     /\ files' = IF t.op = "delete" THEN files \ gone
                 ELSE IF Parent[t.path] \in files \cup {Root} THEN files \cup {t.path} ELSE files
     /\ UNCHANGED <<browser, value, stat, clicks, trouble>>

\* An upload the device refuses is followed by a listing too, one that did not get
\* there, and a file that was not deleted, by none.
TaskFails(t) ==
  /\ t \in tasks /\ tasks' = tasks \ {t} /\ Troubled("failed", TRUE)
  /\ \/ UNCHANGED <<shown, asked>>
     \/ t.op = "upload" /\ ListsAgain(t)
  /\ UNCHANGED <<files, browser, value, stat, clicks>>

FilesNext ==
  \/ \E d \in Place : HandleSelect(d)
  \/ \E l \in asked : ReadListing(l) \/ ListingFails(l) \/ RenderListing(l)
  \/ \E f \in File : PickFile(f) \/ HandleUpload(f)
  \/ \E f \in File \cup Dir : HandleDelete(f)
  \/ \E t \in tasks : TaskDone(t) \/ TaskFails(t)
  \/ HandleFileBrowser \/ HandleCancel \/ HandleReset

FilesSpec == FilesInit /\ [][FilesNext]_fileVars

-----------------------------------------------------------------------------
(* Properties                                                              *)

\* At rest the value is a file of the device, and an open browser shows what is
\* in its directory, unless the directory of the value was deleted, something
\* failed, or the user went on while the device was still at work.
PickedIsThere ==
  ~Busy /\ trouble = {} =>
    /\ value # None => value \in files
    /\ browser => shown.entries = Entries(shown.dir)

-----------------------------------------------------------------------------
(* Why                                                                     *)

\* While the device is at work the user waits: for one listing or one file,
OneThing ==
  /\ \A l, m \in asked : l = m
  /\ \A t, u \in tasks : t = u
  /\ asked = {} \/ tasks = {}

\* with the browser open at the listing where it was clicked; and what is being
\* deleted takes no value with it.
TaskIsInFront ==
  \A t \in tasks :
    /\ browser /\ t.at = shown
    /\ t.op = "delete" /\ value # None => value # t.path /\ Parent[value] # t.path

\* What was read, and what is shown, is what there is.
ListingsAreTrue ==
  /\ \A l \in asked : l.read => l.entries = Entries(l.dir)
  /\ browser /\ asked = {} => shown.entries = Entries(shown.dir)

ValueIsThere == value # None => value \in files

FilesFit ==
  /\ FilesTypeOK
  /\ trouble = {} => OneThing /\ TaskIsInFront /\ ListingsAreTrue /\ ValueIsThere

=============================================================================
