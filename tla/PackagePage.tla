----------------------------- MODULE PackagePage -----------------------------
(***************************************************************************)
(* package-manager.js: the page that lists, installs and removes packages. *)
(*                                                                         *)
(* The page keeps the lists of available and installed packages, and rows  *)
(* made from them.  A command runs under a dialog; when the user dismisses *)
(* the report the lists are emptied and downloaded again.  What is         *)
(* downloaded is added to the lists there are when it arrives.             *)
(*                                                                         *)
(* Simplifications.  A repository has one version of each package, and     *)
(* what is installed is that one or an older one; a command that fails     *)
(* changes nothing.  A page of rows has PageSize rows.  The two lists are  *)
(* downloaded together.                                                    *)
(***************************************************************************)
EXTENDS Integers, FiniteSets

CONSTANTS
  Pkg,      \* packages of the repository
  Shipped,  \* what may be installed at first: of each package one build or none
  PageSize, \* 100
  MaxRuns   \* commands the user runs

Uploaded == "/tmp/upload.ipk"

\* The lists of the repository, which the device has once it has fetched them.
Lists == "/var/opkg-lists"

Mode == {"available", "installed", "updates"}

\* What is installed of a package, and whether the repository has a newer one.
Build == [pkg : Pkg \cup {Uploaded}, old : BOOLEAN]

Filter == {"all"} \cup Pkg

Job == [cmd : {"install", "remove"}, pkg : Pkg \cup {Uploaded}] \cup [cmd : {"update"}, pkg : {"none"}]

UploadJob == [cmd |-> "install", pkg |-> Uploaded]

NoJob == [cmd |-> "none", pkg |-> "none"]

VARIABLES
  onDevice,  \* installed packages
  tmp,       \* the package that was uploaded, and the lists
  available, \* packages.available, by name
  installed, \* packages.installed
  downloads, \* downloads on their way: what each has read, once it has
  rows,      \* currentDisplayRows
  offset,    \* data-offset of the pagers
  table,     \* the rows in the table, or that it is being loaded
  mode,
  filter,    \* what is typed, and whether a timer is to display it
  typing,
  dialog,    \* "none", "ask", "upload", "run" or "report"
  job,       \* what the dialog is about
  run,       \* the command on the device: "no", "asked", "done" or "failed"
  runs,
  trouble    \* what went wrong: downloads that crossed, calls that were lost

listVars == <<available, installed, downloads>>
rowVars == <<rows, offset, table, mode, filter, typing>>
jobVars == <<dialog, job, run, runs>>
packageVars == <<onDevice, tmp, listVars, rowVars, jobVars, trouble>>

Loading == [loading |-> TRUE, rows |-> {}]

PackageTypeOK ==
  /\ onDevice \subseteq Build /\ tmp \subseteq {Uploaded, Lists}
  /\ available \subseteq Pkg /\ installed \subseteq Build
  /\ downloads \subseteq [read : BOOLEAN, available : SUBSET Pkg, installed : SUBSET Build]
  /\ rows \subseteq Pkg \cup {Uploaded} /\ offset \in Nat
  /\ table \in [loading : BOOLEAN, rows : SUBSET rows] /\ mode \in Mode /\ filter \in Filter /\ typing \in BOOLEAN
  /\ dialog \in {"none", "ask", "upload", "run", "report"}
  /\ job \in Job \cup {NoJob} /\ run \in {"no", "asked", "done", "failed"} /\ runs \in 0..MaxRuns
  /\ trouble \subseteq {"crossed", "lost"}

-----------------------------------------------------------------------------
(* Rows and pages                                                          *)

Named(builds) == {b.pkg : b \in builds}

\* The names display() keeps, of what is in the lists now.
Shown(avail, inst, m, f) ==
  {p \in (CASE m = "available" -> avail
            [] m = "installed" -> Named(inst)
            [] m = "updates" -> avail \cap Named({b \in inst : b.old})) : f \in {"all", p}}

\* The rows from at on, in the order of the names.
Page(rs, at, order) ==
  {p \in rs : LET i == Cardinality({q \in rs : order[q] < order[p]}) IN at <= i /\ i < at + PageSize}

\* Any order of the names will do: they are counted.
Order == CHOOSE o \in [Pkg \cup {Uploaded} -> 1..(Cardinality(Pkg) + 1)] :
           \A p, q \in Pkg \cup {Uploaded} : o[p] = o[q] => p = q

\* display(): the rows are made anew, and the first page of them is shown.
Display(avail, inst, m, f) ==
  /\ rows' = Shown(avail, inst, m, f)
  /\ offset' = 0
  /\ table' = [loading |-> FALSE, rows |-> Page(rows', 0, Order)]

Unread == [read |-> FALSE, available |-> {}, installed |-> {}]

PackageInit ==
  /\ onDevice \in Shipped /\ tmp \in {{}, {Lists}}
  /\ available = {} /\ installed = {} /\ downloads = {Unread}
  /\ rows = {} /\ offset = 0 /\ table = Loading
  /\ mode = "available" /\ filter = "all" /\ typing = FALSE
  /\ dialog = "none" /\ job = NoJob /\ run = "no" /\ runs = 0 /\ trouble = {}

\* Mutant of HandlePage: the ends of the list are not looked at.
HandlePageAnyway(next) ==
  /\ offset' = (IF next THEN offset + PageSize ELSE offset - PageSize)
  /\ table' = [loading |-> FALSE, rows |-> Page(rows, offset', Order)]
  /\ UNCHANGED <<onDevice, tmp, listVars, rows, mode, filter, typing, jobVars, trouble>>

\* handlePage: a page before the first or after the last is not shown.
HandlePage(next) ==
  /\ IF next THEN offset + PageSize < Cardinality(rows) ELSE offset >= PageSize
  /\ offset' = (IF next THEN offset + PageSize ELSE offset - PageSize)
  /\ table' = [loading |-> FALSE, rows |-> Page(rows, offset', Order)]
  /\ UNCHANGED <<onDevice, tmp, listVars, rows, mode, filter, typing, jobVars, trouble>>

HandleMode(m) ==
  /\ m # mode /\ mode' = m
  /\ Display(available, installed, m, filter)
  /\ UNCHANGED <<onDevice, tmp, listVars, filter, typing, jobVars, trouble>>

\* handleInput starts the timer anew; handleReset displays at once.
HandleInput(f) ==
  /\ f # filter /\ filter' = f /\ typing' = TRUE
  /\ UNCHANGED <<onDevice, tmp, listVars, rows, offset, table, mode, jobVars, trouble>>

InputTimeout ==
  /\ typing /\ typing' = FALSE
  /\ Display(available, installed, mode, filter)
  /\ UNCHANGED <<onDevice, tmp, listVars, mode, filter, jobVars, trouble>>

HandleReset ==
  /\ filter' = "all"
  /\ Display(available, installed, mode, "all")
  /\ UNCHANGED <<onDevice, tmp, listVars, mode, typing, jobVars, trouble>>

-----------------------------------------------------------------------------
(* The lists                                                               *)

\* updateLists without data: the lists are emptied, the rows are not.
UpdateLists ==
  /\ available' = {} /\ installed' = {}
  /\ downloads' = downloads \cup {Unread}
  /\ table' = Loading

Crossed == IF downloads # {} THEN {"crossed"} ELSE {}

OnOffer == IF Lists \in tmp THEN Pkg ELSE {}

ReadLists(d) ==
  /\ ~d.read
  /\ downloads' = (downloads \ {d}) \cup {[read |-> TRUE, available |-> OnOffer, installed |-> onDevice]}
  /\ UNCHANGED <<onDevice, tmp, available, installed, rowVars, jobVars, trouble>>

Added(builds, more) == {b \in builds : b.pkg \notin Named(more)} \cup more

\* parseList adds what was read to the lists.
ParseLists(d) ==
  /\ d.read
  /\ downloads' = downloads \ {d}
  /\ available' = available \cup d.available /\ installed' = Added(installed, d.installed)
  /\ Display(available', installed', mode, filter)
  /\ UNCHANGED <<onDevice, tmp, mode, filter, typing, jobVars, trouble>>

\* Nothing handles a download that fails: the table stays as it is.
LoseLists(d) ==
  /\ downloads' = downloads \ {d}
  /\ trouble' = trouble \cup {"lost"}
  /\ UNCHANGED <<onDevice, tmp, available, installed, rowVars, jobVars>>

-----------------------------------------------------------------------------
(* Commands                                                                *)

Ask(d, j) ==
  /\ dialog = "none"
  /\ dialog' = d /\ job' = j
  /\ UNCHANGED <<onDevice, listVars, rowVars, run, runs, trouble>>

\* A click on Install or Upgrade in a row.  Without the package in its list the
\* handler throws before it shows a dialog.
HandleInstall(p) ==
  /\ p \in table.rows \cap available /\ mode \in {"available", "updates"}
  /\ [pkg |-> p, old |-> FALSE] \notin installed
  /\ Ask("ask", [cmd |-> "install", pkg |-> p]) /\ UNCHANGED tmp

HandleRemove(p) ==
  /\ p \in table.rows \cap Named(installed) /\ mode = "installed"
  /\ Ask("ask", [cmd |-> "remove", pkg |-> p]) /\ UNCHANGED tmp

HandleManualInstall(p) ==
  /\ p \in available
  /\ Ask("ask", [cmd |-> "install", pkg |-> p]) /\ UNCHANGED tmp

\* A package has been uploaded, and the page asks whether to install it.
HandleUpload ==
  /\ Ask("upload", UploadJob)
  /\ tmp' = tmp \cup {Uploaded}

\* Nobody looks whether the file could be removed.
RemoveUpload(yes, fails) == tmp' = IF yes /\ ~fails THEN tmp \ {Uploaded} ELSE tmp

Unremoved(yes, fails) == IF yes /\ fails THEN {"lost"} ELSE {}

Cancel(fails) ==
  /\ dialog \in {"ask", "upload"}
  /\ RemoveUpload(dialog = "upload", fails)
  /\ dialog' = "none" /\ job' = NoJob
  /\ trouble' = trouble \cup Unremoved(dialog = "upload", fails)
  /\ UNCHANGED <<onDevice, listVars, rowVars, run, runs>>

Start(j) ==
  /\ runs < MaxRuns
  /\ dialog' = "run" /\ job' = j /\ run' = "asked" /\ runs' = runs + 1
  /\ UNCHANGED <<onDevice, tmp, listVars, rowVars, trouble>>

HandlePkg == dialog \in {"ask", "upload"} /\ Start(job)

\* The button that updates the lists asks nobody.
HandleUpdate == dialog = "none" /\ Start([cmd |-> "update", pkg |-> "none"])

Effect ==
  CASE job.cmd = "install" -> Added(onDevice, {[pkg |-> job.pkg, old |-> FALSE]})
    [] job.cmd = "remove" -> {b \in onDevice : b.pkg # job.pkg}
    [] OTHER -> onDevice

Fetched == IF job.cmd = "update" THEN tmp \cup {Lists} ELSE tmp

RunCommand ==
  /\ run = "asked"
  /\ \/ run' = "done" /\ onDevice' = Effect /\ tmp' = Fetched
     \/ run' = "failed" /\ UNCHANGED <<onDevice, tmp>>
  /\ UNCHANGED <<listVars, rowVars, dialog, job, runs, trouble>>

Report ==
  /\ dialog = "run" /\ run \in {"done", "failed"}
  /\ dialog' = "report" /\ run' = "no"
  /\ UNCHANGED <<onDevice, tmp, listVars, rowVars, job, runs, trouble>>

\* The promise handlePkg returns settles, and the uploaded file is removed.
Dismiss(fails) ==
  /\ dialog = "report"
  /\ dialog' = "none" /\ job' = NoJob
  /\ RemoveUpload(job = UploadJob, fails)
  /\ UpdateLists
  /\ trouble' = trouble \cup Crossed \cup Unremoved(job = UploadJob, fails)
  /\ UNCHANGED <<onDevice, rows, offset, mode, filter, typing, run, runs>>

\* The call fails: the page says so.  The promise never settles, so neither
\* the lists nor the uploaded file are looked after.
RunLost ==
  /\ dialog = "run"
  /\ dialog' = "none" /\ job' = NoJob /\ run' = "no"
  /\ \/ UNCHANGED <<onDevice, tmp>>
     \/ run = "asked" /\ onDevice' = Effect /\ tmp' = Fetched
  /\ trouble' = trouble \cup {"lost"}
  /\ UNCHANGED <<listVars, rowVars, runs>>

PackageNext ==
  \/ \E next \in BOOLEAN : HandlePage(next)
  \/ \E m \in Mode : HandleMode(m)
  \/ \E f \in Filter : HandleInput(f)
  \/ InputTimeout \/ HandleReset
  \/ \E d \in downloads : ReadLists(d) \/ ParseLists(d) \/ LoseLists(d)
  \/ \E p \in Pkg : HandleInstall(p) \/ HandleManualInstall(p)
  \/ \E p \in Pkg \cup {Uploaded} : HandleRemove(p)
  \/ \E fails \in BOOLEAN : Cancel(fails) \/ Dismiss(fails)
  \/ HandleUpload \/ HandlePkg \/ HandleUpdate \/ RunCommand \/ Report \/ RunLost

PackageSpec == PackageInit /\ [][PackageNext]_packageVars

-----------------------------------------------------------------------------
(* Properties                                                              *)

\* When nothing is on its way the page knows what is installed, in which version,
\* and what there is to install, unless two downloads have crossed or a call was
\* lost.
KnowsInstalled ==
  downloads = {} /\ run = "no" /\ dialog # "report" /\ trouble = {} =>
    installed = onDevice /\ available = OnOffer

\* The pagers never leave the rows, and what the table shows are the rows of
\* their page.
PagerFits ==
  ~table.loading => /\ offset % PageSize = 0 /\ (offset = 0 \/ offset < Cardinality(rows))
                    /\ rows # {} => table.rows # {}

\* What was uploaded is removed when the page is through with it, unless the
\* call that installs or removes it is lost.
UploadIsRemoved == Uploaded \in tmp => dialog # "none" \/ "lost" \in trouble

-----------------------------------------------------------------------------
(* Why                                                                     *)

\* A command has a dialog, until the user has seen what became of it.
CommandHasDialog == run # "no" <=> dialog = "run"

\* Without trouble one download follows another, each to lists that are empty,
\* and has read what is on the device now, unless a command has come since: the
\* lists are downloaded again after that.
DownloadsFit ==
  trouble = {} =>
    /\ \A d, e \in downloads : d = e
    /\ downloads # {} => installed = {} /\ available = {}
    /\ run = "no" /\ dialog # "report" =>
         /\ \A d \in downloads : d.read => d.installed = onDevice /\ d.available = OnOffer
         /\ downloads = {} => installed = onDevice /\ available = OnOffer

OffsetFits == offset % PageSize = 0 /\ (offset = 0 \/ offset < Cardinality(rows))

TableHasRows == ~table.loading /\ rows # {} => table.rows # {}

\* There is a dialog about what was uploaded.
UploadHasDialog ==
  Uploaded \in tmp /\ "lost" \notin trouble => dialog \in {"upload", "run", "report"} /\ job = UploadJob

ListsFit ==
  /\ PackageTypeOK /\ CommandHasDialog /\ DownloadsFit
  /\ OffsetFits /\ TableHasRows /\ UploadHasDialog

=============================================================================
