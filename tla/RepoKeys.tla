------------------------------ MODULE RepoKeys ------------------------------
(***************************************************************************)
(* repokeys.js: the page that lists, adds and deletes the public keys of   *)
(* package repositories.                                                   *)
(*                                                                         *)
(* A key is pasted, fetched from a pasted address or dropped as a file.    *)
(* Each one is on its way on its own: it is compared with the files of the *)
(* directory, then written.  A page that has written or deleted a file     *)
(* loads itself anew, whatever else is on its way.                         *)
(*                                                                         *)
(* Simplifications.  A device has the directory of apk or that of opkg.    *)
(* The names of dropped and fetched files are taken without extension, as  *)
(* the page does.  Two keys are never pasted in the same millisecond.      *)
(***************************************************************************)
EXTENDS Naturals, FiniteSets, Functions

CONSTANTS
  Key,      \* contents of key files
  Pem,      \* those in PEM format
  Base,     \* names of files without extension
  Reserved, \* names on the list of files that are not to be deleted
  Task,     \* keys on their way, by the names they get when they are pasted
  Installed \* the files at the start

FileName == Base \cup Task

\* The keys a device comes with are in its format, and each is there once.
ASSUME RepoKeysAssumption ==
  /\ Pem \subseteq Key /\ Reserved \subseteq Base
  /\ \A b \in BOOLEAN : \A f \in DOMAIN Installed[b] :
       /\ f \in FileName /\ Installed[b][f] \in Key
       /\ b = (Installed[b][f] \in Pem)
       /\ \A g \in DOMAIN Installed[b] : Installed[b][f] = Installed[b][g] => f = g

VARIABLES
  apk,        \* whether the device has the directory of apk
  files,      \* the key files: contents by name
  keydir,     \* KEYDIR
  keyPage,    \* "stat", "list", "open" or "error"
  listed,     \* the files the page shows
  input,      \* the text area: "empty", "address" or a key
  tasks,      \* for each key on its way, where it is
  doomed,     \* the file the page asks whether to delete, or "none"
  overlapped  \* two keys have been on their way at once

repoVars == <<apk, files, keydir, keyPage, listed, input, tasks, doomed, overlapped>>

Idle == [at |-> "no", key |-> "none", name |-> "none"]

Fetching == [at |-> "fetch", key |-> "none", name |-> "none"]

Stage == {"list", "write", "written", "orphan"}

TaskState == {Idle, Fetching} \cup [at : Stage, key : Key, name : FileName]

RepoTypeOK ==
  /\ apk \in BOOLEAN /\ keydir \in {"none", "apk", "opkg"}
  /\ keyPage \in {"stat", "list", "open", "error"}
  /\ DOMAIN files \subseteq FileName /\ Range(files) \subseteq Key
  /\ DOMAIN listed \subseteq FileName /\ Range(listed) \subseteq Key
  /\ input \in {"empty", "address"} \cup Key
  /\ tasks \in [Task -> TaskState]
  /\ doomed \in FileName \cup {"none"}
  /\ overlapped \in BOOLEAN

NoFiles == [f \in {} |-> "none"]

RepoClosed ==
  /\ keydir = "none" /\ keyPage = "stat" /\ listed = NoFiles
  /\ input = "empty" /\ tasks = [t \in Task |-> Idle] /\ doomed = "none"

RepoInit ==
  /\ apk \in BOOLEAN /\ files = Installed[apk] /\ overlapped = FALSE
  /\ RepoClosed

-----------------------------------------------------------------------------
(* Loading the page                                                        *)

\* Whatever goes wrong with stat, the directory is taken to be that of opkg.
DetermineKeyEnv ==
  /\ keyPage = "stat"
  /\ keydir' \in (IF apk THEN {"apk", "opkg"} ELSE {"opkg"})
  /\ keyPage' = "list"
  /\ UNCHANGED <<apk, files, listed, input, tasks, doomed, overlapped>>

Directory(dir) == dir = (IF apk THEN "apk" ELSE "opkg")

ListKeyFiles ==
  /\ keyPage = "list"
  /\ \/ Directory(keydir) /\ keyPage' = "open" /\ listed' = files
     \/ keyPage' = "error" /\ UNCHANGED listed
  /\ UNCHANGED <<apk, files, keydir, input, tasks, doomed, overlapped>>

\* window.location.reload().  A request that has left may still be served.
Reload ==
  /\ keydir' = "none" /\ keyPage' = "stat" /\ listed' = NoFiles
  /\ input' = "empty" /\ doomed' = "none"
  /\ tasks' = [t \in Task |-> IF tasks[t].at \in {"write", "orphan"}
                                THEN [tasks[t] EXCEPT !.at = "orphan"] ELSE Idle]

OpenAgain ==
  /\ keyPage \in {"open", "error"} /\ Reload
  /\ UNCHANGED <<apk, files, overlapped>>

-----------------------------------------------------------------------------
(* Adding a key                                                            *)

Busy == {t \in Task : tasks[t] # Idle}

\* Mutant of FitsEnvironment: only apk is strict.
FitsIfApk(k) == keydir = "apk" => k \in Pem

\* keyEnvironmentCheck: what is not in the format of the directory is refused.
FitsEnvironment(k) == (keydir = "apk") = (k \in Pem)

Submit(t, k, name) ==
  tasks' = [tasks EXCEPT ![t] =
              IF FitsEnvironment(k) THEN [at |-> "list", key |-> k, name |-> name] ELSE Idle]

Start(t) ==
  /\ keyPage = "open" /\ tasks[t] = Idle
  /\ overlapped' = (overlapped \/ Busy # {})
  /\ UNCHANGED <<apk, files, keydir, keyPage, listed, doomed>>

Type ==
  /\ keyPage = "open"
  /\ input' \in {"empty", "address"} \cup Key
  /\ UNCHANGED <<apk, files, keydir, keyPage, listed, tasks, doomed, overlapped>>

\* addKey of what is in the text area.
AddPasted(t) ==
  /\ Start(t) /\ UNCHANGED input
  /\ \/ input \in Key /\ t \notin DOMAIN files /\ Submit(t, input, t)
     \/ input = "address" /\ tasks' = [tasks EXCEPT ![t] = Fetching]

\* What comes back from the address is a key with a name, or nothing of use.
Fetched(t) ==
  /\ tasks[t].at = "fetch"
  /\ \/ tasks' = [tasks EXCEPT ![t] = Idle]
     \/ \E k \in Key, b \in Base : Submit(t, k, b)
  /\ UNCHANGED <<apk, files, keydir, keyPage, listed, input, doomed, overlapped>>

\* dropKey: the text area is emptied once addKey has started.
DropKey(t) ==
  /\ Start(t)
  /\ \E k \in Key, b \in Base : Submit(t, k, b)
  /\ input' = "empty"

\* Mutant of Compare: the listing of the page will do.
CompareListed(t) ==
  /\ tasks[t].at = "list"
  /\ \/ /\ tasks[t].key \notin Range(listed)
        /\ tasks' = [tasks EXCEPT ![t].at = "write"]
        /\ input' = "empty"
     \/ /\ tasks[t].key \in Range(listed)
        /\ tasks' = [tasks EXCEPT ![t] = Idle] /\ UNCHANGED input
  /\ UNCHANGED <<apk, files, keydir, keyPage, listed, doomed, overlapped>>

\* A key that is already there is not written.  The text area is emptied
\* before the key is.
Compare(t) ==
  /\ tasks[t].at = "list"
  /\ \/ /\ tasks[t].key \notin Range(files)
        /\ tasks' = [tasks EXCEPT ![t].at = "write"]
        /\ input' = "empty"
     \/ /\ tasks[t].key \in Range(files)
        /\ tasks' = [tasks EXCEPT ![t] = Idle] /\ UNCHANGED input
  /\ UNCHANGED <<apk, files, keydir, keyPage, listed, doomed, overlapped>>

\* The listing is lost.  Nothing handles that: the page says nothing.
CompareFails(t) ==
  /\ tasks[t].at = "list"
  /\ tasks' = [tasks EXCEPT ![t] = Idle]
  /\ UNCHANGED <<apk, files, keydir, keyPage, listed, input, doomed, overlapped>>

\* fs.write replaces a file of that name.
Written(f, k) == [g \in DOMAIN files \cup {f} |-> IF g = f THEN k ELSE files[g]]

WriteKey(t) ==
  /\ tasks[t].at \in {"write", "orphan"}
  /\ files' = Written(tasks[t].name, tasks[t].key)
  /\ tasks' = [tasks EXCEPT ![t] = IF @.at = "orphan" THEN Idle ELSE [@ EXCEPT !.at = "written"]]
  /\ UNCHANGED <<apk, keydir, keyPage, listed, input, doomed, overlapped>>

WriteLost(t) ==
  /\ tasks[t].at \in {"write", "written", "orphan"}
  /\ tasks' = [tasks EXCEPT ![t] = Idle]
  /\ UNCHANGED <<apk, files, keydir, keyPage, listed, input, doomed, overlapped>>

Saved(t) ==
  /\ tasks[t].at = "written" /\ Reload
  /\ UNCHANGED <<apk, files, overlapped>>

-----------------------------------------------------------------------------
(* Deleting a key                                                          *)

\* handleRemove and removeKey: a reserved name is refused, and the page asks.
AskRemove(f) ==
  /\ keyPage = "open" /\ doomed = "none" /\ f \in DOMAIN listed \ Reserved
  /\ doomed' = f
  /\ UNCHANGED <<apk, files, keydir, keyPage, listed, input, tasks, overlapped>>

CancelRemove ==
  /\ doomed # "none" /\ doomed' = "none"
  /\ UNCHANGED <<apk, files, keydir, keyPage, listed, input, tasks, overlapped>>

RemoveKey ==
  /\ doomed # "none"
  /\ \/ files' = [g \in DOMAIN files \ {doomed} |-> files[g]] /\ Reload
     \/ doomed' = "none" /\ UNCHANGED <<files, keydir, keyPage, listed, input, tasks>>
  /\ UNCHANGED <<apk, overlapped>>

RepoNext ==
  \/ DetermineKeyEnv \/ ListKeyFiles \/ OpenAgain \/ Type \/ CancelRemove \/ RemoveKey
  \/ \E t \in Task : \/ AddPasted(t) \/ Fetched(t) \/ DropKey(t) \/ Compare(t)
                     \/ CompareFails(t) \/ WriteKey(t) \/ WriteLost(t) \/ Saved(t)
  \/ \E f \in DOMAIN listed : AskRemove(f)

RepoSpec == RepoInit /\ [][RepoNext]_repoVars

-----------------------------------------------------------------------------
(* Properties                                                              *)

\* The directory only ever holds keys its package manager can read.
FormatFits == \A f \in DOMAIN files : apk = (files[f] \in Pem)

\* "Prevent duplicates": no key is there under two names.
NoDuplicates == \A f, g \in DOMAIN files : files[f] = files[g] => f = g

\* It takes two keys that are on their way at once to have a key twice.
DuplicatesNeedOverlap == overlapped \/ NoDuplicates

=============================================================================
