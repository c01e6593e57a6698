------------------------- MODULE PackageManagerCall -------------------------
(***************************************************************************)
(* Calls of package-manager-call that change packages.                     *)
(*                                                                         *)
(* A call opens a lock file, locks it, has opkg write its report to a file *)
(* and reads that file.  When it has closed the lock file it removes both  *)
(* files by name.  A call that waits for the lock then holds on to a file  *)
(* that has no name any more, and the next one creates another.            *)
(*                                                                         *)
(* Simplifications.  ipkg.out and ipkg.err are opened, read and removed    *)
(* together: they are one report.  opkg locks its database itself; a run   *)
(* that is refused writes a report all the same.                           *)
(***************************************************************************)
EXTENDS Naturals

CONSTANTS
  Call,      \* processes that call, one call after the other
  Inode,     \* files the name of the lock file may stand for
  NoFile,
  FlockFails \* flock may fail

ASSUME PackageManagerAssumption ==
  /\ Inode \subseteq Nat /\ NoFile \notin Inode
  /\ FlockFails \in BOOLEAN

VARIABLES
  pc,       \* what each process is at
  lockFile, \* the file /tmp/ipkg.lock names
  lockFd,   \* file descriptor 200 of each call
  outFile,  \* whether /tmp/ipkg.out names a file
  outFd,    \* whether that is the file opkg of a call writes
  content,  \* the calls whose output is in the named file
  report,   \* the calls whose output a call reports
  alone     \* it found no other call, and none has cleaned up since

callVars == <<pc, lockFile, lockFd, outFile, outFd, content, report, alone>>

CallInit ==
  /\ pc = [c \in Call |-> "idle"]
  /\ lockFile = NoFile
  /\ lockFd = [c \in Call |-> NoFile]
  /\ outFile = FALSE
  /\ outFd = [c \in Call |-> FALSE]
  /\ content = {}
  /\ report = [c \in Call |-> {}]
  /\ alone = [c \in Call |-> FALSE]

Go(c, from, to) == pc[c] = from /\ pc' = [pc EXCEPT ![c] = to]

Unused == Inode \ ({lockFile} \cup {lockFd[c] : c \in Call})

\* The file a redirection to ipkg.lock opens: a new one if there is none.
Opened ==
  IF lockFile # NoFile THEN {lockFile}
  ELSE {i \in Unused : \A j \in Unused : i <= j}

Holding == {"locked", "running", "ended", "read"}

\* The subshell opens the lock file.
Open(c) ==
  /\ Go(c, "idle", "waiting")
  /\ \E i \in Opened :
       lockFile' = i /\ lockFd' = [lockFd EXCEPT ![c] = i]
  /\ alone' = [alone EXCEPT ![c] = \A d \in Call \ {c} : pc[d] = "idle"]
  /\ UNCHANGED <<outFile, outFd, content, report>>

Lock(c) ==
  /\ Go(c, "waiting", "locked")
  /\ \A d \in Call : lockFd[d] = lockFd[c] => pc[d] \notin Holding
  /\ UNCHANGED <<lockFile, lockFd, outFile, outFd, content, report, alone>>

\* "Failed to acquire lock": reported, and everything is removed all the same.
LockFails(c) ==
  /\ FlockFails
  /\ Go(c, "waiting", "unlocked")
  /\ lockFd' = [lockFd EXCEPT ![c] = NoFile]
  /\ UNCHANGED <<lockFile, outFile, outFd, content, report, alone>>

\* The redirection creates or truncates the file of that name.
RunOpkg(c) ==
  /\ Go(c, "locked", "running")
  /\ outFile' = TRUE
  /\ outFd' = [outFd EXCEPT ![c] = TRUE]
  /\ content' = {}
  /\ UNCHANGED <<lockFile, lockFd, report, alone>>

\* Mutant of OpkgEnds: only opkg itself runs under the lock.
OpkgEndsUnlocked(c) ==
  /\ Go(c, "running", "ended")
  /\ content' = IF outFd[c] THEN content \cup {c} ELSE content
  /\ outFd' = [outFd EXCEPT ![c] = FALSE]
  /\ lockFd' = [lockFd EXCEPT ![c] = NoFile]
  /\ UNCHANGED <<lockFile, outFile, report, alone>>

\* What opkg has written is lost if its file has lost the name.
OpkgEnds(c) ==
  /\ Go(c, "running", "ended")
  /\ content' = IF outFd[c] THEN content \cup {c} ELSE content
  /\ outFd' = [outFd EXCEPT ![c] = FALSE]
  /\ UNCHANGED <<lockFile, lockFd, outFile, report, alone>>

\* cat of what has the name now, if anything.
Read(c) ==
  /\ Go(c, "ended", "read")
  /\ report' = [report EXCEPT ![c] = IF outFile THEN content ELSE {}]
  /\ UNCHANGED <<lockFile, lockFd, outFile, outFd, content, alone>>

\* The subshell prints its answer and exits.
Unlock(c) ==
  /\ Go(c, "read", "unlocked")
  /\ lockFd' = [lockFd EXCEPT ![c] = NoFile]
  /\ UNCHANGED <<lockFile, outFile, outFd, content, report, alone>>

\* Mutant of Clean: the lock file is left for the next call.
CleanReportOnly(c) ==
  /\ Go(c, "unlocked", "idle")
  /\ outFile' = FALSE /\ content' = {}
  /\ outFd' = [d \in Call |-> FALSE]
  /\ report' = [report EXCEPT ![c] = {}]
  /\ alone' = [d \in Call |-> FALSE]
  /\ UNCHANGED <<lockFile, lockFd>>

\* rm -f of whatever has the names now.
Clean(c) ==
  /\ Go(c, "unlocked", "idle")
  /\ lockFile' = NoFile
  /\ outFile' = FALSE /\ content' = {}
  /\ outFd' = [d \in Call |-> FALSE]
  /\ report' = [report EXCEPT ![c] = {}]
  /\ alone' = [d \in Call |-> FALSE]
  /\ UNCHANGED lockFd

\* What a call does once it does not wait any more.
Work(c) == RunOpkg(c) \/ OpkgEnds(c) \/ Read(c) \/ Unlock(c) \/ Clean(c)

CallNext == \E c \in Call : Open(c) \/ Lock(c) \/ LockFails(c) \/ Work(c)

CallSpec == CallInit /\ [][CallNext]_callVars

\* Processes run, opkg ends, and flock returns once nobody else takes the lock
\* any more.  It takes no turns: others may get a lock that is free again and
\* again before a call that waits.  It need not fail, and nobody has to call.
CallFairness == \A c \in Call : WF_callVars(Lock(c)) /\ WF_callVars(Work(c))

FairCallSpec == CallSpec /\ CallFairness

-----------------------------------------------------------------------------
(* Properties                                                              *)

State == Holding \cup {"idle", "waiting", "unlocked"}

CallTypeOK ==
  /\ pc \in [Call -> State]
  /\ lockFile \in Inode \cup {NoFile}
  /\ lockFd \in [Call -> Inode \cup {NoFile}]
  /\ outFile \in BOOLEAN
  /\ outFd \in [Call -> BOOLEAN]
  /\ content \in SUBSET Call
  /\ report \in [Call -> SUBSET Call]
  /\ alone \in [Call -> BOOLEAN]

\* A call that found no other call, and that no other call cleans up under,
\* reports the output of its own opkg and nothing else, whoever else waits,
\* fails or comes.
OwnReport ==
  [][\A c \in Call :
       pc[c] = "ended" /\ pc'[c] = "read" /\ alone[c] => report'[c] = {c}]_callVars

\* No file is left when no call is going on, in whatever order calls created
\* and removed them.
NothingLeft ==
  (\A c \in Call : pc[c] = "idle") => lockFile = NoFile /\ ~outFile

\* A call that waits for the lock gets it and returns, however often others
\* call: the lock file they have removed is not the one they open next, so they
\* overtake a call that waits only as long as the file has its name.
CallReturns == \A c \in Call : pc[c] = "waiting" ~> pc[c] = "idle"

\* The lock is exclusive: one opkg runs at a time.
OneAtATime ==
  \A c, d \in Call : pc[c] \in Holding /\ pc[d] \in Holding => c = d

=============================================================================
