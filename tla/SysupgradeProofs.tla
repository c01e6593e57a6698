-------------------------- MODULE SysupgradeProofs --------------------------
(***************************************************************************)
(* What Sysupgrade guarantees for every set of sessions, images and        *)
(* options, every flash layout and any number of faults; and, in the last  *)
(* part, what it guarantees besides when a single session runs.            *)
(*                                                                         *)
(* The argument about the flash rests on one inductive invariant: from     *)
(* stage "layout" on, the payloads in /tmp/skd-sysupgrade are complete and *)
(* nobody else runs; from stage "root" on, dtb holds the new payload; from *)
(* stage "kernel" on, root does too.                                       *)
(***************************************************************************)
EXTENDS Sysupgrade, TLAPS

-----------------------------------------------------------------------------
(* The inductive invariant                                                 *)

New(p) == flash[p] = [img |-> unpacked, whole |-> TRUE]

\* Read with the order of the stages: layout, dtb, root, kernel.
Progress ==
  /\ stage \notin {"none", "dead"} => procd = "replaced"
  /\ stage \in {"extract", "layout", "dtb"} \/ Writing =>
       \A s \in Session : pc[s] = "killed"
  /\ stage \in {"layout", "dtb"} \/ Writing => Unpackable(unpacked)
  /\ stage = "dtb" \/ Writing => LayoutMatches
  /\ stage \in {"root", "root..", "kernel", "kernel.."} => New("dtb")
  /\ stage \in {"kernel", "kernel.."} => New("root")
  /\ \A p \in Partition : stage = WritingStage[p] =>
       flash[p] = [img |-> unpacked, whole |-> FALSE]

\* What procd found valid is what will be unpacked, and then what is.
Vetted ==
  ~req.force /\ ~slipped =>
    /\ stage \in {"kill", "extract"} => Valid(file[req.path], FALSE, FALSE)
    /\ stage \in {"layout", "dtb"} \/ Writing => Valid(unpacked, FALSE, FALSE)

Inv == TypeOK /\ Progress /\ OnlyFaultsBreakFlash /\ Vetted

-----------------------------------------------------------------------------
(* Types                                                                   *)

\* The initial state of the device is well typed.
LEMMA InitType == Init => TypeOK
<1> SUFFICES ASSUME Init PROVE TypeOK
  OBVIOUS
<1>1. opt \in [Session -> Option]
  BY SysupgradeAssumption DEF Init
<1>2. flash \in FlashState
  BY SysupgradeAssumption DEF Init, FlashState
<1>3. file \in [Path -> Content]
  BY DEF Init, Content
<1>4. req \in Request
  BY DEF Init, NoRequest, Request, Path
<1> QED
  BY <1>1, <1>2, <1>3, <1>4
     DEF Init, TypeOK, PC, Stage, Tgz, Setting

\* /sbin/sysupgrade keeps the types.
LEMMA SessionType ==
  ASSUME TypeOK, NEW s \in Session, SessionStep(s)
  PROVE  TypeOK'
<1> USE DEF TypeOK, upgradeVars, flashVars, checkVars, PC
<1>1. CASE Start(s)
  BY <1>1, SysupgradeAssumption DEF Start, OptionRecord
<1>2. CASE CopyMissing(s)
  BY <1>2 DEF CopyMissing
<1>3. CASE FetchStart(s)
  BY <1>3 DEF FetchStart, DisturbReaders, Content, PathOf, Path, Checking
<1>4. CASE FetchDone(s)
  BY <1>4 DEF FetchDone, DisturbReaders, Content, PathOf, Path, Checking
<1>5. CASE FetchFail(s)
  BY <1>5 DEF FetchFail, Fault
<1>6. CASE CheckStart(s)
  BY <1>6 DEF CheckStart, DisturbCheckers, Checking
<1>7. CASE CheckEnd(s)
  BY <1>7 DEF CheckEnd, Checker
<1>8. CASE Configure(s)
  <2>1. confTar' \in Tgz
    BY <1>8 DEF Configure, Tgz, Setting
  <2>2. pc' \in [Session -> PC] /\ save' \in [Session -> BOOLEAN]
    BY <1>8 DEF Configure
  <2> QED
    BY <1>8, <2>1, <2>2 DEF Configure
<1>9. CASE CopyConf(s)
  BY <1>9 DEF CopyConf, Fault, Tgz, Setting
<1>10. CASE ArchiveEnd(s)
  BY <1>10 DEF ArchiveEnd, Fault, Tgz
<1>11. CASE Call(s)
  <2>1. req' \in Request
    BY <1>11, SysupgradeAssumption DEF Call, Request, PathOf, Path, OptionRecord
  <2> QED
    BY <2>1, <1>11 DEF Call, DisturbCheckers, Checking
<1>12. CASE CallFails(s)
  BY <1>12 DEF CallFails
<1> QED
  BY <1>1, <1>2, <1>3, <1>4, <1>5, <1>6, <1>7, <1>8, <1>9, <1>10, <1>11, <1>12
     DEF SessionStep

\* A boot keeps the types.
LEMMA BootType ==
  ASSUME TypeOK, Boot, faults' \in Nat
  PROVE  TypeOK'
<1>1. req' \in Request
  BY DEF Boot, NoRequest, Request, Path
<1>2. file' \in [Path -> Content]
  BY DEF Boot, Content
<1>3. pc' \in [Session -> PC] /\ stage' \in Stage
  BY DEF Boot, PC, Stage
<1>4. settings' \in Setting /\ tgz' \in Tgz /\ confTar' \in Tgz
  BY DEF TypeOK, Boot, Tgz, Setting
<1> QED
  BY <1>1, <1>2, <1>3, <1>4 DEF TypeOK, Boot

\* stage2 and platform_do_upgrade keep the types.
LEMMA Stage2Type ==
  ASSUME TypeOK, Progress, Stage2Step
  PROVE  TypeOK'
<1> USE DEF TypeOK, sessionVars, upgradeVars, flashVars, checkVars, Stage
<1>1. ASSUME NEW s \in Session, Kill(s) PROVE TypeOK'
  BY <1>1 DEF Kill, PC, Checker
<1>2. CASE SwitchToRamfs
  BY <1>2 DEF SwitchToRamfs
<1>3. CASE Stage2Fail
  BY <1>3 DEF Stage2Fail, Fault
<1>4. CASE Extract
  BY <1>4 DEF Extract, Unpackable
<1>5. CASE ExtractFail
  BY <1>5 DEF ExtractFail, Fault
<1>6. CASE CheckLayout
  BY <1>6 DEF CheckLayout
<1>7. ASSUME NEW p \in Partition, MtdWrite(p) PROVE TypeOK'
  <2>1. unpacked \in Image
    BY <1>7 DEF MtdWrite, Progress, Unpackable, Writing, Partition
  <2>2. flash' \in FlashState
    BY <1>7, <2>1 DEF MtdWrite, FlashState
  <2>3. stage' \in Stage
    BY <1>7 DEF MtdWrite, WritingStage, Partition
  <2>4. settings' \in Setting /\ tgz' \in Tgz
    BY <1>7 DEF MtdWrite, Setting, Tgz
  <2> QED
    BY <1>7, <2>2, <2>3, <2>4 DEF MtdWrite
<1>8. ASSUME NEW p \in Partition, MtdWritten(p) PROVE TypeOK'
  <2>0. unpacked \in Image
    BY <1>8 DEF MtdWritten, Progress, Unpackable, Writing, WritingStage, Partition
  <2>1. flash' \in FlashState
    BY <1>8, <2>0 DEF MtdWritten, FlashState
  <2>2. stage' \in Stage
    BY <1>8 DEF MtdWritten, WriteOrder, Partition
  <2>3. tgz' \in Tgz
    BY <1>8 DEF MtdWritten
  <2> QED
    BY <1>8, <2>1, <2>2, <2>3 DEF MtdWritten
<1>9. ASSUME NEW p \in Partition, MtdFail(p) PROVE TypeOK'
  BY <1>9 DEF MtdFail, Fault
<1>10. CASE Reboot
  BY <1>10, BootType DEF Reboot
<1> QED
  BY <1>1, <1>2, <1>3, <1>4, <1>5, <1>6, <1>7, <1>8, <1>9, <1>10
     DEF Stage2Step

\* No step of the system leaves the types.
LEMMA NextType == TypeOK /\ Progress /\ [Next]_vars => TypeOK'
<1> SUFFICES ASSUME TypeOK, Progress, [Next]_vars PROVE TypeOK'
  OBVIOUS
<1>1. ASSUME NEW s \in Session, SessionStep(s) PROVE TypeOK'
  BY <1>1, SessionType
<1>2. CASE Revalidate
  <2>1. req' \in Request
    <3>1. req' = req \/ req' = NoRequest
      BY <1>2 DEF Revalidate
    <3>2. NoRequest \in Request
      BY DEF NoRequest, Request, Path
    <3> QED
      BY <3>1, <3>2 DEF TypeOK
  <2>2. pc' \in [Session -> PC]
    <3>1. pc' = pc \/ pc' = [pc EXCEPT ![req.by] = "idle"]
      BY <1>2 DEF Revalidate
    <3> QED
      BY <3>1 DEF TypeOK, PC
  <2>3. stage' \in Stage /\ procd' \in {"serving", "validating", "replaced"}
    BY <1>2 DEF Revalidate, TypeOK, Stage
  <2>4. disturbed' \in [Checker -> BOOLEAN]
    BY <1>2 DEF Revalidate, TypeOK
  <2> QED
    BY <1>2, <2>1, <2>2, <2>3, <2>4 DEF Revalidate, TypeOK, flashVars
<1>3. CASE Stage2Step
  BY <1>3, Stage2Type
<1>4. CASE PowerLoss
  BY <1>4, BootType DEF PowerLoss, Fault, TypeOK
<1>5. CASE UNCHANGED vars
  BY <1>5 DEF vars, sessionVars, upgradeVars, flashVars, checkVars, TypeOK
<1> QED
  BY <1>1, <1>2, <1>3, <1>4, <1>5 DEF Next

-----------------------------------------------------------------------------
(* Progress of the writing                                                 *)

\* No session step and no verdict of procd touches the upgrade that runs.
LEMMA SessionProgress ==
  ASSUME TypeOK, Progress, NEW s \in Session, SessionStep(s)
  PROVE  Progress'
<1>1. /\ UNCHANGED <<stage, unpacked, flash>>
      /\ procd' = procd \/ procd = "serving"
      /\ pc[s] # "killed"
      /\ \A r \in Session \ {s} : pc'[r] = pc[r]
  BY DEF TypeOK, SessionStep, Start, CopyMissing, FetchStart, FetchDone,
         FetchFail, CheckStart, CheckEnd, Configure, CopyConf, ArchiveEnd,
         Call, CallFails, upgradeVars, flashVars
<1> QED
  BY <1>1 DEF Progress, New, Writing

\* stage2 and platform_do_upgrade proceed in order.
LEMMA Stage2Progress ==
  ASSUME TypeOK, Progress, Stage2Step
  PROVE  Progress'
<1> USE DEF Progress, New, Writing
<1>1. ASSUME NEW s \in Session, Kill(s) PROVE Progress'
  BY <1>1 DEF Kill, upgradeVars, flashVars, WritingStage, Partition
<1>2. CASE SwitchToRamfs
  BY <1>2 DEF SwitchToRamfs, sessionVars, flashVars, WritingStage, Partition
<1>3. CASE Stage2Fail \/ ExtractFail
  BY <1>3 DEF Stage2Fail, ExtractFail, WritingStage, Partition
<1>4. CASE Extract
  BY <1>4 DEF Extract, sessionVars, flashVars, WritingStage, Partition
<1>5. CASE CheckLayout
  BY <1>5 DEF CheckLayout, sessionVars, flashVars, WritingStage, Partition
<1>6. ASSUME NEW p \in Partition, MtdWrite(p) PROVE Progress'
  <2>1. flash' = [flash EXCEPT ![p] = [img |-> unpacked, whole |-> FALSE]]
    BY <1>6 DEF MtdWrite
  <2>2. /\ flash'[p] = [img |-> unpacked, whole |-> FALSE]
        /\ \A q \in Partition \ {p} : flash'[q] = flash[q]
    BY <2>1 DEF TypeOK, FlashState
  <2>3. UNCHANGED <<pc, procd, unpacked>>
    BY <1>6 DEF MtdWrite, sessionVars
  <2>4. CASE p = "dtb"
    BY <1>6, <2>2, <2>3, <2>4 DEF MtdWrite, WritingStage, Partition
  <2>5. CASE p = "root"
    BY <1>6, <2>2, <2>3, <2>5 DEF MtdWrite, WritingStage, Partition
  <2>6. CASE p = "kernel"
    BY <1>6, <2>2, <2>3, <2>6 DEF MtdWrite, WritingStage, Partition
  <2> QED
    BY <2>4, <2>5, <2>6 DEF Partition
<1>7. ASSUME NEW p \in Partition, MtdWritten(p) PROVE Progress'
  <2>1. /\ flash' = [flash EXCEPT ![p] = [img |-> unpacked, whole |-> TRUE]]
        /\ unpacked' = unpacked
    BY <1>7 DEF MtdWritten
  <2>2. /\ New(p)'
        /\ \A q \in Partition \ {p} : flash'[q] = flash[q]
    BY <2>1 DEF TypeOK, FlashState
  <2>3. UNCHANGED <<pc, procd, unpacked>>
    BY <1>7 DEF MtdWritten, sessionVars
  <2>4. CASE p = "dtb"
    BY <1>7, <2>2, <2>3, <2>4
       DEF MtdWritten, WritingStage, WriteOrder, Partition
  <2>5. CASE p = "root"
    BY <1>7, <2>2, <2>3, <2>5
       DEF MtdWritten, WritingStage, WriteOrder, Partition
  <2>6. CASE p = "kernel"
    BY <1>7, <2>2, <2>3, <2>6
       DEF MtdWritten, WritingStage, WriteOrder, Partition
  <2> QED
    BY <2>4, <2>5, <2>6 DEF Partition
<1>8. ASSUME NEW p \in Partition, MtdFail(p) PROVE Progress'
  BY <1>8 DEF MtdFail, WritingStage, Partition
<1>9. CASE Reboot
  BY <1>9 DEF Reboot, Boot, WritingStage, Partition
<1> QED
  BY <1>1, <1>2, <1>3, <1>4, <1>5, <1>6, <1>7, <1>8, <1>9 DEF Stage2Step

\* Progress is inductive.
LEMMA NextProgress == TypeOK /\ Progress /\ [Next]_vars => Progress'
<1> SUFFICES ASSUME TypeOK, Progress, [Next]_vars PROVE Progress'
  OBVIOUS
<1>1. ASSUME NEW s \in Session, SessionStep(s) PROVE Progress'
  BY <1>1, SessionProgress
<1>2. CASE Revalidate
  BY <1>2 DEF Revalidate, Progress, New, Writing, flashVars, WritingStage,
              Partition
<1>3. CASE Stage2Step
  BY <1>3, Stage2Progress
<1>4. CASE PowerLoss
  BY <1>4 DEF PowerLoss, Boot, Progress, New, Writing, WritingStage, Partition
<1>5. CASE UNCHANGED vars
  BY <1>5 DEF vars, sessionVars, upgradeVars, flashVars, Progress, New, Writing
<1> QED
  BY <1>1, <1>2, <1>3, <1>4, <1>5 DEF Next

-----------------------------------------------------------------------------
(* What is flashed was validated                                           *)

\* A session that writes the file procd has validated is noticed.
LEMMA SessionVetted ==
  ASSUME TypeOK, Progress, Vetted, NEW s \in Session, SessionStep(s)
  PROVE  Vetted'
<1>1. UNCHANGED <<stage, unpacked>> /\ pc[s] # "killed"
  BY DEF SessionStep, Start, CopyMissing, FetchStart, FetchDone, FetchFail,
         CheckStart, CheckEnd, Configure, CopyConf, ArchiveEnd, Call,
         CallFails, upgradeVars
<1>2. ~(stage \in {"extract", "layout", "dtb"} \/ Writing)
  BY <1>1 DEF Progress
<1>3. CASE stage = "kill"
  <2>1. procd = "replaced"
    BY <1>3 DEF Progress
  <2>2. UNCHANGED req
    BY <2>1 DEF SessionStep, Start, CopyMissing, FetchStart, FetchDone,
                FetchFail, CheckStart, CheckEnd, Configure, CopyConf,
                ArchiveEnd, Call, CallFails, upgradeVars
  <2>3. CASE FetchStart(s) \/ FetchDone(s)
    <3>1. /\ slipped' = (slipped \/ req.path = PathOf(opt[s]))
          /\ \E c : file' = [file EXCEPT ![PathOf(opt[s])] = c]
      BY <2>1, <2>3 DEF FetchStart, FetchDone, DisturbReaders
    <3>2. ~slipped' => ~slipped /\ file'[req.path] = file[req.path]
      BY <3>1 DEF TypeOK, Request
    <3> QED
      BY <1>1, <1>2, <1>3, <2>2, <3>2 DEF Vetted, Valid, Writing
  <2>4. CASE ~(FetchStart(s) \/ FetchDone(s))
    <3>1. UNCHANGED <<file, slipped>>
      BY <2>4 DEF SessionStep, Start, CopyMissing, FetchFail, CheckStart,
                  CheckEnd, Configure, CopyConf, ArchiveEnd, Call, CallFails,
                  DisturbCheckers, checkVars
    <3> QED
      BY <1>1, <1>2, <1>3, <2>2, <3>1 DEF Vetted, Valid, Writing
  <2> QED
    BY <2>3, <2>4
<1>4. CASE stage # "kill"
  BY <1>1, <1>2, <1>4 DEF Vetted, Writing
<1> QED
  BY <1>3, <1>4

\* procd accepts what it found valid, and nobody is left to write the file when
\* it is unpacked.
LEMMA NextVetted == TypeOK /\ Progress /\ Vetted /\ [Next]_vars => Vetted'
<1> SUFFICES ASSUME TypeOK, Progress, Vetted, [Next]_vars PROVE Vetted'
  OBVIOUS
<1>1. ASSUME NEW s \in Session, SessionStep(s) PROVE Vetted'
  BY <1>1, SessionVetted
<1>2. CASE Revalidate
  <2>1. stage \in {"none", "dead"} /\ UNCHANGED <<file, unpacked>>
    BY <1>2 DEF Revalidate, Progress
  <2>2. ~(stage' \in {"extract", "layout", "dtb"} \/ Writing')
    BY <1>2, <2>1 DEF Revalidate, Writing
  <2>3. ASSUME stage' = "kill", ~req'.force, ~slipped'
        PROVE  Valid(file'[req'.path], FALSE, FALSE)
    <3>1. PICK valid \in Verdict(Procd, FALSE, FALSE) :
            (valid \/ req.force) /\ slipped' = disturbed[Procd] /\ req' = req
      BY <1>2, <2>1, <2>3 DEF Revalidate
    <3>2. ~disturbed[Procd] /\ valid
      BY <2>3, <3>1
    <3> QED
      BY <2>1, <3>1, <3>2 DEF Verdict, CheckedPath
  <2> QED
    BY <2>2, <2>3 DEF Vetted, Valid
<1>3. ASSUME NEW s \in Session, Kill(s) PROVE Vetted'
  BY <1>3 DEF Kill, Vetted, Valid, Writing, upgradeVars
<1>4. CASE SwitchToRamfs
  BY <1>4 DEF SwitchToRamfs, Vetted, Valid, Writing, checkVars
<1>5. CASE Stage2Fail \/ ExtractFail
  BY <1>5 DEF Stage2Fail, ExtractFail, Vetted, Valid, Writing, checkVars
<1>6. CASE Extract
  BY <1>6 DEF Extract, Vetted, Valid, Writing, checkVars
<1>7. CASE CheckLayout
  BY <1>7 DEF CheckLayout, Vetted, Valid, Writing, checkVars
<1>8. ASSUME NEW p \in Partition, MtdWrite(p) \/ MtdWritten(p) \/ MtdFail(p)
      PROVE  Vetted'
  <2>1. /\ UNCHANGED <<file, req, unpacked, slipped>>
        /\ stage = "dtb" \/ Writing
        /\ stage' \notin {"kill", "extract"}
    BY <1>8 DEF MtdWrite, MtdWritten, MtdFail, WritingStage, WriteOrder,
                Partition, Writing, checkVars
  <2> QED
    BY <2>1 DEF Vetted, Valid
<1>9. CASE Reboot \/ PowerLoss
  BY <1>9 DEF Reboot, PowerLoss, Boot, Vetted, Writing
<1>10. CASE UNCHANGED vars
  BY <1>10 DEF vars, upgradeVars, checkVars, Vetted, Valid, Writing
<1> QED
  BY <1>1, <1>2, <1>3, <1>4, <1>5, <1>6, <1>7, <1>8, <1>9, <1>10
     DEF Next, Stage2Step

-----------------------------------------------------------------------------
(* Results                                                                 *)

\* A write that ends or fails leaves the flash intact, or overfull, or is due
\* to a fault.
LEMMA NextIntact ==
  TypeOK /\ Progress /\ OnlyFaultsBreakFlash /\ [Next]_vars
    => OnlyFaultsBreakFlash'
<1> SUFFICES ASSUME TypeOK, Progress, OnlyFaultsBreakFlash, [Next]_vars
             PROVE  OnlyFaultsBreakFlash'
  OBVIOUS
<1>1. CASE UNCHANGED flash /\ faults' \in Nat /\ faults' >= faults /\ ~Writing
  <2>1. Intact => Intact'
    BY <1>1 DEF Intact
  <2>2. \A p \in Partition : Overfull(p) => Overfull(p)'
    BY <1>1 DEF Overfull, Fits
  <2>3. faults > 0 => faults' > 0
    BY <1>1 DEF TypeOK
  <2> QED
    BY <1>1, <2>1, <2>2, <2>3 DEF OnlyFaultsBreakFlash
<1>2. CASE faults' = faults + 1
  BY <1>2 DEF OnlyFaultsBreakFlash, TypeOK
<1>3. CASE Writing'
  BY <1>3 DEF OnlyFaultsBreakFlash
<1>4. ASSUME NEW s \in Session, SessionStep(s) PROVE OnlyFaultsBreakFlash'
  <2>1. /\ UNCHANGED <<flash, stage>>
        /\ faults' = faults \/ faults' = faults + 1
    BY <1>4 DEF SessionStep, Start, CopyMissing, FetchStart, FetchDone,
                FetchFail, CheckStart, CheckEnd, Configure, CopyConf,
                ArchiveEnd, Call, CallFails, upgradeVars, flashVars, Fault
  <2> QED
    BY <1>1, <1>2, <1>3, <2>1 DEF Writing, TypeOK
<1>5. CASE Revalidate \/ \E s \in Session : Kill(s)
  <2>1. UNCHANGED <<flash, faults>> /\ ~Writing
    BY <1>5 DEF Revalidate, Kill, flashVars, Progress, Writing
  <2> QED
    BY <1>1, <2>1 DEF TypeOK
<1>6. CASE SwitchToRamfs \/ Extract \/ CheckLayout
  <2>1. UNCHANGED <<flash, faults>> /\ ~Writing
    BY <1>6 DEF SwitchToRamfs, Extract, CheckLayout, flashVars, Writing
  <2> QED
    BY <1>1, <2>1 DEF TypeOK
<1>7. CASE Stage2Fail \/ ExtractFail \/ PowerLoss
  BY <1>2, <1>7 DEF Stage2Fail, ExtractFail, PowerLoss, Fault
<1>8. ASSUME NEW p \in Partition, MtdWrite(p) PROVE OnlyFaultsBreakFlash'
  <2>1. Writing'
    BY <1>8 DEF MtdWrite, WritingStage, Partition, Writing
  <2> QED
    BY <1>3, <2>1
<1>9. ASSUME NEW p \in Partition, MtdWritten(p) PROVE OnlyFaultsBreakFlash'
  <2>1. CASE p # "kernel"
    <3>1. Writing'
      BY <1>9, <2>1 DEF MtdWritten, WriteOrder, Partition, Writing
    <3> QED
      BY <1>3, <3>1
  <2>2. CASE p = "kernel"
    <3>1. \A q \in Partition : New(q)'
      <4>1. /\ stage = "kernel.."
            /\ unpacked' = unpacked
            /\ flash' = [flash EXCEPT !["kernel"] =
                           [img |-> unpacked, whole |-> TRUE]]
        BY <1>9, <2>2 DEF MtdWritten, WritingStage
      <4>2. New("dtb") /\ New("root")
        BY <4>1 DEF Progress
      <4> QED
        BY <4>1, <4>2 DEF New, Partition, TypeOK, FlashState
    <3>2. unpacked' \in Image
      BY <1>9, <2>2 DEF MtdWritten, WritingStage, Partition, Progress, Writing,
                        Unpackable
    <3>3. DOMAIN flash' = Partition /\ flash' = [q \in Partition |-> flash'[q]]
      BY <1>9 DEF MtdWritten, TypeOK, FlashState
    <3>4. flash' = [q \in Partition |-> [img |-> unpacked', whole |-> TRUE]]
      BY <3>1, <3>3 DEF New
    <3> QED
      BY <3>2, <3>4 DEF OnlyFaultsBreakFlash, Intact
  <2> QED
    BY <2>1, <2>2
<1>10. ASSUME NEW p \in Partition, MtdFail(p) PROVE OnlyFaultsBreakFlash'
  <2>1. CASE Fault
    BY <1>2, <2>1 DEF Fault
  <2>2. CASE ~Fits(unpacked, p)
    <3>1. Overfull(p)'
      BY <1>10, <2>2 DEF MtdFail, Overfull, Progress, flashVars, Fits
    <3> QED
      BY <3>1 DEF OnlyFaultsBreakFlash
  <2> QED
    BY <1>10, <2>1, <2>2 DEF MtdFail
<1>11. CASE Reboot
  <2>1. UNCHANGED <<flash, faults>> /\ ~Writing
    BY <1>11 DEF Reboot, Boot, Writing
  <2> QED
    BY <1>1, <2>1 DEF TypeOK
<1>12. CASE UNCHANGED vars
  <2>1. UNCHANGED <<flash, faults, stage>>
    BY <1>12 DEF vars, upgradeVars, flashVars
  <2> QED
    BY <1>1, <1>3, <2>1 DEF TypeOK, Writing
<1> QED
  BY <1>4, <1>5, <1>6, <1>7, <1>8, <1>9, <1>10, <1>11, <1>12
     DEF Next, Stage2Step

\* They hold at the start.
LEMMA InitInv == Init => Inv
<1> SUFFICES ASSUME Init PROVE Inv
  OBVIOUS
<1>1. Progress
  BY DEF Init, Progress, Writing, New, WritingStage, Partition
<1>2. Intact
  BY SysupgradeAssumption DEF Init, Intact
<1>3. Vetted
  BY DEF Init, Vetted, Writing
<1> QED
  BY <1>1, <1>2, <1>3, InitType DEF Inv, OnlyFaultsBreakFlash

\* The four together hold in every reachable state.
THEOREM Invariance == Spec => []Inv
<1>1. Init => Inv
  BY InitInv
<1>2. Inv /\ [Next]_vars => Inv'
  BY NextType, NextProgress, NextIntact, NextVetted DEF Inv
<1> QED
  BY <1>1, <1>2, PTL DEF Spec

\* Every variable of the upgrade has its type, in every reachable state.
THEOREM TypeCorrect == Spec => []TypeOK
<1>1. Inv => TypeOK
  BY DEF Inv
<1> QED
  BY <1>1, Invariance, PTL

\* Outside the writing itself the flash holds one complete release, unless
\* there was a fault or a payload did not fit its partition.
THEOREM FlashIntact == Spec => []OnlyFaultsBreakFlash
<1>1. Inv => OnlyFaultsBreakFlash
  BY DEF Inv
<1> QED
  BY <1>1, Invariance, PTL

\* Only mtd writes the flash.
LEMMA WhoErases ==
  ASSUME Inv, Next, Erasing
  PROVE  \E p \in Partition : MtdWrite(p) \/ MtdWritten(p)
<1>1. ASSUME NEW s \in Session, SessionStep(s) PROVE FALSE
  BY <1>1 DEF SessionStep, Start, CopyMissing, FetchStart, FetchDone,
              FetchFail, CheckStart, CheckEnd, Configure, CopyConf,
              ArchiveEnd, Call, CallFails, flashVars, Erasing
<1>2. ASSUME NEW s \in Session, Kill(s) PROVE FALSE
  BY <1>2 DEF Kill, flashVars, Erasing
<1>3. ASSUME NEW p \in Partition, MtdFail(p) PROVE FALSE
  BY <1>3 DEF MtdFail, flashVars, Erasing
<1> QED
  BY <1>1, <1>2, <1>3
     DEF Next, Stage2Step, Revalidate, SwitchToRamfs, Stage2Fail, Extract,
         ExtractFail, CheckLayout, Reboot, PowerLoss, Boot, flashVars, Erasing

\* mtd runs only when the payloads are unpacked, the layout is right and every
\* other process is dead.
THEOREM Preflight == Spec => PreflightBeforeErase
<1>1. ASSUME Inv, Next, Erasing
      PROVE  /\ LayoutMatches
             /\ Unpackable(unpacked)
             /\ \A s \in Session : pc[s] = "killed"
  <2>1. stage = "dtb" \/ Writing
    BY <1>1, WhoErases DEF MtdWrite, MtdWritten, Partition, WritingStage, Writing
  <2> QED
    BY <1>1, <2>1 DEF Inv, Progress
<1>2. Inv /\ [Next]_vars =>
        [Erasing => /\ LayoutMatches
                    /\ Unpackable(unpacked)
                    /\ \A s \in Session : pc[s] = "killed"]_vars
  BY <1>1
<1> QED
  BY <1>2, Invariance, PTL DEF Spec, PreflightBeforeErase

\* Whatever the sessions do, what is flashed without -F has passed every check
\* of procd, unless its validation was interfered with or the file was written
\* after it.
THEOREM Verified == Spec => VerifiedUnlessForced
<1>1. ASSUME Inv, Next, Erasing
      PROVE  req.force \/ slipped \/ Valid(unpacked, FALSE, FALSE)
  <2>1. stage = "dtb" \/ Writing
    BY <1>1, WhoErases DEF MtdWrite, MtdWritten, Partition, WritingStage, Writing
  <2> QED
    BY <1>1, <2>1 DEF Inv, Vetted
<1>2. Inv /\ [Next]_vars =>
        [Erasing => req.force \/ slipped \/ Valid(unpacked, FALSE, FALSE)]_vars
  BY <1>1
<1> QED
  BY <1>2, Invariance, PTL DEF Spec, VerifiedUnlessForced

\* The kernel is written last, from the image dtb and root already hold.
THEOREM KernelIsLast == Spec => KernelLast
<1> DEFINE OthersNew ==
      flash'["kernel"] # flash["kernel"] =>
        /\ flash'["kernel"].img = unpacked
        /\ \A p \in {"dtb", "root"} :
             flash[p] = [img |-> unpacked, whole |-> TRUE]
<1>1. ASSUME Inv, Next, flash'["kernel"] # flash["kernel"]
      PROVE  OthersNew
  <2>1. PICK p \in Partition : MtdWrite(p) \/ MtdWritten(p)
    BY <1>1, WhoErases DEF Erasing
  <2>2. flash' = [flash EXCEPT ![p] = flash'[p]]
    BY <1>1, <2>1 DEF MtdWrite, MtdWritten, Inv, TypeOK, FlashState
  <2>3. p = "kernel"
    BY <1>1, <2>2 DEF Inv, TypeOK, FlashState, Partition
  <2>4. stage \in {"kernel", "kernel.."}
    BY <2>1, <2>3 DEF MtdWrite, MtdWritten, WritingStage, Partition
  <2>5. New("dtb") /\ New("root")
    BY <1>1, <2>4 DEF Inv, Progress
  <2>6. flash'["kernel"].img = unpacked
    <3>1. CASE MtdWrite(p)
      BY <1>1, <2>3, <3>1 DEF MtdWrite, Inv, TypeOK, FlashState, Partition
    <3>2. CASE MtdWritten(p)
      BY <1>1, <2>3, <3>2 DEF MtdWritten, Inv, Progress, TypeOK, FlashState,
                              Partition
    <3> QED
      BY <2>1, <3>1, <3>2
  <2> QED
    BY <2>5, <2>6 DEF New
<1>2. Inv /\ [Next]_vars => [OthersNew]_vars
  BY <1>1
<1> QED
  BY <1>2, Invariance, PTL DEF Spec, KernelLast

-----------------------------------------------------------------------------
(* One session.                                                            *)
(*                                                                         *)
(* Nothing locks the files under /tmp, so what a session is promised about *)
(* its image and its archive holds only while no other one runs.  Then     *)
(* procd serves nobody else, no validation is disturbed, and the file, the *)
(* options and the archive procd was called for are those of the session   *)
(* until the device reboots.                                               *)

\* The request in progress is the one session s made, and s waits for it.
Alone(s) ==
  /\ \A c \in Checker : ~disturbed[c]
  /\ pc[s] \in {"waiting", "killed"} <=> procd # "serving"
  /\ pc[s] = "killed" => procd = "replaced"
  /\ procd = "replaced" <=> stage \notin {"none", "dead"}
  /\ stage = "dead" => pc[s] = "idle"
  /\ procd # "serving" =>
       req = [by |-> s, path |-> PathOf(opt[s]), force |-> opt[s].force,
              backup |-> save[s]]

Handed(s) == pc[s] \in {"call", "waiting", "killed"}

Accepted(s) == Handed(s) \/ pc[s] \in {"config", "copyconf", "archive"}

Fetched(s) == Accepted(s) \/ pc[s] \in {"check", "checking"}

\* The image under /tmp: the one asked for, unless its fetch failed, checked
\* by the session with the settings it meant to save.
Checked(s) ==
  /\ pc[s] = "fetching" => file[PathOf(opt[s])] = "cut"
  /\ Fetched(s) =>
       asked[s] = "missing" \/ file[PathOf(opt[s])] \in {asked[s], "cut"}
  /\ Accepted(s) =>
       \/ opt[s].force
       \/ Valid(file[PathOf(opt[s])], ~opt[s].n, opt[s].ignoreMinor)
  /\ stage \in {"layout", "dtb"} \/ Writing => unpacked = file[req.path]

RootReplaced == stage \in {"root..", "kernel", "kernel..", "reboot"}

\* The archive: what the command line calls for, and the settings that are to
\* be kept are in the root filesystem, in the archive or in both.
Archived(s) ==
  /\ pc[s] \in {"fetch", "fetching", "check", "checking", "config"} =>
       save[s] = ~opt[s].n
  /\ pc[s] = "copyconf" => opt[s].f /\ save[s] /\ confTar = "cut"
  /\ pc[s] = "archive" => ~opt[s].f /\ ~opt[s].test /\ ~opt[s].n /\ save[s]
  /\ Handed(s) =>
       /\ ~opt[s].test
       /\ save[s] = (opt[s].f \/ ~opt[s].n)
       /\ opt[s].f => confTar \in {"given", "cut"}
       /\ ~save[s] => confTar = "absent"
       /\ Keeping(opt[s]) /\ ~ramdisk =>
            /\ confTar # "absent"
            /\ ~RootReplaced => confTar = settings
  /\ tgz = "absent" \/ stage \in {"kernel", "kernel..", "reboot", "dead"}
  /\ stage \in {"kernel", "kernel.."} => tgz = confTar
  /\ stage = "reboot" /\ Keeping(opt[s]) /\ ~ramdisk
       /\ (\A p \in Partition : flash[p].whole)
       => confTar = IF tgz = "absent" THEN settings ELSE tgz

One(s) == Alone(s) /\ Checked(s) /\ Archived(s)

\* An archive is cut short while it is written, or by a fault.
Complete(s) ==
  faults = 0 =>
    /\ settings # "cut" /\ tgz # "cut"
    /\ confTar = "cut" => pc[s] = "copyconf" \/ (pc[s] = "archive" /\ ~ramdisk)

\* A step of the session leaves it alone: procd serves nobody, and only
\* its call changes that.
LEMMA SessionAlone ==
  ASSUME NEW s, Session = {s}, TypeOK, Alone(s), SessionStep(s)
  PROVE  Alone(s)'
<1>1. /\ Checker = {s, Procd} /\ s # Procd
      /\ procd = "serving" /\ stage = "none"
      /\ pc[s] \notin {"waiting", "killed"}
  BY SysupgradeAssumption
     DEF Alone, Checker, Procd, SessionStep, Start, CopyMissing, FetchStart,
         FetchDone, FetchFail, CheckStart, CheckEnd, Configure, CopyConf,
         ArchiveEnd, Call, CallFails
<1>2. UNCHANGED stage
  BY DEF SessionStep, Start, CopyMissing, FetchStart, FetchDone, FetchFail,
         CheckStart, CheckEnd, Configure, CopyConf, ArchiveEnd, Call, CallFails,
         upgradeVars
<1>3. \A c \in Checker : ~disturbed'[c]
  <2>1. CASE UNCHANGED disturbed
    BY <2>1 DEF Alone
  <2>2. CASE FetchStart(s) \/ FetchDone(s)
    BY <1>1, <2>2 DEF FetchStart, FetchDone, DisturbReaders, Checking, Alone
  <2>3. CASE CheckStart(s)
    BY <1>1, <2>3 DEF CheckStart, DisturbCheckers, Checking, Alone
  <2>4. CASE CheckEnd(s)
    BY <1>1, <2>4 DEF CheckEnd, Alone, TypeOK
  <2>5. CASE Call(s)
    <3>1. \A c \in Checker : ~Checking(c)
      BY <1>1, <2>5 DEF Call, Checking
    <3> QED
      BY <1>1, <2>5, <3>1 DEF Call, DisturbCheckers, Alone
  <2> QED
    BY <2>1, <2>2, <2>3, <2>4, <2>5
       DEF SessionStep, Start, CopyMissing, FetchFail, Configure, CopyConf,
           ArchiveEnd, CallFails, checkVars
<1>4. CASE Call(s)
  BY <1>1, <1>2, <1>3, <1>4 DEF Call, Alone, TypeOK
<1>5. CASE ~Call(s)
  <2>1. procd' = procd /\ pc'[s] \notin {"waiting", "killed"}
    BY <1>1, <1>5
       DEF TypeOK, SessionStep, Start, CopyMissing, FetchStart, FetchDone,
           FetchFail, CheckStart, CheckEnd, Configure, CopyConf, ArchiveEnd,
           CallFails, upgradeVars
  <2> QED
    BY <1>1, <1>2, <1>3, <2>1 DEF Alone
<1> QED
  BY <1>4, <1>5

\* Every other step leaves the session alone.
LEMMA SystemAlone ==
  ASSUME NEW s, Session = {s}, TypeOK, Progress, Alone(s),
         Revalidate \/ Stage2Step \/ PowerLoss \/ UNCHANGED vars
  PROVE  Alone(s)'
<1>1. CASE Revalidate
  <2>1. req.by = s /\ pc[s] = "waiting"
    BY <1>1 DEF Revalidate, Alone
  <2>2. \A c \in Checker : ~disturbed'[c]
    BY <1>1 DEF Revalidate, Alone, TypeOK
  <2> QED
    BY <1>1, <2>1, <2>2 DEF Revalidate, Alone, TypeOK
<1>2. CASE Reboot \/ PowerLoss
  BY <1>2 DEF Reboot, PowerLoss, Boot, Alone
<1>3. CASE Kill(s)
  <2>1. \A c \in Checker : ~disturbed'[c]
    BY <1>3 DEF Kill, Alone, TypeOK
  <2> QED
    BY <1>3, <2>1 DEF Kill, Alone, Progress, TypeOK, upgradeVars
<1>4. CASE SwitchToRamfs \/ Stage2Fail \/ Extract \/ ExtractFail \/ CheckLayout
  BY <1>4 DEF SwitchToRamfs, Stage2Fail, Extract, ExtractFail, CheckLayout,
              sessionVars, checkVars, Alone
<1>5. ASSUME NEW p \in Partition, MtdWrite(p) \/ MtdWritten(p) \/ MtdFail(p)
      PROVE  Alone(s)'
  BY <1>5 DEF MtdWrite, MtdWritten, MtdFail, WritingStage, WriteOrder,
              Partition, sessionVars, checkVars, Alone
<1>6. CASE UNCHANGED vars
  BY <1>6 DEF vars, sessionVars, upgradeVars, checkVars, Alone
<1> QED
  BY <1>1, <1>2, <1>3, <1>4, <1>5, <1>6 DEF Stage2Step

\* What the session checks is what lies at its path: only its own fetch writes
\* there, and that comes before the check.
LEMMA SessionChecked ==
  ASSUME NEW s, Session = {s}, TypeOK, Alone(s), Checked(s), Archived(s),
         SessionStep(s)
  PROVE  Checked(s)'
<1> USE DEF Fetched, Accepted, Handed
<1>1. /\ procd = "serving" /\ stage \in {"none", "dead"} /\ ~disturbed[s]
      /\ pc[s] \notin {"waiting", "killed"} /\ s # Procd
  BY SysupgradeAssumption
     DEF Alone, Checker, Procd, SessionStep, Start, CopyMissing, FetchStart,
         FetchDone, FetchFail, CheckStart, CheckEnd, Configure, CopyConf,
         ArchiveEnd, Call, CallFails
<1>2. ~(stage \in {"layout", "dtb"} \/ Writing)'
  BY <1>1 DEF SessionStep, Start, CopyMissing, FetchStart, FetchDone,
              FetchFail, CheckStart, CheckEnd, Configure, CopyConf, ArchiveEnd,
              Call, CallFails, upgradeVars, Writing
<1>3. CASE Start(s)
  BY <1>1, <1>2, <1>3 DEF Start, Checked, TypeOK
<1>4. CASE CopyMissing(s)
  BY <1>1, <1>2, <1>4 DEF CopyMissing, Checked, TypeOK
<1>5. CASE FetchStart(s)
  <2>1. PathOf(opt[s]) \in Path
    BY DEF PathOf, Path
  <2> QED
    BY <1>1, <1>2, <1>5, <2>1 DEF FetchStart, Checked, TypeOK
<1>6. CASE FetchDone(s)
  <2>1. PathOf(opt[s]) \in Path
    BY DEF PathOf, Path
  <2> QED
    BY <1>1, <1>2, <1>6, <2>1 DEF FetchDone, Checked, TypeOK
<1>7. CASE FetchFail(s)
  BY <1>1, <1>2, <1>7 DEF FetchFail, Checked, TypeOK
<1>8. CASE CheckStart(s)
  BY <1>1, <1>2, <1>8 DEF CheckStart, Checked, TypeOK
<1>9. CASE CheckEnd(s)
  <2>1. Verdict(s, save[s], opt[s].ignoreMinor) =
          {Valid(file[PathOf(opt[s])], ~opt[s].n, opt[s].ignoreMinor)}
    BY <1>1, <1>9 DEF CheckEnd, Verdict, CheckedPath, Archived
  <2>2. pc'[s] = "config" =>
          \/ opt[s].force
          \/ Valid(file[PathOf(opt[s])], ~opt[s].n, opt[s].ignoreMinor)
    BY <1>9, <2>1 DEF CheckEnd, TypeOK
  <2>3. /\ UNCHANGED <<opt, asked, file>>
        /\ pc[s] = "checking" /\ pc'[s] \in {"config", "idle"}
    BY <1>9 DEF CheckEnd, TypeOK
  <2>4. Accepted(s)' => pc'[s] = "config"
    BY <2>3
  <2>5. Fetched(s)
    BY <2>3
  <2>6. asked[s] = "missing" \/ file[PathOf(opt[s])] \in {asked[s], "cut"}
    BY <2>5 DEF Checked
  <2>7. UNCHANGED <<PathOf(opt[s]), file[PathOf(opt[s])],
                    Valid(file[PathOf(opt[s])], ~opt[s].n, opt[s].ignoreMinor)>>
    BY <2>3 DEF PathOf, Valid
  <2> QED
    BY <1>2, <2>2, <2>3, <2>4, <2>6, <2>7 DEF Checked
<1>10. CASE Configure(s)
  BY <1>1, <1>2, <1>10 DEF Configure, Checked, TypeOK, Valid
<1>11. CASE CopyConf(s)
  BY <1>1, <1>2, <1>11 DEF CopyConf, Checked, TypeOK, Valid
<1>12. CASE ArchiveEnd(s)
  BY <1>1, <1>2, <1>12 DEF ArchiveEnd, Checked, TypeOK, Valid
<1>13. CASE Call(s)
  BY <1>1, <1>2, <1>13 DEF Call, Checked, TypeOK, Valid
<1>14. CASE CallFails(s)
  BY <1>1, <1>2, <1>14 DEF CallFails, Checked, TypeOK, Valid
<1> QED
  BY <1>3, <1>4, <1>5, <1>6, <1>7, <1>8, <1>9, <1>10, <1>11, <1>12, <1>13,
     <1>14 DEF SessionStep

\* procd validates the file of the session and the writing unpacks that file.
LEMMA SystemChecked ==
  ASSUME NEW s, Session = {s}, TypeOK, Progress, Alone(s), Checked(s),
         Revalidate \/ Stage2Step \/ PowerLoss \/ UNCHANGED vars
  PROVE  Checked(s)'
<1> USE DEF Fetched, Accepted, Handed
<1>1. CASE Revalidate
  <2>1. pc[s] = "waiting" /\ req.by = s
    BY <1>1 DEF Alone, Revalidate
  <2>2. /\ UNCHANGED <<opt, asked, file, unpacked>>
        /\ ~(stage \in {"layout", "dtb"} \/ Writing)'
        /\ pc'[s] \in {"waiting", "idle"}
    BY <1>1, <2>1 DEF Revalidate, Alone, TypeOK, Writing
  <2> QED
    BY <2>1, <2>2 DEF Checked, Valid
<1>2. CASE Reboot \/ PowerLoss
  BY <1>2 DEF Reboot, PowerLoss, Boot, Checked, Writing
<1>3. CASE Kill(s)
  <2>1. pc[s] = "waiting"
    BY <1>3 DEF Kill, Alone, Progress
  <2> QED
    BY <1>3, <2>1 DEF Kill, TypeOK, Checked, upgradeVars, Valid, Writing
<1>4. CASE SwitchToRamfs \/ Stage2Fail \/ ExtractFail \/ CheckLayout
  BY <1>4 DEF SwitchToRamfs, Stage2Fail, ExtractFail, CheckLayout,
              sessionVars, Checked, Valid, Writing
<1>5. CASE Extract
  BY <1>5 DEF Extract, sessionVars, Checked, Valid, Writing
<1>6. ASSUME NEW p \in Partition, MtdWrite(p) \/ MtdWritten(p) \/ MtdFail(p)
      PROVE  Checked(s)'
  <2>1. /\ UNCHANGED <<sessionVars, file, procd, req, unpacked>>
        /\ stage = "dtb" \/ Writing
    BY <1>6 DEF MtdWrite, MtdWritten, MtdFail, WritingStage, Partition, Writing
  <2> QED
    BY <2>1 DEF sessionVars, Checked, Valid
<1>7. CASE UNCHANGED vars
  BY <1>7 DEF vars, sessionVars, upgradeVars, Checked, Valid, Writing
<1> QED
  BY <1>1, <1>2, <1>3, <1>4, <1>5, <1>6, <1>7 DEF Stage2Step

\* Before it calls procd the session has the archive its command line wants.
LEMMA SessionArchived ==
  ASSUME NEW s, Session = {s}, TypeOK, Alone(s), Archived(s), SessionStep(s)
  PROVE  Archived(s)'
<1> USE DEF Handed, Keeping, RootReplaced
<1>1. /\ pc[s] \notin {"waiting", "killed"}
      /\ stage \in {"none", "dead"} /\ UNCHANGED <<stage, tgz, settings, ramdisk>>
  BY DEF Alone, SessionStep, Start, CopyMissing, FetchStart, FetchDone,
         FetchFail, CheckStart, CheckEnd, Configure, CopyConf, ArchiveEnd, Call,
         CallFails, upgradeVars, flashVars
<1>2. CASE Start(s)
  BY <1>1, <1>2 DEF Start, Archived, TypeOK
<1>3. CASE CopyMissing(s) \/ FetchStart(s) \/ FetchDone(s)
  BY <1>1, <1>3 DEF CopyMissing, FetchStart, FetchDone, Archived, TypeOK
<1>4. CASE FetchFail(s)
  BY <1>1, <1>4 DEF FetchFail, Archived, TypeOK
<1>5. CASE CheckStart(s) \/ CallFails(s)
  BY <1>1, <1>5 DEF CheckStart, CallFails, Archived, TypeOK
<1>6. CASE CheckEnd(s)
  BY <1>1, <1>6 DEF CheckEnd, Archived, TypeOK
<1>7. CASE Configure(s)
  BY <1>1, <1>7 DEF Configure, Archived, TypeOK
<1>8. CASE CopyConf(s)
  BY <1>1, <1>8 DEF CopyConf, Archived, TypeOK
<1>9. CASE ArchiveEnd(s)
  BY <1>1, <1>9 DEF ArchiveEnd, Archived, TypeOK, Setting
<1>10. CASE Call(s)
  BY <1>1, <1>10 DEF Call, Archived, TypeOK
<1> QED
  BY <1>2, <1>3, <1>4, <1>5, <1>6, <1>7, <1>8, <1>9, <1>10 DEF SessionStep

\* The settings are in the root filesystem until that is erased, and in the
\* archive -j appends once it is written: a root partition that is complete
\* never lacks both.
LEMMA SystemArchived ==
  ASSUME NEW s, Session = {s}, TypeOK, Progress, Alone(s), Archived(s),
         Revalidate \/ Stage2Step \/ PowerLoss \/ UNCHANGED vars
  PROVE  Archived(s)'
<1> USE DEF Handed, Keeping, RootReplaced
<1>1. stage \notin {"none", "dead"} =>
        /\ pc[s] \in {"waiting", "killed"} /\ procd = "replaced"
        /\ req.backup = save[s]
  BY DEF Alone
<1>2. CASE Revalidate
  <2>1. pc[s] = "waiting" /\ req.by = s /\ stage = "none" /\ tgz = "absent"
    BY <1>2 DEF Revalidate, Alone, Archived
  <2>2. /\ UNCHANGED <<opt, save, confTar, settings, tgz, flash, ramdisk>>
        /\ pc'[s] \in {"waiting", "idle"} /\ stage' \in {"none", "kill"}
    BY <1>2, <2>1 DEF Revalidate, TypeOK, flashVars
  <2> QED
    BY <2>1, <2>2 DEF Archived
<1>3. CASE Reboot \/ PowerLoss
  BY <1>3 DEF Reboot, PowerLoss, Boot, Archived
<1>4. CASE Kill(s)
  BY <1>1, <1>4 DEF Kill, TypeOK, Archived, upgradeVars, flashVars
<1>5. CASE SwitchToRamfs \/ Stage2Fail \/ Extract \/ ExtractFail \/ CheckLayout
  BY <1>1, <1>5 DEF SwitchToRamfs, Stage2Fail, Extract, ExtractFail,
                    CheckLayout, sessionVars, flashVars, Archived
<1>6. ASSUME NEW p \in Partition, MtdWrite(p) PROVE Archived(s)'
  BY <1>1, <1>6 DEF MtdWrite, WritingStage, Partition, sessionVars, Archived
<1>7. ASSUME NEW p \in Partition, MtdWritten(p) PROVE Archived(s)'
  <2>1. /\ UNCHANGED <<pc, opt, save, confTar, settings, ramdisk>>
        /\ pc[s] \in {"waiting", "killed"} /\ req.backup = save[s]
    BY <1>1, <1>7 DEF MtdWritten, WritingStage, Partition, sessionVars
  <2>2. CASE p = "dtb"
    BY <1>7, <2>1, <2>2 DEF MtdWritten, WritingStage, WriteOrder, Archived
  <2>3. CASE p = "root"
    BY <1>7, <2>1, <2>3 DEF MtdWritten, WritingStage, WriteOrder, Archived
  <2>4. CASE p = "kernel"
    BY <1>7, <2>1, <2>4 DEF MtdWritten, WritingStage, WriteOrder, Archived
  <2> QED
    BY <2>2, <2>3, <2>4 DEF Partition
<1>8. ASSUME NEW p \in Partition, MtdFail(p) PROVE Archived(s)'
  <2>1. flash[p].whole = FALSE
    BY <1>8 DEF MtdFail, Progress
  <2> QED
    BY <1>1, <1>8, <2>1 DEF MtdFail, WritingStage, Partition, sessionVars,
                            flashVars, Archived
<1>9. CASE UNCHANGED vars
  BY <1>9 DEF vars, sessionVars, upgradeVars, flashVars, Archived
<1> QED
  BY <1>2, <1>3, <1>4, <1>5, <1>6, <1>7, <1>8, <1>9 DEF Stage2Step

\* Without a fault no archive is cut short for good.
LEMMA NextComplete ==
  ASSUME NEW s, Session = {s}, TypeOK, Alone(s), Archived(s), Complete(s),
         [Next]_vars
  PROVE  Complete(s)'
<1> USE DEF Complete
<1>1. faults' = faults \/ faults' = faults + 1
  <2>1. ASSUME NEW r \in Session, SessionStep(r)
        PROVE  faults' = faults \/ faults' = faults + 1
    BY <2>1 DEF SessionStep, Start, CopyMissing, FetchStart, FetchDone,
       FetchFail, CheckStart, CheckEnd, Configure, CopyConf, ArchiveEnd, Call,
       CallFails, Fault
  <2>2. CASE Revalidate \/ PowerLoss \/ UNCHANGED vars
    BY <2>2 DEF Revalidate, PowerLoss, Fault, vars
  <2>3. CASE Stage2Step
    BY <2>3 DEF Stage2Step, Kill, SwitchToRamfs, Stage2Fail, Extract,
       ExtractFail, CheckLayout, MtdWrite, MtdWritten, MtdFail, Reboot, Fault
  <2> QED
    BY <2>1, <2>2, <2>3 DEF Next
<1> SUFFICES ASSUME faults' = 0 PROVE Complete(s)'
  OBVIOUS
<1>2. faults = 0 /\ ~Fault
  BY <1>1 DEF Fault, TypeOK
<1>3. CASE SessionStep(s)
  <2>1. UNCHANGED <<settings, tgz, ramdisk>>
    BY <1>3 DEF SessionStep, Start, CopyMissing, FetchStart, FetchDone,
                FetchFail, CheckStart, CheckEnd, Configure, CopyConf,
                ArchiveEnd, Call, CallFails, flashVars
  <2>2. CASE Start(s) \/ CopyMissing(s) \/ FetchStart(s) \/ FetchDone(s)
             \/ CheckStart(s) \/ CallFails(s) \/ Call(s)
    BY <1>2, <2>1, <2>2 DEF Start, CopyMissing, FetchStart, FetchDone,
                            CheckStart, CallFails, Call, TypeOK
  <2>3. CASE FetchFail(s)
    BY <1>2, <2>1, <2>3 DEF FetchFail, TypeOK
  <2>4. CASE CheckEnd(s)
    BY <1>2, <2>1, <2>4 DEF CheckEnd, TypeOK
  <2>5. CASE Configure(s)
    BY <1>2, <2>1, <2>5 DEF Configure, TypeOK
  <2>6. CASE CopyConf(s)
    BY <1>2, <2>1, <2>6 DEF CopyConf, TypeOK
  <2>7. CASE ArchiveEnd(s)
    BY <1>2, <2>1, <2>7 DEF ArchiveEnd, TypeOK
  <2> QED
    BY <1>3, <2>2, <2>3, <2>4, <2>5, <2>6, <2>7 DEF SessionStep
<1>4. CASE Revalidate
  <2>1. pc[s] = "waiting" /\ req.by = s
    BY <1>4 DEF Revalidate, Alone
  <2> QED
    BY <1>2, <1>4, <2>1 DEF Revalidate, TypeOK, flashVars
<1>5. CASE Reboot \/ PowerLoss
  BY <1>2, <1>5 DEF Reboot, PowerLoss, Boot, TypeOK
<1>6. CASE Kill(s)
  <2>1. pc[s] = "waiting"
    BY <1>6 DEF Kill, Alone
  <2> QED
    BY <1>2, <1>6, <2>1 DEF Kill, TypeOK, flashVars
<1>7. CASE SwitchToRamfs \/ Stage2Fail \/ Extract \/ ExtractFail \/ CheckLayout
  BY <1>2, <1>7 DEF SwitchToRamfs, Stage2Fail, Extract, ExtractFail,
                    CheckLayout, sessionVars, flashVars
<1>8. ASSUME NEW p \in Partition, MtdWrite(p) \/ MtdWritten(p) \/ MtdFail(p)
      PROVE  Complete(s)'
  <2>1. pc[s] \in {"waiting", "killed"}
    BY <1>8 DEF MtdWrite, MtdWritten, MtdFail, WritingStage, Partition, Alone
  <2> QED
    BY <1>2, <1>8, <2>1 DEF MtdWrite, MtdWritten, MtdFail, sessionVars,
                            flashVars
<1>9. CASE UNCHANGED vars
  BY <1>2, <1>9 DEF vars, sessionVars, flashVars
<1> QED
  BY <1>3, <1>4, <1>5, <1>6, <1>7, <1>8, <1>9 DEF Next, Stage2Step

\* With one session its request, its image and its archive are its own in
\* every reachable state.
THEOREM OneSession ==
  ASSUME NEW s, Session = {s}
  PROVE  Spec => [](Inv /\ One(s))
<1>1. Init => Inv /\ One(s)
  <2> SUFFICES ASSUME Init PROVE Inv /\ One(s)
    OBVIOUS
  <2>1. Inv
    BY InitInv
  <2> QED
    BY <2>1 DEF Init, One, Alone, Checked, Archived, Handed, Accepted, Fetched,
                Writing
<1>2. ASSUME Inv, One(s), [Next]_vars PROVE One(s)'
  <2>1. TypeOK /\ Progress /\ Alone(s) /\ Checked(s) /\ Archived(s)
    BY <1>2 DEF Inv, One
  <2>2. CASE SessionStep(s)
    BY <2>1, <2>2, SessionAlone, SessionChecked, SessionArchived DEF One
  <2>3. CASE Revalidate \/ Stage2Step \/ PowerLoss \/ UNCHANGED vars
    BY <2>1, <2>3, SystemAlone, SystemChecked, SystemArchived DEF One
  <2> QED
    BY <1>2, <2>2, <2>3 DEF Next
<1>3. Inv /\ [Next]_vars => Inv'
  BY NextType, NextProgress, NextIntact, NextVetted DEF Inv
<1>4. Inv /\ One(s) /\ [Next]_vars => (Inv /\ One(s))'
  BY <1>2, <1>3
<1> QED
  BY <1>1, <1>4, PTL DEF Spec

\* With one session, the image that is flashed is the one its command line
\* named, unless that one does not exist.
THEOREM FlashesTheAsked ==
  ASSUME NEW s, Session = {s}
  PROVE  Spec => FlashesWhatWasAsked
<1>1. ASSUME Inv, One(s), Next, Erasing
      PROVE  asked[req.by] \in {unpacked, "missing"}
  <2>1. stage = "dtb" \/ Writing
    BY <1>1, WhoErases DEF MtdWrite, MtdWritten, Partition, WritingStage, Writing
  <2>2. /\ pc[s] \in {"waiting", "killed"}
        /\ req.by = s /\ req.path = PathOf(opt[s])
        /\ unpacked = file[req.path]
    BY <1>1, <2>1 DEF One, Alone, Checked, Writing
  <2>3. asked[s] = "missing" \/ unpacked \in {asked[s], "cut"}
    BY <1>1, <2>2 DEF One, Checked, Fetched, Accepted, Handed
  <2>4. unpacked # "cut"
    BY <1>1, <2>1, SysupgradeAssumption DEF Inv, Progress, Unpackable
  <2> QED
    BY <2>2, <2>3, <2>4
<1>2. Inv /\ One(s) /\ [Next]_vars =>
        [Erasing => asked[req.by] \in {unpacked, "missing"}]_vars
  BY <1>1
<1> QED
  BY <1>2, OneSession, PTL DEF Spec, FlashesWhatWasAsked

\* With one session, a command line that keeps the settings has them in its
\* archive when the root filesystem is erased, and whatever fails later the
\* system that boots has them.
THEOREM KeepsSettings ==
  ASSUME NEW s, Session = {s}
  PROVE  Spec => SettingsKept
<1> DEFINE Kept ==
      (req.by \in Session /\ Keeping(opt[req.by]) /\ ~ramdisk) =>
        /\ stage = "root" /\ stage' = "root.." => confTar = settings
        /\ stage \in {"kernel", "kernel..", "reboot"} /\ stage' = "none" =>
             settings' = confTar
<1>1. ASSUME Inv, One(s), Next PROVE Kept
  <2> SUFFICES ASSUME req.by \in Session, Keeping(opt[req.by]), ~ramdisk
               PROVE  /\ stage = "root" => confTar = settings
                      /\ stage \in {"kernel", "kernel..", "reboot"}
                           /\ stage' = "none" => settings' = confTar
    OBVIOUS
  <2>1. req.by = s /\ Keeping(opt[s])
    OBVIOUS
  <2>2. stage \notin {"none", "dead"} => Handed(s) /\ save[s]
    BY <1>1, <2>1 DEF One, Alone, Archived, Handed, Keeping
  <2>3. stage = "root" => confTar = settings
    BY <1>1, <2>1, <2>2 DEF One, Archived, RootReplaced
  <2>4. ASSUME stage \in {"kernel", "kernel..", "reboot"}, stage' = "none"
        PROVE  settings' = confTar
    <3>1. Boot
      <4>1. ~SessionStep(s)
        BY <1>1, <2>4 DEF One, Alone, SessionStep, Start, CopyMissing,
           FetchStart, FetchDone, FetchFail, CheckStart, CheckEnd, Configure,
           CopyConf, ArchiveEnd, Call, CallFails
      <4>2. ~Revalidate
        BY <1>1, <2>4 DEF One, Alone, Revalidate
      <4> QED
        BY <1>1, <2>4, <4>1, <4>2
           DEF Next, Stage2Step, Kill, SwitchToRamfs, Stage2Fail, Extract,
               ExtractFail, CheckLayout, MtdWrite, MtdWritten, MtdFail,
               WritingStage, WriteOrder, Partition, Reboot, PowerLoss,
               upgradeVars
    <3>2. /\ \A p \in Partition : flash[p].whole
          /\ settings' = IF tgz = "absent" THEN settings ELSE tgz
      BY <2>4, <3>1 DEF Boot
    <3>3. confTar # "absent"
      BY <1>1, <2>2, <2>4 DEF One, Archived
    <3> QED
      BY <1>1, <2>1, <2>4, <3>2, <3>3 DEF One, Archived
  <2> QED
    BY <2>3, <2>4
<1>2. Inv /\ One(s) /\ [Next]_vars => [Kept]_vars
  BY <1>1
<1> QED
  BY <1>2, OneSession, PTL DEF Spec, SettingsKept

\* With one session, the archive -j appends is the one the command line calls
\* for, and is cut short only after a fault.
THEOREM ArchiveMatches ==
  ASSUME NEW s, Session = {s}
  PROVE  Spec => ArchiveMatchesRequest
<1> DEFINE Safe == Inv /\ One(s) /\ Complete(s)
           Matches ==
             Appended =>
               LET o == opt[req.by] IN
               /\ o.f => tgz' \in {"given", "cut"}
               /\ o.n /\ ~o.f => tgz' = "absent"
               /\ Keeping(o) /\ ~ramdisk => tgz' # "absent"
               /\ tgz' = "cut" => faults > 0
<1>1. Init => Complete(s)
  BY DEF Init, Complete
<1>2. Inv /\ One(s) /\ Complete(s) /\ [Next]_vars => Complete(s)'
  BY NextComplete DEF Inv, One
<1>3. ASSUME Safe, Next, Appended
      PROVE  /\ opt[s].f => tgz' \in {"given", "cut"}
             /\ opt[s].n /\ ~opt[s].f => tgz' = "absent"
             /\ Keeping(opt[s]) /\ ~ramdisk => tgz' # "absent"
             /\ tgz' = "cut" => faults > 0
  <2>1. /\ pc[s] \in {"waiting", "killed"} /\ procd = "replaced"
        /\ req.backup = save[s]
    BY <1>3 DEF One, Alone, Appended
  <2>2. ~SessionStep(s)
    BY <2>1 DEF SessionStep, Start, CopyMissing, FetchStart, FetchDone,
                FetchFail, CheckStart, CheckEnd, Configure, CopyConf,
                ArchiveEnd, Call, CallFails
  <2>3. MtdWritten("root")
    BY <1>3, <2>1, <2>2
       DEF Next, Revalidate, Stage2Step, Kill, SwitchToRamfs, Stage2Fail,
           Extract, ExtractFail, CheckLayout, MtdWrite, MtdWritten, MtdFail,
           WritingStage, WriteOrder, Partition, Reboot, PowerLoss, Boot,
           upgradeVars, Appended
  <2>4. tgz = "absent" /\ tgz' = IF save[s] THEN confTar ELSE "absent"
    BY <1>3, <2>1, <2>3 DEF One, Archived, Appended, MtdWritten
  <2>5. confTar = "cut" => faults > 0
    BY <1>3, <2>1 DEF Complete, Inv, TypeOK
  <2>6. /\ save[s] = (opt[s].f \/ ~opt[s].n)
        /\ opt[s].f => confTar \in {"given", "cut"}
        /\ Keeping(opt[s]) /\ ~ramdisk => confTar # "absent"
    BY <1>3, <2>1 DEF One, Archived, Handed
  <2>7. opt[s] \in OptionRecord
    BY <1>3, SysupgradeAssumption DEF Inv, TypeOK
  <2> QED
    BY <2>4, <2>5, <2>6, <2>7 DEF Keeping, OptionRecord
<1>4. ASSUME Safe, Appended PROVE req.by = s
  BY <1>4 DEF One, Alone, Appended
<1>5. Safe /\ [Next]_vars => [Matches]_vars
  BY <1>3, <1>4
<1>6. Spec => []Safe
  BY <1>1, <1>2, OneSession, PTL DEF Spec
<1> QED
  BY <1>5, <1>6, PTL DEF Spec, ArchiveMatchesRequest

\* With one session, the settings reach an image of another compat version with
\* -F, with --ignore-minor-compat-version, or with -n and -f only.
THEOREM NoConfigAcross ==
  ASSUME NEW s, Session = {s}
  PROVE  Spec => NoConfigAcrossCompat
<1> DEFINE Compatible ==
      CrossesCompat =>
        LET o == opt[req.by] IN o.force \/ o.ignoreMinor \/ (o.n /\ o.f)
<1>1. ASSUME Inv, One(s) PROVE Compatible
  <2> SUFFICES ASSUME CrossesCompat
               PROVE  \/ opt[s].force \/ opt[s].ignoreMinor
                      \/ opt[s].n /\ opt[s].f
    BY <1>1 DEF One, Alone, CrossesCompat
  <2>1. /\ pc[s] \in {"waiting", "killed"} /\ save[s]
        /\ unpacked = file[PathOf(opt[s])]
    BY <1>1 DEF One, Alone, Checked, Writing, CrossesCompat
  <2>2. opt[s].f \/ ~opt[s].n
    BY <1>1, <2>1 DEF One, Archived, Handed, Inv, TypeOK
  <2>3. \/ opt[s].force
        \/ Valid(unpacked, ~opt[s].n, opt[s].ignoreMinor)
    BY <1>1, <2>1 DEF One, Checked, Accepted, Handed
  <2> QED
    BY <2>2, <2>3 DEF Valid, ValidateFirmwareImage, FwtoolCheckImage,
                      CrossesCompat
<1>2. Inv /\ One(s) /\ [Next]_vars => [Compatible]_vars
  BY <1>1
<1> QED
  BY <1>2, OneSession, PTL DEF Spec, NoConfigAcrossCompat

=============================================================================
