-------------------------- MODULE ImageCheckProofs --------------------------
(***************************************************************************)
(* What ImageCheck guarantees for every set of callers and images.         *)
(*                                                                         *)
(* A run that nobody overlaps works on a directory that is its own from    *)
(* rm -rf to rm -rf, whatever earlier runs left in it.                     *)
(***************************************************************************)
EXTENDS ImageCheck, TLAPS

Label ==
  {"done", "meta", "compare", "clean", "mkdir", "extract", "control", "sums",
   "sizes", "layout", "discard", "finish"}

\* The steps at which all members are unpacked.
Complete == {"control", "sums", "sizes", "layout", "finish"}

\* The steps at which the run has yet to remove the directory it has made.
UsesDir == {"extract", "discard"} \cup Complete

-----------------------------------------------------------------------------
(* The inductive invariant                                                 *)

\* Runs count the members on their own.
Counting ==
  \A c \in Caller : /\ pc[c] \in {"meta", "compare", "clean", "mkdir"} => k[c] = 1
                    /\ pc[c] = "extract" => k[c] \in 1..5

\* Whoever removes the directory removes the one of every run.
Tidy == exists /\ LayoutMatches => \E c \in Caller : pc[c] \in UsesDir

Own(c) == About[img[c]]

\* What platform_check_image unpacks of the image, when it is alone.
Whole(c) == [m \in Member |-> Own(c)]

\* What a run that nobody overlaps has found out at each of its steps.
OwnRun(c) ==
  /\ pc[c] # "done" => \A d \in Caller \ {c} : pc[d] = "done"
  /\ pc[c] = "compare" => meta = img[c]
  /\ pc[c] \notin {"done", "meta", "compare"} =>
       (fwtool[c] <=> MetadataOk(c, Own(c)))
  /\ pc[c] \in {"mkdir", "extract"} \cup Complete => ThisBoard = "zte,133"
  /\ pc[c] = "extract" =>
       /\ exists
       /\ \A j \in 1..(k[c] - 1) : /\ MemberOrder[j] \in Own(c).members
                                   /\ dir[MemberOrder[j]] = img[c]
  /\ pc[c] \in Complete => Member \subseteq Own(c).members /\ dir = [m \in Member |-> img[c]]
  /\ pc[c] \in Complete \ {"control"} => ControlOk(Whole(c))
  /\ pc[c] \in {"sizes", "layout", "finish"} => SumsOk(Whole(c))
  /\ pc[c] \in {"layout", "finish"} => SizesOk(Whole(c))
  /\ pc[c] = "finish" => LayoutMatches
  /\ pc[c] = "discard" => ~PlatformCheckImage(Own(c))
  /\ pc[c] = "done" => OwnVerdict(c)

Undisturbed == \A c \in Caller : ~disturbed[c] => OwnRun(c)

Inv == TypeOK /\ Counting /\ Tidy /\ Undisturbed

-----------------------------------------------------------------------------
(* Lemmas                                                                  *)

\* The loop of platform_check_image goes through all members.
LEMMA Order ==
  /\ Len(MemberOrder) = 5 /\ 1..(Len(MemberOrder) + 1) = 1..6
  /\ \A j \in 1..5 : MemberOrder[j] \in Member
  /\ \A m \in Member : \E j \in 1..5 : MemberOrder[j] = m
<1>1. Len(MemberOrder) = 5
  BY DEF MemberOrder
<1>2. /\ MemberOrder[1] = "CONTROL" /\ MemberOrder[2] = "sha256sums"
      /\ MemberOrder[3] = "uImage" /\ MemberOrder[4] = "board.dtb"
      /\ MemberOrder[5] = "rootfs.jffs2"
  BY DEF MemberOrder
<1> QED
  BY <1>1, <1>2 DEF Member, Payload

\* TypeOK, with the length of MemberOrder worked out.
LEMMA Shape ==
  TypeOK <=>
    /\ pc \in [Caller -> Label] /\ img \in [Caller -> Image] /\ k \in [Caller -> 1..6]
    /\ fwtool \in [Caller -> BOOLEAN] /\ valid \in [Caller -> BOOLEAN]
    /\ disturbed \in [Caller -> BOOLEAN]
    /\ meta \in Image \cup {"absent"} /\ exists \in BOOLEAN
    /\ dir \in [Member -> Image \cup {"absent", "empty"}]
BY Order DEF TypeOK, Label

\* A step of a run moves no other run.
LEMMA OnlyItself ==
  ASSUME TypeOK, NEW d \in Caller, Run(d)
  PROVE  /\ pc[d] # "done"
         /\ img' = img /\ disturbed' = disturbed
         /\ \A c \in Caller \ {d} :
              pc'[c] = pc[c] /\ k'[c] = k[c] /\ fwtool'[c] = fwtool[c] /\ valid'[c] = valid[c]
  BY DEF TypeOK, Run, ReadMetadata, CompareMetadata, Clean, MakeDir, ExtractMember,
         CheckControl, CheckSums, CheckSizes, CheckLayout, Discard, Finish, Goto, Return,
         shared

\* The check before it starts.
LEMMA InitInv == Init => Inv
<1> SUFFICES ASSUME Init PROVE Inv
  OBVIOUS
<1>1. TypeOK
  <2>1. k \in [Caller -> 1..6]
    BY DEF Init
  <2>2. dir \in [Member -> Image \cup {"absent", "empty"}]
    BY DEF Init, EmptyDir
  <2> QED
    BY <2>1, <2>2, Shape DEF Init, Label
<1>2. Counting /\ Tidy /\ Undisturbed
  BY DEF Init, Counting, Tidy, Undisturbed
<1> QED
  BY <1>1, <1>2 DEF Inv

-----------------------------------------------------------------------------
(* Types, and the directory                                                *)

\* A new run.
LEMMA BeginKeeps ==
  ASSUME Inv, NEW c \in Caller, Begin(c)
  PROVE  Inv'
<1> USE DEF Inv
<1>1. TypeOK'
  <2>1. pc' \in [Caller -> Label] /\ img' \in [Caller -> Image] /\ k' \in [Caller -> 1..6]
    BY Shape DEF Begin, Goto, Label
  <2>2. disturbed' \in [Caller -> BOOLEAN]
    BY Shape DEF Begin
  <2>3. UNCHANGED <<fwtool, valid, meta, exists, dir>>
    BY DEF Begin, shared
  <2> QED
    BY <2>1, <2>2, <2>3, Shape, Order DEF TypeOK, Label
<1>2. Counting'
  BY DEF Begin, Goto, Counting, TypeOK
<1>3. Tidy'
  <2> SUFFICES ASSUME exists', LayoutMatches
               PROVE  \E d \in Caller : pc'[d] \in UsesDir
    BY DEF Tidy
  <2>1. PICK d \in Caller : pc[d] \in UsesDir
    BY DEF Begin, shared, Tidy
  <2>2. pc'[d] = pc[d]
    BY <2>1 DEF Begin, Goto, TypeOK, UsesDir, Complete
  <2> QED
    BY <2>1, <2>2
<1>4. Undisturbed'
  <2> SUFFICES ASSUME NEW d \in Caller, ~disturbed'[d]
               PROVE  OwnRun(d)'
    BY DEF Undisturbed
  <2>1. CASE d = c
    <3>1. \A e \in Caller \ {c} : pc[e] = "done"
      BY <2>1 DEF Begin, TypeOK
    <3>2. pc'[c] = "meta" /\ \A e \in Caller \ {c} : pc'[e] = pc[e]
      BY DEF Begin, Goto, TypeOK
    <3> QED
      BY <2>1, <3>1, <3>2 DEF OwnRun, Complete
  <2>2. CASE d # c
    <3>1. pc[d] = "done" /\ ~disturbed[d]
      BY <2>2 DEF Begin, TypeOK
    <3>2. /\ pc'[d] = "done" /\ valid'[d] = valid[d] /\ img'[d] = img[d]
      BY <2>2, <3>1 DEF Begin, Goto, TypeOK
    <3>3. OwnVerdict(d)
      BY <3>1 DEF Undisturbed, OwnRun
    <3> QED
      BY <3>2, <3>3 DEF OwnRun, OwnVerdict, Deserved, Complete
  <2> QED
    BY <2>1, <2>2
<1> QED
  BY <1>1, <1>2, <1>3, <1>4

\* The counting of members, under a step of a run.
LEMMA RunCounts ==
  ASSUME TypeOK, Counting, NEW c \in Caller, Run(c)
  PROVE  /\ pc' \in [Caller -> Label] /\ k' \in [Caller -> 1..6]
         /\ Counting'
<1> USE Shape, Order DEF Counting, Goto, Label
<1>1. CASE ReadMetadata(c) \/ CompareMetadata(c)
  <2>1. k' = k /\ pc[c] \in {"meta", "compare"}
    BY <1>1 DEF ReadMetadata, CompareMetadata
  <2>2. Goto(c, "clean") \/ Goto(c, "compare")
    BY <1>1 DEF ReadMetadata, CompareMetadata
  <2> QED
    BY <2>1, <2>2
<1>2. CASE Clean(c) \/ MakeDir(c)
  <2>1. k' = k /\ pc[c] \in {"clean", "mkdir"}
    BY <1>2 DEF Clean, MakeDir
  <2>2. Goto(c, "mkdir") \/ Goto(c, "extract") \/ Goto(c, "done")
    BY <1>2 DEF Clean, Return, MakeDir
  <2> QED
    BY <2>1, <2>2
<1>3. CASE ExtractMember(c)
  <2>1. pc[c] = "extract" /\ k[c] \in 1..5
    BY <1>3 DEF ExtractMember
  <2>2. CASE k' = [k EXCEPT ![c] = @ + 1] /\ Goto(c, IF k[c] = 5 THEN "control" ELSE "extract")
    BY <2>1, <2>2
  <2>3. CASE k' = k /\ Goto(c, "discard")
    BY <2>1, <2>3
  <2> QED
    BY <1>3, <2>2, <2>3 DEF ExtractMember
<1>4. CASE CheckControl(c) \/ CheckSums(c) \/ CheckSizes(c) \/ CheckLayout(c) \/ Discard(c) \/ Finish(c)
  BY <1>4 DEF CheckControl, CheckSums, CheckSizes, CheckLayout, Return, Discard, Finish
<1> QED
  BY <1>1, <1>2, <1>3, <1>4 DEF Run

\* The types of the other variables.
LEMMA RunType ==
  ASSUME TypeOK, Counting, NEW c \in Caller, Run(c)
  PROVE  TypeOK'
<1>1. img' = img /\ disturbed' = disturbed
  BY OnlyItself
<1>2. fwtool' \in [Caller -> BOOLEAN]
  <2>1. CASE CompareMetadata(c)
    <3>1. MetadataOk(c, About[meta]) \in BOOLEAN
      BY DEF MetadataOk, FwtoolCheckImage
    <3> QED
      BY <2>1, <3>1, Shape DEF CompareMetadata
  <2>2. CASE ~CompareMetadata(c)
    BY <2>2, Shape
       DEF Run, ReadMetadata, Clean, MakeDir, ExtractMember, CheckControl, CheckSums,
           CheckSizes, CheckLayout, Discard, Finish
  <2> QED
    BY <2>1, <2>2
<1>3. valid' \in [Caller -> BOOLEAN]
  <2>1. valid' = valid \/ \E b \in BOOLEAN : valid' = [valid EXCEPT ![c] = b]
    <3>1. \A b \in BOOLEAN : (fwtool[c] /\ b) \in BOOLEAN
      OBVIOUS
    <3> QED
      BY <3>1 DEF Run, ReadMetadata, CompareMetadata, Clean, MakeDir, ExtractMember,
                  CheckControl, CheckSums, CheckSizes, CheckLayout, Discard, Finish, Return, shared
  <2> QED
    BY <2>1, Shape
<1>4. /\ meta' \in Image \cup {"absent"} /\ exists' \in BOOLEAN
      /\ dir' \in [Member -> Image \cup {"absent", "empty"}]
  <2>1. EmptyDir \in [Member -> Image \cup {"absent", "empty"}]
    BY DEF EmptyDir
  <2> QED
    BY <2>1, Shape
       DEF Run, ReadMetadata, CompareMetadata, Clean, MakeDir, ExtractMember,
           CheckControl, CheckSums, CheckSizes, CheckLayout, Discard, Finish, RemoveDir, shared
<1> QED
  BY <1>1, <1>2, <1>3, <1>4, RunCounts, Order DEF TypeOK, Label

\* A run that does not remove the directory keeps using it.
LEMMA RunTidy ==
  ASSUME TypeOK, Tidy, NEW c \in Caller, Run(c)
  PROVE  Tidy'
<1> SUFFICES ASSUME exists', LayoutMatches
             PROVE  \E d \in Caller : pc'[d] \in UsesDir
  BY DEF Tidy
<1>1. \A d \in Caller \ {c} : pc'[d] = pc[d]
  BY OnlyItself
<1>2. CASE exists
  <2>1. PICK d \in Caller : pc[d] \in UsesDir
    BY <1>2 DEF Tidy
  <2>2. CASE d # c
    BY <1>1, <2>1, <2>2
  <2>3. CASE d = c
    <3>1. pc'[c] \in UsesDir
      BY <2>1, <2>3
         DEF TypeOK, Run, ReadMetadata, CompareMetadata, Clean, MakeDir, ExtractMember,
             CheckControl, CheckSums, CheckSizes, CheckLayout, Discard, Finish,
             RemoveDir, Goto, UsesDir, Complete
    <3> QED
      BY <3>1
  <2> QED
    BY <2>2, <2>3
<1>3. CASE ~exists
  <2>1. pc'[c] = "extract"
    BY <1>3 DEF TypeOK, Run, ReadMetadata, CompareMetadata, Clean, MakeDir, ExtractMember,
                CheckControl, CheckSums, CheckSizes, CheckLayout, Discard, Finish,
                RemoveDir, Goto, shared
  <2> QED
    BY <2>1 DEF UsesDir
<1> QED
  BY <1>2, <1>3

-----------------------------------------------------------------------------
(* The verdict                                                             *)

\* What the tests find in a directory that holds one image.
LEMMA OneImage ==
  ASSUME NEW c \in Caller, img \in [Caller -> Image], dir = [m \in Member |-> img[c]]
  PROVE  Unpacked = Whole(c) /\ \A m \in Member : dir[m] # "absent"
<1>1. img[c] \in Image /\ img[c] # "absent"
  BY ImageCheckAssumption
<1>2. {n \in Member : dir[n] \in Image} = Member
  BY <1>1
<1> QED
  BY <1>1, <1>2 DEF Unpacked, Whole, Own

\* platform_check_image, in the words of the steps.
LEMMA Platform ==
  ASSUME NEW c \in Caller
  PROVE  PlatformCheckImage(Own(c)) <=>
           /\ ThisBoard = "zte,133" /\ Member \subseteq Own(c).members
           /\ ControlOk(Whole(c)) /\ SumsOk(Whole(c)) /\ SizesOk(Whole(c))
           /\ LayoutMatches
BY DEF PlatformCheckImage, Whole

\* The metadata of the image is read and compared, and the directory is new.
LEMMA StartVerdict ==
  ASSUME Inv, NEW c \in Caller, ~disturbed[c],
         ReadMetadata(c) \/ CompareMetadata(c) \/ Clean(c) \/ MakeDir(c)
  PROVE  OwnRun(c)'
<1>1. OwnRun(c)
  BY DEF Inv, Undisturbed
<1>2. Run(c) /\ TypeOK /\ Counting
  BY DEF Run, Inv
<1>3. /\ pc[c] # "done" /\ img' = img
      /\ \A d \in Caller \ {c} : pc[d] = "done" /\ pc'[d] = "done"
  BY <1>1, <1>2, OnlyItself DEF OwnRun
<1> USE <1>2, <1>3, Shape DEF Own, Goto
<1>4. CASE ReadMetadata(c)
  <2>1. CASE About[img[c]].metadata = "absent"
    <3>1. pc'[c] = "clean" /\ ~fwtool'[c]
      BY <1>4, <2>1 DEF ReadMetadata
    <3>2. ~MetadataOk(c, About[img[c]])
      BY <2>1 DEF MetadataOk, FwtoolCheckImage
    <3> QED
      BY <3>1, <3>2 DEF OwnRun, Complete
  <2>2. CASE About[img[c]].metadata # "absent"
    <3>1. pc'[c] = "compare" /\ meta' = img[c]
      BY <1>4, <2>2 DEF ReadMetadata
    <3> QED
      BY <3>1 DEF OwnRun, Complete
  <2> QED
    BY <2>1, <2>2
<1>5. CASE CompareMetadata(c)
  <2>1. pc'[c] = "clean" /\ meta = img[c]
    BY <1>1, <1>5 DEF CompareMetadata, OwnRun
  <2>2. fwtool'[c] = MetadataOk(c, About[img[c]])
    BY <1>5, <2>1 DEF CompareMetadata
  <2> QED
    BY <2>1, <2>2 DEF OwnRun, Complete
<1>6. CASE Clean(c)
  <2>1. /\ fwtool' = fwtool
        /\ fwtool[c] <=> MetadataOk(c, About[img[c]])
    BY <1>1, <1>6 DEF Clean, OwnRun
  <2>2. CASE ThisBoard = "zte,133"
    <3>1. pc'[c] = "mkdir"
      BY <1>6, <2>2 DEF Clean
    <3> QED
      BY <2>1, <2>2, <3>1 DEF OwnRun, Complete
  <2>3. CASE ThisBoard # "zte,133"
    <3>1. pc'[c] = "done" /\ ~valid'[c]
      BY <1>6, <2>3 DEF Clean, Return
    <3>2. ~Deserved(c)
      BY <2>3 DEF Deserved, MetadataOk, Own, ValidateFirmwareImage, PlatformCheckImage
    <3> QED
      BY <3>1, <3>2 DEF OwnRun, OwnVerdict, Deserved, Complete
  <2> QED
    BY <2>2, <2>3
<1>7. CASE MakeDir(c)
  <2>1. pc[c] = "mkdir" /\ pc'[c] = "extract" /\ exists' /\ UNCHANGED <<fwtool, k>>
    BY <1>7 DEF MakeDir
  <2>2. k[c] = 1
    BY <2>1 DEF Counting
  <2>3. 1..(k'[c] - 1) = {}
    BY <2>1, <2>2
  <2> QED
    BY <1>1, <2>1, <2>3 DEF OwnRun, Complete
<1> QED
  BY <1>4, <1>5, <1>6, <1>7

\* The members come from the image, or one of them is missing.
LEMMA ExtractVerdict ==
  ASSUME Inv, NEW c \in Caller, ~disturbed[c], ExtractMember(c)
  PROVE  OwnRun(c)'
<1>1. OwnRun(c)
  BY DEF Inv, Undisturbed
<1>2. Run(c) /\ TypeOK /\ Counting
  BY DEF Run, Inv
<1>3. /\ pc[c] # "done" /\ img' = img
      /\ \A d \in Caller \ {c} : pc[d] = "done" /\ pc'[d] = "done"
  BY <1>1, <1>2, OnlyItself DEF OwnRun
<1> DEFINE m == MemberOrder[k[c]]
<1>4. /\ pc[c] = "extract" /\ exists /\ k[c] \in 1..5 /\ m \in Member
      /\ ThisBoard = "zte,133"
      /\ fwtool[c] <=> MetadataOk(c, Own(c))
      /\ \A j \in 1..(k[c] - 1) : /\ MemberOrder[j] \in Own(c).members
                                  /\ dir[MemberOrder[j]] = img[c]
  BY <1>1, <1>2, Order DEF ExtractMember, OwnRun, Counting
<1>5. fwtool' = fwtool /\ exists' = exists
  BY DEF ExtractMember
<1>6. \A n \in 1..5 : 1..((n + 1) - 1) = 1..n /\ 1..n \subseteq 1..5 /\ 1..n \ {n} \subseteq 1..(n - 1)
  OBVIOUS
<1>7. CASE m \in Own(c).members
  <2>1. /\ dir' = [dir EXCEPT ![m] = img[c]] /\ k' = [k EXCEPT ![c] = @ + 1]
        /\ Goto(c, IF k[c] = 5 THEN "control" ELSE "extract")
    BY <1>4, <1>7, Order DEF ExtractMember, Own
  <2>2. k'[c] = k[c] + 1
    BY <1>2, <2>1, Shape
  <2>3. \A j \in 1..k[c] : /\ MemberOrder[j] \in Own(c).members
                           /\ dir'[MemberOrder[j]] = img[c]
    <3> SUFFICES ASSUME NEW j \in 1..k[c]
                 PROVE  /\ MemberOrder[j] \in Own(c).members
                        /\ dir'[MemberOrder[j]] = img[c]
      OBVIOUS
    <3>1. j \in 1..5 /\ MemberOrder[j] \in Member
      BY <1>4, <1>6, Order
    <3>2. CASE j = k[c]
      BY <1>2, <1>4, <1>7, <2>1, <3>2, Shape
    <3>3. CASE j # k[c]
      <4>1. j \in 1..(k[c] - 1)
        BY <1>4, <1>6, <3>3
      <4> QED
        BY <1>2, <1>4, <2>1, <3>1, <4>1, Shape
    <3> QED
      BY <3>2, <3>3
  <2>4. CASE k[c] = 5
    <3>1. pc'[c] = "control"
      BY <1>2, <2>1, <2>4, Shape DEF Goto
    <3>2. Member \subseteq Own(c).members /\ \A n \in Member : dir'[n] = img[c]
      BY <2>3, <2>4, Order
    <3>3. dir' = [n \in Member |-> img[c]]
      BY <1>2, <2>1, <3>2, Shape
    <3> QED
      BY <1>3, <1>4, <1>5, <3>1, <3>2, <3>3 DEF OwnRun, Complete, Own
  <2>5. CASE k[c] # 5
    <3>1. pc'[c] = "extract"
      BY <1>2, <2>1, <2>5, Shape DEF Goto
    <3>2. 1..(k'[c] - 1) = 1..k[c]
      BY <1>4, <1>6, <2>2
    <3> QED
      BY <1>3, <1>4, <1>5, <2>3, <3>1, <3>2 DEF OwnRun, Complete, Own
  <2> QED
    BY <2>4, <2>5
<1>8. CASE m \notin Own(c).members
  <2>1. pc'[c] = "discard"
    BY <1>2, <1>4, <1>8, Shape DEF ExtractMember, Own, Goto
  <2>2. ~PlatformCheckImage(Own(c))
    BY <1>4, <1>8, Platform
  <2> QED
    BY <1>3, <1>4, <1>5, <2>1, <2>2 DEF OwnRun, Complete, Own
<1> QED
  BY <1>7, <1>8

\* Each test finds out about the image itself.
LEMMA TestVerdict ==
  ASSUME Inv, NEW c \in Caller, ~disturbed[c],
         CheckControl(c) \/ CheckSums(c) \/ CheckSizes(c) \/ CheckLayout(c)
  PROVE  OwnRun(c)'
<1>1. OwnRun(c)
  BY DEF Inv, Undisturbed
<1>2. Run(c) /\ TypeOK
  BY DEF Run, Inv
<1>3. /\ img' = img /\ fwtool' = fwtool /\ dir' = dir
      /\ \A d \in Caller \ {c} : pc[d] = "done" /\ pc'[d] = "done"
  BY <1>1, <1>2, OnlyItself
     DEF OwnRun, CheckControl, CheckSums, CheckSizes, CheckLayout, shared
<1>4. pc[c] \in Complete /\ pc[c] # "finish"
  BY DEF CheckControl, CheckSums, CheckSizes, CheckLayout, Complete
<1>5. /\ ThisBoard = "zte,133" /\ Member \subseteq Own(c).members
      /\ dir = [m \in Member |-> img[c]]
      /\ fwtool[c] <=> MetadataOk(c, Own(c))
  BY <1>1, <1>4 DEF OwnRun, Complete
<1>6. Unpacked = Whole(c) /\ \A m \in Member : dir[m] # "absent"
  BY <1>2, <1>5, OneImage, Shape
<1>7. DOMAIN Whole(c) = Member /\ Payload \cup {"sha256sums"} \subseteq Member
  BY DEF Whole, Member
<1> USE <1>2, <1>3, <1>5, Shape DEF Goto
<1>8. CASE pc'[c] = "discard" /\ ~PlatformCheckImage(Own(c))
  BY <1>8 DEF OwnRun, Complete, Own
<1>9. CASE CheckControl(c)
  <2>1. CASE ControlOk(Whole(c))
    <3>1. pc'[c] = "sums"
      BY <1>6, <1>7, <1>9, <2>1 DEF CheckControl, Member
    <3> QED
      BY <2>1, <3>1 DEF OwnRun, Complete, Own, Whole
  <2>2. CASE ~ControlOk(Whole(c))
    <3>1. pc'[c] = "discard"
      BY <1>6, <1>9, <2>2 DEF CheckControl
    <3> QED
      BY <1>8, <2>2, <3>1, Platform
  <2> QED
    BY <2>1, <2>2
<1>10. CASE CheckSums(c)
  <2>0. ControlOk(Whole(c))
    BY <1>1, <1>10 DEF CheckSums, OwnRun, Complete
  <2>1. CASE SumsOk(Whole(c))
    <3>1. pc'[c] = "sizes"
      BY <1>6, <1>7, <1>10, <2>1 DEF CheckSums
    <3> QED
      BY <2>0, <2>1, <3>1 DEF OwnRun, Complete, Own, Whole
  <2>2. CASE ~SumsOk(Whole(c))
    <3>1. pc'[c] = "discard"
      BY <1>6, <1>10, <2>2 DEF CheckSums
    <3> QED
      BY <1>8, <2>2, <3>1, Platform
  <2> QED
    BY <2>1, <2>2
<1>11. CASE CheckSizes(c)
  <2>0. ControlOk(Whole(c)) /\ SumsOk(Whole(c))
    BY <1>1, <1>11 DEF CheckSizes, OwnRun, Complete
  <2>1. CASE SizesOk(Whole(c))
    <3>1. pc'[c] = "layout"
      BY <1>6, <1>7, <1>11, <2>1 DEF CheckSizes
    <3> QED
      BY <2>0, <2>1, <3>1 DEF OwnRun, Complete, Own, Whole
  <2>2. CASE ~SizesOk(Whole(c))
    <3>1. pc'[c] = "discard"
      BY <1>6, <1>11, <2>2 DEF CheckSizes
    <3> QED
      BY <1>8, <2>2, <3>1, Platform
  <2> QED
    BY <2>1, <2>2
<1>12. CASE CheckLayout(c)
  <2>0. ControlOk(Whole(c)) /\ SumsOk(Whole(c)) /\ SizesOk(Whole(c))
    BY <1>1, <1>12 DEF CheckLayout, OwnRun, Complete
  <2>1. CASE LayoutMatches
    <3>1. pc'[c] = "finish"
      BY <1>12, <2>1 DEF CheckLayout
    <3> QED
      BY <2>0, <2>1, <3>1 DEF OwnRun, Complete, Own, Whole
  <2>2. CASE ~LayoutMatches
    <3>1. pc'[c] = "done" /\ ~valid'[c]
      BY <1>12, <2>2 DEF CheckLayout, Return
    <3>2. ~Deserved(c)
      BY <2>2 DEF Deserved, MetadataOk, Own, ValidateFirmwareImage, PlatformCheckImage
    <3> QED
      BY <3>1, <3>2 DEF OwnRun, OwnVerdict, Deserved, Complete, Own
  <2> QED
    BY <2>1, <2>2
<1> QED
  BY <1>9, <1>10, <1>11, <1>12

\* What the run returns.
LEMMA EndVerdict ==
  ASSUME Inv, NEW c \in Caller, ~disturbed[c], Discard(c) \/ Finish(c)
  PROVE  OwnRun(c)'
<1>1. OwnRun(c) /\ TypeOK
  BY DEF Inv, Undisturbed
<1>2. /\ pc'[c] = "done" /\ img' = img
      /\ fwtool[c] <=> MetadataOk(c, Own(c))
  BY <1>1, Shape DEF Discard, Finish, Return, Goto, OwnRun
<1>3. valid'[c] <=> Deserved(c)
  <2>1. CASE Discard(c)
    <3>1. ~valid'[c] /\ ~PlatformCheckImage(Own(c))
      BY <1>1, <2>1, Shape DEF Discard, Return, OwnRun
    <3> QED
      BY <3>1 DEF Deserved, MetadataOk, Own, ValidateFirmwareImage
  <2>2. CASE Finish(c)
    <3>1. PlatformCheckImage(Own(c))
      BY <1>1, <2>2, Platform DEF Finish, OwnRun, Complete
    <3>2. valid'[c] = fwtool[c]
      BY <1>1, <2>2, Shape DEF Finish, Return
    <3> QED
      BY <1>2, <3>1, <3>2 DEF Deserved, MetadataOk, Own, ValidateFirmwareImage
  <2> QED
    BY <2>1, <2>2
<1> QED
  BY <1>2, <1>3 DEF OwnRun, OwnVerdict, Deserved, Own, Complete

\* A step of a run, seen by all.
LEMMA RunKeeps ==
  ASSUME Inv, NEW c \in Caller, Run(c)
  PROVE  Inv'
<1>1. TypeOK' /\ Counting' /\ Tidy'
  BY RunType, RunCounts, RunTidy DEF Inv
<1>2. Undisturbed'
  <2> SUFFICES ASSUME NEW d \in Caller, ~disturbed'[d]
               PROVE  OwnRun(d)'
    BY DEF Undisturbed
  <2>1. /\ ~disturbed[d] /\ pc[c] # "done" /\ img' = img
        /\ d # c => pc'[d] = pc[d] /\ valid'[d] = valid[d]
    BY OnlyItself DEF Inv
  <2>2. CASE d = c
    BY <2>1, <2>2, StartVerdict, ExtractVerdict, TestVerdict, EndVerdict DEF Run
  <2>3. CASE d # c
    <3>1. pc[d] = "done" /\ OwnVerdict(d)
      BY <2>1, <2>3 DEF Inv, Undisturbed, OwnRun
    <3>2. pc'[d] = "done" /\ OwnVerdict(d)'
      BY <2>1, <2>3, <3>1 DEF OwnVerdict, Deserved
    <3> QED
      BY <3>2 DEF OwnRun, Complete
  <2> QED
    BY <2>2, <2>3
<1> QED
  BY <1>1, <1>2 DEF Inv

\* Whatever the check reads and decides.
LEMMA NextInv == Inv /\ [Next]_vars => Inv'
<1> SUFFICES ASSUME Inv, [Next]_vars PROVE Inv'
  OBVIOUS
<1>1. CASE Next
  BY <1>1, BeginKeeps, RunKeeps DEF Next
<1>2. CASE UNCHANGED vars
  <2>1. UNCHANGED <<pc, img, k, fwtool, valid, disturbed, meta, exists, dir>>
    BY <1>2 DEF vars, shared
  <2>2. TypeOK' /\ Counting' /\ Tidy'
    BY <2>1 DEF Inv, TypeOK, Counting, Tidy
  <2>3. ASSUME NEW c \in Caller, OwnRun(c) PROVE OwnRun(c)'
    <3>1. Own(c)' = Own(c) /\ Whole(c)' = Whole(c) /\ (OwnVerdict(c)' <=> OwnVerdict(c))
      BY <2>1 DEF Own, Whole, OwnVerdict, Deserved
    <3> QED
      BY <2>1, <2>3, <3>1 DEF OwnRun
  <2>4. Undisturbed'
    BY <2>1, <2>3 DEF Inv, Undisturbed
  <2> QED
    BY <2>2, <2>4 DEF Inv
<1> QED
  BY <1>1, <1>2

-----------------------------------------------------------------------------
(* Theorems                                                                *)

\* The inductive invariant of the runs of validate_firmware_image.
THEOREM Invariance == Spec => []Inv
<1> QED
  BY InitInv, NextInv, PTL DEF Spec

\* validate_firmware_image: a run that no other one overlaps says of its image
\* exactly what the image deserves, whatever files and metadata are lying about.
THEOREM VerdictIsOwn == Spec => []UndisturbedVerdict
<1>1. Inv => UndisturbedVerdict
  BY DEF Inv, Undisturbed, OwnRun, UndisturbedVerdict
<1> QED
  BY <1>1, Invariance, PTL

\* platform_check_image: when the last of any number of runs is through, the
\* unpacked image is gone, if the partitions are those of the board.
THEOREM RamIsFreed == Spec => []CleansUp
<1>1. Inv => CleansUp
  BY DEF Inv, Tidy, CleansUp, UsesDir, Complete
<1> QED
  BY <1>1, Invariance, PTL

=============================================================================
