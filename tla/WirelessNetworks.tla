--------------------------- MODULE WirelessNetworks ---------------------------
(***************************************************************************)
(* wireless.js: the networks of the radios are switched on and off, added, *)
(* joined after a scan, removed, and named when they have no name.         *)
(*                                                                         *)
(* A network is off when its own flag or that of its radio says so.  What  *)
(* the rows show is what was drawn after the last save.  A scan is polled  *)
(* until its dialog is left, or another dialog takes its place.            *)
(*                                                                         *)
(* Simplifications.  A section wifinet<n> goes by n, one without a name by *)
(* a negative number.  Encryption, channel and zone of a joined network    *)
(* are left out, and so is the dialog's content.  A save of a dialog is    *)
(* one step; that of a switch takes its time, and no network is added       *)
(* meanwhile.                                                              *)
(***************************************************************************)
EXTENDS Integers, FiniteSets

CONSTANTS
  Radio,  \* wireless devices
  Bss,    \* networks in reach
  MaxNets \* bound on the sections

Sid == -MaxNets..2 * MaxNets

None == -MaxNets - 1

VARIABLES
  off,     \* radios that are disabled
  nets,    \* the sections: radio, and whether they are disabled
  shown,   \* the networks in the rows: whether the button says Enable
  dialog,  \* what is in front of the page
  scan,    \* the radio that is scanned, and its scanCache
  polled,  \* the scans in the poll queue
  pollFn,  \* the last of them
  scans,   \* scans so far
  added,   \* addedSection
  saving,  \* a switch is being saved
  odd      \* what went another way: radios that Add has enabled since the rows
           \* were drawn, scans whose dialog was taken away, and refused saves

wirelessVars == <<off, nets, shown, dialog, scan, polled, pollFn, scans, added, saving, odd>>

Off(s) == nets[s].off \/ nets[s].radio \in off

NoScan == [radio |-> {}, seen |-> {}]

NothingOdd == [radios |-> {}, scans |-> {}, refused |-> FALSE]

WirelessTypeOK ==
  /\ off \subseteq Radio
  /\ DOMAIN nets \subseteq Sid /\ nets \in [DOMAIN nets -> [radio : Radio, off : BOOLEAN]]
  /\ DOMAIN shown \subseteq Sid /\ shown \in [DOMAIN shown -> BOOLEAN]
  /\ dialog \in {"migration", "none", "scan", "join", "edit", "status", "error"}
  /\ scan \in [radio : SUBSET Radio, seen : SUBSET Bss]
  /\ scans \in 0..2 /\ polled \subseteq 1..scans /\ pollFn \in 0..scans
  /\ added \in Sid \cup {None} /\ saving \in BOOLEAN
  /\ odd \in [radios : SUBSET Radio, scans : SUBSET (1..scans), refused : BOOLEAN]

\* The rows there are once the page is drawn.
Drawn == [s \in DOMAIN nets |-> Off(s)]

WirelessInit ==
  /\ off \in SUBSET Radio
  /\ \E ids \in SUBSET (-MaxNets..MaxNets) : Cardinality(ids) <= MaxNets /\ nets \in [ids -> [radio : Radio, off : BOOLEAN]]
  /\ shown = Drawn
  /\ dialog = (IF \E s \in DOMAIN nets : s < 0 THEN "migration" ELSE "none")
  /\ scan = NoScan /\ polled = {} /\ pollFn = 0 /\ scans = 0
  /\ added = None /\ saving = FALSE /\ odd = NothingOdd

\* The rows are drawn again, after a save.
Redraw == shown' = Drawn' /\ odd' = [odd EXCEPT !.radios = {}]

SamePolls == UNCHANGED <<polled, pollFn, scans>>

-----------------------------------------------------------------------------
(* Names                                                                   *)

\* Mutant of NextFreeSid: the first name is taken.
NextSid(offset) == offset

\* next_free_sid
NextFreeSid(offset) ==
  CHOOSE n \in offset..offset + Cardinality(DOMAIN nets) :
    /\ n \notin DOMAIN nets
    /\ \A k \in offset..n - 1 : k \in DOMAIN nets

\* The k-th section without a name gets the k-th name that is free.
NameFor(s) ==
  LET Free(k) == k >= 0 /\ k \notin DOMAIN nets
      before == Cardinality({t \in DOMAIN nets : t < 0 /\ t > s})
  IN CHOOSE n \in 0..Cardinality(DOMAIN nets) : Free(n) /\ Cardinality({k \in 0..n - 1 : Free(k)}) = before

\* Each section is renamed by a call of its own: those in done were.  The page
\* is loaded again, when all were, and by hand otherwise.
HandleMigration(done) ==
  LET NewName(s) == IF s \in done THEN NameFor(s) ELSE s
  IN /\ dialog = "migration" /\ \A s \in done : s < 0
     /\ nets' = [n \in {NewName(s) : s \in DOMAIN nets} |-> nets[CHOOSE s \in DOMAIN nets : NewName(s) = n]]
     /\ dialog' = IF \E s \in DOMAIN nets' : s < 0 THEN "migration" ELSE "none"
     /\ UNCHANGED <<off, scan, added, saving>>
     /\ SamePolls /\ Redraw

-----------------------------------------------------------------------------
(* On and off                                                              *)

\* network_updown looks at the configuration, whatever the button says.
NetworkUpDown(s) ==
  LET now == [nets EXCEPT ![s].off = ~Off(s)]
      allOff == \A t \in DOMAIN nets : nets[t].radio = nets[s].radio => now[t].off
  IN /\ dialog = "none" /\ ~saving /\ s \in DOMAIN nets \cap DOMAIN shown
     /\ nets' = now
     /\ off' = IF Off(s) THEN off \ {nets[s].radio}
               ELSE IF allOff THEN off \cup {nets[s].radio} ELSE off
     /\ saving' = TRUE
     /\ UNCHANGED <<shown, dialog, scan, polled, pollFn, scans, added, odd>>

\* What comes to the front replaces the dialog of a scan, which stays polled.
InFront(d) ==
  /\ dialog' = d /\ scan' = NoScan
  /\ odd' = [odd EXCEPT !.scans = IF dialog = "scan" THEN @ \cup polled ELSE @,
                        !.radios = IF d = "status" THEN {} ELSE @,
                        !.refused = @ \/ d = "error"]

\* map.save, then apply.
Saved ==
  /\ saving /\ saving' = FALSE
  /\ shown' = Drawn /\ InFront("status")
  /\ SamePolls /\ UNCHANGED <<off, nets, added>>

\* A save that is refused draws nothing.
Refused ==
  /\ saving /\ saving' = FALSE
  /\ InFront("error")
  /\ SamePolls /\ UNCHANGED <<off, nets, shown, added>>

\* After an apply the page is loaded again, unless the apply was refused.
Reload ==
  /\ dialog = "status" /\ dialog' = "none"
  /\ polled' = {} /\ pollFn' = 0 /\ added' = None
  /\ shown' = Drawn /\ odd' = NothingOdd
  /\ UNCHANGED <<off, nets, scan, scans, saving>>

Dismiss ==
  /\ dialog \in {"status", "error"} /\ dialog' = "none"
  /\ SamePolls /\ UNCHANGED <<off, nets, shown, scan, added, saving, odd>>

HandleRemove(s) ==
  /\ dialog = "none" /\ ~saving /\ s \in DOMAIN nets \cap DOMAIN shown
  /\ nets' = [t \in DOMAIN nets \ {s} |-> nets[t]]
  /\ UNCHANGED <<off, dialog, scan, added, saving>>
  /\ SamePolls /\ Redraw

-----------------------------------------------------------------------------
(* Scans                                                                   *)

\* handleScan, while the save of a switch may be on its way.
HandleScan(r) ==
  /\ dialog = "none" /\ scans < 2 /\ scans' = scans + 1
  /\ dialog' = "scan" /\ scan' = [radio |-> {r}, seen |-> {}]
  /\ pollFn' = scans' /\ polled' = polled \cup {scans'}
  /\ UNCHANGED <<off, nets, shown, added, saving, odd>>

\* What an earlier answer had and this one has not is shown as well.
HandleScanRefresh(results) ==
  /\ dialog = "scan" /\ scan' = [scan EXCEPT !.seen = @ \cup results]
  /\ UNCHANGED <<off, nets, shown, dialog, polled, pollFn, scans, added, saving, odd>>

HandleScanStartStop ==
  /\ dialog = "scan"
  /\ polled' = IF pollFn \in polled THEN polled \ {pollFn} ELSE polled \cup {pollFn}
  /\ UNCHANGED <<off, nets, shown, dialog, scan, pollFn, scans, added, saving, odd>>

HandleScanAbort ==
  /\ dialog = "scan" /\ dialog' = "none"
  /\ polled' = polled \ {pollFn} /\ pollFn' = 0 /\ scan' = NoScan
  /\ UNCHANGED <<off, nets, shown, scans, added, saving, odd>>

HandleJoin(bss) ==
  /\ dialog = "scan" /\ bss \in scan.seen /\ dialog' = "join"
  /\ polled' = polled \ {pollFn}
  /\ UNCHANGED <<off, nets, shown, scan, pollFn, scans, added, saving, odd>>

Cancel ==
  /\ dialog = "join" /\ dialog' = "none" /\ scan' = NoScan
  /\ SamePolls /\ UNCHANGED <<off, nets, shown, added, saving, odd>>

-----------------------------------------------------------------------------
(* New networks                                                            *)

With(sections, s, r) ==
  [t \in DOMAIN sections \cup {s} |-> IF t = s THEN [radio |-> r, off |-> FALSE] ELSE sections[t]]

\* What is left of the networks of radio r: none, or all, which go off with
\* their own flags, if so far it was the radio's.
Others(r, replace) ==
  [t \in {t \in DOMAIN nets : ~(replace /\ nets[t].radio = r)} |->
     IF nets[t].radio = r /\ r \in off THEN [nets[t] EXCEPT !.off = TRUE] ELSE nets[t]]

\* The name is looked for from the number of the sections there were.  A save
\* that is refused leaves the section, and no dialog is opened for it.
HandleJoinConfirm(r, replace, saved) ==
  LET s == NextFreeSid(Cardinality(DOMAIN nets))
  IN /\ dialog = "join" /\ r \in scan.radio /\ Cardinality(DOMAIN nets) < MaxNets
     /\ nets' = With(Others(r, replace), s, r)
     /\ off' = off \ {r} /\ scan' = NoScan
     /\ IF saved THEN dialog' = "edit" /\ Redraw
        ELSE dialog' = "error" /\ odd' = [odd EXCEPT !.refused = TRUE] /\ UNCHANGED shown
     /\ SamePolls /\ UNCHANGED <<added, saving>>

\* handleAdd enables the radio, whatever becomes of the section.
HandleAdd(r) ==
  LET s == NextFreeSid(Cardinality(DOMAIN nets))
  IN /\ dialog = "none" /\ ~saving /\ Cardinality(DOMAIN nets) < MaxNets
     /\ off' = off \ {r} /\ nets' = With(nets, s, r)
     /\ added' = s /\ dialog' = "edit"
     /\ odd' = [odd EXCEPT !.radios = IF r \in off THEN @ \cup {r} ELSE @]
     /\ SamePolls /\ UNCHANGED <<shown, scan, saving>>

\* handleModalCancel and handleModalSave
CloseDialog ==
  /\ dialog = "edit" /\ dialog' = "none"
  /\ nets' = [t \in DOMAIN nets \ {added} |-> nets[t]] /\ added' = None
  /\ SamePolls /\ UNCHANGED <<off, shown, scan, saving, odd>>

SaveDialog ==
  /\ dialog = "edit" /\ dialog' = "none" /\ added' = None
  /\ UNCHANGED <<off, nets, scan, saving>>
  /\ SamePolls /\ Redraw

WirelessNext ==
  \/ \E done \in SUBSET DOMAIN nets : HandleMigration(done)
  \/ \E s \in Sid : NetworkUpDown(s) \/ HandleRemove(s)
  \/ Saved \/ Refused \/ Reload \/ Dismiss
  \/ \E r \in Radio : HandleScan(r) \/ HandleAdd(r)
  \/ \E results \in SUBSET Bss : HandleScanRefresh(results)
  \/ \E bss \in Bss : HandleJoin(bss)
  \/ HandleScanStartStop \/ HandleScanAbort \/ Cancel
  \/ \E r \in Radio, replace, saved \in BOOLEAN : HandleJoinConfirm(r, replace, saved)
  \/ CloseDialog \/ SaveDialog

WirelessSpec == WirelessInit /\ [][WirelessNext]_wirelessVars

-----------------------------------------------------------------------------
(* Properties                                                              *)

\* Of a step: a network that was off comes on when it is switched on, or
\* together with its radio by the switch of another network or by Add; joining
\* wakes no other one.
JoinWakesNoOther ==
  LET woken == {s \in DOMAIN nets \cap DOMAIN nets' : Off(s) /\ ~Off(s)'}
  IN woken # {} => dialog = "none" /\ Cardinality({s \in woken : nets[s].off}) <= 1

\* Of a step: no network is lost or changed for another when names are given,
\* by the migration or for a new section.
NamesAreKept ==
  /\ dialog = "migration" => Cardinality(DOMAIN nets') = Cardinality(DOMAIN nets)
  /\ dialog # "migration" => \A s \in DOMAIN nets \cap DOMAIN nets' : nets'[s].radio = nets[s].radio

\* A button that says Enable enables: the rows agree with the configuration,
\* unless a save is under way or was refused, or Add has enabled the radio.
ButtonsSayWhatTheyDo ==
  \A s \in DOMAIN shown \cap DOMAIN nets :
    shown[s] = Off(s) \/ saving \/ odd.refused \/ nets[s].radio \in odd.radios

\* Nothing is scanned once the dialog is left, but for a scan whose dialog was
\* taken away by the outcome of a save.
ScansEnd == polled \subseteq odd.scans \cup (IF dialog = "scan" THEN {pollFn} ELSE {})

-----------------------------------------------------------------------------
(* Why                                                                     *)

\* There is a name for another section.
FewSections == Cardinality(DOMAIN nets) <= MaxNets

\* The rows are of sections, and what Add adds gets no row before it is saved.
RowsAreSections ==
  \/ odd.refused
  \/ /\ DOMAIN shown \subseteq DOMAIN nets
     /\ added # None => dialog = "edit" /\ ~saving /\ added \in DOMAIN nets \ DOMAIN shown

ScanHasPoll == dialog = "scan" => pollFn # 0

RowsFit ==
  /\ WirelessTypeOK /\ FewSections /\ RowsAreSections /\ ScanHasPoll
  /\ ButtonsSayWhatTheyDo /\ ScansEnd

=============================================================================
