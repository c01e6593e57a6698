------------------------------ MODULE UciCache ------------------------------
(***************************************************************************)
(* uci.js: the configuration a LuCI page edits.                            *)
(*                                                                         *)
(* The page loads a configuration and lays its edits over it: sections it  *)
(* has created, options it has changed, options and sections it has        *)
(* deleted, and whether sections have moved.  save() turns the overlay     *)
(* into one batch of calls, has the device order the sections, drops       *)
(* everything and loads the configuration again.                           *)
(*                                                                         *)
(* Simplifications.  One configuration, whose sections have one type; what *)
(* the page creates is anonymous, so that the device names it.  Sections   *)
(* the page has created are numbered.  The page makes no edit while it     *)
(* saves: the code drops such an edit when it loads the configuration      *)
(* again.  No other session changes the configuration.                     *)
(***************************************************************************)
EXTENDS Integers, Sequences, FiniteSets, InOrder

CONSTANTS
  Name,     \* names of sections on the device
  Option,
  Val,
  None,
  Stored,   \* the configuration at the start, see UciDocument
  MaxEdits, \* edits in all
  MaxFaults \* requests or answers that get lost

ASSUME UciCacheAssumption ==
  /\ MaxEdits \in Nat /\ MaxFaults \in Nat
  /\ None \notin Val
  /\ "whole" \notin Option

\* The page numbers its sections from 1000, behind all that are loaded, and does
\* not take a number for a name.
ASSUME NameAssumption ==
  /\ IsFiniteSet(Name) /\ Cardinality(Name) <= 1000
  /\ \A s \in Name : s \notin Int

VARIABLES
  device,  \* the sections of the device, in order
  loaded,  \* whether values is there: "no", "asked", "failed" or "here"
  values,  \* what was loaded: state.values
  creates, \* sections created since: state.creates
  changes, \* options set since: state.changes
  deletes, \* options deleted since, or "whole": state.deletes
  touched, \* which of the overlays exist, even when they are empty again
  newidx,  \* sections created since the page was opened
  saving,  \* where save() is
  order,   \* the names it sends to be ordered
  seen,    \* what the page showed when it was called
  faults,
  edits,
  history  \* what the page has forgotten or failed at since it loaded

overlay == <<values, creates, changes, deletes, touched, newidx>>
save == <<saving, order, seen>>
vars == <<device, loaded, overlay, save, faults, edits, history>>

Opts == [Option -> Val \cup {None}]

Section == [name : Name, opts : Opts]

Unset == [o \in Option |-> None]

EmptyFunction == [s \in {} |-> None]

Distinct(seq) == \A i, j \in DOMAIN seq : seq[i] = seq[j] => i = j

NamesOf(config) == {config[i].name : i \in DOMAIN config}

DistinctNames(config) == Distinct([i \in DOMAIN config |-> config[i].name])

ASSUME StoredAssumption == Stored \in Seq(Section) /\ DistinctNames(Stored)

Kind == {"creates", "changes", "deletes", "reorder"}

Position(config, s) == CHOOSE i \in DOMAIN config : config[i].name = s

\* '.index' of a new section.
NewIndex == 1000 + newidx

TypeOK ==
  /\ \A i \in DOMAIN device : device[i].name \in Name /\ device[i].opts \in Opts
  /\ loaded \in {"no", "asked", "failed", "here"}
  /\ DOMAIN values \subseteq Name /\ DOMAIN creates \subseteq 0..(newidx - 1)
  /\ \A s \in DOMAIN values : values[s].opts \in Opts /\ values[s].index \in Nat
  /\ \A s \in DOMAIN creates : creates[s].opts \in Opts /\ creates[s].index \in Nat
  /\ changes \in [Name -> Opts] /\ deletes \in [Name -> SUBSET (Option \cup {"whole"})]
  /\ touched \subseteq Kind /\ newidx \in Nat
  /\ saving \in {"no", "sent", "saved", "ordering", "ordered"}
  /\ faults \in 0..MaxFaults /\ edits \in 0..MaxEdits
  \* An option is never both set and deleted, and what is deleted was loaded.
  /\ \A s \in Name, o \in Option : changes[s][o] # None => deletes[s] \cap {o, "whole"} = {}
  /\ \A s \in Name : deletes[s] # {} => s \in DOMAIN values /\ "deletes" \in touched

-----------------------------------------------------------------------------
(* What the page sees                                                      *)

Existing == {s \in DOMAIN values : "whole" \notin deletes[s]}

\* get(conf, sid, opt)
Get(s, o) ==
  IF s \in DOMAIN creates THEN creates[s].opts[o]
  ELSE IF o \in deletes[s] THEN None
  ELSE IF changes[s][o] # None THEN changes[s][o]
  ELSE values[s].opts[o]

IndexOf(s) == IF s \in DOMAIN creates THEN creates[s].index ELSE values[s].index

\* The members of S in the order of their '.index'.
Sorted(S) ==
  [i \in 1..Cardinality(S) |->
     CHOOSE s \in S : Cardinality({t \in S : IndexOf(t) < IndexOf(s)}) = i - 1]

\* The order of sections(conf).
Sections == Sorted(Existing \cup DOMAIN creates)

\* The record of s in the answer of sections(conf) lays the changes over what
\* was loaded.  It does not look at deletes: an option that was deleted is in it
\* until somebody looks at the section, see Merged.
Recorded(s) ==
  [o \in Option |->
     IF s \in DOMAIN creates THEN creates[s].opts[o]
     ELSE IF changes[s][o] # None THEN changes[s][o]
     ELSE values[s].opts[o]]

\* The document: what get(conf, sid, opt) says of the sections, in that order.
SectionOf(s) == [name |-> s, opts |-> [o \in Option |-> Get(s, o)]]

View ==
  LET sections == Sections
  IN [i \in DOMAIN sections |-> SectionOf(sections[i])]

\* get(conf, sid) hands out the loaded section after it has laid the changes
\* over it: the object it returns is the one in values.
Merged(S) ==
  [s \in DOMAIN values |->
     IF s \notin S \cap Existing THEN values[s]
     ELSE [values[s] EXCEPT !.opts = [o \in Option |-> Get(s, o)]]]

-----------------------------------------------------------------------------

Clean ==
  /\ values' = EmptyFunction /\ creates' = EmptyFunction
  /\ changes' = [s \in Name |-> Unset] /\ deletes' = [s \in Name |-> {}]

NoHistory == [erased |-> {}, relapsed |-> {}, failed |-> FALSE]

Closed ==
  /\ loaded = "no" /\ values = EmptyFunction /\ creates = EmptyFunction
  /\ changes = [s \in Name |-> Unset] /\ deletes = [s \in Name |-> {}]
  /\ touched = {} /\ newidx = 0
  /\ saving = "no" /\ order = <<>> /\ seen = <<>>
  /\ history = NoHistory

Init == device = Stored /\ faults = 0 /\ edits = 0 /\ Closed

\* loadPackage keeps the promise: a load that failed is not tried again.
Load ==
  /\ loaded = "no" /\ saving = "no"
  /\ loaded' = "asked"
  /\ UNCHANGED <<device, overlay, save, faults, edits, history>>

LoadAnswer ==
  /\ loaded = "asked"
  /\ loaded' = "here"
  /\ values' = [s \in NamesOf(device) |->
                  [opts |-> device[Position(device, s)].opts,
                   index |-> Position(device, s) - 1]]
  /\ history' = NoHistory
  /\ UNCHANGED <<device, creates, changes, deletes, touched, newidx, save, faults, edits>>

LoadFails ==
  /\ loaded = "asked" /\ faults < MaxFaults
  /\ loaded' = "failed" /\ faults' = faults + 1
  /\ UNCHANGED <<device, overlay, save, edits, history>>

\* The user opens the page anew.
Reopen ==
  /\ saving \in {"no", "sent", "saved"}
  /\ Clean
  /\ loaded' = "no" /\ touched' = {} /\ newidx' = 0
  /\ saving' = "no" /\ order' = <<>> /\ seen' = <<>>
  /\ history' = NoHistory
  /\ UNCHANGED <<device, faults, edits>>

-----------------------------------------------------------------------------
(* Edits                                                                   *)

Editing == loaded = "here" /\ saving = "no"

Edit ==
  /\ Editing /\ edits < MaxEdits
  /\ edits' = edits + 1
  /\ UNCHANGED <<device, loaded, save, faults>>

Create(opts) ==
  /\ creates' = [s \in DOMAIN creates \cup {newidx} |->
                   IF s = newidx THEN [opts |-> opts, index |-> NewIndex, name |-> None]
                   ELSE creates[s]]
  /\ newidx' = newidx + 1
  /\ touched' = touched \cup {"creates"}

Add ==
  /\ Edit /\ Create(Unset)
  /\ UNCHANGED <<values, changes, deletes, history>>

\* clone copies what was loaded, and nothing of a section that is new itself.
Clone(src) ==
  /\ Edit /\ src \in Existing \cup DOMAIN creates
  /\ Create(IF src \in DOMAIN values THEN values[src].opts ELSE Unset)
  /\ UNCHANGED <<values, changes, deletes, history>>

Remove(s) ==
  /\ Edit
  /\ \/ /\ s \in DOMAIN creates
        /\ creates' = [t \in DOMAIN creates \ {s} |-> creates[t]]
        /\ UNCHANGED <<changes, deletes, touched>>
     \/ /\ s \in Existing
        /\ changes' = [changes EXCEPT ![s] = Unset]
        /\ deletes' = [deletes EXCEPT ![s] = {"whole"}]
        /\ touched' = touched \cup {"deletes"}
        /\ UNCHANGED creates
  /\ UNCHANGED <<values, newidx, history>>

SetNew(s, o, v) ==
  /\ s \in DOMAIN creates
  /\ creates' = [creates EXCEPT ![s].opts[o] = v]
  /\ UNCHANGED <<changes, deletes, touched, history>>

SetLoaded(s, o, v) ==
  /\ s \in Existing /\ v # None
  /\ changes' = [changes EXCEPT ![s][o] = v]
  /\ deletes' = [deletes EXCEPT ![s] = @ \ {o}]
  /\ touched' = touched \cup {"changes"}
  /\ history' = [history EXCEPT !.relapsed = @ \cup ({<<s, o>>} \cap history.erased)]
  /\ UNCHANGED creates

\* Mutant: the other changes of the section go, too.
UnsetLoadedAll(s, o, v) ==
  /\ s \in Existing /\ v = None
  /\ changes' = [changes EXCEPT ![s] = Unset]
  /\ deletes' = [deletes EXCEPT ![s] = @ \cup {o}]
  /\ touched' = touched \cup {"deletes"}
  /\ UNCHANGED <<creates, history>>

UnsetLoaded(s, o, v) ==
  /\ s \in Existing /\ v = None
  /\ changes' = [changes EXCEPT ![s][o] = None]
  /\ IF values[s].opts[o] # None
       THEN /\ deletes' = [deletes EXCEPT ![s] = @ \cup {o}]
            /\ touched' = touched \cup {"deletes"}
       ELSE UNCHANGED <<deletes, touched>>
  /\ UNCHANGED <<creates, history>>

Set(s, o, v) ==
  /\ Edit
  /\ SetNew(s, o, v) \/ SetLoaded(s, o, v) \/ UnsetLoaded(s, o, v)
  /\ UNCHANGED <<values, newidx>>

\* What the page has deleted and then looked at is gone from values.
Forget(S) ==
  history' = [history EXCEPT !.erased =
                @ \cup {p \in (S \cap Existing) \X Option : p[2] \in deletes[p[1]]}]

\* Mutant: what has been laid over values is no longer a change.
LookAndDrop(s) ==
  /\ Editing /\ s \in Existing
  /\ values' = Merged({s})
  /\ changes' = [changes EXCEPT ![s] = Unset]
  /\ UNCHANGED <<device, loaded, creates, deletes, touched, newidx, save, faults, edits, history>>

Look(s) ==
  /\ Editing /\ s \in Existing
  /\ values' = Merged({s})
  /\ Forget({s})
  /\ UNCHANGED <<device, loaded, creates, changes, deletes, touched, newidx, save, faults, edits>>

Place(sections, s) == CHOOSE i \in DOMAIN sections : sections[i] = s

\* Every section is looked at to give it its new index.
Reindex(sections) ==
  LET place(s) == Place(sections, s) - 1
  IN /\ values' = [s \in DOMAIN values |->
                     IF s \in Existing THEN [Merged(Existing)[s] EXCEPT !.index = place(s)]
                     ELSE values[s]]
     /\ creates' = [s \in DOMAIN creates |-> [creates[s] EXCEPT !.index = place(s)]]
     /\ Forget(Existing)

\* Section s1 is taken out and put before or behind s2, or last if it is s2.
Spliced(sections, s1, s2, after) ==
  LET from == Place(sections, s1)
      rest == [i \in 1..(Len(sections) - 1) |-> sections[IF i < from THEN i ELSE i + 1]]
      at == IF s2 = s1 THEN Len(rest)
            ELSE Place(rest, s2) - (IF after THEN 0 ELSE 1)
  IN SubSeq(rest, 1, at) \o <<s1>> \o SubSeq(rest, at + 1, Len(rest))

\* move(conf, sid1, sid2, after); without sid2 the section goes to the end.
Move(s1, s2, after) ==
  /\ Edit
  /\ \E sections \in {Sections} : Reindex(Spliced(sections, s1, s2, after))
  /\ touched' = touched \cup {"reorder"}
  /\ UNCHANGED <<changes, deletes, newidx>>

-----------------------------------------------------------------------------
(* save()                                                                  *)

Save ==
  /\ Editing
  /\ saving' = "sent" /\ seen' = View
  /\ UNCHANGED <<device, loaded, overlay, order, faults, edits, history>>

\* The calls of the batch that delete and that set: one per section.
DeleteCalls == {s \in Name : deletes[s] # {}}

SetCalls == {s \in Name : changes[s] # Unset}

\* rpcd deletes and sets, for the sections D and C, and adds; an added section
\* gets a name of its own.
AfterDeletes(D) ==
  Selected(device, {i \in DOMAIN device :
                      device[i].name \notin D \/ "whole" \notin deletes[device[i].name]})

AfterSet(e, D, C) ==
  [e EXCEPT !.opts = [o \in Option |->
     IF e.name \in D /\ o \in deletes[e.name] THEN None
     ELSE IF e.name \in C /\ changes[e.name][o] # None THEN changes[e.name][o]
     ELSE @[o]]]

\* The numbers of creates count up, so they are the order of the calls.
AddCalls == Ascending(DOMAIN creates)

\* Names for n sections that config lacks.
FreshNames(config, n) ==
  CHOOSE names \in [1..n -> Name \ NamesOf(config)] : Distinct(names)

\* What the calls for the sections D, C and A leave.
AfterCalls(D, C, A) ==
  LET kept == AfterDeletes(D)
      added == Ascending(A)
      names == FreshNames(kept, Len(added))
  IN [i \in DOMAIN kept |-> AfterSet(kept[i], D, C)]
       \o [i \in DOMAIN added |-> [name |-> names[i], opts |-> creates[added[i]].opts]]

AfterBatch == AfterCalls(Name, Name, DOMAIN creates)

RpcdSaves ==
  /\ saving = "sent"
  /\ Cardinality(DOMAIN creates) <= Cardinality(Name \ NamesOf(device))
  /\ saving' = "saved" /\ device' = AfterBatch
  /\ UNCHANGED <<loaded, overlay, order, seen, faults, edits, history>>

\* Some calls of the batch fail, and save() with them: the page keeps its
\* overlays, also those of the calls that were carried out.
RpcdSavesInPart ==
  /\ saving = "sent" /\ faults < MaxFaults
  /\ Cardinality(DOMAIN creates) <= Cardinality(Name \ NamesOf(device))
  /\ \E D \in SUBSET DeleteCalls, C \in SUBSET SetCalls, A \in SUBSET DOMAIN creates :
       device' = AfterCalls(D, C, A)
  /\ saving' = "no" /\ faults' = faults + 1
  /\ order' = <<>> /\ seen' = <<>>
  /\ history' = [history EXCEPT !.failed = TRUE]
  /\ UNCHANGED <<loaded, overlay, edits>>

\* The answers come in the order of the calls, and the deletes come first:
\* they have no name to give.
Answers ==
  [i \in 1..Cardinality(DeleteCalls) |-> None]
    \o [i \in DOMAIN AddCalls |-> device[Len(device) - Len(AddCalls) + i].name]

\* Mutant: the created sections keep the names they had.
NamedAsBefore(s) == creates[s]

\* The created sections take the first answers for their names.
Named(s) ==
  [creates[s] EXCEPT !.name = Answers[Place(AddCalls, s)]]

\* reorderSections: a configuration something was deleted in is passed over.
ToOrder ==
  IF "reorder" \notin touched \/ "deletes" \in touched THEN <<>>
  ELSE LET all == Sorted(DOMAIN values \cup DOMAIN creates)
       IN [i \in DOMAIN all |->
             IF all[i] \in DOMAIN creates THEN Named(all[i]).name ELSE all[i]]

Answered ==
  /\ saving = "saved"
  /\ saving' = (IF ToOrder = <<>> THEN "ordered" ELSE "ordering")
  /\ order' = ToOrder
  /\ creates' = [s \in DOMAIN creates |-> Named(s)]
  /\ UNCHANGED <<device, loaded, values, changes, deletes, touched, newidx,
                 seen, faults, edits, history>>

\* rpcd moves the sections to their places, and skips a name it does not know;
\* the last place counts.
Ordered(config, names) ==
  LET last == {i \in DOMAIN names : /\ names[i] \in NamesOf(config)
                                   /\ \A j \in DOMAIN names : j > i => names[j] # names[i]}
      placed == Selected(names, last)
      others == {i \in DOMAIN config : \A j \in last : names[j] # config[i].name}
  IN [i \in DOMAIN placed |-> config[Position(config, placed[i])]] \o Selected(config, others)

RpcdOrders ==
  /\ saving = "ordering"
  /\ saving' = "ordered" /\ device' = Ordered(device, order)
  /\ UNCHANGED <<loaded, overlay, order, seen, faults, edits, history>>

\* unload and load.  A page that has changed nothing keeps what it has.
Finish ==
  /\ saving = "ordered"
  /\ saving' = "no" /\ order' = <<>> /\ seen' = <<>>
  /\ IF touched = {} THEN UNCHANGED <<loaded, overlay>>
     ELSE /\ Clean
          /\ loaded' = "asked" /\ touched' = {} /\ UNCHANGED newidx
  /\ UNCHANGED <<device, faults, edits, history>>

\* The request or its answer is lost, or every call fails.  The page keeps its
\* overlays; the moves are forgotten once the batch was answered.
SaveFails ==
  /\ saving \in {"sent", "saved", "ordering"} /\ faults < MaxFaults
  /\ saving' = "no" /\ faults' = faults + 1
  /\ order' = <<>> /\ seen' = <<>>
  /\ touched' = (IF saving = "ordering" THEN touched \ {"reorder"} ELSE touched)
  /\ history' = [history EXCEPT !.failed = TRUE]
  /\ UNCHANGED <<device, loaded, values, creates, changes, deletes, newidx, edits>>

-----------------------------------------------------------------------------

EditStep ==
  \/ Add
  \/ \E s \in Existing \cup DOMAIN creates : Clone(s) \/ Remove(s) \/ Look(s)
  \/ \E s \in Existing \cup DOMAIN creates, o \in Option, v \in Val \cup {None} : Set(s, o, v)
  \/ \E s1, s2 \in Existing \cup DOMAIN creates, after \in BOOLEAN : Move(s1, s2, after)

SaveStep ==
  \/ Save \/ RpcdSaves \/ RpcdSavesInPart \/ Answered \/ RpcdOrders \/ Finish
  \/ SaveFails

Next == Load \/ LoadAnswer \/ LoadFails \/ Reopen \/ EditStep \/ SaveStep

Spec == Init /\ [][Next]_vars

-----------------------------------------------------------------------------
(* Properties                                                              *)

Document ==
  INSTANCE UciDocument WITH
    read <- loaded = "here",
    doc <- IF loaded = "here" THEN View ELSE <<>>

\* The overlays are a document: only an edit changes what get(conf, sid, opt)
\* says of the sections that sections() lists, or their order, and an edit
\* changes what it says.  Looking at a section, saving, and a save that fails
\* do not.  This is not so of the records sections() hands out, see Recorded.
IsDocument == Document!Spec

ContentsOf(config) == [i \in DOMAIN config |-> config[i].opts]

\* As many sections have these options in one configuration as in the other.
SameSections(c1, c2) ==
  \A opts \in {c1[i].opts : i \in DOMAIN c1} \cup {c2[i].opts : i \in DOMAIN c2} :
    Cardinality({i \in DOMAIN c1 : c1[i].opts = opts})
      = Cardinality({i \in DOMAIN c2 : c2[i].opts = opts})

Finishes == saving = "ordered" /\ saving' = "no"

\* When save() is through, the device has what the page showed, in some order.
\* Not after a save that failed, which is carried out once more, and not with an
\* option that was deleted, looked at, set and deleted again: values has lost
\* it, so set() sees nothing to delete.
SavedAsSeen ==
  [][Finishes /\ ~history.failed /\ history.relapsed = {} => SameSections(seen, device)]_vars

\* If nothing was deleted, and no save has failed before, the sections are also
\* in the order the page showed.
SavedInOrder ==
  [][Finishes /\ ~history.failed /\ "deletes" \notin touched
       => ContentsOf(seen) = ContentsOf(device)]_vars

=============================================================================
