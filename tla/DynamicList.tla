------------------------------ MODULE DynamicList ------------------------------
(***************************************************************************)
(* ui.js, UIDynamicList: a list of values the user adds to, removes from   *)
(* and drags into another order.  Values come from a combobox, which does  *)
(* not offer again what was picked, or from a text field.                  *)
(*                                                                         *)
(* The drag handlers keep the item that is dragged in a variable that a    *)
(* drop with the mouse does not reset; the item may have been removed      *)
(* meanwhile.  A finger also leaves a placeholder among the items.         *)
(*                                                                         *)
(* Simplification.  What is typed is valid; labels are left out.           *)
(***************************************************************************)
EXTENDS Naturals, Sequences, FiniteSets

Seqs == INSTANCE SequencesExt
Order == INSTANCE InOrder

CONSTANTS
  ListValue, \* values of the list
  Offered,   \* choices of the combobox
  MaxItems   \* bound on the items and placeholders

VARIABLES
  combobox, \* whether there are choices
  entries,  \* the items and placeholders, in order
  loose,    \* value of the dragged item, when it has been removed
  choices,  \* for each value, its item in the combobox
  touching  \* whether a finger has put a placeholder that is still looked after

listVars == <<combobox, entries, loose, choices, touching>>

None == "none"

\* "dragged" is the item in draggedItem, "mark" the placeholder, "stray" a
\* placeholder nothing refers to any more.
Entry == [value : ListValue, as : {"item", "dragged"}] \cup [value : {None}, as : {"mark", "stray"}]

IsItem(e) == e.value # None

ListTypeOK ==
  /\ combobox \in BOOLEAN /\ touching \in BOOLEAN
  /\ entries \in Seq(Entry) /\ loose \in ListValue \cup {None}
  /\ choices \in [ListValue -> {None, "free", "taken", "custom"}]
  /\ Cardinality({i \in DOMAIN entries : entries[i].as = "dragged"}) <= 1
  /\ loose # None => \A i \in DOMAIN entries : entries[i].as # "dragged"
  /\ touching = (\E i \in DOMAIN entries : entries[i].as = "mark")

Holds(es, v) == \E i \in DOMAIN es : es[i].value = v

\* addItem does not add a value that is there.
AddItem(es, v) == IF Holds(es, v) THEN es ELSE Append(es, [value |-> v, as |-> "item"])

\* Of several values each one that is not there by then.
AddItems(es, vs) ==
  es \o Order!Selected([i \in DOMAIN vs |-> [value |-> vs[i], as |-> "item"]],
                       {i \in DOMAIN vs : ~Holds(es, vs[i]) /\ \A j \in DOMAIN vs : vs[j] = vs[i] => i <= j})

OrderedOnce == {vs \in UNION {[1..n -> ListValue] : n \in 0..2} : Len(vs) = 2 => vs[1] # vs[2]}

ListInit ==
  /\ combobox \in BOOLEAN
  /\ \E vs \in OrderedOnce : entries = AddItems(<<>>, vs)
  /\ choices = [v \in ListValue |-> IF combobox /\ v \in Offered THEN "free" ELSE None]
  /\ loose = None /\ touching = FALSE

-----------------------------------------------------------------------------
(* Adding and removing                                                     *)

\* handleDropdownChange: what was picked is taken, whether it is added or not.
HandleDropdownChange(v, custom) ==
  /\ choices' = [choices EXCEPT ![v] = custom]
  /\ entries' = AddItem(entries, v)
  /\ UNCHANGED <<combobox, loose, touching>>

Pick(v) == choices[v] = "free" /\ HandleDropdownChange(v, "taken")

CreateIn(v) == combobox /\ choices[v] = None /\ HandleDropdownChange(v, "custom")

AddText(v) ==
  /\ ~combobox
  /\ entries' = AddItem(entries, v)
  /\ UNCHANGED <<combobox, loose, choices, touching>>

\* The combobox offers a value again; one the user made up leaves it.
Released(vs) ==
  [v \in ListValue |-> IF v \notin vs \/ choices[v] = None THEN choices[v]
                       ELSE IF choices[v] = "custom" THEN None ELSE "free"]

\* A dragged item that is removed is still what draggedItem refers to.
Loosened(removed) ==
  IF \E e \in removed : e.as = "dragged" THEN (CHOOSE e \in removed : e.as = "dragged").value
  ELSE loose

RemoveItem(i) ==
  /\ IsItem(entries[i])
  /\ choices' = Released({entries[i].value})
  /\ loose' = Loosened({entries[i]})
  /\ entries' = Seqs!RemoveAt(entries, i)
  /\ UNCHANGED <<combobox, touching>>

SetValue(vs) ==
  LET removed == {entries[i] : i \in {j \in DOMAIN entries : IsItem(entries[j])}}
  IN /\ choices' = Released({e.value : e \in removed})
     /\ loose' = Loosened(removed)
     /\ entries' = AddItems(Order!Selected(entries, {i \in DOMAIN entries : ~IsItem(entries[i])}), vs)
     /\ UNCHANGED <<combobox, touching>>

ClearChoices ==
  /\ combobox /\ choices' = [v \in ListValue |-> None]
  /\ UNCHANGED <<combobox, entries, loose, touching>>

AddChoices ==
  /\ combobox
  /\ choices' = [v \in ListValue |-> IF v \in Offered /\ choices[v] = None THEN "free" ELSE choices[v]]
  /\ UNCHANGED <<combobox, entries, loose, touching>>

-----------------------------------------------------------------------------
(* Dragging                                                                *)

Dragged(es, i) ==
  [j \in DOMAIN es |->
     [es[j] EXCEPT !.as = IF j = i THEN "dragged" ELSE IF @ = "dragged" THEN "item" ELSE @]]

DragStart(i) ==
  /\ IsItem(entries[i])
  /\ entries' = Dragged(entries, i) /\ loose' = None
  /\ UNCHANGED <<combobox, choices, touching>>

DraggedEntry ==
  IF loose # None THEN {[value |-> loose, as |-> "dragged"]}
  ELSE {entries[i] : i \in {j \in DOMAIN entries : entries[j].as = "dragged"}}

\* insertBefore takes the item from where it is.  Entry i is the one it is put
\* before; after the last one is the field.
Moved(e, i) ==
  Order!Selected(entries, {j \in DOMAIN entries : j < i /\ entries[j] # e})
    \o <<e>> \o Order!Selected(entries, {j \in DOMAIN entries : j >= i /\ entries[j] # e})

\* Anything may be dropped on the list: what is put there is draggedItem.
Drop(i) ==
  /\ i \in DOMAIN entries => IsItem(entries[i])
  /\ loose # None => Len(entries) < MaxItems
  /\ \E e \in DraggedEntry : entries' = Moved(e, i)
  /\ loose' = None
  /\ UNCHANGED <<combobox, choices, touching>>

\* The placeholder is put behind the item.  One that is there is forgotten.
TouchStart(i) ==
  /\ IsItem(entries[i]) /\ Len(entries) < MaxItems
  /\ LET es == [j \in DOMAIN entries |->
                  IF entries[j].as = "mark" THEN [entries[j] EXCEPT !.as = "stray"] ELSE entries[j]]
     IN entries' = Seqs!InsertAt(Dragged(es, i), i + 1, [value |-> None, as |-> "mark"])
  /\ loose' = None /\ touching' = TRUE
  /\ UNCHANGED <<combobox, choices>>

Mark == [value |-> None, as |-> "mark"]

TouchMove(i) ==
  /\ touching /\ IsItem(entries[i]) /\ entries[i].as # "dragged"
  /\ \E after \in {0, 1} : entries' = Moved(Mark, i + after)
  /\ UNCHANGED <<combobox, loose, choices, touching>>

\* The placeholder goes, and the item is no longer dragged.
Settled(es, e) ==
  LET rest == Order!Selected(es, {j \in DOMAIN es : es[j] # Mark})
  IN [j \in DOMAIN rest |-> IF rest[j] = e THEN [rest[j] EXCEPT !.as = "item"] ELSE rest[j]]

\* Without draggedItem, which only a touch resets, there is no placeholder.
TouchEnd ==
  /\ touching
  /\ \E e \in DraggedEntry, i \in DOMAIN entries :
       entries[i].as = "mark" /\ entries' = Settled(Moved(e, i), e)
  /\ loose' = None /\ touching' = FALSE
  /\ UNCHANGED <<combobox, choices>>

ListNext ==
  \/ \E v \in ListValue : Pick(v) \/ CreateIn(v) \/ AddText(v)
  \/ \E i \in DOMAIN entries : RemoveItem(i) \/ DragStart(i) \/ TouchStart(i) \/ TouchMove(i)
  \/ \E i \in 1..(Len(entries) + 1) : Drop(i)
  \/ \E vs \in OrderedOnce : SetValue(vs)
  \/ ClearChoices \/ AddChoices \/ TouchEnd

ListSpec == ListInit /\ [][ListNext]_listVars

-----------------------------------------------------------------------------
(* Properties                                                              *)

OnceEach(es) == \A i, j \in DOMAIN es : es[i].value = es[j].value /\ IsItem(es[i]) => i = j

\* Of a step: no value gets into the list twice, unless an item that was removed while
\* it was the dragged one is dropped back into it.
OnceUnlessDropped == OnceEach(entries) /\ ~OnceEach(entries') => loose # None

\* What the combobox does not offer any more is in the list, or was dropped in
\* and taken out of it: no value is out of reach.
TakenAreListed ==
  \A v \in ListValue : choices[v] \in {"taken", "custom"} => Holds(entries, v)

-----------------------------------------------------------------------------
(* Why                                                                     *)

EntriesFit ==
  /\ combobox \in BOOLEAN /\ entries \in Seq(Entry) /\ loose \in ListValue \cup {None}
  /\ choices \in [ListValue -> {None, "free", "taken", "custom"}]
  /\ TakenAreListed

=============================================================================
