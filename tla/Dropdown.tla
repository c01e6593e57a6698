------------------------------- MODULE Dropdown -------------------------------
(***************************************************************************)
(* ui.js, UIDropdown and the classes made from it: a list of items of      *)
(* which one or several are selected, and the hidden inputs that hold what *)
(* the form reads.                                                         *)
(*                                                                         *)
(* The items are elements of the page that choices are added to and        *)
(* removed from; the inputs are made anew only when saveValues runs.       *)
(*                                                                         *)
(* Simplifications.  The item with the text field is not among the items,  *)
(* though it is selected where it is the only one: no click can pick it.   *)
(* Position, focus and preview are left out.                               *)
(***************************************************************************)
EXTENDS Naturals, Sequences, FiniteSets

Seqs == INSTANCE SequencesExt
Order == INSTANCE InOrder

CONSTANTS
  Choice,  \* values that are offered at the start, in their order
  Typed    \* values the user types in

DropValue == {Choice[i] : i \in DOMAIN Choice} \cup Typed

Placeholder == "placeholder"

\* The value of the item with the text field.
TextField == "-"

VARIABLES
  kind,    \* options.multiple, .optional and .create
  box,     \* items in their order, the selected ones, the created one, the inputs
  dropOpen \* attribute open

dropVars == <<kind, box, dropOpen>>

None == "none"

InBox(b) == {b.items[i] : i \in DOMAIN b.items}

DropTypeOK ==
  /\ kind \in [multiple : BOOLEAN, optional : BOOLEAN, create : BOOLEAN]
  /\ InBox(box) \subseteq DropValue \cup {Placeholder} /\ box.selected \subseteq InBox(box) \cup {TextField}
  /\ box.created \in InBox(box) \cup {None}
  /\ box.hidden \subseteq DropValue \cup {TextField}
  /\ ~kind.multiple => Cardinality(box.selected) <= 1 /\ Cardinality(box.hidden) <= 1
  /\ dropOpen \in BOOLEAN

\* saveValues: the placeholder has no input.
Saved(b) == [b EXCEPT !.hidden = b.selected \ {Placeholder}]

\* render and bind.  Where items can be created, values that are no choices are
\* items too.  Without several values the first selected item is it, or the
\* first item: the one with the text field, if there is no other.
Bound(choices, values) ==
  LET others == IF kind.create THEN Seqs!SetToSeq(values \ {choices[i] : i \in DOMAIN choices}) ELSE <<>>
      items == (IF ~kind.multiple /\ kind.optional THEN <<Placeholder>> ELSE <<>>) \o choices \o others
      wanted == {i \in DOMAIN items : items[i] \in values}
      first == {i \in wanted : \A j \in wanted : i <= j}
      chosen == IF kind.multiple THEN wanted ELSE IF first = {} THEN {1} \cap DOMAIN items ELSE first
      field == IF kind.create /\ ~kind.multiple /\ items = <<>> THEN {TextField} ELSE {}
  IN Saved([items |-> items, selected |-> {items[i] : i \in chosen} \cup field, created |-> None, hidden |-> {}])

DropInit ==
  /\ kind \in [multiple : BOOLEAN, optional : BOOLEAN, create : BOOLEAN]
  /\ \E choices \in {<<>>, Choice}, values \in SUBSET DropValue : box = Bound(choices, values)
  /\ dropOpen = FALSE

-----------------------------------------------------------------------------
(* What the methods do to the items                                        *)

\* Of several values the last one that is selected stays, if one has to.
MayDrop(b) == kind.optional \/ Cardinality(b.selected) > 1

\* toggleItem with a force_state of "on", "off" or neither.
ToggleItem(b, it, force) ==
  IF ~kind.multiple THEN Saved([b EXCEPT !.selected = {it}])
  ELSE IF it \in b.selected
    THEN Saved([b EXCEPT !.selected = IF force # "on" /\ MayDrop(b) THEN @ \ {it} ELSE @])
    ELSE Saved([b EXCEPT !.selected = IF force # "off" THEN @ \cup {it} ELSE @])

Without(b, gone) ==
  [b EXCEPT !.items = Order!Selected(@, {i \in DOMAIN @ : @[i] \notin gone}), !.selected = @ \ gone,
            !.created = IF @ \in gone THEN None ELSE @]

\* createItems of one value: where one is held, the item created before goes.
CreateItem(b, v) ==
  IF v \in InBox(b) THEN ToggleItem(b, v, "on")
  ELSE LET old == IF kind.multiple THEN {} ELSE {b.created}
           new == [Without(b, old) EXCEPT !.items = Append(@, v),
                                          !.created = IF kind.multiple THEN @ ELSE v]
       IN ToggleItem(new, v, "on")

\* createItems, one after the other: all of them are selected.
Created(b, vs) ==
  IF ~kind.create \/ vs = {} THEN b
  ELSE IF kind.multiple
    THEN Saved([b EXCEPT !.items = @ \o Seqs!SetToSeq(vs \ InBox(b)), !.selected = @ \cup vs])
    ELSE CreateItem(b, CHOOSE v \in vs : TRUE)

\* When items are taken from the selection in their order, the last one stays
\* if one has to, unless a value that is wanted came before it.
LastStays(b, vs) ==
  {b.items[i] : i \in {j \in DOMAIN b.items :
     /\ ~kind.optional /\ b.items[j] \in b.selected
     /\ \A k \in DOMAIN b.items :
          /\ b.items[k] \in b.selected => k <= j
          /\ b.items[k] \in vs => j < k}}

\* setValues: each item is toggled in turn, the placeholder first.
SetValues(b, vs) ==
  LET c == Created(b, vs)
      wanted == vs \cap InBox(c)
      chosen == IF kind.multiple THEN wanted \cup LastStays(c, vs)
                ELSE IF wanted = {} THEN {Placeholder} \cap InBox(c) ELSE wanted
  IN IF InBox(c) = {} \/ (~kind.multiple /\ chosen = {}) THEN c
     ELSE Saved([c EXCEPT !.selected = chosen])

-----------------------------------------------------------------------------

OpenDropdown ==
  /\ ~dropOpen /\ dropOpen' = TRUE
  /\ UNCHANGED <<kind, box>>

CloseDropdown ==
  /\ dropOpen /\ dropOpen' = FALSE
  /\ box' = Saved(box) /\ UNCHANGED kind

\* A click on an item, the space key or an event: one value closes the list.
Pick(it) ==
  /\ dropOpen /\ it \in InBox(box)
  /\ box' = ToggleItem(box, it, "")
  /\ dropOpen' = kind.multiple /\ UNCHANGED kind

\* The enter key selects, never the other way round.
PickByEnter(it) ==
  /\ dropOpen /\ it \in InBox(box)
  /\ box' = IF it \in box.selected THEN Saved(box) ELSE ToggleItem(box, it, "")
  /\ dropOpen' = FALSE /\ UNCHANGED kind

TypeItem(v) ==
  /\ dropOpen /\ kind.create
  /\ box' = CreateItem(box, v)
  /\ dropOpen' = kind.multiple /\ UNCHANGED kind

\* One value is given at most where one is held; an item that is toggled then
\* closes the list.
SetValue(vs) ==
  /\ kind.multiple \/ Cardinality(vs) <= 1
  /\ box' = SetValues(box, vs)
  /\ dropOpen' = (dropOpen /\ (kind.multiple \/ InBox(box') \cap (vs \cup {Placeholder}) = {}))
  /\ UNCHANGED kind

\* clearChoices: without reset_value the items of the value stay.  After it,
\* there may be no item left to be toggled, and then nothing saves the values.
ClearChoices(reset) ==
  LET kept == IF reset THEN {} ELSE box.hidden
      left == Without(box, InBox(box) \ (kept \cup {Placeholder}))
      toggles == reset /\ Placeholder \in InBox(left)
  IN /\ box' = IF toggles THEN ToggleItem(left, Placeholder, "") ELSE left
     /\ dropOpen' = (dropOpen /\ ~toggles) /\ UNCHANGED kind

\* addChoices: before the last item, which is the one with the text field only
\* where there is one.
AddChoices(vs) ==
  LET n == IF kind.create \/ box.items = <<>> THEN Len(box.items) ELSE Len(box.items) - 1
  IN /\ box' = [box EXCEPT !.items = SubSeq(@, 1, n) \o Seqs!SetToSeq(vs \ InBox(box)) \o SubSeq(@, n + 1, Len(@))]
     /\ UNCHANGED <<kind, dropOpen>>

DropNext ==
  \/ OpenDropdown \/ CloseDropdown
  \/ \E it \in InBox(box) : Pick(it) \/ PickByEnter(it)
  \/ \E v \in Typed : TypeItem(v)
  \/ \E vs \in SUBSET DropValue : SetValue(vs) \/ AddChoices(vs)
  \/ \E reset \in BOOLEAN : ClearChoices(reset)

DropSpec == DropInit /\ [][DropNext]_dropVars

-----------------------------------------------------------------------------
(* Properties                                                              *)

\* What the form reads is what is selected, wherever something is.  (With all
\* choices cleared, several values, or one that is not optional, outlive their
\* items.)
HiddenIsSelected ==
  box.selected # {} => box.hidden = box.selected \ {Placeholder}

\* Of a step: a dropdown that is not optional, and whose value is selected, is
\* not left without one, whatever the user does and whatever choices come and go.
KeepsAValue == ~kind.optional /\ box.selected # {} => box.hidden' # {}

-----------------------------------------------------------------------------
(* Why                                                                     *)

\* What is selected is among the items, or the text field of a dropdown with one
\* value; and only a dropdown that may hold no value has a placeholder.
BoxTypes ==
  /\ kind \in [multiple : BOOLEAN, optional : BOOLEAN, create : BOOLEAN]
  /\ box \in [items : Seq(DropValue \cup {Placeholder}), selected : SUBSET (DropValue \cup {Placeholder, TextField}),
              created : DropValue \cup {Placeholder, None}, hidden : SUBSET (DropValue \cup {TextField})]
  /\ box.selected \subseteq InBox(box) \cup {TextField}
  /\ TextField \in box.selected => ~kind.multiple /\ box.selected = {TextField}
  /\ Placeholder \in InBox(box) => ~kind.multiple /\ kind.optional

BoxFits == BoxTypes /\ HiddenIsSelected

=============================================================================
