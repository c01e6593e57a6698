----------------------------- MODULE UciDocument -----------------------------
(***************************************************************************)
(* What uci.js promises a page: the page edits a document, a sequence of   *)
(* sections, that is a copy of a configuration of the device.  Nothing but *)
(* an edit changes what the page sees of it, and a document that is read   *)
(* again is the configuration of the device.                               *)
(***************************************************************************)
EXTENDS Naturals, Sequences

CONSTANTS
  Option,
  Val,
  None

VARIABLES
  read,   \* whether the page has the document
  doc,    \* its sections, as the page sees them
  device  \* the sections of the device

Init == ~read /\ doc = <<>>

SetOption(old, new) ==
  \E i \in DOMAIN old, o \in Option, v \in Val \cup {None} :
    new = [old EXCEPT ![i].opts[o] = v]

\* A new section comes last, whether it is empty or a copy.
AddSection(old, new) ==
  /\ Len(new) = Len(old) + 1
  /\ SubSeq(new, 1, Len(old)) = old
  /\ \A i \in DOMAIN old : old[i].name # new[Len(new)].name

Without(old, i) == [j \in 1..(Len(old) - 1) |-> old[IF j < i THEN j ELSE j + 1]]

RemoveSection(old, new) == \E i \in DOMAIN old : new = Without(old, i)

\* Section i goes where j is, or behind all the others.
MoveSection(old, new) ==
  \E i, j \in DOMAIN old :
    new = SubSeq(Without(old, i), 1, j - 1) \o <<old[i]>>
            \o SubSeq(Without(old, i), j, Len(old) - 1)

Edits(old, new) ==
  \/ new = old
  \/ AddSection(old, new) \/ RemoveSection(old, new)
  \/ SetOption(old, new) \/ MoveSection(old, new)

Edit == read /\ read' /\ \E old \in {doc}, new \in {doc'} : Edits(old, new)

Show == ~read /\ read' /\ doc' = device

Hide == ~read' /\ doc' = <<>>

Next ==
  \/ (Edit \/ Show \/ Hide) /\ UNCHANGED device
  \/ UNCHANGED <<read, doc>>

Spec == Init /\ [][Next]_<<read, doc, device>>

=============================================================================
