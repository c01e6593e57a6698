------------------------------ MODULE GridRows ------------------------------
(***************************************************************************)
(* GridSection of form.js: a table with a row for each section of a type,  *)
(* that are dragged, added, cloned, removed, and edited in a dialog.       *)
(*                                                                         *)
(* A dialog is built with what its options load, which takes its time; the *)
(* section that Add makes is remembered (addedSection) and removed when a  *)
(* dialog is dismissed.  A save writes the cache to the device and reads   *)
(* it again, which gives the section that was added another name; then the *)
(* right to write is asked for and the options are loaded, the rows are    *)
(* drawn again, and the dialog is closed.  Any of this can be cut off.     *)
(* A click on a heading sorts nothing: handleSort looks for rows in the    *)
(* head of the table, which has none.                                      *)
(*                                                                         *)
(* Simplifications.  Dialogs are not stacked.  What is edited in a dialog  *)
(* is FormFields' concern, and what is left of a save of which only a part *)
(* gets through is UciCache's: here it is sent as a whole.  One save at a  *)
(* time.  A section keeps its name here; those whose name is one the page  *)
(* has made up are in fresh.                                               *)
(***************************************************************************)
EXTENDS Naturals, Sequences

CONSTANTS
  Section,  \* names of sections
  AtFirst,  \* the sections there are, in order
  MaxClicks \* what the user does

None == "none"

VARIABLES
  sections, \* of the cache, in order
  rows,     \* of the table, in order
  added,    \* addedSection
  opening,  \* dialogs that are being built, by section
  open,     \* the section in the dialog
  saving,   \* the save on its way: of "dialog" or "page", how far it is, and what it sent
  drag,     \* dragState: the row, and the one it is over
  fresh,    \* sections that were added and have not been saved
  loaded,   \* whether the cache could be read
  used,     \* names taken so far
  wanted,   \* sections that were there, cloned or saved in a dialog, and not removed
  clicks,
  trouble   \* a dialog or save that was refused, saves cut off, dialogs and saves that crossed

cacheVars == <<sections, fresh, loaded>>
gridVars == <<cacheVars, rows, added, opening, open, saving, drag, used, wanted, clicks, trouble>>

NoSave == [of |-> None, step |-> None, sent |-> <<>>]
NoDrag == [node |-> None, target |-> None, below |-> FALSE]

ToSet(list) == {list[i] : i \in DOMAIN list}

IsInjective(list) == \A i, j \in DOMAIN list : list[i] = list[j] => i = j

GridTypeOK ==
  /\ sections \in Seq(Section) /\ rows \in Seq(Section)
  /\ IsInjective(sections) /\ IsInjective(rows)
  /\ added \in Section \cup {None} /\ opening \subseteq Section /\ open \in Section \cup {None}
  /\ saving \in [of : {None, "page", "dialog"}, step : {None, "sent", "served", "drawn"}, sent : Seq(Section)]
  /\ drag \in [node : Section \cup {None}, target : Section \cup {None}, below : BOOLEAN]
  /\ fresh \subseteq Section /\ loaded \in BOOLEAN
  /\ wanted \subseteq used /\ trouble \subseteq {"refused", "cut", "unread", "crossed"}

GridInit ==
  /\ sections = AtFirst /\ rows = AtFirst /\ added = None /\ opening = {} /\ open = None
  /\ saving = NoSave /\ drag = NoDrag /\ fresh = {} /\ loaded = TRUE
  /\ used = ToSet(AtFirst) /\ wanted = used /\ clicks = 0 /\ trouble = {}

Click == clicks < MaxClicks /\ clicks' = clicks + 1

Busy == opening # {} \/ open # None \/ saving # NoSave

Troubled(what, yes) == trouble' = IF yes THEN trouble \cup {what} ELSE trouble

-----------------------------------------------------------------------------
(* Order                                                                   *)

Place(list, s) == CHOOSE i \in DOMAIN list : list[i] = s

Without(list, s) ==
  IF s \notin ToSet(list) THEN list
  ELSE [k \in 1..(Len(list) - 1) |-> list[IF k < Place(list, s) THEN k ELSE k + 1]]

\* s is taken out and put where t is, or behind it; those in between move up, or
\* down.
Placed(list, s, t, below) ==
  LET from == Place(list, s)
      to == Place(list, t) + (IF below THEN 1 ELSE 0) - (IF from < Place(list, t) THEN 1 ELSE 0)
  IN [k \in DOMAIN list |-> list[IF k = to THEN from
                                 ELSE IF from <= k /\ k < to THEN k + 1
                                 ELSE IF to < k /\ k <= from THEN k - 1
                                 ELSE k]]

\* uci.move: nothing, if one of the two is gone, or they are the same.
Moved(list, s, t, below) ==
  IF s # t /\ {s, t} \subseteq ToSet(list) THEN Placed(list, s, t, below) ELSE list

\* insertBefore of the row: before the target, or before the next one.
RowMoved(list, s, t, below) == IF s = t THEN list ELSE Placed(list, s, t, below)

HandleDragStart(s) ==
  /\ open = None /\ s \in ToSet(rows)
  /\ drag' = [drag EXCEPT !.node = s]
  /\ UNCHANGED <<cacheVars, rows, added, opening, open, saving, used, wanted, clicks, trouble>>

HandleDragOver(t, below) ==
  /\ drag.node # None /\ t \in ToSet(rows)
  /\ drag' = [drag EXCEPT !.target = t, !.below = below]
  /\ UNCHANGED <<cacheVars, rows, added, opening, open, saving, used, wanted, clicks, trouble>>

\* The row goes, and so does its section, if there is a cache.
Reorder ==
  /\ drag.target # None /\ {drag.node, drag.target} \subseteq ToSet(rows) /\ Click
  /\ rows' = RowMoved(rows, drag.node, drag.target, drag.below)
  /\ sections' = IF loaded THEN Moved(sections, drag.node, drag.target, drag.below) ELSE sections
  /\ drag' = NoDrag
  /\ Troubled("crossed", saving # NoSave)
  /\ UNCHANGED <<fresh, loaded, added, opening, open, saving, used, wanted>>

HandleDrop == Reorder

\* On a touch screen the finger finds the row it is over.
HandleTouchMove(s, t, below) ==
  /\ open = None /\ {s, t} \subseteq ToSet(rows) /\ drag.node \in {s, None}
  /\ drag' = [node |-> s, target |-> t, below |-> below]
  /\ UNCHANGED <<cacheVars, rows, added, opening, open, saving, used, wanted, clicks, trouble>>

HandleTouchEnd == Reorder

-----------------------------------------------------------------------------
(* Sections and saves                                                      *)

\* handleRemove and handleClone change the cache and save it.
SavePage(new) ==
  /\ open = None /\ saving = NoSave /\ Click
  /\ sections' = new /\ saving' = [of |-> "page", step |-> "sent", sent |-> new]
  /\ Troubled("crossed", opening # {})
  /\ UNCHANGED <<fresh, loaded, rows, added, opening, open, drag>>

HandleRemove(s) ==
  /\ s \in ToSet(rows)
  /\ SavePage(IF loaded THEN Without(sections, s) ELSE sections)
  /\ wanted' = wanted \ {s} /\ UNCHANGED used

HandleClone(s, new, next) ==
  /\ loaded /\ s \in ToSet(rows) /\ s \in ToSet(sections) /\ new \notin used
  /\ SavePage(IF next THEN Placed(Append(sections, new), new, s, TRUE) ELSE Append(sections, new))
  /\ used' = used \cup {new} /\ wanted' = wanted \cup {new}

\* Of a cache that could not be read nothing is sent but what was added since.
Written ==
  /\ saving.step = "sent" /\ (loaded \/ fresh \cap ToSet(saving.sent) # {})
  /\ sections' = saving.sent /\ fresh' = {}
  /\ wanted' = IF saving.of = "dialog" THEN wanted \cup ({open} \ {None}) ELSE wanted
  /\ UNCHANGED <<rows, added, opening, open, drag, used, clicks>>

\* uci.save: the cache is written and read again.
SaveServed ==
  /\ Written
  /\ loaded' = TRUE /\ saving' = [saving EXCEPT !.step = "served"]
  /\ UNCHANGED trouble

\* It is written, but cannot be read again.
SaveUnread ==
  /\ Written
  /\ loaded' = FALSE /\ saving' = NoSave
  /\ Troubled("unread", TRUE)

\* A field is refused, or the device cannot be reached.
SaveRefused ==
  /\ saving.step = "sent" /\ saving' = NoSave
  /\ Troubled("refused", saving.of = "page")
  /\ UNCHANGED <<cacheVars, rows, added, opening, open, drag, used, wanted, clicks>>

\* It is written, but what is needed to draw it again cannot be loaded: nothing
\* is drawn, and a dialog stays open.
SaveCut ==
  /\ saving.step = "served" /\ saving' = NoSave
  /\ Troubled("cut", TRUE)
  /\ UNCHANGED <<cacheVars, rows, added, opening, open, drag, used, wanted, clicks>>

\* The rows that were drawn are gone, and drawn again.
Redraw ==
  /\ saving.step = "served"
  /\ rows' = sections /\ drag' = NoDrag
  /\ saving' = IF saving.of = "page" THEN NoSave ELSE [saving EXCEPT !.step = "drawn"]
  /\ UNCHANGED <<cacheVars, added, opening, open, used, wanted, clicks, trouble>>

-----------------------------------------------------------------------------
(* Dialogs                                                                 *)

RenderMoreOptionsModal(s) ==
  /\ open = None /\ Click
  /\ opening' = opening \cup {s}
  /\ Troubled("crossed", Busy)
  /\ UNCHANGED <<loaded, rows, open, saving, drag, wanted>>

HandleAdd(s) ==
  /\ s \notin used
  /\ sections' = Append(sections, s) /\ fresh' = fresh \cup {s}
  /\ added' = s /\ used' = used \cup {s}
  /\ RenderMoreOptionsModal(s)

HandleEdit(s) ==
  /\ loaded /\ s \in ToSet(rows) /\ s \in ToSet(sections)
  /\ RenderMoreOptionsModal(s) /\ UNCHANGED <<sections, fresh, added, used>>

ShowModal(s) ==
  /\ loaded /\ s \in opening /\ opening' = opening \ {s} /\ open' = s
  /\ UNCHANGED <<cacheVars, rows, added, saving, drag, used, wanted, clicks, trouble>>

\* What it needs cannot be loaded: an error is shown, and no dialog.
ModalFails(s) ==
  /\ s \in opening /\ opening' = opening \ {s}
  /\ Troubled("refused", TRUE)
  /\ UNCHANGED <<cacheVars, rows, added, open, saving, drag, used, wanted, clicks>>

\* Mutant of HandleModalCancel: a section that was added stays.
HandleModalCancelOnly ==
  /\ open # None /\ Click
  /\ added' = None /\ open' = None
  /\ Troubled("crossed", saving # NoSave)
  /\ UNCHANGED <<cacheVars, rows, opening, saving, drag, used, wanted>>

\* Dismiss.  The section that was added is removed by the name the page gave it:
\* once it has been saved there is none of that name.
HandleModalCancel ==
  /\ open # None /\ Click
  /\ sections' = IF added \in fresh THEN Without(sections, added) ELSE sections
  /\ fresh' = fresh \ {added} /\ added' = None /\ open' = None
  /\ Troubled("crossed", saving # NoSave)
  /\ UNCHANGED <<loaded, rows, opening, saving, drag, used, wanted>>

HandleModalSave ==
  /\ open # None /\ saving = NoSave /\ Click
  /\ saving' = [of |-> "dialog", step |-> "sent", sent |-> sections]
  /\ UNCHANGED <<cacheVars, rows, added, opening, open, drag, used, wanted, trouble>>

\* handleModalCancel after a save: whatever dialog is there is closed.
ModalSaved ==
  /\ saving.step = "drawn" /\ saving' = NoSave
  /\ added' = None /\ open' = None
  /\ UNCHANGED <<cacheVars, rows, opening, drag, used, wanted, clicks, trouble>>

GridNext ==
  \/ \E s \in Section : HandleDragStart(s) \/ HandleRemove(s) \/ HandleAdd(s) \/ HandleEdit(s) \/ ShowModal(s) \/ ModalFails(s)
  \/ \E t \in Section, below \in BOOLEAN : HandleDragOver(t, below) \/ \E s \in Section : HandleTouchMove(s, t, below)
  \/ \E s, new \in Section, next \in BOOLEAN : HandleClone(s, new, next)
  \/ HandleDrop \/ HandleTouchEnd
  \/ SaveServed \/ SaveUnread \/ SaveRefused \/ SaveCut \/ Redraw
  \/ HandleModalCancel \/ HandleModalSave \/ ModalSaved

GridSpec == GridInit /\ [][GridNext]_gridVars

-----------------------------------------------------------------------------
(* Properties                                                              *)

\* At rest the table shows the sections of the cache in their order, and these
\* are the ones the user wanted: what was added and dismissed has left no trace,
\* and nothing that was saved has gone with it.
\* The second holds whatever of a save was cut off after it was written, also when
\* its dialog is then dismissed; only the rows may lack what was saved.  A dialog
\* that could not be built leaves the section it was for, a page that could not be
\* saved the row that was removed, and no more is said of dialogs and saves that
\* cross, or of a cache that could not be read.
TableIsSections ==
  ~Busy =>
    /\ trouble = {} => rows = sections
    /\ trouble \subseteq {"cut"} => ToSet(sections) = wanted

-----------------------------------------------------------------------------
(* Why                                                                     *)

\* What the user is at: one dialog, that is being built or open, is of a section
\* that was added or is wanted; and one save, of the sections there are.
OneThing ==
  /\ \A s, t \in opening : s = t
  /\ opening # {} => open = None /\ saving = NoSave
  /\ added # None => opening = {added} \/ open = added
  /\ opening \cup {open} \subseteq wanted \cup {added, None}
  /\ saving.of = "dialog" => open # None
  /\ saving.of = "page" => open = None /\ saving.step # "drawn"
  /\ saving # NoSave => saving.sent = sections

\* The sections are the wanted ones and the one that was added.
CacheAgrees ==
  /\ loaded
  /\ ToSet(sections) = wanted \cup fresh /\ wanted \cap fresh = {}
  /\ fresh \subseteq {added} /\ added \in wanted \cup fresh \cup {None}
  /\ saving.step \in {"served", "drawn"} => fresh = {}

\* But for that one, last, the sections are the rows.
RowsAgree ==
  /\ saving.step = "drawn" => rows = sections
  /\ added # None /\ saving.step \notin {"served", "drawn"} => fresh = {added}
  /\ saving.of # "page" => \/ rows = sections /\ fresh = {}
                           \/ added # None /\ sections = Append(rows, added)

SavesFit == saving = NoSave \/ (saving.of # None /\ saving.step # None)

TableFits ==
  /\ GridTypeOK /\ SavesFit
  /\ ToSet(sections) \cup ToSet(saving.sent) \cup opening \cup {open} \subseteq used \cup {None}
  /\ IsInjective(saving.sent)
  /\ trouble \subseteq {"cut"} => OneThing /\ CacheAgrees
  /\ trouble = {} => RowsAgree

=============================================================================
