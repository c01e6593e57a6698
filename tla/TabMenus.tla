------------------------------ MODULE TabMenus ------------------------------
(***************************************************************************)
(* ui.tabs: groups of panes with a menu of tabs, and the session store     *)
(* that keeps which tab was active.                                        *)
(*                                                                         *)
(* A group is drawn with the tab that is stored for its path on this page; *)
(* the store keeps one page.  A pane whose fields are all hidden is empty: *)
(* its tab is hidden, and another one is selected when the group is drawn  *)
(* - but not when the pane becomes empty later.                            *)
(*                                                                         *)
(* Simplifications.  All pages have the same groups.  The session does not *)
(* change while the pages are open.                                        *)
(***************************************************************************)
EXTENDS Integers, FiniteSets

CONSTANTS
  Group,
  Path,   \* getPathForPane, by group: the tabs and sections it is in
  Panes,  \* panes of a group
  Page

Pane == 0..(Panes - 1)
Unset == -1

VARIABLES
  page,
  drawn,  \* whether a group is drawn: "no", "yes" or "failed"
  empty,  \* the empty panes of each group
  hidden, \* the tabs that are hidden
  active, \* the panes that are active
  store,  \* what the session store keeps: the page, and an index for each path
  chosen, \* history: what the user chose last in each group, while it can be kept
  shifted \* history: groups whose empty panes have changed since they were drawn or switched

tabVars == <<page, drawn, empty, hidden, active, store, chosen, shifted>>

NoPaths == [p \in {Path[g] : g \in Group} |-> Unset]

TabsTypeOK ==
  /\ page \in Page /\ drawn \in [Group -> {"no", "yes", "failed"}]
  /\ empty \in [Group -> SUBSET Pane] /\ hidden \in [Group -> SUBSET Pane] /\ active \in [Group -> SUBSET Pane]
  /\ store.page \in Page /\ \A p \in DOMAIN store.paths : store.paths[p] \in Pane \cup {Unset}
  /\ chosen \in [Group -> Pane \cup {Unset}] /\ shifted \subseteq Group

TabsInit ==
  /\ page \in Page /\ store = [page |-> page, paths |-> NoPaths]
  /\ drawn = [g \in Group |-> "no"] /\ empty \in [Group -> SUBSET Pane]
  /\ hidden = [g \in Group |-> {}] /\ active = [g \in Group |-> {}]
  /\ chosen = [g \in Group |-> Unset] /\ shifted = {}

\* A link to another page, or the same one again.
OpenPage(p) ==
  /\ page' = p /\ drawn' = [g \in Group |-> "no"] /\ empty' \in [Group -> SUBSET Pane]
  /\ hidden' = [g \in Group |-> {}] /\ active' = [g \in Group |-> {}] /\ shifted' = {}
  /\ chosen' = IF p = page THEN chosen ELSE [g \in Group |-> Unset]
  /\ UNCHANGED store

\* The form is drawn again, with new panes.
Redraw(g, panes) ==
  /\ drawn[g] # "no"
  /\ drawn' = [drawn EXCEPT ![g] = "no"] /\ empty' = [empty EXCEPT ![g] = panes]
  /\ hidden' = [hidden EXCEPT ![g] = {}] /\ active' = [active EXCEPT ![g] = {}]
  /\ shifted' = shifted \ {g}
  /\ UNCHANGED <<page, store, chosen>>

-----------------------------------------------------------------------------

\* The store of this page: that of another one is dropped.
GetActiveTabState == IF store.page = page THEN store ELSE [page |-> page, paths |-> NoPaths]

GetActiveTabId(g) == GetActiveTabState.paths[Path[g]]

SetActiveTabId(g, i) == store' = [GetActiveTabState EXCEPT !.paths[Path[g]] = i]

\* Mutant of Selected: an empty pane is good enough.
SelectedAnyway(g) == IF GetActiveTabId(g) # Unset THEN GetActiveTabId(g) ELSE 0

\* The pane that is stored; where it is empty, or none is, the first that is not.
Selected(g) ==
  LET id == GetActiveTabId(g)
      full == Pane \ empty[g]
  IN IF id \in full \/ full = {} THEN id ELSE CHOOSE i \in full : \A j \in full : i <= j

\* Other groups with this path have lost their choice.
Chosen(g, i) == [h \in Group |-> IF h = g THEN i ELSE IF Path[h] = Path[g] THEN Unset ELSE chosen[h]]

\* Where every pane is empty and nothing is stored there is nothing to select:
\* it is raised, after the menu is there.
InitTabGroup(g) ==
  /\ drawn[g] = "no"
  /\ IF Selected(g) = Unset
     THEN drawn' = [drawn EXCEPT ![g] = "failed"] /\ UNCHANGED <<active, chosen>>
                                                  /\ store' = GetActiveTabState
     ELSE /\ drawn' = [drawn EXCEPT ![g] = "yes"] /\ active' = [active EXCEPT ![g] = {Selected(g)}]
          /\ SetActiveTabId(g, Selected(g))
          /\ chosen' = Chosen(g, IF Selected(g) = chosen[g] THEN chosen[g] ELSE Unset)
  /\ hidden' = [hidden EXCEPT ![g] = empty[g]]
  /\ UNCHANGED <<page, empty, shifted>>

\* The dependencies of fields: dependency-update and updateTabs.
UpdateTabs(g, panes) ==
  /\ drawn[g] # "no"
  /\ empty' = [empty EXCEPT ![g] = panes] /\ hidden' = [hidden EXCEPT ![g] = panes]
  /\ shifted' = IF panes = empty[g] THEN shifted ELSE shifted \cup {g}
  /\ UNCHANGED <<page, drawn, active, store, chosen>>

SwitchTab(g, i) ==
  /\ drawn[g] # "no" /\ i \in Pane \ (hidden[g] \cup active[g])
  /\ active' = [active EXCEPT ![g] = {i}]
  /\ SetActiveTabId(g, i) /\ chosen' = Chosen(g, i) /\ shifted' = shifted \ {g}
  /\ UNCHANGED <<page, drawn, empty, hidden>>

TabsNext ==
  \/ \E p \in Page : OpenPage(p)
  \/ \E g \in Group : InitTabGroup(g) \/ \E i \in Pane : SwitchTab(g, i)
  \/ \E g \in Group, panes \in SUBSET Pane : Redraw(g, panes) \/ UpdateTabs(g, panes)

TabsSpec == TabsInit /\ [][TabsNext]_tabVars

-----------------------------------------------------------------------------
(* Properties                                                              *)

\* A page that is opened or drawn again has the tab the user chose last, unless
\* another page was opened in between, the pane was empty, or another group has
\* the same path; and what is active is not empty while another pane is not,
\* unless fields were shown or hidden since.
ChosenTabIsKept ==
  \A g \in Group : drawn[g] = "yes" =>
    /\ chosen[g] # Unset => active[g] = {chosen[g]}
    /\ empty[g] # Pane /\ g \notin shifted => active[g] \cap empty[g] = {}

-----------------------------------------------------------------------------
(* Why                                                                     *)

MenusFit ==
  /\ empty \in [Group -> SUBSET Pane] /\ hidden \in [Group -> SUBSET Pane] /\ active \in [Group -> SUBSET Pane]
  /\ drawn \in [Group -> {"no", "yes", "failed"}] /\ chosen \in [Group -> Pane \cup {Unset}]
  /\ store \in [page : Page, paths : [{Path[g] : g \in Group} -> Pane \cup {Unset}]]
  /\ page \in Page /\ shifted \subseteq Group

\* What the user chose is in the store of this page.
ChoiceIsStored ==
  \A g \in Group : chosen[g] # Unset => store.page = page /\ store.paths[Path[g]] = chosen[g]

\* Of a group that is drawn, the tabs of empty panes are hidden.
EmptyAreHidden == \A g \in Group : drawn[g] # "no" => hidden[g] = empty[g]

TabsFit == MenusFit /\ ChoiceIsStored /\ EmptyAreHidden /\ ChosenTabIsKept

=============================================================================
