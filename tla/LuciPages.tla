------------------------------ MODULE LuciPages ------------------------------
(***************************************************************************)
(* The pages and widgets of the web interface, one at a time: the page is  *)
(* chosen at first, and its variables are v1, v2, and so on; those it does *)
(* not need are 0.  The page of the repository keys has variables of its   *)
(* own, which rest while another page is open.                             *)
(***************************************************************************)
EXTENDS RepoKeys, Sequences, Integers

CONSTANTS
  \* Packages: of the repository, installed at first, rows of a page, commands
  Pkg, Shipped, PageSize, MaxRuns,
  \* A dropdown: values that are offered, values that are typed
  Choice, Typed,
  \* A dynamic list: its values, choices of its combobox, and items
  ListValue, Offered, MaxItems,
  \* The files of the device, and clicks in the browser
  Root, Dir, File, Parent, FileClicks,
  \* Tabs: groups, where they are, how many panes each has, and the pages
  Group, Path, Panes, TabPage,
  \* Zones: names, networks, how many there may be, zones and rules at first
  ZoneName, ZoneNetwork, MaxZones, ZonesThere, RulesThere,
  \* Interfaces, wired and wireless devices, wireless networks, references
  Iface, Device, Phy, Wifi, MaxRefs,
  \* The state of the network: parts of the page, gatherings, changes
  Caller, MaxGather, MaxVersion,
  \* Wireless networks: radios, networks in reach, sections
  Radio, Bss, MaxNets,
  \* Forms: fields, options, contents, which of these are refused, saves
  Field, Option, Content, Bad, Forms, MaxSaves,
  \* The sections of a table, those there are at first, clicks
  Section, AtFirst, RowClicks,
  \* Documents, the types in them, sections that are added
  Kind, Document, MaxIndex,
  \* Classes, and in some cases what each requires
  Class, Requires

\* The choices of a dropdown come in an order, and none is the placeholder or the
\* item with the text field.
ASSUME DropAssumption ==
  /\ Choice \in Seq({Choice[i] : i \in DOMAIN Choice}) /\ IsFiniteSet(Typed)
  /\ {"placeholder", "-"} \cap ({Choice[i] : i \in DOMAIN Choice} \cup Typed) = {}

\* No value of a list is that of its placeholder.
ASSUME ListAssumption == "none" \notin ListValue

\* A group has so many panes.
ASSUME TabsAssumption == Panes \in Nat

\* Zones, and rules that are about them.
ASSUME ZonesAssumption ==
  /\ ZonesThere \in Seq([name : ZoneName \cup {"none"}, networks : SUBSET ZoneNetwork])
  /\ RulesThere \subseteq [type : {"rule", "forwarding"}, src : ZoneName \cup {"none"}, dest : ZoneName \cup {"none"}]
  /\ \A r \in RulesThere : {r.src, r.dest} \subseteq {ZonesThere[i].name : i \in DOMAIN ZonesThere} \cup {"none"}

\* A bound on the wireless networks.
ASSUME WirelessAssumption == MaxNets \in Nat

\* The files are a tree.
ASSUME FilesAssumption ==
  /\ Parent \in [File \cup Dir -> {Root} \cup Dir]
  /\ "none" \notin {Root} \cup Dir \cup File /\ File \cap ({Root} \cup Dir) = {}

\* A repository with so many packages, of which a page shows some.
ASSUME PackageAssumption ==
  /\ IsFiniteSet(Pkg) /\ Shipped \subseteq SUBSET [pkg : Pkg, old : BOOLEAN]
  /\ PageSize \in Nat \ {0} /\ MaxRuns \in Nat

\* The device changes so often.
ASSUME StateAssumption == MaxVersion \in Nat

\* Finitely many classes, and what they require.
ASSUME LoaderAssumption == IsFiniteSet(Class) /\ Requires \subseteq [Class -> Seq(Class)]

VARIABLES page, v1, v2, v3, v4, v5, v6, v7, v8, v9, v10, v11, v12, v13, v14, v15, v16

pageVars == <<page, repoVars, v1, v2, v3, v4, v5, v6, v7, v8, v9, v10, v11, v12, v13, v14, v15, v16>>

-----------------------------------------------------------------------------
(* Instances                                                               *)

Packages == INSTANCE PackagePage WITH
  onDevice <- v1, tmp <- v2, available <- v3, installed <- v4,
  downloads <- v5, rows <- v6, offset <- v7, table <- v8, mode <- v9,
  filter <- v10, typing <- v11, dialog <- v12, job <- v13, run <- v14,
  runs <- v15, trouble <- v16

Drop == INSTANCE Dropdown WITH
  kind <- v1, box <- v2, dropOpen <- v3

List == INSTANCE DynamicList WITH
  combobox <- v1, entries <- v2, loose <- v3, choices <- v4, touching <- v5

Files == INSTANCE FileBrowser WITH
  MaxClicks <- FileClicks,
  files <- v1, browser <- v2, shown <- v3, asked <- v4, tasks <- v5,
  value <- v6, stat <- v7, clicks <- v8, trouble <- v9

Tabs == INSTANCE TabMenus WITH
  Page <- TabPage,
  page <- v1, drawn <- v2, empty <- v3, hidden <- v4, active <- v5,
  store <- v6, chosen <- v7, shifted <- v8

Zones == INSTANCE FirewallZones WITH
  Network <- ZoneNetwork,
  zones <- v1, rules <- v2, networks <- v3, loaded <- v4

Network == INSTANCE NetworkConfig WITH
  Radio <- Phy,
  ifaces <- v1, refs <- v2, wifi <- v3, deleting <- v4, reached <- v5,
  renamed <- v6

State == INSTANCE NetworkState WITH
  version <- v1, state <- v2, init <- v3, gather <- v4, caller <- v5

Wireless == INSTANCE WirelessNetworks WITH
  off <- v1, nets <- v2, shown <- v3, dialog <- v4, scan <- v5, polled <- v6,
  pollFn <- v7, scans <- v8, added <- v9, saving <- v10, odd <- v11

Form == INSTANCE FormFields WITH
  form <- v1, content <- v2, active <- v3, cfg <- v4, cache <- v5,
  device <- v6, saving <- v7, shown <- v8, stale <- v9, saves <- v10

Grid == INSTANCE GridRows WITH
  MaxClicks <- RowClicks,
  sections <- v1, rows <- v2, added <- v3, opening <- v4, open <- v5,
  saving <- v6, drag <- v7, fresh <- v8, used <- v9, wanted <- v10,
  clicks <- v11, trouble <- v12, loaded <- v13

Json == INSTANCE JSONConfig WITH
  data <- v1, odd <- v2

Loader == INSTANCE ClassLoader WITH
  requires <- v1, class <- v2, from <- v3

\* The forms there are, and what stands for a field that is hidden or has nothing.
ASSUME FormsAssumption ==
  /\ \A f \in Forms : Form!IsForm(f)
  /\ "none" \notin Field \cup Content /\ "hidden" \notin Content /\ MaxSaves \in Nat

\* The sections of a table.
ASSUME TableAssumption ==
  /\ AtFirst \in Seq(Section) /\ Grid!IsInjective(AtFirst) /\ "none" \notin Section

\* The documents there are.
ASSUME DocumentAssumption ==
  /\ Kind \subseteq Nat /\ \A doc \in Document : Json!IsDocument(doc)

-----------------------------------------------------------------------------
(* A page at a time                                                        *)

Unused(n) ==
  /\ n <= 3 => v3 = 0
  /\ n <= 4 => v4 = 0
  /\ n <= 5 => v5 = 0
  /\ n <= 6 => v6 = 0
  /\ n <= 7 => v7 = 0
  /\ n <= 8 => v8 = 0
  /\ n <= 9 => v9 = 0
  /\ n <= 10 => v10 = 0
  /\ n <= 11 => v11 = 0
  /\ n <= 12 => v12 = 0
  /\ n <= 13 => v13 = 0
  /\ n <= 14 => v14 = 0
  /\ n <= 15 => v15 = 0
  /\ n <= 16 => v16 = 0

Rest(n) ==
  /\ n <= 3 => v3' = v3
  /\ n <= 4 => v4' = v4
  /\ n <= 5 => v5' = v5
  /\ n <= 6 => v6' = v6
  /\ n <= 7 => v7' = v7
  /\ n <= 8 => v8' = v8
  /\ n <= 9 => v9' = v9
  /\ n <= 10 => v10' = v10
  /\ n <= 11 => v11' = v11
  /\ n <= 12 => v12' = v12
  /\ n <= 13 => v13' = v13
  /\ n <= 14 => v14' = v14
  /\ n <= 15 => v15' = v15
  /\ n <= 16 => v16' = v16

\* The keys are installed, and nobody has opened their page.
KeysRest == apk = TRUE /\ files = Installed[TRUE] /\ overlapped = FALSE /\ RepoClosed

OtherPage ==
  \/ page = "packages" /\ Packages!PackageInit
  \/ page = "dropdown" /\ Drop!DropInit /\ Unused(4)
  \/ page = "list" /\ List!ListInit /\ Unused(6)
  \/ page = "files" /\ Files!FilesInit /\ Unused(10)
  \/ page = "tabs" /\ Tabs!TabsInit /\ Unused(9)
  \/ page = "zones" /\ Zones!ZoneInit /\ Unused(5)
  \/ page = "network" /\ Network!NetworkInit /\ Unused(7)
  \/ page = "state" /\ State!StateInit /\ Unused(6)
  \/ page = "wireless" /\ Wireless!WirelessInit /\ Unused(12)
  \/ page = "form" /\ Form!FormInit /\ Unused(11)
  \/ page = "grid" /\ Grid!GridInit /\ Unused(14)
  \/ page = "json" /\ Json!JsonInit /\ Unused(3)
  \/ page = "loader" /\ Loader!LoaderInit /\ Unused(4)

PagesInit ==
  \/ page = "keys" /\ RepoInit /\ v1 = 0 /\ v2 = 0 /\ Unused(3)
  \/ KeysRest /\ OtherPage

On(p) == page = p /\ page' = p /\ UNCHANGED repoVars

PagesNext ==
  \/ page = "keys" /\ RepoNext /\ page' = page /\ v1' = 0 /\ v2' = 0 /\ Rest(3)
  \/ On("packages") /\ Packages!PackageNext
  \/ On("dropdown") /\ Drop!DropNext /\ Rest(4)
  \/ On("list") /\ List!ListNext /\ Rest(6)
  \/ On("files") /\ Files!FilesNext /\ Rest(10)
  \/ On("tabs") /\ Tabs!TabsNext /\ Rest(9)
  \/ On("zones") /\ Zones!ZoneNext /\ Rest(5)
  \/ On("network") /\ Network!NetworkNext /\ Rest(7)
  \/ On("state") /\ State!StateNext /\ Rest(6)
  \/ On("wireless") /\ Wireless!WirelessNext /\ Rest(12)
  \/ On("form") /\ Form!FormNext /\ Rest(11)
  \/ On("grid") /\ Grid!GridNext /\ Rest(14)
  \/ On("json") /\ Json!JsonNext /\ Rest(3)
  \/ On("loader") /\ Loader!LoaderNext /\ Rest(4)

PagesSpec == PagesInit /\ [][PagesNext]_pageVars

-----------------------------------------------------------------------------
(* Properties                                                              *)

PagesTypeOK ==
  /\ RepoTypeOK
  /\ page = "packages" => Packages!PackageTypeOK
  /\ page = "dropdown" => Drop!DropTypeOK
  /\ page = "list" => List!ListTypeOK
  /\ page = "files" => Files!FilesTypeOK
  /\ page = "tabs" => Tabs!TabsTypeOK
  /\ page = "zones" => Zones!ZoneTypeOK
  /\ page = "network" => Network!NetworkTypeOK
  /\ page = "state" => State!StateTypeOK
  /\ page = "wireless" => Wireless!WirelessTypeOK
  /\ page = "form" => Form!FieldsTypeOK
  /\ page = "grid" => Grid!GridTypeOK
  /\ page = "json" => Json!JsonTypeOK
  /\ page = "loader" => Loader!LoaderTypeOK

\* What a page shows is what there is, once nothing is on its way: packages,
\* files, and the buttons that switch networks on and off.
ShownIsCurrent ==
  /\ page = "packages" => Packages!KnowsInstalled /\ Packages!PagerFits
  /\ page = "files" => Files!PickedIsThere
  /\ page = "wireless" => Wireless!ButtonsSayWhatTheyDo

\* The parts of a widget agree: what is selected and what the form reads, what
\* is in a list and what it still offers, the tab that was chosen and the one
\* that is in front.
WidgetsAgree ==
  /\ page = "dropdown" => Drop!HiddenIsSelected
  /\ page = "list" => List!TakenAreListed
  /\ page = "tabs" => Tabs!ChosenTabIsKept

\* Sections go by names and places: whatever is renamed, moved or deleted, the
\* rules have zones, references interfaces, and networks their places.
NamesResolve ==
  /\ page = "zones" => Zones!RulesHaveZones
  /\ page = "network" => Network!NothingDangles /\ Network!NetidsFit

\* What was edited is what is saved: the fields that are shown, the networks of
\* a zone, the rows of a table, and a section that is added to a document.
FormsAreObeyed ==
  /\ page = "form" => Form!ShownAsItShould /\ Form!SavedAsShown
  /\ page = "zones" => Zones!DialogIsObeyed
  /\ page = "grid" => Grid!TableIsSections
  /\ page = "json" => Json!AddedIsNewAndLast

\* Nothing is left behind: no upload, no scan, no classes that wait for each
\* other without a word.
NothingIsLeftBehind ==
  /\ page = "packages" => Packages!UploadIsRemoved
  /\ page = "wireless" => Wireless!ScansEnd
  /\ page = "loader" => Loader!CirclesAreReported

\* No step loses what the user has chosen or named: the value of a dropdown,
\* an item that is in the list once, a network that gets a name.
ValuesSurvive ==
  [][/\ page = "dropdown" => Drop!KeepsAValue
     /\ page = "list" => List!OnceUnlessDropped
     /\ page = "wireless" => Wireless!NamesAreKept]_pageVars

\* No step goes back behind what was there: a state of the network that was
\* asked for afresh, networks that were switched off.
NothingGoesBack ==
  [][/\ page = "state" => State!FlushedIsFresh
     /\ page = "wireless" => Wireless!JoinWakesNoOther]_pageVars

-----------------------------------------------------------------------------
(* Why                                                                     *)

PagesFit ==
  /\ page = "packages" => Packages!ListsFit
  /\ page = "dropdown" => Drop!BoxFits
  /\ page = "list" => List!EntriesFit
  /\ page = "tabs" => Tabs!TabsFit
  /\ page = "files" => Files!FilesFit
  /\ page = "zones" => Zones!ZonesFit
  /\ page = "network" => Network!ReferencesFit
  /\ page = "state" => State!GatheringsFit
  /\ page = "wireless" => Wireless!RowsFit
  /\ page = "loader" => Loader!ChainsKept
  /\ page = "form" => Form!FieldsFit
  /\ page = "grid" => Grid!TableFits
  /\ page = "json" => Json!SectionsFit

=============================================================================
