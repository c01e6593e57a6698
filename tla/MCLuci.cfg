SPECIFICATION LuciSpec
CONSTANTS
  Key = {"k1", "k2", "k3"}
  Pem = {"k1", "k2"}
  Base = {"official", "mine"}
  Reserved = {"official"}
  Task = {"key_1", "key_2"}
  Installed <- InstalledKeys
  Pkg = {"p", "q"}
  Shipped <- NothingOrBoth
  PageSize = 1
  MaxRuns = 2
  Choice <- TwoChoices
  Typed = {"b", "c"}
  ListValue = {"a", "b"}
  Offered = {"a"}
  MaxItems = 4
  Root = "/"
  Dir = {"/d"}
  File = {"/f", "/d/g"}
  Parent <- FileTree
  FileClicks = 4
  Group = {"tabs", "inner"}
  Path <- NoPath
  Panes = 2
  TabPage = {"p1", "p2"}
  ZoneName = {"lan", "wan"}
  ZoneNetwork = {"lan", "wan"}
  MaxZones = 3
  ZonesThere <- TwoZones
  RulesThere <- TwoRules
  Iface = {"lan", "wan"}
  Device <- OneDevice
  Phy = {"radio0"}
  Wifi = {"w1", "w2"}
  MaxRefs = 1
  Caller = {"page", "poll"}
  MaxGather = 3
  MaxVersion = 2
  Radio = {"radio0", "radio1"}
  Bss = {"ap"}
  MaxNets = 2
  Field = {"a", "b", "c"}
  Option = {"x", "y", "z"}
  Content = {"0", "1", "bad"}
  Bad = {"bad"}
  Forms <- FourForms
  MaxSaves = 2
  Section = {"s1", "s2", "s3"}
  AtFirst <- TwoSections
  RowClicks = 3
  Kind = {1, 2}
  Document <- Documents
  MaxIndex = 3
  Class = {"a", "b", "c"}
  Requires <- RequireLists
INVARIANTS
  PagesTypeOK
  FormatFits
  DuplicatesNeedOverlap
  PagesCalculate
  ShownIsCurrent
  WidgetsAgree
  NamesResolve
  FormsAreObeyed
  NothingIsLeftBehind
PROPERTIES
  ValuesSurvive
  NothingGoesBack
CHECK_DEADLOCK FALSE
