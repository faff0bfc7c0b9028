SPECIFICATION Spec
CONSTANTS
  TransferRuns = 2
  TransferBegins = 1
  TransferItems = 1
  TransferInbox = 2
  TransferRetries = 1
  UpdateChannels = {"stable", "beta"}
  MaxReleases = 2
  UpdaterActs = 6
  Folders = {"home", "link", "a"}
  Home = "home"
  Link = "link"
  DotNames = {"f"}
  Names = {"f"}
  HistoryLimit = 2
  MaxLoads = 2
  BrowserActs = 3
  Rules = {"t1"}
  MaxSaves = 3
  TunnelActs = 4
  Hops = {"h1"}
  MaxJumps = 2
  FormEdits = 1
  MaxSubmits = 1
  Paths = {"p1", "p2"}
  Hosts = {"h1", "h2"}
  MaxPreviews = 2
  ImportActs = 3
  LibraryIds = {"c1", "c2"}
  Texts = {"t1"}
  RecentLimit = 1
  MaxFetches = 2
  MaxVersions = 2
  LibraryActs = 3
  BackupNames = {"b1", "b2"}
  BackupFiles = {"f1"}
  MaxCalls = 2
  BackupActs = 5
  OldLogs = {1, 2}
  MaxLogs = 3
  Matching = {1}
  LogActs = 4
  MaxLists = 2
  ThemeIds = {"c1"}
  ThemeActs = 2
  ThemeEvents = 1
  SliderLevels = {1, 2}
  LookActs = 4
  LookFaults = 1
  Connections = {"p1", "p2"}
  ConnectionGroups = {"g1", "g2"}
  Sought = {"p1"}
  GroupCommands = 2
  GroupListings = 1
  GroupTouches = 1
  TerminalTabs = {"s1", "s2"}
  EditorTabs = {"f1", "f2"}
  KeymapActs = 4
CHECK_DEADLOCK FALSE
INVARIANTS
  
  ShownIsTrue
  GroupsAreForest
  LabelsTellTheTruth
PROPERTIES
  
  SavesAsShown
  ClosesAsAnswered
