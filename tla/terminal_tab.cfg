SPECIFICATION AllSpec
CONSTANTS
  Streams <- SmallStreams
  MaxMessage = 2
  QueueCapacity = 1
  FlushThreshold = 2
  MaxChunk = 4
  HighWatermark = 2
  MaxPages = 2
  MaxNonce = 1
  MaxAttempts = 1
  ReconnectEnabled = TRUE
  HistoryLimit = 2
  MetricsActs = 5
  MaxSamples = 5
  MaxFeeds = 2
  MaxChecks = 7
  MaxScript = 2
  Lines = 3
  MaxSends = 5
  Terminals = {"x1", "x2"}
  Agents = {"claude", "codex"}
  StopReporters = {"codex"}
  AgentSessions = {"s1"}
  ChunkIds = {"i1", "i2"}
  PartialLimit = 1
  MaxReports = 3
  Commands = {"c1", "c2"}
  MaxMarks = 5
  Queries = {"q1", "q2", "q3"}
  Options = {"o1", "o2"}
  Found <- InTheBuffer
  Broken <- Unsearchable
  SearchActs = 7
  Tabs = {"t1", "t2"}
  Settings <- NotifyAll
  MaxUnseen = 1
  NoticeActs = 4
CHECK_DEADLOCK FALSE
INVARIANTS
  SentInOrder
  FlowInv
  
  OfferIsForThePrompt
  
  
  OnePollingLoop
  TabTellsTheTruth
PROPERTIES
  FinishReturns
  
  AsksAndAnnouncesInTime
