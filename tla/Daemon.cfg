SPECIFICATION Spec
CONSTANTS
  trigA = trigA
  trigB = trigB
  rule1 = rule1
  Messages = {m1, m2, m3}
  WriteCap = 1
  BatchSize = 2
  Files = {f1, f2}
  Timers = {t1}
  NumChunks = 2
  MaxVersion = 2
  MaxRow = 3
  MaxEdits = 2
  MaxScans = 1
  MaxLines = 3
  MaxLength = 6
  ChunkChars = 4
  Overlaps = {0, 1, 3, 9}
  Processes = {p1, p2}
  MaxEvents = 4
  Clients = {c1, c2}
  RegisterCap = 1
  UnregisterCap = 1
  BroadcastCap = 1
  SendCap = 1
  MaxMsgs = 2
  Triggers = {trigA, trigB}
  BehindBreaker = {trigB}
  RuleIds = {rule1}
  RuleFiles <- ruleFiles
  EventCap = 1
  MaxAge = 2
  MaxEmitted = 3
  ConsecutiveFailLimit = 3
  WordBits = 8
  Second = 3
  CooldownMax = 12
  MaxFailures = 12
  Watchers = {"service", "trigger"}
  Backends = {"imap", "list"}
  PageSize = 1
  MaxMails = 2
  MaxCrashes = 1
  Editors = {e1, e2}
  ProviderNames = {"openai", "groq"}
  Accepted = {"openai"}
  SkillNames = {"s1"}
  Accounts = {"a1"}
  Servers = {"palace"}
  Palace = "palace"
  Questions = {"fallback", "plano", "channel"}
  MaxCommands = 2
  Ids = {"i1"}
  Names = {"n1", "n2"}
  Calls = {k1, k2}
  MaxCronCalls = 2
  ProcNames = {"n"}
  Pids = {1, 2}
  Toolers = {k1, k2}
  AgentIds = {a1, a2}
  Programs = {p1, p2}
  Daemons = {d1, d2}
  NoPid = NoPid
  Origins = {"http", "rule"}
  Meetings = {"a"}
  Interval = 2
  WarnBefore = 3
  MaxClock = 7
  MaxMoves = 2
  RuleNames = {"r1", "r2"}
  Shells = {"s1", "s2"}
  MaxRuleEdits = 2
  Installers = {"p1", "p2"}
  NumFiles = 2
  MaxInstalls = 3
  Fetchers = {"p1", "p2"}
  NumBlocks = 1
  MaxSetups = 3
INVARIANTS
  TypeOK
  AcceptedIsAccountedFor
  ForgottenStaysForgotten
  IndexIsTrue
  ShortLinesSurvive
  AuditChain
  ListedIsOpen
  ListedHearAll
  PausesAreKept
  NothingPassedOver
  OneDraftEach
  MeetingsAnnounced
  FilesKept
  RegistriesKept
  DaemonKept
PROPERTIES
  ServicesStop
CHECK_DEADLOCK FALSE
