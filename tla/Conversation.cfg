SPECIFICATION Spec
CONSTANTS
  t1 = t1
  t2 = t2
  Turns = {t1, t2}
  Casts <- casts
  MaxIterations = 1
  MaxAuto = 2
  CheckpointEvery = 2
  FlushAbove = 0
  CompactTo = 1
  MaxCalls <- maxCalls
  Usages = {1}
  MaxCommands = 1
  CallIds = {c1, c2}
  MaxMessages = 4
  Calls = {c1, c2}
  NumPrimaries = 2
  BreakerThreshold = 2
  BreakerCooldown = 0
  Replies <- replies
  StreamCap = 1
  MaxTokens = 4
  MaxEmpty = 2
  TextLimit = 3
  Inbox = {i1, i2}
  Slots = 2
  SlackLimit = 2
  MaxText = 2
  ToolCalls = {m1, m2}
  MaxStrays = 2
  HubDimension = 768
  NumTexts = 3
  MaxVersion = 2
  MaxStarts = 2
  Models = {old, new, typo}
  Curated = {old}
  Prefixed = {old, new}
  Configurations <- configurations
  MaxChanges = 2
INVARIANTS
  TypeOK
  TurnsAreWhole
  NoPrimaryOverlooked
  TextIsFaithful
  McpAnswers
  VectorsAreOwn
  WiringHolds
PROPERTIES
  ConversationSettles
  OutageEnds
CHECK_DEADLOCK FALSE
