SPECIFICATION PartsSpec
CONSTANTS
  j1 = j1
  j2 = j2
  c1 = c1
  c2 = c2
  a1 = a1
  a2 = a2
  p1 = p1
  p2 = p2
  m1 = m1
  m2 = m2
  \* RegisterJob
  Jobs <- TwoJobs
  NoJob = NoJob
  NumWorkers = 1
  NumMinters = 1
  QMax = 1
  Options <- OneOption
  Stagger = TRUE
  MaxStops = 1
  \* CpaBreaker
  Probes = {p1, p2}
  Members = {m1, m2}
  NoOne = NoOne
  Fingerprints = {"busy"}
  Chatting = {m1}
  Window = 4
  OpenFor = 1
  MinSamples = 1
  MinErrors = 1
  RatioNum = 1
  RatioDen = 2
  CanaryLimit = 1
  CanaryOk = 1
  Restarts = TRUE
  MaxClock = 2
  MaxObs = 2
  \* CpaGovernance
  Target = 1
  ReserveTarget = 1
  DemoteBatch = 1
  BatchSize = 1
  DailyLimit = 1
  LowRounds = 2
  EmergencyFloor = 1
  MaxInventory = 2
  Needs = {1}
  StartMain = 1
  StartReserve = 0
  MaxRounds = 2
  MaxDays = 2
  MaxDaily = 2
  \* TurnstileSolver
  Calls = {c1, c2}
  Ports = {o1, o2}
  Slots = 2
  StartMode = "headless"
  MaxBuilds = 2
  MaxDeaths = 1
  \* Registrations
  Workers1 = {g1}
  Workers2 = {t1}
  Mailboxes = {box}
  Aliases = {x, y}
  AliasLimit = 3
  ActiveLimit = 2
  Protocol = TRUE
  MailTries = 2
  Accounts1 = 1
  Accounts2 = 1
  MaxAttempts = 3
  \* CpaMint
  Minters = {r1}
  Fillers = {b1}
  Enrolled = {a1, a2}
  Nobody = Nobody
  DeviceFlow = TRUE
  BrowserOnly = TRUE
  PkceRetries = 1
  MaxBackfills = 1
  MaxMintCrashes = 1
  \* AccountFile
  Deletions = {d1, d2}
  Registered = {s1, s2}
  NoDeletion = NoDeletion
  MaxFileCrashes = 1
  \* MailFile
  Drawers = {w1, w2}
  Boxes = {b2, b3}
  NoDrawer = NoDrawer
  MaxStamp = 4
  \* MailDomains
  Pickers = {w1, w2}
  Domains = {e1, e2}
  Modes = {"any", "shuffle"}
  Strikes = 2
  RestTime = 2
  MaxTime = 2
  \* ProxyPool
  Checks = {k1, k2}
  Takers = {w1}
  Proxies = {q1, q2}
  Direct = Direct
  MaxEdits = 1
  MaxChecks = 2
  MaxPoolCrashes = 1
  \* BrowserTabs
  TabThreads = {w1, w2}
  Closers = {h1}
  MaxChromiums = 3
CHECK_DEADLOCK FALSE
CONSTRAINT Bounds
VIEW PartsView
INVARIANTS
  PartsTypeOK
  CompletedStats
  WrappersInPlace
  WorkersAccounted
  AddressOnce
  ReservationsAccounted
  HeldNoOldCode
  MintedAsSelf
  BackfillAccounts
  OnlyInHotload
  AccountsKept
  MailboxesCurrent
  ChromiumsTracked
PROPERTIES
  CloseNeedsCanaries
  DailySoftLimit
  LowWaterConfirmed
  FailureIsFinal
  RestingSkipped
  DrawsFoundGood
