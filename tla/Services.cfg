SPECIFICATION Spec
CONSTANTS
  Fetches = {"f1", "f2", "f3"}
  Hosts = {"h1", "h2"}
  HostOf <- HostOfDef
  GLOBAL_CONCURRENCY = 2
  PER_DOMAIN_CONCURRENCY = 1
  MAX_NAPS = 1
  Processes = {"api", "worker"}
  RATE = 4
  SLOW_RATE = 3
  CAPACITY = 4
  COST = 4
  MAX_TICKS = 2
  Doc <- DocDef
  Robots <- RobotsDef
  Root = "root"
  MAX_SITEMAP_DOCS = 4
  MAX_SITEMAPS = 3
  MAX_DEPTH = 2
  MAX_CHILDREN = 3
  MAX_URLS = 4
  JobDomains = {"d1", "d2"}
  Slots = {"t1", "t2"}
  Senders = {"s1", "s2"}
  MAX_PENDING = 1
  BACKOFFS = 1
  MAX_RETRIES = 1
  MAX_STOPS = 1
  MAX_TIME = 6
  MAX_LATE = 1
  Uploads <- UploadsDef
  MAX_ROWS = 3
  MAX_COLUMNS = 2
  SAMPLE_SIZE = 2
  KeyProcs = {"api", "worker"}
  NewKeys = {"k1", "k2"}
  EnvKey = "env"
  Admins = {"a1"}
  Handlers = {"h1"}
  KEY_CHANGES_PER_MINUTE = 2
  MAX_RESTARTS = 1
  Requests = {"r1", "r2", "r3"}
  Scenarios <- ScenariosDef
  MAX_ACTIVE_JOBS_PER_USER = 1
  MAX_CONCURRENT_UPLOADS = 1
  RATE_LIMIT_PER_MINUTE = 2
  MAX_JOB_STEPS = 2
CHECK_DEADLOCK FALSE
INVARIANTS
  SlotsConserved
  RateKept
  WalkBounded
  ActiveTimeRight
  PreviewAgrees
  JobDoneEvents
  PauseSeesTheKey
  ReplaysAgree
  ActiveLimit
PROPERTIES
  FetchesEnd
  EventsHandled
  KeysSettle
  RequestsAnswered
