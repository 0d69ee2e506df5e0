SPECIFICATION CrawlSpec
CONSTANTS
  Sites <- MCSites
  Answers <- MCAnswers
  Verdicts <- MCVerdicts
  Fallback <- MCFallback
  Traits <- Address
  Backends = {"jina", "httpx"}
  MAX_PAGES = 4
  MAX_ATTEMPTS = 2
  RETRIES = 1
  JUDGE_RETRIES = 1
  MAX_CANDIDATES = 4
  MAX_JUDGE_CANDIDATES = 2
  EARLY_STOP = TRUE
CHECK_DEADLOCK FALSE
INVARIANTS
  AccountErrorStops
  ResultSound
  RejectedNeverBest
  ResultAccountsForPages
  RulesPickTheBest
  ChoiceRight
  SiteNeverBlamed
PROPERTY
  ProcessEnds
