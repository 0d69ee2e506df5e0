SPECIFICATION Spec
CONSTANTS
  Jobs = {j1}
  Domains = {1, 2}
  Workers = {w1}
  Nonces = {n1, n2}
  NoToken = NoToken
  NoRow = NoRow
  MaxDomainAttempts = 2
  Concurrency = 2
  Outcomes = {"answer", "failed", "refused"}
  FreshChoices = {TRUE, FALSE}
  MaxFaults = 1
  MaxOutages = 0
  MaxRetries = 1
SYMMETRY Symmetry
INVARIANTS
  DoneJobsAreFinished
  TimestampsAgree
PROPERTIES
  AnswersAreKept
  CancelledIsFinal
  Implements
