SPECIFICATION FairSpec
CONSTANTS
  Jobs = {j1}
  Domains = {1}
  Workers = {w1, w2}
  Nonces = {n1, n2}
  NoToken = NoToken
  NoRow = NoRow
  MaxDomainAttempts = 0
  Concurrency = 1
  Outcomes = {"answer", "failed"}
  FreshChoices = {FALSE}
  MaxFaults = 1
  MaxOutages = 1
  MaxRetries = 0
PROPERTIES
  JobsComplete
  ClaimsEnd
