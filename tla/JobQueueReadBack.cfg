SPECIFICATION Spec
CONSTANTS
  Jobs = {j1}
  Domains = {1}
  Workers = {w1}
  Nonces = {n1}
  NoToken = NoToken
  NoRow = NoRow
  MaxDomainAttempts = 1
  Concurrency = 1
  Outcomes = {"answer", "failed"}
  FreshChoices = {FALSE}
  MaxFaults = 0
  MaxOutages = 0
  MaxRetries = 1
INVARIANT NoOwnFailureReadBack
