SPECIFICATION Spec
CONSTANTS
  Jobs = {j1, j2}
  Domains = {1}
  Workers = {w1, w2}
  Nonces = {n1}
  NoToken = NoToken
  NoRow = NoRow
  MaxDomainAttempts = 1
  Concurrency = 1
  Outcomes = {"answer", "failed"}
  FreshChoices = {TRUE}
  MaxFaults = 1
  MaxOutages = 1
  MaxRetries = 0
SYMMETRY Symmetry
INVARIANTS
  TypeOK
  ClaimsConsistent
  FetchExclusive
  NoStaleReuse
PROPERTY
  RecordedByLatestClaim
