SPECIFICATION Spec
CONSTANTS
  Domains = {d1, d2, d3}
  ResumeTxn = ResumeTxn
  SweepTxn = SweepTxn
  RetryTxn = RetryTxn
  NoTxn = NoTxn
  MaxAborts = 2
  MaxRetries = 2
  MaxPauses = 2
SYMMETRY Symmetry
CHECK_DEADLOCK FALSE
INVARIANTS
  TypeOK
  NoLostCompletion
PROPERTY
  CancelledStays
  UnretriedImplements
