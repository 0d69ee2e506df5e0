SPECIFICATION Spec
CONSTANTS
  Domains = {d1, d2}
  ResumeTxn = ResumeTxn
  SweepTxn = SweepTxn
  RetryTxn = RetryTxn
  NoTxn = NoTxn
  MaxAborts = 2
  MaxRetries = 1
  MaxPauses = 2
SYMMETRY Symmetry
CHECK_DEADLOCK FALSE
INVARIANT DoneMeansFinished
