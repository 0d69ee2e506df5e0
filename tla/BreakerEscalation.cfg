SPECIFICATION FairSpec
CONSTANTS
  Callers = {c1, c2, c3}
  Window = 3
  MinSamples = 2
  ThresholdNum = 3
  ThresholdDen = 10
  OpenSeconds = 1
  MaxOpenSeconds = 3
  Probes = 2
  ProbesNeeded = 1
  Recovery = 2
PROPERTY EscalationKept
