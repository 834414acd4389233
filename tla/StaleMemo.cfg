CONSTANTS
  w1 = w1
  w2 = w2
  probe = probe
  flash = flash
  Workers = {w1, w2}
  Probes = {probe}
  Features = {flash}
  Jobs <- MCJobs
  MaxChanges = 3
  Nobody = Nobody
SPECIFICATION Spec
INVARIANT FreshAfterRetraining
CHECK_DEADLOCK FALSE
