CONSTANTS
  w1 = w1
  w2 = w2
  probe = probe
  flash = flash
  Workers = {w1, w2}
  Probes = {probe}
  Features = {flash}
  Jobs <- MCJobs
  MaxChanges = 3
  Nobody = Nobody
SPECIFICATION Spec
INVARIANTS
  TypeOK
  CacheNotBehindStamp
  LoadIsCurrent
PROPERTIES
  NeverBackToOlder
  EveryRequestEnds
CHECK_DEADLOCK FALSE
