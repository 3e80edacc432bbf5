SPECIFICATION FairSpec
CONSTANTS
  Threads = {t1, t2}
  Keys <- MCKeys
  Jobs <- MCJobs
  MaxCalls = 3
INVARIANTS CallsIsolated FailsOnlyOnFault
PROPERTY CallsReturn
CHECK_DEADLOCK FALSE
