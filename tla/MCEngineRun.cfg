CONSTANTS
  ma = ma
  mb = mb
  mc = mc
  mg = mg
  mh = mh
  mf = mf
  qa = qa
  qb1 = qb1
  qb2 = qb2
  qc = qc
  qg1 = qg1
  qg2 = qg2
  qh = qh
  Matrices <- MCMatrices
  Own <- MCOwn
  Resident <- MCResident
  Rows <- MCRows
  Blocks <- MCBlocks
  Width <- MCWidth
  Queries <- MCQueries
  Instance <- MCInstance
  JobLists <- MCJobLists
  Pools = {1, 2}
  Threads = {t1, t2}
  USize = 24
  MinParallel = 8
  MinGpu = 16
  Zero = Zero
SPECIFICATION FairSpec
INVARIANTS
  Tiling
  PlanFaithful
  AnswersExact
  NoPanic
PROPERTIES
  ExecuteReturns
