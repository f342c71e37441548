\* Three threads race for the first DRBG of a provider that is loaded twice.
SPECIFICATION FairSpec
CONSTANTS
  Hybrid = TRUE
  MaxLoads = 2
  Threads = {t1, t2, t3}
  Ctxs = {d1, d2, d3}
  NullCtx = NullCtx
  NoThread = NoThread
  MaxCalls = 4
INVARIANTS
  AllOrNothing
  NoLeakedDrbg
  GeneratesOnPublished
  DrbgInsideChild
PROPERTIES
  HybridOnlyFromApplication
  NoRepeatedDraw
  ImplementsCell
  EveryCallReturns
  TeardownCompletes
CHECK_DEADLOCK FALSE
