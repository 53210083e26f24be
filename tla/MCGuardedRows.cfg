SPECIFICATION RowsSpec
CONSTANTS
  r1 = r1
  r2 = r2
  r3 = r3
  m1 = m1
  m2 = m2
  s1 = s1
  s2 = s2
  k1 = k1
  k2 = k2
  Runner = {r1, r2, r3}
  Plan <- TwoMigrations
  Irreversible = {m1}
  Checksums = {s1, s2}
  Declares <- OneEdited
  Overdue = {}
  NoRunner = NoRunner
  NoSum = NoSum
  Client = {r1, r2}
  Attempts = 1
  CodeLife = 1
  FlowLife = 1
  MaxCodes = 2
  MaxFlows = 2
  MaxTokens = 2
  MaxSteps = 1
  PlanId = {r1, r2}
  PlanLife = 1
  MaxSettings = 2
  MaxTime = 2
  Process = {"p", "q"}
  Caller = {r1, r2}
  Ttl = 1
  Tries = 2
  MaxLoads = 3
  MaxSource = 2
  CacheTime = 1
SYMMETRY Alike
INVARIANT OneRunner
INVARIANT HistoriesAreTrue
INVARIANT SignInsAreEarned
INVARIANT PlansAreTrue
INVARIANT LoadsAreShared
PROPERTY IrreversibleStays
PROPERTY LateKeepsToItsLease
PROPERTY StoresAreAtomic
CHECK_DEADLOCK FALSE
