SPECIFICATION Spec
CONSTANTS
  r1 = r1
  r2 = r2
  r3 = r3
  r4 = r4
  m1 = m1
  s1 = s1
  Runner = {r1, r2, r3, r4}
  Plan <- OneMigration
  Irreversible = {}
  Checksums = {s1}
  Declares <- SameChecksums
  Overdue = {}
  NoRunner = NoRunner
  NoSum = NoSum
SYMMETRY Alike
INVARIANT OneRunner
CHECK_DEADLOCK FALSE
