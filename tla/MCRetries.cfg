SPECIFICATION PartsSpec
CONSTANTS
  x1 = x1
  x2 = x2
  x3 = x3
  y1 = y1
  y2 = y2
  z1 = z1
  z2 = z2
  Exec = {x1, x2, x3}
  Key = {z1, z2}
  Input = {z1, z2}
  Value = {z1, z2}
  NoExec = NoExec
  NoInput = NoInput
  NoValue = NoValue
  Message = {x1, x2, x3}
  Worker = {y1, y2}
  Concurrency = 2
  Capacity = 2
  Lease = 2
  MaxAttempts = 2
  BaseDelay = 1
  MaxDelay = 2
  NoMessage = NoMessage
  NoReceipt = NoReceipt
  RateLimit = 2
  Tries = 2
  MaxVersion = 3
  MaxMinute = 1
  Tab = {y1, y2}
  Access = 3
  RefreshGrace = 2
  Latency = 1
  MaxSecrets = 4
  MaxClock = 7
  NoTab = NoTab
SYMMETRY Alike
INVARIANT IInv
INVARIANT ReplayFaithful
INVARIANT SuccessIsDurable
INVARIANT AtMostOnce
PROPERTY CompletedIsFinal
PROPERTY ImplementsOnce
INVARIANT MessagesAreKept
INVARIANT KeysAreGuarded
INVARIANT TabsShareTheSession
PROPERTY LeasesAreRespected
CHECK_DEADLOCK FALSE
