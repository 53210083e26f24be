SPECIFICATION PartsSpec
CONSTANTS
  p1 = p1
  p2 = p2
  basic = basic
  plus = plus
  k1 = k1
  k2 = k2
  k3 = k3
  k4 = k4
  k5 = k5
  k6 = k6
  Process = {p1, p2}
  Scheduler = p1
  Call <- LateCancels
  Plan = {basic, plus}
  Window <- Windows
  Limit <- Limits
  Length <- Lengths
  HoldTtl = 1
  MaxHolds = 2
  MaxNow = 5
  Prompt = TRUE
  NoPlan = NoPlan
  NoKey = NoKey
  MaxOffer = 3
  NoContent = NoContent
  MaxRow = 5
  Parts = {"races"}
PROPERTY CancelKeepsAccess
SYMMETRY Requests
CHECK_DEADLOCK FALSE
