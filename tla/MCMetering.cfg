SPECIFICATION PartsSpec
CONSTANTS
  k1 = k1
  k2 = k2
  p1 = p1
  p2 = p2
  basic = basic
  NoPlan = NoPlan
  NoKey = NoKey
  HoldKey = {k1, k2}
  Plan = {"own", "pro"}
  Own = "own"
  Rate = {"big", "small"}
  Price <- Prices
  Cost <- Costs
  Sizes = {"none", "some"}
  Window = {"short", "period"}
  Limit <- Limits
  Length <- Lengths
  Settings <- Tariffs
  Balance = 1
  HoldTtl = 1
  MaxHolds = 2
  MaxNow = 3
  NoCap = NoPlan
  NoRate = NoPlan
INVARIANT MetersAreTrue
PROPERTY ExpiredHoldsAreReleased
CHECK_DEADLOCK FALSE
