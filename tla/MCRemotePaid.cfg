SPECIFICATION RemoteSpec
CONSTANTS
  y1 = y1
  y2 = y2
  basic = basic
  plus = plus
  Delivered = {2}
  Refuse = 1
  KeyLife = 2
  MaxVersion = 3
  MaxUsed = 1
  MaxNow = 2
  NoPlan = NoPlan
  NoKey = NoKey
  Runner <- Y
  Reminder = {"reminder"}
  WebhookNotice = {"event"}
  Lease = 1
  NoticeTime = 1
  NoNotice = NoNotice
  Process <- Y
  Request <- Requests
  Plan = {basic, plus}
  Subs = {1, 2}
  Run <- Y
  Hosts <- Environments
  Selections <- Asked
  MaxRuns = 3
  MaxSecrets = 1
  Parts = {"billing"}
SYMMETRY Processes
INVARIANT PaidPeriodsAreStated
CHECK_DEADLOCK FALSE
