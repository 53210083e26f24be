SPECIFICATION RemoteSpec
CONSTANTS
  y1 = y1
  y2 = y2
  basic = basic
  plus = plus
  Delivered = {2}
  Refuse = 0
  KeyLife = 1
  MaxVersion = 3
  MaxUsed = 1
  MaxNow = 2
  NoPlan = NoPlan
  NoKey = NoKey
  Runner <- Y
  Reminder = {"reminder"}
  WebhookNotice = {"event"}
  Lease = 1
  NoticeTime = 1
  NoNotice = NoNotice
  Process <- Y
  Request <- Requests
  Plan = {basic, plus}
  Subs = {1, 2}
  Run <- Y
  Hosts <- Environments
  Selections <- Asked
  MaxRuns = 3
  MaxSecrets = 1
  Parts = {"billing", "notices", "deployments"}
SYMMETRY Processes
INVARIANT OperationsBillOnce
INVARIANT OneSubscription
INVARIANT SeenEventsAreApplied
INVARIANT RenewalsAreCounted
PROPERTY NeverGoesBack
INVARIANT NoticesAreInOneHand
INVARIANT DeploymentsAreTrue
INVARIANT AppliedSafely
CHECK_DEADLOCK FALSE
