SPECIFICATION ClientSpec
CONSTANTS
  Process = {p1}
  Session = {s1}
  Requests = {"signIn", "refresh"}
  Attempts = 4
  Ttl = 10
  Grace = 3
  Temporary = 1
  MaxNow = 8
  MaxVersion = 4
  MaxUpdates = 1
  NoSession = NoSession
  Retry = 3
INVARIANT FailuresKeepTheSession
CHECK_DEADLOCK FALSE
