SPECIFICATION AccountsSpec
CONSTANTS
  p1 = p1
  p2 = p2
  s1 = s1
  e1 = e1
  e2 = e2
  Process = {p1, p2}
  Session = {s1}
  Requests = {"signIn", "refresh", "access", "logout", "logoutAll", "ban", "unban", "profile"}
  Attempts = 2
  Ttl = 3
  Grace = 1
  Temporary = 1
  MaxNow = 3
  MaxVersion = 3
  MaxUpdates = 2
  NoSession = NoSession
  WrongCodes = 1
  MaxUsers = 2
  MaxEdits = 3
  MaxCodes = 2
  Email = {e1, e2}
  NoEmail = NoEmail
SYMMETRY Alike
INVARIANT NothingPassesTheEnd
INVARIANT RefusalsAreFinal
INVARIANT GraceEnds
INVARIANT SessionRowsAreTrue
INVARIANT AccountsAreTrue
PROPERTY RevocationsStand
CHECK_DEADLOCK FALSE
