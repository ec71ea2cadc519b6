SPECIFICATION SessionSpec
CONSTANTS
  r1 = r1
  r2 = r2
  Nobody = Nobody
  FromContext = {}
  Requests <- TwoRequests
  MaxSessions = 5

INVARIANT RetryLostOnlyIfExpired
