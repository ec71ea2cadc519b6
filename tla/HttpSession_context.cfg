SPECIFICATION SessionSpec
CONSTANTS
  r1 = r1
  r2 = r2
  Nobody = Nobody
  Requests <- TwoRequests
  FromContext <- OneRequest
  MaxSessions = 5

PROPERTY RetriesInNewSession
