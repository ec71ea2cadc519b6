SPECIFICATION ProcessSpec
CONSTANTS
  Backends = {"a", "b"}
  Order <- MCOrder
  Listings <- MCListings
  AllowLists <- MCAllowLists
  PaginateAllMaxPages = 2
  Reqs = {"q"}
  Closers = {"close1", "close2"}
  c1 = c1
  c2 = c2
  c3 = c3
  s1 = s1
  Sessions = {s1}
  Handlers = {c1}
  Calls <- MCCalls
  Threshold = 2
  Cooldown = 1
  MaxTime = 6
  MaxReset = 2
  Shared = Shared
  Late = Late
  MaxFailures = 1
  MaxConns = 2
  r1 = r1
  r2 = r2
  Nobody = Nobody
  Requests = {r1, r2}
  FromContext = {}
  MaxSessions = 3
  MaxLate = 1
INVARIANTS ExitIsClean ServedToolsComplete BreakerInv SessionsReleased
PROPERTIES NoAdmissionAfterClose CloseDrainsFirst StopsWhenTold GatewayServes OneProbePerHalfOpen WindowRespected ProbeResolves Recovers AllReleased RequestsEnd
CHECK_DEADLOCK FALSE
