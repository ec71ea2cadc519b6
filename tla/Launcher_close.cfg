SPECIFICATION LauncherSpec
CONSTANTS
  s1 = s1
  s2 = s2
  c1 = c1
  c2 = c2
  Sessions <- MCSessions
  Handlers <- MCCalls
  Shared = Shared
  Late = Late
  MaxFailures = 1
  MaxConns = 2
  MaxLate = 1

PROPERTIES StopClosesSessions
CHECK_DEADLOCK FALSE
