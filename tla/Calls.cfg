SPECIFICATION CallsSpec
CONSTANTS
  star = star
  secretTag = secretTag
  trustTag = trustTag
  a1 = a1
  c1 = c1
  c2 = c2
  Wildcard = star
  NoCall = NoCall
  Tags <- MCTags
  Agents = {a1}
  Calls <- MCCalls
  GuardLabels <- MCLabels
  Responses <- MCResponses
  AgentGrants <- MCGrants
  CallModes = {"strict", "filter", "propagate"}
  CallOps = {"read", "write", "read-write"}
  MaxGrants = 2
  Conns <- MCCalls
  FrontRequests <- MCFrontRequests
  Keys = {"key", "unset"}
  Secrets = {TRUE, FALSE}
  MaxAge = 1
  MaxNow = 5
  MaxMcpSessions = 2
  Callers <- MCCalls
  MaxBackend = 2
  InitialSize = 1
  MaxSize = 4
  MaxAttempts = 3
  Nobody = Nobody
  Numbers = {"42"}
  OtherSegments = {"x", ""}
  MaxPath = 9
  Queries <- MCQueries
  CacheKeys = {"a/s1", "b/s1", "a/s2"}
  Getters <- MCCalls
  CacheTTL = 2
  CacheSize = 2
  MaxWait = 1
  MaxCacheTime = 5
  Margin = 1
  Unknown = 2
  FetchTime = 1
  MaxTokenTime = 5
  Audiences = {"aud1", "aud2"}
  Senders = {"sender1", "sender2", "sender3"}
  s1 = s1
  s2 = s2
  Sessions <- MCSessions
  Handlers <- MCCalls
  Shared = Shared
  Late = Late
  MaxFailures = 2
  MaxConns = 2
  MaxLate = 1
SYMMETRY MCSymmetry
INVARIANTS KnowledgeCovered OnlyClearedSinks StrictAllOrNothing BackendCallsConfined PoisonedStaysOut FirstMatchWins InjectionKeepsQuery NoneLost OwnConnection RestartsBounded HonestStatus
PROPERTIES AcceptedOnce RunsInOwnSession MonitorSpec OnlyIdleEntriesGo NoFreshTokenReplaced NotUnderACall
CHECK_DEADLOCK FALSE
