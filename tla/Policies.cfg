SPECIFICATION PoliciesSpec
CONSTANTS
  s1 = s1
  s2 = s2
  c1 = c1
  c2 = c2
  star = star
  secretTag = secretTag
  trustTag = trustTag
  Sessions <- MCSessions
  Calls <- MCCalls
  Tools <- MCTools
  Limit <- MCLimit
  MaxCalls = 4
  MaxInits = 1
  ServerNames = {"a", "b"}
  Sources <- MCSources
  Environments <- MCEnvironments
  Variables = {"${V}", "${E}", "${W}"}
  MaxSchemaFetchRetries = 3
  Servers = {"github", "safe-outputs"}
  SafeOutputs = {"safe-outputs"}
  GlobalPolicies <- MCGlobal
  ServerPolicies <- MCServer
  OwnPolicies <- MCOwn
  Exemptions = {{}, {"github"}}
  NoPolicy = NoPolicy
  BadPolicy = BadPolicy
  Wildcard = star
  Clients <- MCCalls
  ProxyLabels <- MCProxyLabels
  ProxyResponses <- MCResponses
  ProxyGrants <- MCGrants
  ProxyModes = {"strict", "filter", "propagate"}
  ProxyOps = {"read", "write", "read-write"}
SYMMETRY SessionSymmetry
INVARIANTS FormatsAgree NoEarlyRefusal BudgetOfOneInit PublicReadsOnly PublicSinksSealed RepliesReadable
PROPERTY ReadsAreMonitored
CHECK_DEADLOCK FALSE
