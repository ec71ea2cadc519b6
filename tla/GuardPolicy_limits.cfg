SPECIFICATION PolicySpec
CONSTANTS
  Servers = {"github", "safe-outputs"}
  SafeOutputs = {"safe-outputs"}
  GlobalPolicies = {NoPolicy}
  ServerPolicies <- MCServer
  OwnPolicies = {NoPolicy}
  Exemptions = {{}}
  NoPolicy = NoPolicy
  BadPolicy = BadPolicy
INVARIANTS ValidPoliciesStart
CHECK_DEADLOCK FALSE
