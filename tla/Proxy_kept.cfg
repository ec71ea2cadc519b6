SPECIFICATION ProxySpec
CONSTANTS
  secretTag = secretTag
  trustTag = trustTag
  Wildcard = "*"
  Clients = {"client"}
  ProxyLabels <- MCProxyLabels
  ProxyResponses <- MCResponses
  ProxyGrants <- MCGrants
  ProxyModes = {"filter"}
  ProxyOps = {"read"}
INVARIANT FilteredRemoved
CHECK_DEADLOCK FALSE
