SPECIFICATION Spec
CONSTANTS
  star = star
  secretTag = secretTag
  trustTag = trustTag
  a1 = a1
  c1 = c1
  c2 = c2
  Wildcard = star
  NoCall = NoCall
  Tags <- MCTags
  Agents = {a1}
  Calls <- OneCall
  GuardLabels <- AllLabels
  Responses <- AllResponses
  AgentGrants <- AllGrants
  CallModes = {"strict", "filter"}
  CallOps = {"read"}
  MaxGrants = 1
INVARIANTS NothingUnchecked
