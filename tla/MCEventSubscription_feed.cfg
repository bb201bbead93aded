SPECIFICATION Spec
CONSTANTS
  me = me
  other = other
  t = t
  Agents <- TwoAgents
  Tags <- OneTag
  Agent = me
  Wanted <- OneTag
  MaxEvents = 4
  Capacity = 2
INVARIANTS
  NoGapWhileConnected
  ReturnsWhenComplete
PROPERTIES
  FeedSpec
  Resubscribes
CHECK_DEADLOCK FALSE
