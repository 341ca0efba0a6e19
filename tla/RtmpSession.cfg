CONSTANTS
  s1 = s1
  s2 = s2
  None = None
  Sessions = {s1, s2}
  MetaSessions = {s1}
  MaxChannels = 2
  MaxTags = 1
SPECIFICATION Spec
CHECK_DEADLOCK FALSE
INVARIANTS
  DeferredApplied
  InputsClosed
  FedChannelStopped
