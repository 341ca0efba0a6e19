CONSTANTS
  tracker = tracker
  near = near
  nearLocal = nearLocal
  s1 = s1
  ourIP = ourIP
  NoAddr = NoAddr
  Addrs = {tracker, near, nearLocal}
  TrackerAddr = tracker
  OurIP = ourIP
  HostAtoms <- MCHostAtoms
  QueueCap = 1
SPECIFICATION FairRelaySpec
INVARIANTS
  NoHotRetry
  UpstreamServed
PROPERTIES
  BumpServed
  StopEnds
