CONSTANTS
  r1 = r1
  r2 = r2
  r3 = r3
  h1 = h1
  c1 = c1
  a1 = a1
  a2 = a2
  lan = lan
  None = None
  Conns <- MCConns
  ConnType <- MCConnType
  Channels = {c1}
  ConnChannel <- MCConnChannel
  ConnAddr <- MCAddr
  Addrs = {a1, a2, lan}
  PrivateAddrs = {lan}
  MaxRelays = 2
  MaxListeners = 1
  MaxRelaysTotal = 1
  MaxUpstreamKbps = 1
SPECIFICATION FairSpec
INVARIANTS
  CountersExact
  ChannelLimits
  TotalLimit
  NoSlotLeak
PROPERTY AdmitMuReleased
