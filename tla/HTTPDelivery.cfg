CONSTANTS
  BufSize = 2
  PosMod = 16
  UpstreamPos = 14
  Metas = {"info"}
  MaxHeaders = 2
  MaxPackets = 4
  MaxVersions = 1
SPECIFICATION FairSpec
PROPERTIES
  Contiguous
  HeaderDelivered
