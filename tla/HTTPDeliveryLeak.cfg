CONSTANTS
  BufSize = 2
  PosMod = 16
  UpstreamPos = 14
  Metas = {"info"}
  MaxHeaders = 2
  MaxPackets = 3
  MaxVersions = 1
SPECIFICATION Spec
PROPERTIES
  NoEarlyBody
