CONSTANTS
  BufSize = 2
  PosMod = 64
  Headers = {1, 2}
  PacketLens = {1, 2}
  Times = {1, 2}
  UpstreamPos = {0, 61}
  Stride = 3
  MaxSteps = 6
SPECIFICATION Spec
CHECK_DEADLOCK FALSE
INVARIANTS
  ReadersExact
  PositionsExact
PROPERTIES
  RefinesWindow
