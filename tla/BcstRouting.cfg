CONSTANTS
  t = t
  a = a
  b = b
  c = c
  None = None
  Nodes = {t, a, b, c}
  Tracker = t
  InitialTTL = 3
  MaxHops = 2
  UpCap = 1
  DownCap = 2
  WireCap = 1
  Arrangements <- AllArrangements
  MaxInfo = 2
  MaxReports = 1
  MaxLeaves = 1
  MaxEvents = 2
SPECIFICATION FairSpec
CHECK_DEADLOCK FALSE
INVARIANTS
  CountedIsOwned
PROPERTIES
  TakenOnce
  Quiesces
  InfoConverges
