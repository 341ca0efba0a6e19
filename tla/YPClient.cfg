CONSTANTS
  a = a
  b = b
  Chans = {1, 2, 3}
  IDs = {a, b}
  IDOf <- MCIDOf
  Relays = {3}
  Infos = {i, j}
  MaxChanges = 2
  MaxFaults = 1
  None = None
SPECIFICATION FairSpec
CHECK_DEADLOCK FALSE
PROPERTIES
  ListingConverges
  IdleStaysAway
  StopEnds
