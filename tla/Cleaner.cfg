CONSTANTS
  i1 = i1
  i2 = i2
  id1 = id1
  k1 = k1
  api = api
  cleaner = cleaner
  Instances = {i1, i2}
  Ids = {id1}
  Keys = {k1}
  Callers = {api, cleaner}
  IdsOfKey <- MCIdsOfKey
  MaxRelayChannels = 1
  None = None
  CleanerThread = cleaner
  Kinds = {"listener", "relay"}
  InactiveLimit = 1
SPECIFICATION FairCleanerSpec
INVARIANTS
  KeyMapsAgree
  NoLostRelay
PROPERTIES
  WatchedChannelKept
  IdleRemoved
  StopReturns
  DeadChannelRemoved
