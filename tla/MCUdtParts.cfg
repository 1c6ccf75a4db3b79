CONSTANTS
  SeqNoTH = 7
  MaxSeqNo = 15
  SndListSize = 5
  SndListStart = 13
  SndListEnd = 3
  RcvListSize = 5
  RcvListStart = 13
  RcvListEnd = 4
  RingSize = 3
  MaxAcks = 6
  BufferSize = 2
  MaxBlocks = 6
  MaxPayload = 7
  SendSizes = {1, 2, 3}
  RcvSlots = 3
  MaxArrivals = 7
  ReadSizes = {1, 2, 3}
  EntrySize = 4
  FullOf = 3
  FullParts = 4
  MaxEntries = 2
  MaxDrift = 2
  Senders = {1, 2, 3, 4, 5, 6}
  SndHeaps <- MCSndHeaps
  MaxSndTime = 3
  MaxSndCalls = 3
  Receivers = {1, 2, 3}
  HashSize = 2
  Period = 1
  MaxRcvTime = 4
  Calls = {"c1", "c2"}
  KeepLimit = 2
  CacheKeys <- MCCacheKeys
  CacheSize = 3
  MaxUpdates = 6
  MinMss = 2
  MinPackets = 2
  OptionSizes = {2, 15}
  MaxOptions = 3
  Defaults <- MCDefaults
  Polls = {1, 2}
  RoomFor = 1
  MaxBusy = 3
SPECIFICATION PartsSpec
CHECK_DEADLOCK FALSE
INVARIANTS WindowIsRight AckWindowIsRight SndBufferIsRight RcvBufferIsRight FirstIsServed EverySocketIsVisited PassedReachCalls CacheIsRight SettingsFit EventsAreTold
PROPERTIES SndListIsSet RcvListIsSet UnitsSuffice
