SPECIFICATION MCSpec
CONSTANTS
  Limits <- MCLimits
  Bursts = {1, 2}
  Modes = {"push", "pull"}
  QueueCapacity = 2
  BURSTSIZE = 2
  MaxChanges = 2
  NDev = 1
  MaxUnlimited = 3
  NoMode = NoMode
  Contexts = {cb, hd}
  Callback = cb
  Cases <- MCCases
  MemoryMayFail = TRUE
  MaxArrivals = 3
  BASE = 16
  U64 = 2
  UDP_HEADER = 2
  Prefix <- MCPrefix
  OtherPrefix <- MCOtherPrefix
  Requests <- MCRequests
  Elements <- MCElements
  MaxSent = 3
INVARIANTS
  PacketsOwned LimitKept CallsExact
PROPERTIES
  Drained KeepsGoing StopEndsRouter
\* The system may stop: main returns, no more packets arrive.
CHECK_DEADLOCK FALSE
