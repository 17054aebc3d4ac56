SPECIFICATION MCSpec
CONSTANTS
  NULL = NULL
  v1 = v1 v2 = v2 v3 = v3
  RODATA = RODATA
  Programs = {v1, v2, v3}
  Symbols <- MCSymbols
  Offset <- MCOffset
  Names = {"flows", "count", "events"}
  Keys = {1, 2}
  Values = {1, 2}
  Buffers = {100, 101}
  W1 = 2
  W2 = 3
  Limit = 3
  Workers = {t1, t2}
  MaxPackets = 6
  Sources = {s1, s2}
  W = 3
  MaxTime = 9
  MaxPassed = 4
  P = 3
  PORT_START = 1
  PORT_END = 4
  DEV_EX = 10
  TCP = 1
  UDP = 2
  Rests = {1, 6}
  Connections <- MCConnections
  Frames <- MCFrames
  Threads = {t1, t2}
  CounterWidth = 2
  MaxTurns = 8
  NIL = NIL
  AC_PATTRN_MAX_LENGTH = 3
  MPOOL_BLOCK_SIZE = 8
  ALIGN = 2
  Patterns <- MCPatterns
  Texts <- MCTexts
  ReplaceModes = {"NORMAL", "LAZY"}
  Keeps = {TRUE, FALSE}
  Copies = {TRUE}
  NODE_SIZE = 3
  MF_REPLACEMENT_BUFFER_SIZE = 2
  MaxPatterns = 2
  MaxStream = 4
  Confs <- MCConfs
  Packets <- MCPackets
  NOutputs = {1, 2}
  MatchWord <- MCMatchWord
  HeaderSize = 1
  MaxInspected = 4
  MaxCount = 2
  WIDTH = 8
  MacLength = 4
  MIN_BINARY_SEARCH = 3
  WordCases <- MCWordCases
  PacketFields <- MCPacketFields
  FilterConfs <- MCFilterConfs
  FilterOutputs = 2
  TypeWords <- MCTypeWords
  NameDB <- MCNameDB
  Integer <- MCInteger
  Address <- MCAddress
  Prefix <- MCPrefix
  Ether <- MCEther
  Brackets <- MCBrackets
  PORT_BITS = 4
INVARIANT OwnRodata
\* The programs may stop: the clock and the texts are bounded.
CHECK_DEADLOCK FALSE
