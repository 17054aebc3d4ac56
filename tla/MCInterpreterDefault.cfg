SPECIFICATION MCSpec
CONSTANTS
  Objects <- MCObjects
  MainNames <- MCMainNames
  Registered <- MCRegistered
  MAX_SECTIONS = 10
  BadName = BadName
  HasDataRelocation = TRUE
  NoName = NoName
  Codes <- MCCodes
  StackLen = 8
  UsageOf <- MCUsageOf
  CallDepth = 2
  UnwindAt = 1
  NULL = NULL
  LW = 4
  PW = 3
  MAX_CALL_DEPTH = 2
  STACK_SIZE = 64
  Helpers = {1}
  UnwindIndex = 1
  FramePointers = {8, 64}
  RegValues = {1, 2}
  Programs <- OneCall
  StackUse <- OneUse
  Calculator = FALSE
  Limits = {0, 7}
  MaxLoads = 1
INVARIANT DefaultStackUsage
CHECK_DEADLOCK FALSE
