CONSTANTS
  NULL = NULL
  NIL = NIL
  p1 = p1
  huge = huge
  broken = broken
  Programs = {p1, huge, broken}
  Loadable = {p1, huge}
  Compilable = {p1, broken}
  CallsOf <- MCCallsOf
  TableAt <- MCTableAt
  MAX_EXT_FUNCS = 2
  Functions = {f0}
  UnwindIndexes = {}
  f0 = f0
  f1 = f1
  f2 = f2
  f3 = f3
  UBPF_MAX_INSTS = 65536
  N_EXT_FUNCS = 4
  BasicJitMode = TRUE
  Archs = {"x86"}
  JitPrograms <- Far
  Markers = TRUE
  Sizes = {5000}
  Values = {0, 1}
  Usage <- MCUsage
  UnwindIndex = 2
  HelperAddresses <- MCHelpers
  RegisteredHelpers <- MCRegistered
  MaxDepth = 2
  MaxUpdates = 1
  H = 2
  Jobs <- NoJobs
  Stale = 9
  RegisterValues <- ValuesFor
SPECIFICATION MCSpec
PROPERTY NativeRefines
CHECK_DEADLOCK FALSE
