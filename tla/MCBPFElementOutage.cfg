SPECIFICATION FairSpec
CONSTANTS
  Programs <- MCPrograms
  Loadable <- MCLoadable
  Compilable <- MCCompilable
  CallsOf <- MCCallsOf
  TableAt <- MCTableAt
  MAX_EXT_FUNCS = 3
  Functions = {helper, unwind}
  helper = helper unwind = unwind
  RegisteredHelpers <- MCHelpers
  UnwindIndex = 0
  NULL = NULL
  PacketThreads = {t1, t2}
  Files = {f1, f2, f3, f4, f5, none, sig1, sig2}
  Signatures = {s1, s2, s3, s4}
  SignedBy <- MCSignedBy
  InitialFS <- MCFS
  p1 = p1 p2 = p2 unsigned = unsigned unloadable = unloadable uncompilable = uncompilable
  s1 = s1 s2 = s2 s3 = s3 s4 = s4 f1 = f1 f2 = f2 f3 = f3 f4 = f4 f5 = f5
  none = none sig1 = sig1 sig2 = sig2 t1 = t1 t2 = t2
  BootRequests <- BootConfs
  Requests <- AllRequests
  HostWrites <- NoWrites
  HostWaits = TRUE
  PageMapMayFail = FALSE
  WriterPreference = TRUE
CHECK_DEADLOCK FALSE
PROPERTIES PacketsDecided
