SPECIFICATION Spec
CONSTANTS
  h1 = h1
  h2 = h2
  h3 = h3
  Hosts = {h1, h2, h3}
  Prefix <- MCPrefix
  Speed <- MCSpeed
  BaseServers <- MCBaseServers
  Files = {f1, f2}
  Threads = {t1, t2}
  Sessions = {s1, s2}
  FolderAtStart = FALSE
  StartResource = h1
  Connects = {"ok", "refused", "throws"}
  Answers = {"ok", "fail", "silent"}
  ApiHosts = {h3}
  MaxRequests = 2
  MaxMesures = 0
  MaxFaults = 1
  None = None
SYMMETRY MCSymmetry
INVARIANTS TypeOK OpensInsideStrand CrashNeedsCause
PROPERTIES PendingUntilDelivered BookSpec
CHECK_DEADLOCK FALSE
