SPECIFICATION Spec
CONSTANTS
  h1 = h1
  h2 = h2
  h3 = h3
  Hosts = {h1, h2}
  Prefix <- MCPrefix
  Speed <- MCSpeed
  BaseServers <- MCBaseServers
  Files = {f1}
  Threads = {t1, t2}
  Sessions = {s1, s2}
  FolderAtStart = TRUE
  StartResource = None
  Connects = {"ok"}
  Answers = {"ok"}
  ApiHosts = {}
  MaxRequests = 0
  MaxMesures = 1
  MaxFaults = 0
  None = None
SYMMETRY MCSymmetry
INVARIANTS FastestSelected

CHECK_DEADLOCK FALSE
