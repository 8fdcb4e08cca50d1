SPECIFICATION Spec
CONSTANTS
  h1 = h1
  h2 = h2
  h3 = h3
  Hosts = {h1, h2}
  Prefix <- MCPrefix
  Speed <- MCSpeed
  BaseServers <- MCBaseServers
  Files = {f1}
  Threads = {t1, t2}
  Sessions = {s1, s2}
  FolderAtStart = FALSE
  StartResource = None
  Connects = {"ok", "refused", "throws"}
  Answers = {"ok", "fail", "silent"}
  ApiHosts = {h2}
  MaxRequests = 1
  MaxMesures = 1
  MaxFaults = 1
  None = None
SYMMETRY MCSymmetry
PROPERTIES MesurementSelectsBest
CHECK_DEADLOCK FALSE
