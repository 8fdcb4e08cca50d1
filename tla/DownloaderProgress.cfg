SPECIFICATION FairSpec
CONSTANTS
  h1 = h1
  h2 = h2
  h3 = h3
  Hosts = {h1, h2}
  Prefix <- MCOnePrefix
  Speed <- MCSpeed
  BaseServers <- MCBaseServers
  Files = {f1, f2}
  Threads = {t1, t2}
  Sessions = {s1, s2, s3}
  FolderAtStart = TRUE
  StartResource = h1
  Connects = {"ok", "refused"}
  Answers = {"ok", "fail"}
  ApiHosts = {}
  MaxRequests = 2
  MaxMesures = 0
  MaxFaults = 1
  None = None

PROPERTIES LoneFileDelivered MesurementShowsAvailable StrandReleased
CHECK_DEADLOCK FALSE
