CONSTANTS
  Channels = {c1, c2}
  Connects = {"ok", "failed", "unresolved"}
  Errors = {"partial", "empty"}
  MaxOps = 2
  MaxPings = 2
  MaxFaults = 2
SPECIFICATION FairSpec
INVARIANTS TypeOK JoinedOnServer OneReader PongFindsConnection
PROPERTIES CrashOnlyWhileApart MembershipSpec LossRecovered
CHECK_DEADLOCK FALSE
