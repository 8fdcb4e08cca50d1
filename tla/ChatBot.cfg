CONSTANTS
  w1 = w1  w2 = w2
  moderator = moderator  viewer = viewer
  m1 = m1  m2 = m2  m3 = m3
  a = a  b = b  c = c
  Users = {moderator, viewer}
  Ids = {a, b, c}
  Messages = {m1, m2, m3}
  Nick <- MCNick
  Role <- MCRole
  Content <- MCContent
  Workers = {w1, w2}
SPECIFICATION FairSpec
INVARIANTS RequestIsBacked
PROPERTIES EveryMessageHandled
CHECK_DEADLOCK FALSE
