CONSTANTS
  Lines <- MCLines
  Identify <- MCIdentify
  Workers = 2
  MaxLines = 3
  MaxFaults = 1
  Words <- MCWords
  BadgeWords <- MCBadgeWords
  BadgeLists <- MCBadgeLists
  MaxWords = 2
SPECIFICATION FairSpec
INVARIANTS
  MessagesAreLines InOneBatch LostOnlyBehindNameless
  TypeIsCommand TextIsWhole SenderIsRead
PROPERTIES EveryMessageHandled
CHECK_DEADLOCK FALSE
