CONSTANTS
  Sizes = {0, 1, 2, 3}
  MaxSize = 3
  StallTicks = 3
SPECIFICATION FairSpec
INVARIANTS CancelledOnlyWhenQuiet
PROPERTIES ExchangeSpec BodyAnswered
CHECK_DEADLOCK FALSE
