CONSTANTS
  s1 = s1  s2 = s2
  Sessions = {s1, s2}
  Asked <- MCAsked
  MaxRequests = 3
SPECIFICATION FairSpec
INVARIANTS TypeOK WriteIsAlone OneHandler OneOperation
PROPERTIES RequestResponseSpec EveryRequestAnswered
CHECK_DEADLOCK FALSE
