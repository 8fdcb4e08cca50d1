CONSTANTS
  d = d
  v = v
  Values = {d, v}
  Default <- TheDefault
  Files <- TheFiles
  MaxChanges = 1
  MaxLoads = 2
SPECIFICATION Spec
INVARIANTS TypeOK LoadTakesFile ResourceHasItsPrefix
CHECK_DEADLOCK FALSE
