SPECIFICATION Spec
CONSTANTS
  MAX_BREAKS = 1
  Addrs = {1, 2}
  Cell = 2
  Values = {0, 1}
  Ignores = {0}
  Conds = {"whole"}
  Masks = {0}
  PrintOnly = {FALSE}
  Watches = {}
  MaxAccess = 1
  MaxTime = 1
PROPERTY ConditionHolds
