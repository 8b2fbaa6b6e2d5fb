SPECIFICATION LiveSpec
CONSTANTS
  MAX_BREAKS = 2
  Addrs = {1, 2}
  Cell = 2
  Values = {0}
  Ignores = {0, 1}
  Conds = {"none"}
  Masks = {0}
  PrintOnly = {FALSE, TRUE}
  Watches <- MCReadWriteWatches
  MaxAccess = 2
  MaxTime = 1
INVARIANTS ActiveCount NoTempAtPrompt StepsOnce
PROPERTIES ExecuteStopsAsked WatchHonoured RunForStops
