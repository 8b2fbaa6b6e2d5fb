SPECIFICATION Spec
CONSTANTS
  Radix = 2
  SECTOR_SIZE = 2
  DISK_SECTOR_COUNT = 2
  MaxPos = 3
  MaxDirty = 1
  Data = {zero, erased, d1}
  Zero = zero
  Erased = erased
  Absent = absent
  None = none
INVARIANTS FlushedSurvives SectorsReadable
PROPERTY StoreImplemented
