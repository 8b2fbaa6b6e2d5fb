SPECIFICATION Spec
CONSTANTS
  BUS_MAP_SIZE = 128
  NUM_BUS_MAPS = 512
  Stores <- MCStores
  Loads <- MCLoads
  Words <- MCWords
INVARIANTS WordReadBack RegistersDescribe
PROPERTIES FixedKept ControlKept RomKept
