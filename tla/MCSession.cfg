SPECIFICATION Spec
CONSTANTS
  None = None
  Page = Page
  NameHash <- MCNameHash
  MAX_SYMBOL_HASH = 2
  Script <- MCScript
  Cut <- MCCut
  Maps <- MCMaps
  Typed <- MCTyped
  Variables <- MCVariables
  MAX_TRACE = 3
  PCs = {1, 2}
  MaxTyped = 3
  MaxFetch = 4
INVARIANT SymbolsLatest
PROPERTY KeyboardRegained
