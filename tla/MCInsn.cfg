SPECIFICATION Spec
CONSTANTS
  Words <- MCWords
  CCs = {0, 47}
INVARIANTS LengthAgrees ClockCoversBus IndexedRight ArithmeticRight FlagsRight
