\* The same pool, against what the tests say of marking an empty pool.
CONSTANTS
  UsizeMax <- MCUsizeMax
  Alignments <- MCAlignments
  Base = 3
  Total = 10
  Word = 2
  MaxMarks = 1
  Blocks = {b1}
  Classes <- MCClasses
  DefaultAlignment = 2
  Required <- MCRequired
SPECIFICATION Spec
INVARIANT NoMarkAtTheStart
