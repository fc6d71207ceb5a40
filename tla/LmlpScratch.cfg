\* Eight bytes at address 3, one slice held by the caller.
CONSTANTS
  UsizeMax <- MCUsizeMax
  Alignments <- MCAlignments
  Base = 3
  Total = 8
  Word = 2
  MaxMarks = 1
  Callers = {s1}
  Elems <- MCElems
  Lens <- MCLens
  Plans <- MCPlans
  Tables <- MCTables
SPECIFICATION Spec
INVARIANTS
  FrameHoldsItsStart
  FrameCarveGivesBack
  DescTakesItsFootprint
PROPERTY ArenaSteps
