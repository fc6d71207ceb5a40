\* The same region; what helpers.rs says of slot_carve.
CONSTANTS
  UsizeMax <- MCUsizeMax
  Alignments <- MCAlignments
  Base = 3
  Total = 8
  Word = 2
  MaxMarks = 1
  Callers = {s1}
  Elems <- MCElems
  Lens <- MCLens
  Plans <- MCPlans
  Tables <- MCTables
SPECIFICATION Spec
INVARIANT SlotCarveServes
