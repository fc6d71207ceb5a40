\* Ten bytes at address 3; blocks of 4, 2 and 5 bytes, two held at once.
CONSTANTS
  UsizeMax <- MCUsizeMax
  Alignments <- MCAlignments
  Base = 3
  Total = 10
  Word = 2
  MaxMarks = 1
  Blocks = {b1, b2}
  Classes <- MCClasses
  DefaultAlignment = 2
  Required <- MCRequired
SPECIFICATION Spec
INVARIANTS
  EveryPositionCanBeMarked
  HeldBlocksAreWholeClasses
PROPERTY ArenaSteps
