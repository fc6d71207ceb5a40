\* Nine bytes at address 3, up to three carves held at once.
CONSTANTS
  UsizeMax <- MCUsizeMax
  Alignments <- MCAlignments
  Base = 3
  Total = 9
  Word = 2
  Ids = {c1, c2, c3}
  Requests <- MCRequests
  MaxMarks = 1
  Contract = "ends"
SPECIFICATION Spec
INVARIANTS
  TypeOK
  StorageIsTheRest
  HeldBelowCursor
  StartsAligned
PROPERTIES
  RewindsNeverAdvance
  LendsExclusively
