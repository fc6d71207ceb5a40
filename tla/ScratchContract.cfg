\* The same region under the contract that the documentation of reuse states.
CONSTANTS
  UsizeMax <- MCUsizeMax
  Alignments <- MCAlignments
  Base = 3
  Total = 9
  Word = 2
  Ids = {c1, c2, c3}
  Requests <- MCRequests
  MaxMarks = 1
  Contract = "starts"
SPECIFICATION Spec
PROPERTY LendsExclusively
