\* Five slots: two live carves with reservations below, between and above them.
CONSTANTS
  SlotCount = 5
  SlotSize = 2
  Carves = {c1, c2, c3}
SPECIFICATION Spec
INVARIANTS
  LiveRangeCoversCarved
  OneBorrowPerSlot
PROPERTIES
  ReleasesAreLifo
  LendsExclusively
