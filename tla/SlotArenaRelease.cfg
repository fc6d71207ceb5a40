\* The same arena, against what the tests say of releasing a reserved slot.
CONSTANTS
  SlotCount = 4
  SlotSize = 2
  Carves = {c1, c2}
SPECIFICATION Spec
PROPERTY ReleasesOnlyCarvedSlots
