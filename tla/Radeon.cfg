\* Two render nodes, pages of four bytes, sizes up to three in a packed field.
SPECIFICATION Spec
CONSTANTS
  PageSize = 4
  ShaderVa = 8
  ShaderBytes = 3
  Field = 4
  Word = 64
  Nodes = 2
  Calls <- MCCalls
INVARIANTS
  NothingLeftBehind
  FalseLeavesTheOutput
  TrueMeansTheDevicesAnswer
  BindingsNeverCollide
  RowsStayInside
PROPERTY
  EveryCallReturns
