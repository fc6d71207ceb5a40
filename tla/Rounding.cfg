SPECIFICATION MCSpec
CONSTANTS
  Subjects = {"numbers"}
  MaxDepth = 2
  MaxItems = 2
  MaxLength = 2
  MaxNodes = 4
  MaxRead <- MCMaxRead
  MaxTracked = 2
  MaxText = 6
  DTypes = {"F16"}
  Operands <- MCOperands
  Partners <- MCPartners
  Probes <- MCProbes
  Epsilon = 1024
  Squares <- MCSquares
  Factors <- MCFactors
  Flats <- MCFlats
  Columns <- MCColumns
  Capacities = {1, 2, 3}
  Stride = 2
  MaxTokens = 9
  MaxLogged = 5
  UsizeMax = 15
  Alignments = {1, 2, 4, 8}
  Lengths = {0, 1, 2, 3, 4}
  Sides = {0, 1, 2, 3}
  NearMax = {14, 15}
  PayloadValues <- MCPayloadValues
  WeightValues <- MCWeights
  Widths = {1, 2}
  Confidences <- MCConfidences
  Distances = {3}
  MaxInbox = 2
  NonFinite = 99
  MostFinite = 8
INVARIANT
  RoundsToNearest
CHECK_DEADLOCK FALSE
