SPECIFICATION PrinterSpec
CONSTANTS
  Items = {n1, n2, n3, n4}
  Keys = {k1}
  NULL = NULL
  Leaves = {"String"}
  MaxContainers = 2
  CJSON_NESTING_LIMIT = 2
  MaxText = 5
  default_buffer_size = 12
  Prebuffers = {0, 16}
  Texts <- MCTexts
SYMMETRY Alike
INVARIANTS
  TypeOK
  ListsLinked
  MemoryOwned
  ParsesJson
  PrintsItem
  InBuffer
  OnlyTextLeft
PROPERTIES
  ItemsAreTrees
CHECK_DEADLOCK FALSE
