SPECIFICATION AllSpec
CONSTANTS
  List = {h1, h2}
  Item = {a, b, c}
  Wild = wild
  MAX_ORDER = 2
  Zones <- TwoZones
  FreeRanges <- ThreeRanges
  PAGE_SIZE = 2
  LIMIT = 5
  WRITES = 2
  ToRead <- Read
  ToWrite <- Written
  Proc = {p1, p2}
  NoProc = none
  Name = {n1, n2}
INVARIANTS
  ListsAgree
  BuddyOK
  RamfsWellFormed
PROPERTIES
  BuddyImplementsAllocator
  RamfsImplementsFiles
SYMMETRY Symmetric
