SPECIFICATION AllSpec
CONSTANTS
  LEVELS = 2
  FAN = 4
  FRAMES = 14
  Old = old
  New = new
  Mm = {old, new}
  Active = {}
  Value <- StalePage
  AREAS = 4
  Perm <- Perms
  Excluded = {}
  PAGE_SIZE = 4
  PTR = 2
  STACK = 3
  WORD = 32
  HEADER = 2
  PHEADER = 2
  Programs <- Files
  Arguments <- Argvs
  Item = {1, 2}
  ITEMS = 5
  \* Caches of order 0, 1 and 2 with two or three objects in a slab, and a cache
  \* that no order is enough for.
  SLAB_PAGE = 8
  MAX_ORDER = 2
  META = 3
  LINK = 2
  Sizes = {1, 3, 8, 15}
  Aligns = {2}
  BLOCKS = 3
  Proc = {p1, p2}
  MAX_RANGES = 2
  BOOT_PAGE = 2
  TOP = 13
  LOW = 2
  CALLS = 1
  Maps <- BootMaps
  Image <- BootImage
  Requests <- BootRequests
  Descriptors <- BootDescriptors
INVARIANTS
  AllOrNothing
  ImageOK
  ExampleConserves
  BootMemoryOK
  EarlyMap
  InitrdLoaded
  SlabOK
  ScreenShows
  LibraryCorrect
PROPERTY
  BootGivesUpOnlyWhenFull
SYMMETRY Symmetric
