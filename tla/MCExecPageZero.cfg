SPECIFICATION ExecSpec
CONSTANTS
  LEVELS = 2
  FAN = 4
  FRAMES = 14
  Old = old
  New = new
  Mm = {old, new}
  Active = {}
  Value <- StalePage
  AREAS = 4
  Perm <- Perms
  Excluded = {}
  PAGE_SIZE = 4
  PTR = 2
  STACK = 3
  WORD = 32
  HEADER = 2
  PHEADER = 2
  Programs <- Files
  Arguments <- Argvs
INVARIANT
  ZeroNeverFree
