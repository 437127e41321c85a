SPECIFICATION Spec
CONSTANTS
  LEVELS = 3
  FAN = 2
  FRAMES = 9
  Mm = {m1}
  Active = {m1}
  Value = {0}
  AREAS = 3
  Perm <- ReadWrite
  Excluded = {"mmap"}
INVARIANT AreasMapped
