SPECIFICATION Spec
CONSTANTS
  LEVELS = 3
  FAN = 2
  FRAMES = 8
  Mm = {m1, m2}
  Active = {m1}
  Value = {0, 1}
  AREAS = 2
  Perm <- ReadWrite
  Excluded = {"munmap", "mmap"}
INVARIANTS
  WellFormed
  MapsAreas
PROPERTY
  CopyFaithful
