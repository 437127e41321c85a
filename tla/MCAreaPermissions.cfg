SPECIFICATION Spec
CONSTANTS
  LEVELS = 3
  FAN = 2
  FRAMES = 8
  Mm = {m1}
  Active = {m1}
  Value = {0}
  AREAS = 2
  Perm <- AnyPermission
  Excluded = {"munmap", "mmap"}
INVARIANT AreaPermissions
