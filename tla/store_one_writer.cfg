\* One process saves, another only loads.
CONSTANTS
  DC = {1, 2}
  Key <- Keys
  MaxDcs = 2
  Proc = {w, r}
  Writer = {w}
  Cleaner = {w}
  Inode = {i1, i2, i3, i4}
  None = None
  FirstFile <- FirstFiles
SYMMETRY Symmetric
SPECIFICATION Spec

INVARIANTS SavedIsVisible
PROPERTIES NeverTruncated AtomicSpec
