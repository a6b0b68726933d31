\* Two processes save, load and clear; the table is full with one entry.
CONSTANTS
  DC = {1, 2}
  Key <- FewKeys
  MaxDcs = 1
  Proc = {w1, w2}
  Writer = {w1, w2}
  Cleaner = {w2}
  Inode = {i1, i2, i3, i4, i5}
  None = None
  FirstFile <- FirstFiles
SYMMETRY Symmetric
SPECIFICATION Spec

INVARIANTS AllWellFormed
