\* Two processes save and load.
CONSTANTS
  DC = {1, 2}
  Key <- FewKeys
  MaxDcs = 2
  Proc = {w1, w2}
  Writer = {w1, w2}
  Cleaner = {}
  Inode = {i1, i2, i3, i4, i5}
  None = None
  FirstFile <- FirstFiles
SYMMETRY Symmetric
SPECIFICATION Spec
PROPERTY NeverTruncated
