\* The exclusion claimed by the docstring, with the two-step release.
SPECIFICATION Spec
CONSTANTS
  Proc = {p1, p2, p3}
  Inode = {i1, i2, i3, i4}
  NoInode = NoInode
  NoProc = NoProc
  GracefulRelease = TRUE
INVARIANT MutualExclusion
