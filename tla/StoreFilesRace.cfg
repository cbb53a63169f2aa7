CONSTANTS
  c1 = c1
  c2 = c2
  i1 = i1
  i2 = i2
  i3 = i3
  i4 = i4
  NoInode = NoInode
  NoClient = NoClient
  Clients = {c1, c2}
  Inodes = {i1, i2, i3, i4}
  MaxRoot = 2
  Uses <- RaceUses
SPECIFICATION Spec
SYMMETRY Symmetric
INVARIANT SingleClient
CHECK_DEADLOCK FALSE
