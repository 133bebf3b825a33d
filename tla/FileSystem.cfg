CONSTANTS
  Inode = {1, 2, 3}
  Root = 1
  Block = {1, 2, 3, 4, 5}
  Direct = 1
  Levels = 2
  Fanout = 2
  Slots = 3
  Name = {a, b}
  TooLong = TooLong
  Depth = 2
  BlockSize = 2
  Length = 8
  Ranges <- MCRanges
  Value = {1}
  Stale = 9
  MaxRefs = 2
  NoFile = NoFile

SYMMETRY Symmetry
SPECIFICATION Spec
INVARIANTS
  BlocksOwned
  TreeExact
  LexicalPaths
PROPERTY
  StoreSpec
