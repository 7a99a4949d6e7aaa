SPECIFICATION Spec
CONSTANTS
  n1 = n1
  n2 = n2
  n3 = n3
  d1 = d1
  d2 = d2
  d3 = d3
  SegNum = 4
  MaxContainer = 10
  Data = {d1, d2}
  FirstByte <- AllDistinct
  Names = {n1, n2}
  RecPerSeg = 4
  MaxInode = 3
  RecipeNum = 1
  MaxDepth = 2
  NoFp = NoFp
  BlkSize = 2
  TextLen <- AllText
  EmptyReads = FALSE
  DeepPaths = FALSE
  RenameOnto = FALSE
SYMMETRY Symmetry
INVARIANTS
  CwdIsPath
  DirsTidy
  PathSound
PROPERTIES
  ImplementsTree
