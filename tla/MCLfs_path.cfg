SPECIFICATION Spec
CONSTANTS
  n1 = n1
  n2 = n2
  n3 = n3
  d1 = d1
  d2 = d2
  d3 = d3
  SegNum = 4
  MaxContainer = 10
  Data = {d1}
  FirstByte <- AllDistinct
  Names = {n1, n2}
  RecPerSeg = 3
  MaxInode = 5
  RecipeNum = 1
  MaxDepth = 3
  NoFp = NoFp
  BlkSize = 2
  TextLen <- AllText
  EmptyReads = FALSE
  DeepPaths = FALSE
  RenameOnto = FALSE
SYMMETRY Symmetry
INVARIANT CwdIsPath DirsTidy PathSound
