SPECIFICATION Spec
CONSTANTS
  n1 = n1
  n2 = n2
  n3 = n3
  d1 = d1
  d2 = d2
  d3 = d3
  SegNum = 8
  MaxContainer = 8
  Data = {}
  FirstByte <- AllDistinct
  Names = {n1, n2}
  RecPerSeg = 15
  MaxInode = 4
  RecipeNum = 1
  MaxDepth = 2
  NoFp = NoFp
  BlkSize = 2
  TextLen <- AllText
  EmptyReads = FALSE
  DeepPaths = TRUE
  RenameOnto = TRUE
INVARIANT GetsInodeOfPath
