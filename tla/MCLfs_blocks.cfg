SPECIFICATION Spec
CONSTANTS
  n1 = n1
  n2 = n2
  n3 = n3
  d1 = d1
  d2 = d2
  d3 = d3
  SegNum = 4
  MaxContainer = 10
  Data = {d1, d2}
  FirstByte <- AllDistinct
  Names = {n1}
  RecPerSeg = 15
  MaxInode = 2
  RecipeNum = 2
  MaxDepth = 0
  NoFp = NoFp
  BlkSize = 2
  TextLen <- AllText
  EmptyReads = FALSE
  DeepPaths = TRUE
  RenameOnto = TRUE
INVARIANT ReadsAllBlocks
