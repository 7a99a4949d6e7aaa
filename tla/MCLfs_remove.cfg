SPECIFICATION Spec
CONSTANTS
  n1 = n1
  n2 = n2
  n3 = n3
  d1 = d1
  d2 = d2
  d3 = d3
  SegNum = 8
  MaxContainer = 9
  Data = {}
  FirstByte <- AllDistinct
  Names = {n1, n2, n3}
  RecPerSeg = 15
  MaxInode = 4
  RecipeNum = 1
  MaxDepth = 0
  NoFp = NoFp
  BlkSize = 2
  TextLen <- AllText
  EmptyReads = FALSE
  DeepPaths = TRUE
  RenameOnto = TRUE
PROPERTY OneNameGone
