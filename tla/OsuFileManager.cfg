CONSTANTS
  long = long
  short = short
  same = same
  other = other
  odd = odd
  Names <- TheNames
  Folders <- TheFolders
  Id <- TheId
  Size <- TheSize
  RootHasSpace = FALSE
  NoId = 0
  MaxDownloads = 2
SPECIFICATION Spec
INVARIANTS OnlyShortestLeft OddNameRemovesNothing
PROPERTIES IdsKept
