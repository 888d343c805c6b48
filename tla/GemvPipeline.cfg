CONSTANTS
  Tiles <- MCTiles
  CPC = 2
  None = None
  Launches <- MCLaunches
SPECIFICATION TileSpec
INVARIANTS
  StoredDots
  TileComplete
  SmemSuffices
