SPECIFICATION Spec
CONSTANTS
  Tile = 2
  Sizes <- MCSizes
  Values = {0, 1}
  Black = 0
  Blocks <- MCBlocks
INVARIANTS CleanTileShown RectsApart
PROPERTY PullDelivers
