\* Every document of at most three sections over five trails and five bodies,
\* and every pair of rankings of four rows with pools of three.  Each input is
\* computed once.
SPECIFICATION TextSpec
CONSTANTS
  Top = Top
  SecA = SecA
  SecB = SecB
  Junk = Junk
  MinChunk = 3
  ChunkSize = 6
  Overlap = 1
  JunkHeadings = {Junk}
  RrfK = 60
  Pool = 3
  Trails <- MCTrails
  Shapes <- MCShapes
  MaxSections = 3
  Queries <- MCQueries
  Nothing = Nothing
INVARIANTS NothingLost PagesHold TrailsTrue FusionFair 
CHECK_DEADLOCK FALSE
