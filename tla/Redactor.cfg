CONSTANTS
  Words <- SomeWords
  OneWord <- WordsAlone
  Types <- SomeTypes
  Nodes <- SomeNodes
  Depth <- SomeDepth
  Candidates <- SomeFilters
  Values <- SomeValues
  MaxAdded = 2
SPECIFICATION Spec
INVARIANTS
  TypeOK
  FirstFilterDecides
  RebuiltIfHit
  MasksHideMost

  
