SPECIFICATION MCSpec
CONSTANTS
  MaxCount = 20
  MaxBytes = 6
  Kinds = 2
  MaxUnits = 6
  Points <- MCPoints
  MaxHouses = 5
  NaiveLimit = 4
  DblMax = 1000
  Alphabet = {1, 2}
  MaxStr = 9
  MaxSep = 2
  Arguments <- MCArguments
  CommandLines <- MCCommandLines
  Width = 256
  Numbers <- MCNumbers
INVARIANTS
  FoundAwayFromTheEnd
  NoFalseHit
  BeyondOnlyForTheLast
  ReportsTheCells
  SplitThenJoin
  TextIsRead
  TokensAreThose
  PolymerReduced
  ClosestDistance
  GuardsAccounted
  SalesAgree
  LinesAreThose
PROPERTIES
  CallsShrink
