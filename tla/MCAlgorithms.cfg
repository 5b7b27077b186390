\* 4-bit durations and amounts; amounts of stock in quarters.
CONSTANTS
  Width = 4
  MaxAttempts = 8
  MaxLines = 3
  MaxPieces = 4
  Items = {1, 2, 3, 4, 5, 6, 7}
  Kind <- MCKind
  Recipe <- MCRecipe
  Scale = 4
  MaxOff = 1
  MaxStock = 3
  MaxQuantity = 2
SPECIFICATION Spec
INVARIANTS MatchesDoubling ExactOrRefused AsIfServed OfferKept
