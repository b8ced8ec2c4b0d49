\* Two renames on their way at once.
SPECIFICATION Spec
CONSTANTS
  CategoryIds = {1}
  ProductIds = {p1}
  Names = {m, n, o}
  Forms = {}
  MaxPending = 2
  Autre = Autre
  NoName = NoName
  NoId = NoId
  Unused = Unused
  Gone = Gone
SYMMETRY CatalogueSymmetry
INVARIANTS
  RenameTakesAll
