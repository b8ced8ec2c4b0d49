\* Renames one at a time, two categories, one product, one form, under the fairness
\* of the platform.
SPECIFICATION FairSpec
CONSTANTS
  CategoryIds = {1, 2}
  ProductIds = {p1}
  Names = {m, n}
  Forms = {f1}
  MaxPending = 1
  Autre = Autre
  NoName = NoName
  NoId = NoId
  Unused = Unused
  Gone = Gone
INVARIANTS
  TypeOK
  

  
