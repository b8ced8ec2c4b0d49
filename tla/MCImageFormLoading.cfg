\* The text of the photo's button, which the code refutes.
SPECIFICATION Spec
CONSTANTS
  f1 = f1
  f2 = f2
  r1 = r1
  r2 = r2
  i1 = i1
  i2 = i2
  i3 = i3
  t1 = t1
  t2 = t2
  Forms = {f1, f2}
  Restaurants = {r1, r2}
  Images = {i1, i2}
  Tasks = {t1, t2}
  Folder = Folder
  NoForm = NoForm
  NoDoc = NoDoc
  NoImage = NoImage
INVARIANTS
  LoadingIsShown
\* Forms and pages are opened once: the model stops in the end.
CHECK_DEADLOCK FALSE
