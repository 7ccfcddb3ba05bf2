CONSTANTS
  ann = ann
  black = black
  white = white
  old = old
  r1 = r1
  r2 = r2
  r3 = r3
  NoCart = NoCart
  Users = {ann}
  Options = {black, white}
  Requests = {r1, r2, r3}
  Quantities = {0, 1, 2}
  SeedLines <- MCSeedLines
SPECIFICATION Spec
SYMMETRY Symmetry
INVARIANTS TypeOK OneLinePerOption AloneIsExact NothingInvented
CHECK_DEADLOCK FALSE
