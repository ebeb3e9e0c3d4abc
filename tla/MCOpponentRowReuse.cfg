SPECIFICATION Spec
CONSTANTS
  t1 = t1  t2 = t2  t3 = t3  m1 = m1  m2 = m2  ann = ann  bob = bob  cat = cat
  Handlers = {h1, h2}
  Tournaments = {t1, t2, t3}
  Owner <- MCOwner
  StartedAt <- MCStartedAt
  Lists <- MCLists
  Cutoffs = {2, 3}
  MaxErasures = 2
  NoRow = NoRow
SYMMETRY Symmetry
INVARIANT ObservationsAreTheirs
