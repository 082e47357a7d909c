CONSTANTS
  c1 = c1
  c2 = c2
  p1 = p1
  p2 = p2
  None = None
  GPU = {0, 1, 2}
  Pod = {p1, p2}
  Caller = {c1, c2}
  Link <- ThreeGPUs
  Ids <- SomeIds
SYMMETRY Symmetry
SPECIFICATION Spec
INVARIANTS
  TypeOK
  IInv
  FreePairsKeepLink
