SPECIFICATION Spec
CONSTANTS
  r1 = r1
  r2 = r2
  Requests = {r1, r2}
  Pool <- Three
  MaxIndex = 7
SYMMETRY Symmetry
INVARIANTS OneBreakerPerName FirstChoicesEven
