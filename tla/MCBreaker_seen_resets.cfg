SPECIFICATION Spec
CONSTANTS
  c1 = c1
  c2 = c2
  o1 = o1
  Callers = {c1, c2}
  Observers = {o1}
  Reasons = {"blocked", "rate_limited"}
  MaxRequests = 1
SYMMETRY Symmetry
PROPERTIES SeenNeverResetsOpen
