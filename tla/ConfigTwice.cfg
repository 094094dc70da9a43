SPECIFICATION Spec
CONSTANTS
  h1 = h1
  h2 = h2
  a1 = a1
  a2 = a2
  e1 = e1
  e2 = e2
  f1 = f1
  f2 = f2
  Hubs = {h1}
  Addresses = {a1, a2}
  Entries = {e1, e2}
  Flows = {f1, f2}
  Void = Void
  None = None
  MaxSaves = 2
  MaxUpsets = 1
INVARIANT HubAddedOnce
SYMMETRY MCSymmetry
