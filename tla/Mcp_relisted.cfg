CONSTANTS
  app = app
  other = other
  search = search
  read = read
  c1 = c1
  c2 = c2
  c3 = c3
  p1 = p1
  p2 = p2
  Callers = {app}
  Tools = {search, read}
  Clients = {c1, c2}
  Attempts = {p1}
  Options <- MCOptions
SPECIFICATION Spec
SYMMETRY Symmetry
CONSTRAINT Explored
INVARIANT RefreshReplaces
