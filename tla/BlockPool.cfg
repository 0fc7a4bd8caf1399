SPECIFICATION Spec
CONSTANTS
  g = g
  a = a
  b = b
  c = c
  d = d
  e = e
  f = f
  NoBlock = NoBlock
  Genesis = g
  Block = {g, a, b, c, d, e, f}
  ParentHash <- MCParent
  Height <- MCHeight
  Timestamp <- MCTimestamp
  Executable = {}
  DynastySize = 3
  size = 4
INVARIANTS LinksAreParents FindersAgree
PROPERTIES ParentSurvives
