SPECIFICATION Spec
CONSTANTS
  r = r  p = p  a = a  m = m  m1 = m1  m2 = m2
  f = f  f1 = f1  f2 = f2  c1 = c1  c2 = c2
  l = l  l1 = l1  w = w  w1 = w1  w2 = w2  g = g  g1 = g1  k = k
  NoNode = NoNode  NoKey = NoKey
  Root = r
  Key = {k}
  Guarded = {}
  Stops = {}
  Node <- DeskNode
  Kids <- DeskKids
  Kind <- DeskKind
  Parent <- DeskParent
  Else <- DeskElse
  Width <- DeskWidth
  NoMatch <- DeskNoMatch
  Writes <- DeskWrites
CHECK_DEADLOCK FALSE
INVARIANTS
    PlaceholderNotRead
