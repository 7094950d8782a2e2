SPECIFICATION FairSpec
CONSTANTS
  r = r  p = p  a = a  m = m  m1 = m1  m2 = m2
  f = f  f1 = f1  f2 = f2  c1 = c1  c2 = c2
  l = l  l1 = l1  w = w  w1 = w1  w2 = w2  g = g  g1 = g1  k = k
  NoNode = NoNode  NoKey = NoKey
  Root = r
  Key = {k}
  Guarded = {p, a, m1, w2}
  Stops = {l}
  Node <- TeamNode
  Kids <- TeamKids
  Kind <- TeamKind
  Parent <- TeamParent
  Else <- TeamElse
  Width <- TeamWidth
  NoMatch <- TeamNoMatch
  Writes <- TeamWrites
CHECK_DEADLOCK FALSE
INVARIANTS
    TypeOK
    ScopedRuns
    UsageIsWhole
    CapturesInOrder
PROPERTIES
    RunSettles
