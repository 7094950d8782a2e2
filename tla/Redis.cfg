SPECIFICATION Spec
CONSTANTS
  Pod = {p1, p2}
  Run = {r1, r2}
  NoRun = NoRun
  NoRow = NoRow
  MaxCrashes = 2
  MaxLapses = 1
  MaxTorn = 0
SYMMETRY Symmetry
CHECK_DEADLOCK FALSE
INVARIANTS
    TypeOK
    Reachable
    ListedOnce
PROPERTIES
    MovesForward
