SPECIFICATION HistorySpec
CONSTANTS
  Projects = {p1, p2}
  Stories = {s1}
  Developers = {d1, d2, d3}
  Admin = admin
  Workers = {w1, w2}
  None = none
  MaxPoints = 2
SYMMETRY Sym
CONSTRAINT OneOfAKind
INVARIANTS
  ThirdOnlyIfCrowded
  ChartInStepUnlessTorn
