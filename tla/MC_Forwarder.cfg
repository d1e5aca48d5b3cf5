SPECIFICATION Spec
CONSTANTS
  Proc = {p1, p2}
  Group = {g1, g2}
  NoOne = NoOne
  Device = {d1}
  Port = {1, 2}
  HostPort = {h1, h2}
SYMMETRY MCSymmetry
INVARIANTS TablesMatchDaemon TablesAgree
CHECK_DEADLOCK FALSE
