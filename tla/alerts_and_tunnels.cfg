SPECIFICATION MCSpec
CONSTANTS
  caddy = caddy
  blog = blog
  Check = {caddy, blog}
  Caddy = caddy
  Site = {blog}
  MaxFailures = 2
  Tunnels = {t1, t2}
  Calls = {s1}
  Projects = {p1, p2}
  Nobody = nobody
  MaxConnections = 3
  MaxPerProject = 2
  BufferBytes = 1
  ProjectBuffer = 2
  TotalBuffer = 3
  PendingBytes = 1
  AnswerBytes = 1
  Addresses = 2
SYMMETRY Sym
INVARIANTS DownIsTold AlertsAndEndsMatch NeverLate NotForgotten HoldBounded
PROPERTIES HalvedDrains
