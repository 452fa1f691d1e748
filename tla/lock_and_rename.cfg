SPECIFICATION MCSpec
CONSTANTS
  None = None
  g1 = g1
  g2 = g2
  g3 = g3
  d1 = d1
  Machine = {g1, g2}
  Station = {d1}
  Killable = {g1, d1}
  Slow = {d1}
  From = nis2
  To = cybersolide
  Doors = {"app", "protected", "public"}
  MaxFaults = 2
  MaxStops = 2
INVARIANTS SettledOrMarked ClosedOnTheWay
PROPERTIES TakeAnswered  RegistriesFollow
CHECK_DEADLOCK FALSE
