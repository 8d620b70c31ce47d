CONSTANTS
  p1 = p1
  p2 = p2
  p3 = p3
  p4 = p4
  s1 = s1
  s2 = s2
  k1 = k1
  f1 = f1
  b1 = b1
  b2 = b2
  b3 = b3
  q1 = q1
  q2 = q2
  m1 = m1
  m2 = m2
  m3 = m3
  c1 = c1
  c2 = c2
  g1 = g1
  g2 = g2
  h1 = h1
  h2 = h2
  Request = {r1, r2}
  Promo = {p1, p2, p3, p4}
  BarOf <- MCBarOf
  Place = {a1}
  Drink = {d1, d2}
  Entry = {e1}
  Incoming <- MCIncoming
  MaxSlots = 2
  Tier = {0, 2}
  Goal = 1
  MaxDay = 3
  Special = {s1, s2}
  Package = {k1}
  Event = {f1}
  Rarity = {q1, q2}
  Quota <- MCQuota
  ActiveLimit = 1
  Reservation = {v1, v2}
  Bar = {c1, c2}
  Target = {1, 2}
  Piece = {m1, m2, m3}
  PieceLimit = 1
  Position = {n1, n2}
  Image = {i1, i2}
  User = {u1, u2}
  Google = {g1, g2}
  Spot = {h1}
  GoogleOf <- MCGoogleOf
  BarAt <- MCBarAt
  SpotOf <- MCSpotOf
  Answer <- MCAnswer
  Fix <- MCFix
  Stars = {5}
  MaxResolve = 1
  MaxDate = 1
  MaxTrips = 2
  MaxEarned = 2
  MaxPublished = 3
  MaxBooked = 3
  MaxVisited = 3
  MaxDesigned = 4
  MaxPrinted = 2
  None = None
SPECIFICATION MCSpec
SYMMETRY Symmetry
INVARIANTS TypeOK  LimitsHold  OutcomesDelivered PlacesStand
PROPERTY DecisionsStand
CHECK_DEADLOCK FALSE
