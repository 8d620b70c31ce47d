SPECIFICATION Spec
CONSTANTS
  u1 = u1  u2 = u2  d1 = d1  d2 = d2  c1 = c1  c2 = c2  r1 = r1  r2 = r2  c3 = c3
  User = {u1, u2}
  Drink = {d1, d2}
  Code = {c1, c2}
  Request = {r1, r2}
  DrinkXp = 3
  MissionXp = 5
  Target = 1
  None = None
PROPERTY CodeIsSingleUse

