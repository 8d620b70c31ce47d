SPECIFICATION MCSpec
CONSTANTS
  None = None
  r1 = r1 r2 = r2 s1 = s1 s2 = s2 m1 = m1 m2 = m2 d1 = d1 d2 = d2 v1 = v1 p1 = p1
  Season = {s1, s2}
  Version = {m1, m2}
  Drink = {d1, d2}
  Visit = {v1}
  Party = {p1}
  Request = {r1, r2}
  Triple <- MCTriple
  Window <- MCWindow
  Ask <- MCAsk
  MaxDay = 2
  MaxChanges = 3
INVARIANTS TypeOK RecordsBacked NoMissedMedal AnswersAgree
PROPERTY  LedgerSpec
SYMMETRY Symmetry
CHECK_DEADLOCK FALSE
