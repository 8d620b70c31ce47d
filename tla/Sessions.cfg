SPECIFICATION Spec
CONSTANTS
  t1 = t1  t2 = t2  t3 = t3  f1 = f1  f2 = f2  r1 = r1  r2 = r2  k1 = k1
  Token = {t1, t2, t3}
  Family = {f1, f2}
  Request = {r1, r2}
  ResetTok = {k1}
  MaxSv = 2
  None = None
SYMMETRY Symmetry
INVARIANT TypeOK OneActiveToken RotationChain
PROPERTY AccessFence FamilySpec

