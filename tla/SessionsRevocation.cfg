SPECIFICATION FairSpec
CONSTANTS
  t1 = t1  t2 = t2  t3 = t3  f1 = f1  f2 = f2  r1 = r1  r2 = r2  k1 = k1
  Token = {t1, t2}
  Family = {f1}
  Request = {r1, r2}
  ResetTok = {}
  MaxSv = 1
  None = None
PROPERTY RevocationIsComplete
