SPECIFICATION DossierSpec
CONSTANTS
  s1 = s1  s2 = s2  v1 = v1  v2 = v2  v3 = v3  r1 = r1  r2 = r2  c1 = c1  c2 = c2
  Season = {s1, s2}
  Version = {v1, v2, v3}
  Request = {r1, r2}
  Copy = {c1}
  None = None
SYMMETRY Symmetry
INVARIANT TypeOK OneOfficialMedal Numbering DossierStands
PROPERTY NoSilentMove
