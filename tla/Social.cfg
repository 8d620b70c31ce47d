CONSTANTS
  p1 = p1
  p2 = p2
  k1 = k1
  k2 = k2
  User = {u1, u2}
  Room = {x1, x2}
  Request = {r1, r2}
  Socket = {s1, s2}
  Post = {p1, p2}
  Comment = {k1, k2}
  Device = {d1}
  Email = {e1}
  Object = {o1, o2}
  Birth <- MCBirth
  Today <- MCToday
  MaxMessages = 2
  MaxVersion = 1
  MaxServed = 3
  MaxFed = 3
  MaxSent = 3
  MaxApplied = 3
  MaxErased = 3
  MaxArrived = 4
  None = None
SPECIFICATION MCSpec
SYMMETRY Symmetry
INVARIANTS TypeOK FriendshipsStand   PostsAddUp 
PROPERTY TestsHold
CHECK_DEADLOCK FALSE
