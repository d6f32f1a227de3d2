SPECIFICATION Spec
CONSTANTS
  s1 = s1
  s2 = s2
  t1 = t1
  t2 = t2
  t3 = t3
  p1 = p1
  p2 = p2
  u1 = u1
  u2 = u2
  Never = Never
  None = None
  Users = {u1}
  Sessions = {s1, s2}
  Tokens = {t1, t2, t3}
  Lives = {1, 2}
  LockLife = 1
  Procs = {p1}
  Jobs <- LoginAndAll
  Faults = FALSE
SYMMETRY Draws
PROPERTY
  ForceLogoutAll
CHECK_DEADLOCK FALSE
