\* Two users' sessions, three overlapping requests.
SPECIFICATION Spec
CONSTANTS
  u1 = u1
  u2 = u2
  s1 = s1
  None = None
  Users = {u1, u2}
  Accounts <- TwoUsers
  Sessions = {s1, s2}
  Tokens = {t1, t2, t3}
  Links = {k1}
  Reqs = {r1, r2, r3}
  MaxFaults = 1
SYMMETRY MCSymmetry
INVARIANTS TypeOK RevokedStayDead
PROPERTIES ChainSpec KeptUnlessRevoked LinkSetsOnce
