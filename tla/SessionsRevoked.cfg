\* A refresh that overlaps a password change.
SPECIFICATION Spec
CONSTANTS
  u1 = u1
  u2 = u2
  s1 = s1
  None = None
  Users = {u1}
  Accounts <- TwoUsers
  Sessions = {s1}
  Tokens = {t1, t2}
  Links = {k1, k2}
  Reqs = {r1, r2}
  MaxFaults = 0
PROPERTIES PasswordRevokes
