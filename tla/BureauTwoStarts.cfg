\* Two overlapping starts of one user.
SPECIFICATION Spec
CONSTANTS
  u1 = u1
  None = None
  Users = {u1}
  Conns = {c1, c2}
  Reqs = {r1, r2}
  UserOf <- OneUser
  Keys = {k1}
  MaxFaults = 0
  MaxRestarts = 0
  ExperianMock = FALSE
INVARIANTS OneInProgress
