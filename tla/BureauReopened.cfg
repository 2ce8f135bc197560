\* Two overlapping requests on one connection.
SPECIFICATION Spec
CONSTANTS
  u1 = u1
  None = None
  Users = {u1}
  Conns = {c1}
  Reqs = {r1, r2}
  UserOf <- OneUser
  Keys = {k1}
  MaxFaults = 0
  MaxRestarts = 0
  ExperianMock = FALSE
PROPERTIES StaysSettled
