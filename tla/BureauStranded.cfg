\* A restart between the consent record and the next write.
SPECIFICATION FairSpec
CONSTANTS
  u1 = u1
  None = None
  Users = {u1}
  Conns = {c1}
  Reqs = {r1}
  UserOf <- OneUser
  Keys = {k1}
  MaxFaults = 0
  MaxRestarts = 1
  ExperianMock = FALSE
PROPERTIES CanBeFinished
