\* Three overlapping requests of one user on one connection.
SPECIFICATION Spec
CONSTANTS
  u1 = u1
  None = None
  Users = {u1}
  Conns = {c1}
  Reqs = {r1, r2, r3}
  UserOf <- OneUser
  Keys = {k1, k2}
  MaxFaults = 1
  MaxRestarts = 1
  ExperianMock = FALSE
SYMMETRY MCSymmetry
INVARIANTS TypeOK PriorStepsStored JobRowExists ScoreBacked FailureExplained RegisteredOnce
PROPERTIES LedgerSpec
