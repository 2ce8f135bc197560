\* One connection and a client that waits for each answer and goes on asking.
SPECIFICATION FairSpec
CONSTANTS
  u1 = u1
  None = None
  Users = {u1}
  Conns = {c1}
  Reqs = {r1}
  UserOf <- OneUser
  Keys = {k1, k2}
  MaxFaults = 2
  MaxRestarts = 2
  ExperianMock = FALSE
PROPERTIES WizardSpec CompleteReplies RequestsAnswered ProcessingSettles WizardFinishes
