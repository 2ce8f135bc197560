\* One user with two passkeys, one of which counts its signatures; two overlapping requests.
\* The instance stops when its challenges are used up.
SPECIFICATION Spec
CONSTANTS
  Users = {u1}
  Reqs = {r1, r2}
  None = None
  Creds = {c1, c2}
  Counting = {c1}
  MaxChallenges = 3
  MaxSignatures = 1
  MaxRows = 2
  MaxFaults = 1
SYMMETRY MCSymmetry
CHECK_DEADLOCK FALSE
INVARIANTS TypeOK ChallengesReplaced RemovedForGood ResponseOnce
