\* Overlapping sends and verifications of one user, two possible codes.  The instance stops
\* when its sends are used up and have expired: every further request is refused.
SPECIFICATION Spec
CONSTANTS
  Users = {u1}
  Reqs = {r1, r2}
  Codes = {c1, c2}
  None = None
  MaxAttempts = 1
  MaxSends = 3
  MaxFaults = 1
SYMMETRY MCSymmetry
CHECK_DEADLOCK FALSE
INVARIANTS TypeOK GuessesBounded AcceptsBounded CodesReplaced VerifiedFirst
