\* Three overlapping requests of one user, batches of one code out of two, so that two batches
\* may share it; the third batch meets the two that overlapping requests left.
SPECIFICATION Spec
CONSTANTS
  Users = {u1}
  Reqs = {r1, r2, r3}
  Secrets = {s1, s2}
  Codes = {c1, c2}
  CodeCount = 1
  None = None
  MaxBatches = 3
  MaxFaults = 1
SYMMETRY MCSymmetry
INVARIANTS TypeOK UsedOnce CodesNeedTotp BatchesReplaced EnabledProved
