\* Two accounts, two numbers and two Google subjects, one of which changes to the other's
\* address; two overlapping requests.
SPECIFICATION Spec
CONSTANTS
  e1 = e1
  e2 = e2
  s1 = s1
  s2 = s2
  None = None
  Emails = {e1, e2}
  Phones = {p1, p2}
  Subs = {s1, s2}
  Identities <- Reassigned
  Profiles = {e1}
  Reqs = {r1, r2}
  MaxFaults = 2
SYMMETRY MCSymmetry
INVARIANTS TypeOK OneAccountPerSubject PhoneProved
PROPERTIES ConflictsReal
