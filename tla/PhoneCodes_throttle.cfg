SPECIFICATION Spec
CONSTANTS
  p1 = p1  register = register  c1 = c1  c2 = c2  s1 = s1  s2 = s2  t1 = t1
  Phones = {p1}
  Purposes = {register}
  Codes = {c1, c2}
  Senders = {s1, s2}
  Takers = {t1}
  Throttle = 2
  Lifetime = 1
  MaxAttempts = 1
  MaxCodes = 3
  MaxTime = 2
  MaxFaults = 1
SYMMETRY Interchangeable
INVARIANTS TypeOK BurstBounded AcceptedInTime
PROPERTIES ImplementsOneTimeCodes
