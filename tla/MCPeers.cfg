SPECIFICATION Spec
CONSTANTS
  w1 = w1
  w2 = w2
  d1 = d1
  d2 = d2
  Worker = {w1, w2}
  Device = {d1, d2}
  MaxDevices = 1
  MaxKeys = 3
  Editors = {w1, w2}
  Hosts = {w2}
  MaxMessages = 1
  MaxEdits = 3
  MaxOpens = 2
  MaxFaults = 1
INVARIANTS RevokedNotServed MembershipKept IdentityStable
PROPERTIES RequestsReturn
CHECK_DEADLOCK FALSE
