SPECIFICATION LeaseSpec
CONSTANTS
  a = a
  b = b
  x = x
  y = y
  Nobody = Nobody
  Service = {a, b, x}
  Remains = {x}
  Recycled = {}
  LeaseAttempts = 3
  MaxCrashes = 0
CHECK_DEADLOCK FALSE
INVARIANTS LeaseExclusive
