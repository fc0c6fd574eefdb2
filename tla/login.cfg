\* Two logins at once over three addresses and a store that holds two; locks
\* shorter and longer than the TTL.
SPECIFICATION Spec
CONSTANTS
  x = x
  y = y
  z = z
  r1 = r1
  r2 = r2
  Address = {x, y, z}
  Session = {r1, r2}
  threshold = 3
  LockTimes = {1, 3}
  ttl_seconds = 2
  max_accounts = 2
INVARIANTS
  TypeOK
  OldestFirst
  LockInTime
PROPERTIES
  LockHolds
  LockEnds
