SPECIFICATION Spec
CONSTANTS
  Hosts = {profileApp}
  Requests = {r1, r2}
  Ids = {i1, i2}
  Logins = {l1}
  None = None
  Never = Never
  TokenLife = 2
  Skew = 1
  Timeout = 1
  TTL = 3
  PendTTL = 1
  MaxTime = 4
SYMMETRY Symmetry
INVARIANTS
  SessionsTypeOK
  RenewedInTime
  IdentifiersRenewed
PROPERTIES
  SignOutTakesHold
