SPECIFICATION Spec
CONSTANTS
  Hosts = {profileApp, smarthomeApp}
  Requests = {r1}
  Ids = {i1, i2, i3}
  Logins = {l1}
  None = None
  Never = Never
  TokenLife = 2
  Skew = 1
  Timeout = 1
  TTL = 3
  PendTTL = 1
  MaxTime = 4
SYMMETRY Symmetry
PROPERTIES
  SignOutEverywhere
