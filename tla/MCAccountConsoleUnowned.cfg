SPECIFICATION Spec
CONSTANTS
  alice = alice
  smarthome = smarthome
  assistant = assistant
  sensor = sensor
  aliceHome = aliceHome
  view = view
  unlock = unlock
  h1 = h1
  h2 = h2
  Never = Never
  Users = {alice}
  Applications = {smarthome}
  Agents = {assistant}
  Devices = {sensor}
  Homes = {aliceHome}
  Capabilities = {view, unlock}
  Operator <- MCOperator
  HomeOwner <- MCHomeOwner
  HomeOf <- MCHomeOf
  Handlers = {h1, h2}
  Asks <- MCAsks
  Sensitive = {unlock}
  TTLs = {0, 1, 3}
  DefaultTTL = 1
  MaxTTL = 2
  LastWrite = 2
  MaxTime = 4
INVARIANT
  NothingActsUnowned
CHECK_DEADLOCK FALSE
