SPECIFICATION Spec
CONSTANTS
  alice = alice
  smarthome = smarthome
  assistantAgent = assistantAgent
  assistant = assistant
  sensor = sensor
  aliceHome = aliceHome
  read = read
  runner = runner
  backend = backend
  profile = profile
  deployed = deployed
  offboarded = offboarded
  h1 = h1
  h2 = h2
  c1 = c1
  None = None
  Never = Never
  Users = {alice}
  Applications = {smarthome}
  Agents = {assistant}
  Devices = {sensor}
  Homes = {aliceHome}
  Capabilities = {read}
  Operator <- MCOperator
  HomeOwner <- MCHomeOwner
  HomeOf <- MCHomeOf
  Clients = {smarthome, assistantAgent}
  Workloads = {runner, backend}
  Endpoints = {profile}
  SpecialPaths = {}
  Configs = {deployed, offboarded}
  Document <- MCDocument
  Calls = {c1}
  Requests <- MCRequests
  Worlds = {}
  Handlers = {h1}
  Asks <- MCAsks
  Sensitive = {}
  TTLs = {0, 2}
  DefaultTTL = 1
  MaxTTL = 2
  LastWrite = 1
  MaxTime = 3
INVARIANT
  EnforcementTypeOK
PROPERTIES
  ConsentLastWord
  DelegationLastWord
  DecommissionedAgentRefused
CHECK_DEADLOCK FALSE
