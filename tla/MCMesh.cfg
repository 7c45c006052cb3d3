SPECIFICATION FairSpec
CONSTANTS
  alice = alice
  bob = bob
  smarthome = smarthome
  profileApp = profileApp
  assistantAgent = assistantAgent
  sensorClient = sensorClient
  assistant = assistant
  lock = lock
  sensor = sensor
  aliceHome = aliceHome
  view = view
  control = control
  unlock = unlock
  read = read
  gateway = gateway
  service = service
  agentRunner = agentRunner
  edgeUnlock = edgeUnlock
  edgeProfile = edgeProfile
  apiProfile = apiProfile
  edgeAssistant = edgeAssistant
  deviceUnlock = deviceUnlock
  deviceState = deviceState
  agentTask = agentTask
  ingest = ingest
  deployed = deployed
  offboarded = offboarded
  c1 = c1
  c2 = c2
  Users = {alice, bob}
  Applications = {smarthome, profileApp}
  Agents = {assistant}
  Devices = {lock, sensor}
  Profiles = {alice}
  Homes = {aliceHome}
  Capabilities = {view, control, unlock, read}
  Clients = {smarthome, profileApp, assistantAgent, sensorClient}
  Workloads = {gateway, service, agentRunner}
  Endpoints = {edgeUnlock, edgeProfile, edgeAssistant, deviceUnlock, deviceState, apiProfile, agentTask, ingest}
  Configs = {deployed}
  SpecialPaths = {}
  Clicks = {c1, c2}
  Calls = {}
  Requests = {}
  Never = Never
  None = None
  Gateway = gateway
  Service = service
  Runner = agentRunner
  AgentClient = assistantAgent
  Audience = {smarthome}
  TelemetryCap = 1
  Operator <- MCOperator
  HomeOwner <- MCHomeOwner
  HomeOf <- MCHomeOf
  Document <- MCDocument
  Worlds <- MCWorlds
  Asks <- MCAsks
  Sessions <- MCSessions
  Edge <- MCEdge
  Inner <- MCInner
  Task <- MCTask
  InitialState <- MCInitialState
INVARIANTS
  MeshTypeOK
  AgentServesWhoeverAsked
  AnswersAreTrue
PROPERTIES
  EveryHopAuthorized
  DoorsOpenForTheirOwners
  TelemetryIsOwn
  EveryClickAnswered
