SPECIFICATION Spec
CONSTANTS
  alice = alice
  bob = bob
  profileApp = profileApp
  smarthome = smarthome
  assistantAgent = assistantAgent
  sensorClient = sensorClient
  stranger = stranger
  assistant = assistant
  sensor = sensor
  aliceHome = aliceHome
  read = read
  unlock = unlock
  runner = runner
  backend = backend
  landing = landing
  console = console
  profile = profile
  door = door
  telemetry = telemetry
  unmapped = unmapped
  callback = callback
  deployed = deployed
  reworked = reworked
  offboarded = offboarded
  stepUpPage = stepUpPage
  c1 = c1
  None = None
  Never = Never
  Users = {alice, bob}
  Applications = {profileApp, smarthome}
  Agents = {assistant}
  Devices = {sensor}
  Homes = {aliceHome}
  Capabilities = {read, unlock}
  Operator <- MCOperator
  HomeOwner <- MCHomeOwner
  HomeOf <- MCHomeOf
  Clients = {profileApp, smarthome, assistantAgent, sensorClient, stranger}
  Workloads = {runner, backend}
  Endpoints = {landing, console, profile, door, telemetry, unmapped, callback}
  SpecialPaths = {callback}
  Configs = {stepUpPage}
  Document <- MCDocument
  Calls = {c1}
  Requests <- MCRequests
  Worlds <- MCWorlds
INVARIANT
  AgentNeverPassesStepUp
