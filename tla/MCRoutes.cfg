SPECIFICATION Spec
CONSTANTS
  profile = profile
  PROFILE = PROFILE
  profilePort = profilePort
  home = home
  elsewhere = elsewhere
  GET = GET
  get = get
  POST = POST
  PUT = PUT
  alpha = alpha
  beta = beta
  other = other
  x = x
  y = y
  Hosts = {profile, PROFILE, profilePort, home, elsewhere}
  Methods = {GET, get, POST, PUT}
  Literals = {alpha, beta, other}
  Params = {x, y}
  Blank = Blank
  Star = Star
  Empty = Empty
  Broken = Broken
  Query = Query
  None = None
  MaxParts = 3
  Lower <- MCLower
  Upper <- MCUpper
  Bare <- MCBare
  Documents <- MCDocuments
  Requests <- MCRequests
INVARIANTS
  RoutesTypeOK
  FileOrderIsIrrelevant
  RefusalsAreJustified
  NarrowerRuleDecides
